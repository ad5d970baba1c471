------------------------------ MODULE SerialFlow ------------------------------
(***************************************************************************)
(* What the flow validation of a project promises, whatever the number of  *)
(* worker threads and however they interleave: the project is accepted if  *)
(* no analysed source has an error, and otherwise rejected with every      *)
(* error reported once, in source order.  The only other ends are a        *)
(* failure for want of memory or of room for the errors, which reports     *)
(* none of them, and the end of the process by the allocation guard.       *)
(***************************************************************************)
EXTENDS Partitioning

CONSTANTS
  NumSources,   \* sources of the project, numbered from 0
  Partitions,   \* source_partitions of the object cache
  MaxErrors     \* errors one source may have

Source == 0 .. NumSources - 1

VARIABLES
  saved,      \* partitions with a saved object: semantic_cache_offsets is not 0
  faulty,     \* the number of errors flow_validate_source finds in a source
  verdict,    \* how the validation ended
  report      \* the errors flow_emit_errors prints

flowVars == <<saved, faulty, verdict, report>>

\* source_partition_cache_source_hit: the source is not analysed again.
Hit(s) == SourcePartitionIndex(s, NumSources, Partitions) \in saved

\* An error is numbered by its source and its place in the source.
ErrorOf(s, k) == s * MaxErrors + k
ErrorsOf(s) == {ErrorOf(s, k) : k \in 0 .. faulty[s] - 1}

\* The errors to be found in a set of sources.
Expected(S) == UNION {ErrorsOf(s) : s \in {x \in S : ~Hit(x)}}

FlowInit ==
  /\ saved \in SUBSET (0 .. Partitions - 1)
  /\ faulty \in [Source -> 0 .. MaxErrors]
  /\ verdict = "pending"
  /\ report = <<>>

FlowAccepts ==
  /\ verdict = "pending" /\ verdict' = "accepted"
  /\ Expected(Source) = {}
  /\ UNCHANGED <<saved, faulty, report>>

FlowRejects ==
  /\ verdict = "pending" /\ verdict' = "rejected"
  /\ Expected(Source) # {}
  /\ Lists(report', Expected(Source))
  /\ UNCHANGED <<saved, faulty>>

FlowFails ==
  /\ verdict = "pending" /\ verdict' \in {"failed", "aborted"}
  /\ UNCHANGED <<saved, faulty, report>>

FlowNext == FlowAccepts \/ FlowRejects \/ FlowFails

FlowSpec == FlowInit /\ [][FlowNext]_flowVars
===============================================================================
