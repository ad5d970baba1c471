------------------------------ MODULE FreshIndex ------------------------------
(***************************************************************************)
(* native_object_cache_index_fresh (backend_native_object_cache.p): where  *)
(* each partition begins in the merged stream of fresh function records.   *)
(* One pass over the records, which must come in source order; the native  *)
(* chunks' merge supplies them so.                                         *)
(***************************************************************************)
EXTENDS Partitioning

CONSTANTS
  Sources,      \* how many sources
  Partitions,   \* how many partitions
  MaxRecords    \* bound: how many fresh records a merged stream holds

ASSUME PartitionsAssumption ==
  /\ Sources \in Nat \ {0}
  /\ Partitions \in Nat \ {0}
  /\ MaxRecords \in Nat

Partition == 0 .. Partitions - 1

\* The sources of partition p, as write_image writes them in an object header.
Members(p) == Cut(Sources, p, Partitions) .. Cut(Sources, p + 1, Partitions) - 1

VARIABLES
  records,     \* the source of each record of the merged stream
  cursor,      \* records read so far
  nextStart,   \* the partition whose start is written next
  previous,    \* the source of the record read last, 0 before the first
  starts,      \* the index under construction
  verdict      \* "running", then what the function returns

vars == <<records, cursor, nextStart, previous, starts, verdict>>

TypeOK ==
  /\ records \in Seq(0 .. Sources - 1)
  /\ cursor \in 0 .. Len(records)
  /\ nextStart \in 0 .. Partitions + 1
  /\ verdict = "running" => nextStart <= Partitions
  /\ previous \in 0 .. Sources - 1
  /\ starts \in [0 .. Partitions -> Nat]
  /\ verdict \in {"running", "indexed", "rejected"}

Init ==
  /\ \E n \in 0 .. MaxRecords : records \in [1 .. n -> 0 .. Sources - 1]
  /\ cursor = 0
  /\ nextStart = 0
  /\ previous = 0
  /\ starts = [p \in 0 .. Partitions |-> 0]
  /\ verdict = "running"

\* A mistake: only the partition of the record itself is given a start.
FillOnly(last) ==
  [p \in 0 .. Partitions |-> IF nextStart <= p /\ p = last THEN cursor
                                                           ELSE starts[p]]

\* Every start still missing up to partition `last` is the present cursor.
FillUpTo(last) ==
  [p \in 0 .. Partitions |-> IF nextStart <= p /\ p <= last THEN cursor
                                                            ELSE starts[p]]

IndexRecord ==
  LET source == records[cursor + 1]
      partition == SourcePartitionIndex(source, Sources, Partitions) IN
  /\ verdict = "running" /\ cursor < Len(records)
  /\ source >= previous
  /\ starts' = FillUpTo(partition)
  /\ nextStart' = IF partition < nextStart THEN nextStart ELSE partition + 1
  /\ previous' = source
  /\ cursor' = cursor + 1
  /\ UNCHANGED <<records, verdict>>

\* A record of an earlier source than the one before: the caller retries the
\* build without the cache.
RejectRecord ==
  /\ verdict = "running" /\ cursor < Len(records)
  /\ records[cursor + 1] < previous
  /\ verdict' = "rejected"
  /\ UNCHANGED <<records, cursor, nextStart, previous, starts>>

IndexTail ==
  /\ verdict = "running" /\ cursor = Len(records)
  /\ starts' = FillUpTo(Partitions)
  /\ nextStart' = Partitions + 1
  /\ verdict' = "indexed"
  /\ UNCHANGED <<records, cursor, previous>>

Finished == verdict # "running" /\ UNCHANGED vars

Next == IndexRecord \/ RejectRecord \/ IndexTail \/ Finished

Spec == Init /\ [][Next]_vars

-------------------------------------------------------------------------------
(***************************************************************************)
(* The index is right: the extent of each partition holds exactly the      *)
(* records of its own sources, none lost to a neighbour, also for empty    *)
(* partitions at either end.  A wrong extent would save one partition's    *)
(* code under another partition's key.                                     *)
(***************************************************************************)
ExtentsHoldOwnRecords ==
  verdict = "indexed" =>
    \A p \in Partition : \A i \in 1 .. Len(records) :
      (starts[p] < i /\ i <= starts[p + 1]) <=> records[i] \in Members(p)

(***************************************************************************)
(* Only a stream that is out of source order is rejected, and every such   *)
(* stream is: the merge of the chunks is what must supply the order.       *)
(***************************************************************************)
RejectsExactlyDisorder ==
  LET sorted == \A i, j \in 1 .. Len(records) : i < j => records[i] <= records[j]
  IN  /\ verdict = "rejected" => ~sorted
      /\ verdict = "indexed" => sorted

(***************************************************************************)
(* What the caller of the index relies on: a stream is either indexed, and *)
(* then every extent is right, or refused for a disorder that is there.    *)
(***************************************************************************)
IndexIsExact == ExtentsHoldOwnRecords /\ RejectsExactlyDisorder
===============================================================================
