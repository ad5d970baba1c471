---------------------------- MODULE SerialEmission ----------------------------
(***************************************************************************)
(* What emitting the sources of a project promises, whatever the number of *)
(* worker threads and however they interleave: the outcome is a function   *)
(* of the sources and of the buffers for their records, the emitted        *)
(* records are in source order and complete, and a rejected project        *)
(* reports every source with diagnostics once, in source order.            *)
(***************************************************************************)
EXTENDS Partitioning

CONSTANTS
  NumSources,   \* sources of the project, numbered from 0
  Kinds         \* what emitting a source can come to (see AllKinds)

Source == 0 .. NumSources - 1

(***************************************************************************)
(* What c_emit_source_record_mode does with a source:                      *)
(*   "clean"     accepted and lowered: its records are written             *)
(*   "long"      the same, and they are longer than its share of a buffer  *)
(*   "cached"    accepted, not lowered: its partition has a saved object   *)
(*   "hit"       skipped altogether: saved object and semantic evidence    *)
(*   "errors"    acceptance finds errors: counted, nothing is lowered      *)
(*   "fatal"     an internal failure: the source range stops               *)
(*   "growth"    asks for a derived type that the frozen table lacks       *)
(***************************************************************************)
AllKinds == {"clean", "long", "cached", "hit", "errors", "fatal", "growth"}
LoweredKinds == {"clean", "long"}

VARIABLES
  kind,
  tight,    \* the sources whose records do not fit the buffers this call has
  outcome, output, diagnostics

serialVars == <<kind, tight, outcome, output, diagnostics>>

Of(kinds) == {s \in Source : kind[s] \in kinds}
Lowered   == Of(LoweredKinds)
Erroneous == Of({"errors"})
Broken    == Of({"fatal", "growth"}) \union tight

SerialInit ==
  /\ kind \in [Source -> Kinds]
  /\ tight \in SUBSET Source
  /\ outcome = "pending"
  /\ output = <<>>
  /\ diagnostics = <<>>

SerialEmit ==
  /\ outcome = "pending" /\ outcome' = "emitted"
  /\ Broken = {} /\ Erroneous = {}
  /\ Lists(output', Lowered)
  /\ UNCHANGED <<kind, tight, diagnostics>>

SerialReject ==
  /\ outcome = "pending" /\ outcome' = "rejected"
  /\ Broken = {} /\ Erroneous # {}
  /\ Lists(diagnostics', Erroneous)
  /\ UNCHANGED <<kind, tight, output>>

SerialFail ==
  /\ outcome = "pending" /\ outcome' = "failed"
  /\ Broken # {}
  /\ UNCHANGED <<kind, tight, output, diagnostics>>

SerialNext == SerialEmit \/ SerialReject \/ SerialFail

SerialSpec == SerialInit /\ [][SerialNext]_serialVars
===============================================================================
