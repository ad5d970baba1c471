--------------------------- MODULE ConformanceCache ---------------------------
(***************************************************************************)
(* The conformance cache of scripts/windows_native_workflow.py: the daily  *)
(* workflow (native_conformance) validates the compiler again only when    *)
(* what it was validated over has changed; the full workflow validates     *)
(* always and fills the cache afterwards (update_cache_from_benchmark).    *)
(* Inputs change at any time, during an invocation too; an invocation may  *)
(* end anywhere, and no two of them run over one output directory at once. *)
(***************************************************************************)
EXTENDS Naturals

CONSTANTS Versions     \* contents of the compiler, the fixtures and the runtime

Nothing == [of |-> "nothing"]
Torn == [of |-> "torn"]
Report(of, valid) == [of |-> of, valid |-> valid]
Entry(fingerprint, report) == [of |-> "entry", fingerprint |-> fingerprint, report |-> report]

VARIABLES
  inputs,
  conforms,      \* the versions whose validation passes
  report,        \* conformance-report.json: Nothing, Torn or a Report
  cache,         \* conformance-cache.json: Nothing, Torn or an Entry
  measured,      \* the report of the benchmark of the full workflow
  stage,         \* of the invocation that runs: "idle" when there is none
  fingerprint,   \* of the invocation
  hit, code, passed,
  validated,     \* the versions whose validation has passed
  drifted,       \* the inputs have changed between fingerprint and validation of the invocation
  doubtful       \* so they had for the invocation that the entry comes from

cacheVars == <<inputs, conforms, report, cache, measured, stage, fingerprint, hit, code, passed,
               validated, drifted, doubtful>>
cacheFiles == <<report, cache, measured>>
world == <<inputs, conforms>>
doubts == <<drifted, doubtful>>

CacheInit ==
  /\ inputs \in Versions /\ conforms \in SUBSET Versions
  /\ report = Nothing /\ cache = Nothing /\ measured = Nothing
  /\ stage = "idle" /\ fingerprint = inputs
  /\ hit = FALSE /\ code = 0 /\ passed = FALSE /\ validated = {}
  /\ drifted = FALSE /\ doubtful = FALSE

StageTo(s) == stage' = s

-----------------------------------------------------------------------------
\* conformance_fingerprint: a digest of the inputs, equal only for equal ones.
Fingerprint == inputs

\* valid_conformance_report: it can be read and nothing in it failed.
IsReport(r) == r \notin {Nothing, Torn}
ValidReport(r) == IsReport(r) /\ r.valid

\* native_conformance takes the fingerprint before it validates, update_cache_from_benchmark
\* after the benchmark has.
BetweenTheTwo == stage \in {"validate", "copy"}

Edit ==
  /\ inputs' \in Versions \ {inputs}
  /\ drifted' = (drifted \/ BetweenTheTwo)
  /\ UNCHANGED <<conforms, cacheFiles, stage, fingerprint, hit, code, passed, validated, doubtful>>

\* A mistake: the report may have been written again since.
IsHitByFingerprint(force) ==
  /\ ~force
  /\ cache.of = "entry" /\ cache.fingerprint = Fingerprint
  /\ ValidReport(report)

\* native_conformance, until the command.
IsHit(force) ==
  /\ ~force
  /\ cache.of = "entry" /\ cache.fingerprint = Fingerprint
  /\ ValidReport(report) /\ cache.report = report

StartDaily ==
  /\ stage = "idle"
  /\ fingerprint' = Fingerprint
  /\ \E force \in BOOLEAN : hit' = IsHit(force)
  /\ StageTo(IF hit' THEN "judge" ELSE "validate")
  /\ code' = 0 /\ passed' = FALSE /\ drifted' = FALSE
  /\ UNCHANGED <<world, cacheFiles, validated, doubtful>>

\* openc validate writes its report at the end, whatever the verdict; without one the
\* former report stays.
Verdict == Report(inputs, inputs \in conforms)
NowValidated == validated' = IF inputs \in conforms THEN validated \union {inputs} ELSE validated

Validate ==
  /\ stage = "validate" /\ StageTo("judge")
  /\ \/ report' = Verdict /\ code' = (IF inputs \in conforms THEN 0 ELSE 1) /\ NowValidated
     \/ code' = 1 /\ report' \in {report, Torn} /\ UNCHANGED validated
  /\ UNCHANGED <<world, cache, measured, fingerprint, hit, passed, doubts>>

\* A hit has a time budget of its own.
Judge ==
  /\ stage = "judge"
  /\ \E inTime \in BOOLEAN :
       passed' = ((hit \/ code = 0) /\ ValidReport(report) /\ (hit => inTime))
  /\ StageTo(IF passed' THEN "remember" ELSE "idle")
  /\ UNCHANGED <<world, cacheFiles, fingerprint, hit, code, validated, doubts>>

\* After a hit the entry is written again as it was.
Remember ==
  /\ stage = "remember" /\ StageTo("idle")
  /\ cache' = Entry(fingerprint, report)
  /\ doubtful' = IF hit THEN doubtful ELSE drifted
  /\ UNCHANGED <<world, report, measured, fingerprint, hit, code, passed, validated, drifted>>

-----------------------------------------------------------------------------
\* The full workflow: the benchmark passes only with a valid report of its own.
StartFull ==
  /\ stage = "idle" /\ hit' = FALSE /\ code' = 0 /\ passed' = FALSE /\ drifted' = FALSE
  /\ \/ measured' = Verdict /\ NowValidated
        /\ \E inBudget \in BOOLEAN : StageTo(IF inputs \in conforms /\ inBudget THEN "copy" ELSE "idle")
     \/ StageTo("idle") /\ UNCHANGED <<measured, validated>>
  /\ UNCHANGED <<world, report, cache, fingerprint, doubtful>>

\* update_cache_from_benchmark.
CopyReport ==
  /\ stage = "copy" /\ StageTo("remember")
  /\ report' = measured /\ fingerprint' = Fingerprint /\ passed' = TRUE
  /\ UNCHANGED <<world, cache, measured, hit, code, validated, doubts>>

\* The invocation is ended; the file it was writing is left in the middle.
Crash ==
  /\ stage # "idle" /\ StageTo("idle")
  /\ report' \in IF stage \in {"validate", "copy"} THEN {report, Torn} ELSE {report}
  /\ cache' \in IF stage = "remember" THEN {cache, Torn} ELSE {cache}
  /\ UNCHANGED <<world, measured, fingerprint, hit, code, passed, validated, doubts>>

CacheNext ==
  \/ Edit \/ StartDaily \/ Validate \/ Judge \/ Remember
  \/ StartFull \/ CopyReport \/ Crash

CacheSpec == CacheInit /\ [][CacheNext]_cacheVars

-----------------------------------------------------------------------------
(***************************************************************************)
(* A cache hit stands for a validation: the report on disk is that of a    *)
(* validation that passed, and it is one of the very inputs of the         *)
(* fingerprint, whatever was edited and undone, validated, failed or       *)
(* interrupted since, unless the inputs had changed between the two when   *)
(* the entry was made.                                                     *)
(***************************************************************************)
HitIsEarned ==
  hit /\ stage # "idle" =>
    /\ report.of \in validated /\ report = Report(report.of, TRUE)
    /\ ~doubtful => report.of = fingerprint

(***************************************************************************)
(* The claim of STATUS.md: a daily run reuses a report for the exact       *)
(* inputs it was made from.                                                *)
(***************************************************************************)
HitIsExact == hit /\ stage # "idle" => report.of = fingerprint
===============================================================================
