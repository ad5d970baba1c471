----------------------------- MODULE EvidenceRun ------------------------------
(***************************************************************************)
(* One invocation of a script whose commands may fail at any step, over    *)
(* the files that an earlier invocation may have left.                     *)
(***************************************************************************)
EXTENDS VerifierScripts

VARIABLES
  script, at,
  fresh,     \* files made by this invocation
  gone,      \* files this invocation has deleted
  bad,       \* files that tell of a failure
  good,      \* everything recorded so far has passed
  failed,    \* something this invocation did has failed
  stale,     \* it has relied on a file of an earlier one
  result,    \* the result file of this invocation: "none", "PASS", "FAIL"
  exit       \* "running", "success" (0), "failure"

runVars == <<script, at, fresh, gone, bad, good, failed, stale, result, exit>>
fileVars == <<fresh, gone, bad>>
judgement == <<good, failed, stale>>

Steps == Scripts[script]
Current == Steps[at]
Products == MadeBy(Steps)

RunInit ==
  /\ script \in DOMAIN Scripts /\ at = 1
  /\ fresh = {} /\ gone = {} /\ bad = {}
  /\ good = TRUE /\ failed = FALSE /\ stale = FALSE
  /\ result = "none" /\ exit = "running"

-----------------------------------------------------------------------------
Old(files) == (files \ fresh) \intersect Products

Taken == Current.after \subseteq fresh \ bad
Does(kind) == exit = "running" /\ Taken /\ Current.do = kind
Proceed == at' = at + 1 /\ UNCHANGED <<script, exit>>
GiveUp ==
  /\ exit' = "failure" /\ failed' = TRUE
  /\ UNCHANGED <<script, at, fileVars, good, stale, result>>

\* The files of an earlier invocation are there or not; a step that relies on them
\* goes on with what they say.
Relies == stale' = (stale \/ Old(Current.uses) # {})
CanBeThere == Old(Current.uses) \intersect gone = {}
CanBeMissing == Old(Current.uses) # {}

Makes(told) ==
  /\ fresh' = fresh \union Current.makes
  /\ gone' = gone \ Current.makes
  /\ bad' = IF told THEN bad \union Current.makes ELSE bad \ Current.makes

\* subprocess.run: it succeeds, it fails, or it only writes that it has failed.
CommandDoes ==
  /\ CanBeThere /\ Relies /\ Proceed
  /\ UNCHANGED <<good, failed, result>>
  /\ \/ Makes(FALSE)
     \/ ~Current.honest /\ Makes(TRUE)

RunCommand == Does("run") /\ (CommandDoes \/ GiveUp)

CommandFails ==
  /\ failed' = TRUE /\ good' = FALSE
  /\ Proceed /\ UNCHANGED <<stale, result>>
  /\ \/ Makes(TRUE)
     \/ UNCHANGED fileVars

TryCommand == Does("try") /\ (CommandDoes \/ CommandFails)

\* A refusal without its record passes as one; what an earlier invocation left stays.
RefuseCommand ==
  /\ Does("refuse")
  /\ \/ CanBeThere /\ Relies /\ Makes(FALSE) /\ UNCHANGED <<good, failed>>
     \/ Current.makes # {} /\ failed' = TRUE /\ UNCHANGED <<fileVars, good, stale>>
     \/ failed' = TRUE /\ good' = FALSE /\ Makes(TRUE) /\ UNCHANGED stale
  /\ Proceed /\ UNCHANGED result

WriteFiles ==
  /\ Does("write")
  /\ \/ CanBeThere /\ Relies /\ Makes(FALSE) /\ Proceed /\ UNCHANGED <<good, failed, result>>
     \/ GiveUp

EmptyFiles ==
  /\ Does("empty")
  /\ gone' = gone \union Current.makes /\ fresh' = fresh \ Current.makes /\ bad' = bad \ Current.makes
  /\ Proceed /\ UNCHANGED <<judgement, result>>

Holds == Current.uses \intersect bad = {}

Demand ==
  /\ Does("demand")
  /\ \/ CanBeThere /\ Holds /\ Relies /\ Proceed /\ UNCHANGED <<fileVars, good, failed, result>>
     \/ GiveUp

Judges(holds) == good' = (good /\ holds) /\ failed' = (failed \/ ~holds)

RecordCheck ==
  /\ Does("record")
  /\ \/ /\ CanBeThere /\ Relies
        /\ \E holds \in BOOLEAN : Judges(Holds /\ holds)
        /\ Proceed /\ UNCHANGED <<fileVars, result>>
     \/ GiveUp

Consult ==
  /\ Does("consult")
  /\ \/ /\ CanBeThere /\ Relies
        /\ \E holds \in BOOLEAN : Judges(Holds /\ holds)
        /\ Proceed /\ UNCHANGED <<fileVars, result>>
     \/ /\ CanBeMissing /\ Judges(FALSE)
        /\ Proceed /\ UNCHANGED <<fileVars, stale, result>>
     \/ GiveUp

Stop ==
  /\ Does("stop")
  /\ IF good THEN Proceed /\ UNCHANGED <<fileVars, judgement, result>> ELSE GiveUp

WriteResult ==
  /\ exit = "running" /\ Taken /\ Current.do \in {"publish", "claim"}
  /\ result' = IF good \/ Current.do = "claim" THEN "PASS" ELSE "FAIL"
  /\ Proceed /\ UNCHANGED <<fileVars, judgement>>

Conclude ==
  /\ exit = "running" /\ Taken /\ Current.do \in {"answer", "finish"}
  /\ exit' = IF good \/ Current.do = "finish" THEN "success" ELSE "failure"
  /\ UNCHANGED <<script, at, fileVars, judgement, result>>

Skip ==
  /\ exit = "running" /\ ~Taken
  /\ Proceed /\ UNCHANGED <<fileVars, judgement, result>>

RunNext ==
  \/ RunCommand \/ TryCommand \/ RefuseCommand \/ WriteFiles \/ EmptyFiles
  \/ Demand \/ RecordCheck \/ Consult \/ Stop
  \/ WriteResult \/ Conclude \/ Skip

RunSpec == RunInit /\ [][RunNext]_runVars

-----------------------------------------------------------------------------
(***************************************************************************)
(* A script that exits with 0 has earned it: every command and check of    *)
(* this invocation passed, no file it made tells of a failure that nobody  *)
(* read, and nothing it relied on was left over from an earlier            *)
(* invocation. The two scripts of OverOldRecords have not.                 *)
(***************************************************************************)
SuccessIsEarned ==
  exit = "success" /\ script \notin OverOldRecords => ~failed /\ ~stale /\ bad = {}

(***************************************************************************)
(* The claim of STATUS.md: full and release gates force fresh native       *)
(* evidence.                                                               *)
(***************************************************************************)
FullIsFresh ==
  exit = "success" /\ script = "windows_native_workflow_full" => ~stale

(***************************************************************************)
(* The result file and the exit code of an invocation say the same.        *)
(***************************************************************************)
ResultIsTheVerdict == exit # "running" /\ result # "none" => (result = "PASS") = (exit = "success")
================================================================================
