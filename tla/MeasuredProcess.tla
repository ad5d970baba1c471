---------------------------- MODULE MeasuredProcess ----------------------------
(***************************************************************************)
(* One command run under measurement on Windows (run_measured in           *)
(* compiler/selfhost/windows_process_measure.py), the supervisor of every  *)
(* benchmark and verifier: the command starts suspended, enters a Job      *)
(* object, runs while its memory is sampled, and is ended when it exceeds  *)
(* a limit or its time. The command and what it starts run at the same     *)
(* time; every Windows call of the supervisor may fail.                    *)
(***************************************************************************)
EXTENDS Naturals, FiniteSetsExt

CONSTANTS
  MaxMemory,   \* bound: units of memory the processes may take
  PrivateLimits, WorkingLimits,   \* limits a caller may set, in these units
  NoLimit

ASSUME MemoryAssumption ==
  MaxMemory \in Nat /\ PrivateLimits \subseteq Nat /\ WorkingLimits \subseteq Nat

VARIABLES
  limits,      \* private bytes of the job, working set of the command, a timeout or not
  step,        \* of the supervisor
  job,         \* "none", "open", "closed"
  child,       \* the command: "none", "suspended", "running", "exited"
  descendant,  \* a process the command starts: "none", "running", "exited"
  members,     \* who is in the job
  use, peak,   \* private bytes of the job, now and at most
  working,     \* peak working set of the command
  peakAtExit,  \* what peak was when the command ended
  late,        \* the timeout has passed
  breach,      \* memory_limit_name
  timedOut,
  readLast,    \* the counters of the ended command could be read
  outcome      \* "running", "returned", "raised"

commandVars == <<child, descendant, members, use, peak, working, peakAtExit, late>>
supervisorVars == <<step, job, breach, timedOut, readLast, outcome>>
measureVars == <<limits, commandVars, supervisorVars>>

MeasureInit ==
  /\ limits \in [private : PrivateLimits \union {NoLimit},
                working : WorkingLimits \union {NoLimit}, timeout : BOOLEAN]
  /\ step = "create_job" /\ job = "none"
  /\ child = "none" /\ descendant = "none" /\ members = {}
  /\ use = 0 /\ peak = 0 /\ working = 0 /\ peakAtExit = 0 /\ late = FALSE
  /\ breach = "none" /\ timedOut = FALSE /\ readLast = FALSE
  /\ outcome = "running"

-----------------------------------------------------------------------------
(* The processes. *)

Allocates ==
  /\ "running" \in {child, descendant} /\ use < MaxMemory
  /\ limits.private # NoLimit => use < limits.private
  /\ use' = use + 1
  /\ peak' = Max({peak, use'})
  /\ UNCHANGED <<child, descendant, members, working, peakAtExit, late>>

Touches ==
  /\ child = "running" /\ working < MaxMemory
  /\ working' = working + 1
  /\ UNCHANGED <<child, descendant, members, use, peak, peakAtExit, late>>

\* What a process in the job starts is in the job.
Spawns ==
  /\ child = "running" /\ descendant = "none"
  /\ descendant' = "running"
  /\ members' = IF "child" \in members THEN members \union {"descendant"} ELSE members
  /\ UNCHANGED <<child, use, peak, working, peakAtExit, late>>

Exits ==
  \/ /\ child = "running" /\ child' = "exited"
     /\ use' = IF descendant = "running" THEN use ELSE 0
     /\ peakAtExit' = peak
     /\ UNCHANGED <<descendant, members, peak, working, late>>
  \/ /\ descendant = "running" /\ descendant' = "exited"
     /\ use' = IF child = "running" THEN use ELSE 0
     /\ UNCHANGED <<child, members, peak, working, peakAtExit, late>>

TimeoutPasses ==
  /\ limits.timeout /\ ~late /\ late' = TRUE
  /\ UNCHANGED <<child, descendant, members, use, peak, working, peakAtExit>>

CommandStep ==
  /\ Allocates \/ Touches \/ Spawns \/ Exits \/ TimeoutPasses
  /\ UNCHANGED <<limits, supervisorVars>>

Ended(who, p) == IF who /\ p \in {"suspended", "running"} THEN "exited" ELSE p

\* TerminateJobObject, and the last handle closed on a job that kills on close.
TerminateJob ==
  /\ child' = Ended("child" \in members, child)
  /\ descendant' = Ended("descendant" \in members, descendant)
  /\ use' = 0
  /\ peakAtExit' = IF child' # child THEN peak ELSE peakAtExit
  /\ UNCHANGED <<members, peak, working, late>>

-----------------------------------------------------------------------------
(* The supervisor. *)

StepTo(s) == step' = s
Calm == UNCHANGED <<breach, timedOut, readLast>>

CreateJob ==
  /\ step = "create_job"
  /\ \/ StepTo("create_process") /\ job' = "open" /\ UNCHANGED outcome
     \/ StepTo("done") /\ outcome' = "raised" /\ UNCHANGED job
  /\ Calm /\ UNCHANGED commandVars

\* CreateProcess with CREATE_SUSPENDED.
CreateCommand ==
  /\ step = "create_process"
  /\ \/ StepTo("assign") /\ child' = "suspended"
     \/ StepTo("close_job") /\ UNCHANGED child
  /\ Calm /\ UNCHANGED <<job, outcome, descendant, members, use, peak, working, peakAtExit, late>>

\* A mistake: the command runs before it is in the job.
ResumeFirst ==
  /\ step = "assign"
  /\ \/ StepTo("resume") /\ child' = "running" /\ members' = {"child"}
     \/ StepTo("abort") /\ child' = "running" /\ UNCHANGED members
  /\ Calm /\ UNCHANGED <<job, outcome, descendant, use, peak, working, peakAtExit, late>>

AssignCommand ==
  /\ step = "assign"
  /\ \/ StepTo("resume") /\ members' = {"child"}
     \/ StepTo("abort") /\ UNCHANGED members
  /\ Calm /\ UNCHANGED <<job, outcome, child, descendant, use, peak, working, peakAtExit, late>>

\* A suspend count other than 1 is refused, whatever the thread does by then.
ResumeCommand ==
  /\ step = "resume"
  /\ \/ StepTo("poll") /\ child' = "running"
     \/ StepTo("abort") /\ child' \in {"suspended", "running"}
  /\ Calm /\ UNCHANGED <<job, outcome, descendant, members, use, peak, working, peakAtExit, late>>

\* The exception handler of _JobProcess ends the process it made.
AbortLaunch ==
  /\ step = "abort"
  /\ StepTo("close_job")
  /\ child' = "exited"
  /\ Calm /\ UNCHANGED <<job, outcome, descendant, members, use, peak, working, peakAtExit, late>>

\* A mistake: the time is not looked at while the command runs.
PollUntilExit ==
  /\ step = "poll"
  /\ StepTo(IF child = "exited" THEN "wait" ELSE "sample")
  /\ UNCHANGED <<job, outcome, breach, timedOut, readLast, commandVars>>

PollCommand ==
  /\ step = "poll"
  /\ CASE child = "exited" -> StepTo("wait") /\ UNCHANGED <<timedOut, commandVars>>
       [] child # "exited" /\ late -> StepTo("wait") /\ timedOut' = TRUE /\ TerminateJob
       [] OTHER -> StepTo("sample") /\ UNCHANGED <<timedOut, commandVars>>
  /\ UNCHANGED <<job, outcome, breach, readLast>>

\* The limits in the order in which they are looked at.
PrivateBreach == limits.private # NoLimit /\ peak >= limits.private
WorkingBreach == limits.working # NoLimit /\ working > limits.working
Breached == CASE PrivateBreach -> "job_private_bytes"
              [] ~PrivateBreach /\ WorkingBreach -> "working_set_bytes"
              [] OTHER -> "none"

Sample ==
  /\ step = "sample"
  /\ breach' = Breached
  /\ IF Breached = "none" THEN StepTo("sleep") /\ UNCHANGED commandVars ELSE StepTo("wait") /\ TerminateJob
  /\ UNCHANGED <<job, outcome, timedOut, readLast>>

\* The counters of a process that has just ended may be gone; any other failure of
\* a call in the loop ends the measurement.
SampleFails ==
  /\ step \in {"sample", "sleep"}
  /\ IF step = "sample" /\ child = "exited" THEN step' \in {"wait", "fail"} ELSE StepTo("fail")
  /\ Calm /\ UNCHANGED <<job, outcome, commandVars>>

\* The wait for the process, for at most a sampling interval.
Sleep ==
  /\ step = "sleep" /\ StepTo("poll")
  /\ Calm /\ UNCHANGED <<job, outcome, commandVars>>

WaitForExit ==
  /\ step = "wait" /\ child = "exited"
  /\ StepTo("account")
  /\ Calm /\ UNCHANGED <<job, outcome, commandVars>>

\* A mistake: what the samples have seen is all that is known.
NoAccount ==
  /\ step = "account"
  /\ StepTo("close_return") /\ readLast' = TRUE
  /\ UNCHANGED <<job, outcome, timedOut, breach, commandVars>>

\* The high-water marks once more, for a peak no sample has seen.
Account ==
  /\ step = "account"
  /\ \/ /\ StepTo("close_return")
        /\ readLast' \in BOOLEAN
        /\ breach' = CASE breach # "none" -> breach
                       [] breach = "none" /\ PrivateBreach -> "job_private_bytes"
                       [] breach = "none" /\ ~PrivateBreach /\ readLast' -> Breached
                       [] OTHER -> "none"
     \/ StepTo("fail") /\ UNCHANGED <<breach, readLast>>
  /\ UNCHANGED <<job, outcome, timedOut, commandVars>>

EndJob ==
  /\ step = "fail"
  /\ StepTo("close_job") /\ TerminateJob
  /\ Calm /\ UNCHANGED <<job, outcome>>

\* The finally of run_measured.
CloseJob ==
  /\ step \in {"close_job", "close_return"}
  /\ StepTo("done") /\ TerminateJob
  /\ job' = "closed"
  /\ outcome' = IF step = "close_return" THEN "returned" ELSE "raised"
  /\ Calm

SupervisorStep ==
  /\ \/ CreateJob \/ CreateCommand \/ AssignCommand \/ ResumeCommand \/ AbortLaunch
     \/ PollCommand \/ Sample \/ SampleFails \/ Sleep \/ WaitForExit
     \/ Account \/ EndJob \/ CloseJob
  /\ UNCHANGED limits

MeasureNext == CommandStep \/ SupervisorStep

MeasureSpec == MeasureInit /\ [][MeasureNext]_measureVars

-----------------------------------------------------------------------------
(***************************************************************************)
(* A command runs in the job only, and once the call has returned or       *)
(* raised nothing it started is alive: whichever call failed, whatever was *)
(* running when the time was over or a limit was hit.                      *)
(***************************************************************************)
NothingOutlivesTheCall ==
  /\ child = "running" => "child" \in members
  /\ outcome # "running" => ~({child, descendant} \intersect {"suspended", "running"} # {})

(***************************************************************************)
(* A limit that was exceeded while the command ran is reported, also when  *)
(* the peak came and went between two samples or just before the exit; the *)
(* working set is known of the command alone, and only where its counters  *)
(* could still be read.                                                    *)
(***************************************************************************)
LimitsAreReported ==
  outcome = "returned" /\ breach = "none" =>
    /\ limits.private # NoLimit => peakAtExit < limits.private
    /\ limits.working # NoLimit /\ readLast => working <= limits.working

\* The turns the supervisor has left at each step, once the time is up.
TurnsLeft ==
  [create_job |-> 11, create_process |-> 10, assign |-> 9, resume |-> 8, sample |-> 7,
   sleep |-> 6, poll |-> 5, wait |-> 4, account |-> 3, fail |-> 2, abort |-> 2,
   close_job |-> 1, close_return |-> 1, done |-> 0]

(***************************************************************************)
(* The wait after the loop, which has no limit, is for a command that has  *)
(* ended already; and once the time is up the supervisor goes through no   *)
(* step twice, whatever the command does and whichever call fails.         *)
(***************************************************************************)
TimeoutIsFinal ==
  [][/\ step = "wait" => child = "exited"
     /\ late /\ step' # step => TurnsLeft[step'] < TurnsLeft[step]]_measureVars

(***************************************************************************)
(* A call with a timeout comes back, however long the command would run,   *)
(* whatever fails: as long as the supervisor is scheduled and time passes. *)
(***************************************************************************)
CallComesBack == limits.timeout ~> outcome # "running"
=============================================================================
