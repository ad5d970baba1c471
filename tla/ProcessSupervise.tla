--------------------------- MODULE ProcessSupervise ---------------------------
(***************************************************************************)
(* process.run of a natively compiled program: the machine code that the   *)
(* compiler writes for it (backend_native_runtime_process_setup.p, _       *)
(* supervise.p, _results.p in compiler/selfhost/source). The caller starts *)
(* a program suspended, puts it into a Job, resumes it, and then polls: is *)
(* it over, is it within its memory and its time, is there output in the   *)
(* pipe. The program, and a helper it starts, run at the same time, and    *)
(* the helper may keep the pipe when the program is over.                  *)
(*                                                                         *)
(* What the pipe holds is counted in pieces, and their order is left out.  *)
(* A failing call of Windows ends the calling program with exit code 70    *)
(* ("fatal") except where the code makes a result of it. A read finds what *)
(* the peek before it has found, so it is never an empty one.              *)
(***************************************************************************)
EXTENDS Naturals

CONSTANTS
  MaxRoom,       \* pieces of output captured at most (4 MiB)
  PipeRoom,      \* pieces a pipe holds
  MemoryLimit,   \* working set of the program that is allowed
  MaxResident    \* bound: working set the program may reach

ASSUME SuperviseAssumption ==
  /\ {MaxRoom, PipeRoom} \subseteq Nat \ {0}
  /\ {MemoryLimit, MaxResident} \subseteq Nat

Processes == {"program", "helper"}

VARIABLES
  turn,       \* of the caller
  program,    \* "none", "suspended", "running", "exited"
  helper,     \* "none", "running", "exited"
  inJob,      \* the program, and so the helper
  writers,    \* who has a handle of the pipe's writing end
  pipe,       \* pieces in the pipe, by who wrote them
  resident,   \* peak working set of the program
  overdue,    \* the timeout has passed since the start
  readable,   \* this Windows still tells the counters of a process that is over
  signaled,   \* the caller has seen the program's end
  over,       \* limits it has seen exceeded
  captured,   \* pieces in its buffer
  room,       \* pieces its buffer holds
  lost,       \* history: a piece the program wrote was thrown away
  verdict     \* "running", "launch", "memory", "time", "output", "success", "fatal"

processVars == <<program, helper, inJob, writers, resident, overdue, readable>>
bufferVars == <<captured, room, lost>>
superviseVars == <<turn, processVars, pipe, signaled, over, bufferVars, verdict>>

Nobody == [w \in Processes |-> 0]
Pieces(held) == held["program"] + held["helper"]

SuperviseInit ==
  /\ turn = "prepare" /\ verdict = "running"
  /\ program = "none" /\ helper = "none" /\ inJob = FALSE
  /\ writers = {} /\ pipe = Nobody
  /\ resident = 0 /\ overdue = FALSE /\ readable \in BOOLEAN
  /\ signaled = FALSE /\ over = {}
  /\ captured = 0 /\ room = 1 /\ lost = FALSE

-----------------------------------------------------------------------------
(* The program and its helper. *)

IsOpen == turn \notin {"await", "counters", "release", "done"}
State(w) == IF w = "program" THEN program ELSE helper

\* A full pipe makes the writer wait.
Write(w) ==
  /\ State(w) = "running" /\ w \in writers
  /\ IsOpen /\ Pieces(pipe) < PipeRoom
  /\ pipe' = [pipe EXCEPT ![w] = @ + 1]
  /\ UNCHANGED processVars

Grow ==
  /\ program = "running" /\ resident < MaxResident
  /\ resident' = resident + 1
  /\ UNCHANGED <<program, helper, inJob, writers, overdue, readable, pipe>>

\* The helper inherits the handle; who is in a job starts processes in the job.
Spawn ==
  /\ program = "running" /\ helper = "none"
  /\ helper' = "running"
  /\ writers' \in {writers, IF "program" \in writers THEN writers \union {"helper"} ELSE writers}
  /\ UNCHANGED <<program, inJob, resident, overdue, readable, pipe>>

CloseOutput(w) ==
  /\ State(w) = "running" /\ w \in writers
  /\ writers' = writers \ {w}
  /\ UNCHANGED <<program, helper, inJob, resident, overdue, readable, pipe>>

Exit(w) ==
  /\ State(w) = "running"
  /\ IF w = "program" THEN program' = "exited" /\ UNCHANGED helper
                      ELSE helper' = "exited" /\ UNCHANGED program
  /\ writers' = writers \ {w}
  /\ UNCHANGED <<inJob, resident, overdue, readable, pipe>>

TimePasses ==
  /\ program \in {"running", "exited"} /\ ~overdue /\ overdue' = TRUE
  /\ UNCHANGED <<program, helper, inJob, writers, resident, readable, pipe>>

ProcessStep ==
  /\ \/ \E w \in Processes : Write(w) \/ CloseOutput(w) \/ Exit(w)
     \/ Grow \/ Spawn \/ TimePasses
  /\ UNCHANGED <<turn, signaled, over, bufferVars, verdict>>

-----------------------------------------------------------------------------
(* The caller. *)

Goto(t) == turn' = t /\ UNCHANGED verdict
Return(v) == turn' = "done" /\ verdict' = v

\* TerminateJobObject, or the end of the last handle of a job that kills on close.
KillJob ==
  /\ program' = IF inJob THEN "exited" ELSE program
  /\ helper' = IF inJob /\ helper = "running" THEN "exited" ELSE helper
  /\ writers' = IF inJob THEN {} ELSE writers \ {"caller"}
  /\ UNCHANGED <<inJob, resident, overdue, readable>>

\* The calling program ends, and all its handles with it.
Fatal ==
  /\ Return("fatal") /\ KillJob
  /\ UNCHANGED <<pipe, signaled, over, bufferVars>>

\* The pipe, whose writing end is inherited; then the Job and its limits.
Prepare ==
  /\ turn = "prepare"
  /\ \/ Goto("create") /\ writers' = {"caller"}
     \/ Return("launch") /\ UNCHANGED writers
     \/ Return("fatal") /\ UNCHANGED writers
  /\ UNCHANGED <<program, helper, inJob, resident, overdue, readable, pipe, signaled, over, bufferVars>>

CreateProcess ==
  /\ turn = "create"
  /\ \/ Goto("assign") /\ program' = "suspended" /\ writers' = {"caller", "program"}
     \/ Return("launch") /\ writers' = {} /\ UNCHANGED program
  /\ UNCHANGED <<helper, inJob, resident, overdue, readable, pipe, signaled, over, bufferVars>>

AssignToJob ==
  /\ turn = "assign"
  /\ \/ /\ Goto("resume") /\ inJob' = TRUE
        /\ UNCHANGED <<program, helper, writers, resident, overdue, readable>>
        /\ UNCHANGED <<pipe, signaled, over, bufferVars>>
     \/ Fatal

\* The caller closes its own writing end, so that the pipe can come to an end.
Resume ==
  /\ turn = "resume"
  /\ \/ /\ Goto("poll") /\ program' = "running" /\ writers' = {"program"}
        /\ UNCHANGED <<helper, inJob, resident, overdue, readable>>
        /\ UNCHANGED <<pipe, signaled, over, bufferVars>>
     \/ Fatal

\* A program that is over is no longer supervised; its output is still read.
Poll ==
  /\ turn = "poll"
  /\ IF program = "exited" THEN signaled' = TRUE /\ Goto("peek")
                           ELSE Goto("measure") /\ UNCHANGED signaled
  /\ UNCHANGED <<processVars, pipe, over, bufferVars>>

Exceeds(limit, condition) ==
  IF condition THEN over' = over \union {limit} /\ KillJob ELSE UNCHANGED <<over, processVars>>

\* The program may be over by now, and its counters with it.
Measure ==
  /\ turn = "measure"
  /\ \/ /\ program = "exited" => readable
        /\ Exceeds("memory", resident > MemoryLimit)
        /\ Goto("clock")
        /\ UNCHANGED <<pipe, signaled, bufferVars>>
     \/ Fatal

Clock ==
  /\ turn = "clock"
  /\ \/ /\ Exceeds("time", overdue)
        /\ Goto("peek")
        /\ UNCHANGED <<pipe, signaled, bufferVars>>
     \/ overdue /\ Fatal

\* A mistake: the pipe is read at once, and the read waits for output.
ReadAtOnce ==
  /\ turn = "peek"
  /\ Goto(IF Pieces(pipe) = 0 /\ writers = {} THEN "close" ELSE "read")
  /\ UNCHANGED <<processVars, pipe, signaled, over, bufferVars>>

\* PeekNamedPipe fails when the pipe is empty and nobody can write any more.
Peek ==
  /\ turn = "peek"
  /\ Goto(IF Pieces(pipe) > 0 THEN "read"
          ELSE IF writers = {} \/ signaled THEN "close" ELSE "wait")
  /\ UNCHANGED <<processVars, pipe, signaled, over, bufferVars>>

\* A mistake: a program that is over has nothing more in the pipe.
WaitToClose ==
  /\ turn = "wait"
  /\ signaled' = (program = "exited")
  /\ Goto(IF signaled' THEN "close" ELSE "poll")
  /\ UNCHANGED <<processVars, pipe, over, bufferVars>>

\* At most 25 ms.
Wait ==
  /\ turn = "wait"
  /\ signaled' = (program = "exited")
  /\ Goto("poll")
  /\ UNCHANGED <<processVars, pipe, over, bufferVars>>

Take(taken) == pipe' = [w \in Processes |-> pipe[w] - taken[w]]
Portions == {taken \in [Processes -> 0 .. PipeRoom] :
               Pieces(taken) > 0 /\ \A w \in Processes : taken[w] <= pipe[w]}

\* A buffer of the greatest size is full: what comes is read and thrown away.
Drain ==
  /\ captured = room /\ room >= MaxRoom
  /\ over' = over \union {"output"}
  /\ \E taken \in Portions :
       Take(taken) /\ lost' = (lost \/ taken["program"] > 0)
  /\ UNCHANGED <<captured, room>>

\* A full buffer is doubled first.
Capture ==
  /\ captured < room \/ room < MaxRoom
  /\ room' = IF captured = room THEN 2 * room ELSE room
  /\ \E taken \in Portions :
       /\ captured + Pieces(taken) <= room'
       /\ Pieces(taken) = Pieces(pipe) \/ captured + Pieces(taken) = room'
       /\ Take(taken) /\ captured' = captured + Pieces(taken)
  /\ UNCHANGED <<over, lost>>

\* The doubled buffer may be refused.
Read ==
  /\ turn = "read"
  /\ \/ /\ Drain \/ Capture
        /\ Goto("poll")
        /\ UNCHANGED <<processVars, signaled>>
     \/ captured = room /\ room < MaxRoom /\ Fatal

\* The reading end is closed; what is still in the pipe is gone.
ClosePipe ==
  /\ turn = "close" /\ Goto("await")
  /\ pipe' = Nobody /\ lost' = (lost \/ pipe["program"] > 0)
  /\ UNCHANGED <<processVars, signaled, over, captured, room>>

\* WaitForSingleObject without a limit.
Await ==
  /\ turn = "await" /\ program = "exited"
  /\ Goto("counters")
  /\ UNCHANGED <<processVars, pipe, signaled, over, bufferVars>>

\* The high-water mark once more, for a limit crossed between two polls.
ReadCounters ==
  /\ turn = "counters" /\ Goto("release")
  /\ over' = IF readable /\ resident > MemoryLimit THEN over \union {"memory"} ELSE over
  /\ UNCHANGED <<processVars, pipe, signaled, bufferVars>>

\* The handles are closed, the Job's among them, and the result is written.
Release ==
  /\ turn = "release" /\ KillJob
  /\ Return(CASE "memory" \in over -> "memory"
              [] "memory" \notin over /\ "time" \in over -> "time"
              [] over = {"output"} -> "output"
              [] over = {} -> "success")
  /\ UNCHANGED <<pipe, signaled, over, bufferVars>>

CallerStep ==
  \/ Prepare \/ CreateProcess \/ AssignToJob \/ Resume
  \/ Poll \/ Measure \/ Clock \/ Peek \/ Wait \/ Read
  \/ ClosePipe \/ Await \/ ReadCounters \/ Release

SuperviseNext == ProcessStep \/ CallerStep

\* The caller is scheduled, and time passes.
SuperviseSpec ==
  /\ SuperviseInit /\ [][SuperviseNext]_superviseVars
  /\ WF_superviseVars(CallerStep) /\ WF_superviseVars(ProcessStep /\ TimePasses)

-----------------------------------------------------------------------------
(***************************************************************************)
(* process.run says success of a program only if all that the program      *)
(* wrote is in the buffer, whenever it ended between a look into the pipe  *)
(* and the next, and if it kept its memory limit as far as the counters    *)
(* can still be read. When the call is over, whatever failed, nothing it   *)
(* started is running: at most a program that could not be put into the    *)
(* Job is left, suspended for good.                                        *)
(***************************************************************************)
OutcomeIsTrue ==
  /\ verdict = "success" =>
       ~lost /\ pipe["program"] = 0 /\ (readable => resident <= MemoryLimit)
  /\ verdict # "running" => "running" \notin {program, helper}

\* What the caller has left to do, as long as nobody adds to the pipe.
CallerLeft ==
  LET ahead == [prepare |-> 14, create |-> 13, assign |-> 12, resume |-> 11, wait |-> 10,
                poll |-> 9, measure |-> 8, clock |-> 7, peek |-> 6, read |-> 5,
                close |-> 4, await |-> 3, counters |-> 2, release |-> 1, done |-> 0]
  IN  10 * Pieces(pipe) + ahead[turn]

(***************************************************************************)
(* Nothing but a program that has given up its output holds the caller: a  *)
(* read finds output, so that it does not block; the wait without a limit  *)
(* is for a program that is over or cannot write any more; the look at the *)
(* clock, once the time is over, leaves nobody who could write; and from   *)
(* then on each step of the caller brings it nearer to its end.            *)
(***************************************************************************)
CallerIsNotHeld ==
  [][/\ turn = "read" => Pieces(pipe) > 0
     /\ turn = "await" => program = "exited" \/ writers = {}
     /\ turn = "clock" /\ turn' # "clock" /\ overdue => writers' = {}
     /\ writers = {} /\ turn' # turn => CallerLeft' < CallerLeft]_superviseVars

(***************************************************************************)
(* The call comes back within its time, whatever the program and the       *)
(* helper do, but for two cases: the program gives up its output, and the  *)
(* caller waits without a limit for its end; or it is over, the limits are *)
(* no longer looked at, and a helper that has kept its output writes on    *)
(* and on.                                                                 *)
(***************************************************************************)
SupervisionEnds ==
  \/ <>(verdict # "running")
  \/ <>[](program = "running" /\ writers = {})
  \/ <>[](program = "exited" /\ "helper" \in writers) /\ []<>(pipe["helper"] > 0)
===============================================================================
