----------------------------- MODULE ToolchainProof -----------------------------
(***************************************************************************)
(* The programs around the compiler: process.run of compiled programs, the *)
(* supervisor of measured commands, the publication of a release, the      *)
(* conformance cache of the daily workflow and the scripts that build,     *)
(* verify and measure.                                                     *)
(***************************************************************************)
EXTENDS ProcessSupervise, MeasuredProcess, ReleasePublication, ConformanceCache, EvidenceRun,
        SequenceTheorems, TLAPS

(***************************************************************************)
(* What process.run reports is true, for any size of the pipe and of the   *)
(* buffer, any memory limit, and any order in which the program, its       *)
(* helper, the clock and the caller move.                                  *)
(***************************************************************************)


Starting == {"prepare", "create", "assign", "resume"}
Ending == {"await", "counters", "release"}
Turn == Starting \union Ending
          \union {"poll", "measure", "clock", "peek", "wait", "read", "close", "done"}
Verdicts == {"running", "launch", "memory", "time", "output", "success", "fatal"}

SuperviseTypeOK ==
  /\ turn \in Turn /\ verdict \in Verdicts
  /\ program \in {"none", "suspended", "running", "exited"}
  /\ helper \in {"none", "running", "exited"}
  /\ inJob \in BOOLEAN /\ overdue \in BOOLEAN /\ readable \in BOOLEAN
  /\ signaled \in BOOLEAN /\ lost \in BOOLEAN
  /\ writers \subseteq {"caller", "program", "helper"}
  /\ pipe \in [Processes -> Nat]
  /\ resident \in Nat /\ captured \in Nat /\ room \in Nat
  /\ over \subseteq {"memory", "time", "output"}

\* What runs is in the Job, and nothing runs before the caller has put it there.
JobInv ==
  /\ turn \in Starting => program \in {"none", "suspended"} /\ helper = "none"
  /\ turn \in {"prepare", "create"} => program = "none"
  /\ turn = "resume" => inJob
  /\ "running" \in {program, helper} => inJob
  /\ turn = "done" <=> verdict # "running"
  /\ turn = "done" => "running" \notin {program, helper}

\* The program's pieces leave the pipe for the buffer, as long as that has room.
PipeInv ==
  /\ "program" \in writers => program \in {"suspended", "running"}
  /\ signaled => program = "exited"
  /\ turn = "close" => pipe["program"] = 0 /\ "program" \notin writers
  /\ turn \in Ending => pipe["program"] = 0
  /\ lost => "output" \in over

\* From the end of the program on, its high-water mark stands.
MemoryInv ==
  /\ turn \in {"counters", "release"} => program = "exited"
  /\ turn = "release" /\ readable /\ resident > MemoryLimit => "memory" \in over

SuperviseInv == SuperviseTypeOK /\ JobInv /\ PipeInv /\ MemoryInv /\ OutcomeIsTrue

LEMMA InitInv == SuperviseInit => SuperviseInv
<1> SUFFICES ASSUME SuperviseInit PROVE SuperviseInv
  OBVIOUS
<1> USE DEF SuperviseInit, Turn, Starting, Ending, Verdicts, Nobody, Processes
<1>1. SuperviseTypeOK
  BY DEF SuperviseTypeOK
<1>2. JobInv
  BY DEF JobInv
<1>3. PipeInv
  BY DEF PipeInv
<1>4. MemoryInv
  BY DEF MemoryInv
<1>5. OutcomeIsTrue
  BY DEF OutcomeIsTrue
<1> QED
  BY <1>1, <1>2, <1>3, <1>4, <1>5 DEF SuperviseInv

\* Whatever the program and its helper do, they do it within the Job and to the pipe.
LEMMA ProcessKeepsInv ==
  ASSUME SuperviseAssumption, SuperviseInv, ProcessStep
  PROVE  SuperviseInv'
<1> USE DEF SuperviseInv, SuperviseTypeOK, JobInv, PipeInv, MemoryInv, OutcomeIsTrue,
            Turn, Starting, Ending, Verdicts, bufferVars, processVars, IsOpen, State, Processes
<1>0. UNCHANGED <<turn, signaled, over, bufferVars, verdict>>
  BY DEF ProcessStep
<1>1. ASSUME NEW w \in Processes, Write(w)
      PROVE  SuperviseInv'
  BY <1>0, <1>1 DEF Write
<1>2. ASSUME NEW w \in Processes, CloseOutput(w)
      PROVE  SuperviseInv'
  BY <1>0, <1>2 DEF CloseOutput
<1>3. ASSUME NEW w \in Processes, Exit(w)
      PROVE  SuperviseInv'
  BY <1>0, <1>3 DEF Exit
<1>4. CASE Grow
  BY <1>0, <1>4 DEF Grow
<1>5. CASE Spawn
  BY <1>0, <1>5 DEF Spawn
<1>6. CASE TimePasses
  BY <1>0, <1>6 DEF TimePasses
<1> QED
  BY <1>1, <1>2, <1>3, <1>4, <1>5, <1>6 DEF ProcessStep

\* A failing call ends the caller and with it the Job.
LEMMA FatalKeepsInv ==
  ASSUME SuperviseInv, Fatal, turn # "done"
  PROVE  SuperviseInv'
BY DEF SuperviseInv, SuperviseTypeOK, JobInv, PipeInv, MemoryInv, OutcomeIsTrue,
       Turn, Starting, Ending, Verdicts, bufferVars, Processes, Fatal, Return, KillJob

\* The calls before the program runs.
LEMMA StartKeepsInv ==
  ASSUME SuperviseInv, Prepare \/ CreateProcess \/ AssignToJob \/ Resume
  PROVE  SuperviseInv'
<1> USE DEF SuperviseInv, SuperviseTypeOK, JobInv, PipeInv, MemoryInv, OutcomeIsTrue,
            Turn, Starting, Ending, Verdicts, bufferVars, Processes, Goto, Return
<1>1. CASE Prepare
  BY <1>1 DEF Prepare
<1>2. CASE CreateProcess
  BY <1>2 DEF CreateProcess
<1>3. CASE AssignToJob /\ ~Fatal
  <2>1. SuperviseTypeOK'
    BY <1>3 DEF AssignToJob
  <2>2. JobInv'
    BY <1>3 DEF AssignToJob
  <2>3. PipeInv'
    BY <1>3 DEF AssignToJob
  <2>4. MemoryInv'
    BY <1>3 DEF AssignToJob
  <2>5. OutcomeIsTrue'
    BY <1>3 DEF AssignToJob
  <2> QED
    BY <2>1, <2>2, <2>3, <2>4, <2>5
<1>4. CASE Resume /\ ~Fatal
  <2>1. /\ turn = "resume" /\ turn' = "poll" /\ program' = "running" /\ writers' = {"program"}
        /\ UNCHANGED <<verdict, helper, inJob, resident, overdue, readable>>
        /\ UNCHANGED <<pipe, signaled, over, bufferVars>>
    BY <1>4 DEF Resume
  <2>2. inJob' /\ ~signaled' /\ helper' = "none"
    BY <2>1
  <2>3. SuperviseTypeOK' /\ MemoryInv' /\ OutcomeIsTrue'
    BY <2>1
  <2>4. JobInv'
    BY <2>1, <2>2
  <2>5. PipeInv'
    BY <2>1, <2>2
  <2> QED
    BY <2>3, <2>4, <2>5
<1> QED
  BY <1>1, <1>2, <1>3, <1>4, FatalKeepsInv DEF AssignToJob, Resume

\* The looks at the program's end, memory and time.
LEMMA LimitsKeepInv ==
  ASSUME SuperviseInv, Poll \/ Measure \/ Clock \/ Wait
  PROVE  SuperviseInv'
<1> USE DEF SuperviseInv, SuperviseTypeOK, JobInv, PipeInv, MemoryInv, OutcomeIsTrue,
            Turn, Starting, Ending, Verdicts, bufferVars, processVars, Processes, Goto, KillJob
<1>1. CASE Poll
  BY <1>1 DEF Poll
<1>2. CASE Measure /\ ~Fatal
  <2>1. SuperviseTypeOK'
    BY <1>2 DEF Measure, Exceeds
  <2>2. JobInv'
    BY <1>2 DEF Measure, Exceeds
  <2>3. PipeInv'
    BY <1>2 DEF Measure, Exceeds
  <2>4. MemoryInv'
    BY <1>2 DEF Measure, Exceeds
  <2>5. OutcomeIsTrue'
    BY <1>2 DEF Measure, Exceeds
  <2> QED
    BY <2>1, <2>2, <2>3, <2>4, <2>5
<1>3. CASE Clock /\ ~Fatal
  <2>1. SuperviseTypeOK'
    BY <1>3 DEF Clock, Exceeds
  <2>2. JobInv'
    BY <1>3 DEF Clock, Exceeds
  <2>3. PipeInv'
    BY <1>3 DEF Clock, Exceeds
  <2>4. MemoryInv'
    BY <1>3 DEF Clock, Exceeds
  <2>5. OutcomeIsTrue'
    BY <1>3 DEF Clock, Exceeds
  <2> QED
    BY <2>1, <2>2, <2>3, <2>4, <2>5
<1>4. CASE Wait
  BY <1>4 DEF Wait
<1> QED
  BY <1>1, <1>2, <1>3, <1>4, FatalKeepsInv DEF Measure, Clock

\* The looks into the pipe. The program's end was seen before the pipe was found empty.
LEMMA PipeKeepsInv ==
  ASSUME SuperviseAssumption, SuperviseInv, Peek \/ Read \/ ClosePipe
  PROVE  SuperviseInv'
<1> USE DEF SuperviseInv, SuperviseTypeOK, JobInv, PipeInv, MemoryInv, OutcomeIsTrue,
            Turn, Starting, Ending, Verdicts, bufferVars, processVars, Processes, Goto
<1>1. CASE Peek
  <2>1. Pieces(pipe) = 0 => pipe["program"] = 0
    BY DEF Pieces
  <2>2. Pieces(pipe) > 0 \/ Pieces(pipe) = 0
    BY DEF Pieces
  <2> QED
    BY <1>1, <2>1, <2>2 DEF Peek
<1>2. CASE Read /\ ~Fatal
  <2>1. PICK taken \in Portions : Take(taken)
    BY <1>2 DEF Read, Drain, Capture
  <2>2. pipe' \in [Processes -> Nat]
    BY <2>1 DEF Take, Portions, SuperviseAssumption
  <2>3. /\ captured' \in Nat /\ room' \in Nat /\ lost' \in BOOLEAN
        /\ over \subseteq over' /\ over' \subseteq {"memory", "time", "output"}
        /\ lost' => "output" \in over'
    <3>1. CASE Drain
      <4>1. PICK t \in Portions : lost' = (lost \/ t["program"] > 0)
        BY <3>1 DEF Drain
      <4>2. lost' \in BOOLEAN
        BY <4>1
      <4> QED
        BY <3>1, <4>2 DEF Drain
    <3>2. CASE Capture
      BY <3>2 DEF Capture, Portions, Pieces, SuperviseAssumption
    <3> QED
      BY <1>2, <3>1, <3>2 DEF Read
  <2>4. turn = "read" /\ turn' = "poll" /\ UNCHANGED <<verdict, processVars, signaled>>
    BY <1>2 DEF Read
  <2>5. SuperviseTypeOK'
    BY <2>2, <2>3, <2>4
  <2>6. JobInv' /\ MemoryInv' /\ OutcomeIsTrue'
    BY <2>4
  <2>7. PipeInv'
    BY <2>3, <2>4
  <2> QED
    BY <2>5, <2>6, <2>7
<1>3. CASE ClosePipe
  BY <1>3 DEF ClosePipe, Nobody
<1> QED
  BY <1>1, <1>2, <1>3, FatalKeepsInv DEF Read

\* The wait for the end, the last look at the counters, and the result.
LEMMA EndKeepsInv ==
  ASSUME SuperviseAssumption, SuperviseInv, Await \/ ReadCounters \/ Release
  PROVE  SuperviseInv'
<1> USE DEF SuperviseInv, SuperviseTypeOK, JobInv, PipeInv, MemoryInv, OutcomeIsTrue,
            Turn, Starting, Ending, Verdicts, bufferVars, processVars, Processes
<1>1. CASE Await
  BY <1>1 DEF Await, Goto
<1>2. CASE ReadCounters
  BY <1>2 DEF ReadCounters, Goto
<1>3. CASE Release
  <2>1. /\ turn = "release" /\ turn' = "done" /\ program' = "exited"
        /\ helper' \in {"none", "exited"}
        /\ UNCHANGED <<inJob, resident, overdue, readable, pipe, signaled, over, bufferVars>>
        /\ writers' \subseteq writers /\ "program" \notin writers'
    BY <1>3 DEF Release, Return, KillJob
  <2>2. verdict' \in Verdicts \ {"running"} /\ (verdict' = "success" => over = {})
    <3>1. over = {} \/ over = {"output"} \/ "memory" \in over \/ "time" \in over
      OBVIOUS
    <3> QED
      BY <1>3, <3>1 DEF Release, Return
  <2>3. SuperviseTypeOK' /\ JobInv' /\ PipeInv' /\ MemoryInv'
    BY <2>1, <2>2
  <2>4. OutcomeIsTrue'
    <3>1. ASSUME over = {}
          PROVE  ~lost /\ pipe["program"] = 0 /\ (readable => ~(resident > MemoryLimit))
      BY <3>1, <2>1
    <3>2. ~(resident > MemoryLimit) => resident <= MemoryLimit
      BY DEF SuperviseAssumption
    <3> QED
      BY <2>1, <2>2, <3>1, <3>2
  <2> QED
    BY <2>3, <2>4
<1> QED
  BY <1>1, <1>2, <1>3

LEMMA SuperviseHolds == SuperviseSpec => []SuperviseInv
<1>1. SuperviseInit => SuperviseInv
  BY InitInv
<1>2. SuperviseInv /\ [SuperviseNext]_superviseVars => SuperviseInv'
  <2> SUFFICES ASSUME SuperviseInv, [SuperviseNext]_superviseVars
               PROVE  SuperviseInv'
    OBVIOUS
  <2>1. CASE ProcessStep
    BY <2>1, SuperviseAssumption, ProcessKeepsInv
  <2>2. CASE CallerStep
    BY <2>2, SuperviseAssumption, StartKeepsInv, LimitsKeepInv, PipeKeepsInv, EndKeepsInv DEF CallerStep
  <2>3. CASE UNCHANGED superviseVars
    BY <2>3 DEF superviseVars, processVars, bufferVars, SuperviseInv, SuperviseTypeOK, JobInv,
                PipeInv, MemoryInv, OutcomeIsTrue
  <2> QED
    BY <2>1, <2>2, <2>3 DEF SuperviseNext
<1> QED
  BY <1>1, <1>2, PTL DEF SuperviseSpec

(***************************************************************************)
(* What process.run reports is true: it calls a run a success only with    *)
(* all the output of the program and within the memory limit, and leaves   *)
(* nothing running behind.                                                 *)
(***************************************************************************)
THEOREM ReportIsTrue == SuperviseSpec => []OutcomeIsTrue
<1>1. SuperviseInv => OutcomeIsTrue
  BY DEF SuperviseInv
<1> QED
  BY <1>1, SuperviseHolds, PTL

(* What can hold the caller. *)

Supervising == {"resume", "poll", "measure", "clock", "peek", "wait", "read"}

\* A read finds output, and the pipe is given up only when the program is over or
\* nobody can write.
HeldInv ==
  /\ turn = "read" => Pieces(pipe) > 0
  /\ turn \in {"close", "await"} => program = "exited" \/ writers = {}
  /\ turn \in Supervising => inJob

LEMMA TakenFromThePipe ==
  ASSUME SuperviseAssumption, SuperviseInv, Drain \/ Capture
  PROVE  Pieces(pipe') < Pieces(pipe) /\ Pieces(pipe') \in Nat
<1>1. PICK taken \in Portions : Take(taken)
  BY DEF Drain, Capture
<1>2. /\ taken["program"] \in Nat /\ taken["helper"] \in Nat /\ Pieces(taken) > 0
      /\ taken["program"] <= pipe["program"] /\ taken["helper"] <= pipe["helper"]
      /\ pipe["program"] \in Nat /\ pipe["helper"] \in Nat
  BY DEF Portions, Processes, SuperviseAssumption, SuperviseInv, SuperviseTypeOK
<1>3. /\ pipe'["program"] = pipe["program"] - taken["program"]
      /\ pipe'["helper"] = pipe["helper"] - taken["helper"]
  BY <1>1 DEF Take, Processes
<1> QED
  BY <1>2, <1>3 DEF Pieces

LEMMA ProcessesHoldNobody ==
  ASSUME SuperviseInv, HeldInv, ProcessStep
  PROVE  HeldInv'
<1>0. UNCHANGED <<turn, signaled, over, bufferVars, verdict>>
  BY DEF ProcessStep
<1>1. ASSUME NEW w \in Processes, Write(w) PROVE HeldInv'
  <2>1. /\ pipe' = [pipe EXCEPT ![w] = @ + 1] /\ pipe \in [Processes -> Nat]
        /\ UNCHANGED processVars
    BY <1>1 DEF Write, SuperviseInv, SuperviseTypeOK
  <2>2. Pieces(pipe)' > Pieces(pipe) /\ Pieces(pipe) \in Nat /\ Pieces(pipe)' \in Nat
    BY <2>1 DEF Pieces, Processes
  <2> QED
    BY <1>0, <2>1, <2>2 DEF HeldInv, processVars
<1>2. ASSUME NEW w \in Processes, CloseOutput(w) \/ Exit(w) PROVE HeldInv'
  <2>1. /\ pipe' = pipe /\ inJob' = inJob /\ writers' = writers \ {w}
        /\ program = "exited" => program' = "exited"
    BY <1>2 DEF CloseOutput, Exit, State
  <2> QED
    BY <1>0, <2>1 DEF HeldInv, Pieces
<1>3. CASE Grow \/ TimePasses
  BY <1>0, <1>3 DEF Grow, TimePasses, HeldInv, Pieces
<1>4. CASE Spawn
  <2>1. /\ pipe' = pipe /\ inJob' = inJob /\ program' = program
        /\ writers = {} => writers' = {}
    BY <1>4 DEF Spawn
  <2> QED
    BY <1>0, <2>1 DEF HeldInv, Pieces
<1> QED
  BY <1>1, <1>2, <1>3, <1>4 DEF ProcessStep

LEMMA CallerIsFree ==
  ASSUME SuperviseAssumption, SuperviseInv, HeldInv, CallerStep
  PROVE  HeldInv'
<1>1. ASSUME turn' \in {"prepare", "create", "assign", "counters", "release", "done"}
      PROVE  HeldInv'
  BY <1>1 DEF HeldInv, Supervising
<1>2. CASE Fatal \/ Prepare \/ CreateProcess \/ Await \/ ReadCounters \/ Release
  BY <1>1, <1>2 DEF Fatal, Prepare, CreateProcess, Await, ReadCounters, Release, Goto, Return
<1>3. ASSUME turn' \in Supervising \ {"read"}, inJob' PROVE HeldInv'
  BY <1>3 DEF HeldInv, Supervising
<1>4. CASE (AssignToJob \/ Resume \/ Measure \/ Clock) /\ ~Fatal
  <2>1. turn' \in Supervising \ {"read"}
    BY <1>4 DEF AssignToJob, Resume, Measure, Clock, Goto, Supervising
  <2>2. inJob'
    BY <1>4 DEF AssignToJob, Resume, Measure, Clock, HeldInv, Supervising, Exceeds, KillJob,
                processVars
  <2> QED
    BY <1>3, <2>1, <2>2
<1>5. CASE Poll \/ Wait \/ (Read /\ ~Fatal)
  <2>1. turn' \in Supervising \ {"read"}
    BY <1>5 DEF Poll, Wait, Read, Goto, Supervising
  <2>2. inJob'
    BY <1>5 DEF Poll, Wait, Read, HeldInv, Supervising, processVars
  <2> QED
    BY <1>3, <2>1, <2>2
<1>6. CASE Peek
  <2>1. /\ turn = "peek" /\ UNCHANGED <<processVars, pipe, signaled>> /\ inJob
        /\ turn' = IF Pieces(pipe) > 0 THEN "read"
                   ELSE IF writers = {} \/ signaled THEN "close" ELSE "wait"
    BY <1>6 DEF Peek, Goto, HeldInv, Supervising
  <2>2. signaled => program = "exited"
    BY DEF SuperviseInv, PipeInv
  <2> QED
    BY <2>1, <2>2 DEF HeldInv, Supervising, processVars, Pieces
<1>7. CASE ClosePipe
  BY <1>7 DEF ClosePipe, Goto, HeldInv, Supervising, processVars
<1> QED
  BY <1>2, <1>4, <1>5, <1>6, <1>7 DEF CallerStep

LEMMA HeldInvHolds == SuperviseSpec => []HeldInv
<1>1. SuperviseInit => HeldInv
  BY DEF SuperviseInit, HeldInv, Supervising
<1>2. SuperviseInv /\ HeldInv /\ [SuperviseNext]_superviseVars => HeldInv'
  <2>1. ASSUME HeldInv, UNCHANGED superviseVars PROVE HeldInv'
    BY <2>1 DEF superviseVars, processVars, HeldInv, Pieces
  <2> QED
    BY <2>1, SuperviseAssumption, ProcessesHoldNobody, CallerIsFree DEF SuperviseNext
<1> QED
  BY <1>1, <1>2, SuperviseHolds, PTL DEF SuperviseSpec

\* The places of the caller in the order of CallerLeft.
Ahead ==
  [prepare |-> 14, create |-> 13, assign |-> 12, resume |-> 11, wait |-> 10,
   poll |-> 9, measure |-> 8, clock |-> 7, peek |-> 6, read |-> 5,
   close |-> 4, await |-> 3, counters |-> 2, release |-> 1, done |-> 0]

\* Where nobody can write, what the caller does next is nearer to its end.
LEMMA CallerAdvances ==
  ASSUME SuperviseAssumption, SuperviseInv, HeldInv, CallerStep, writers = {}
  PROVE  CallerLeft' < CallerLeft
<1>1. /\ Pieces(pipe) \in Nat
      /\ CallerLeft = 10 * Pieces(pipe) + Ahead[turn]
      /\ CallerLeft' = 10 * Pieces(pipe') + Ahead[turn']
  BY DEF CallerLeft, Ahead, Pieces, SuperviseInv, SuperviseTypeOK, Processes
<1>2. ASSUME Pieces(pipe') \in Nat, Pieces(pipe') <= Pieces(pipe),
             Ahead[turn] \in Nat, Ahead[turn'] \in Nat, Ahead[turn'] < Ahead[turn]
      PROVE  CallerLeft' < CallerLeft
  BY <1>1, <1>2
<1>3. ASSUME pipe' = pipe, Ahead[turn] \in Nat, Ahead[turn'] \in Nat, Ahead[turn'] < Ahead[turn]
      PROVE  CallerLeft' < CallerLeft
  BY <1>1, <1>2, <1>3
<1>4. CASE Fatal /\ turn \notin {"done"}
  <2>1. turn' = "done" /\ pipe' = pipe
    BY <1>4 DEF Fatal, Return
  <2>2. Ahead[turn] \in Nat /\ Ahead["done"] = 0 /\ 0 < Ahead[turn]
    BY <1>4 DEF Ahead, SuperviseInv, SuperviseTypeOK, Turn, Starting, Ending
  <2> QED
    BY <1>3, <2>1, <2>2
<1>5. CASE Prepare \/ CreateProcess
  <2>1. /\ pipe' = pipe
        /\ \/ turn = "prepare" /\ turn' \in {"create", "done"}
           \/ turn = "create" /\ turn' \in {"assign", "done"}
    BY <1>5 DEF Prepare, CreateProcess, Goto, Return
  <2> QED
    BY <1>3, <2>1 DEF Ahead
<1>6. CASE (AssignToJob \/ Resume \/ Measure \/ Clock) /\ ~Fatal
  <2>1. /\ pipe' = pipe
        /\ \/ turn = "assign" /\ turn' = "resume"
           \/ turn = "resume" /\ turn' = "poll"
           \/ turn = "measure" /\ turn' = "clock"
           \/ turn = "clock" /\ turn' = "peek"
    BY <1>6 DEF AssignToJob, Resume, Measure, Clock, Goto
  <2> QED
    BY <1>3, <2>1 DEF Ahead
<1>7. CASE Poll \/ Wait
  <2>1. /\ pipe' = pipe
        /\ \/ turn = "poll" /\ turn' \in {"peek", "measure"}
           \/ turn = "wait" /\ turn' = "poll"
    BY <1>7 DEF Poll, Wait, Goto
  <2> QED
    BY <1>3, <2>1 DEF Ahead
<1>8. CASE Peek
  <2>1. pipe' = pipe /\ turn = "peek" /\ turn' \in {"read", "close"}
    BY <1>8 DEF Peek, Goto
  <2> QED
    BY <1>3, <2>1 DEF Ahead
<1>9. CASE Read /\ ~Fatal
  <2>1. turn = "read" /\ turn' = "poll" /\ (Drain \/ Capture)
    BY <1>9 DEF Read, Goto
  <2>2. Pieces(pipe') < Pieces(pipe) /\ Pieces(pipe') \in Nat
    BY <2>1, TakenFromThePipe
  <2>3. Ahead["read"] = 5 /\ Ahead["poll"] = 9
    BY DEF Ahead
  <2> QED
    BY <1>1, <2>1, <2>2, <2>3
<1>10. CASE ClosePipe
  <2>1. pipe' = Nobody /\ turn = "close" /\ turn' = "await"
    BY <1>10 DEF ClosePipe, Goto
  <2>2. Pieces(pipe') = 0
    BY <2>1 DEF Pieces, Nobody, Processes
  <2>3. Ahead["close"] = 4 /\ Ahead["await"] = 3
    BY DEF Ahead
  <2> QED
    BY <1>1, <2>1, <2>2, <2>3
<1>11. CASE Await \/ ReadCounters \/ Release
  <2>1. /\ pipe' = pipe
        /\ \/ turn = "await" /\ turn' = "counters"
           \/ turn = "counters" /\ turn' = "release"
           \/ turn = "release" /\ turn' = "done"
    BY <1>11 DEF Await, ReadCounters, Release, Goto, Return
  <2> QED
    BY <1>3, <2>1 DEF Ahead
<1> QED
  BY <1>4, <1>5, <1>6, <1>7, <1>8, <1>9, <1>10, <1>11
     DEF CallerStep, AssignToJob, Resume, Measure, Clock, Read

(***************************************************************************)
(* For every limit and every size of buffer and pipe, only a program that  *)
(* has given up its output can hold process.run back once the time is      *)
(* over: reads do not block, and each step leads on.                       *)
(***************************************************************************)
THEOREM NobodyHoldsTheCaller == SuperviseSpec => CallerIsNotHeld
<1> DEFINE Free == /\ turn = "read" => Pieces(pipe) > 0
                   /\ turn = "await" => program = "exited" \/ writers = {}
                   /\ turn = "clock" /\ turn' # "clock" /\ overdue => writers' = {}
                   /\ writers = {} /\ turn' # turn => CallerLeft' < CallerLeft
<1>1. ASSUME SuperviseInv, HeldInv, [SuperviseNext]_superviseVars PROVE Free
  <2>1. /\ turn = "read" => Pieces(pipe) > 0
        /\ turn = "await" => program = "exited" \/ writers = {}
    BY <1>1 DEF HeldInv
  <2>2. ASSUME turn' # turn PROVE CallerStep
    BY <1>1, <2>2 DEF SuperviseNext, ProcessStep, superviseVars
  <2>3. ASSUME turn = "clock", turn' # "clock", overdue PROVE writers' = {}
    <3>1. Clock /\ inJob
      BY <1>1, <2>2, <2>3
         DEF CallerStep, Prepare, CreateProcess, AssignToJob, Resume, Poll, Measure, Peek,
             Wait, Read, ClosePipe, Await, ReadCounters, Release, HeldInv, Supervising
    <3> QED
      BY <2>3, <3>1 DEF Clock, Exceeds, Fatal, KillJob
  <2> QED
    BY <1>1, <2>1, <2>2, <2>3, SuperviseAssumption, CallerAdvances
<1>2. SuperviseInv /\ HeldInv /\ [SuperviseNext]_superviseVars => [Free]_superviseVars
  BY <1>1
<1> QED
  BY <1>2, SuperviseHolds, HeldInvHolds, PTL DEF SuperviseSpec, CallerIsNotHeld

-----------------------------------------------------------------------------
(***************************************************************************)
(* A measured command: whichever call of the supervisor fails, nothing it  *)
(* started is left, and what exceeded a limit is reported, for every limit *)
(* and every amount of memory.                                             *)
(***************************************************************************)

Kinds == {"none", "suspended", "running", "exited"}

MeasureTypeOK ==
  /\ limits \in [private : PrivateLimits \union {NoLimit},
                 working : WorkingLimits \union {NoLimit}, timeout : BOOLEAN]
  /\ child \in Kinds /\ descendant \in Kinds
  /\ use \in Nat /\ peak \in Nat /\ working \in Nat /\ peakAtExit \in Nat

\* What is alive is in the job, but for a command that is not yet assigned to it.
AliveInv ==
  /\ child = "running" => "child" \in members
  /\ descendant # "suspended" /\ (descendant = "running" => "descendant" \in members)
  /\ child = "suspended" => "child" \in members \/ step \in {"assign", "abort"}

\* Where the supervisor is, and what it knows of the command there.
StepInv ==
  /\ step \in {"create_job", "create_process"} => child = "none"
  /\ step = "assign" => child = "suspended"
  /\ step = "resume" => child = "suspended" /\ "child" \in members
  /\ step \in {"account", "close_return"} => child = "exited"
  /\ child \in {"none", "suspended"} => descendant = "none"
  /\ outcome # "running" =>
       step = "done" /\ {child, descendant} \cap {"suspended", "running"} = {}
  /\ outcome = "returned" => child = "exited"

\* The limits, as the last look at the counters has judged them.
Kept ==
  /\ limits.private # NoLimit => peakAtExit < limits.private
  /\ limits.working # NoLimit /\ readLast => working <= limits.working

PeakInv ==
  /\ peakAtExit <= peak
  /\ (step = "close_return" \/ outcome = "returned") /\ breach = "none" => Kept

MeasureInv == MeasureTypeOK /\ AliveInv /\ StepInv /\ PeakInv

LEMMA MaxOfTwo ==
  ASSUME NEW a \in Nat, NEW b \in Nat
  PROVE  Max({a, b}) \in Nat /\ a <= Max({a, b})
<1>1. \E m \in {a, b} : \A y \in {a, b} : m >= y
  <2>1. CASE a >= b
    BY <2>1
  <2>2. CASE b >= a
    BY <2>2
  <2> QED
    BY <2>1, <2>2
<1> QED
  BY <1>1 DEF Max

(* A step of the command, of what it has started, or of the clock. *)
LEMMA CommandKeepsInv ==
  ASSUME MeasureInv, CommandStep
  PROVE  MeasureInv'
<1> USE DEF MeasureInv, MeasureTypeOK, AliveInv, StepInv, PeakInv, Kept, Kinds,
            supervisorVars
<1>1. UNCHANGED <<limits, step, job, breach, timedOut, readLast, outcome>>
  BY DEF CommandStep
<1>2. CASE Allocates
  <2>1. use' \in Nat /\ peak' = Max({peak, use'})
        /\ UNCHANGED <<child, descendant, members, working, peakAtExit>>
    BY <1>2 DEF Allocates
  <2>2. peak' \in Nat /\ peak <= peak'
    BY <2>1, MaxOfTwo
  <2> QED
    BY <1>1, <2>1, <2>2
<1>3. CASE Touches
  BY <1>1, <1>3 DEF Touches
<1>4. CASE Spawns
  BY <1>1, <1>4 DEF Spawns
<1>5. CASE Exits
  BY <1>1, <1>5 DEF Exits
<1>6. CASE TimeoutPasses
  BY <1>1, <1>6 DEF TimeoutPasses
<1> QED
  BY <1>2, <1>3, <1>4, <1>5, <1>6 DEF CommandStep

(* What the end of the job does to its members. *)
LEMMA TerminateEnds ==
  ASSUME MeasureInv, TerminateJob
  PROVE  /\ child' \in Kinds /\ descendant' \in Kinds
         /\ child' = "running" => FALSE
         /\ child' = "suspended" => child = "suspended" /\ step \in {"assign", "abort"}
         /\ child = "exited" <=> (child' = "exited" /\ peakAtExit' = peakAtExit /\ child' = child)
         /\ child = "none" <=> child' = "none"
         /\ descendant' \notin {"suspended", "running"}
         /\ descendant = "none" => descendant' = "none"
         /\ use' = 0 /\ peakAtExit' \in Nat /\ peakAtExit' <= peak
         /\ UNCHANGED <<members, peak, working>>
BY DEF MeasureInv, MeasureTypeOK, AliveInv, PeakInv, Kinds, TerminateJob, Ended

(* A step of the supervisor. *)
LEMMA SupervisorKeepsInv ==
  ASSUME MeasureInv, SupervisorStep
  PROVE  MeasureInv'
<1> USE DEF MeasureInv, MeasureTypeOK, AliveInv, StepInv, PeakInv, Kept, Kinds,
            commandVars, StepTo, Calm
<1>1. limits' = limits
  BY DEF SupervisorStep
<1>2. CASE CreateJob
  BY <1>1, <1>2 DEF CreateJob
<1>3. CASE CreateCommand
  BY <1>1, <1>3 DEF CreateCommand
<1>4. CASE AssignCommand
  BY <1>1, <1>4 DEF AssignCommand
<1>5. CASE ResumeCommand
  BY <1>1, <1>5 DEF ResumeCommand
<1>6. CASE AbortLaunch
  BY <1>1, <1>6 DEF AbortLaunch
<1>7. CASE PollCommand
  BY <1>1, <1>7, TerminateEnds DEF PollCommand
<1>8. CASE Sample
  BY <1>1, <1>8, TerminateEnds DEF Sample
<1>9. CASE SampleFails
  BY <1>1, <1>9 DEF SampleFails
<1>10. CASE Sleep
  BY <1>1, <1>10 DEF Sleep
<1>11. CASE WaitForExit
  BY <1>1, <1>11 DEF WaitForExit
<1>12. CASE Account
  <2>1. UNCHANGED <<limits, commandVars, outcome>> /\ step = "account"
    BY <1>1, <1>12 DEF Account
  <2>2. MeasureTypeOK' /\ AliveInv'
    BY <2>1, <1>12 DEF Account
  <2>3. StepInv'
    BY <2>1, <1>12 DEF Account
  <2>4. (step' = "close_return" \/ outcome' = "returned") /\ breach' = "none"
          => ~PrivateBreach /\ (readLast' => ~WorkingBreach)
    BY <2>1, <1>12 DEF Account, Breached
  <2>5. peakAtExit \in Nat /\ peak \in Nat /\ working \in Nat /\ peakAtExit <= peak
        /\ limits.private \in PrivateLimits \union {NoLimit}
        /\ limits.working \in WorkingLimits \union {NoLimit}
    OBVIOUS
  <2> HIDE DEF MeasureInv, MeasureTypeOK, AliveInv, StepInv, PeakInv, Kinds
  <2>9. /\ limits.private # NoLimit => limits.private \in Nat
        /\ limits.working # NoLimit => limits.working \in Nat
    BY <2>5, MemoryAssumption DEF MemoryAssumption
  <2>6. ~PrivateBreach => (limits.private # NoLimit => peakAtExit < limits.private)
    BY <2>5, <2>9 DEF PrivateBreach
  <2>7. ~WorkingBreach => (limits.working # NoLimit => working <= limits.working)
    BY <2>5, <2>9 DEF WorkingBreach
  <2>8. PeakInv'
    <3>1. peakAtExit' <= peak' /\ UNCHANGED <<limits, peakAtExit, working>>
      BY <2>1, <2>5
    <3> QED
      BY <3>1, <2>4, <2>6, <2>7 DEF PeakInv
  <2> QED
    BY <2>2, <2>3, <2>8 DEF MeasureInv
<1>13. CASE EndJob
  BY <1>1, <1>13, TerminateEnds DEF EndJob
<1>14. CASE CloseJob
  BY <1>1, <1>14, TerminateEnds DEF CloseJob
<1> QED
  BY <1>2, <1>3, <1>4, <1>5, <1>6, <1>7, <1>8, <1>9, <1>10, <1>11, <1>12, <1>13,
     <1>14 DEF SupervisorStep

(***************************************************************************)
(* Type correctness and the two promises of the supervisor hold together.  *)
(***************************************************************************)
LEMMA MeasureInvariant == MeasureSpec => []MeasureInv
<1>1. MeasureInit => MeasureInv
  BY DEF MeasureInit, MeasureInv, MeasureTypeOK, AliveInv, StepInv, PeakInv, Kinds
<1>2. MeasureInv /\ [MeasureNext]_measureVars => MeasureInv'
  <2> SUFFICES ASSUME MeasureInv, [MeasureNext]_measureVars PROVE MeasureInv'
    OBVIOUS
  <2>1. CASE MeasureNext
    BY <2>1, CommandKeepsInv, SupervisorKeepsInv DEF MeasureNext
  <2>2. CASE UNCHANGED measureVars
    BY <2>2 DEF measureVars, commandVars, supervisorVars, MeasureInv, MeasureTypeOK,
       AliveInv, StepInv, PeakInv, Kept
  <2> QED
    BY <2>1, <2>2
<1> QED
  BY <1>1, <1>2, PTL DEF MeasureSpec

(***************************************************************************)
(* Whatever call fails, whenever the time is over or a limit is hit, the   *)
(* command runs in its job only and the call leaves nothing alive.         *)
(***************************************************************************)
THEOREM NothingIsLeft == MeasureSpec => []NothingOutlivesTheCall
<1>1. MeasureInv => NothingOutlivesTheCall
  BY DEF MeasureInv, AliveInv, StepInv, NothingOutlivesTheCall
<1> QED
  BY <1>1, MeasureInvariant, PTL

(***************************************************************************)
(* A call that returns without a breach measured a command that kept its   *)
(* limits, also between two samples and up to its exit.                    *)
(***************************************************************************)
THEOREM BreachesAreTold == MeasureSpec => []LimitsAreReported
<1>1. MeasureInv => LimitsAreReported
  BY DEF MeasureInv, PeakInv, Kept, LimitsAreReported
<1> QED
  BY <1>1, MeasureInvariant, PTL


\* The supervisor samples a command that has been started, and waits without a
\* limit only for one that has ended.
LoopInv ==
  /\ step \in {"poll", "sample", "sleep"} => child \in {"running", "exited"}
  /\ step = "wait" => child = "exited"

LEMMA LoopInvKept ==
  ASSUME MeasureInv, LoopInv, [MeasureNext]_measureVars
  PROVE  LoopInv'
<1>1. CASE CommandStep
  <2>1. step' = step
    BY <1>1 DEF CommandStep, supervisorVars
  <2>2. child \in {"running", "exited"} => child' \in {"running", "exited"}
    BY <1>1 DEF CommandStep, Allocates, Touches, Spawns, Exits, TimeoutPasses
  <2>3. child = "exited" => child' = "exited"
    BY <1>1 DEF CommandStep, Allocates, Touches, Spawns, Exits, TimeoutPasses
  <2> QED
    BY <2>1, <2>2, <2>3 DEF LoopInv
<1>2. CASE UNCHANGED measureVars
  BY <1>2 DEF measureVars, commandVars, supervisorVars, LoopInv
<1>3. ASSUME step' \notin {"poll", "sample", "sleep", "wait"} PROVE LoopInv'
  BY <1>3 DEF LoopInv
<1>4. CASE CreateJob \/ CreateCommand \/ AssignCommand \/ AbortLaunch
           \/ WaitForExit \/ Account \/ EndJob \/ CloseJob
  BY <1>3, <1>4
     DEF CreateJob, CreateCommand, AssignCommand, AbortLaunch, WaitForExit, Account,
         EndJob, CloseJob, StepTo
<1>5. CASE ResumeCommand
  BY <1>5 DEF ResumeCommand, StepTo, LoopInv
<1>6. CASE SampleFails \/ Sleep
  BY <1>6 DEF SampleFails, Sleep, StepTo, LoopInv, commandVars
<1>7. ASSUME child \in {"running", "exited"}, step \in {"poll", "sample"}, TerminateJob
      PROVE  child' = "exited"
  BY <1>7 DEF TerminateJob, Ended, MeasureInv, AliveInv
<1>8. CASE PollCommand
  <2>1. step = "poll" /\ child \in {"running", "exited"}
    BY <1>8 DEF PollCommand, LoopInv
  <2>2. CASE child = "exited"
    BY <1>8, <2>2 DEF PollCommand, StepTo, LoopInv, commandVars
  <2>3. CASE child # "exited" /\ late
    BY <1>7, <1>8, <2>1, <2>3 DEF PollCommand, StepTo, LoopInv
  <2>4. CASE child # "exited" /\ ~late
    BY <1>8, <2>1, <2>4 DEF PollCommand, StepTo, LoopInv, commandVars
  <2> QED
    BY <2>2, <2>3, <2>4
<1>9. CASE Sample
  <2>1. step = "sample" /\ child \in {"running", "exited"}
    BY <1>9 DEF Sample, LoopInv
  <2>2. CASE Breached = "none"
    BY <1>9, <2>1, <2>2 DEF Sample, StepTo, LoopInv, commandVars
  <2>3. CASE Breached # "none"
    BY <1>7, <1>9, <2>1, <2>3 DEF Sample, StepTo, LoopInv
  <2> QED
    BY <2>2, <2>3
<1> QED
  BY <1>1, <1>2, <1>4, <1>5, <1>6, <1>8, <1>9 DEF MeasureNext, SupervisorStep

LEMMA LoopHolds == MeasureSpec => []LoopInv
<1>1. MeasureInit => LoopInv
  BY DEF MeasureInit, LoopInv
<1> QED
  BY <1>1, LoopInvKept, MeasureInvariant, PTL DEF MeasureSpec

(***************************************************************************)
(* For all limits, whatever the command does and whichever call fails: the *)
(* wait after the loop is for a command that has ended, and no step is     *)
(* taken twice once the time is up.                                        *)
(***************************************************************************)
THEOREM TimeoutEnds == MeasureSpec => TimeoutIsFinal
<1> DEFINE Final == /\ step = "wait" => child = "exited"
                    /\ late /\ step' # step => TurnsLeft[step'] < TurnsLeft[step]
<1>1. ASSUME LoopInv, [MeasureNext]_measureVars PROVE Final
  <2>1. step = "wait" => child = "exited"
    BY <1>1 DEF LoopInv
  <2> SUFFICES ASSUME late, step' # step PROVE TurnsLeft[step'] < TurnsLeft[step]
    BY <2>1
  <2>2. SupervisorStep
    BY <1>1 DEF MeasureNext, CommandStep, measureVars, supervisorVars
  <2>3. CASE CreateJob \/ CreateCommand \/ AssignCommand \/ ResumeCommand \/ AbortLaunch
    <3>1. \/ step = "create_job" /\ step' \in {"create_process", "done"}
          \/ step = "create_process" /\ step' \in {"assign", "close_job"}
          \/ step = "assign" /\ step' \in {"resume", "abort"}
          \/ step = "resume" /\ step' \in {"poll", "abort"}
          \/ step = "abort" /\ step' = "close_job"
      BY <2>3 DEF CreateJob, CreateCommand, AssignCommand, ResumeCommand, AbortLaunch, StepTo
    <3> QED
      BY <3>1 DEF TurnsLeft
  <2>4. CASE PollCommand
    <3>1. step = "poll" /\ step' = "wait"
      BY <2>4 DEF PollCommand, StepTo
    <3> QED
      BY <3>1 DEF TurnsLeft
  <2>5. CASE Sample
    <3>1. step = "sample" /\ step' \in {"sleep", "wait"}
      BY <2>5 DEF Sample, StepTo
    <3> QED
      BY <3>1 DEF TurnsLeft
  <2>6. CASE SampleFails \/ Sleep \/ WaitForExit
    BY <2>6 DEF SampleFails, Sleep, WaitForExit, StepTo, TurnsLeft
  <2>7. CASE Account \/ EndJob \/ CloseJob
    BY <2>7 DEF Account, EndJob, CloseJob, StepTo, TurnsLeft
  <2> QED
    BY <2>2, <2>3, <2>4, <2>5, <2>6, <2>7 DEF SupervisorStep
<1>2. LoopInv /\ [MeasureNext]_measureVars => [Final]_measureVars
  BY <1>1
<1> QED
  BY <1>2, LoopHolds, PTL DEF MeasureSpec, TimeoutIsFinal

\* The guard of a step of the supervisor holds.
SupervisorReady ==
  \/ step \in DOMAIN TurnsLeft \ {"wait", "done"}
  \/ step = "wait" /\ child = "exited"

(***************************************************************************)
(* Until the call is over the supervisor always has a step to take: it is  *)
(* never left to wait for a process that runs.                             *)
(***************************************************************************)
THEOREM SupervisorCanGo == MeasureSpec => [](outcome = "running" => SupervisorReady)
<1> DEFINE Placed == step \in DOMAIN TurnsLeft /\ (outcome = "running" => step # "done")
<1>1. MeasureInit => Placed
  BY DEF MeasureInit, TurnsLeft
<1>2. Placed /\ [MeasureNext]_measureVars => Placed'
  <2> SUFFICES ASSUME Placed, [MeasureNext]_measureVars PROVE Placed'
    OBVIOUS
  <2>1. CASE CommandStep \/ UNCHANGED measureVars
    BY <2>1 DEF CommandStep, measureVars, supervisorVars, TurnsLeft
  <2>2. CASE CreateJob \/ CreateCommand \/ AssignCommand \/ ResumeCommand \/ AbortLaunch
    BY <2>2 DEF CreateJob, CreateCommand, AssignCommand, ResumeCommand, AbortLaunch, StepTo,
                TurnsLeft
  <2>3. CASE PollCommand \/ Sample \/ SampleFails \/ Sleep \/ WaitForExit
    BY <2>3 DEF PollCommand, Sample, SampleFails, Sleep, WaitForExit, StepTo, TurnsLeft
  <2>4. CASE Account \/ EndJob \/ CloseJob
    BY <2>4 DEF Account, EndJob, CloseJob, StepTo, TurnsLeft
  <2> QED
    BY <2>1, <2>2, <2>3, <2>4 DEF MeasureNext, SupervisorStep
<1>3. Placed /\ LoopInv => (outcome = "running" => SupervisorReady)
  BY DEF LoopInv, SupervisorReady
<1> QED
  BY <1>1, <1>2, <1>3, LoopHolds, PTL DEF MeasureSpec

-----------------------------------------------------------------------------
(***************************************************************************)
(* The conformance cache: what a hit rests on, for any set of versions and *)
(* any edits, failures and interruptions at any time.                      *)
(***************************************************************************)

\* The report is that of a validation of the version, which passed.
Earned(version, r) == version \in validated /\ r = Report(version, TRUE)

\* The report is earned by some version, and by this one unless there is a doubt.
EarnedUnless(doubt, version, r) ==
  /\ Earned(r.of, r)
  /\ ~doubt => r.of = version

\* An entry remembers an earned report; Torn and Nothing remember none.
EntryInv == cache.of = "entry" => EarnedUnless(doubtful, cache.fingerprint, cache.report)

\* The doubt about what the invocation has in hand: its own, or that of the entry it has hit.
Doubt == IF hit THEN doubtful ELSE drifted

\* What the invocation has in hand at each stage.
StageInv ==
  /\ hit \in BOOLEAN /\ drifted \in BOOLEAN /\ doubtful \in BOOLEAN
  /\ stage \in {"validate", "copy"} => ~hit
  /\ stage = "validate" /\ ~drifted => fingerprint = inputs
  /\ stage = "copy" => EarnedUnless(drifted, inputs, measured)
  /\ stage = "judge" /\ (hit \/ code = 0) => EarnedUnless(Doubt, fingerprint, report)
  /\ stage = "remember" => EarnedUnless(Doubt, fingerprint, report)

CacheInv ==
  /\ stage \in {"idle", "validate", "judge", "remember", "copy"}
  /\ EntryInv /\ StageInv

\* The report of a validation that passes is valid.
LEMMA VerdictPasses ==
  ASSUME inputs \in conforms
  PROVE  Verdict = Report(inputs, TRUE)
<1>1. (inputs \in conforms) = TRUE
  OBVIOUS
<1> QED
  BY <1>1 DEF Verdict

\* A report tells what it is of.
LEMMA ReportIsOf ==
  ASSUME NEW version, NEW r, r = Report(version, TRUE)
  PROVE  r.of = version
BY DEF Report

\* A validation forgets none before it, and adds one that passes.
LEMMA ValidationAdds ==
  ASSUME NowValidated
  PROVE  validated \subseteq validated' /\ (inputs \in conforms => inputs \in validated')
BY DEF NowValidated

\* A hit finds the remembered report on disk, for the fingerprint of now.
LEMMA HitFindsEntry ==
  ASSUME CacheInv, NEW force \in BOOLEAN, IsHit(force)
  PROVE  EarnedUnless(doubtful, inputs, report)
BY DEF CacheInv, EntryInv, IsHit, Fingerprint

LEMMA CacheKeepsInv ==
  ASSUME CacheInv, CacheNext
  PROVE  CacheInv'
<1> USE DEF CacheInv, EntryInv, StageInv, Doubt, world, cacheFiles, doubts, StageTo
<1>1. CASE Edit
  <2>1. /\ UNCHANGED <<cacheFiles, stage, fingerprint, hit, code, validated, doubtful>>
        /\ drifted' = (drifted \/ BetweenTheTwo)
    BY <1>1 DEF Edit
  <2>2. stage \in {"validate", "copy"} => drifted'
    BY <2>1 DEF BetweenTheTwo
  <2>3. stage \notin {"validate", "copy"} => drifted' = drifted
    BY <2>1 DEF BetweenTheTwo
  <2> QED
    BY <2>1, <2>2, <2>3 DEF EarnedUnless, Earned
<1>2. CASE StartDaily
  <2>1. /\ UNCHANGED <<inputs, conforms, report, cache, measured, validated, doubtful>>
        /\ fingerprint' = inputs /\ drifted' = FALSE
        /\ stage' = IF hit' THEN "judge" ELSE "validate"
        /\ code' = 0
    BY <1>2 DEF StartDaily, Fingerprint
  <2>2. hit' => EarnedUnless(doubtful, inputs, report)
    BY <1>2, HitFindsEntry DEF StartDaily
  <2>3. hit' \in BOOLEAN
    BY <1>2 DEF StartDaily, IsHit
  <2> QED
    BY <2>1, <2>2, <2>3 DEF EarnedUnless, Earned
<1>3. CASE Validate
  <2>1. /\ UNCHANGED <<inputs, cache, fingerprint, hit, drifted, doubtful>>
        /\ stage = "validate" /\ stage' = "judge"
    BY <1>3 DEF Validate
  <2>2. validated \subseteq validated'
    BY <1>3, ValidationAdds DEF Validate
  <2>3. code' = 0 => EarnedUnless(drifted, fingerprint, report)'
    <3>1. ASSUME code' = 0
          PROVE  report' = Verdict /\ inputs \in conforms /\ NowValidated
      BY <1>3, <3>1 DEF Validate
    <3>2. ASSUME code' = 0
          PROVE  report' = Report(inputs, TRUE) /\ inputs \in validated'
      BY <3>1, <3>2, ValidationAdds, VerdictPasses
    <3>3. ASSUME code' = 0
          PROVE  report'.of = inputs
      BY <3>2, <3>3, ReportIsOf
    <3> QED
      BY <2>1, <3>2, <3>3 DEF EarnedUnless, Earned
  <2>4. ~hit'
    BY <2>1
  <2>5. EntryInv'
    BY <2>1, <2>2 DEF EarnedUnless, Earned
  <2> QED
    BY <2>1, <2>3, <2>4, <2>5
<1>4. CASE Judge
  <2>1. /\ UNCHANGED <<inputs, report, cache, measured, fingerprint, hit, validated, drifted, doubtful>>
        /\ stage = "judge" /\ stage' = IF passed' THEN "remember" ELSE "idle"
        /\ passed' => hit \/ code = 0
    BY <1>4 DEF Judge
  <2> QED
    BY <2>1 DEF EarnedUnless, Earned
<1>5. CASE Remember
  <2>1. /\ UNCHANGED <<inputs, report, fingerprint, hit, validated, drifted>>
        /\ stage = "remember" /\ stage' = "idle"
        /\ cache' = Entry(fingerprint, report)
        /\ doubtful' = Doubt
    BY <1>5 DEF Remember
  <2>2. cache'.fingerprint = fingerprint /\ cache'.report = report
    BY <2>1 DEF Entry
  <2> QED
    BY <2>1, <2>2 DEF EarnedUnless, Earned
<1>6. CASE StartFull
  <2>1. /\ UNCHANGED <<inputs, report, cache, fingerprint, doubtful>>
        /\ stage' \in {"copy", "idle"} /\ hit' = FALSE /\ drifted' = FALSE
        /\ validated \subseteq validated'
    BY <1>6, ValidationAdds DEF StartFull
  <2>2. ASSUME stage' = "copy"
        PROVE  measured' = Report(inputs, TRUE) /\ inputs \in validated'
    BY <1>6, <2>2, ValidationAdds, VerdictPasses DEF StartFull
  <2>3. ASSUME stage' = "copy"
        PROVE  EarnedUnless(drifted, inputs, measured)'
    <3>1. measured'.of = inputs
      BY <2>2, <2>3, ReportIsOf
    <3> QED
      BY <2>1, <2>2, <2>3, <3>1 DEF EarnedUnless, Earned
  <2>4. EntryInv'
    BY <2>1 DEF EarnedUnless, Earned
  <2> QED
    BY <2>1, <2>3, <2>4
<1>7. CASE CopyReport
  <2>1. /\ UNCHANGED <<inputs, cache, hit, validated, drifted, doubtful>>
        /\ stage = "copy" /\ stage' = "remember"
        /\ report' = measured /\ fingerprint' = inputs
    BY <1>7 DEF CopyReport, Fingerprint
  <2> QED
    BY <2>1 DEF EarnedUnless, Earned
<1>8. CASE Crash
  <2>1. /\ UNCHANGED <<inputs, validated, hit, drifted, doubtful>> /\ stage' = "idle"
        /\ cache' \in {cache, Torn}
    BY <1>8 DEF Crash
  <2>2. cache' = Torn => cache'.of # "entry"
    BY DEF Torn
  <2> QED
    BY <2>1, <2>2 DEF EarnedUnless, Earned
<1> QED
  BY <1>1, <1>2, <1>3, <1>4, <1>5, <1>6, <1>7, <1>8 DEF CacheNext

(***************************************************************************)
(* A hit of the conformance cache stands for a validation that passed,     *)
(* whatever was edited, undone or interrupted and whenever, and for one of *)
(* the very inputs unless an edit came between the fingerprint and the     *)
(* validation of the invocation that made the entry.                       *)
(***************************************************************************)
THEOREM HitsAreEarned == CacheSpec => []HitIsEarned
<1>1. CacheInit => CacheInv
  <2> SUFFICES ASSUME CacheInit PROVE CacheInv
    OBVIOUS
  <2>1. cache.of # "entry" /\ stage = "idle"
    BY DEF CacheInit, Nothing
  <2>2. hit \in BOOLEAN /\ drifted \in BOOLEAN /\ doubtful \in BOOLEAN
    BY DEF CacheInit
  <2> QED
    BY <2>1, <2>2 DEF CacheInv, EntryInv, StageInv
<1>2. CacheInv /\ [CacheNext]_cacheVars => CacheInv'
  <2> SUFFICES ASSUME CacheInv, [CacheNext]_cacheVars PROVE CacheInv'
    OBVIOUS
  <2>1. CASE UNCHANGED cacheVars
    BY <2>1 DEF cacheVars, cacheFiles, CacheInv, EntryInv, StageInv, Doubt, EarnedUnless, Earned
  <2> QED
    BY <2>1, CacheKeepsInv
<1>3. CacheInv => HitIsEarned
  BY DEF CacheInv, StageInv, Doubt, HitIsEarned, EarnedUnless, Earned
<1> QED
  BY <1>1, <1>2, <1>3, PTL DEF CacheSpec

-----------------------------------------------------------------------------
(***************************************************************************)
(* What a run may open is what its own checks have seen: the proof that a  *)
(* public release is the approved one, for any number of commits, assets   *)
(* and failures.                                                           *)
(***************************************************************************)

\* A run that has got past its approval, its tag, or its comparison.
Tagged == {"find", "create", "created", "compare", "upload", "publish", "confirm"}
Verified == {"publish", "confirm"}

RunInv ==
  /\ phase # "idle" => commit # 0 /\ IsApproved(commit)
  /\ phase \in Tagged => tag = commit
  /\ phase \in Verified => remote = Expected(commit)

TagInv == tag # 0 => IsApproved(tag)

PublicationInv == PublicationTypeOK /\ RunInv /\ TagInv /\ PublishedIsApproved

\* Only a commit has an approval, and what it expects of GitHub is no absent asset.
LEMMA ExpectedIsThere ==
  ASSUME PublicationTypeOK, NEW c \in Commits, IsApproved(c), NEW n \in Assets
  PROVE  Expected(c)[n] # Absent /\ Expected(c)[n] \in Int
<1>1. c \in 1 .. Len(contents) /\ c \in Nat /\ c # 0
  BY LenProperties DEF PublicationTypeOK, Commits
<1>2. approvals[c] \in Commits
  BY DEF PublicationTypeOK, IsApproved
<1>3. approvals[c] \in Nat /\ approvals[c] # 0
  BY <1>2, LenProperties DEF PublicationTypeOK, Commits
<1> QED
  BY <1>1, <1>3 DEF Expected, Absent

\* A push leaves what earlier commits hold and approve.
LEMMA PushKeeps ==
  ASSUME PublicationTypeOK, Push
  PROVE  /\ PublicationTypeOK'
         /\ \A c \in Commits : (IsApproved(c) <=> IsApproved(c)') /\ Expected(c)' = Expected(c)
<1> PICK content \in Contents, k \in {0} \union Commits :
      contents' = Append(contents, content) /\ approvals' = Append(approvals, k)
  BY DEF Push
<1>1. UNCHANGED <<candidates, tag, release, remote, commit, phase, todo, failures>>
  BY DEF Push, remoteVars, workflowVars
<1>2. /\ Len(contents) \in Nat /\ Commits = 1 .. Len(contents)
      /\ DOMAIN approvals = 1 .. Len(contents)
  BY LenProperties DEF PublicationTypeOK, Commits, Master
<1>3. k \in Nat
  BY <1>2
<1>4. /\ contents' \in Seq(Contents) /\ Len(contents') = Len(contents) + 1
      /\ \A c \in 1 .. Len(contents) : contents'[c] = contents[c]
  BY AppendProperties DEF PublicationTypeOK
<1>5. /\ approvals' \in Seq(Nat) /\ Len(approvals') = Len(contents) + 1
      /\ \A c \in 1 .. Len(contents) : approvals'[c] = approvals[c]
      /\ approvals'[Len(contents) + 1] = k
  BY <1>3, AppendProperties DEF PublicationTypeOK, Master
<1>6. Commits' = 1 .. Len(contents) + 1
  BY <1>4, LenProperties DEF Commits
<1>7. Commits \subseteq Commits'
  BY <1>2, <1>6
<1>8. \A c \in Commits' : approvals'[c] \in {0} \union Commits'
  <2> TAKE c \in Commits'
  <2>1. CASE c \in 1 .. Len(contents)
    BY <2>1, <1>2, <1>5, <1>7 DEF PublicationTypeOK
  <2>2. CASE c = Len(contents) + 1
    BY <2>2, <1>5, <1>7
  <2> QED
    BY <2>1, <2>2, <1>2, <1>6
<1>9. PublicationTypeOK'
  BY <1>1, <1>4, <1>5, <1>7, <1>8 DEF PublicationTypeOK, Master
<1>10. ASSUME NEW c \in Commits
       PROVE  (IsApproved(c) <=> IsApproved(c)') /\ Expected(c)' = Expected(c)
  <2>1. approvals'[c] = approvals[c] /\ contents'[c] = contents[c]
    BY <1>2, <1>4, <1>5
  <2>2. approvals[c] \in candidates => contents'[approvals[c]] = contents[approvals[c]]
    BY <1>2, <1>4 DEF PublicationTypeOK
  <2> QED
    BY <1>1, <2>1, <2>2 DEF IsApproved, Expected
<1> QED
  BY <1>9, <1>10

\* Another candidate takes no approval back.
LEMMA CandidatesKeep ==
  ASSUME PublicationTypeOK, BuildCandidate
  PROVE  /\ PublicationTypeOK'
         /\ \A c \in Commits : (IsApproved(c) => IsApproved(c)') /\ Expected(c)' = Expected(c)
<1>1. UNCHANGED <<contents, approvals, tag, release, remote, commit, phase, todo, failures>>
  BY DEF BuildCandidate, remoteVars, workflowVars
<1>2. candidates \subseteq candidates' /\ candidates' \subseteq Commits
  BY DEF BuildCandidate, PublicationTypeOK
<1> QED
  BY <1>1, <1>2 DEF PublicationTypeOK, IsApproved, Expected, Commits, Master

\* The type invariant and the three parts of what the checks of a run have seen.
LEMMA PublicationInvariant == PublicationSpec => []PublicationInv
<1>1. PublicationInit => PublicationInv
  <2> SUFFICES ASSUME PublicationInit PROVE PublicationInv
    OBVIOUS
  <2> PICK content \in Contents : contents = <<content>>
    BY DEF PublicationInit
  <2>1. contents \in Seq(Contents) /\ Len(contents) = 1 /\ Commits = {1}
    BY DEF Commits
  <2>2. approvals \in Seq(Nat) /\ Len(approvals) = 1 /\ approvals[1] = 0
    BY DEF PublicationInit
  <2>3. PublicationTypeOK
    BY <2>1, <2>2 DEF PublicationInit, PublicationTypeOK, Master, Absent
  <2> QED
    BY <2>3 DEF PublicationInit, PublicationInv, RunInv, TagInv, PublishedIsApproved, Tagged, Verified
<1>2. PublicationInv /\ [PublicationNext]_publicationVars => PublicationInv'
  <2> SUFFICES ASSUME PublicationInv, [PublicationNext]_publicationVars PROVE PublicationInv'
    OBVIOUS
  <2> USE DEF PublicationInv
  <2>0. commit \in {0} \union Commits /\ tag \in {0} \union Commits
    BY DEF PublicationTypeOK
  <2>1. ASSUME UNCHANGED <<tag, release, remote, commit, phase>>, PublicationTypeOK',
               \A c \in Commits : (IsApproved(c) => IsApproved(c)') /\ Expected(c)' = Expected(c)
        PROVE  PublicationInv'
    <3>1. RunInv'
      BY <2>0, <2>1 DEF RunInv, Tagged, Verified
    <3>2. TagInv' /\ PublishedIsApproved'
      BY <2>0, <2>1 DEF TagInv, PublishedIsApproved
    <3> QED
      BY <2>1, <3>1, <3>2
  <2>2. CASE Push
    BY <2>1, <2>2, PushKeeps DEF Push, remoteVars, workflowVars
  <2>3. CASE BuildCandidate
    BY <2>1, <2>3, CandidatesKeep DEF BuildCandidate, remoteVars, workflowVars
  <2>4. ASSUME UNCHANGED ownerVars
        PROVE  /\ Commits' = Commits /\ Master' = Master
               /\ \A c : (IsApproved(c) <=> IsApproved(c)') /\ Expected(c)' = Expected(c)
    BY <2>4 DEF ownerVars, Commits, Master, IsApproved, Expected
  <2>5. CASE Approve
    <3>1. Master \in Commits /\ Master # 0
      BY <2>5, LenProperties DEF Approve, IsApproved, PublicationTypeOK, Master, Commits
    <3> QED
      BY <2>4, <2>5, <3>1 DEF Approve, ownerVars, remoteVars, PublicationTypeOK, RunInv, TagInv,
           PublishedIsApproved, Tagged, Verified
  <2>6. ASSUME UNCHANGED <<ownerVars, remoteVars>>, RunEnds, failures' \in Nat
        PROVE  PublicationInv'
    BY <2>4, <2>6 DEF RunEnds, ownerVars, remoteVars, PublicationTypeOK, RunInv, TagInv,
         PublishedIsApproved, Tagged, Verified
  <2>7. CASE TakeTag
    <3>1. CASE tag \in {0, commit}
      BY <2>4, <2>7, <3>1 DEF TakeTag, Goes, ownerVars, PublicationTypeOK, RunInv, TagInv,
           PublishedIsApproved, Tagged, Verified
    <3>2. CASE tag \notin {0, commit}
      BY <2>6, <2>7, <3>2 DEF TakeTag, remoteVars, PublicationTypeOK
    <3> QED
      BY <3>1, <3>2
  <2>8. ASSUME UNCHANGED <<ownerVars, remoteVars, commit, failures>>, todo' \subseteq Assets,
               phase \in Tagged, phase' \in {"create", "compare", "upload"}
        PROVE  PublicationInv'
    BY <2>4, <2>8 DEF ownerVars, remoteVars, PublicationTypeOK, RunInv, TagInv,
         PublishedIsApproved, Tagged, Verified
  <2>9. CASE FindRelease
    <3>1. CASE Found
      BY <2>8, <2>9, <3>1 DEF FindRelease, Tagged
    <3>2. CASE ~Found /\ phase = "find"
      BY <2>8, <2>9, <3>2 DEF FindRelease, Goes, Tagged, PublicationTypeOK
    <3>3. CASE ~Found /\ phase # "find"
      BY <2>6, <2>9, <3>3 DEF FindRelease, PublicationTypeOK
    <3> QED
      BY <3>1, <3>2, <3>3
  <2>10. CASE CreateDraft
    BY <2>4, <2>10 DEF CreateDraft, Goes, ownerVars, PublicationTypeOK, RunInv, TagInv,
         PublishedIsApproved, Tagged, Verified
  <2>11. CASE Compare
    <3>1. CASE Goes("upload")
      BY <2>8, <2>11, <3>1 DEF Compare, Goes, Tagged, PublicationTypeOK
    <3>2. CASE RunEnds
      BY <2>6, <2>11, <3>2 DEF Compare, PublicationTypeOK
    <3> QED
      BY <2>11, <3>1, <3>2 DEF Compare
  <2>12. CASE Upload
    <3> PICK n \in todo : remote[n] = Absent /\ todo' = todo \ {n}
                          /\ \/ remote' = [remote EXCEPT ![n] = Expected(commit)[n]] /\ UNCHANGED failures
                             \/ remote' = [remote EXCEPT ![n] = Damaged] /\ failures' = failures + 1
      BY <2>12 DEF Upload
    <3>1. phase = "upload" /\ UNCHANGED <<ownerVars, tag, release, commit, phase>>
      BY <2>12 DEF Upload
    <3>2. n \in Assets /\ commit \in Commits /\ IsApproved(commit)
      BY <2>0, <3>1 DEF PublicationTypeOK, RunInv
    <3>3. remote' \in [Assets -> Int]
      BY <3>2, ExpectedIsThere DEF PublicationTypeOK, Damaged
    <3>4. release # "public"
      BY <2>0, <3>2, ExpectedIsThere DEF PublishedIsApproved
    <3> QED
      BY <2>4, <3>1, <3>3, <3>4 DEF ownerVars, PublicationTypeOK, RunInv, TagInv,
           PublishedIsApproved, Tagged, Verified
  <2>13. CASE Verify
    <3>1. CASE remote = Expected(commit)
      BY <2>4, <2>13, <3>1 DEF Verify, Goes, ownerVars, remoteVars, PublicationTypeOK, RunInv,
           TagInv, PublishedIsApproved, Tagged, Verified
    <3>2. CASE remote # Expected(commit)
      BY <2>6, <2>13, <3>2 DEF Verify, PublicationTypeOK
    <3> QED
      BY <3>1, <3>2
  <2>14. CASE MakePublic
    BY <2>4, <2>14 DEF MakePublic, Goes, ownerVars, PublicationTypeOK, RunInv, TagInv,
         PublishedIsApproved, Tagged, Verified
  <2>15. CASE Confirm
    BY <2>6, <2>15 DEF Confirm, PublicationTypeOK
  <2>16. CASE RunFails
    BY <2>6, <2>16 DEF RunFails, PublicationTypeOK
  <2>17. CASE UNCHANGED publicationVars
    BY <2>4, <2>17 DEF publicationVars, ownerVars, remoteVars, workflowVars, PublicationTypeOK, RunInv, TagInv,
         PublishedIsApproved, Tagged, Verified
  <2> QED
    BY <2>2, <2>3, <2>5, <2>7, <2>9, <2>10, <2>11, <2>12, <2>13, <2>14, <2>15, <2>16, <2>17
       DEF PublicationNext, RunnerStep
<1> QED
  BY <1>1, <1>2, PTL DEF PublicationSpec

\* Whatever the owner approves and whichever runs die, the history and what is at GitHub
\* are of their types.
THEOREM PublicationTypeCorrect == PublicationSpec => []PublicationTypeOK
BY PublicationInvariant, PTL DEF PublicationInv

\* A public release has every asset the intent of the tagged commit approves, and no other
\* bytes: publish() opens only what it has just read back, at a tag it has compared.
THEOREM OnlyApprovedIsPublic == PublicationSpec => []PublishedIsApproved
BY PublicationInvariant, PTL DEF PublicationInv

\* A draft is created only where the run has found none: no other run goes on meanwhile.
NoDraftYet == phase = "create" => release = "none"

LEMMA DraftsAreNew == PublicationSpec => []NoDraftYet
<1>1. PublicationInit => NoDraftYet
  BY DEF PublicationInit, NoDraftYet
<1>2. NoDraftYet /\ [PublicationNext]_publicationVars => NoDraftYet'
  BY DEF NoDraftYet, PublicationNext, RunnerStep, publicationVars, remoteVars, workflowVars,
       Push, BuildCandidate, Approve, TakeTag, FindRelease, Found, CreateDraft, Compare, Upload,
       Verify, MakePublic, Confirm, RunFails, Goes, RunEnds
<1> QED
  BY <1>1, <1>2, PTL DEF PublicationSpec

\* What is at GitHub stays, however many runs follow: publish() tags and uploads only what
\* is not there, and compares the rest.
THEOREM WhatIsThereStays == PublicationSpec => PublicationStays
<1> DEFINE Stays == /\ tag # 0 => tag' = tag
                    /\ \A n \in Assets : remote[n] # Absent => remote'[n] = remote[n]
                    /\ release = "draft" => release' \in {"draft", "public"}
                    /\ release = "public" => UNCHANGED remoteVars
<1>1. PublicationInv /\ NoDraftYet /\ [PublicationNext]_publicationVars => [Stays]_publicationVars
  <2> SUFFICES ASSUME PublicationInv, NoDraftYet, PublicationNext PROVE Stays
    OBVIOUS
  <2>0. UNCHANGED remoteVars => Stays
    BY DEF remoteVars
  <2>1. CASE Push \/ BuildCandidate \/ Approve \/ FindRelease \/ Compare \/ Verify \/ Confirm \/ RunFails
    BY <2>0, <2>1 DEF Push, BuildCandidate, Approve, FindRelease, Compare, Verify, Confirm, RunFails
  <2>2. CASE TakeTag
    \* A public release is of the tag that is there.
    BY <2>2 DEF TakeTag, PublicationInv, RunInv, PublishedIsApproved, remoteVars
  <2>3. CASE CreateDraft
    BY <2>3 DEF CreateDraft, NoDraftYet
  <2>4. CASE Upload
    <3> PICK n \in todo : remote[n] = Absent /\ \E x : remote' = [remote EXCEPT ![n] = x]
      BY <2>4 DEF Upload
    <3>1. n \in Assets /\ commit \in Commits /\ IsApproved(commit) /\ UNCHANGED <<tag, release>>
      BY <2>4 DEF Upload, PublicationInv, PublicationTypeOK, RunInv
    <3>2. release # "public"
      <4>1. release = "public" => tag \in Commits /\ IsApproved(tag) /\ remote = Expected(tag)
        BY DEF PublicationInv, PublicationTypeOK, PublishedIsApproved
      <4> QED
        BY <4>1, <3>1, ExpectedIsThere DEF PublicationInv
    <3>3. \A m \in Assets : remote[m] # Absent => remote'[m] = remote[m]
      BY DEF PublicationInv, PublicationTypeOK
    <3> QED
      BY <3>1, <3>2, <3>3
  <2>5. CASE MakePublic
    BY <2>5 DEF MakePublic, remoteVars
  <2> QED
    BY <2>1, <2>2, <2>3, <2>4, <2>5 DEF PublicationNext, RunnerStep
<1> QED
  BY <1>1, PublicationInvariant, DraftsAreNew, PTL DEF PublicationSpec, PublicationStays

\* What is uploaded is of the tagged commit, or was damaged on its way; and what a run has
\* still to upload is what is not there.
UploadsInv ==
  /\ \A n \in Assets : remote[n] \notin {Absent, Damaged} => tag # 0 /\ remote[n] = Expected(tag)[n]
  /\ phase \in {"compare", "upload"} => \A n \in Assets : n \in todo <=> remote[n] = Absent
  /\ phase = "created" => release # "none"

LEMMA UploadsInvKept == PublicationSpec => []UploadsInv
<1>1. PublicationInit => UploadsInv
  BY DEF PublicationInit, UploadsInv
<1>2. PublicationInv /\ UploadsInv /\ [PublicationNext]_publicationVars => UploadsInv'
  <2> SUFFICES ASSUME PublicationInv, UploadsInv, [PublicationNext]_publicationVars PROVE UploadsInv'
    OBVIOUS
  <2>0. PublicationTypeOK /\ RunInv /\ commit \in {0} \union Commits /\ tag \in {0} \union Commits
    BY DEF PublicationInv, PublicationTypeOK
  <2>1. ASSUME UNCHANGED <<remoteVars, workflowVars>>, \A c \in Commits : Expected(c)' = Expected(c)
        PROVE  UploadsInv'
    BY <2>0, <2>1 DEF UploadsInv, remoteVars, workflowVars
  <2>2. CASE Push
    BY <2>0, <2>1, <2>2, PushKeeps DEF Push
  <2>3. CASE BuildCandidate
    BY <2>0, <2>1, <2>3, CandidatesKeep DEF BuildCandidate
  <2>4. ASSUME UNCHANGED ownerVars PROVE \A c : Expected(c)' = Expected(c)
    BY <2>4 DEF ownerVars, Expected
  <2>5. ASSUME UNCHANGED <<ownerVars, remoteVars>>,
               phase' \notin {"compare", "upload", "created"}
        PROVE  UploadsInv'
    BY <2>4, <2>5 DEF UploadsInv, ownerVars, remoteVars
  <2>6. CASE Approve \/ Confirm \/ RunFails
    BY <2>5, <2>6 DEF Approve, Confirm, RunFails, RunEnds, ownerVars
  <2>7. CASE TakeTag
    <3>1. CASE tag = 0
      BY <2>4, <2>7, <3>1 DEF TakeTag, Goes, RunEnds, UploadsInv
    <3>2. CASE tag # 0
      BY <2>5, <2>7, <3>2 DEF TakeTag, Goes, RunEnds, remoteVars
    <3> QED
      BY <3>1, <3>2
  <2>8. CASE FindRelease
    <3>1. CASE Found
      <4>1. /\ phase' = "compare" /\ todo' = {n \in Assets : remote[n] = Absent}
            /\ UNCHANGED <<ownerVars, remoteVars>>
        BY <2>8, <3>1 DEF FindRelease
      <4> QED
        BY <2>4, <4>1 DEF UploadsInv, remoteVars
    <3>2. CASE ~Found
      BY <2>5, <2>8, <3>2 DEF FindRelease, Goes, RunEnds
    <3> QED
      BY <3>1, <3>2
  <2>9. CASE CreateDraft
    BY <2>4, <2>9 DEF CreateDraft, Goes, UploadsInv
  <2>10. CASE Compare
    <3>1. CASE Goes("upload")
      BY <2>4, <2>10, <3>1 DEF Compare, Goes, UploadsInv, remoteVars
    <3>2. CASE RunEnds
      BY <2>5, <2>10, <3>2 DEF Compare, RunEnds
    <3> QED
      BY <2>10, <3>1, <3>2 DEF Compare
  <2>11. CASE Upload
    <3> PICK n \in todo :
          /\ remote[n] = Absent /\ todo' = todo \ {n}
          /\ \/ remote' = [remote EXCEPT ![n] = Expected(commit)[n]]
             \/ remote' = [remote EXCEPT ![n] = Damaged]
      BY <2>11 DEF Upload
    <3>1. phase = "upload" /\ UNCHANGED <<ownerVars, tag, release, commit, phase>>
      BY <2>11 DEF Upload
    <3>2. n \in Assets /\ commit \in Commits /\ IsApproved(commit) /\ tag = commit /\ tag # 0
      BY <2>0, <3>1 DEF PublicationTypeOK, RunInv, Tagged
    <3>3. remote' \in [Assets -> Int] /\ remote'[n] # Absent
      BY <2>0, <3>2, ExpectedIsThere DEF PublicationTypeOK, Damaged, Absent
    <3>4. remote'[n] \in {Damaged, Expected(tag)[n]}
      BY <2>0, <3>2 DEF PublicationTypeOK
    <3>5. \A m \in Assets : m # n => remote'[m] = remote[m]
      BY <2>0 DEF PublicationTypeOK
    <3>6. Expected(tag)' = Expected(tag)
      BY <2>4, <3>1
    <3>7. ASSUME NEW m \in Assets
          PROVE  /\ remote'[m] \notin {Absent, Damaged} => tag' # 0 /\ remote'[m] = Expected(tag)'[m]
                 /\ m \in todo' <=> remote'[m] = Absent
      <4>1. CASE m = n
        BY <3>1, <3>2, <3>3, <3>4, <3>6, <4>1
      <4>2. CASE m # n
        <5>1. remote[m] \notin {Absent, Damaged} => remote[m] = Expected(tag)[m]
          BY DEF UploadsInv
        <5>2. m \in todo <=> remote[m] = Absent
          BY <3>1 DEF UploadsInv
        <5> QED
          BY <3>1, <3>2, <3>5, <3>6, <4>2, <5>1, <5>2
      <4> QED
        BY <4>1, <4>2
    <3> QED
      BY <3>1, <3>7 DEF UploadsInv
  <2>12. CASE Verify
    BY <2>5, <2>12 DEF Verify, Goes, RunEnds
  <2>13. CASE MakePublic
    BY <2>4, <2>13 DEF MakePublic, Goes, UploadsInv
  <2>14. CASE UNCHANGED publicationVars
    BY <2>1, <2>4, <2>14 DEF publicationVars
  <2> QED
    BY <2>2, <2>3, <2>6, <2>7, <2>8, <2>9, <2>10, <2>11, <2>12, <2>13, <2>14
       DEF PublicationNext, RunnerStep
<1> QED
  BY <1>1, <1>2, PublicationInvariant, PTL DEF PublicationSpec

\* publish() gives up by itself only over a tag of another commit or a damaged upload,
\* never over what an interrupted run has left: it finds the draft, takes the assets that
\* are there for its own, and uploads the others.
THEOREM RefusalsHaveCause == PublicationSpec => RefusalHasCause
<1> DEFINE Cause == tag \notin {0, commit} \/ \E n \in Assets : remote[n] = Damaged
<1> DEFINE Refused == phase \notin {"idle", "confirm"} /\ phase' = "idle" /\ failures' = failures
<1>1. PublicationInv /\ UploadsInv /\ [PublicationNext]_publicationVars
        => [Refused => Cause]_publicationVars
  <2> SUFFICES ASSUME PublicationInv, UploadsInv, PublicationNext, Refused PROVE Cause
    OBVIOUS
  <2>0. PublicationTypeOK /\ RunInv
    BY DEF PublicationInv
  <2>1. TakeTag \/ FindRelease \/ Compare \/ Verify
    BY <2>0 DEF PublicationTypeOK, PublicationNext, RunnerStep, workflowVars, Push, BuildCandidate,
       Approve, CreateDraft, Upload, MakePublic, Confirm, RunFails, Goes
  <2>2. CASE TakeTag
    BY <2>2 DEF TakeTag, Goes
  <2>3. CASE FindRelease
    BY <2>3 DEF FindRelease, Found, UploadsInv, Goes
  <2>4. CASE Compare
    <3>1. phase = "compare" /\ tag = commit
      BY <2>0, <2>4 DEF Compare, RunInv, Tagged
    <3>2. PICK n \in Assets : n \notin todo /\ remote[n] # Expected(commit)[n]
      BY <2>4 DEF Compare, Goes
    <3> QED
      BY <3>1, <3>2 DEF UploadsInv
  <2>5. CASE Verify
    <3>1. phase = "upload" /\ tag = commit /\ todo = {} /\ remote # Expected(commit)
      BY <2>0, <2>5 DEF Verify, RunInv, Tagged, Goes
    <3>2. remote \in [Assets -> Int] /\ DOMAIN Expected(commit) = Assets
          /\ Expected(commit) = [n \in Assets |-> Expected(commit)[n]]
      BY <2>0 DEF PublicationTypeOK, Expected
    <3>3. \E n \in Assets : remote[n] # Expected(commit)[n]
      BY <3>1, <3>2
    <3> QED
      BY <3>1, <3>3 DEF UploadsInv
  <2> QED
    BY <2>1, <2>2, <2>3, <2>4, <2>5
<1> QED
  BY <1>1, PublicationInvariant, UploadsInvKept, PTL DEF PublicationSpec, RefusalHasCause

-------------------------------------------------------------------------------
(***************************************************************************)
(* A script whose steps keep to the discipline of EvidenceRun is sound,    *)
(* whichever commands fail, whatever they write and whatever files were    *)
(* left by an invocation before.                                           *)
(***************************************************************************)

\* What is known of the files is so.
Fits(known) ==
  /\ Old(known.settled) \subseteq gone
  /\ known.sure \intersect Products \subseteq fresh \ bad
  /\ known.absent \intersect fresh = {}
  /\ \A f \in bad : \E u \in known.unread : f \in u /\ u \subseteq bad
  /\ failed => Old(known.owed) \intersect gone # {}
  /\ ~stale

Telling(known) == (known.firm => good) /\ (good => Fits(known))

\* Once the result file is written it says what is recorded, and nothing more is.
ResultTells ==
  result # "none" =>
    /\ result = "PASS" <=> good
    /\ \A j \in at .. Len(Steps) : Steps[j].do \in {"stop", "answer", "finish"}

RunTypeOK ==
  /\ script \in DOMAIN Scripts
  /\ good \in BOOLEAN /\ failed \in BOOLEAN /\ stale \in BOOLEAN
  /\ exit \in {"running", "success", "failure"}
  /\ result \in {"none", "PASS", "FAIL"}

EvidenceInv(plans) ==
  /\ RunTypeOK
  /\ exit = "running" => at \in DOMAIN Steps /\ Telling(plans[script][at])
  /\ SuccessIsEarned

VerdictInv(plans) ==
  /\ RunTypeOK
  /\ exit = "running" =>
       at \in DOMAIN Steps /\ (plans[script][at].firm => good) /\ ResultTells
  /\ ResultIsTheVerdict

LEMMA LessFits ==
  ASSUME NEW more, NEW less, Implies(more, less)
  PROVE  /\ Telling(more) => Telling(less)
         /\ Telling(more)' => Telling(less)'
<1>1. Fits(more) => Fits(less)
  <2>1. Old(less.settled) \subseteq Old(more.settled) /\ Old(more.owed) \subseteq Old(less.owed)
    BY DEF Implies, Old
  <2> QED
    BY <2>1 DEF Fits, Implies
<1>2. Fits(more)' => Fits(less)'
  <2>1. /\ Old(less.settled)' \subseteq Old(more.settled)'
        /\ Old(more.owed)' \subseteq Old(less.owed)'
    BY DEF Implies, Old
  <2> QED
    BY <2>1 DEF Fits, Implies
<1> QED
  BY <1>1, <1>2 DEF Telling, Implies

\* What is read is not of an earlier invocation, if nothing has hidden that it is gone.
LEMMA ReadsNothingOld ==
  ASSUME NEW known, Fits(known), Current.uses \subseteq known.settled, CanBeThere
  PROVE  Old(Current.uses) = {} /\ Old(known.owed) \intersect gone \subseteq Old(known.owed \ Current.uses)
<1>1. Old(Current.uses) \subseteq gone
  BY DEF Fits, Old
<1> QED
  BY <1>1 DEF CanBeThere, Old

\* What is known after a step, field by field.
LEMMA Making ==
  ASSUME NEW known \in Knowledge, NEW l, l = Learned(Current, known),
         Current.do \in {"run", "try", "write"}
  PROVE  /\ l.settled = known.settled \union Current.makes
         /\ l.sure = IF Current.honest THEN known.sure \union Current.makes
                     ELSE known.sure \ Current.makes
         /\ l.absent = known.absent \ Current.makes
         /\ l.unread = IF Current.honest THEN Without(known.unread, Current.makes)
                       ELSE known.unread \union {Current.makes}
         /\ l.owed = known.owed \ Current.uses
         /\ l.firm <=> known.firm /\ Current.do # "try"
BY DEF Learned, Knowledge

LEMMA Refusing ==
  ASSUME NEW known \in Knowledge, NEW l, l = Learned(Current, known), Current.do = "refuse"
  PROVE  /\ l.settled = known.settled /\ l.sure = known.sure
         /\ l.absent = known.absent \ Current.makes /\ l.unread = known.unread
         /\ l.owed = known.owed \union Current.makes /\ ~l.firm
BY DEF Learned, Knowledge

LEMMA Emptying ==
  ASSUME NEW known \in Knowledge, NEW l, l = Learned(Current, known), Current.do = "empty"
  PROVE  /\ l.settled = known.settled \union Current.makes /\ l.sure = known.sure \ Current.makes
         /\ l.absent = known.absent \union Current.makes
         /\ l.unread = Without(known.unread, Current.makes)
         /\ l.owed = known.owed /\ (l.firm <=> known.firm)
BY DEF Learned, Knowledge

LEMMA Looking ==
  ASSUME NEW known \in Knowledge, NEW l, l = Learned(Current, known),
         Current.do \in {"demand", "record", "consult"}
  PROVE  /\ l.settled = known.settled /\ l.sure = known.sure \union Current.uses
         /\ l.absent = known.absent /\ l.unread = Without(known.unread, Current.uses)
         /\ l.owed = known.owed \ Current.uses
         /\ l.firm <=> known.firm /\ Current.do = "demand"
BY DEF Learned, Knowledge

LEMMA Resting ==
  ASSUME NEW known \in Knowledge, NEW l, l = Learned(Current, known),
         Current.do \in {"stop", "publish", "claim"}
  PROVE  /\ l.settled = known.settled /\ l.sure = known.sure /\ l.absent = known.absent
         /\ l.unread = known.unread /\ l.owed = known.owed
         /\ Current.do # "stop" => (l.firm <=> known.firm)
BY DEF Learned, Knowledge

\* What the steps make of it.
LEMMA MakingKeeps ==
  ASSUME NEW known \in Knowledge, NEW l, l = Learned(Current, known),
         Current.do \in {"run", "try", "write"}, Allowed(Current, known), Fits(known),
         CanBeThere, Relies, UNCHANGED <<script, failed>>,
         Makes(FALSE) \/ (~Current.honest /\ Makes(TRUE))
  PROVE  Fits(l)'
<1>1. /\ l.settled = known.settled \union Current.makes
      /\ l.sure = IF Current.honest THEN known.sure \union Current.makes
                  ELSE known.sure \ Current.makes
      /\ l.absent = known.absent \ Current.makes
      /\ l.unread = IF Current.honest THEN Without(known.unread, Current.makes)
                    ELSE known.unread \union {Current.makes}
      /\ l.owed = known.owed \ Current.uses
  BY Making
<1>2. /\ Old(Current.uses) = {}
      /\ Old(known.owed) \intersect gone \subseteq Old(known.owed \ Current.uses)
  BY ReadsNothingOld DEF Allowed
<1>3. Products' = Products
  BY DEF Products, Steps
<1>4. /\ fresh' = fresh \union Current.makes /\ gone' = gone \ Current.makes
      /\ \/ bad' = bad \ Current.makes
         \/ ~Current.honest /\ bad' = bad \union Current.makes
  BY DEF Makes
<1>5. /\ Current.makes \intersect known.owed = {}
      /\ \A u \in known.unread : u \subseteq Current.makes \/ u \intersect Current.makes = {}
  BY DEF Allowed
<1> DEFINE makes == Current.makes
<1> HIDE DEF makes
<1>6. Old(l.settled)' \subseteq gone'
  BY <1>1, <1>3, <1>4 DEF Fits, Old
<1>7. l.sure \intersect Products' \subseteq fresh' \ bad'
  BY <1>1, <1>3, <1>4 DEF Fits
<1>8. l.absent \intersect fresh' = {}
  BY <1>1, <1>4 DEF Fits
<1>9. ASSUME NEW f \in bad' PROVE \E u \in l.unread : f \in u /\ u \subseteq bad'
  <2>1. CASE f \in Current.makes
    BY <1>1, <1>4, <1>9, <2>1
  <2>2. CASE f \notin Current.makes
    <3>1. PICK u \in known.unread : f \in u /\ u \subseteq bad
      BY <1>4, <1>9, <2>2 DEF Fits
    <3>2. u \intersect Current.makes = {}
      BY <1>5, <2>2, <3>1
    <3> QED
      BY <1>1, <1>4, <3>1, <3>2 DEF Without
  <2> QED
    BY <2>1, <2>2
<1>10. ASSUME failed PROVE Old(l.owed)' \intersect gone' # {}
  <2>1. PICK f \in Old(known.owed) : f \in gone
    BY <1>10 DEF Fits
  <2>2. f \in known.owed \ Current.uses /\ f \notin fresh /\ f \in Products
    BY <1>2, <2>1 DEF Old
  <2> QED
    BY <1>1, <1>3, <1>4, <1>5, <2>1, <2>2 DEF Old
<1>11. ~stale'
  BY <1>2 DEF Relies, Fits
<1> QED
  BY <1>6, <1>7, <1>8, <1>9, <1>10, <1>11 DEF Fits

LEMMA LookingKeeps ==
  ASSUME NEW known \in Knowledge, NEW l, l = Learned(Current, known),
         Current.do \in {"demand", "record", "consult"}, Allowed(Current, known), Fits(known),
         CanBeThere, Relies, Holds, UNCHANGED <<script, fileVars, failed>>
  PROVE  Fits(l)'
<1>1. /\ l.settled = known.settled /\ l.sure = known.sure \union Current.uses
      /\ l.absent = known.absent /\ l.unread = Without(known.unread, Current.uses)
      /\ l.owed = known.owed \ Current.uses
  BY Looking
<1>2. /\ Old(Current.uses) = {}
      /\ Old(known.owed) \intersect gone \subseteq Old(known.owed \ Current.uses)
  BY ReadsNothingOld DEF Allowed
<1>3. Products' = Products /\ fresh' = fresh /\ gone' = gone /\ bad' = bad
  BY DEF Products, Steps, fileVars
<1>4. Old(l.settled)' \subseteq gone'
  BY <1>1, <1>3 DEF Fits, Old
<1>5. l.sure \intersect Products' \subseteq fresh' \ bad'
  BY <1>1, <1>2, <1>3 DEF Fits, Old, Holds
<1>6. l.absent \intersect fresh' = {}
  BY <1>1, <1>3 DEF Fits
<1>7. ASSUME NEW f \in bad' PROVE \E u \in l.unread : f \in u /\ u \subseteq bad'
  BY <1>1, <1>3, <1>7 DEF Fits, Holds, Without
<1>8. failed' => Old(l.owed)' \intersect gone' # {}
  BY <1>1, <1>2, <1>3 DEF Fits, Old
<1>9. ~stale'
  BY <1>2 DEF Relies, Fits
<1> QED
  BY <1>4, <1>5, <1>6, <1>7, <1>8, <1>9 DEF Fits

LEMMA RefusingKeeps ==
  ASSUME NEW known \in Knowledge, NEW l, l = Learned(Current, known), RunTypeOK,
         at \in DOMAIN Steps, Telling(known), Allowed(Current, known), RefuseCommand
  PROVE  Telling(l)'
<1>1. /\ l.settled = known.settled /\ l.sure = known.sure
      /\ l.absent = known.absent \ Current.makes /\ l.unread = known.unread
      /\ l.owed = known.owed \union Current.makes /\ ~l.firm
  BY Refusing DEF RefuseCommand, Does
<1>2. /\ Current.makes \subseteq known.settled /\ Current.makes \subseteq known.absent
      /\ Current.makes \intersect known.owed = {} /\ Current.uses \subseteq known.settled
      /\ \A u \in known.unread : u \subseteq Current.makes \/ u \intersect Current.makes = {}
  BY DEF Allowed, RefuseCommand, Does
<1>3. Products' = Products /\ script' = script
  BY DEF Products, Steps, RefuseCommand, Proceed
<1>4. Current.makes \subseteq Products
  BY DEF Products, MadeBy, Current
<1>5. ASSUME good' PROVE Fits(l)'
  <2>1. CASE CanBeThere /\ Relies /\ Makes(FALSE) /\ UNCHANGED <<good, failed>>
    <3>1. Fits(known)
      BY <1>5, <2>1 DEF Telling
    <3>2. /\ Old(Current.uses) = {}
          /\ fresh' = fresh \union Current.makes /\ gone' = gone \ Current.makes
          /\ bad' = bad \ Current.makes
      BY <1>2, <2>1, <3>1, ReadsNothingOld DEF Makes
    <3>3. Old(l.settled)' \subseteq gone' /\ l.sure \intersect Products' \subseteq fresh' \ bad'
      BY <1>1, <1>3, <3>1, <3>2 DEF Fits, Old
    <3>4. l.absent \intersect fresh' = {}
      BY <1>1, <3>1, <3>2 DEF Fits
    <3>5. ASSUME NEW f \in bad' PROVE \E u \in l.unread : f \in u /\ u \subseteq bad'
      <4>1. PICK u \in known.unread : f \in u /\ u \subseteq bad
        BY <3>1, <3>2, <3>5 DEF Fits
      <4>2. u \intersect Current.makes = {}
        BY <1>2, <3>2, <3>5, <4>1
      <4> QED
        BY <1>1, <3>2, <4>1, <4>2
    <3>6. ASSUME failed' PROVE Old(l.owed)' \intersect gone' # {}
      <4>1. PICK f \in Old(known.owed) : f \in gone
        BY <2>1, <3>1, <3>6 DEF Fits
      <4> QED
        BY <1>1, <1>2, <1>3, <3>2, <4>1 DEF Old
    <3>7. ~stale'
      BY <2>1, <3>1, <3>2 DEF Relies, Fits
    <3> QED
      BY <3>3, <3>4, <3>5, <3>6, <3>7 DEF Fits
  <2>2. CASE Current.makes # {} /\ failed' = TRUE /\ UNCHANGED <<fileVars, good, stale>>
    <3>1. Fits(known) /\ fresh' = fresh /\ gone' = gone /\ bad' = bad /\ stale' = stale
      BY <1>5, <2>2 DEF Telling, fileVars
    <3>2. PICK f \in Current.makes : TRUE
      BY <2>2
    <3>3. f \in Old(l.owed)' /\ f \in gone'
      BY <1>1, <1>2, <1>3, <1>4, <3>1, <3>2 DEF Old, Fits
    <3>4. Old(l.settled)' \subseteq gone'
      BY <1>1, <1>3, <3>1 DEF Fits, Old
    <3> QED
      BY <1>1, <1>3, <3>1, <3>3, <3>4 DEF Fits
  <2>3. CASE good' = FALSE
    BY <1>5, <2>3
  <2> QED
    BY <2>1, <2>2, <2>3 DEF RefuseCommand
<1> QED
  BY <1>1, <1>5 DEF Telling

LEMMA EmptyingKeeps ==
  ASSUME NEW known \in Knowledge, NEW l, l = Learned(Current, known),
         Telling(known), Allowed(Current, known), EmptyFiles
  PROVE  Telling(l)'
<1>1. /\ l.settled = known.settled \union Current.makes /\ l.sure = known.sure \ Current.makes
      /\ l.absent = known.absent \union Current.makes
      /\ l.unread = Without(known.unread, Current.makes)
      /\ l.owed = known.owed /\ (l.firm <=> known.firm)
  BY Emptying DEF EmptyFiles, Does
<1>2. /\ Products' = Products /\ good' = good /\ failed' = failed /\ stale' = stale
      /\ gone' = gone \union Current.makes /\ fresh' = fresh \ Current.makes
      /\ bad' = bad \ Current.makes
  BY DEF Products, Steps, EmptyFiles, Proceed, judgement
<1>3. ASSUME Fits(known) PROVE Fits(l)'
  <2>1. Old(l.settled)' \subseteq gone' /\ l.sure \intersect Products' \subseteq fresh' \ bad'
    BY <1>1, <1>2, <1>3 DEF Fits, Old
  <2>2. l.absent \intersect fresh' = {} /\ ~stale'
    BY <1>1, <1>2, <1>3 DEF Fits
  <2>3. ASSUME NEW f \in bad' PROVE \E u \in l.unread : f \in u /\ u \subseteq bad'
    <3>1. PICK u \in known.unread : f \in u /\ u \subseteq bad
      BY <1>2, <1>3, <2>3 DEF Fits
    <3>2. u \intersect Current.makes = {}
      BY <1>2, <2>3, <3>1 DEF Allowed
    <3> QED
      BY <1>1, <1>2, <3>1, <3>2 DEF Without
  <2>4. failed' => Old(l.owed)' \intersect gone' # {}
    BY <1>1, <1>2, <1>3 DEF Fits, Old
  <2> QED
    BY <2>1, <2>2, <2>3, <2>4 DEF Fits
<1> QED
  BY <1>1, <1>2, <1>3 DEF Telling

LEMMA FilesStay ==
  ASSUME NEW known, Fits(known), UNCHANGED <<script, fileVars, failed, stale>>
  PROVE  Fits(known)'
<1>1. Products' = Products /\ fresh' = fresh /\ gone' = gone /\ bad' = bad
  BY DEF Products, Steps, fileVars
<1>2. Old(known.settled)' = Old(known.settled) /\ Old(known.owed)' = Old(known.owed)
  BY <1>1 DEF Old
<1> QED
  BY <1>1, <1>2 DEF Fits

\* Every step that is taken and does not end the script keeps what is known.
LEMMA TakenKeeps ==
  ASSUME NEW known \in Knowledge, NEW l, l = Learned(Current, known), RunTypeOK,
         at \in DOMAIN Steps, Telling(known), Allowed(Current, known),
         \/ RunCommand \/ TryCommand \/ RefuseCommand \/ WriteFiles \/ EmptyFiles
         \/ Demand \/ RecordCheck \/ Consult \/ Stop \/ WriteResult,
         exit' = "running"
  PROVE  Telling(l)'
<1>1. ~GiveUp
  BY DEF GiveUp
<1>2. good \in BOOLEAN /\ failed \in BOOLEAN /\ stale \in BOOLEAN
  BY DEF RunTypeOK
<1>3. ASSUME Current.do \in {"run", "try", "write"}, CanBeThere, Relies, Proceed,
             UNCHANGED <<good, failed>>, Makes(FALSE) \/ (~Current.honest /\ Makes(TRUE))
      PROVE  Telling(l)'
  <2>1. l.firm => known.firm
    BY <1>3, Making
  <2>2. Fits(known) => Fits(l)'
    BY <1>3, MakingKeeps DEF Proceed
  <2> QED
    BY <1>3, <2>1, <2>2 DEF Telling
<1>4. CASE RunCommand
  BY <1>1, <1>3, <1>4 DEF RunCommand, CommandDoes, Does
<1>5. CASE TryCommand
  <2>1. CASE CommandDoes
    BY <1>3, <1>5, <2>1 DEF TryCommand, CommandDoes, Does
  <2>2. CASE CommandFails
    <3>1. ~l.firm
      BY <1>5, Making DEF TryCommand, Does
    <3> QED
      BY <2>2, <3>1 DEF CommandFails, Telling
  <2> QED
    BY <1>5, <2>1, <2>2 DEF TryCommand
<1>6. CASE RefuseCommand
  BY <1>6, RefusingKeeps
<1>7. CASE WriteFiles
  BY <1>1, <1>3, <1>7 DEF WriteFiles, Does
<1>8. CASE EmptyFiles
  BY <1>8, EmptyingKeeps
<1>9. ASSUME Current.do \in {"demand", "record", "consult"}, CanBeThere, Relies, Holds,
             Proceed, UNCHANGED <<fileVars, good, failed>>
      PROVE  Telling(l)'
  <2>1. l.firm => known.firm
    BY <1>9, Looking
  <2>2. Fits(known) => Fits(l)'
    BY <1>9, LookingKeeps DEF Proceed
  <2> QED
    BY <1>9, <2>1, <2>2 DEF Telling
<1>10. CASE Demand
  BY <1>1, <1>9, <1>10 DEF Demand, Does
<1>11. ASSUME Current.do \in {"record", "consult"}, CanBeThere, Relies,
              NEW holds \in BOOLEAN, Judges(Holds /\ holds), Proceed, UNCHANGED fileVars
       PROVE  Telling(l)'
  <2>1. CASE Holds /\ holds
    <3>1. good' = good /\ failed' = failed
      BY <1>2, <1>11, <2>1 DEF Judges
    <3> QED
      BY <1>9, <1>11, <2>1, <3>1
  <2>2. CASE ~(Holds /\ holds)
    <3>1. ~good'
      BY <1>2, <1>11, <2>2 DEF Judges
    <3>2. ~l.firm
      BY <1>11, Looking
    <3> QED
      BY <3>1, <3>2 DEF Telling
  <2> QED
    BY <2>1, <2>2
<1>12. CASE RecordCheck
  BY <1>1, <1>11, <1>12 DEF RecordCheck, Does
<1>13. CASE Consult
  <2>1. CASE Judges(FALSE)
    <3>1. ~good' /\ ~l.firm
      BY <1>13, <2>1, Looking DEF Judges, Consult, Does
    <3> QED
      BY <3>1 DEF Telling
  <2> QED
    BY <1>1, <1>11, <1>13, <2>1 DEF Consult, Does
<1>14. CASE Stop \/ WriteResult
  <2>1. /\ UNCHANGED <<script, fileVars, good, failed, stale>>
        /\ Current.do \in {"stop", "publish", "claim"} /\ (Current.do = "stop" => good)
    BY <1>1, <1>14 DEF Stop, WriteResult, Does, Proceed, judgement
  <2>2. /\ l.settled = known.settled /\ l.sure = known.sure /\ l.absent = known.absent
        /\ l.unread = known.unread /\ l.owed = known.owed
        /\ Current.do # "stop" => (l.firm <=> known.firm)
    BY <2>1, Resting
  <2>3. Fits(known) => Fits(l)
    BY <2>2 DEF Fits
  <2>4. Fits(l) => Fits(l)'
    BY <2>1, FilesStay
  <2> QED
    BY <2>1, <2>2, <2>3, <2>4 DEF Telling
<1> QED
  BY <1>4, <1>5, <1>6, <1>7, <1>8, <1>10, <1>12, <1>13, <1>14

LEMMA OnlyStopsFirm ==
  ASSUME NEW known \in Knowledge, Current.do # "stop"
  PROVE  Learned(Current, known).firm => known.firm
BY DEF Learned, Knowledge

\* Steps that decide nothing leave the verdict open.
LEMMA StepsTaken ==
  ASSUME RunTypeOK, at \in DOMAIN Steps, RunNext
  PROVE  /\ exit = "running" /\ script' = script
         /\ \/ GiveUp
            \/ Conclude
            \/ /\ exit' = "running" /\ at' = at + 1
               /\ \/ Skip
                  \/ RunCommand \/ TryCommand \/ RefuseCommand \/ WriteFiles \/ EmptyFiles
                  \/ Demand \/ RecordCheck \/ Consult \/ Stop \/ WriteResult
         /\ RunTypeOK'
<1> USE DEF RunTypeOK, Proceed, GiveUp, Does
<1>1. CASE RunCommand
  BY <1>1 DEF RunCommand, CommandDoes, Relies
<1>2. CASE TryCommand
  BY <1>2 DEF TryCommand, CommandDoes, CommandFails, Relies
<1>3. CASE RefuseCommand
  BY <1>3 DEF RefuseCommand, Relies
<1>4. CASE WriteFiles
  BY <1>4 DEF WriteFiles, Relies
<1>5. CASE EmptyFiles \/ Stop \/ Skip
  BY <1>5 DEF EmptyFiles, Stop, Skip, judgement
<1>6. CASE Demand
  BY <1>6 DEF Demand, Relies
<1>7. CASE RecordCheck
  BY <1>7 DEF RecordCheck, Relies, Judges
<1>8. CASE Consult
  BY <1>8 DEF Consult, Relies, Judges
<1>9. CASE WriteResult
  BY <1>9 DEF WriteResult, judgement
<1>10. CASE Conclude
  BY <1>10 DEF Conclude, judgement
<1> QED
  BY <1>1, <1>2, <1>3, <1>4, <1>5, <1>6, <1>7, <1>8, <1>9, <1>10 DEF RunNext

\* What makes a script firm leaves nothing bad recorded, whatever files there are.
LEMMA FirmStays ==
  ASSUME NEW known \in Knowledge, known.firm => good, good \in BOOLEAN, exit' = "running",
         Current.do = "stop" => Current.after = {},
         \/ Skip
         \/ RunCommand \/ TryCommand \/ RefuseCommand \/ WriteFiles \/ EmptyFiles
         \/ Demand \/ RecordCheck \/ Consult \/ Stop \/ WriteResult,
         Learned(Current, known).firm
  PROVE  good'
<1>1. CASE Skip
  <2>1. good' = good /\ Current.do # "stop"
    BY <1>1 DEF Skip, Taken, judgement
  <2> QED
    BY <2>1, OnlyStopsFirm
<1>2. CASE Stop
  BY <1>2 DEF Stop, GiveUp, judgement
<1>3. CASE RunCommand \/ WriteFiles \/ EmptyFiles \/ Demand \/ WriteResult
  <2>1. good' = good /\ Current.do # "stop"
    BY <1>3 DEF RunCommand, CommandDoes, WriteFiles, EmptyFiles, Demand, WriteResult, GiveUp,
       Does, judgement
  <2> QED
    BY <2>1, OnlyStopsFirm
<1>4. CASE TryCommand \/ RefuseCommand \/ RecordCheck \/ Consult
  <2>1. Current.do \in {"try", "refuse", "record", "consult"}
    BY <1>4 DEF TryCommand, RefuseCommand, RecordCheck, Consult, Does
  <2>2. ~Learned(Current, known).firm
    BY <2>1 DEF Learned, Knowledge
  <2> QED
    BY <2>2
<1> QED
  BY <1>1, <1>2, <1>3, <1>4

LEMMA ResultStays ==
  ASSUME RunTypeOK, at \in DOMAIN Steps, DOMAIN Steps = 1 .. Len(Steps), Len(Steps) \in Nat,
         ResultTells, RunNext, exit' = "running",
         Current.do = "claim" => good,
         Current.do \in {"publish", "claim"} =>
           \A j \in at + 1 .. Len(Steps) : Steps[j].do \in {"stop", "answer", "finish"}
  PROVE  ResultTells'
<1>1. /\ script' = script /\ at' = at + 1 /\ at \in Nat /\ good \in BOOLEAN
      /\ ~GiveUp /\ ~Conclude
  BY StepsTaken DEF RunTypeOK, GiveUp, Conclude
<1>2. Steps' = Steps
  BY <1>1 DEF Steps
<1>3. CASE WriteResult
  <2>1. \A j \in at' .. Len(Steps') : Steps'[j].do \in {"stop", "answer", "finish"}
    BY <1>1, <1>2, <1>3 DEF WriteResult
  <2>2. (result' = "PASS" <=> good') 
    BY <1>1, <1>3 DEF WriteResult, judgement
  <2> QED
    BY <2>1, <2>2 DEF ResultTells
<1>4. CASE Stop \/ Skip
  <2>1. result' = result /\ good' = good
    BY <1>1, <1>4 DEF Stop, Skip, judgement
  <2> QED
    BY <1>1, <1>2, <2>1 DEF ResultTells
<1>5. CASE \/ RunCommand \/ TryCommand \/ RefuseCommand \/ WriteFiles \/ EmptyFiles
           \/ Demand \/ RecordCheck \/ Consult
  <2>1. result' = result /\ Current.do \notin {"stop", "answer", "finish"}
    BY <1>1, <1>5 DEF RunCommand, TryCommand, CommandDoes, CommandFails, RefuseCommand,
       WriteFiles, EmptyFiles, Demand, RecordCheck, Consult, Does
  <2>2. at \in at .. Len(Steps)
    BY <1>1
  <2>3. result = "none"
    BY <2>1, <2>2 DEF ResultTells, Current
  <2> QED
    BY <2>1, <2>3 DEF ResultTells
<1> QED
  BY <1>1, <1>3, <1>4, <1>5 DEF RunNext

\* A script whose verdict nothing disturbs, up to the step it is at.
LEMMA VerdictInvNext ==
  ASSUME NEW plans, \A s \in DOMAIN Scripts : Orderly(Scripts[s], plans[s]),
         VerdictInv(plans), [RunNext]_runVars
  PROVE  VerdictInv(plans)'
<1>1. CASE UNCHANGED runVars
  BY <1>1 DEF runVars, VerdictInv, RunTypeOK, ResultTells, Steps, ResultIsTheVerdict
<1>2. CASE RunNext
  <2>1. exit = "running"
    BY <1>2 DEF RunNext, RunCommand, TryCommand, RefuseCommand, WriteFiles, EmptyFiles, Demand,
       RecordCheck, Consult, Stop, WriteResult, Conclude, Skip, Does
  <2>2. /\ RunTypeOK /\ at \in DOMAIN Steps /\ (plans[script][at].firm => good) /\ ResultTells
        /\ script \in DOMAIN Scripts
    BY <2>1 DEF VerdictInv, RunTypeOK
  <2>3. /\ script' = script /\ RunTypeOK' /\ Steps' = Steps
        /\ \/ GiveUp
           \/ Conclude
           \/ /\ exit' = "running" /\ at' = at + 1
              /\ \/ Skip
                 \/ RunCommand \/ TryCommand \/ RefuseCommand \/ WriteFiles \/ EmptyFiles
                 \/ Demand \/ RecordCheck \/ Consult \/ Stop \/ WriteResult
    BY <1>2, <2>2, StepsTaken DEF Steps
  <2>4. PICK plan : plan = plans[script]
    OBVIOUS
  <2>5. PICK known : known = plan[at]
    OBVIOUS
  <2>6. Orderly(Steps, plan)
    BY <2>2, <2>4 DEF Steps
  <2>7. /\ Len(Steps) \in Nat \ {0} /\ DOMAIN Steps = 1 .. Len(Steps)
        /\ known \in Knowledge /\ (known.firm => good)
        /\ Current.do \in {"claim", "finish"} => known.firm
        /\ Current.do = "stop" => Current.after = {}
        /\ at # Len(Steps) /\ plan[at + 1].firm => Learned(Current, known).firm
        /\ Current.do \in {"publish", "claim"} =>
             \A j \in at + 1 .. Len(Steps) : Steps[j].do \in {"stop", "answer", "finish"}
        /\ at = Len(Steps) => Current.do \in {"answer", "finish"} /\ Current.after = {}
    BY <2>2, <2>4, <2>5, <2>6 DEF Orderly, Current
  <2>8. Current.do \in {"claim", "finish"} => good
    BY <2>7
  <2>9. CASE exit' = "running"
    <3>1. at' = at + 1 /\ ~GiveUp /\ ~Conclude
      BY <2>3, <2>9 DEF GiveUp, Conclude
    <3>2. at # Len(Steps)
      BY <2>3, <2>7, <3>1 DEF Skip, Taken, RunCommand, TryCommand, RefuseCommand, WriteFiles,
         EmptyFiles, Demand, RecordCheck, Consult, Stop, WriteResult, Does
    <3>3. at' \in DOMAIN Steps'
      BY <2>2, <2>3, <2>7, <3>1, <3>2
    <3>4. plan[at'].firm => good'
      <4>1. plan[at'].firm => Learned(Current, known).firm
        BY <2>7, <3>1, <3>2
      <4>2. Learned(Current, known).firm => good'
        <5>1. good \in BOOLEAN
          BY <2>2 DEF RunTypeOK
        <5>2. \/ Skip
              \/ RunCommand \/ TryCommand \/ RefuseCommand \/ WriteFiles \/ EmptyFiles
              \/ Demand \/ RecordCheck \/ Consult \/ Stop \/ WriteResult
          BY <2>3, <3>1
        <5> QED
          BY <2>7, <2>9, <5>1, <5>2, FirmStays
      <4> QED
        BY <4>1, <4>2
    <3>5. ResultTells'
      BY <1>2, <2>2, <2>7, <2>8, <2>9, ResultStays
    <3>6. plans[script']  = plan
      BY <2>3, <2>4
    <3> QED
      BY <2>3, <2>9, <3>3, <3>4, <3>5, <3>6 DEF VerdictInv, ResultIsTheVerdict
  <2>10. CASE GiveUp /\ ~Conclude
    <3>1. /\ exit' = "failure" /\ result' = result /\ Current.do \notin {"answer", "finish"}
          /\ Current.do = "stop" => ~good
      BY <1>2, <2>1, <2>10 DEF GiveUp, RunNext, Stop, Does, RunCommand, TryCommand,
         RefuseCommand, WriteFiles, EmptyFiles, Demand, RecordCheck, Consult, WriteResult,
         Skip, Proceed, CommandDoes, CommandFails
    <3>2. at \in at .. Len(Steps)
      BY <2>2, <2>7
    <3>3. result # "none" => Current.do = "stop" /\ (result = "PASS" <=> good)
      BY <2>2, <3>1, <3>2 DEF ResultTells, Current
    <3> QED
      BY <2>3, <3>1, <3>3 DEF VerdictInv, ResultIsTheVerdict
  <2>11. CASE Conclude
    <3>1. /\ result' = result /\ exit' \in {"success", "failure"}
          /\ exit' = "success" <=> good
      BY <2>2, <2>8, <2>11 DEF Conclude, RunTypeOK
    <3>2. result # "none" => (result = "PASS" <=> good)
      BY <2>2 DEF ResultTells
    <3> QED
      BY <2>3, <3>1, <3>2 DEF VerdictInv, ResultIsTheVerdict
  <2> QED
    BY <2>3, <2>9, <2>10, <2>11
<1> QED
  BY <1>1, <1>2

\* A script of the discipline knows what it may before each step.
LEMMA EvidenceInvNext ==
  ASSUME NEW plans, script \in DOMAIN Scripts => Disciplined(Scripts[script], plans[script]),
         EvidenceInv(plans), [RunNext]_runVars
  PROVE  EvidenceInv(plans)'
<1>1. CASE UNCHANGED runVars
  BY <1>1 DEF runVars, EvidenceInv, RunTypeOK, Telling, Fits, Old, Products, Steps,
     SuccessIsEarned
<1>2. CASE RunNext
  <2>1. exit = "running"
    BY <1>2 DEF RunNext, RunCommand, TryCommand, RefuseCommand, WriteFiles, EmptyFiles, Demand,
       RecordCheck, Consult, Stop, WriteResult, Conclude, Skip, Does
  <2>2. /\ RunTypeOK /\ at \in DOMAIN Steps /\ Telling(plans[script][at])
        /\ script \in DOMAIN Scripts
    BY <2>1 DEF EvidenceInv, RunTypeOK
  <2>3. /\ script' = script /\ RunTypeOK' /\ Steps' = Steps
        /\ \/ GiveUp
           \/ Conclude
           \/ /\ exit' = "running" /\ at' = at + 1
              /\ \/ Skip
                 \/ RunCommand \/ TryCommand \/ RefuseCommand \/ WriteFiles \/ EmptyFiles
                 \/ Demand \/ RecordCheck \/ Consult \/ Stop \/ WriteResult
    BY <1>2, <2>2, StepsTaken DEF Steps
  <2>4. PICK plan : plan = plans[script]
    OBVIOUS
  <2>5. PICK known : known = plan[at]
    OBVIOUS
  <2>6. Disciplined(Steps, plan)
    BY <2>2, <2>4 DEF Steps
  <2>7. /\ Len(Steps) \in Nat \ {0} /\ DOMAIN Steps = 1 .. Len(Steps)
        /\ known \in Knowledge /\ Allowed(Current, known) /\ Telling(known)
        /\ at # Len(Steps) =>
             /\ Implies(Learned(Current, known), plan[at + 1])
             /\ CanBeSkipped(Current, known) => Implies(known, plan[at + 1])
        /\ Current.after \subseteq Products
        /\ at = Len(Steps) => Current.do \in {"answer", "finish"} /\ Current.after = {}
    BY <2>2, <2>4, <2>5, <2>6 DEF Disciplined, Current, Products
  <2>8. Current.do = "finish" => good
    BY <2>7 DEF Allowed, Telling
  <2>9. CASE exit' = "running"
    <3>1. at' = at + 1 /\ ~GiveUp /\ ~Conclude
      BY <2>3, <2>9 DEF GiveUp, Conclude
    <3>2. at # Len(Steps)
      BY <2>3, <2>7, <3>1 DEF Skip, Taken, RunCommand, TryCommand, RefuseCommand, WriteFiles,
         EmptyFiles, Demand, RecordCheck, Consult, Stop, WriteResult, Does
    <3>3. at' \in DOMAIN Steps'
      BY <2>2, <2>3, <2>7, <3>1, <3>2
    <3>4. PICK coming : coming = plan[at + 1]
      OBVIOUS
    <3>5. Telling(coming)'
      <4>1. CASE Skip
        <5>1. ASSUME good PROVE CanBeSkipped(Current, known)
          BY <2>7, <4>1, <5>1 DEF Telling, Fits, Skip, Taken, CanBeSkipped
        <5>2. Fits(known) => Fits(known)'
          BY <2>3, <4>1, FilesStay DEF Skip, judgement
        <5>3. good' = good
          BY <4>1 DEF Skip, judgement
        <5>4. CASE good
          <6>1. Telling(known)' /\ Implies(known, coming)
            BY <2>7, <3>2, <3>4, <5>1, <5>2, <5>3, <5>4 DEF Telling
          <6>2. Telling(coming)
            BY <2>7, <6>1, LessFits
          <6>3. Fits(coming) => Fits(coming)'
            BY <2>3, <4>1, FilesStay DEF Skip, judgement
          <6> QED
            BY <5>3, <6>2, <6>3 DEF Telling
        <5>5. CASE ~good
          <6>1. ~known.firm
            BY <2>7, <5>5 DEF Telling
          <6>2. Implies(Learned(Current, known), coming) /\ Current.do # "stop"
            BY <2>7, <3>2, <3>4, <4>1 DEF Allowed, Skip, Taken
          <6>3. Learned(Current, known).firm => known.firm
            BY <2>7, <6>2, OnlyStopsFirm
          <6> QED
            BY <5>3, <5>5, <6>1, <6>2, <6>3 DEF Telling, Implies
        <5> QED
          BY <5>4, <5>5
      <4>2. CASE ~Skip
        <5>1. PICK l : l = Learned(Current, known)
          OBVIOUS
        <5>2. Telling(l)'
          BY <2>2, <2>3, <2>7, <2>9, <3>1, <4>2, <5>1, TakenKeeps
        <5>3. Implies(l, coming)
          BY <2>7, <3>2, <3>4, <5>1
        <5> QED
          BY <5>2, <5>3, LessFits
      <4> QED
        BY <4>1, <4>2
    <3>6. plans[script']  = plan /\ plan[at'] = coming
      BY <2>3, <2>4, <3>1, <3>4
    <3> QED
      BY <2>3, <2>9, <3>3, <3>5, <3>6 DEF EvidenceInv, SuccessIsEarned, Telling, Fits, Old
  <2>10. CASE GiveUp /\ ~Conclude
    BY <2>3, <2>10 DEF GiveUp, EvidenceInv, SuccessIsEarned
  <2>11. CASE Conclude
    <3>1. /\ UNCHANGED <<fileVars, good, failed, stale, result>>
          /\ Current.do \in {"answer", "finish"} /\ exit' \in {"success", "failure"}
          /\ exit' = "success" <=> good
      BY <2>2, <2>8, <2>11 DEF Conclude, judgement, RunTypeOK
    <3>2. good => ~failed /\ ~stale /\ bad = {}
      BY <2>7, <3>1 DEF Allowed, Telling, Fits, Old
    <3>3. SuccessIsEarned'
      BY <3>1, <3>2 DEF SuccessIsEarned, fileVars
    <3> QED
      BY <2>3, <3>1, <3>3 DEF EvidenceInv
  <2> QED
    BY <2>3, <2>9, <2>10, <2>11
<1> QED
  BY <1>1, <1>2

LEMMA EvidenceInitInv ==
  ASSUME NEW plans, script \in DOMAIN Scripts => Disciplined(Scripts[script], plans[script]), RunInit
  PROVE  EvidenceInv(plans)
<1>1. PICK known : known = plans[script][1]
  OBVIOUS
<1>2. /\ Disciplined(Steps, plans[script]) /\ at = 1
      /\ fresh = {} /\ bad = {} /\ good /\ ~failed /\ ~stale
      /\ exit = "running" /\ RunTypeOK
  BY DEF RunInit, Steps, RunTypeOK
<1>3. at \in DOMAIN Steps
  BY <1>2 DEF Disciplined
<1>4. (known.settled \union known.sure) \intersect Products = {}
  BY <1>1, <1>2 DEF Disciplined, Products
<1>5. Fits(known)
  BY <1>2, <1>4 DEF Fits, Old
<1>6. Telling(plans[script][at])
  BY <1>1, <1>2, <1>5 DEF Telling
<1> QED
  BY <1>2, <1>3, <1>6 DEF EvidenceInv, SuccessIsEarned

\* An invocation is one of a single script.
LEMMA ScriptStays ==
  ASSUME [RunNext]_runVars
  PROVE  script' = script
BY DEF runVars, RunNext, RunCommand, TryCommand, CommandDoes, CommandFails, RefuseCommand, WriteFiles,
   EmptyFiles, Demand, RecordCheck, Consult, Stop, WriteResult, Conclude, Skip, Proceed, GiveUp

(***************************************************************************)
(* A script that keeps to the discipline exits with 0 only if all it did   *)
(* passed, all it wrote was looked at, and nothing was left over. Nothing  *)
(* is assumed of the scripts of OverOldRecords, and nothing said of them.  *)
(***************************************************************************)
THEOREM SuccessMeansSuccess ==
  ASSUME NEW plans,
         \A s \in DOMAIN Scripts \ OverOldRecords : Disciplined(Scripts[s], plans[s])
  PROVE  RunSpec => []SuccessIsEarned
<1> DEFINE Inv == script \in OverOldRecords \/ EvidenceInv(plans)
<1>1. RunInit => Inv
  BY EvidenceInitInv
<1>2. Inv /\ [RunNext]_runVars => Inv'
  <2> SUFFICES ASSUME Inv, [RunNext]_runVars PROVE Inv'
    OBVIOUS
  <2>1. CASE script \in OverOldRecords
    BY <2>1, ScriptStays DEF OverOldRecords
  <2>2. CASE script \notin OverOldRecords
    BY <2>2, EvidenceInvNext
  <2> QED
    BY <2>1, <2>2
<1>3. Inv => SuccessIsEarned
  BY DEF EvidenceInv, SuccessIsEarned
<1> QED
  BY <1>1, <1>2, <1>3, PTL DEF RunSpec

(***************************************************************************)
(* The result file of a script, if it writes one, says what its exit code  *)
(* says: of every script in which nothing is recorded after the result and *)
(* nothing claimed before all has passed.                                  *)
(***************************************************************************)
THEOREM ResultMatchesExit ==
  ASSUME NEW plans, \A s \in DOMAIN Scripts : Orderly(Scripts[s], plans[s])
  PROVE  RunSpec => []ResultIsTheVerdict
<1>1. RunInit => VerdictInv(plans)
  <2> SUFFICES ASSUME RunInit PROVE VerdictInv(plans)
    OBVIOUS
  <2>1. /\ Orderly(Steps, plans[script]) /\ at = 1 /\ good
        /\ exit = "running" /\ result = "none" /\ RunTypeOK
    BY DEF RunInit, Steps, RunTypeOK
  <2>2. at \in DOMAIN Steps
    BY <2>1 DEF Orderly
  <2> QED
    BY <2>1, <2>2 DEF VerdictInv, ResultTells, ResultIsTheVerdict
<1>2. VerdictInv(plans) /\ [RunNext]_runVars => VerdictInv(plans)'
  BY VerdictInvNext
<1>3. VerdictInv(plans) => ResultIsTheVerdict
  BY DEF VerdictInv
<1> QED
  BY <1>1, <1>2, <1>3, PTL DEF RunSpec
===============================================================================
