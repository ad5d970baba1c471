--------------------------- MODULE NativeChunksProof ---------------------------
(***************************************************************************)
(* Chunked native emission is correct for every number of sources and of   *)
(* chunks, whatever each source comes to and however the threads           *)
(* interleave.                                                             *)
(***************************************************************************)
EXTENDS NativeChunks, WorkerPoolProof, PartitioningProof

(* The inductive invariant, in named parts. *)

Unrun(c) == result[c] = -1

\* Sources of chunk c that its range loop has passed.
Seen(c) == First(c) .. cursor[c] - 1

Some(S, k) == \E s \in S : kind[s] = k

\* A chunk's flags and its private output say what its loop has passed.
Progress(c) ==
  /\ First(c) <= cursor[c] /\ cursor[c] <= End(c)
  /\ full[c] <=> \E s \in Seen(c) : s \in tight
  /\ errors[c] <=> Some(Seen(c), "errors")
  /\ grown[c] <=> Some(Seen(c), "growth")
  /\ ~Some(Seen(c), "fatal")
  /\ range[c] = 1 => cursor[c] < End(c) /\ kind[cursor[c]] = "fatal"
  /\ ~full[c] => Lists(out[c], {s \in Seen(c) : kind[s] \in LoweredKinds})

\* A chunk is unrun and untouched, or busy, or run to its end.
RunState(c) ==
  /\ busy[c] => Unrun(c)
  /\ ~busy[c] /\ Unrun(c) => cursor[c] = First(c) /\ range[c] = 0
  /\ ~Unrun(c) => /\ cursor[c] = End(c) \/ range[c] = 1
                  /\ result[c] = ChunkResult(c)

\* While the pool is at work its callbacks and the chunks go together.
LaunchInv ==
  /\ stage # "launch" => phase = "returned"
  /\ stage = "launch" =>
       /\ \A c \in ChunkSlot : /\ busy[c] <=> callback[c] = "running"
                               /\ Unrun(c) <=> callback[c] # "done"
       /\ busy[Chunks] <=> phase = "caller"
       /\ Unrun(Chunks) <=> \/ phase \notin {"wait", "close", "returned"}
                            \/ phase # "wait" /\ launch = 3

FallbackInv ==
  stage = "fallback" =>
    /\ at \in Chunk
    /\ \A c \in Chunk : /\ c < at => ~Unrun(c)
                        /\ busy[c] => c = at

SettledInv ==
  stage \notin {"launch", "fallback"} =>
    \A c \in Chunk : ~busy[c] /\ ~Unrun(c)

ColdInv ==
  /\ cold # "absent" <=> Cold
  /\ stage \in {"decide", "append", "replay", "done"} =>
       cold \notin {"pending", "running"}

LiveInv == live <=> stage \notin {"replay", "done"}

\* What the driver has decided so far, and on what grounds.
DriverInv ==
  /\ stage # "done" <=> outcome = "pending"
  /\ stage \notin {"append", "done"} => output = <<>>
  /\ stage \notin {"replay", "done"} => diagnostics = <<>>
  /\ stage = "append" =>
       /\ at \in Chunk /\ Passed /\ ~HasErrors
       /\ Lists(output, {s \in 0 .. First(at) - 1 : kind[s] \in LoweredKinds})
  /\ stage = "replay" =>
       /\ at \in Source /\ Passed /\ HasErrors
       /\ Lists(diagnostics, {s \in 0 .. at - 1 : kind[s] = "errors"})
  /\ outcome = "emitted" =>
       Lists(output, Lowered) /\ diagnostics = <<>>
  /\ outcome = "rejected" =>
       Lists(diagnostics, Erroneous) /\ output = <<>>
  /\ outcome = "failed" => output = <<>> /\ diagnostics = <<>>

USE ChunksAssumption, PoolSize DEF Slot, Chunk, ChunkSlot, ColdSlot, Source

ChunkInv == \A c \in Chunk : Progress(c) /\ RunState(c)

\* Where the buffers are too small is settled by the sources and the cut.
TightInv == tight = Overflowing

IInv ==
  /\ TypeOK /\ PoolInv
  /\ ChunkInv /\ TightInv /\ LaunchInv /\ FallbackInv /\ SettledInv
  /\ ColdInv /\ LiveInv /\ DriverInv

(***************************************************************************)
(* The chunks tile the sources.                                            *)
(***************************************************************************)
LEMMA ChunkFacts ==
  /\ First(1) = 0
  /\ End(Chunks) = NumSources
  /\ \A c \in Chunk : First(c) \in Nat /\ End(c) \in Nat
                      /\ First(c) <= End(c) /\ End(c) <= NumSources
  /\ \A c, d \in Chunk : c < d => End(c) <= First(d)
  /\ \A c \in Chunk : c # Chunks => c + 1 \in Chunk /\ First(c + 1) = End(c)
<1>1. NumSources \in Nat /\ Chunks \in Nat \ {0}
  OBVIOUS
<1> QED
  BY <1>1, PartsTile DEF First, End

(* Every source belongs to a chunk. *)
LEMMA SourceInChunk ==
  ASSUME NEW s \in Source
  PROVE  \E c \in Chunk : First(c) <= s /\ s < End(c)
<1>1. NumSources \in Nat \ {0} /\ Chunks \in Nat \ {0} /\ s \in 0 .. NumSources - 1
  OBVIOUS
<1> QED
  BY <1>1, ItemInPart DEF First, End

(***************************************************************************)
(* Type correctness, and the pool's own invariant.                         *)
(***************************************************************************)

(* Every step is a step of the pool or leaves the pool alone. *)
LEMMA NextIsPool == [Next]_vars => [PoolNext]_poolVars
<1> SUFFICES ASSUME [Next]_vars PROVE [PoolNext]_poolVars
  OBVIOUS
<1> USE DEF PoolNext, LaunchStep, PoolStep
<1>1. ASSUME NEW c \in ChunkSlot PROVE c \in Slot
  OBVIOUS
<1>2. CASE Launch
  BY <1>2 DEF Launch
<1>3. CASE CallerBegins \/ CallerEnds
  BY <1>3 DEF CallerBegins, CallerEnds
<1>4. ASSUME NEW c \in ChunkSlot, PoolThread(c) PROVE PoolNext
  BY <1>1, <1>4 DEF PoolThread, StartJob, FinishJob
<1>5. CASE StartCold \/ FinishCold
  BY <1>5 DEF StartCold, FinishCold
<1>6. CASE \/ LaunchReturns \/ FallbackSkip \/ FallbackBegin \/ FallbackEnd
           \/ SerialCold \/ DecideReplay \/ DecideMerge \/ DecideFail
           \/ AppendChunk \/ ReplaySource
  BY <1>6 DEF LaunchReturns, FallbackSkip, FallbackBegin, FallbackEnd,
              SerialCold, DecideReplay, DecideMerge, DecideFail, AppendChunk,
              ReplaySource
<1>7. ASSUME NEW c \in Chunk, EmitSource(c) PROVE UNCHANGED poolVars
  BY <1>7 DEF EmitSource
<1>8. CASE Finished \/ UNCHANGED vars
  BY <1>8 DEF Finished, vars
<1> QED
  BY <1>2, <1>3, <1>4, <1>5, <1>6, <1>7, <1>8 DEF Next, Launcher

(* The steps of a chunk job keep the types of the chunk's variables. *)
LEMMA ChunkTypes ==
  ASSUME TypeOK, NEW c \in Chunk,
         BeginChunk(c) \/ EndChunk(c) \/ UNCHANGED chunkVars
  PROVE  /\ busy' \in [Chunk -> BOOLEAN]
         /\ cursor' \in [Chunk -> Nat]
         /\ out' \in [Chunk -> Seq(Int)]
         /\ full' \in [Chunk -> BOOLEAN]
         /\ errors' \in [Chunk -> BOOLEAN]
         /\ grown' \in [Chunk -> BOOLEAN]
         /\ range' \in [Chunk -> {0, 1}]
         /\ result' \in [Chunk -> -1 .. 3]
<1>1. CASE BeginChunk(c)
  <2>1. First(c) \in Nat
    BY ChunkFacts
  <2> QED
    BY <1>1, <2>1 DEF BeginChunk, TypeOK
<1>2. CASE EndChunk(c)
  <2>1. ChunkResult(c) \in -1 .. 3
    BY DEF TypeOK, ChunkResult
  <2> QED
    BY <1>2, <2>1 DEF EndChunk, TypeOK
<1>3. CASE UNCHANGED chunkVars
  BY <1>3 DEF chunkVars, TypeOK
<1> QED
  BY <1>1, <1>2, <1>3

(* No step from the invariant leaves the types. *)
LEMMA TypeNext == IInv /\ PoolTypeOK' /\ [Next]_vars => TypeOK'
<1> SUFFICES ASSUME IInv, PoolTypeOK', [Next]_vars PROVE TypeOK'
  OBVIOUS
<1>0. TypeOK
  BY DEF IInv
<1> USE DEF serialVars, driverVars
<1>1. ASSUME NEW c \in Chunk,
             BeginChunk(c) \/ EndChunk(c) \/ UNCHANGED chunkVars,
             UNCHANGED serialVars,
             stage' \in Stage, at' \in Nat, live' \in BOOLEAN,
             cold' \in {"absent", "pending", "running", "prepared", "abandoned"}
      PROVE  TypeOK'
  BY <1>0, <1>1, ChunkTypes DEF TypeOK
<1>2. ASSUME UNCHANGED <<chunkVars, kind, tight, cold>>,
             outcome' \in {"pending", "emitted", "rejected", "failed"},
             output' \in Seq(Int), diagnostics' \in Seq(Int),
             stage' \in Stage, at' \in Nat, live' \in BOOLEAN
      PROVE  TypeOK'
  BY <1>0, <1>2 DEF TypeOK, chunkVars
<1>3. /\ stage \in Stage /\ at \in Nat /\ live \in BOOLEAN
      /\ output \in Seq(Int) /\ diagnostics \in Seq(Int)
      /\ outcome \in {"pending", "emitted", "rejected", "failed"}
      /\ cold \in {"absent", "pending", "running", "prepared", "abandoned"}
  BY <1>0 DEF TypeOK
<1>4. NextChunk => stage' \in Stage /\ at' \in Nat
  BY <1>3 DEF NextChunk, Stage
<1>5. Chunks \in Chunk /\ 1 \in Chunk /\ \A c \in ChunkSlot : c \in Chunk
  OBVIOUS
<1>6. CASE \/ Launch \/ CallerBegins \/ CallerEnds \/ StartCold \/ FinishCold
           \/ \E c \in ChunkSlot : PoolThread(c)
  BY <1>1, <1>3, <1>5, <1>6 DEF Launch, CallerBegins, CallerEnds, StartCold,
     FinishCold, ColdRun, PoolThread, StartJob, FinishJob
<1>7. ASSUME NEW c \in Chunk, EmitSource(c) PROVE TypeOK'
  BY SMTT(30), <1>0, <1>7 DEF EmitSource, TypeOK
<1>8. CASE FallbackBegin \/ FallbackEnd
  <2>1. at \in Chunk
    BY <1>8 DEF FallbackBegin, FallbackEnd, IInv, FallbackInv
  <2> QED
    BY <1>1, <1>3, <1>4, <1>8, <2>1 DEF FallbackBegin, FallbackEnd
<1>9. CASE LaunchReturns
  BY <1>2, <1>3, <1>9 DEF LaunchReturns, Stage
<1>10. CASE FallbackSkip
  BY <1>2, <1>3, <1>4, <1>10 DEF FallbackSkip
<1>11. CASE SerialCold
  BY <1>1, <1>3, <1>5, <1>11 DEF SerialCold, ColdRun, Stage
<1>12. CASE DecideReplay \/ DecideMerge \/ DecideFail
  <2>1. stage' \in Stage /\ at' \in Nat
        /\ outcome' \in {"pending", "emitted", "rejected", "failed"}
    BY <1>3, <1>12 DEF DecideReplay, DecideMerge, DecideFail, Stage
  <2>2. live' = FALSE \/ live' = live
    BY <1>12 DEF DecideReplay, DecideMerge, DecideFail
  <2>3. UNCHANGED <<chunkVars, kind, tight, cold, output, diagnostics>>
    BY <1>12 DEF DecideReplay, DecideMerge, DecideFail
  <2> QED
    BY <1>2, <1>3, <2>1, <2>2, <2>3
<1>13. CASE AppendChunk
  <2>1. at \in Chunk /\ out[at] \in Seq(Int)
    BY <1>0, <1>13 DEF AppendChunk, IInv, DriverInv, TypeOK
  <2>2. output' \in Seq(Int)
    BY <1>3, <1>13, <2>1, ConcatProperties DEF AppendChunk
  <2>3. stage' \in Stage /\ at' \in Nat
        /\ outcome' \in {"pending", "emitted", "rejected", "failed"}
    BY <1>3, <1>13 DEF AppendChunk, Stage
  <2>4. live' = FALSE \/ live' = live
    BY <1>13 DEF AppendChunk
  <2> QED
    BY <1>2, <1>3, <1>13, <2>2, <2>3, <2>4 DEF AppendChunk
<1>14. CASE ReplaySource
  <2>1. diagnostics' \in Seq(Int)
    BY <1>3, <1>14 DEF ReplaySource
  <2>2. stage' \in Stage /\ at' \in Nat
        /\ outcome' \in {"pending", "emitted", "rejected", "failed"}
    BY <1>3, <1>14 DEF ReplaySource, Stage
  <2> QED
    BY <1>2, <1>3, <1>14, <2>1, <2>2 DEF ReplaySource
<1>15. CASE Finished \/ UNCHANGED vars
  BY <1>2, <1>3, <1>15 DEF Finished, vars
<1> QED
  BY <1>6, <1>7, <1>8, <1>9, <1>10, <1>11, <1>12, <1>13, <1>14, <1>15
     DEF Next, Launcher

(***************************************************************************)
(* The chunks.                                                             *)
(***************************************************************************)

\* A pool callback is queued or running only during the launch.
LEMMA PoolAtLaunch ==
  ASSUME IInv, NEW w \in Slot, InFlight(w) \/ phase # "returned"
  PROVE  stage = "launch"
BY DEF IInv, LaunchInv, PoolInv, PoolTypeOK, AllSettled, InFlight

\* A step begins a fresh chunk, takes or ends a busy one, or touches none.
ChunkStep(c) ==
  \/ ~busy[c] /\ Unrun(c) /\ BeginChunk(c)
  \/ EmitSource(c)
  \/ EndChunk(c)

LEMMA NextOnChunks ==
  ASSUME IInv, [Next]_vars
  PROVE  UNCHANGED <<kind, tight>> /\ (UNCHANGED chunkVars \/ \E c \in Chunk : ChunkStep(c))
<1> USE DEF ChunkStep
<1>1. UNCHANGED <<kind, tight>>
  <2> USE DEF serialVars, driverVars
  <2>1. CASE Launcher
    BY <2>1 DEF Launcher, Launch, CallerBegins, CallerEnds, LaunchReturns,
       FallbackSkip, FallbackBegin, FallbackEnd, SerialCold, DecideReplay,
       DecideMerge, DecideFail, AppendChunk, ReplaySource
  <2>2. ASSUME NEW c \in Chunk, EmitSource(c) PROVE UNCHANGED <<kind, tight>>
    BY <2>2 DEF EmitSource
  <2>3. ASSUME NEW c \in ChunkSlot, PoolThread(c) PROVE UNCHANGED <<kind, tight>>
    BY <2>3 DEF PoolThread, StartJob, FinishJob
  <2>4. CASE StartCold \/ FinishCold \/ Finished \/ UNCHANGED vars
    BY <2>4 DEF StartCold, FinishCold, Finished, vars
  <2> QED
    BY <2>1, <2>2, <2>3, <2>4 DEF Next
<1>2. CASE \/ Launch \/ LaunchReturns \/ FallbackSkip \/ SerialCold
           \/ DecideReplay \/ DecideMerge \/ DecideFail \/ AppendChunk
           \/ ReplaySource \/ StartCold \/ FinishCold \/ Finished
           \/ UNCHANGED vars
  <2>1. UNCHANGED chunkVars
    BY <1>2 DEF Launch, LaunchReturns, FallbackSkip, SerialCold, DecideReplay,
       DecideMerge, DecideFail, AppendChunk, ReplaySource, StartCold, FinishCold,
       Finished, vars
  <2> QED
    BY <1>1, <2>1
<1>3. CASE CallerBegins
  <2>1. phase = "call" /\ BeginChunk(Chunks)
    BY <1>3 DEF CallerBegins, CallerStarts
  <2>2. stage = "launch"
    BY <2>1 DEF IInv, LaunchInv
  <2>3. ~busy[Chunks] /\ Unrun(Chunks)
    BY <2>1, <2>2 DEF IInv, LaunchInv
  <2> QED
    BY <1>1, <2>1, <2>3
<1>4. CASE CallerEnds
  BY <1>1, <1>4 DEF CallerEnds
<1>5. CASE FallbackBegin \/ FallbackEnd
  <2>1. at \in Chunk
    BY <1>5 DEF FallbackBegin, FallbackEnd, IInv, FallbackInv
  <2> QED
    BY <1>1, <1>5, <2>1 DEF FallbackBegin, FallbackEnd, Unrun
<1>6. ASSUME NEW c \in ChunkSlot, PoolThread(c) PROVE \E d \in Chunk : ChunkStep(d)
  <2>1. c \in Chunk /\ c \in Slot
    OBVIOUS
  <2>2. CASE StartJob(c)
    <3>1. callback[c] = "queued" /\ BeginChunk(c)
      BY <2>2 DEF StartJob, StartCallback
    <3>2. stage = "launch"
      BY <2>1, <3>1, PoolAtLaunch DEF InFlight
    <3>3. ~busy[c] /\ Unrun(c)
      BY <3>1, <3>2 DEF IInv, LaunchInv
    <3> QED
      BY <2>1, <3>1, <3>3
  <2>3. CASE FinishJob(c)
    BY <2>1, <2>3 DEF FinishJob
  <2> QED
    BY <1>6, <2>2, <2>3 DEF PoolThread
<1>7. ASSUME NEW c \in Chunk, EmitSource(c) PROVE \E d \in Chunk : ChunkStep(d)
  BY <1>7
<1> QED
  BY <1>1, <1>2, <1>3, <1>4, <1>5, <1>6, <1>7 DEF Next, Launcher

\* One turn of a range loop keeps its flags and its output true.
LEMMA EmitProgress ==
  ASSUME TypeOK, TightInv, NEW c \in Chunk, Progress(c), EmitSource(c)
  PROVE  Progress(c)'
<1> DEFINE s == cursor[c]
<1>1. /\ First(c) \in Nat /\ End(c) \in Nat /\ s \in Nat
      /\ First(c) <= s /\ s < End(c)
  BY ChunkFacts DEF TypeOK, Progress, EmitSource
<1>2. /\ cursor'[c] = IF kind[s] = "fatal" THEN s ELSE s + 1
      /\ out'[c] = IF kind[s] \in LoweredKinds /\ ~full'[c] THEN Append(out[c], s) ELSE out[c]
      /\ full'[c] = (full[c] \/ s \in tight)
      /\ errors'[c] = (errors[c] \/ kind[s] = "errors")
      /\ grown'[c] = (grown[c] \/ kind[s] = "growth")
      /\ range'[c] = IF kind[s] = "fatal" THEN 1 ELSE range[c]
      /\ range[c] = 0 /\ kind' = kind /\ tight' = tight
  BY DEF EmitSource, TypeOK, serialVars
<1>3. CASE kind[s] = "fatal"
  <2>0. kind[s] \notin LoweredKinds /\ s \notin tight
    BY <1>3 DEF TightInv, Overflowing, Lowered, Of, LoweredKinds
  <2>1. /\ cursor'[c] = cursor[c] /\ out'[c] = out[c] /\ full'[c] = full[c]
        /\ errors'[c] = errors[c] /\ grown'[c] = grown[c] /\ kind' = kind
    BY <1>2, <1>3, <2>0 DEF TypeOK
  <2> QED
    BY <1>1, <1>2, <1>3, <2>1 DEF Progress, Seen, Some, First, End
<1>4. CASE kind[s] # "fatal"
  <2>1. cursor'[c] = s + 1 /\ Seen(c)' = Seen(c) \cup {s} /\ range'[c] = 0
    BY <1>1, <1>2, <1>4 DEF Seen, First
  <2>2. First(c)' = First(c) /\ End(c)' = End(c)
    BY DEF First, End
  <2>3. /\ full'[c] <=> (\E t \in Seen(c) : t \in tight)'
        /\ errors'[c] <=> Some(Seen(c), "errors")'
        /\ grown'[c] <=> Some(Seen(c), "growth")'
        /\ ~Some(Seen(c), "fatal")'
    BY <1>2, <1>4, <2>1 DEF Progress, Some
  <2>4. ASSUME ~full'[c]
        PROVE  Lists(out'[c], {t \in Seen(c)' : kind[t] \in LoweredKinds})
    <3> DEFINE S == {t \in Seen(c) : kind[t] \in LoweredKinds}
    <3>1. ~full[c] /\ Lists(out[c], S)
      BY <1>2, <2>4 DEF Progress
    <3>2. S \in SUBSET Int /\ s \in Int /\ \A t \in S : t < s
      BY <1>1 DEF Seen
    <3>3. CASE kind[s] \in LoweredKinds
      <4>1. Lists(Append(out[c], s), S \cup {s})
        BY <3>1, <3>2, ListsAppend
      <4>2. {t \in Seen(c)' : kind[t] \in LoweredKinds} = S \cup {s}
        BY <2>1, <3>3
      <4> QED
        BY <1>2, <2>4, <3>1, <3>3, <4>1, <4>2
    <3>4. CASE kind[s] \notin LoweredKinds
      <4>1. {t \in Seen(c)' : kind[t] \in LoweredKinds} = S
        BY <2>1, <3>4
      <4> QED
        BY <1>2, <3>1, <3>4, <4>1
    <3> QED
      BY <3>3, <3>4
  <2> QED
    BY <1>1, <1>2, <2>1, <2>2, <2>3, <2>4 DEF Progress
<1> QED
  BY <1>3, <1>4

\* Chunks that a step does not touch keep their part of the invariant.
LEMMA UntouchedChunk ==
  ASSUME NEW d \in Chunk, Progress(d), RunState(d), kind' = kind, tight' = tight,
         busy'[d] = busy[d], cursor'[d] = cursor[d], out'[d] = out[d],
         full'[d] = full[d], errors'[d] = errors[d], grown'[d] = grown[d],
         range'[d] = range[d], result'[d] = result[d]
  PROVE  Progress(d)' /\ RunState(d)'
BY DEF Progress, RunState, Seen, Some, First, End, Unrun, ChunkResult

\* A chunk that has been run is not taken for one that has not.
LEMMA ResultIsNotUnrun ==
  ASSUME TypeOK, NEW c \in Chunk
  PROVE  ChunkResult(c) # -1
<1>1. range[c] \in {0, 1}
  BY DEF TypeOK
<1> QED
  BY <1>1 DEF ChunkResult

\* Every step keeps what the chunks say of their sources.
LEMMA ChunkInvNext ==
  ASSUME IInv, [Next]_vars
  PROVE  ChunkInv'
<1>1. TypeOK /\ ChunkInv /\ TightInv /\ kind' = kind /\ tight' = tight
  BY NextOnChunks DEF IInv
<1>2. CASE UNCHANGED chunkVars
  BY <1>1, <1>2, UntouchedChunk DEF ChunkInv, chunkVars
<1>3. ASSUME NEW c \in Chunk, ChunkStep(c) PROVE ChunkInv'
  <2>1. Progress(c) /\ RunState(c)
    BY <1>1 DEF ChunkInv
  <2>2. ASSUME NEW d \in Chunk, d # c
        PROVE  Progress(d)' /\ RunState(d)'
    <3>1. /\ busy'[d] = busy[d] /\ cursor'[d] = cursor[d] /\ out'[d] = out[d]
          /\ full'[d] = full[d] /\ errors'[d] = errors[d]
          /\ grown'[d] = grown[d] /\ range'[d] = range[d]
          /\ result'[d] = result[d]
      BY <1>1, <1>3, <2>2 DEF ChunkStep, BeginChunk, EmitSource, EndChunk, TypeOK
    <3> QED
      BY <1>1, <3>1, UntouchedChunk DEF ChunkInv
  <2>3. ASSUME ~busy[c] /\ Unrun(c) /\ BeginChunk(c)
        PROVE  Progress(c)' /\ RunState(c)'
    <3>1. cursor[c] = First(c) /\ range[c] = 0
      BY <2>1, <2>3 DEF RunState
    <3>2. /\ busy'[c] = TRUE /\ cursor'[c] = cursor[c]
          /\ UNCHANGED <<out, full, errors, grown, range, result>>
      BY <1>1, <2>3, <3>1 DEF BeginChunk, TypeOK
    <3>3. Progress(c)'
      BY <1>1, <2>1, <3>2 DEF Progress, Seen, Some, First, End
    <3>4. RunState(c)'
      BY <2>3, <3>2 DEF RunState, Unrun
    <3> QED
      BY <3>3, <3>4
  <2>4. ASSUME EmitSource(c)
        PROVE  Progress(c)' /\ RunState(c)'
    <3>1. Progress(c)'
      BY <1>1, <2>1, <2>4, EmitProgress
    <3>2. RunState(c)'
      BY <2>1, <2>4 DEF EmitSource, RunState, Unrun
    <3> QED
      BY <3>1, <3>2
  <2>5. ASSUME EndChunk(c)
        PROVE  Progress(c)' /\ RunState(c)'
    <3>1. /\ busy'[c] = FALSE /\ result'[c] = ChunkResult(c)
          /\ UNCHANGED <<cursor, out, full, errors, grown, range>>
      BY <1>1, <2>5 DEF EndChunk, TypeOK
    <3>2. Progress(c)'
      BY <1>1, <2>1, <3>1 DEF Progress, Seen, Some, First, End
    <3>3. ChunkResult(c) # -1 /\ ChunkResult(c)' = ChunkResult(c)
      BY <1>1, <3>1, ResultIsNotUnrun DEF ChunkResult
    <3>4. cursor[c] = End(c) \/ range[c] = 1
      BY <1>1, <2>5 DEF EndChunk, TypeOK
    <3>5. RunState(c)'
      BY <3>1, <3>3, <3>4 DEF RunState, Unrun, First, End
    <3> QED
      BY <3>2, <3>5
  <2> QED
    BY <1>3, <2>2, <2>3, <2>4, <2>5 DEF ChunkStep, ChunkInv
<1> QED
  BY <1>2, <1>3, NextOnChunks

(***************************************************************************)
(* The stages of the driver.                                               *)
(***************************************************************************)

\* Beside the pool and its jobs, the launch ends in one step.
LEMMA LaunchInvNext ==
  ASSUME IInv, [Next]_vars
  PROVE  LaunchInv'
<1>1. TypeOK /\ PoolInv /\ LaunchInv /\ ChunkInv
  BY DEF IInv
<1> USE DEF LaunchInv, PoolTypeOK
<1>2. ASSUME NEW c \in ChunkSlot PROVE c \in Slot /\ c \in Chunk /\ c # Chunks
  OBVIOUS
<1>3. CASE Launch
  <2>1. UNCHANGED <<busy, result, stage>>
    BY <1>3 DEF Launch, chunkVars, driverVars
  <2>2. CASE ResolveApis \/ ResolveFails \/ CreateWork \/ CreateFails
    BY <1>1, <1>2, <2>1, <2>2 DEF ResolveApis, ResolveFails, CreateWork, CreateFails,
       Advance, Unrun, PoolInv, NothingClosed
  <2>3. CASE SubmitWork
    <3>1. /\ phase = "submit" /\ callback[next] = "idle" /\ launch' = launch
          /\ phase' = "submit" \/ phase' = "call"
          /\ \A w \in Slot : callback'[w] = IF w = next THEN "queued" ELSE callback[w]
      BY <1>1, <2>3 DEF SubmitWork, Advance, PoolInv, AtSubmit
    <3> QED
      BY <1>1, <1>2, <2>1, <3>1 DEF Unrun
  <2>4. CASE WaitWork
    <3>1. /\ phase = "wait" /\ callback' = callback
          /\ \/ phase' = "wait"
             \/ phase' = "close" /\ launch' = 0
      BY <2>4 DEF WaitWork, Advance
    <3> QED
      BY <1>1, <1>2, <2>1, <3>1 DEF Unrun
  <2>5. CASE CloseWork
    <3>1. /\ phase = "close" /\ callback' = callback /\ launch' = launch
          /\ phase' = "close" \/ phase' = "returned"
      BY <2>5 DEF CloseWork, Advance
    <3> QED
      BY <1>1, <1>2, <2>1, <3>1 DEF Unrun
  <2> QED
    BY <1>3, <2>2, <2>3, <2>4, <2>5 DEF Launch
<1>4. CASE CallerBegins
  <2>1. /\ phase = "call" /\ phase' = "caller"
        /\ UNCHANGED <<callback, launch, stage, result>>
        /\ busy' = [busy EXCEPT ![Chunks] = TRUE]
    BY <1>4 DEF CallerBegins, CallerStarts, BeginChunk, driverVars
  <2> QED
    BY <1>1, <1>2, <2>1 DEF Unrun, TypeOK
<1>5. CASE CallerEnds
  <2>1. /\ phase = "caller" /\ phase' = "wait"
        /\ UNCHANGED <<callback, launch, stage>>
        /\ busy' = [busy EXCEPT ![Chunks] = FALSE]
        /\ result' = [result EXCEPT ![Chunks] = ChunkResult(Chunks)]
    BY <1>5 DEF CallerEnds, CallerReturns, EndChunk, driverVars
  <2>2. ChunkResult(Chunks) # -1
    BY <1>1, ResultIsNotUnrun
  <2> QED
    BY <1>1, <1>2, <2>1, <2>2 DEF Unrun, TypeOK
<1>6. ASSUME NEW c \in ChunkSlot, PoolThread(c) PROVE LaunchInv'
  <2>1. UNCHANGED <<phase, launch, stage>>
    BY <1>6 DEF PoolThread, StartJob, FinishJob, StartCallback, FinishCallback,
       driverVars
  <2>2. CASE StartJob(c)
    <3>1. /\ callback[c] = "queued" /\ callback' = [callback EXCEPT ![c] = "running"]
          /\ result' = result /\ busy' = [busy EXCEPT ![c] = TRUE]
      BY <2>2 DEF StartJob, StartCallback, BeginChunk
    <3> QED
      BY SMTT(30), <1>1, <1>2, <2>1, <3>1 DEF Unrun, TypeOK
  <2>3. CASE FinishJob(c)
    <3>1. /\ callback[c] = "running" /\ callback' = [callback EXCEPT ![c] = "done"]
          /\ busy' = [busy EXCEPT ![c] = FALSE]
          /\ result' = [result EXCEPT ![c] = ChunkResult(c)]
      BY <2>3 DEF FinishJob, FinishCallback, EndChunk
    <3>2. ChunkResult(c) # -1
      BY <1>1, <1>2, ResultIsNotUnrun
    <3>3. ASSUME NEW d \in Chunk, d # c
          PROVE  busy'[d] = busy[d] /\ result'[d] = result[d]
      BY <1>1, <3>1, <3>3 DEF TypeOK
    <3>4. ASSUME NEW d \in ChunkSlot, d # c
          PROVE  callback'[d] = callback[d]
      BY <1>1, <3>1, <3>4 DEF TypeOK
    <3>5. ~busy'[c] /\ callback'[c] = "done" /\ result'[c] # -1
      BY <1>1, <1>2, <3>1, <3>2 DEF TypeOK
    <3>6. ASSUME stage = "launch", NEW d \in ChunkSlot
          PROVE  (busy'[d] <=> callback'[d] = "running")
                 /\ (Unrun(d)' <=> callback'[d] # "done")
      <4>1. CASE d = c
        BY <3>5, <4>1 DEF Unrun
      <4>2. CASE d # c
        BY <1>1, <1>2, <3>3, <3>4, <3>6, <4>2 DEF Unrun
      <4> QED
        BY <4>1, <4>2
    <3>7. (busy'[Chunks] <=> busy[Chunks]) /\ (Unrun(Chunks)' <=> Unrun(Chunks))
      BY <1>2, <3>3 DEF Unrun
    <3> QED
      BY <1>1, <2>1, <3>6, <3>7
  <2> QED
    BY <1>6, <2>2, <2>3 DEF PoolThread
<1>7. CASE StartCold \/ FinishCold
  <2>1. /\ UNCHANGED <<phase, launch, stage, busy, result>>
        /\ \/ callback' = [callback EXCEPT ![Chunks] = "running"]
           \/ callback' = [callback EXCEPT ![Chunks] = "done"]
    BY <1>7 DEF StartCold, FinishCold, StartCallback, FinishCallback, chunkVars
  <2>2. \A c \in ChunkSlot : callback'[c] = callback[c]
    BY <1>1, <1>2, <2>1 DEF TypeOK
  <2> QED
    BY <1>1, <1>2, <2>1, <2>2 DEF Unrun
<1>8. CASE LaunchReturns
  BY <1>8 DEF LaunchReturns, poolVars
<1>9. ASSUME NEW c \in Chunk, EmitSource(c) PROVE LaunchInv'
  BY <1>1, <1>9 DEF EmitSource, poolVars, Unrun
<1>10. CASE \/ FallbackSkip \/ FallbackBegin \/ FallbackEnd \/ SerialCold
            \/ DecideReplay \/ DecideMerge \/ DecideFail \/ AppendChunk
            \/ ReplaySource
  <2>1. stage # "launch" /\ stage' # "launch" /\ phase' = phase
    BY <1>10 DEF FallbackSkip, FallbackBegin, FallbackEnd, NextChunk, SerialCold,
       DecideReplay, DecideMerge, DecideFail, AppendChunk, ReplaySource, poolVars
  <2> QED
    BY <1>1, <2>1
<1>11. CASE Finished \/ UNCHANGED vars
  BY <1>1, <1>11 DEF Finished, vars, poolVars, chunkVars, Unrun
<1> QED
  BY <1>3, <1>4, <1>5, <1>6, <1>7, <1>8, <1>9, <1>10, <1>11 DEF Next, Launcher

\* The serial fallback visits the chunks in order and leaves none unrun.
LEMMA FallbackInvNext ==
  ASSUME IInv, [Next]_vars
  PROVE  FallbackInv' /\ SettledInv'
<1>1. TypeOK /\ LaunchInv /\ FallbackInv /\ SettledInv
  BY DEF IInv
<1> USE DEF Unrun
<1>2. CASE \/ Launch \/ CallerBegins \/ CallerEnds \/ StartCold \/ FinishCold
           \/ \E c \in ChunkSlot : PoolThread(c)
  <2>1. stage' = stage
    BY <1>2 DEF Launch, CallerBegins, CallerEnds, StartCold, FinishCold, PoolThread,
       StartJob, FinishJob, driverVars
  <2>2. CASE stage = "launch"
    BY <2>1, <2>2 DEF FallbackInv, SettledInv
  <2>3. CASE stage # "launch"
    <3>1. phase = "returned"
      BY <1>1, <2>3 DEF LaunchInv
    <3>2. ASSUME NEW w \in Slot, StartCallback(w) \/ FinishCallback(w) PROVE FALSE
      BY <2>3, <3>2, PoolAtLaunch DEF StartCallback, FinishCallback, InFlight
    <3>3. \A c \in ChunkSlot : c \in Slot
      OBVIOUS
    <3>4. Cold => ColdSlot \in Slot
      OBVIOUS
    <3> QED
      BY <1>2, <3>1, <3>2, <3>3, <3>4 DEF Launch, ResolveApis, ResolveFails,
         CreateWork, CreateFails, SubmitWork, WaitWork, CloseWork, CallerBegins,
         CallerStarts, CallerEnds, CallerReturns, StartCold, FinishCold, PoolThread,
         StartJob, FinishJob
  <2> QED
    BY <2>2, <2>3
<1>3. CASE LaunchReturns
  <2>1. /\ stage = "launch" /\ phase = "returned"
        /\ stage' = "fallback" /\ at' = 1 /\ UNCHANGED <<busy, result>>
    BY <1>3 DEF LaunchReturns, chunkVars
  <2>2. \A c \in Chunk : ~busy[c]
    <3>1. \A c \in Chunk : c # Chunks => c \in ChunkSlot
      OBVIOUS
    <3>2. \A w \in Slot : callback[w] # "running"
      BY <2>1 DEF IInv, PoolInv, AllSettled
    <3>3. \A c \in ChunkSlot : c \in Slot
      OBVIOUS
    <3> QED
      BY <1>1, <2>1, <3>1, <3>2, <3>3 DEF LaunchInv
  <2> QED
    BY <2>1, <2>2 DEF FallbackInv, SettledInv
<1>4. CASE FallbackSkip \/ FallbackEnd
  <2>1. /\ stage = "fallback" /\ at \in Chunk
        /\ \A c \in Chunk : (c < at => ~Unrun(c)) /\ (busy[c] => c = at)
        /\ NextChunk
    BY <1>1, <1>4 DEF FallbackSkip, FallbackEnd, FallbackInv
  <2>2. /\ \A c \in Chunk : ~busy'[c]
        /\ result'[at] # -1
        /\ \A c \in Chunk : c # at => result'[c] = result[c]
    <3>1. CASE FallbackSkip
      BY <2>1, <3>1 DEF FallbackSkip, chunkVars
    <3>2. CASE FallbackEnd
      BY <1>1, <2>1, <3>2, ResultIsNotUnrun DEF FallbackEnd, EndChunk, TypeOK
    <3> QED
      BY <1>4, <3>1, <3>2
  <2>3. CASE at = Chunks
    BY <2>1, <2>2, <2>3 DEF NextChunk, FallbackInv, SettledInv
  <2>4. CASE at # Chunks
    BY <2>1, <2>2, <2>4 DEF NextChunk, FallbackInv, SettledInv
  <2> QED
    BY <2>3, <2>4
<1>5. CASE FallbackBegin
  BY <1>1, <1>5 DEF FallbackBegin, BeginChunk, FallbackInv, SettledInv, TypeOK
<1>6. ASSUME NEW c \in Chunk, EmitSource(c) PROVE FallbackInv' /\ SettledInv'
  BY <1>1, <1>6 DEF EmitSource, FallbackInv, SettledInv
<1>7. CASE SerialCold \/ DecideReplay \/ DecideMerge \/ DecideFail
           \/ AppendChunk \/ ReplaySource
  <2>1. /\ stage \notin {"launch", "fallback"}
        /\ stage' \notin {"launch", "fallback"}
        /\ UNCHANGED <<busy, result>>
    BY <1>7 DEF SerialCold, DecideReplay, DecideMerge, DecideFail, AppendChunk,
       ReplaySource, chunkVars
  <2> QED
    BY <1>1, <2>1 DEF FallbackInv, SettledInv
<1>8. CASE Finished \/ UNCHANGED vars
  BY <1>1, <1>8 DEF Finished, vars, chunkVars, FallbackInv, SettledInv
<1> QED
  BY <1>2, <1>3, <1>4, <1>5, <1>6, <1>7, <1>8 DEF Next, Launcher

\* The cache task is settled before the decision, and the arenas go last.
LEMMA ColdInvNext ==
  ASSUME IInv, [Next]_vars
  PROVE  ColdInv' /\ LiveInv'
<1>1. TypeOK /\ LaunchInv /\ ColdInv /\ LiveInv
  BY DEF IInv
<1>2. CASE Launch \/ CallerBegins \/ CallerEnds
  BY <1>1, <1>2 DEF Launch, CallerBegins, CallerEnds, driverVars, ColdInv, LiveInv
<1>3. ASSUME NEW c \in ChunkSlot, PoolThread(c) PROVE ColdInv' /\ LiveInv'
  BY <1>1, <1>3 DEF PoolThread, StartJob, FinishJob, driverVars, ColdInv, LiveInv
<1>4. CASE StartCold \/ FinishCold
  <2>1. Cold /\ ColdSlot \in Slot /\ InFlight(ColdSlot)
    BY <1>4 DEF StartCold, FinishCold, StartCallback, FinishCallback, InFlight
  <2>2. stage = "launch"
    BY <2>1, PoolAtLaunch
  <2>3. stage' = stage /\ live' = live /\ cold' # "absent"
    BY <1>4 DEF StartCold, FinishCold, ColdRun
  <2> QED
    BY <1>1, <2>1, <2>2, <2>3 DEF ColdInv, LiveInv
<1>5. ASSUME NEW c \in Chunk, EmitSource(c) PROVE ColdInv' /\ LiveInv'
  BY <1>1, <1>5 DEF EmitSource, ColdInv, LiveInv
<1>6. CASE LaunchReturns \/ FallbackSkip \/ FallbackBegin \/ FallbackEnd
  BY <1>1, <1>6 DEF LaunchReturns, FallbackSkip, FallbackBegin, FallbackEnd, NextChunk,
     ColdInv, LiveInv
<1>7. CASE SerialCold
  BY <1>1, <1>7 DEF SerialCold, ColdRun, ColdInv, LiveInv
<1>8. CASE DecideReplay \/ DecideMerge \/ DecideFail \/ AppendChunk \/ ReplaySource
  BY <1>1, <1>8 DEF DecideReplay, DecideMerge, DecideFail, AppendChunk, ReplaySource,
     ColdInv, LiveInv
<1>9. CASE Finished \/ UNCHANGED vars
  BY <1>1, <1>9 DEF Finished, vars, ColdInv, LiveInv
<1> QED
  BY <1>2, <1>3, <1>4, <1>5, <1>6, <1>7, <1>8, <1>9 DEF Next, Launcher

(***************************************************************************)
(* The outcome.                                                            *)
(***************************************************************************)

\* Once every chunk has been run, a result of 0 is a whole range that passed.
LEMMA PassedChunk ==
  ASSUME IInv, stage \notin {"launch", "fallback"}, NEW c \in Chunk, result[c] = 0
  PROVE  /\ Seen(c) = First(c) .. End(c) - 1
         /\ Lists(out[c], {s \in Seen(c) : kind[s] \in LoweredKinds})
         /\ \A s \in Seen(c) : kind[s] \notin {"fatal", "growth"} /\ s \notin tight
<1>1. Progress(c) /\ RunState(c) /\ ~Unrun(c)
  BY DEF IInv, ChunkInv, SettledInv
<1>2. ~full[c] /\ ~grown[c] /\ range[c] = 0
  BY <1>1 DEF RunState, ChunkResult
<1>3. cursor[c] = End(c)
  BY <1>1, <1>2 DEF RunState
<1> QED
  BY <1>1, <1>2, <1>3 DEF Progress, Seen, Some

\* Any other result is a source that broke the chunk.
LEMMA FailedChunk ==
  ASSUME IInv, stage \notin {"launch", "fallback"}, NEW c \in Chunk, result[c] # 0
  PROVE  Broken # {}
<1>1. TypeOK /\ Progress(c) /\ RunState(c) /\ ~Unrun(c)
  BY DEF IInv, ChunkInv, SettledInv
<1>2. /\ First(c) \in Nat /\ End(c) \in Nat /\ End(c) <= NumSources
      /\ cursor[c] \in Nat
  BY <1>1, ChunkFacts DEF TypeOK
<1>3. ASSUME NEW s \in Seen(c) \cup {cursor[c]}, s < End(c),
             kind[s] \in {"fatal", "growth"} \/ s \in tight
      PROVE  Broken # {}
  <2>1. s \in Source
    BY <1>1, <1>2, <1>3 DEF Seen, Progress
  <2> QED
    BY <1>3, <2>1 DEF Broken, Of
<1>4. \A s \in Seen(c) : s < End(c)
  BY <1>1, <1>2 DEF Seen, Progress
<1>5. full[c] \/ grown[c] \/ range[c] = 1
  BY <1>1 DEF RunState, ChunkResult, TypeOK
<1>6. CASE full[c] \/ grown[c]
  BY <1>1, <1>3, <1>4, <1>6 DEF Progress, Some
<1>7. CASE range[c] = 1
  BY <1>1, <1>3, <1>7 DEF Progress
<1> QED
  BY <1>5, <1>6, <1>7

\* A passed launch has met no broken source, and errors where a chunk has any.
LEMMA PassedSources ==
  ASSUME IInv, stage \notin {"launch", "fallback"}, Passed
  PROVE  Broken = {} /\ (HasErrors <=> Erroneous # {})
<1>1. ASSUME NEW s \in Source
      PROVE  /\ kind[s] \notin {"fatal", "growth"} /\ s \notin tight
             /\ kind[s] = "errors" => HasErrors
  <2>1. PICK c \in Chunk : First(c) <= s /\ s < End(c)
    BY SourceInChunk
  <2>2. First(c) \in Nat /\ End(c) \in Nat
    BY ChunkFacts
  <2>3. result[c] = 0
    BY DEF Passed
  <2>4. s \in Seen(c)
    <3>1. Seen(c) = First(c) .. End(c) - 1
      BY <2>3, PassedChunk
    <3>2. s \in First(c) .. End(c) - 1
      BY <2>1, <2>2
    <3> QED
      BY <3>1, <3>2
  <2>5. Progress(c)
    BY DEF IInv, ChunkInv
  <2> QED
    BY <2>3, <2>4, <2>5, PassedChunk DEF Progress, Some, HasErrors
<1>2. ASSUME HasErrors PROVE Erroneous # {}
  <2>1. PICK c \in Chunk : errors[c]
    BY <1>2 DEF HasErrors
  <2>2. Progress(c) /\ result[c] = 0
    BY DEF IInv, ChunkInv, Passed
  <2>3. PICK s \in Seen(c) : kind[s] = "errors"
    BY <2>1, <2>2 DEF Progress, Some
  <2>4. s \in First(c) .. End(c) - 1
    BY <2>2, <2>3, PassedChunk
  <2>5. First(c) \in Nat /\ End(c) \in Nat /\ End(c) <= NumSources
    BY ChunkFacts
  <2>6. s \in Source
    BY <2>4, <2>5
  <2> QED
    BY <2>3, <2>6 DEF Erroneous, Of
<1>3. tight \subseteq Source
  BY DEF IInv, TypeOK
<1> QED
  BY <1>1, <1>2, <1>3 DEF Broken, Erroneous, Of

\* Appending the output of one chunk extends the list by that chunk.
LEMMA AppendLists ==
  ASSUME IInv, AppendChunk
  PROVE  Lists(output', {s \in 0 .. End(at) - 1 : kind[s] \in LoweredKinds})
<1> DEFINE S == {s \in 0 .. First(at) - 1 : kind[s] \in LoweredKinds}
           T == {s \in Seen(at) : kind[s] \in LoweredKinds}
<1>1. at \in Chunk /\ stage = "append" /\ result[at] = 0 /\ Lists(output, S)
  BY DEF IInv, DriverInv, AppendChunk, Passed
<1>2. Seen(at) = First(at) .. End(at) - 1 /\ Lists(out[at], T)
  BY <1>1, PassedChunk
<1>3. First(at) \in Nat /\ End(at) \in Nat /\ First(at) <= End(at)
  BY <1>1, ChunkFacts
<1>4. S \in SUBSET Int /\ T \in SUBSET Int /\ \A s \in S, t \in T : s < t
  BY <1>2, <1>3
<1>5. Lists(output \o out[at], S \cup T)
  <2> HIDE DEF S, T
  <2> QED
    BY <1>1, <1>2, <1>4, ListsConcat
<1>6. S \cup T = {s \in 0 .. End(at) - 1 : kind[s] \in LoweredKinds}
  BY <1>2, <1>3
<1> QED
  BY <1>5, <1>6 DEF AppendChunk

\* Replaying one source extends the diagnostics by that source.
LEMMA ReplayLists ==
  ASSUME IInv, ReplaySource
  PROVE  Lists(diagnostics', {s \in 0 .. at : kind[s] = "errors"})
<1> DEFINE S == {s \in 0 .. at - 1 : kind[s] = "errors"}
<1>1. at \in Nat /\ Lists(diagnostics, S)
  BY DEF IInv, TypeOK, DriverInv, ReplaySource
<1>2. CASE kind[at] = "errors"
  <2>1. S \in SUBSET Int /\ at \in Int /\ \A s \in S : s < at
    BY <1>1
  <2>2. Lists(Append(diagnostics, at), S \cup {at})
    <3> HIDE DEF S
    <3> QED
      BY <1>1, <2>1, ListsAppend
  <2>3. S \cup {at} = {s \in 0 .. at : kind[s] = "errors"}
    BY <1>1, <1>2
  <2> QED
    BY <1>2, <2>2, <2>3 DEF ReplaySource
<1>3. CASE kind[at] # "errors"
  <2>1. S = {s \in 0 .. at : kind[s] = "errors"}
    BY <1>1, <1>3
  <2> QED
    BY <1>1, <1>3, <2>1 DEF ReplaySource
<1> QED
  BY <1>2, <1>3

\* Every stage of the driver stands on what the stage before it established.
LEMMA DriverInvNext ==
  ASSUME IInv, [Next]_vars
  PROVE  DriverInv'
<1>1. TypeOK /\ DriverInv /\ kind' = kind
  BY NextOnChunks DEF IInv
<1>2. ASSUME UNCHANGED <<serialVars, stage, at, launch, result, errors>>
      PROVE  DriverInv'
  BY <1>1, <1>2 DEF DriverInv, serialVars, Passed, HasErrors, First, Lowered,
     Erroneous, Of
<1>3. ASSUME UNCHANGED serialVars,
             stage \notin {"append", "replay", "done"},
             stage' \notin {"append", "replay", "done"}
      PROVE  DriverInv'
  BY <1>1, <1>3 DEF DriverInv, serialVars, TypeOK
<1>4. CASE \/ Launch \/ CallerBegins \/ CallerEnds \/ StartCold \/ FinishCold
           \/ \E c \in ChunkSlot : PoolThread(c)
  <2>1. UNCHANGED <<serialVars, stage>>
    BY <1>4 DEF Launch, CallerBegins, CallerEnds, StartCold, FinishCold, PoolThread,
       StartJob, FinishJob, driverVars
  <2>2. CASE stage = "launch"
    BY <1>3, <2>1, <2>2
  <2>3. CASE stage # "launch"
    <3>1. phase = "returned"
      BY <2>3 DEF IInv, LaunchInv
    <3>2. ASSUME NEW w \in Slot, StartCallback(w) \/ FinishCallback(w) PROVE FALSE
      BY <2>3, <3>2, PoolAtLaunch DEF StartCallback, FinishCallback, InFlight
    <3>3. \A c \in ChunkSlot : c \in Slot
      OBVIOUS
    <3>4. Cold => ColdSlot \in Slot
      OBVIOUS
    <3> QED
      BY <1>4, <3>1, <3>2, <3>3, <3>4 DEF Launch, ResolveApis, ResolveFails,
         CreateWork, CreateFails, SubmitWork, WaitWork, CloseWork, CallerBegins,
         CallerStarts, CallerEnds, CallerReturns, StartCold, FinishCold, PoolThread,
         StartJob, FinishJob
  <2> QED
    BY <2>2, <2>3
<1>5. ASSUME NEW c \in Chunk, EmitSource(c) PROVE DriverInv'
  <2>1. busy[c] /\ UNCHANGED <<serialVars, stage>>
    BY <1>5 DEF EmitSource
  <2>2. stage \in {"launch", "fallback"}
    BY <2>1 DEF IInv, SettledInv
  <2> QED
    BY <1>3, <2>1, <2>2
<1>6. CASE \/ LaunchReturns \/ FallbackSkip \/ FallbackBegin \/ FallbackEnd
           \/ SerialCold
  <2>1. UNCHANGED serialVars
    BY <1>6 DEF LaunchReturns, FallbackSkip, FallbackBegin, FallbackEnd, SerialCold
  <2>2. /\ stage \notin {"append", "replay", "done"}
        /\ stage' \notin {"append", "replay", "done"}
    BY <1>6 DEF LaunchReturns, FallbackSkip, FallbackBegin, FallbackEnd, NextChunk,
       SerialCold
  <2> QED
    BY <1>3, <2>1, <2>2
<1>7. CASE DecideReplay
  <2>1. /\ stage = "decide" /\ Passed /\ HasErrors /\ stage' = "replay" /\ at' = 0
        /\ UNCHANGED <<launch, result, errors, output, diagnostics, outcome>>
    BY <1>7 DEF DecideReplay, poolVars, serialVars, chunkVars
  <2>2. Passed' /\ HasErrors'
    BY <2>1 DEF Passed, HasErrors
  <2>3. 0 \in Source
    BY SMT
  <2>4. Lists(diagnostics', {s \in 0 .. at' - 1 : kind'[s] = "errors"})
    <3>1. {s \in 0 .. at' - 1 : kind'[s] = "errors"} = {}
      BY <2>1
    <3>2. diagnostics' = <<>>
      BY <1>1, <2>1 DEF DriverInv
    <3> QED
      BY <3>1, <3>2, ListsEmpty
  <2>5. outcome' = "pending" /\ output' = <<>>
    BY <1>1, <2>1 DEF DriverInv
  <2> QED
    BY <2>1, <2>2, <2>3, <2>4, <2>5 DEF DriverInv
<1>8. CASE DecideMerge
  <2>1. /\ stage = "decide" /\ Passed /\ ~HasErrors /\ stage' = "append" /\ at' = 1
        /\ UNCHANGED <<launch, result, errors, output, diagnostics, outcome>>
    BY <1>8 DEF DecideMerge, poolVars, serialVars, chunkVars
  <2>2. Passed' /\ ~HasErrors'
    BY <2>1 DEF Passed, HasErrors
  <2>3. 1 \in Chunk /\ First(at)' = 0
    BY <2>1, ChunkFacts DEF First
  <2>4. Lists(output', {s \in 0 .. First(at)' - 1 : kind'[s] \in LoweredKinds})
    <3>1. {s \in 0 .. First(at)' - 1 : kind'[s] \in LoweredKinds} = {}
      BY <2>3
    <3>2. output' = <<>>
      BY <1>1, <2>1 DEF DriverInv
    <3> QED
      BY <3>1, <3>2, ListsEmpty
  <2>5. outcome' = "pending" /\ diagnostics' = <<>>
    BY <1>1, <2>1 DEF DriverInv
  <2> QED
    BY <2>1, <2>2, <2>3, <2>4, <2>5 DEF DriverInv
<1>9. CASE DecideFail
  BY <1>1, <1>9 DEF DecideFail, DriverInv
<1>10. CASE AppendChunk
  <2>1. /\ stage = "append" /\ at \in Chunk /\ Passed /\ ~HasErrors
        /\ outcome = "pending" /\ diagnostics = <<>>
        /\ UNCHANGED <<launch, result, errors, diagnostics>>
    BY <1>1, <1>10 DEF AppendChunk, DriverInv, poolVars, chunkVars
  <2>2. Lists(output', {s \in 0 .. End(at) - 1 : kind[s] \in LoweredKinds})
    BY <1>10, AppendLists
  <2>3. CASE at = Chunks
    <3>1. {s \in 0 .. End(at) - 1 : kind[s] \in LoweredKinds} = Lowered
      BY <2>3, ChunkFacts DEF Lowered, Of
    <3>2. stage' = "done" /\ outcome' = "emitted" /\ Lowered' = Lowered
      BY <1>1, <1>10, <2>3 DEF AppendChunk, Lowered, Of
    <3> QED
      BY <2>1, <2>2, <3>1, <3>2 DEF DriverInv
  <2>4. CASE at # Chunks
    <3>1. /\ at' = at + 1 /\ at' \in Chunk /\ stage' = stage
          /\ outcome' = outcome
      BY <1>10, <2>1, <2>4 DEF AppendChunk
    <3>2. First(at)' = End(at)
      <4>1. First(at + 1) = End(at)
        BY <2>1, <2>4, ChunkFacts
      <4> QED
        BY <3>1, <4>1 DEF First
    <3>3. Passed' /\ ~HasErrors'
      BY <2>1 DEF Passed, HasErrors
    <3> QED
      BY <1>1, <2>1, <2>2, <3>1, <3>2, <3>3 DEF DriverInv
  <2> QED
    BY <2>3, <2>4
<1>11. CASE ReplaySource
  <2>1. /\ stage = "replay" /\ at \in Source /\ Passed /\ HasErrors
        /\ outcome = "pending" /\ output = <<>>
        /\ UNCHANGED <<launch, result, errors, output>>
    BY <1>1, <1>11 DEF ReplaySource, DriverInv, poolVars, chunkVars
  <2>2. Lists(diagnostics', {s \in 0 .. at : kind[s] = "errors"})
    BY <1>11, ReplayLists
  <2>3. CASE at = NumSources - 1
    <3>1. {s \in 0 .. at : kind[s] = "errors"} = Erroneous
      BY <2>3 DEF Erroneous, Of
    <3>2. stage' = "done" /\ outcome' = "rejected" /\ Erroneous' = Erroneous
      BY <1>1, <1>11, <2>3 DEF ReplaySource, Erroneous, Of
    <3> QED
      BY <2>1, <2>2, <3>1, <3>2 DEF DriverInv
  <2>4. CASE at # NumSources - 1
    <3>1. /\ at' = at + 1 /\ at' \in Source /\ at' - 1 = at
          /\ stage' = stage /\ outcome' = outcome
      BY <1>11, <2>1, <2>4 DEF ReplaySource
    <3>2. Passed' /\ HasErrors'
      BY <2>1 DEF Passed, HasErrors
    <3> QED
      BY <1>1, <2>1, <2>2, <3>1, <3>2 DEF DriverInv
  <2> QED
    BY <2>3, <2>4
<1>12. CASE Finished \/ UNCHANGED vars
  BY <1>2, <1>12 DEF Finished, vars, poolVars, chunkVars
<1> QED
  BY <1>4, <1>5, <1>6, <1>7, <1>8, <1>9, <1>10, <1>11, <1>12 DEF Next, Launcher

(* The call begins in the invariant. *)
LEMMA InitIInv == Init => IInv
<1> SUFFICES ASSUME Init PROVE IInv
  OBVIOUS
<1>1. PoolInv
  BY PoolInitInv DEF Init
<1>2. \A c \in Chunk : First(c) \in Nat /\ First(c) <= End(c) /\ End(c) \in Nat
  BY ChunkFacts
<1>3. TypeOK
  BY <1>1, <1>2, EmptySeq DEF Init, SerialInit, TypeOK, PoolInv, Stage
<1>4. ChunkInv
  <2> SUFFICES ASSUME NEW c \in Chunk PROVE Progress(c) /\ RunState(c)
    BY DEF ChunkInv
  <2>1. /\ ~busy[c] /\ cursor[c] = First(c) /\ out[c] = <<>> /\ ~full[c]
        /\ ~errors[c] /\ ~grown[c] /\ range[c] = 0 /\ result[c] = -1
    BY DEF Init
  <2>2. Seen(c) = {}
    BY <1>2, <2>1 DEF Seen
  <2>3. Progress(c)
    <3>1. {s \in Seen(c) : kind[s] \in LoweredKinds} = {}
      BY <2>2
    <3>2. Lists(out[c], {s \in Seen(c) : kind[s] \in LoweredKinds})
      BY <2>1, <3>1, ListsEmpty
    <3> QED
      BY <1>2, <2>1, <2>2, <3>2 DEF Progress, Some
  <2>4. RunState(c)
    BY <2>1 DEF RunState, Unrun
  <2> QED
    BY <2>3, <2>4
<1>5. LaunchInv
  <2>1. /\ phase = "resolve" /\ \A w \in Slot : callback[w] = "idle"
        /\ \A c \in Chunk : ~busy[c] /\ Unrun(c)
    BY DEF Init, PoolInit, Unrun
  <2> QED
    BY <2>1 DEF LaunchInv, Init
<1>6. TightInv /\ FallbackInv /\ SettledInv /\ ColdInv /\ LiveInv /\ DriverInv
  BY DEF Init, SerialInit, TightInv, FallbackInv, SettledInv, ColdInv, LiveInv, DriverInv
<1> QED
  BY <1>1, <1>3, <1>4, <1>5, <1>6 DEF IInv

\* What the sources come to decides where the buffers are too small.
LEMMA OverflowingStays ==
  ASSUME kind' = kind
  PROVE  Overflowing' = Overflowing
<1>1. ASSUME NEW S PROVE Volume(S)' = Volume(S)
  <2>1. ASSUME NEW k PROVE {s \in S : kind'[s] = k} = {s \in S : kind[s] = k}
    OBVIOUS
  <2> QED
    BY <2>1 DEF Volume
<1>2. ASSUME NEW f, NEW e PROVE Capacity(f, e)' = Capacity(f, e)
  <2>1. {s \in f .. e - 1 : kind'[s] \notin {"cached", "hit"}}
          = {s \in f .. e - 1 : kind[s] \notin {"cached", "hit"}}
    OBVIOUS
  <2> QED
    BY <2>1 DEF Capacity
<1>3. Lowered' = Lowered
  BY DEF Lowered, Of
<1>4. \A c : First(c)' = First(c) /\ End(c)' = End(c)
  BY DEF First, End
<1> QED
  BY <1>1, <1>2, <1>3, <1>4 DEF Overflowing

(***************************************************************************)
(* IInv is an invariant: of the pool, of every chunk and of the driver.    *)
(***************************************************************************)
THEOREM Invariant == Spec => []IInv
<1>1. IInv /\ [Next]_vars => IInv'
  <2> SUFFICES ASSUME IInv, [Next]_vars PROVE IInv'
    OBVIOUS
  <2>1. PoolInv'
    BY NextIsPool, PoolNextInv DEF IInv
  <2>2. TypeOK'
    BY <2>1, TypeNext DEF PoolInv
  <2>3. TightInv'
    BY NextOnChunks, OverflowingStays DEF IInv, TightInv
  <2> QED
    BY <2>1, <2>2, <2>3, ChunkInvNext, LaunchInvNext, FallbackInvNext, ColdInvNext,
       DriverInvNext DEF IInv
<1> QED
  BY <1>1, InitIInv, PTL DEF Spec

(***************************************************************************)
(* Every variable keeps its type.                                          *)
(***************************************************************************)
THEOREM TypeCorrect == Spec => []TypeOK
<1>1. IInv => TypeOK
  BY DEF IInv
<1> QED
  BY <1>1, Invariant, PTL

(***************************************************************************)
(* Whatever CreateThreadpoolWork does, the launch returns with every work  *)
(* object closed and no callback queued or running.                        *)
(***************************************************************************)
THEOREM ReturnsClean == Spec => []ReturnIsClean
<1>1. IInv => ReturnIsClean
  BY PoolInvSafe DEF IInv
<1> QED
  BY <1>1, Invariant, PTL

(***************************************************************************)
(* No work object is closed under a running callback, none is left open,   *)
(* and the result word never lies about what has run.                      *)
(***************************************************************************)
THEOREM PoolSafe == Spec => [](CloseAfterJoin /\ ReturnIsClean /\ LaunchIsTruthful)
<1>1. IInv => CloseAfterJoin /\ ReturnIsClean /\ LaunchIsTruthful
  BY PoolInvSafe DEF IInv
<1> QED
  BY <1>1, Invariant, PTL

(***************************************************************************)
(* No two threads are at the same source, and the serial fallback enters   *)
(* only chunks whose callback can no longer run.                           *)
(***************************************************************************)
THEOREM OneWriter == Spec => []OneWriterPerSource
<1>1. IInv => OneWriterPerSource
  <2> SUFFICES ASSUME IInv PROVE OneWriterPerSource
    OBVIOUS
  <2>1. ASSUME NEW c \in Chunk, NEW d \in Chunk, c < d
        PROVE  At(c) \cap At(d) = {}
    <3>1. End(c) <= First(d) /\ End(c) \in Nat /\ First(d) \in Nat
      BY <2>1, ChunkFacts
    <3>2. /\ First(d) <= cursor[d] /\ cursor[c] \in Nat /\ cursor[d] \in Nat
      BY DEF IInv, ChunkInv, Progress, TypeOK
    <3> QED
      BY <3>1, <3>2 DEF At
  <2>2. ASSUME NEW c \in Chunk, NEW d \in Chunk, c # d
        PROVE  At(c) \cap At(d) = {}
    <3>1. CASE c < d
      BY <2>1, <3>1
    <3>2. CASE d < c
      BY <2>1, <3>2
    <3> QED
      BY <2>2, <3>1, <3>2
  <2>3. ASSUME stage = "fallback", at \in Slot PROVE ~InFlight(at)
    BY <2>3, PoolInvSafe DEF IInv, LaunchInv, ReturnIsClean
  <2> QED
    BY <2>2, <2>3 DEF OneWriterPerSource
<1> QED
  BY <1>1, Invariant, PTL

(***************************************************************************)
(* The borrowed arenas are freed only after their last user is done.       *)
(***************************************************************************)
THEOREM DestroyIsLast == Spec => []NoUseAfterDestroy
<1>1. IInv => NoUseAfterDestroy
  <2> SUFFICES ASSUME IInv, ~live
               PROVE  /\ \A c \in Chunk : ~busy[c]
                      /\ \A w \in Slot : ~InFlight(w)
                      /\ cold \notin {"pending", "running"}
    BY DEF NoUseAfterDestroy
  <2>1. stage \in {"replay", "done"}
    BY DEF IInv, LiveInv
  <2>2. \A w \in Slot : ~InFlight(w)
    BY <2>1, PoolInvSafe DEF IInv, LaunchInv, ReturnIsClean
  <2> QED
    BY <2>1, <2>2 DEF IInv, SettledInv, ColdInv
<1> QED
  BY <1>1, Invariant, PTL

(***************************************************************************)
(* The merged output is complete and in source order.                      *)
(***************************************************************************)
THEOREM MergeIsOrdered == Spec => []MergedInSourceOrder
<1>1. IInv => MergedInSourceOrder
  BY DEF IInv, DriverInv, MergedInSourceOrder
<1> QED
  BY <1>1, Invariant, PTL

(***************************************************************************)
(* No thread enters a chunk that has already been run.                     *)
(***************************************************************************)
THEOREM NothingRunsTwice == Spec => RunOnce
<1>1. IInv /\ [Next]_vars => [\A c \in Chunk : result[c] # -1 => ~busy'[c]]_vars
  <2> SUFFICES ASSUME IInv, [Next]_vars, NEW c \in Chunk, result[c] # -1
               PROVE  ~busy'[c]
    OBVIOUS
  <2>1. ~busy[c]
    BY DEF IInv, ChunkInv, RunState, Unrun
  <2>2. ASSUME NEW d \in Chunk, ChunkStep(d) PROVE busy'[c] = FALSE \/ busy'[c] = busy[c]
    BY <2>2 DEF ChunkStep, BeginChunk, EmitSource, EndChunk, Unrun, IInv, TypeOK
  <2> QED
    BY <2>1, <2>2, NextOnChunks DEF chunkVars
<1> QED
  BY <1>1, Invariant, PTL DEF Spec, RunOnce

\* Only three steps touch what the caller sees.
LEMMA NextOnOutcome ==
  ASSUME [Next]_vars
  PROVE  UNCHANGED serialVars \/ DecideFail \/ AppendChunk \/ ReplaySource
<1> USE DEF driverVars
<1>1. CASE Launcher
  BY <1>1 DEF Launcher, Launch, CallerBegins, CallerEnds, LaunchReturns,
     FallbackSkip, FallbackBegin, FallbackEnd, SerialCold, DecideReplay, DecideMerge
<1>2. ASSUME NEW c \in Chunk, EmitSource(c) PROVE UNCHANGED serialVars
  BY <1>2 DEF EmitSource
<1>3. ASSUME NEW c \in ChunkSlot, PoolThread(c) PROVE UNCHANGED serialVars
  BY <1>3 DEF PoolThread, StartJob, FinishJob
<1>4. CASE StartCold \/ FinishCold \/ Finished \/ UNCHANGED vars
  BY <1>4 DEF StartCold, FinishCold, Finished, vars
<1> QED
  BY <1>1, <1>2, <1>3, <1>4 DEF Next

(***************************************************************************)
(* Chunked emission implements serial emission: however many chunks, and   *)
(* whatever the pool does, the caller sees what one pass over the sources  *)
(* in order would have shown it.                                           *)
(***************************************************************************)
THEOREM Refinement == Spec => ImplementsSerial
<1> USE DEF Serial!Lists, Serial!Of, Serial!Lowered, Serial!LoweredKinds,
            Serial!Erroneous, Serial!Broken, Serial!Source
<1>1. Init => Serial!SerialInit
  BY DEF Init, SerialInit, Serial!SerialInit
<1>2. IInv /\ IInv' /\ [Next]_vars => [Serial!SerialNext]_(Serial!serialVars)
  <2> SUFFICES ASSUME IInv, IInv', [Next]_vars
               PROVE  [Serial!SerialNext]_(Serial!serialVars)
    OBVIOUS
  <2>1. kind' = kind /\ tight' = tight
    BY NextOnChunks
  <2> USE DEF Serial!SerialNext
  <2>2. CASE UNCHANGED serialVars
    BY <2>2 DEF serialVars, Serial!serialVars
  <2>3. CASE DecideFail
    <3>1. /\ stage = "decide" /\ outcome = "pending" /\ outcome' = "failed"
          /\ UNCHANGED <<kind, tight, output, diagnostics>>
      BY <2>1, <2>3 DEF DecideFail, IInv, DriverInv
    <3>2. PICK c \in Chunk : result[c] # 0
      BY <2>3 DEF DecideFail, Passed, IInv, TypeOK, PoolTypeOK
    <3>3. Broken # {}
      BY <3>1, <3>2, FailedChunk
    <3>4. Serial!SerialFail
      BY <3>1, <3>3 DEF Serial!SerialFail, Broken, Of
    <3> QED
      BY <3>4
  <2>4. CASE AppendChunk
    <3>1. /\ stage = "append" /\ outcome = "pending" /\ Passed /\ ~HasErrors
          /\ outcome' \in {"pending", "emitted"}
      BY <2>4 DEF AppendChunk, IInv, DriverInv
    <3>2. CASE outcome' = "pending"
      BY <2>1, <3>1, <3>2 DEF Serial!serialVars
    <3>3. CASE outcome' = "emitted"
      <4>1. Broken = {} /\ Erroneous = {}
        BY <3>1, PassedSources
      <4>2. Lists(output', Lowered)
        BY <2>1, <3>3 DEF IInv, DriverInv, Lowered, Of
      <4>3. Serial!SerialEmit
        BY <2>1, <3>1, <3>3, <4>1, <4>2 DEF Serial!SerialEmit, Broken, Erroneous,
           Lowered, LoweredKinds, Of, Lists
      <4> QED
        BY <4>3
    <3> QED
      BY <3>1, <3>2, <3>3
  <2>5. CASE ReplaySource
    <3>1. /\ stage = "replay" /\ outcome = "pending" /\ Passed /\ HasErrors
          /\ outcome' \in {"pending", "rejected"}
      BY <2>5 DEF ReplaySource, IInv, DriverInv
    <3>2. CASE outcome' = "pending"
      BY <2>1, <3>1, <3>2 DEF Serial!serialVars
    <3>3. CASE outcome' = "rejected"
      <4>1. Broken = {} /\ Erroneous # {}
        BY <3>1, PassedSources
      <4>2. Lists(diagnostics', Erroneous)
        BY <2>1, <3>3 DEF IInv, DriverInv, Erroneous, Of
      <4>3. Serial!SerialReject
        BY <2>1, <3>1, <3>3, <4>1, <4>2 DEF Serial!SerialReject, Broken, Erroneous,
           Of, Lists
      <4> QED
        BY <4>3
    <3> QED
      BY <3>1, <3>2, <3>3
  <2> QED
    BY <2>2, <2>3, <2>4, <2>5, NextOnOutcome
<1> QED
  BY <1>1, <1>2, Invariant, PTL DEF Spec, ImplementsSerial, Serial!SerialSpec

-------------------------------------------------------------------------------
(***************************************************************************)
(* No execution goes on for ever.                                          *)
(***************************************************************************)

\* The loops of the driver stay within their bounds.
AtInv == at \in 0 .. NumSources + Chunks

LEMMA AtInvNext == IInv /\ AtInv /\ [Next]_vars => AtInv'
<1> SUFFICES ASSUME IInv, AtInv, [Next]_vars PROVE AtInv'
  OBVIOUS
<1>1. CASE \/ Launch \/ CallerBegins \/ CallerEnds \/ FallbackBegin \/ SerialCold
           \/ DecideFail \/ StartCold \/ FinishCold \/ Finished \/ UNCHANGED vars
  BY <1>1 DEF AtInv, Launch, CallerBegins, CallerEnds, FallbackBegin, SerialCold,
     DecideFail, StartCold, FinishCold, Finished, driverVars, vars
<1>2. CASE LaunchReturns \/ DecideReplay \/ DecideMerge
  BY <1>2 DEF AtInv, LaunchReturns, DecideReplay, DecideMerge
<1>3. CASE FallbackSkip \/ FallbackEnd
  <2>1. at \in Chunk /\ NextChunk
    BY <1>3 DEF FallbackSkip, FallbackEnd, IInv, FallbackInv
  <2> QED
    BY <2>1 DEF AtInv, NextChunk
<1>4. CASE AppendChunk
  <2>1. at \in Chunk
    BY <1>4 DEF AppendChunk, IInv, DriverInv
  <2> QED
    BY <1>4, <2>1 DEF AtInv, AppendChunk
<1>5. CASE ReplaySource
  <2>1. at \in Source
    BY <1>5 DEF ReplaySource, IInv, DriverInv
  <2> QED
    BY <1>5, <2>1 DEF AtInv, ReplaySource
<1>6. ASSUME NEW c \in Chunk, EmitSource(c) PROVE AtInv'
  BY <1>6 DEF AtInv, EmitSource
<1>7. ASSUME NEW c \in ChunkSlot, PoolThread(c) PROVE AtInv'
  BY <1>7 DEF AtInv, PoolThread, StartJob, FinishJob, driverVars
<1> QED
  BY <1>1, <1>2, <1>3, <1>4, <1>5, <1>6, <1>7 DEF Next, Launcher

\* A later place of the driver has fewer turns left.
LEMMA LaterPlace ==
  ASSUME stage \in Stage, stage' \in Stage, AtInv, AtInv', stage # "done",
         \/ Place[stage'] > Place[stage]
         \/ Place[stage'] = Place[stage] /\ at' > at
  PROVE  DriverLeft' \subseteq DriverLeft /\ DriverLeft' # DriverLeft
<1>1. Place[stage] \in 0 .. 4 /\ Place[stage'] \in 0 .. 5
  BY DEF Stage, Place
<1>2. at \in 0 .. NumSources + Chunks /\ at' \in 0 .. NumSources + Chunks
  BY DEF AtInv
<1>3. /\ <<Place[stage], at>> \in DriverLeft
      /\ <<Place[stage], at>> \notin DriverLeft'
  BY <1>1, <1>2 DEF DriverLeft
<1>4. DriverLeft' \subseteq DriverLeft
  BY <1>1, <1>2 DEF DriverLeft
<1> QED
  BY <1>3, <1>4

\* What a step does to the chunks that are left and to their sources.
LEMMA ChunksAreUsed ==
  ASSUME IInv, NEW c \in Chunk, ChunkStep(c)
  PROVE  /\ ChunksLeft' \subseteq ChunksLeft /\ SourcesLeft' \subseteq SourcesLeft
         /\ ~busy[c] => ChunksLeft' # ChunksLeft
         /\ EmitSource(c) => SourcesLeft' # SourcesLeft
<1>1. TypeOK /\ Progress(c) /\ RunState(c)
  BY DEF IInv, ChunkInv
<1>2. \A d : First(d)' = First(d) /\ End(d)' = End(d)
  BY DEF First, End
<1>3. CASE ~busy[c] /\ Unrun(c) /\ BeginChunk(c)
  <2>1. UNCHANGED <<cursor, range, result>> /\ busy' = [busy EXCEPT ![c] = TRUE]
    BY <1>1, <1>3 DEF BeginChunk, RunState, TypeOK
  <2>2. SourcesLeft' = SourcesLeft
    BY <1>2, <2>1 DEF SourcesLeft
  <2>3. c \in ChunksLeft /\ c \notin ChunksLeft' /\ ChunksLeft' \subseteq ChunksLeft
    BY <1>1, <1>3, <2>1 DEF ChunksLeft, Unrun, TypeOK
  <2>4. ~EmitSource(c)
    BY <1>3 DEF EmitSource
  <2> QED
    BY <2>2, <2>3, <2>4
<1>4. CASE EmitSource(c)
  <2> DEFINE s == cursor[c]
  <2>1. /\ busy[c] /\ range[c] = 0 /\ s < End(c) /\ s \in Nat
        /\ cursor' = [cursor EXCEPT ![c] = IF kind[s] = "fatal" THEN s ELSE s + 1]
        /\ range' = [range EXCEPT ![c] = IF kind[s] = "fatal" THEN 1 ELSE range[c]]
        /\ UNCHANGED <<busy, result>>
    BY <1>1, <1>4 DEF EmitSource, TypeOK
  <2>2. s \in Source
    BY <2>1, ChunkFacts
  <2>3. ChunksLeft' = ChunksLeft
    BY <2>1 DEF ChunksLeft
  <2>4. <<c, s>> \in SourcesLeft /\ <<c, s>> \notin SourcesLeft'
    BY <1>1, <1>2, <2>1, <2>2 DEF SourcesLeft, TypeOK
  <2>5. ASSUME NEW d \in Chunk PROVE cursor'[d] >= cursor[d] /\ (range'[d] = 0 => range[d] = 0)
    BY <1>1, <2>1 DEF TypeOK
  <2>6. \A d \in Chunk : cursor[d] \in Nat /\ cursor'[d] \in Nat
    BY <1>1, <2>1 DEF TypeOK
  <2>7. SourcesLeft' \subseteq SourcesLeft
    BY <1>2, <2>5, <2>6 DEF SourcesLeft
  <2> QED
    BY <2>1, <2>3, <2>4, <2>7
<1>5. CASE EndChunk(c)
  <2>1. /\ busy[c] /\ busy' = [busy EXCEPT ![c] = FALSE]
        /\ result' = [result EXCEPT ![c] = ChunkResult(c)] /\ ChunkResult(c) # -1
        /\ UNCHANGED <<cursor, range>>
    BY <1>1, <1>5, ResultIsNotUnrun DEF EndChunk
  <2>2. SourcesLeft' = SourcesLeft
    BY <1>2, <2>1 DEF SourcesLeft
  <2>3. ChunksLeft' = ChunksLeft
    BY <1>1, <2>1 DEF ChunksLeft, TypeOK
  <2>4. ~EmitSource(c)
    BY <1>1, <1>5, <2>1 DEF EmitSource, TypeOK
  <2> QED
    BY <2>1, <2>2, <2>3, <2>4
<1> QED
  BY <1>3, <1>4, <1>5 DEF ChunkStep

\* The two together, for any step.
LEMMA ChunksStayUsed ==
  ASSUME IInv, [Next]_vars
  PROVE  ChunksLeft' \subseteq ChunksLeft /\ SourcesLeft' \subseteq SourcesLeft
<1>1. CASE UNCHANGED chunkVars
  <2>1. ChunksLeft' = ChunksLeft /\ SourcesLeft' = SourcesLeft
    BY <1>1 DEF chunkVars, ChunksLeft, SourcesLeft, End
  <2> QED
    BY <2>1
<1>2. CASE \E c \in Chunk : ChunkStep(c)
  BY <1>2, ChunksAreUsed
<1> QED
  BY <1>1, <1>2, NextOnChunks

\* One of the six parts of what is left gets smaller, and none grows.
Fewer ==
  /\ TurnsLeft' \subseteq TurnsLeft /\ StartsLeft' \subseteq StartsLeft /\ EndsLeft' \subseteq EndsLeft
  /\ DriverLeft' \subseteq DriverLeft
  /\ ChunksLeft' \subseteq ChunksLeft /\ SourcesLeft' \subseteq SourcesLeft
  /\ \/ TurnsLeft' # TurnsLeft \/ StartsLeft' # StartsLeft \/ EndsLeft' # EndsLeft
     \/ DriverLeft' # DriverLeft \/ ChunksLeft' # ChunksLeft \/ SourcesLeft' # SourcesLeft

LEMMA FewerIsLess ==
  Fewer => (\A k \in DOMAIN Left : Left'[k] \subseteq Left[k]) /\ Left' # Left
BY DEF Fewer, Left

LEMMA NextUsesUp == IInv /\ IInv' /\ AtInv /\ AtInv' /\ Next => Fewer \/ UNCHANGED vars
<1> SUFFICES ASSUME IInv, IInv', AtInv, AtInv', Next PROVE Fewer \/ UNCHANGED vars
  OBVIOUS
<1>0. /\ ChunksLeft' \subseteq ChunksLeft /\ SourcesLeft' \subseteq SourcesLeft
      /\ PoolInv /\ PoolTypeOK /\ stage \in Stage /\ stage' \in Stage
  BY ChunksStayUsed DEF IInv, PoolInv, TypeOK
<1>1. UNCHANGED <<stage, at>> => DriverLeft' = DriverLeft
  BY DEF DriverLeft
<1>2. UNCHANGED poolVars => TurnsLeft' = TurnsLeft /\ StartsLeft' = StartsLeft /\ EndsLeft' = EndsLeft
  BY DEF poolVars, TurnsLeft, StartsLeft, EndsLeft
<1>3. ASSUME LaunchStep, UNCHANGED <<stage, at>> PROVE Fewer
  BY <1>0, <1>1, <1>3, LauncherTakesTurn DEF Fewer
<1>4. ASSUME NEW w \in Slot, PoolStep(w), UNCHANGED <<stage, at>> PROVE Fewer
  BY <1>0, <1>1, <1>4, PoolThreadTakesStep DEF Fewer
<1>5. ASSUME UNCHANGED poolVars, stage # "done",
             \/ Place[stage'] > Place[stage]
             \/ Place[stage'] = Place[stage] /\ at' > at
      PROVE  Fewer
  BY <1>0, <1>2, <1>5, LaterPlace DEF Fewer
<1>6. ASSUME NEW c \in Chunk, ChunkStep(c), ~busy[c] \/ EmitSource(c),
             UNCHANGED <<poolVars, stage, at>>
      PROVE  Fewer
  BY <1>0, <1>1, <1>2, <1>6, ChunksAreUsed DEF Fewer
<1>7. CASE Launch \/ CallerBegins \/ CallerEnds
  BY <1>3, <1>7 DEF Launch, CallerBegins, CallerEnds, LaunchStep, driverVars
<1>8. ASSUME NEW c \in ChunkSlot, PoolThread(c) PROVE Fewer
  <2>1. c \in Slot
    OBVIOUS
  <2> QED
    BY <1>4, <1>8, <2>1 DEF PoolThread, StartJob, FinishJob, PoolStep, driverVars
<1>9. CASE StartCold \/ FinishCold
  <2>1. ColdSlot \in Slot
    BY <1>9 DEF StartCold, FinishCold
  <2> QED
    BY <1>4, <1>9, <2>1 DEF StartCold, FinishCold, PoolStep
<1>10. CASE LaunchReturns \/ SerialCold \/ DecideReplay \/ DecideMerge \/ DecideFail
  BY <1>5, <1>10 DEF LaunchReturns, SerialCold, DecideReplay, DecideMerge, DecideFail, Place
<1>11. CASE FallbackSkip \/ FallbackEnd
  <2>1. at \in Chunk /\ NextChunk /\ stage = "fallback" /\ UNCHANGED poolVars
    BY <1>11 DEF FallbackSkip, FallbackEnd, IInv, FallbackInv
  <2>2. \/ Place[stage'] > Place[stage]
        \/ Place[stage'] = Place[stage] /\ at' > at
    BY <2>1 DEF NextChunk, Place
  <2> QED
    BY <1>5, <2>1, <2>2
<1>12. CASE FallbackBegin
  <2>1. at \in Chunk /\ ~busy[at] /\ ChunkStep(at) /\ UNCHANGED <<poolVars, stage, at>>
    BY <1>12 DEF FallbackBegin, IInv, FallbackInv, ChunkStep, Unrun
  <2> QED
    BY <1>6, <2>1
<1>13. CASE AppendChunk
  <2>1. at \in Chunk /\ stage = "append" /\ UNCHANGED poolVars
    BY <1>13 DEF AppendChunk, IInv, DriverInv
  <2> QED
    BY <1>5, <1>13, <2>1 DEF AppendChunk, Place
<1>14. CASE ReplaySource
  <2>1. at \in Source /\ stage = "replay" /\ UNCHANGED poolVars
    BY <1>14 DEF ReplaySource, IInv, DriverInv
  <2> QED
    BY <1>5, <1>14, <2>1 DEF ReplaySource, Place
<1>15. ASSUME NEW c \in Chunk, EmitSource(c) PROVE Fewer
  BY <1>6, <1>15 DEF EmitSource, ChunkStep
<1> QED
  BY <1>7, <1>8, <1>9, <1>10, <1>11, <1>12, <1>13, <1>14, <1>15 DEF Next, Launcher, Finished

(***************************************************************************)
(* For every number of chunks and sources and any scheduling, each step of *)
(* the launching thread and of the pool uses up a part of what is left to  *)
(* do: the fallback and the replay of c_emit_native_sources_chunked start  *)
(* nothing twice.                                                          *)
(***************************************************************************)
THEOREM EachStepCounts == Spec => EveryStepCounts
<1>1. Init => AtInv
  BY DEF Init, AtInv
<1>2. IInv /\ IInv' /\ AtInv /\ AtInv' /\ [Next]_vars =>
        [(\A k \in DOMAIN Left : Left'[k] \subseteq Left[k]) /\ Left' # Left]_vars
  BY NextUsesUp, FewerIsLess
<1> QED
  BY <1>1, <1>2, AtInvNext, Invariant, PTL DEF Spec, EveryStepCounts

\* What is left is finite in every state, and so is every execution.
THEOREM LeftIsFinite == \A k \in DOMAIN Left : IsFiniteSet(Left[k])
<1>0. 0 \in Int /\ 1 \in Int /\ 4 \in Int /\ Chunks \in Int /\ NumSources + Chunks \in Int
      /\ NumSources - 1 \in Int
  OBVIOUS
<1>1. IsFiniteSet(0 .. 4) /\ IsFiniteSet(0 .. NumSources + Chunks) /\ IsFiniteSet(1 .. Chunks)
      /\ IsFiniteSet(0 .. NumSources - 1)
  BY <1>0, FS_Interval
<1>2. /\ IsFiniteSet((0 .. 4) \X (0 .. NumSources + Chunks))
      /\ IsFiniteSet((1 .. Chunks) \X (0 .. NumSources - 1))
  BY <1>1, FS_Product
<1>3. /\ DriverLeft \subseteq (0 .. 4) \X (0 .. NumSources + Chunks)
      /\ ChunksLeft \subseteq 1 .. Chunks
      /\ SourcesLeft \subseteq (1 .. Chunks) \X (0 .. NumSources - 1)
  BY DEF DriverLeft, ChunksLeft, SourcesLeft
<1>4. IsFiniteSet(DriverLeft) /\ IsFiniteSet(ChunksLeft) /\ IsFiniteSet(SourcesLeft)
  BY <1>1, <1>2, <1>3, FS_Subset
<1> QED
  BY <1>4, CallIsFinite DEF Left

\* The chunk's loop has come to its end.
CanEnd(c) == busy[c] /\ (cursor[c] = End(c) \/ range[c] # 0)

\* The guards of the launching thread's steps, and of the other threads'.
LauncherCanGo ==
  \/ phase \in {"resolve", "create", "submit", "call", "close"}
  \/ phase = "wait" /\ callback[next] = "done"
  \/ phase = "caller" /\ CanEnd(Chunks)
  \/ stage = "launch" /\ phase = "returned"
  \/ stage = "fallback" /\ (~busy[at] \/ CanEnd(at))
  \/ stage \in {"cold", "decide", "append", "replay"}

OthersCanGo ==
  \/ \E c \in Chunk : busy[c] /\ cursor[c] < End(c) /\ range[c] = 0
  \/ \E c \in ChunkSlot : callback[c] = "queued" \/ (callback[c] = "running" /\ CanEnd(c))
  \/ Cold /\ callback[ColdSlot] = "queued"
  \/ Cold /\ callback[ColdSlot] = "running" /\ cold # "absent"

(***************************************************************************)
(* Nobody waits for a thread that waits: until the call has returned, one  *)
(* of the guards holds, whatever failed. With EachStepCounts and           *)
(* LeftIsFinite the call comes to its end if threads that can go on do.    *)
(***************************************************************************)
THEOREM SomebodyCanGo == Spec => [](stage = "done" \/ LauncherCanGo \/ OthersCanGo)
<1>1. IInv => stage = "done" \/ LauncherCanGo \/ OthersCanGo
  <2> SUFFICES ASSUME IInv, stage # "done", ~OthersCanGo PROVE LauncherCanGo
    OBVIOUS
  <2>1. ASSUME NEW c \in Chunk, busy[c] PROVE CanEnd(c)
    <3>1. cursor[c] \in Nat /\ End(c) \in Nat /\ cursor[c] <= End(c) /\ range[c] \in {0, 1}
      BY ChunkFacts DEF IInv, TypeOK, ChunkInv, Progress
    <3> QED
      BY <2>1, <3>1 DEF OthersCanGo, CanEnd
  <2>2. ASSUME stage = "launch", NEW w \in Slot PROVE ~InFlight(w)
    <3>1. CASE w \in ChunkSlot
      <4>1. callback[w] = "running" => busy[w] /\ w \in Chunk
        BY <2>2, <3>1 DEF IInv, LaunchInv
      <4> QED
        BY <2>1, <3>1, <4>1 DEF OthersCanGo, InFlight
    <3>2. CASE w \notin ChunkSlot
      <4>1. Cold /\ w = ColdSlot /\ cold # "absent"
        BY <3>2 DEF IInv, ColdInv
      <4> QED
        BY <4>1 DEF OthersCanGo, InFlight
    <3> QED
      BY <3>1, <3>2
  <2>3. CASE stage = "launch"
    <3>1. phase \in Phase /\ next \in Slot /\ callback[next] \in {"idle", "queued", "running", "done"}
      BY DEF IInv, PoolInv, PoolTypeOK
    <3>2. CASE phase = "wait"
      <4>1. callback[next] # "idle"
        BY <3>1, <3>2 DEF IInv, PoolInv, AllSubmitted
      <4> QED
        BY <2>2, <2>3, <3>1, <3>2, <4>1 DEF InFlight, LauncherCanGo
    <3>3. CASE phase = "caller"
      BY <2>1, <2>3, <3>3 DEF IInv, LaunchInv, LauncherCanGo
    <3> QED
      BY <2>3, <3>1, <3>2, <3>3 DEF Phase, LauncherCanGo
  <2>4. CASE stage = "fallback"
    BY <2>1, <2>4 DEF IInv, FallbackInv, LauncherCanGo
  <2> QED
    BY <2>3, <2>4 DEF IInv, TypeOK, Stage, LauncherCanGo
<1> QED
  BY <1>1, Invariant, PTL

-------------------------------------------------------------------------------
(***************************************************************************)
(* The same sources come to the same result.                               *)
(***************************************************************************)

\* What emission can only come to, the sources and the number of chunks being what they are.
TheOutcome ==
  IF Of({"fatal", "growth"}) # {} \/ Overflowing # {} THEN "failed"
  ELSE IF Erroneous # {} THEN "rejected" ELSE "emitted"

OnlyResult ==
  outcome # "pending" =>
    /\ outcome = TheOutcome
    /\ output = IF outcome = "emitted" THEN Written(Lowered) ELSE <<>>
    /\ diagnostics = IF outcome = "rejected" THEN Written(Erroneous) ELSE <<>>

(***************************************************************************)
(* The pool's scheduling, failures of the launcher and the fallback that   *)
(* repairs them leave no trace: outcome, records and diagnostics are       *)
(* functions of the sources and the number of chunks, so that a project    *)
(* built twice with as many chunks comes out the same. The number of       *)
(* chunks decides one thing only, whether a buffer overflows (Overflowing: *)
(* the capacity depends on the range of the chunk) and the build fails;    *)
(* records and diagnostics are the same for any number.                    *)
(***************************************************************************)
THEOREM Reproducible == Spec => []OnlyResult
<1>1. ASSUME IInv, outcome # "pending" => outcome = TheOutcome
      PROVE  OnlyResult
  <2>1. TheOutcome \in {"failed", "rejected", "emitted"}
    BY DEF TheOutcome
  <2>2. outcome = "emitted" => output = Written(Lowered) /\ diagnostics = <<>>
    BY <1>1, ListedIsWritten DEF IInv, DriverInv
  <2>3. outcome = "rejected" => diagnostics = Written(Erroneous) /\ output = <<>>
    BY <1>1, ListedIsWritten DEF IInv, DriverInv
  <2>4. outcome = "failed" => output = <<>> /\ diagnostics = <<>>
    BY <1>1 DEF IInv, DriverInv
  <2> QED
    BY <1>1, <2>1, <2>2, <2>3, <2>4 DEF OnlyResult
<1> DEFINE Settled ==
      outcome # "pending" =>
        outcome = IF Broken # {} THEN "failed"
                  ELSE IF Erroneous # {} THEN "rejected" ELSE "emitted"
<1>2. Init => Settled
  BY DEF Init, SerialInit
<1>3. Settled /\ [Serial!SerialNext]_(Serial!serialVars) => Settled'
  BY DEF Serial!SerialNext, Serial!SerialEmit, Serial!SerialReject, Serial!SerialFail,
     Serial!serialVars, Serial!Broken, Serial!Erroneous, Serial!Of, Serial!Source,
     Broken, Erroneous, Of
<1>4. Spec => []Settled
  BY <1>2, <1>3, Refinement, PTL DEF Spec, ImplementsSerial, Serial!SerialSpec
<1>5. IInv /\ Settled => OnlyResult
  <2> SUFFICES ASSUME IInv, Settled PROVE OnlyResult
    OBVIOUS
  <2>1. Broken = Of({"fatal", "growth"}) \union Overflowing
    BY DEF Broken, IInv, TightInv
  <2> QED
    BY <1>1, <2>1 DEF TheOutcome
<1> QED
  BY <1>4, <1>5, Invariant, PTL
===============================================================================
