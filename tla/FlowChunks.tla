------------------------------ MODULE FlowChunks ------------------------------
(***************************************************************************)
(* Parallel flow validation: flow_validate_project_parallel and its chunk  *)
(* jobs on the worker pool (flow_parallel.p in compiler/selfhost/source),  *)
(* up to the errors its caller prints (backend_emit.p).                    *)
(*                                                                         *)
(* Each chunk of the sources has a private error buffer.  The pool's slots *)
(* run chunks 1 .. Chunks-1, the launching thread the last one.  All of    *)
(* them allocate from one heap, whose counter of live bytes has two        *)
(* limits: a reservation beyond the hard one ends the process, and a chunk *)
(* that reads more than the validation budget after a source gives up.     *)
(***************************************************************************)
EXTENDS WorkerPool, SerialFlow, FiniteSets

CONSTANTS
  Chunks,      \* worker_count, 2 or 4 in the code
  Capacity,    \* errors.capacity, of the final buffer and of each private one
  Bases,       \* bytes that may be live before the validation starts
  Buffer,      \* bytes of a private error buffer
  Weights,     \* bytes that the analysis of a source may take
  Budget,      \* validation budget, 402653184
  HardLimit    \* limit of the native runtime, 536870912

ASSUME FlowAssumption ==
  /\ Chunks \in Nat \ {0, 1} /\ Workers = Chunks - 1
  /\ NumSources \in Nat /\ NumSources >= Chunks
  /\ Partitions \in Nat /\ MaxErrors \in Nat /\ Capacity \in Nat
  /\ Buffer \in Nat /\ Weights \subseteq Nat
  /\ HardLimit \in Nat /\ Budget \in 0 .. HardLimit /\ Bases \subseteq 0 .. HardLimit

Chunk == 1 .. Chunks

\* Chunk c holds the sources First(c) .. End(c)-1.
First(c) == Cut(NumSources, c - 1, Chunks)
End(c) == Cut(NumSources, c, Chunks)
Sources(c) == First(c) .. End(c) - 1

VARIABLES
  base,       \* bytes live before the validation starts
  weight,     \* bytes that the analysis of a source takes
  stage,      \* where flow_validate_project_parallel is
  at,         \* the chunk its current loop is at
  live,       \* compiler_live_allocation_bytes
  doing,      \* what the thread inside flow_parallel_chunk_run is doing
  cursor,     \* source_record of the chunk
  found,      \* the chunk's private error buffer
  skips,      \* chunk.timings.object_cache_flow_sources_skipped
  result,     \* chunk.result, -1 until the chunk has been run
  merged,     \* the error buffer of the caller
  skipped,    \* timings.object_cache_flow_sources_skipped
  passed      \* what the call returns

chunkVars == <<doing, cursor, found, skips, result>>
mergeVars == <<merged, skipped, passed>>
inputVars == <<saved, faulty, weight, base>>
vars == <<poolVars, inputVars, verdict, report, stage, at, live, chunkVars,
          mergeVars>>

TypeOK ==
  /\ PoolTypeOK
  /\ saved \in SUBSET (0 .. Partitions - 1)
  /\ faulty \in [Source -> 0 .. MaxErrors]
  /\ weight \in [Source -> Weights]
  /\ base \in Bases
  /\ verdict \in {"pending", "accepted", "rejected", "failed", "aborted"}
  /\ report \in Seq(Int) /\ merged \in Seq(Int) /\ skipped \in Nat
  /\ passed \in BOOLEAN
  /\ stage \in {"buffers", "launch", "fallback", "decide", "append",
                "destroy", "done"}
  /\ at \in Chunk
  /\ live \in 0 .. HardLimit
  /\ doing \in [Chunk -> {"idle", "scan", "analyse", "sample", "over"}]
  /\ cursor \in [Chunk -> 0 .. NumSources]
  /\ found \in [Chunk -> Seq(Int)]
  /\ skips \in [Chunk -> Nat]
  /\ result \in [Chunk -> {-1, 0, 2}]

(***************************************************************************)
(* A source with errors has been analysed, and an analysis takes memory.   *)
(* flow_record_error writes without looking at the capacity; the states    *)
(* considered are those in which no chunk has more errors than its buffer  *)
(* holds, while all chunks together may.                                   *)
(***************************************************************************)
Init ==
  /\ PoolInit
  /\ FlowInit
  /\ weight \in [Source -> Weights]
  /\ base \in Bases
  /\ \A s \in Source : faulty[s] > 0 => weight[s] > 0
  /\ \A c \in Chunk : Cardinality(Expected(Sources(c))) <= Capacity
  /\ stage = "buffers"
  /\ at = 1
  /\ live = base
  /\ doing = [c \in Chunk |-> "idle"]
  /\ cursor = [c \in Chunk |-> First(c)]
  /\ found = [c \in Chunk |-> <<>>]
  /\ skips = [c \in Chunk |-> 0]
  /\ result = [c \in Chunk |-> -1]
  /\ merged = <<>>
  /\ skipped = 0
  /\ passed = FALSE

(***************************************************************************)
(* The allocator.  The counter is reserved with a compare and exchange in  *)
(* a loop, so that each reservation and each release is one step; the      *)
(* memory of one analysis is one block here.                               *)
(***************************************************************************)

\* A mistake Reserve could hold: the limit is not looked at.
ReserveUnchecked(n) == live' = live + n

Reserve(n) == live + n <= HardLimit /\ live' = live + n

\* native_allocation_fatal: the process exits with code 70.
Exhausted(n) ==
  /\ live + n > HardLimit
  /\ verdict' = "aborted"
  /\ stage' = "done"

Release(n) == live' = live - n

(***************************************************************************)
(* flow_parallel_chunk_run, step by step, on whichever thread runs it.     *)
(***************************************************************************)

\* The thread is at this point of the job, and the process has not ended.
Running(c, point) == stage # "done" /\ doing[c] = point

BeginChunk(c) ==
  /\ Running(c, "idle")
  /\ doing' = [doing EXCEPT ![c] = "scan"]
  /\ cursor' = [cursor EXCEPT ![c] = First(c)]
  /\ UNCHANGED <<found, skips, result>>

othersVars == <<poolVars, inputVars, report, at, mergeVars>>
chunkStepVars == <<othersVars, verdict, stage>>

Scanning(c) == Running(c, "scan") /\ cursor[c] < End(c)

SkipSource(c) ==
  /\ Scanning(c) /\ Hit(cursor[c])
  /\ skips' = [skips EXCEPT ![c] = @ + 1]
  /\ cursor' = [cursor EXCEPT ![c] = @ + 1]
  /\ UNCHANGED <<chunkStepVars, live, doing, found, result>>

BeginSource(c) ==
  /\ Scanning(c) /\ ~Hit(cursor[c])
  /\ Reserve(weight[cursor[c]])
  /\ doing' = [doing EXCEPT ![c] = "analyse"]
  /\ UNCHANGED <<chunkStepVars, cursor, found, skips, result>>

SourceExhausts(c) ==
  /\ Scanning(c) /\ ~Hit(cursor[c])
  /\ Exhausted(weight[cursor[c]])
  /\ UNCHANGED <<othersVars, live, chunkVars>>

\* flow_validate_source records the errors and frees what it allocated.
EndSource(c) ==
  LET s == cursor[c] IN
  /\ Running(c, "analyse")
  /\ found' = [found EXCEPT ![c] =
                 @ \o [k \in 1 .. faulty[s] |-> ErrorOf(s, k - 1)]]
  /\ Release(weight[s])
  /\ doing' = [doing EXCEPT ![c] = "sample"]
  /\ UNCHANGED <<chunkStepVars, cursor, skips, result>>

\* A mistake OverBudget could hold: the limit itself is already too much.
OverBudgetAtLimit(c) == live >= Budget

OverBudget(c) == live > Budget

SampleLive(c) ==
  /\ Running(c, "sample")
  /\ doing' = [doing EXCEPT ![c] = IF OverBudget(c) THEN "over" ELSE "scan"]
  /\ cursor' = [cursor EXCEPT ![c] = IF OverBudget(c) THEN @ ELSE @ + 1]
  /\ UNCHANGED <<chunkStepVars, live, found, skips, result>>

EndChunk(c) ==
  /\ \/ Running(c, "over")
     \/ Running(c, "scan") /\ cursor[c] = End(c)
  /\ result' = [result EXCEPT ![c] = IF doing[c] = "over" THEN 2 ELSE 0]
  /\ doing' = [doing EXCEPT ![c] = "idle"]
  /\ UNCHANGED <<cursor, found, skips>>

ChunkStep(c) ==
  \/ SkipSource(c) \/ BeginSource(c) \/ SourceExhausts(c)
  \/ EndSource(c) \/ SampleLive(c)

(***************************************************************************)
(* The launching thread: buffers, launch and fallback.                     *)
(***************************************************************************)

driverVars == <<inputVars, verdict, report, stage, at, live, mergeVars>>

AllocateBuffer ==
  /\ stage = "buffers"
  /\ Reserve(Buffer)
  /\ IF at = Chunks THEN stage' = "launch" /\ at' = 1
                    ELSE at' = at + 1 /\ UNCHANGED stage
  /\ UNCHANGED <<poolVars, inputVars, verdict, report, chunkVars, mergeVars>>

BufferExhausts ==
  /\ stage = "buffers"
  /\ Exhausted(Buffer)
  /\ UNCHANGED <<othersVars, live, chunkVars>>

Launch ==
  /\ stage = "launch"
  /\ \/ ResolveApis \/ ResolveFails
     \/ CreateWork \/ CreateFails
     \/ SubmitWork \/ WaitWork \/ CloseWork
  /\ UNCHANGED <<driverVars, chunkVars>>

StartJob(c) == StartCallback(c) /\ BeginChunk(c) /\ UNCHANGED driverVars

FinishJob(c) == FinishCallback(c) /\ EndChunk(c) /\ UNCHANGED driverVars

CallerBegins == CallerStarts /\ BeginChunk(Chunks) /\ UNCHANGED driverVars

CallerEnds == CallerReturns /\ EndChunk(Chunks) /\ UNCHANGED driverVars

LaunchReturns ==
  /\ stage = "launch" /\ phase = "returned"
  /\ stage' = "fallback"
  /\ UNCHANGED <<poolVars, inputVars, verdict, report, at, live, chunkVars,
                 mergeVars>>

\* The chunks are visited in order; one already run is passed over.
NextChunk ==
  IF at = Chunks THEN stage' = "decide" /\ at' = 1
                 ELSE at' = at + 1 /\ UNCHANGED stage

FallbackSkip ==
  /\ stage = "fallback" /\ doing[at] = "idle"
  /\ result[at] # -1
  /\ NextChunk
  /\ UNCHANGED <<poolVars, inputVars, verdict, report, live, chunkVars,
                 mergeVars>>

\* A mistake: a chunk that gave up is run once more, on its full buffer.
FallbackRepeats ==
  /\ stage = "fallback"
  /\ result[at] # 0
  /\ BeginChunk(at)
  /\ UNCHANGED <<poolVars, driverVars>>

FallbackBegin ==
  /\ stage = "fallback"
  /\ result[at] = -1
  /\ BeginChunk(at)
  /\ UNCHANGED <<poolVars, driverVars>>

FallbackEnd ==
  /\ stage = "fallback"
  /\ EndChunk(at)
  /\ NextChunk
  /\ UNCHANGED <<poolVars, inputVars, verdict, report, live, mergeVars>>

(***************************************************************************)
(* The launching thread: merge, release and report.                        *)
(***************************************************************************)

Passed == launch \in {0, 3} /\ \A c \in Chunk : result[c] = 0

Decide ==
  /\ stage = "decide"
  /\ passed' = Passed
  /\ stage' = IF Passed THEN "append" ELSE "destroy"
  /\ UNCHANGED <<poolVars, inputVars, verdict, report, at, live, chunkVars,
                 merged, skipped>>

AppendChunk ==
  /\ stage = "append"
  /\ Len(merged) + Len(found[at]) <= Capacity
  /\ merged' = merged \o found[at]
  /\ skipped' = skipped + skips[at]
  /\ IF at = Chunks THEN stage' = "destroy" /\ UNCHANGED at
                    ELSE at' = at + 1 /\ UNCHANGED stage
  /\ UNCHANGED <<poolVars, inputVars, verdict, report, live, chunkVars, passed>>

\* What earlier chunks appended stays in the buffer, and is not looked at.
AppendRefused ==
  /\ stage = "append"
  /\ Len(merged) + Len(found[at]) > Capacity
  /\ passed' = FALSE
  /\ stage' = "destroy"
  /\ UNCHANGED <<poolVars, inputVars, verdict, report, at, live, chunkVars,
                 merged, skipped>>

\* The caller: an unsuccessful validation ends the build without a report.
Report ==
  /\ verdict' = IF ~passed THEN "failed"
                ELSE IF merged = <<>> THEN "accepted" ELSE "rejected"
  /\ report' = IF passed THEN merged ELSE report

\* A mistake: the failing path returns without releasing the buffers.
DestroyWhenPassed ==
  /\ stage = "destroy"
  /\ IF passed THEN Release(Chunks * Buffer) ELSE UNCHANGED live
  /\ Report
  /\ stage' = "done"
  /\ UNCHANGED <<poolVars, inputVars, at, chunkVars, mergeVars>>

\* flow_parallel_destroy, and what the caller makes of the result.
Destroy ==
  /\ stage = "destroy"
  /\ Release(Chunks * Buffer)
  /\ Report
  /\ stage' = "done"
  /\ UNCHANGED <<poolVars, inputVars, at, chunkVars, mergeVars>>

PoolThread(c) == StartJob(c) \/ FinishJob(c)

Launcher ==
  \/ AllocateBuffer \/ BufferExhausts
  \/ Launch \/ CallerBegins \/ CallerEnds \/ LaunchReturns
  \/ FallbackSkip \/ FallbackBegin \/ FallbackEnd
  \/ Decide \/ AppendChunk \/ AppendRefused \/ Destroy

\* Once the process has ended, or the caller has its answer, nothing moves.
Finished == stage = "done" /\ UNCHANGED vars

Next ==
  \/ Launcher
  \/ \E c \in Chunk : ChunkStep(c)
  \/ \E c \in Slot : PoolThread(c)
  \/ Finished

Spec == Init /\ [][Next]_vars

(***************************************************************************)
(* The launching thread keeps running, and Windows eventually starts and   *)
(* keeps running every submitted callback.                                 *)
(***************************************************************************)
Fairness ==
  /\ WF_vars(Launcher)
  /\ \A c \in Chunk : WF_vars(ChunkStep(c))
  /\ \A c \in Slot : WF_vars(PoolThread(c))

FairSpec == Spec /\ Fairness

-------------------------------------------------------------------------------
(***************************************************************************)
(* Parallel validation implements serial validation: an accepted project   *)
(* has no error, a rejected one has each error reported once and in source *)
(* order, and a failure half way through the merge reports none of them.   *)
(***************************************************************************)
ImplementsSerialFlow == FlowSpec

(***************************************************************************)
(* The counter the object cache's report rests on counts each hit once,    *)
(* whichever chunk and thread met it.                                      *)
(***************************************************************************)
SkipsAreHits ==
  verdict \in {"accepted", "rejected"} =>
    skipped = Cardinality({s \in Source : Hit(s)})

(***************************************************************************)
(* However the validation ends, it gives back what it took: the counter of *)
(* live bytes, on which every later allocation of the compiler depends, is *)
(* where it was, unless the process has ended.                             *)
(***************************************************************************)
NothingLeaks == stage = "done" /\ verdict # "aborted" => live = base

Setup == base + Chunks * Buffer

\* What a chunk may hold beside its buffer: nothing, or the analysis of one source.
Loads(c) == {0} \cup {weight[s] : s \in {x \in Sources(c) : ~Hit(x)}}

\* n bytes may be held by the chunks beside c: total[d] is what 1 .. d hold of them.
HeldBeside(c, n) ==
  \E total \in [0 .. Chunks -> 0 .. HardLimit] :
    /\ total[0] = 0 /\ total[Chunks] = n
    /\ \A d \in Chunk : total[d] - total[d - 1] \in IF d = c THEN {0} ELSE Loads(d)

(***************************************************************************)
(* A project fails only for a reason of its own.  When the launch failed   *)
(* and the chunks ran one after the other, no source is in memory when the *)
(* budget is sampled, so the verdict does not depend on the sources'       *)
(* sizes; when they ran together it can depend on one source of each of    *)
(* the other chunks, and on nothing more.  The same bounds the allocation  *)
(* guard that ends the process.                                            *)
(***************************************************************************)
FailureHasCause ==
  /\ verdict = "failed" =>
       \/ Cardinality(Expected(Source)) > Capacity
       \/ \E c \in Chunk, n \in 0 .. HardLimit :
            HeldBeside(c, n) /\ (launch = 3 => n = 0) /\ Setup + n > Budget
  /\ verdict = "aborted" =>
       \E c \in Chunk, n \in 0 .. HardLimit :
         HeldBeside(c, n) /\ \E own \in Loads(c) : Setup + n + own > HardLimit

(***************************************************************************)
(* The call always returns, or the process ends.                           *)
(***************************************************************************)
Terminates == <>(stage = "done")
(***************************************************************************)
(* No execution goes on for ever, with any scheduling: each step uses up   *)
(* something of what is left to do, and nothing is ever put back.  What is *)
(* left are turns of the pool's loops and its callbacks, chunks to begin,  *)
(* for each source its start, its end and the sample after it, and turns   *)
(* of the driver's loops.  A chunk that gave up is not tried again, nor    *)
(* the source it gave up at.                                               *)
(***************************************************************************)
Place == [buffers |-> 0, launch |-> 1, fallback |-> 2, decide |-> 3,
          append |-> 4, destroy |-> 5, done |-> 6]

DriverLeft ==
  {t \in (0 .. 5) \X Chunk :
     t[1] > Place[stage] \/ (t[1] = Place[stage] /\ t[2] >= at)}

ChunksLeft == {c \in Chunk : result[c] = -1 /\ doing[c] = "idle"}

\* How far the work on the chunk's source has come, and the chunk's own end.
Point == [idle |-> 0, scan |-> 0, analyse |-> 1, sample |-> 2, over |-> 3]

SourcesLeft ==
  {t \in Chunk \X Source \X (0 .. 2) :
     LET c == t[1] IN
     /\ result[c] = -1 /\ doing[c] # "over" /\ t[2] < End(c)
     /\ t[2] > cursor[c] \/ (t[2] = cursor[c] /\ t[3] >= Point[doing[c]])}

Left == <<TurnsLeft, StartsLeft, EndsLeft, DriverLeft, ChunksLeft, SourcesLeft>>

EveryStepCounts ==
  [][(\A k \in DOMAIN Left : Left'[k] \subseteq Left[k]) /\ Left' # Left]_vars
===============================================================================
