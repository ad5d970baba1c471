----------------------------- MODULE NativeChunks -----------------------------
(***************************************************************************)
(* Chunked native emission: c_emit_native_sources_chunked and the chunk    *)
(* jobs it runs on the worker pool (backend_c_parallel_state.p,            *)
(* backend_c_parallel.p in compiler/selfhost/source).                      *)
(*                                                                         *)
(* The project's sources are cut into contiguous chunks.  The pool's slots *)
(* run chunks 1 .. Chunks-1, the launching thread runs the last one, and   *)
(* in a cold build one more slot prepares the object cache's keys.  When   *)
(* the launch fails, the chunks still marked unrun (result -1) are run     *)
(* serially.  Then the results decide: merge the private outputs in order, *)
(* replay the whole range to print diagnostics in source order, or fail.   *)
(***************************************************************************)
EXTENDS WorkerPool, SerialEmission, FiniteSets

CONSTANTS
  Chunks,    \* worker_count, 2 or 4 in the code
  Cold,      \* options.cold_cache_pending at the call
  Ceiling,   \* the capacity no buffer exceeds, for records as long as the shares of so many sources
  Slack,     \* what a buffer has besides the shares of its sources
  LongUnits  \* the shares that the records of a "long" source take

ASSUME ChunksAssumption ==
  /\ Chunks \in Nat \ {0, 1}
  /\ NumSources \in Nat /\ NumSources >= Chunks
  /\ Kinds \subseteq AllKinds
  /\ Ceiling \in Nat /\ Slack \in Nat /\ LongUnits \in Nat

\* Slot k runs chunk k; a cold build has one more slot, for the cache task.
ASSUME PoolSize ==
  /\ Cold \in BOOLEAN
  /\ Workers = IF Cold THEN Chunks ELSE Chunks - 1

Chunk == 1 .. Chunks
ColdSlot == Chunks
ChunkSlot == 1 .. Chunks - 1

\* Chunk c holds the sources First(c) .. End(c)-1.
First(c) == Cut(NumSources, c - 1, Chunks)

\* A mistake End could hold: rounding up, into the next chunk.
EndRoundedUp(c) == (NumSources * c + Chunks - 1) \div Chunks

End(c) == Cut(NumSources, c, Chunks)

VARIABLES
  stage,      \* where c_emit_native_sources_chunked is
  at,         \* the chunk, or the source, its current loop is at
  busy,       \* a thread is inside c_native_chunk_run for the chunk
  cursor,     \* source_record of the range loop over the chunk
  out,        \* the chunk's private output buffer
  full,       \* ~chunk.output.ok
  errors,     \* chunk.timings.validation_acceptance_errors # 0
  grown,      \* chunk.base.types.capacity no longer the frozen count
  range,      \* what c_emit_source_range_validating returns
  result,     \* chunk.result, -1 until the chunk has been run
  cold,       \* the cache task
  live        \* the chunks' arenas and buffers are allocated

chunkVars == <<busy, cursor, out, full, errors, grown, range, result>>
vars == <<poolVars, serialVars, stage, at, chunkVars, cold, live>>

\* c_native_chunk_output_capacity: a share for each source of the range that will be lowered.
\* Sources of the same length stand for all; those of a saved object are not counted. A
\* source that cannot be read makes it Ceiling in the code; it is "fatal", and the build
\* fails either way.
Capacity(first, end) ==
  LET shares == Cardinality({s \in first .. end - 1 : kind[s] \notin {"cached", "hit"}}) + Slack
  IN  IF shares > Ceiling THEN Ceiling ELSE shares

Volume(sources) ==
  Cardinality({s \in sources : kind[s] = "clean"})
    + LongUnits * Cardinality({s \in sources : kind[s] = "long"})

\* The buffer of its chunk is full before the records of the source have been written.
Overflowing ==
  {s \in Lowered : \E c \in Chunk : /\ First(c) <= s /\ s < End(c)
                                    /\ Volume(First(c) .. s) > Capacity(First(c), End(c))}

Stage == {"launch", "fallback", "cold", "decide", "append", "replay", "done"}

TypeOK ==
  /\ PoolTypeOK
  /\ kind \in [Source -> Kinds] /\ tight \subseteq Source
  /\ outcome \in {"pending", "emitted", "rejected", "failed"}
  /\ output \in Seq(Int) /\ diagnostics \in Seq(Int)
  /\ stage \in Stage
  /\ at \in Nat
  /\ busy \in [Chunk -> BOOLEAN]
  /\ cursor \in [Chunk -> Nat]
  /\ out \in [Chunk -> Seq(Int)]
  /\ full \in [Chunk -> BOOLEAN]
  /\ errors \in [Chunk -> BOOLEAN]
  /\ grown \in [Chunk -> BOOLEAN]
  /\ range \in [Chunk -> {0, 1}]
  /\ result \in [Chunk -> -1 .. 3]
  /\ cold \in {"absent", "pending", "running", "prepared", "abandoned"}
  /\ live \in BOOLEAN

Init ==
  /\ PoolInit
  /\ SerialInit
  /\ tight = Overflowing
  /\ stage = "launch"
  /\ at = 1
  /\ busy = [c \in Chunk |-> FALSE]
  /\ cursor = [c \in Chunk |-> First(c)]
  /\ out = [c \in Chunk |-> <<>>]
  /\ full = [c \in Chunk |-> FALSE]
  /\ errors = [c \in Chunk |-> FALSE]
  /\ grown = [c \in Chunk |-> FALSE]
  /\ range = [c \in Chunk |-> 0]
  /\ result = [c \in Chunk |-> -1]
  /\ cold = IF Cold THEN "pending" ELSE "absent"
  /\ live = TRUE

(***************************************************************************)
(* c_native_chunk_run, step by step, on whichever thread runs the chunk.   *)
(***************************************************************************)

BeginChunk(c) ==
  /\ busy' = [busy EXCEPT ![c] = TRUE]
  /\ cursor' = [cursor EXCEPT ![c] = First(c)]
  /\ UNCHANGED <<out, full, errors, grown, range, result>>

\* One turn of the range loop.  A full buffer accepts nothing more; only sources that are
\* lowered are tight.
EmitSource(c) ==
  LET k == kind[cursor[c]] IN
  /\ busy[c] /\ cursor[c] < End(c) /\ range[c] = 0
  /\ cursor' = [cursor EXCEPT ![c] = IF k = "fatal" THEN @ ELSE @ + 1]
  /\ full' = [full EXCEPT ![c] = @ \/ cursor[c] \in tight]
  /\ out' = [out EXCEPT ![c] =
               IF k \in LoweredKinds /\ ~full'[c] THEN Append(@, cursor[c]) ELSE @]
  /\ errors' = [errors EXCEPT ![c] = @ \/ k = "errors"]
  /\ grown' = [grown EXCEPT ![c] = @ \/ k = "growth"]
  /\ range' = [range EXCEPT ![c] = IF k = "fatal" THEN 1 ELSE @]
  /\ UNCHANGED <<poolVars, serialVars, stage, at, busy, result, cold, live>>

\* The later checks override the earlier ones.
ChunkResult(c) == IF full[c] THEN 3 ELSE IF grown[c] THEN 2 ELSE range[c]

EndChunk(c) ==
  /\ busy[c]
  /\ cursor[c] = End(c) \/ range[c] # 0
  /\ busy' = [busy EXCEPT ![c] = FALSE]
  /\ result' = [result EXCEPT ![c] = ChunkResult(c)]
  /\ UNCHANGED <<cursor, out, full, errors, grown, range>>

(***************************************************************************)
(* The launch: the pool's own steps, with the jobs they start and end.     *)
(***************************************************************************)

driverVars == <<serialVars, stage, at, cold, live>>

Launch ==
  /\ \/ ResolveApis \/ ResolveFails
     \/ CreateWork \/ CreateFails
     \/ SubmitWork \/ WaitWork \/ CloseWork
  /\ UNCHANGED <<driverVars, chunkVars>>

StartJob(c) == StartCallback(c) /\ BeginChunk(c) /\ UNCHANGED driverVars

FinishJob(c) == FinishCallback(c) /\ EndChunk(c) /\ UNCHANGED driverVars

CallerBegins == CallerStarts /\ BeginChunk(Chunks) /\ UNCHANGED driverVars

CallerEnds == CallerReturns /\ EndChunk(Chunks) /\ UNCHANGED driverVars

\* c_native_cache_cold_run: the keys are prepared, or the cache is dropped
\* and the build goes on without one.
ColdRun ==
  /\ cold # "absent"
  /\ cold' \in {"prepared", "abandoned"}

StartCold ==
  /\ Cold
  /\ StartCallback(ColdSlot)
  /\ cold' = "running"
  /\ UNCHANGED <<serialVars, stage, at, live, chunkVars>>

FinishCold ==
  /\ Cold
  /\ FinishCallback(ColdSlot)
  /\ ColdRun
  /\ UNCHANGED <<serialVars, stage, at, live, chunkVars>>

LaunchReturns ==
  /\ stage = "launch" /\ phase = "returned"
  /\ stage' = "fallback"
  /\ at' = 1
  /\ UNCHANGED <<poolVars, serialVars, chunkVars, cold, live>>

(***************************************************************************)
(* After the launch, on the launching thread alone.                        *)
(***************************************************************************)

\* The chunks are visited in order; one already run is passed over.
NextChunk ==
  IF at = Chunks
  THEN stage' = "cold" /\ at' = 1
  ELSE stage' = stage /\ at' = at + 1

FallbackSkip ==
  /\ stage = "fallback" /\ ~busy[at]
  /\ result[at] # -1
  /\ NextChunk
  /\ UNCHANGED <<poolVars, serialVars, chunkVars, cold, live>>

FallbackBegin ==
  /\ stage = "fallback" /\ ~busy[at]
  /\ result[at] = -1
  /\ BeginChunk(at)
  /\ UNCHANGED <<poolVars, serialVars, stage, at, cold, live>>

FallbackEnd ==
  /\ stage = "fallback"
  /\ EndChunk(at)
  /\ NextChunk
  /\ UNCHANGED <<poolVars, serialVars, cold, live>>

\* A mistake: after a failed launch the cache task is forgotten.
SerialColdForgotten ==
  /\ stage = "cold"
  /\ stage' = "decide"
  /\ UNCHANGED <<poolVars, serialVars, at, chunkVars, cold, live>>

\* if cold_pending && !cold.done { c_native_cache_cold_run(...) }
SerialCold ==
  /\ stage = "cold"
  /\ stage' = "decide"
  /\ IF cold \in {"pending", "running"} THEN ColdRun ELSE UNCHANGED cold
  /\ UNCHANGED <<poolVars, serialVars, at, chunkVars, live>>

Passed == launch \in {0, 3} /\ \A c \in Chunk : result[c] = 0

\* A mistake HasErrors could hold: the chunk of the launching thread, which
\* has no slot, is left out.
HasSlotErrors == \E c \in ChunkSlot : errors[c]

HasErrors == \E c \in Chunk : errors[c]

DecideReplay ==
  /\ stage = "decide" /\ Passed /\ HasErrors
  /\ stage' = "replay"
  /\ at' = 0
  /\ live' = FALSE            \* the arenas go before the replay starts
  /\ UNCHANGED <<poolVars, serialVars, chunkVars, cold>>

DecideMerge ==
  /\ stage = "decide" /\ Passed /\ ~HasErrors
  /\ stage' = "append"
  /\ at' = 1
  /\ UNCHANGED <<poolVars, serialVars, chunkVars, cold, live>>

DecideFail ==
  /\ stage = "decide" /\ ~Passed
  /\ stage' = "done"
  /\ outcome' = "failed"
  /\ live' = FALSE
  /\ UNCHANGED <<poolVars, kind, tight, output, diagnostics, at, chunkVars, cold>>

\* A mistake: each chunk is put in front of the ones before it.
AppendInFront ==
  /\ stage = "append"
  /\ output' = out[at] \o output
  /\ IF at = Chunks
     THEN stage' = "done" /\ outcome' = "emitted" /\ live' = FALSE /\ at' = at
     ELSE at' = at + 1 /\ UNCHANGED <<stage, outcome, live>>
  /\ UNCHANGED <<poolVars, kind, tight, diagnostics, chunkVars, cold>>

\* c_parallel_chunk_append for each chunk in turn; the combined buffer was
\* sized from the measured lengths, so it cannot overflow.
AppendChunk ==
  /\ stage = "append"
  /\ output' = output \o out[at]
  /\ IF at = Chunks
     THEN stage' = "done" /\ outcome' = "emitted" /\ live' = FALSE /\ at' = at
     ELSE at' = at + 1 /\ UNCHANGED <<stage, outcome, live>>
  /\ UNCHANGED <<poolVars, kind, tight, diagnostics, chunkVars, cold>>

\* One source of the serial replay over the whole range, with diagnostics
\* enabled; a worker has released its parse, so it is parsed again.
ReplaySource ==
  /\ stage = "replay"
  /\ diagnostics' = IF kind[at] = "errors" THEN Append(diagnostics, at)
                                           ELSE diagnostics
  /\ IF at = NumSources - 1
     THEN stage' = "done" /\ outcome' = "rejected" /\ at' = at
     ELSE at' = at + 1 /\ UNCHANGED <<stage, outcome>>
  /\ UNCHANGED <<poolVars, kind, tight, output, chunkVars, cold, live>>

Finished == stage = "done" /\ UNCHANGED vars

PoolThread(c) == StartJob(c) \/ FinishJob(c)

Launcher ==
  \/ Launch \/ CallerBegins \/ CallerEnds \/ LaunchReturns
  \/ FallbackSkip \/ FallbackBegin \/ FallbackEnd \/ SerialCold
  \/ DecideReplay \/ DecideMerge \/ DecideFail \/ AppendChunk \/ ReplaySource

Next ==
  \/ Launcher
  \/ \E c \in Chunk : EmitSource(c)
  \/ \E c \in ChunkSlot : PoolThread(c)
  \/ StartCold \/ FinishCold
  \/ Finished

Spec == Init /\ [][Next]_vars

(***************************************************************************)
(* The launching thread keeps running, and Windows eventually starts and   *)
(* keeps running every submitted callback: WaitForThreadpoolWorkCallbacks  *)
(* relies on nothing else.  Every chunk job is a bounded loop.             *)
(***************************************************************************)
Fairness ==
  /\ WF_vars(Launcher)
  /\ \A c \in Chunk : WF_vars(EmitSource(c))
  /\ \A c \in ChunkSlot : WF_vars(PoolThread(c))
  /\ WF_vars(StartCold \/ FinishCold)

FairSpec == Spec /\ Fairness

-------------------------------------------------------------------------------
(***************************************************************************)
(* Two threads never work on the same source at once: every parse entry,   *)
(* timing slot and diagnostic of a source has one writer.  A busy chunk is *)
(* at a source of its own range, and the serial fallback does not re-enter *)
(* a chunk whose callback can still run.                                   *)
(***************************************************************************)
At(c) == IF busy[c] /\ cursor[c] < End(c) THEN {cursor[c]} ELSE {}

OneWriterPerSource ==
  /\ \A c, d \in Chunk : c # d => At(c) \cap At(d) = {}
  /\ stage = "fallback" /\ at \in Slot => ~InFlight(at)

(***************************************************************************)
(* The borrowed arenas outlive every use: once c_native_chunk_state_destroy*)
(* has run no chunk is busy, no callback is in flight, and the cache task, *)
(* which borrows the same tables, has come to its end.                     *)
(***************************************************************************)
NoUseAfterDestroy ==
  ~live => /\ \A c \in Chunk : ~busy[c]
           /\ \A w \in Slot : ~InFlight(w)
           /\ cold \notin {"pending", "running"}

(***************************************************************************)
(* A successful merge is complete and in source order; the index of fresh  *)
(* records the object cache builds from it rejects any other order.        *)
(***************************************************************************)
MergedInSourceOrder == outcome = "emitted" => Lists(output, Lowered)

(***************************************************************************)
(* A chunk that has been run is never run again: its private buffer would  *)
(* hold each record twice.                                                 *)
(***************************************************************************)
RunOnce == [][\A c \in Chunk : result[c] # -1 => ~busy'[c]]_vars

(***************************************************************************)
(* The call always returns, whatever fails.                                *)
(***************************************************************************)
Terminates == <>(stage = "done")

(***************************************************************************)
(* Chunked emission implements serial emission.  The partial output of the *)
(* appending loop and the diagnostics of an unfinished replay are not      *)
(* visible to the caller, which looks only after the call.                 *)
(***************************************************************************)
Serial == INSTANCE SerialEmission WITH
            output <- IF outcome = "emitted" THEN output ELSE <<>>,
            diagnostics <- IF outcome = "rejected" THEN diagnostics ELSE <<>>

ImplementsSerial == Serial!SerialSpec
(***************************************************************************)
(* No execution goes on for ever, with any scheduling: each step uses up   *)
(* something of what is left to do, and nothing is ever put back.  What is *)
(* left are turns of the pool's loops and its callbacks, chunks to begin,  *)
(* sources to emit and turns of the driver's loops: a finite set at the    *)
(* start.  A failed launch, a chunk run serially after it and a replay of  *)
(* the whole range do not begin anything a second time.                    *)
(***************************************************************************)
Place == [launch |-> 0, fallback |-> 1, cold |-> 2, decide |-> 3,
          append |-> 4, replay |-> 4, done |-> 5]

DriverLeft ==
  {t \in (0 .. 4) \X (0 .. NumSources + Chunks) :
     t[1] > Place[stage] \/ (t[1] = Place[stage] /\ t[2] >= at)}

ChunksLeft == {c \in Chunk : result[c] = -1 /\ ~busy[c]}

SourcesLeft ==
  {t \in Chunk \X Source : /\ range[t[1]] = 0
                           /\ cursor[t[1]] <= t[2] /\ t[2] < End(t[1])}

Left == <<TurnsLeft, StartsLeft, EndsLeft, DriverLeft, ChunksLeft, SourcesLeft>>

EveryStepCounts ==
  [][(\A k \in DOMAIN Left : Left'[k] \subseteq Left[k]) /\ Left' # Left]_vars
===============================================================================
