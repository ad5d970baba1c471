# OpenC: a verification project

TLA+ models of the parts of the OpenC 1.0 toolchain (`src/OpenC-1.0`) whose
correctness depends on what runs next to what, what fails half-way, and what is
stale when it is used, and of the algorithms of its two compilers that decide what is
accepted and what it means; TLC configurations that check them; and proofs, checked by
TLAPS, that hold for every number of chunks, sources, processes, versions and limits.

All paths below are under `src/OpenC-1.0/`. "source/" is
`compiler/selfhost/source/`, the compiler written in its own language (`.p`), and
"openc/" is `compiler/bootstrap/python/openc/`, the bootstrap compiler in Python.

## 1. The system

OpenC is a language with a compiler that compiles itself. The selfhost compiler is
one program: lexer, parser, resolution, type and ownership checks, an x64 encoder,
a PE32+ writer, a language server and command-line tools. The bootstrap compiler in
Python checks the same language and emits C; it compiled the first selfhost compiler
and stays the reference of the language's rules. A D compiler is kept as evidence. A
VS Code extension drives the language server. Python scripts bootstrap, verify,
measure, package and publish all of it.

| component | state it keeps | operations | interacts with |
|---|---|---|---|
| fork-join launcher, emitted by `native_compiler_pool_work` (`source/backend_native_scalar_intrinsic.p`) | a handle word per slot, a result word | resolve the entry points, create, submit, run one job itself, wait, close | Windows thread pool (callbacks); every parallel job of the compiler |
| chunked emission (`source/backend_c_parallel*.p`) | per chunk: private output, error counters, result; shared frozen tables | cut, launch, serial fallback, decide, ordered merge, diagnostic replay | launcher; object cache (cold task); driver |
| object cache (`source/backend_native_object_cache.p`, `source/backend_module_cache.p`, `source/backend_native_frontend_cache.p`) | files `<prefix>.bundle`, `<prefix>.frontend`; per build: keys, hits, snapshot | open, probe, prepare, evict, merge, publish, retry | other compiler processes through the files; flow, acceptance and lowering (skipped for hits); linker |
| object sets (`source/backend_module_cache.p`) | one object per module or partition, an executable, a manifest; cache files by hash, by key, by project | try the project, compile, invalidate, write, link, finish, record | file system; builds that share the cache |
| SHA-256 resolver (`source/backend_native_cache.p`) | one word of the image, references to a library | read, look up, compare-and-exchange, release | all threads that hash |
| build driver (`source/backend_emit.p`) | phases of a build | order, early exits, retry without the cache | all of the above |
| flow validation in parallel (`source/flow_parallel.p`) | per chunk: errors, result; a process-wide memory budget | launch, bounded merge of errors | launcher |
| parallel parse (`source/resolution_part2.p`) | per source: parse results | launch | launcher |
| process supervision (`source/backend_native_runtime_process_*.p`) | child, Job, pipe, captured output, limits | start, poll, read, kill on a limit, report | child processes |
| language server (`source/cli_lsp*.p`) | initialized, shutdown, root, eight documents, eight cancelled ids | one handler per message | editor client over two pipes |
| editor client (`editors/vscode/extension.js`) | mirror of the documents, pending requests, ready, restart count, timer | start, restart, edits, requests, cancellation, stop | server process; VS Code events |
| bootstrap compiler (`openc/`) | flow states of bindings, scopes of cleanups, blocks, constants | parse, check bodies, emit C, lower to IR, verify, evaluate constants | none while it runs |
| measured commands (`compiler/selfhost/windows_process_measure.py`) | a Job, a process, samples | start suspended, assign, resume, poll, account, close | benchmarks and verifiers |
| conformance cache (`scripts/windows_native_workflow.py`) | report, cache entry, measurement | fingerprint, hit, validate, remember, copy | daily and full workflow |
| scripts (`scripts/`, `compiler/selfhost/*.py`, `release/*.py`) | files of evidence, a result file, an exit code | run, record, judge, write, end | each other, through files |
| release publication (`src/.github/scripts/sh27_release.py` and its workflow) | candidate, intent, tag, draft, assets | build, approve, tag, create, upload, verify, open, confirm | GitHub; pushes to master |
| selfhost lexer, parser, resolution, types, ownership; x64, PE32+, COFF writers | tables, byte buffers | sequential | |
| runtime of compiled programs, D compiler, audits, bindings | | sequential | |

`PROJECT.json` lists each with its status, and the hazards of the code, at their
lines, with the properties that cover them.

### What is hard in it

* **Interleaving.** Chunk jobs on pool threads share parse caches and timing
  slots; one more task computes cache keys from the same frozen tables; one thread
  publishes the cache while another links; a program and its helpers go on while
  their supervisor looks at one thing at a time.
* **Partial failure.** Entry points that do not resolve, a work object that is not
  created, a buffer that is full, a table that would have to grow: each has its own
  path, and most end in doing part of the work again. Scripts and publications die
  half-way and are run again over what is left.
* **Staleness.** The cache lets a build *skip its checks* for a group of sources;
  it may then drop what it read and read the file again, which another process may
  have replaced. A whole project that was linked before is not checked at all.
* **Sessions.** The editor goes on while the server is down, and late messages of a
  dead server are still in the pipe.
* **Paths.** Owners are moved on some paths of a body and not on others; a cleanup
  belongs on every exit of its scope and on no other.

What makes each component correct:

* launcher: closes a work object only after its callback is over, leaves none open,
  and reports success only if every job has run;
* chunked emission: the same result as the serial loop, in the same order, with
  every diagnostic once, whatever fails; always returns;
* object cache: a build with a cache, among others, builds what it would build from
  nothing, and rejects what it would reject;
* object sets: a manifest that says COMPLETE lists the objects of one accepted build;
* session: the server's documents are the editor's once everything is read;
  requests settle; nothing is left running;
* bootstrap compiler: a body that is accepted uses no owner twice and loses none; its
  C and its IR do what the source does; a source is read as it was written; constants
  are what their initialisers mean;
* supervisors: nothing outlives the call, what was exceeded is reported, the call
  comes back;
* scripts: success is earned by this invocation, and the result file agrees with the
  exit code;
* publication: only what was approved becomes public, what is public stays as it is, and
  a rerun can finish what a run began.

## 2. Modules

The compiler's parallel core and its caches:

| module | models | main definitions |
|---|---|---|
| `WorkerPool` | one call of the launcher, one action per loop turn of the emitted code, and the pool's threads | `CreateWork`, `CreateFails`, `SubmitWork`, `WaitWork`, `CloseWork`; external: `StartCallback`, `FinishCallback` |
| `SerialEmission` | the serial range loop: the abstract specification of emission | `SerialEmit`, `SerialReject`, `SerialFail` |
| `Partitioning` | the cuts `count * p / partitions` and their inverse; sets of numbers written out in order | `Cut`, `SourcePartitionIndex`, `Lists` |
| `NativeChunks` | chunked emission on the launcher; extends the three above | `Capacity`, `EmitSource`, `EndChunk`, `Fallback*`, `SerialCold`, `Decide*`, `AppendChunk`, `ReplaySource` |
| `SerialFlow` | the serial flow validation: the abstract specification of what is accepted and reported | `FlowAccepts`, `FlowRejects`, `FlowFails` |
| `FlowChunks` | parallel flow validation on the launcher, with the allocator's counter of live bytes; extends `WorkerPool`, `SerialFlow`, `Partitioning` | `BeginSource`, `SampleLive`, `EndChunk`, `Fallback*`, `AppendChunk`, `AppendRefused`, `Destroy` |
| `FreshIndex` | the index of fresh records that the merge of the cache uses | `IndexRecord`, `RejectRecord`, `FillUpTo` |
| `CleanBuild` | a build from nothing: the abstract specification of a build | `Accepts`, `Compile`, `CleanWrite`, `CleanReject` |
| `ObjectCache` | builds that share the cache files; extends `CleanBuild` | `Key`, `Prepare`, `Merge`, `Retry`, `Publish`, `Link`, `LoseFiles`, `DamageObject` |
| `ObjectSet` | builds of a set of object files, one after the other, with a cache that others share | `TryProject`, `CompileSet`, `Invalidate`, `WriteObject`, `LinkSet`, `Finish`, `SaveProject`, `Fails` |
| `HashResolver` | threads that look for the hash function at once | `ReadResolver`, `PrepareLibrary`, `PublishResolver`, `CloseLibrary` |

The bootstrap compiler. Its functions are operators with the names they have in
Python, and what it makes is run by an interpreter that knows nothing of its checks:

| module | models | main definitions |
|---|---|---|
| `OwnershipChecker` | what is known of each binding and how two paths join (`openc/flow.py`); the checks of expressions, calls, proofs, statements, loops, returns and scopes (`openc/semantic.py`, `openc/ownership.py`) | `Merge`, `MergeOwner`, `CheckStatement`, `CheckWhile`, `ResolveCall` |
| `OwnershipSemantics` | what a body does when it runs: the reference | executions: who holds what, what is alive, what went wrong, which calls were made in which order |
| `Translation` | the C backend's copies of cleanups (`openc/backend_c.py`), the IR and its verifier (`openc/lower.py`, `openc/ir.py`) | `EmitCleanupsDownTo`, `EmitCleanups` |
| `BootstrapBodies` | bodies that grow statement by statement, in families, and are compiled | `Family`, `Compile` |
| `Parser`, `ParsedSources` | `openc/parser.py`; source text as the grammar writes it, the reference, and trees that grow and are written and parsed | `Expression`, `Primary`, `LooksLikeLocalDecl`, `Written` |
| `ConstantEvaluation` | `openc/typesys.py` and `openc/consteval.py` | `Evaluate`, `Truncated`, `FloatQuotient`, `Initialised` |
| `ConstantResolution` | the passes of `resolve_constants`; the evaluator is a constant operator, which `MCBootstrap` gives the one above | `ResolveNext`, `NextPass` |

Processes and scripts around the compilers:

| module | models | main definitions |
|---|---|---|
| `LanguageServer` | the server's dispatch: one action per kind of message and state | `Handle...`, `Accepted`, `Applied` |
| `EditorSession` | the client on top of it, crashes, the pipes; extends `LanguageServer` | `Start`, `ChangeBy`, `Request`, `Stop`, `Deliver...`, `Exited` |
| `ProcessSupervise` | `process.run` as the compiler emits it, around a program and a helper | `Poll`, `Measure`, `Clock`, `Peek`, `Wait`, `Read`, `ClosePipe`, `Await`, `ReadCounters` |
| `MeasuredProcess` | `run_measured`, around a command and a descendant | `AssignToJob`, `Poll`, `Account` |
| `ConformanceCache` | the cache of the daily workflow, invocations that are killed, edits at any moment | `StartDaily`, `IsHit`, `Validate`, `Remember`, `CopyReport`, `Crash` |
| `ReleaseScripts`, `VerifierScripts`, `EvidenceRun` | every script as a sequence of commands, checks and files; one invocation over the files of earlier ones | `Runs`, `Records`, `Consults`, `WriteResult`, `Conclude` |
| `ReleasePublication` | the workflow that publishes 1.0.1: commits, intents, runs that die | `Approve`, `TakeTag`, `FindRelease`, `CreateDraft`, `Upload`, `Verify`, `MakePublic` |

`MCNativeChunks`, `MCObjectCache`, `MCEditorSession`, `MCBootstrap` and `MCToolchain` are
the instances for TLC; `FlowChunks` needs none. `MCBootstrap` and `MCToolchain` put
components side by side: the initial state chooses one, which then steps alone while
the others stay at rest, so that each is explored as if it were by itself. The modules
`...Proof` hold the theorems.

State and code correspond by name wherever the names allow it; `PROJECT.json` maps
every definition to its lines.

### How the code is abstracted

*Emission.* What a source comes to (`clean`, `errors`, `growth` of the frozen type
table, `long` records, `fatal`) is fixed in the initial state; the chunk's flags are
what the code measures. Whether a private buffer overflows is not a matter of the source
alone: `Capacity` is what `c_native_chunk_output_capacity` computes for the range of the
chunk, a share for each source that will be lowered, and never more than `Ceiling`; a long source takes
`LongUnits` shares. A source overflows (`Overflowing`) when its records and those in front
of it in the same chunk are more than that, so that the same source may fit with other cuts.
The serial specification learns which ones do (`tight`), as the code's callers do not. `result` keeps the override order of
`c_native_chunk_run`: a full buffer over a grown table over the range's own result.

*Cache.* A group of sources is a record of what the back end can tell apart: its
declarations, its bodies, the symbols they declare (which shift function numbers),
whether it has a pointer symbol (which turns on the costly part of the flow checks for
the whole project), and what its bodies expect of the others. Keys are the records
that are hashed, so SHA-256 is taken to be injective. One manifest and one compiler
are used by all builders, so compiler identity and the number of groups are left out
of the key. The checks of the whole project (module cycles, duplicate functions)
run in every build and are not cached, so they are not in `Accepts`. Reusing saved
frontend contributions is taken to reproduce fresh tables. A publication is one
step, because the code prepares a temporary file and renames it; size limits and
allocation failures are nondeterministic choices of the paths they lead to. `DamageObject`
breaks one slot at a time.

*Session.* A text is a sequence of pieces, and lengths are counted in pieces; what a
query computes is left out, and the diagnostics of a text are the text. Byte framing
and the conversion of UTF-16 positions are left out. The continuation of an `await`
that the delivered message resolves runs in the same step, as it does in the one
JavaScript thread. Listeners are gone once the extension is disposed, so the user's
events end with `Stop`. VS Code restarts its extensions when the first workspace
folder changes or a second one is added; only other folder changes are events. The
process is assumed to start. Messages a dead server had written are delivered before
those of the next one.

*Object sets.* A version of the sources is what its units compile to; keys are taken
to determine objects, which is what `ObjectCache` is about. A cached object is hashed
when it is read, so damage is a loss. The build reads all sources once, at its start,
and keeps what it has read.

*Bootstrap compiler.* Expressions keep what the rules look at: names, calls, members,
proofs, conditions; a condition that the rules do not look into is opaque and takes
either value at each evaluation. What a body does is observed as what becomes of its
resources and which calls it makes, in order, those that create one included. The C is a
tree in the form of the source without scope statements, the IR a list of blocks. Tokens
are their texts, spans are left out. Integers are Python's, so they do not overflow; a
quotient goes through a float as in the code. So that TLC's integers hold them, the widths are scaled:
8, 16, 32 and 64 bits and the 53 bits of a float's significand are 4, 8, 10, 14 and 12,
in the same order (`Scaled`), so that a 64-bit dividend is more than a float holds, a
shift by exactly each width occurs, and no width is cut. Floats as values, texts and aggregates are left
out of the constants.

*Scripts.* A script is a sequence of steps: a command that makes files, a check, a
file that is looked at, a result, an exit. A command may fail with or without its
files; files of an earlier invocation may be there. Values that are compared, and
measurements, are either good or not.

*Supervision.* Output is counted in pieces, memory in units, time passes or does not.
Every Windows call may fail; whether that ends the program ("fatal"), or becomes a
result, is the code's. At GitHub, an upload may be damaged and a run may die between
any two calls.

## 3. Runs

Each takes at most two minutes with two workers.

| run | question | bounds, and why they are enough |
|---|---|---|
| `chunks` | Does chunked emission implement the serial loop, does it return, and is nothing left behind, with several pool threads? | 4 chunks (the code's maximum) of 5 sources, so cuts are uneven, and a cold task; sources of all seven kinds, of which at most two are not clean (`MaxUnclean`), so that two chunks can fail, or one twice. A buffer holds at most 2 shares, a long source takes 2, so that one overflows in one cut and fits in another. Every outcome and every failure point occurs. |
| `flow_chunks` | Does parallel flow validation accept, reject and report what the serial loop would, and for what reasons does it fail? | 2 chunks of 5 sources in 3 partitions, one of which straddles the chunks; each source cached or not, without errors or with one, light or heavy; three amounts of memory at the start, so that the guard ends the process while buffers are allocated or while two sources are analysed, the budget is passed alone or only together, and the errors of both chunks are more than the buffer holds. |
| `object_cache` | Does a build that shares a cache implement a build from nothing? | 2 processes, 2 groups, 5 versions, chosen so that each part of the key matters: an edit of a body, one that shifts numbers, one of a declaration that the other group uses, one that turns the gated checks on. Two processes suffice to replace a bundle between early authentication and merge. |
| `session` | Do server and editor agree, whatever is edited and whenever the server dies? | 2 documents with room for 1, texts of up to 2 of 2 pieces, 3 versions, 4 user events, 2 crashes, 1 restart without success in between. |
| `session_live` | Do requests settle, and does the server end? | 1 document, 3 user events, 1 crash; the table of requests has 2 places (128 in the code), so it fills up. |
| `bootstrap` | Are the sequential parts right on every bounded input? | A behaviour chooses one part. *index*: 5 sources, 4 partitions, up to 4 records, so that there are empty partitions at both ends and between, repeated and missing sources. *bodies*: 6 families, 3 statements and 2 blocks around them, executions of up to 2 rounds of loops: enough to move on one branch, reserve a cleanup, and leave or repeat a loop afterwards. *trees*: expressions of 2 operators, at each place of a source: every pair of neighbouring operators; heads without parentheses, as the grammar writes them. *constants*: 3 constants, the first of up to two operators, the others used before or after their declaration; operands at both ends of their width, shifts by the width itself, quotients with more bits than the significand. *sets*: 2 units, 3 versions, one rejected, one with an empty unit. *scripts*: every script, every step failing. |
| `toolchain` | Are the processes around the compiler right, whatever happens meanwhile? | A behaviour chooses one part. *server*: 2 documents with room for 1, 1 root, 2 ids, 2 cancellation slots (8 in the code): the limits are reached and the cursor wraps. *measure*: 2 units of memory, with and without limits. *supervise*: a buffer of up to 3 pieces, a pipe of 2, so that a read takes part of the pipe and the buffer overflows; memory beyond the limit. *hashing*: 3 threads. *cache*: 2 versions of the inputs, edited at any moment, during an invocation too, so that an edit can be undone before the validation or after it. *publication*: 2 contents, 3 assets, 3 commits, 2 failures: a run dies, the next is damaged, the third finishes. |
| `bootstrap_jumps`, `evidence_records`, `cache_edits`, `session_folders`, `session_oversize` | Five statements of the documentation. | Expected to be violated; see section 6. The bounds are those of `bootstrap`, `toolchain` and `session`. |

Deadlock is checked in all runs but those of the session, where a disposed session
stops, and those of `bootstrap` and `toolchain`, whose parts end. Pieces and builders
are symmetric in the runs that check no liveness.

Properties:

* `LaunchIsTruthful`, `ReturnIsClean`: the launcher.
* `OneWriterPerSource`: no two threads are at one source, and the fallback does not
  re-enter a chunk whose callback can still run. `NoUseAfterDestroy`: the arenas
  outlive chunks, callbacks and the cache task.
* `ImplementsSerial`: refinement of `SerialEmission`.
* `ImplementsSerialFlow`: refinement of `SerialFlow`. `NothingLeaks`: the counter of live bytes is back where it was.
  `FailureHasCause`: more errors than room, or a budget passed by what the *other*
  chunks hold at most; after a failed launch nothing else is held, so the verdict does
  not depend on the sources' sizes.
* `IndexIsExact`: the extents of an indexed stream are right, and a stream is refused
  for a disorder that is there only.
* `BundleIsGenuine`: an intact slot is what some acceptable version compiles to under
  its key. `ImplementsCleanBuild`: refinement of `CleanBuild`.
* `CompleteIsOneBuild`: a COMPLETE manifest, the objects it lists and the executable are
  of one accepted version of the sources, at every moment. `LibraryStays`: the library
  is never unloaded under a thread that will call into it, and one reference is left.
* `AcceptedIsSafe`: a body the bootstrap compiler accepts ends every owner once on every
  path. `EmittedMeansTheSame`: its C does to resources what the source does, and it makes
  the same calls in the same order exactly when no return calls something while actions are
  registered (`CallsLate`). `LoweredMeansTheSame`: its IR passes the verifier, and it does what
  the source does exactly when no jump leaves a scope and one around it that has actions
  (`JumpsPastActions`). `SourcesAreReadBack`: the parser reads a source of the grammar as it
  was written exactly when it holds none of three forms (`IsMisread`): a head that ends in a
  name, the last part of the head of a `for` beginning with a brace, and a statement that
  begins with a name and a bracket or with `status`. `ConstantsAreExact`: values are what
  mathematics says, within the type; the quotient of a dividend with more bits than the
  significand of a float, and it alone, may be off by the last place of a float, and the
  remainder with it. In these four the inputs leave out nothing on which the code departs
  from the standard: each property names the departure and says that there is no other
  (section 6).
  `ResolvedTogether`: whichever pass found them, they are what the initialisers come to
  under all of the values together; none is missing, and a refusal names a fault that is
  still one at the end. The first four are about the step that compiles or parses,
  so they are checked once for each body and each source. The family `jump`, in which a
  body moves an owner and then jumps, is explored by `bootstrap_jumps` only (section 6):
  such bodies are accepted wrongly, so there is nothing their translations could agree with.
* `SuccessIsEarned`: a script that exits with 0 has looked at what this invocation made: every script of the catalogue but the two of `OverOldRecords`
  (`evidence_records`). `ResultIsTheVerdict`: all 37.
* `NothingOutlivesTheCall`, `LimitsAreReported`, `CallComesBack`: `run_measured`.
  `OutcomeIsTrue`, `SupervisionEnds`: `process.run`. `HitIsEarned`: a hit of the conformance
  cache stands for a validation that passed, and it was one of the fingerprint's inputs unless they
  changed between the two in the invocation that made the entry (`doubtful`); that they
  may is what `cache_edits` shows.
  `PublishedIsApproved`, `RetryFinishes`: the publication. `PublicationStays`: no step of any
  run moves a tag that is there, or changes the commit or an asset of a public release.
  `RefusalHasCause`: no run gives up because of what runs that died have left.
* `ExactlyOneAnswer`: the server.
* `Converged`, `DiagnosticsAreCurrent`, `ReadyIsInitialized`: the session.
  `ReadyIsInitialized` is the one that needs request ids to go on across restarts: an
  answer of the old server must not settle the handshake of the new one.
  `NobodyWaitsInVain` is the safety of `EverySettles`: who waits has the request or its
  answer on its way, or has yet to be told of the server's end.
* `Terminates`, `EverySettles`, `StopEndsServer`, and of the above `CallComesBack`,
  `SupervisionEnds` and `RetryFinishes`: liveness.

Every property of a passing run has a mutant in `PROJECT.json`: a definition, changed
the way a plausible mistake would change it, that makes TLC report a violation.

### Fairness

`NativeChunks!FairSpec`: the launching thread runs on; Windows eventually starts and
runs every submitted callback (`WaitForThreadpoolWorkCallbacks` relies on nothing
else); a chunk job is a bounded loop. No fairness on which path is taken at a failure
point, so `Terminates` covers all of them. `FlowChunks!FairSpec` assumes the same of the
launching thread, the pool and the chunk jobs.

`EditorSession!FairSpec`: the server takes up what it is sent (a handler is a bounded
computation on the one thread of the process), and the event loop of the extension
host delivers what arrives, the exit event and the timer. Nothing is assumed of the
user, of crashes, or that a session stops. `EverySettles` is checked for answers that
fit their buffer (`PayloadsFit`): one that does not is not sent
(`source/cli_lsp_protocol.p:186`), and its request stays open until the server exits.

`MCToolchain!ToolchainSpec`: the supervisor of a measured command goes on and the clock
runs (it is a loop with a sleep; nothing is assumed of the command); the caller of
`process.run` goes on and its time passes (nothing is assumed of the program and its
helper); a run of the workflow goes on, and the owner approves a candidate and starts
the workflow again when a run has died. Failures are bounded, because a service that
always fails lets nobody finish. None is assumed for the server, the threads, the
conformance cache.

## 4. Proofs

Proved with TLAPS, for every value of the constants that the named assumptions allow
(`WorkersAssumption`, `ChunksAssumption`, `PoolSize`, `PartitionsAssumption`,
`FlowAssumption`, `ProjectsAssumption`, `NoneAssumption`, `VersionsAssumption`,
`SuperviseAssumption`, `MemoryAssumption`, `LimitsAssumption`, `SessionAssumption`; TLC
evaluates each in a run). In each case the property is not inductive by itself; TLC
checked the strengthened invariant before it was proved.

* `PartitioningProof`: `IndexInverseOfCuts`. For any count and number of partitions,
  `source_partition_index` names the one partition whose cuts enclose the source: a
  fact about floor division the code depends on and states nowhere.
* `WorkerPoolProof`: the launcher's inductive invariant (a callback is in flight only
  between its submit and its wait; handles are open up to the slot the current loop has
  reached), kept by its actions whatever the module that extends it does; and that a turn of
  its loops, a start and an end of a callback each use up one of finitely many.
* `NativeChunksProof`: facts about lists in source order; `Invariant` proves `IInv`.
  `Progress` says that a chunk's flags and private output are exactly what
  the sources its loop has passed call for; `RunState` and `LaunchInv` tie chunks to
  callbacks; `FallbackInv`, `SettledInv`, `ColdInv`, `LiveInv` and `DriverInv` carry
  this through the later stages. From it: `TypeCorrect`, `ReturnsClean`, `PoolSafe`,
  `OneWriter`, `DestroyIsLast`, `MergeIsOrdered`, `NothingRunsTwice`, and `Refinement`,
  that chunked emission implements serial emission. And the part of termination a proof
  can reach: `EachStepCounts` (a step shrinks `Left`), `LeftIsFinite`, and `SomebodyCanGo` (until
  the call has returned, the guard of some step holds). What is left to liveness is only
  that a step whose guard holds is taken. `Reproducible` draws a consequence of the
  refinement that users see: with the same number of chunks, outcome, records and diagnostics
  are functions of the sources, because a set of sources can be listed in order in one way only
  (`PartitioningProof`: `ListedAtItsRank`, `ListedOneWay`). The outcome is a function of the
  number of chunks too, because it decides the cuts and so which buffers overflow
  (`Overflowing`); another number can make a build fail or succeed, but not come to other
  records or diagnostics. That no chunk can run into a full buffer but for these sources, and
  that it meets the first of them, is `Progress` with `OverflowingStays` and `TightInv`.
* `FlowChunksProof`: the same argument for the second client of the launcher, with two
  additions. `LiveInv` says that the counter of live bytes is the base, the buffers and
  what each chunk holds. A sum over a function is a recursion the provers cannot use;
  the invariant states it by its running totals (`IsTotal`: a sequence that starts at
  0 and goes up by one chunk's share at each step), and `TotalAdds` and `TotalReleases` say
  what one chunk's share does to them. `MergeInv` says what the bounded merge
  has copied. From it: `TypeCorrect` (the counter stays between 0 and the hard limit),
  `GivesBack`, `CountsHits`, and `Refines`, that parallel validation implements the
  serial one: what is accepted, and which errors are reported in which order. A second
  invariant on top of it, `CauseInv`, gives `FailsForCause`: whoever has given up had a
  reason (`Tight`: what the other chunks can hold passes the budget; nothing, once the
  launch has failed), because a launch that failed has run no chunk, so that nobody
  who gave up in company comes to have been alone. `EachStepCounts`, `LeftIsFinite` and
  `SomebodyCanGo` say for this client what they say for the first. `ListsFit`, that a list in order
  is no longer than the set it lists, turns a refused append into too many errors.
  `ReportsAlike`: two validations of the same sources that are not stopped report the same.
* `ObjectCacheProof`: `CacheInvariant` proves `CacheInv`, types, `Genuine(bundle)`
  and `BuildInv(b)` for every build. The heart is the lemma `KeyDetermines`: two
  versions with the same key of a group have the same code and the same verdict for
  it. So what a hit skips would have been accepted, and what it links is what would
  have been compiled; `Genuine` is kept by publications because only accepted builds
  get there. From it: `TypeCorrect`, `SavedIsGenuine`, `HitsStayBound`,
  `NoThirdAttempt`, and `SharingIsInvisible`, the refinement of `CleanBuild`.
* `SavedObjectsProof`, about what the compiler keeps of its objects, and about constants.
  *Index*: `ExtentsAreRight`, `RejectionIsExact` and both as `IndexIsRight`, from an invariant that says which
  records the extents already cover.
  *Object sets*: `ManifestIsOneBuild`, from `SetInv`: a record of a project names the
  objects of the accepted version it is under (`RecordInv`), so a build that takes the
  short way writes what it would have compiled (`VersionInv`); the units a build has
  passed are those of its version, on disk, in the link bundle and in the record it will
  save (`PassedInv`); and while it writes there is no COMPLETE manifest (`ManifestInv`).
  *Resolver*: `LibraryIsKept`, for any number of threads, from `ResolverInv`: the
  reference count is the number of threads that hold a reference and have not given it
  back (`CountInv`), where each thread is follows from what it holds (`PlaceInv`), and
  once a pointer is published one thread that holds a reference will keep it (`KeeperInv`).
  *Constants*: `ConstantsAgree` and `ConstantsHaveOneMeaning`, for any number of constants, from
  `ResolutionInv`: a constant without a value is still to be looked at (`NoneForgotten`),
  a value is what its initialiser comes to now and not only when it was found
  (`StillTheirs`), and in a pass that has resolved nothing, those put off would be put off
  again (`PutOffAgain`). The second theorem says that the values are the only ones that
  agree with every initialiser, so the order of the declarations does not matter. The
  evaluator is a parameter: the hypotheses are that each name has one declaration and each
  one used is declared (`Projects`), and that what does not end at an unknown name comes to
  the same whatever else is known (`SteadyEvaluator`). TLC evaluates the first for every project of
  `bootstrap`, the second for its evaluator, its declarations and samples of what may be
  known. Two modules that declare a constant of the same name are outside (section 6).
* `ToolchainProof`, about the processes around the compiler.
  *`process.run`*: `ReportIsTrue`, from `SuperviseInv`: types; `JobInv`, that whatever
  runs is in the Job and nothing does once the call is over; `PipeInv`, that when the
  pipe is closed the program has no hold of it and nothing of its own is left in it, and
  that what was lost is on record as an overflow; `MemoryInv`, that from the program's
  end on its high-water mark stands, and that one above the limit is on record.
  `NobodyHoldsTheCaller`, from `HeldInv`: a pipe that was seen to hold output holds it until
  it is read, and the pipe is given up only when the program is over or nobody can write.
  *Measured commands*: `NothingIsLeft` and `BreachesAreTold`, from `MeasureInv`: who can
  be alive at which step (`AliveInv`, `StepInv`), and that the counters that are read at the
  end are those of the whole call (`PeakInv`). `TimeoutEnds` and `SupervisorCanGo`, from
  `LoopInv`, that the loop is left only with a command that has ended: all of `CallComesBack`
  but the use of fairness.
  *Conformance cache*: `HitsAreEarned`, from `CacheInv`, with edits at any moment: the report
  an entry holds is that of a validation that passed, and of the inputs of its fingerprint
  unless they changed in between in the invocation that made it (`EntryInv`); and so is what an invocation is about
  to write, at each step at which it can be killed (`StageInv`). The case that is excepted
  is the one of `cache_edits`.
  *Publication*: `PublicationTypeCorrect`, `OnlyApprovedIsPublic`, `WhatIsThereStays` and
  `RefusalsHaveCause`, from
  `PublicationInv`: only an approved commit is tagged or published (`TagInv`, `RunInv`);
  once a run has the tag, it is that of its commit, and once it has verified the
  assets, they are what the intent of that commit expects, until the run ends. A run
  creates a release only where it has found none (`NoDraftYet`,
  `DraftsAreNew`), so that what is public stays. What was uploaded and is not damaged is
  what the tagged commit expects, and the list of a run's uploads is what the release lacks
  (`UploadsInv`), so that another run of the same commit has nothing to refuse. Lemmas:
  `ExpectedIsThere`, that what is expected is never an absent asset, and `PushKeeps` and
  `CandidatesKeep`, that pushes and candidates change nothing of earlier commits.
  *Scripts*: `SuccessMeansSuccess`, for any catalogue of scripts that
  are `Disciplined` (`ReleaseScripts`) but those of `OverOldRecords`: for each there is a plan that says before each
  step which files are settled, which are known to tell of no failure, which sets of files
  nobody has looked at yet and which refusals may lack their record; each step may be
  taken at what the plan says (`Allowed`) and its outcome warrants what the plan says
  next (`Learned`). `EvidenceInv` says that as long as all that is recorded is good, the plan
  tells the truth about the files (`Fits`), and that nothing is recorded once the result
  file is written (`ResultTells`). `ResultMatchesExit` needs less, `Orderly`, what the
  discipline says of the result file and the exit code, and holds for every script.
  The hypotheses are about the table of steps alone: TLC evaluates both in the run
  `toolchain`, with the plan computed by `PlanOf`: `CatalogueIsDisciplined` for the 35
  scripts that are not in `OverOldRecords`, `CatalogueIsOrderly` for all 37. The first is
  false of the two, `verify_sh9_cli` and the full workflow that runs it, and of the
  broken script `VerifyOverOldReports`; both are false of `PublishEarly`. Of the two
  nothing is claimed about success, and `evidence_records` shows what is wrong with them.
* `EditorProof`, about the session across any number of crashes, for any documents,
  texts, folders and limits, with both pipes of any length. Its invariant has three layers.
  - `CoreInv` (theorem `CoreHolds`): the shapes of the messages; an id stands for one
    request, however many servers there have been (`IdInv`); a result that will settle
    the handshake was sent by the server that runs (`HandshakeInv`); until the client is
    ready its server holds no document and is sent none (`FreshInv`); nothing is sent
    to be carried out after the shutdown (`OrderInv`); the client holds no more documents
    than the server has room for (`FitInv`). From it: `TakesTheRightServer`.
  - `ChainInv`: while the client is ready, there is a chain of stores, one per message in
    the pipe, from the server's documents to the client's; each step is what the
    server makes of that message (`Effect`: in particular the message is not refused),
    and messages about other documents leave a document alone. It is stated by
    the existence of the chain and not by a fold over the pipe, so that no induction
    is needed: an edit appends a store, the server removes the first, and the handshake
    starts a new chain from an empty store that opens each document once. From it:
    `Converges`.
  - `NewsInv`: if nothing about a document is on its way to the server, the last
    diagnostics of it that are on their way, or are shown, are of the server's
    copy of it; `BlankInv` covers the time before the first handshake. From it and
    `ChainInv`: `ShowsTheCurrent`.

  From `CoreInv` also, `NoRequestIsLost`, with `WaitInv`: a step takes a request from the
  pipe only with an answer to it, and an answer only from whom it settles; and about each step of the server: `AnswersOnce`, that a request is
  answered once and under its id whatever the state, and `ObeysShutdown`.

  `Converges` and `ShowsTheCurrent` assume `MaxEdited <= MaxText`: no text outgrows a
  message. Without it they are false, which is what `session_oversize` shows of the code.
  `ShowsTheCurrent`, `AnswersOnce` and `NoRequestIsLost` assume `PayloadsFit`: diagnostics and answers that
  do not fit their buffer are not sent. The others need neither.

Model-checked only:

* liveness (`Terminates` of both clients of the launcher, `EverySettles`,
  `StopEndsServer`, `CallComesBack`, `SupervisionEnds`, `RetryFinishes`), which is out of the
  prover's reach. What they rest on is proved. Of `Terminates` and `CallComesBack` it is
  all but the use of fairness: no step can be repeated for ever, and nobody is stuck. Of
  `EverySettles` it is that there is always something to wait for (`NobodyWaitsInVain`), of
  `SupervisionEnds` that nothing else holds the caller (`CallerIsNotHeld`), of
  `RetryFinishes` that no run is refused for what was left behind (`RefusalHasCause`);
* the rest of the bootstrap compiler (`AcceptedIsSafe`, `EmittedMeansTheSame`,
  `LoweredMeansTheSame`, `SourcesAreReadBack`, `ConstantsAreExact`), whose operators are
  recursive over trees.

Proved, and checked by no run:

* the arguments for termination, on which the liveness the runs check rests:
  `EveryStepCounts` of both clients of the launcher (a set of turns, places and starts
  is still ahead; every step takes something out of it and puts nothing back),
  `TimeoutIsFinal` of `run_measured` and `CallerIsNotHeld` of `process.run`;
* what is part of a stronger property of a run: `HitsAreBound` (what is linked for a hit
  carries the key this build computed, or `ImplementsCleanBuild` would fail),
  `ExtentsHoldOwnRecords` and `RejectsExactlyDisorder` (`IndexIsExact`);
* `SkipsAreHits`, that each cached source is counted once, and `NothingAfterShutdown`,
  that a server asked to shut down carries nothing out;
* `CoreHolds`, `MergeIsOrdered`, `NoThirdAttempt`, `NothingRunsTwice`, `Reproducible`,
  `ReportsAlike` and the type theorems, on which other theorems rest or which follow
  from them.

## 5. What is not modelled, and why

* The bootstrap compiler's lexer, project reading, imports, and declarations of types
  and overloads; arrays, slices and external calls in bodies; its language server and
  formatter. The selfhost front end repeats the same rules over packed tables, in a
  compiler of 62,000 lines; its lexer, parser, resolution and types are sequential and pinned by
  the compiler's fixed point. The rules themselves are modelled where they are
  stated most clearly, in the Python.
* The value of a return or of an argument as such: of calls the models observe which are
  made and in which order, not what they compute. The order of a call and of the cleanups is
  observed, the order of a read and of the cleanups is not.
* A `break` inside a switch inside a loop, which leaves only the switch
  (`standard/core/OpenC_Core_Current.md:987`, `:1012`): no family has it. Section 6 says
  what the C backend does with it.
* The update of the counter of live bytes is one action of `FlowChunks`. In the code it
  is a compare-and-exchange that is repeated until it succeeds
  (`source/backend_native_runtime.p:80-104`), so that `NothingLeaks` says that what is
  reserved is given back on every path, and not that no update is lost.
* The x64, PE32+ and COFF writers: bytes of a sequential function.
* The parallel parse: a third client of `WorkerPool`, without merge.
* Reuse of saved frontend contributions: taken to reproduce fresh tables.
* The contents of keys of object sets: hashes over text.
* The one-slot launcher for the frontend identity task.
* The runtime of compiled programs (checked arithmetic, bounds, UTF-8): single
  functions without state. `ConstantEvaluation` has the widths the compiler uses, scaled.
* `sh26_release.py publish`: the release it made is over; its steps are described in
  section 6.
* Static audits (`scripts/validate_structure.py` and others): they compare texts with
  tables. The parity scripts that are not in `VerifierScripts!Scripts`.
* The D compiler, the C runtime of the first parallel jobs, generated bindings, the
  WinMD reader: superseded, or tables.

`PROJECT.json` has a note for each.

## 6. Where code and documents disagree

Each with the run that is violated by it, or the property of the run `bootstrap` that
names it as its exception.

* **A removed workspace folder becomes the root** (`session_folders`,
  `RootIsAFolder`). `lsp_change_workspace_folders` takes the first `"uri"` after the
  word `"added"`. The client always sends `added` before `removed`, so an event that
  only removes a folder names that folder first, and the branch for removals is never
  reached. `tools/specs/LANGUAGE_SERVER_SPEC.md:10-11`, `editors/vscode/README.md:11`.
* **A document that outgrew the limit does not come back** (`session_oversize`,
  `FittingConverged`). The client's copy advances before an edit is sent; a dropped or
  refused edit is not repaired, and later ranges are applied to another text.
  `editors/vscode/README.md:9-10`.
* **What happens on the way to a break is forgotten** (`bootstrap_jumps`,
  `AcceptedIsSafe`). `check_statement` makes the state after a break or continue
  unreachable and keeps nothing of it; the loop joins only its entry and the end of its
  body (`openc/semantic.py:511`, `:618-624`). A body that takes an owner, breaks, and
  takes it again after the loop is accepted, and takes it twice.
  `standard/core/OpenC_Core_Current.md:2100`, `:2130`, `:1636`.
* **The value of a return is computed after the cleanups** (the exception
  of `EmittedMeansTheSame`). The C backend makes the value a text, writes the cleanups and
  then the return with that text (`openc/backend_c.py:411-414`), so that a call in it is
  made after the actions have run. `standard/core/OpenC_Core_Current.md:2032` wants the
  value prepared first; the IR does so.
* **A jump runs the cleanups of the innermost scope only** (the exception of
  `LoweredMeansTheSame`), in the IR: `emit_cleanups(1)` and a branch to the loop's end
  (`openc/lower.py:107-112`). A break in a branch of a body that has registered an action
  skips the action. `standard/core/OpenC_Core_Current.md:2376`; the C backend runs them all.
* **A name in front of a brace or a bracket is misread** (the exceptions of
  `SourcesAreReadBack`). `while c {`, `switch color {` and `case K {` are taken for aggregates
  (`openc/parser.py:580`; `demos/types/main.p:27-28` is written so), `x[0] = 1;` and
  `status{...};` for declarations (`:266`). The grammar has no such restriction
  (`standard/core/OpenC_Core_Current.md:204-217`).
* **Constant division goes through floating point** (the exception of
  `ConstantsAreExact`): `int(a / b)`, and the remainder from it (`openc/consteval.py:242`, `:244`).
  `standard/core/OpenC_Core_Current.md:2214` wants the exact quotient truncated.
* **A full workflow may read the records of an earlier one** (`evidence_records`,
  `FullIsFresh`). `verify_sh9_cli.py` keeps what is in its directory (`:53`), a check that
  must be rejected exits with 1 with or without a record, and
  `scripts/windows_native_workflow.py:456-469` passes the same directory every time (in the
  daily workflow as well). `STATUS.md:201-202`: "Full and release gates force fresh native evidence".
* **A hit of the conformance cache may be another input's** (`cache_edits`, `HitIsExact`).
  The fingerprint is taken before the validation in `native_conformance` (`:113`, `:136`) and after the
  benchmark in `update_cache_from_benchmark` (`:212`); what is edited in between is bound
  to a report of something else. `release/SH8_NATIVE_WORKFLOW_EVIDENCE.md:41-44`.

Met while modelling, and contradicted by no document:

* Which of two runs of the compiler over the same project fails for its budget depends on
  timing: the parallel validation samples a counter that the other threads' sources
  contribute to, the serial one samples it when nothing is held (`FailureHasCause`).
* A cancellation never takes effect in a session: the client sends it after its
  request on a pipe that keeps order, and the server's one thread has answered by
  then. `HandleCancelled` is reached only in `toolchain`, with a client of another kind.
* A cancellation after `shutdown` is answered like a request, because the first
  `"id"` anywhere in a message counts (`ExactlyOneAnswer` says so).
* Diagnostics of a document that is closed just before a crash stay on display:
  `DiagnosticsAreCurrent` promises closed documents none only without crashes.

Other disagreements met while translating the code, which no run checks. The models do
what the code does, and the inputs of the runs stay where code and reference agree.
The standard is `standard/core/OpenC_Core_Current.md`.

* Editor client: restarts are capped only before a handshake. The count is reset when
  `initialize` is answered (`editors/vscode/extension.js:158`), before the documents are
  sent; a server that dies on a document is started again without end, against
  `tools/specs/LANGUAGE_SERVER_SPEC.md:14-16` and `editors/vscode/README.md:15-16`.
* Bootstrap compiler, ownership: `x = y` over a live owner is accepted (the rule of
  reinitialisation, l. 1357), and the assignment to an uninitialised binding is rejected
  (l. 1353). `R y = x;` copies an owner, and an owner that a call returns is lost when it
  is discarded. Two conditional outputs of different calls join as ambiguous. An `own`
  parameter does not compare resource types. A status call that takes an `own` argument
  in an initialiser is resolved twice and therefore rejected. A resource output that is
  live on a successful return is rejected.
* Bootstrap compiler, translation: in C, `break` inside a switch inside a loop runs the
  cleanups of the loop's body and leaves only the switch. The IR verifier rejects overloads.
* Bootstrap compiler, parsing: `s.ok` at the start of a statement is read as a qualified
  name; `status` in front of no brace is passed over (`Primary` does so). After an error
  recovery skips tokens of the next item, and an error in an import ends the parse.
* Bootstrap compiler, constants: `-128` is not an `i8`; `size_of` and `align_of` of status, slice, text and optional types differ
  from the C they become. Unqualified constants of different modules overwrite each
  other. A source that is not UTF-8 is not an error of `check`; a standard-library source
  outside the project's root ends `parse_project` with an exception.
* Scripts: `build_release_artifacts.py` writes PASS for gates it does not run;
  `native_toolchain.py:197` deletes the installed compiler before it copies the new one;
  the fingerprint of the conformance cache leaves the standard library out
  (`windows_native_workflow.py:68`); several verifiers exit with 0 on a failed result
  unless `--enforce` is given; `sh25_clean_vscode_profile.py:244` starts a process that no
  handler ends.
* Publication: `sh26_release.py:452-475` makes the release public before its assets are
  verified, and stamps each package with the time of its own start (`:372`), so that a
  rerun after an interruption finds other bytes than it uploaded, while
  `release/SH26_GITHUB_PUBLICATION_EVIDENCE.md:18-20` says it uploads only what is
  missing. In `sh27_release.py:421`, master moving after the tag is pushed ends the
  publication for good: the tag cannot be taken again. `RetryFinishes` excludes that.
* `process.run`: a program that closes its output is waited for without limits
  (`source/backend_native_runtime_process_supervise.p:206-209`); once the program is over,
  a helper that writes on keeps the call in its loop, without limits, while
  `compiler/selfhost/SH21_NATIVE_PROCESS_GUARD_TRANCHE2_EVIDENCE.md:21-23` says limits hold
  "even for a silent or continuously writing child". `SupervisionEnds` names exactly these
  two cases. When the program cannot be put into the Job, the caller ends with code 70
  and leaves it suspended; a program that ends between the look at it and the memory
  query can end its caller.
* Object sets: a build that semantic analysis rejects leaves the COMPLETE manifest of an
  earlier build, because the manifest is invalidated only when writing begins
  (`source/backend_module_cache.p:1281`). It is still the manifest of one build.

## 7. Plan

Done: `WorkerPool`, `SerialEmission`, `NativeChunks`, `SerialFlow`, `FlowChunks`,
`CleanBuild`, `ObjectCache` (runs, invariants, refinements); `Partitioning`, `FreshIndex`,
`ObjectSet`, `HashResolver`, `LanguageServer`, `EditorSession`, `ProcessSupervise`,
`MeasuredProcess`, `ConformanceCache`, `ReleasePublication` (runs, invariants); the
scripts (runs, invariants); the bootstrap compiler (runs).

Next, in this order:

1. `EditorSession`: an abstract specification of the session (one store that both sides
   come to agree on) that it implements.
2. `FrontendContributions`: reuse of saved symbol tables against fresh ones.
3. Arrays and slices in `OwnershipChecker`, external calls in `Translation`.
