------------------------------ MODULE WorkerPool ------------------------------
(***************************************************************************)
(* One call of the fork-join launcher that the native back end emits for   *)
(* the compiler's own parallel jobs, native_compiler_pool_work in          *)
(* compiler/selfhost/source/backend_native_scalar_intrinsic.p.             *)
(*                                                                         *)
(* The launching thread resolves the four Windows thread-pool entry        *)
(* points, creates every work object before it submits any, submits them   *)
(* in slot order, runs one job itself, waits for the callbacks in slot     *)
(* order, and closes what it created.  A failure before the first submit   *)
(* skips to the closing loop with the result word still 3.                 *)
(*                                                                         *)
(* A callback is queued by the submit, and started and finished by a pool  *)
(* thread at any later time and in any order.  What a callback computes is *)
(* the business of the module that extends this one: it conjoins its own   *)
(* steps to StartCallback, FinishCallback, CallerStarts and CallerReturns. *)
(***************************************************************************)
EXTENDS Integers

CONSTANT Workers    \* work objects this call creates

ASSUME WorkersAssumption == Workers \in Nat \ {0}

Slot == 1 .. Workers

VARIABLES
  phase,      \* the launching thread's place in the emitted code
  next,       \* the slot its current loop is at
  handle,     \* the work-object word of each slot
  callback,   \* what the pool has done with each slot's callback
  launch      \* the result word: 3 until every callback is joined, then 0

poolVars == <<phase, next, handle, callback, launch>>

Phase == {"resolve", "create", "submit", "call", "caller", "wait", "close",
          "returned"}

PoolTypeOK ==
  /\ phase \in Phase
  /\ next \in Slot
  /\ handle \in [Slot -> {"none", "open", "closed"}]
  /\ callback \in [Slot -> {"idle", "queued", "running", "done"}]
  /\ launch \in {0, 3}

PoolInit ==
  /\ phase = "resolve"
  /\ next = 1
  /\ handle = [w \in Slot |-> "none"]
  /\ callback = [w \in Slot |-> "idle"]
  /\ launch = 3

\* A mistake Advance could hold: the loop bound is off by one.
AdvancePastLast(after) ==
  IF next > Workers
  THEN phase' = after /\ next' = 1
  ELSE phase' = phase /\ next' = next + 1

\* The loop over the slots moves to the next one, or to phase `after`.
Advance(after) ==
  IF next = Workers
  THEN phase' = after /\ next' = 1
  ELSE phase' = phase /\ next' = next + 1

(***************************************************************************)
(* The launching thread.                                                   *)
(***************************************************************************)

ResolveApis ==
  /\ phase = "resolve"
  /\ phase' = "create"
  /\ UNCHANGED <<next, handle, callback, launch>>

\* LoadLibrary or one of the GetProcAddress calls returned null.
ResolveFails ==
  /\ phase = "resolve"
  /\ phase' = "close"
  /\ UNCHANGED <<next, handle, callback, launch>>

CreateWork ==
  /\ phase = "create"
  /\ handle' = [handle EXCEPT ![next] = "open"]
  /\ Advance("submit")
  /\ UNCHANGED <<callback, launch>>

\* CreateThreadpoolWork returned null: nothing has been submitted.
CreateFails ==
  /\ phase = "create"
  /\ phase' = "close"
  /\ next' = 1
  /\ UNCHANGED <<handle, callback, launch>>

\* A mistake: the last slot is never submitted, though it is waited for.
SubmitAllButLast ==
  /\ phase = "submit"
  /\ callback' = IF next = Workers THEN callback
                 ELSE [callback EXCEPT ![next] = "queued"]
  /\ Advance("call")
  /\ UNCHANGED <<handle, launch>>

SubmitWork ==
  /\ phase = "submit"
  /\ callback' = [callback EXCEPT ![next] = "queued"]
  /\ Advance("call")
  /\ UNCHANGED <<handle, launch>>

CallerStarts ==
  /\ phase = "call"
  /\ phase' = "caller"
  /\ UNCHANGED <<next, handle, callback, launch>>

CallerReturns ==
  /\ phase = "caller"
  /\ phase' = "wait"
  /\ UNCHANGED <<next, handle, callback, launch>>

\* A mistake: the wait polls and does not block.
WaitWithoutBlocking ==
  /\ phase = "wait"
  /\ Advance("close")
  /\ launch' = IF next = Workers THEN 0 ELSE launch
  /\ UNCHANGED <<handle, callback>>

\* WaitForThreadpoolWorkCallbacks(work, FALSE) blocks until the slot's
\* callback has finished; after the last one the result word becomes 0.
WaitWork ==
  /\ phase = "wait"
  /\ callback[next] = "done"
  /\ Advance("close")
  /\ launch' = IF next = Workers THEN 0 ELSE launch
  /\ UNCHANGED <<handle, callback>>

\* A mistake: the closing loop runs after a successful launch only.
CloseOnSuccess ==
  /\ phase = "close"
  /\ handle' = [handle EXCEPT ![next] =
                  IF @ = "open" /\ launch = 0 THEN "closed" ELSE @]
  /\ Advance("returned")
  /\ UNCHANGED <<callback, launch>>

\* A slot whose work object was never created holds null and is passed over.
CloseWork ==
  /\ phase = "close"
  /\ handle' = [handle EXCEPT ![next] = IF @ = "open" THEN "closed" ELSE @]
  /\ Advance("returned")
  /\ UNCHANGED <<callback, launch>>

(***************************************************************************)
(* The pool threads.                                                       *)
(***************************************************************************)

StartCallback(w) ==
  /\ callback[w] = "queued"
  /\ callback' = [callback EXCEPT ![w] = "running"]
  /\ UNCHANGED <<phase, next, handle, launch>>

FinishCallback(w) ==
  /\ callback[w] = "running"
  /\ callback' = [callback EXCEPT ![w] = "done"]
  /\ UNCHANGED <<phase, next, handle, launch>>

PoolStep(w) == StartCallback(w) \/ FinishCallback(w)

LaunchStep ==
  \/ ResolveApis \/ ResolveFails \/ CreateWork \/ CreateFails \/ SubmitWork
  \/ CallerStarts \/ CallerReturns \/ WaitWork \/ CloseWork

PoolNext == LaunchStep \/ \E w \in Slot : PoolStep(w)

-------------------------------------------------------------------------------
(* A callback that may still touch the state it borrows. *)
InFlight(w) == callback[w] \in {"queued", "running"}

(***************************************************************************)
(* No work object is closed while its callback is queued or running: the   *)
(* closing loop is reached only with nothing submitted or all joined.      *)
(***************************************************************************)
CloseAfterJoin == \A w \in Slot : handle[w] = "closed" => ~InFlight(w)

(***************************************************************************)
(* When the call returns, nothing is in flight and no work object is left  *)
(* open, whichever step failed.                                            *)
(***************************************************************************)
ReturnIsClean ==
  phase = "returned" => \A w \in Slot : ~InFlight(w) /\ handle[w] # "open"

(***************************************************************************)
(* The result word tells the caller the truth about the callbacks: 0 says  *)
(* that each one ran to its end, 3 that none of them was ever started, so  *)
(* that the serial fallback can neither miss a job nor repeat one.         *)
(***************************************************************************)
LaunchIsTruthful ==
  phase = "returned" =>
    \A w \in Slot : callback[w] = IF launch = 0 THEN "done" ELSE "idle"
(***************************************************************************)
(* What a call has still to do: the turns of the launching thread's loops, *)
(* in the order it takes them, and the start and the end of each callback. *)
(* A failure passes over some of them; none is taken back.                 *)
(***************************************************************************)
Turn == [resolve |-> 0, create |-> 1, submit |-> 2, call |-> 3, caller |-> 4,
         wait |-> 5, close |-> 6, returned |-> 7]

TurnsLeft ==
  {t \in (0 .. 6) \X Slot :
     t[1] > Turn[phase] \/ (t[1] = Turn[phase] /\ t[2] >= next)}

StartsLeft == {w \in Slot : callback[w] \in {"idle", "queued"}}
EndsLeft == {w \in Slot : callback[w] # "done"}
===============================================================================
