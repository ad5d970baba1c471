---------------------------- MODULE WorkerPoolProof ----------------------------
(***************************************************************************)
(* The pool launcher is safe for any number of slots.  The lemmas are      *)
(* about PoolNext alone, so that every module that composes its own work   *)
(* with the pool's steps can cite them.                                    *)
(***************************************************************************)
EXTENDS WorkerPool, FiniteSetTheorems, TLAPS

(***************************************************************************)
(* What holds at each phase.  The three invariants of WorkerPool speak of  *)
(* closed handles and of the return; to carry them there one has to know   *)
(* how far each loop has come.                                             *)
(***************************************************************************)
BeforeSubmit ==
  phase \in {"resolve", "create"} => \A w \in Slot : callback[w] = "idle"

AtSubmit ==
  phase = "submit" => \A w \in Slot : callback[w] = "idle" <=> w >= next

AllSubmitted ==
  phase \in {"call", "caller", "wait"} => \A w \in Slot : callback[w] # "idle"

AtWait ==
  phase = "wait" => \A w \in Slot : w < next => callback[w] = "done"

AllSettled ==
  phase \in {"close", "returned"} =>
    \A w \in Slot : callback[w] = IF launch = 0 THEN "done" ELSE "idle"

NothingClosed ==
  phase \notin {"close", "returned"} =>
    launch = 3 /\ \A w \in Slot : handle[w] # "closed"

AtClose ==
  /\ phase = "close" => \A w \in Slot : w < next => handle[w] # "open"
  /\ phase = "returned" => \A w \in Slot : handle[w] # "open"

LoopStarts == phase \in {"resolve", "call", "caller"} => next = 1

PoolInv ==
  /\ PoolTypeOK
  /\ BeforeSubmit /\ AtSubmit /\ AllSubmitted /\ AtWait /\ AllSettled
  /\ NothingClosed /\ AtClose /\ LoopStarts

USE WorkersAssumption DEF Slot

(* The launcher starts with nothing created and nothing submitted. *)
LEMMA PoolInitInv == PoolInit => PoolInv
BY DEF PoolInit, PoolInv, PoolTypeOK, BeforeSubmit, AtSubmit, AllSubmitted,
       AtWait, AllSettled, NothingClosed, AtClose, LoopStarts, Phase

(* Every step of the launching thread or of a pool thread keeps PoolInv. *)
LEMMA PoolNextInv == PoolInv /\ [PoolNext]_poolVars => PoolInv'
<1> SUFFICES ASSUME PoolInv, [PoolNext]_poolVars PROVE PoolInv'
  OBVIOUS
<1> USE DEF PoolInv, PoolTypeOK, BeforeSubmit, AtSubmit, AllSubmitted, AtWait,
            AllSettled, NothingClosed, AtClose, LoopStarts, Phase, Advance
<1>1. CASE ResolveApis
  BY <1>1 DEF ResolveApis
<1>2. CASE ResolveFails
  BY <1>2 DEF ResolveFails
<1>3. CASE CreateWork
  BY <1>3 DEF CreateWork
<1>4. CASE CreateFails
  BY <1>4 DEF CreateFails
<1>5. CASE SubmitWork
  BY <1>5 DEF SubmitWork
<1>6. CASE CallerStarts
  BY <1>6 DEF CallerStarts
<1>7. CASE CallerReturns
  BY <1>7 DEF CallerReturns
<1>8. CASE WaitWork
  BY <1>8 DEF WaitWork
<1>9. CASE CloseWork
  BY <1>9 DEF CloseWork
<1>10. ASSUME NEW w \in Slot, StartCallback(w) PROVE PoolInv'
  BY <1>10 DEF StartCallback
<1>11. ASSUME NEW w \in Slot, FinishCallback(w) PROVE PoolInv'
  BY <1>11 DEF FinishCallback
<1>12. CASE UNCHANGED poolVars
  BY <1>12 DEF poolVars
<1> QED
  BY <1>1, <1>2, <1>3, <1>4, <1>5, <1>6, <1>7, <1>8, <1>9, <1>10, <1>11, <1>12
     DEF PoolNext, LaunchStep, PoolStep

(***************************************************************************)
(* The inductive invariant implies what the pool promises its callers.     *)
(***************************************************************************)
LEMMA PoolInvSafe ==
  PoolInv => CloseAfterJoin /\ ReturnIsClean /\ LaunchIsTruthful
BY DEF PoolInv, PoolTypeOK, BeforeSubmit, AtSubmit, AllSubmitted, AtWait,
       AllSettled, NothingClosed, AtClose, Phase,
       CloseAfterJoin, ReturnIsClean, LaunchIsTruthful, InFlight

-------------------------------------------------------------------------------
(***************************************************************************)
(* Every step of a call uses up a turn, a start or an end, and puts back   *)
(* none.                                                                   *)
(***************************************************************************)

\* The places of a call in order: a later place has fewer turns left.
LEMMA TurnIsNatural == PoolTypeOK => Turn[phase] \in 0 .. 7 /\ (Turn[phase] = 7 <=> phase = "returned")
BY DEF PoolTypeOK, Phase, Turn

LEMMA LaterHasFewer ==
  ASSUME PoolTypeOK, PoolTypeOK', phase # "returned",
         \/ Turn[phase'] > Turn[phase]
         \/ Turn[phase'] = Turn[phase] /\ next' > next
  PROVE  TurnsLeft' \subseteq TurnsLeft /\ TurnsLeft' # TurnsLeft
<1>1. Turn[phase] \in 0 .. 6 /\ Turn[phase'] \in 0 .. 7
  BY DEF PoolTypeOK, Phase, Turn
<1>2. next \in Slot /\ next' \in Slot
  BY DEF PoolTypeOK
<1>3. /\ <<Turn[phase], next>> \in TurnsLeft
      /\ <<Turn[phase], next>> \notin TurnsLeft'
  BY <1>1, <1>2 DEF TurnsLeft
<1>4. TurnsLeft' \subseteq TurnsLeft
  BY <1>1, <1>2 DEF TurnsLeft
<1> QED
  BY <1>3, <1>4

\* The launching thread takes its turns one by one.
LEMMA LauncherTakesTurn ==
  ASSUME PoolInv, LaunchStep
  PROVE  /\ TurnsLeft' \subseteq TurnsLeft /\ TurnsLeft' # TurnsLeft
         /\ StartsLeft' = StartsLeft /\ EndsLeft' = EndsLeft
<1>1. PoolTypeOK /\ PoolTypeOK'
  BY PoolNextInv DEF PoolNext, PoolInv
<1>2. /\ phase # "returned"
      /\ \/ Turn[phase'] > Turn[phase]
         \/ Turn[phase'] = Turn[phase] /\ next' > next
  BY <1>1 DEF LaunchStep, ResolveApis, ResolveFails, CreateWork, CreateFails, SubmitWork,
     CallerStarts, CallerReturns, WaitWork, CloseWork, Advance, Turn, PoolTypeOK
<1>3. CASE SubmitWork
  <2>1. next \in Slot /\ callback[next] = "idle" /\ callback' = [callback EXCEPT ![next] = "queued"]
    BY <1>3 DEF SubmitWork, PoolInv, PoolTypeOK, AtSubmit
  <2>2. StartsLeft' = StartsLeft /\ EndsLeft' = EndsLeft
    BY <1>1, <2>1 DEF StartsLeft, EndsLeft, PoolTypeOK
  <2> QED
    BY <1>1, <1>2, <2>2, LaterHasFewer
<1>4. CASE ~SubmitWork
  <2>1. callback' = callback
    BY <1>4 DEF LaunchStep, ResolveApis, ResolveFails, CreateWork, CreateFails,
       CallerStarts, CallerReturns, WaitWork, CloseWork
  <2> QED
    BY <1>1, <1>2, <2>1, LaterHasFewer DEF StartsLeft, EndsLeft
<1> QED
  BY <1>3, <1>4

\* A pool thread starts a callback once and ends it once.
LEMMA PoolThreadTakesStep ==
  ASSUME PoolTypeOK, NEW w \in Slot, PoolStep(w)
  PROVE  /\ TurnsLeft' = TurnsLeft
         /\ StartsLeft' \subseteq StartsLeft /\ EndsLeft' \subseteq EndsLeft
         /\ StartsLeft' # StartsLeft \/ EndsLeft' # EndsLeft
<1>1. UNCHANGED <<phase, next>>
  BY DEF PoolStep, StartCallback, FinishCallback
<1>2. CASE StartCallback(w)
  <2>1. w \in StartsLeft /\ w \notin StartsLeft' /\ StartsLeft' \subseteq StartsLeft
        /\ EndsLeft' = EndsLeft
    BY <1>2 DEF StartCallback, StartsLeft, EndsLeft, PoolTypeOK
  <2> QED
    BY <1>1, <2>1 DEF TurnsLeft
<1>3. CASE FinishCallback(w)
  <2>1. w \in EndsLeft /\ w \notin EndsLeft' /\ EndsLeft' \subseteq EndsLeft
        /\ StartsLeft' = StartsLeft
    BY <1>3 DEF FinishCallback, StartsLeft, EndsLeft, PoolTypeOK
  <2> QED
    BY <1>1, <2>1 DEF TurnsLeft
<1> QED
  BY <1>2, <1>3 DEF PoolStep

\* What a call has to do is finite.
LEMMA CallIsFinite ==
  IsFiniteSet(TurnsLeft) /\ IsFiniteSet(StartsLeft) /\ IsFiniteSet(EndsLeft)
<1>0. 0 \in Int /\ 1 \in Int /\ 6 \in Int /\ Workers \in Int
  OBVIOUS
<1>1. IsFiniteSet(1 .. Workers) /\ IsFiniteSet(0 .. 6)
  BY <1>0, FS_Interval
<1>2. IsFiniteSet((0 .. 6) \X Slot)
  BY <1>1, FS_Product
<1>3. /\ TurnsLeft \subseteq (0 .. 6) \X Slot
      /\ StartsLeft \subseteq Slot /\ EndsLeft \subseteq Slot
  BY DEF TurnsLeft, StartsLeft, EndsLeft
<1> QED
  BY <1>1, <1>2, <1>3, FS_Subset
===============================================================================
