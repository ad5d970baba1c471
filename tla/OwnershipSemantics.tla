-------------------------- MODULE OwnershipSemantics --------------------------
(***************************************************************************)
(* What a function body does with its resources when it runs: the promise  *)
(* the checks of OwnershipChecker and the translations of Translation are  *)
(* held to. It is the reference, not a part of the compiler.               *)
(*                                                                         *)
(* An execution is an environment: hold[n] is the object the binding n     *)
(* refers to (0: none), alive the objects not yet ended, log the calls and *)
(* what was done to objects, in their order, wrong what must never happen. *)
(* The opaque condition and the outcome of every status call are chosen    *)
(* anew each time; an execution takes at most LoopBound rounds of loops.   *)
(***************************************************************************)
EXTENDS Naturals, Sequences, FiniteSets, SequencesExt, FiniteSetsExt

CONSTANTS
  Signatures,   \* as in OwnershipChecker
  Variables,    \* every name a body can bind
  LoopBound     \* bound: rounds of loops in an execution

Start ==
  [hold |-> [n \in Variables |-> 0], ok |-> [n \in Variables |-> TRUE],
   made |-> 0, alive |-> {}, log |-> <<>>, wrong |-> {}, way |-> "fall",
   rounds |-> 0, result |-> "none", given |-> 0]

Blame(env, what) == [env EXCEPT !.wrong = @ \union {what}]

Make(env, n) ==
  [env EXCEPT !.made = @ + 1, !.alive = @ \union {env.made + 1},
              !.hold[n] = env.made + 1]

\* A use of n needs a living object; an end also takes the life of it.
Use(env, n) ==
  LET used == [env EXCEPT !.log = Append(@, <<"use", env.hold[n]>>)]
  IN IF env.hold[n] \in env.alive THEN used ELSE Blame(used, "use of an ended owner")

End(env, n) ==
  LET ended == [env EXCEPT !.log = Append(@, <<"end", env.hold[n]>>),
                           !.alive = @ \ {env.hold[n]}]
  IN IF env.hold[n] \in env.alive THEN ended ELSE Blame(ended, "second end of an owner")

\* Effect of one argument on a call that does (success) or does not succeed.
Argument(env, arg, param, success) ==
  CASE param.mode = "own" -> End(env, arg.value.name)
    [] param.mode = "ref" -> Use(env, arg.value.name)
    [] param.mode = "out" /\ success -> Make(env, arg.value.name)
    [] OTHER -> env

Call(env, e, success) ==
  FoldLeft(LAMBDA v, i : Argument(v, e.args[i], Signatures[e.fn][1].params[i], success),
           [env EXCEPT !.log = Append(@, <<"call", e.fn, success>>)],
           [i \in DOMAIN e.args |-> i])

CanFail(e) == Signatures[e.fn][1].result = "status"

\* The environments an expression statement can leave, and for the initializer or
\* right side of an assignment, with the result stored in n.
Into(env, n, e) ==
  CASE e.op = "call" /\ Signatures[e.fn][1].result = "resource" -> {Make(Call(env, e, TRUE), n)}
    [] e.op = "call" /\ CanFail(e) ->
         {[Call(env, e, success) EXCEPT !.ok[n] = success] : success \in BOOLEAN}
    [] e.op = "name" -> {[env EXCEPT !.hold[n] = env.hold[e.name]]}
    [] e.op = "status" -> {[env EXCEPT !.ok[n] = e.code = 0]}
    [] OTHER -> {env}

Run(env, e) ==
  CASE e.op = "assign" -> Into(env, e.left.name, e.right)
    [] e.op = "destroy" -> {End(env, e.left.name)}
    [] e.op = "call" -> {Call(env, e, success) : success \in IF CanFail(e) THEN BOOLEAN ELSE {TRUE}}
    [] OTHER -> {env}

RECURSIVE Truth(_, _)
\* The values a condition can have. The code of a status is 0 or 1.
Truth(env, e) ==
  CASE e.op = "not" -> {~v : v \in Truth(env, e.left)}
    [] e.op = "and" -> {a /\ b : a \in Truth(env, e.left), b \in Truth(env, e.right)}
    [] e.op = "or" -> {a \/ b : a \in Truth(env, e.left), b \in Truth(env, e.right)}
    [] e.op = "member" /\ e.field = "ok" -> {env.ok[e.left.name]}
    [] e.op \in {"eq", "ne"} /\ e.left.op = "member" ->
         {(env.ok[e.left.left.name] = (e.right.value = 0)) = (e.op = "eq")}
    [] OTHER -> BOOLEAN

RECURSIVE Exec(_, _), ExecItems(_, _, _), ExecLoop(_, _)

Cleanup(env, actions) ==
  FoldLeft(LAMBDA v, action : CHOOSE after \in Run(v, action) : TRUE, env, actions)

\* Registered actions run in reverse order whichever way the block is left.
ExecItems(env, items, registered) ==
  IF items = <<>> \/ env.way # "fall" THEN {Cleanup(env, registered)}
  ELSE LET item == Head(items)
       IN IF item.kind = "scope"
          THEN ExecItems(env, Tail(items), <<item.action>> \o registered)
          ELSE UNION {ExecItems(after, Tail(items), registered) : after \in Exec(env, item)}

ExecBlock(env, items) == ExecItems(env, items, <<>>)

\* A return hands its object over once the expression is evaluated.
Return(env, e) ==
  LET left == [env EXCEPT !.way = "return"]
  IN CASE e.op = "name" /\ env.hold[e.name] \in env.alive ->
            {[left EXCEPT !.alive = @ \ {env.hold[e.name]}, !.given = env.hold[e.name]]}
       [] e.op = "name" -> {Blame(left, "return of an ended owner")}
       [] e.op = "call" /\ CanFail(e) ->
            {[Call(left, e, success) EXCEPT !.result = IF success THEN "success" ELSE "failure"] :
               success \in BOOLEAN}
       [] e.op = "call" -> {Call(left, e, TRUE)}
       [] e.op = "status" ->
            {[left EXCEPT !.result = IF e.code = 0 THEN "success" ELSE "failure"]}
       [] OTHER -> {left}

NextRound(env) == IF env.rounds = LoopBound THEN {} ELSE {[env EXCEPT !.rounds = @ + 1]}

ExecLoop(env, s) ==
  UNION {IF ~v THEN {env}
         ELSE UNION {IF after.way \in {"fall", "continue"}
                     THEN ExecLoop([after EXCEPT !.way = "fall"], s)
                     ELSE {[after EXCEPT !.way = IF @ = "break" THEN "fall" ELSE @]} :
                     after \in UNION {ExecBlock(round, s.body) : round \in NextRound(env)}} :
         v \in Truth(env, s.cond)}

\* The cases a switch can take; 0 stands for none of them.
Taken(env, s) ==
  LET all == DOMAIN s.cases
      default == {i \in all : s.cases[i].default}
      valued(ok) == {i \in all \ default : (s.cases[i].value = 0) = ok}
      otherwise == IF default = {} THEN {0} ELSE default
      ok == env.ok[s.subject.left.name]
  IN IF s.subject.op # "member" THEN all \union otherwise
     ELSE IF ok /\ valued(TRUE) # {} THEN valued(TRUE)
     ELSE IF ok THEN otherwise ELSE valued(FALSE) \union otherwise

\* A break ends the nearest switch or loop.
ExecSwitch(env, s) ==
  {[after EXCEPT !.way = IF @ = "break" THEN "fall" ELSE @] :
     after \in UNION {IF i = 0 THEN {env} ELSE ExecBlock(env, s.cases[i].body) : i \in Taken(env, s)}}

Exec(env, s) ==
  CASE s.kind = "local" -> Into([env EXCEPT !.hold[s.name] = 0], s.name, s.init)
    [] s.kind = "expr" -> Run(env, s.expr)
    [] s.kind = "if" ->
         UNION {ExecBlock(env, IF v THEN s.then ELSE s.else) : v \in Truth(env, s.cond)}
    [] s.kind = "while" -> ExecLoop(env, s)
    [] s.kind = "switch" -> ExecSwitch(env, s)
    [] s.kind \in {"break", "continue"} -> {[env EXCEPT !.way = s.kind]}
    [] s.kind = "return" -> Return(env, s.value)
    [] s.kind \in {"block", "unsafe"} -> ExecBlock(env, s.body)

-----------------------------------------------------------------------------
(* A call of a function, and what it must leave behind. *)

\* Parameters that own are handed a living object.
Called(fn) ==
  FoldLeft(LAMBDA env, p : IF p.mode = "own" THEN Make(env, p.name) ELSE env, Start, fn.params)

OutputsOf(fn) == {p.name : p \in {q \in ToSet(fn.params) : q.mode = "out"}}

\* Outputs are handed over by a success and by nothing else.
Finish(fn, env) ==
  LET given == IF env.result = "success"
               THEN {env.hold[n] : n \in OutputsOf(fn)} ELSE {}
      missing == Cardinality(given) < Cardinality(OutputsOf(fn)) \/ ~(given \subseteq env.alive)
      checked == IF env.result = "success" /\ missing THEN Blame(env, "output not given") ELSE env
  IN IF checked.alive \ given = {} THEN checked ELSE Blame(checked, "owner never ended")

Executions(fn) == {Finish(fn, env) : env \in ExecBlock(Called(fn), fn.body)}

Safe(fn) == \A env \in Executions(fn) : env.wrong = {}

\* What an observer of the calls and the resources can tell of an execution.
Observed(env) == <<env.log, env.result, env.given, env.wrong>>
Behaviours(fn) == {Observed(env) : env \in Executions(fn)}

\* What is left for an observer who cannot tell when calls are made.
Owners(behaviours) ==
  {<<SelectSeq(b[1], LAMBDA event : event[1] # "call"), b[2], b[3], b[4]>> : b \in behaviours}

(***************************************************************************)
(* What the Core IR of a function body does when it runs, in the same      *)
(* terms: the blocks of LowerFunction, followed from the entry.            *)
(***************************************************************************)
\* The value of a return is an instruction; the cleanups of its block follow it.
Step(env, instruction) ==
  IF instruction.kind = "return"
  THEN {[after EXCEPT !.way = "fall"] : after \in Return(env, instruction.value)}
  ELSE Exec(env, instruction)

Perform(env, code) ==
  FoldLeft(LAMBDA envs, i : UNION {Step(v, i) : v \in envs}, {env}, code)

\* A round of a loop begins where the body of the loop is entered.
Entering(env, block) == IF block.label = "while.body" THEN NextRound(env) ELSE {env}

\* The blocks that can follow the terminator of a block.
Followers(env, term) ==
  CASE term.op = "branch" -> {term.targets[1]}
    [] term.op = "cond" -> {term.targets[IF v THEN 1 ELSE 2] : v \in Truth(env, term.cond)}
    [] term.op = "switch" -> {term.targets[i] : i \in Taken(env, term)}

RECURSIVE RunFrom(_, _, _)
RunFrom(env, blocks, b) ==
  UNION {IF blocks[b].term.op = "return" THEN {after}
         ELSE UNION {UNION {RunFrom(entered, blocks, next) :
                            entered \in Entering(after, blocks[next])} :
                     next \in Followers(after, blocks[b].term)} :
         after \in Perform(env, blocks[b].code)}

IRBehaviours(fn, blocks) ==
  {Observed(Finish(fn, last)) : last \in RunFrom(Called(fn), blocks, 1)}
=============================================================================
