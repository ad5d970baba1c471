--------------------------- MODULE BootstrapBodies ---------------------------
(***************************************************************************)
(* Function bodies given to the Python bootstrap compiler, built statement *)
(* by statement, and what the compiler owes each of them: the body checks  *)
(* accept only what is safe, and both translations mean the same as the    *)
(* source. A family fixes the signature of the function and the statements *)
(* its bodies are made of.                                                 *)
(***************************************************************************)
EXTENDS Naturals, FiniteSets, SequencesExt

CONSTANTS
  Families,     \* the families of bodies that are explored
  MaxSize,      \* bound: statements of a body that are not blocks
  MaxBlocks     \* bound: statements of a body that are blocks

VARIABLES
  family,   \* what the bodies are made of
  body,     \* the statements so far
  size,     \* how many of them enclose no other
  blocks,   \* how many do
  compiled  \* the body has been handed to the compiler

bodyVars == <<family, body, size, blocks, compiled>>

Min2(a, b) == IF a < b THEN a ELSE b

-----------------------------------------------------------------------------
(* The statements of the families. *)

Name(n) == [op |-> "name", name |-> n]
Field(n, f) == [op |-> "member", left |-> Name(n), field |-> f]
Integer(v) == [op |-> "literal", kind |-> "integer", value |-> v]
In(e) == [mode |-> "in", value |-> e]
Out(n) == [mode |-> "out", value |-> Name(n)]
CallOf(f, args) == [op |-> "call", fn |-> f, args |-> args]
Take(n) == CallOf("take", <<In(Name(n))>>)
Look(n) == CallOf("look", <<In(Name(n))>>)
Get(n) == CallOf("get", <<Out(n)>>)
Destroy(n) == [op |-> "destroy", left |-> Name(n)]
Do(e) == [kind |-> "expr", expr |-> e]
Local(type, n, e) == [kind |-> "local", name |-> n, type |-> type, init |-> e]
NoValue == [op |-> "absent"]
Give(e) == [kind |-> "return", value |-> e]
Finally(e) == [kind |-> "scope", action |-> e]
Jump(how) == [kind |-> how]
StatusOf(code) == [op |-> "status", code |-> code]
Assign(n, e) == [op |-> "assign", left |-> Name(n), right |-> e]

Param(mode, type) == [mode |-> mode, type |-> type]
Signature(params, result) == <<[params |-> params, result |-> result]>>

Library ==
  [take |-> Signature(<<Param("own", "resource")>>, "void"),
   look |-> Signature(<<Param("ref", "resource")>>, "void"),
   make |-> Signature(<<>>, "resource"),
   get |-> Signature(<<Param("out", "resource")>>, "status")]

Named(n, mode, type) == [name |-> n, mode |-> mode, type |-> type]

\* params and result of the function; the statements a body starts with, those it
\* is built from, those every loop body starts with; the forms that enclose
\* statements, and the conditions of those forms.
Family ==
  [owner |->
     [params |-> <<Named("x", "own", "resource"), Named("c", "value", "bool")>>,
      result |-> "void", start |-> <<>>, loop |-> <<>>,
      atoms |-> {Do(Take("x")), Do(Look("x")), Finally(Take("x")), Give(NoValue),
                 Local("resource", "y", CallOf("make", <<>>)), Do(Destroy("y"))},
      forms |-> {"if", "else", "while", "block"}, conditions |-> {Name("c")}],
   status |->
     [params |-> <<>>, result |-> "void", loop |-> <<>>,
      start |-> <<Local("resource", "x", NoValue), Local("status", "s", Get("x"))>>,
      atoms |-> {Do(Take("x")), Give(NoValue), Local("status", "t", Get("x"))},
      forms |-> {"if", "else", "switch"},
      conditions |-> {Field("s", "ok"), [op |-> "not", left |-> Field("t", "ok")],
                      [op |-> "ne", left |-> Field("s", "code"), right |-> Integer(0)]}],
   output |->
     [params |-> <<Named("x", "out", "resource"), Named("c", "value", "bool")>>,
      result |-> "status", loop |-> <<>>,
      start |-> <<Local("resource", "y", CallOf("make", <<>>))>>,
      atoms |-> {Give(Get("x")), Give(StatusOf(0)), Give(StatusOf(1)), Do(Take("y")),
                 Finally(Take("y"))},
      forms |-> {"if", "else", "while"}, conditions |-> {Name("c")}],
   result |->
     [params |-> <<Named("x", "own", "resource"), Named("c", "value", "bool")>>,
      result |-> "resource", loop |-> <<>>,
      start |-> <<Local("resource", "y", CallOf("make", <<>>))>>,
      atoms |-> {Give(Name("x")), Give(Name("y")), Do(Take("x")), Finally(Take("y")),
                 Do(Take("y"))},
      forms |-> {"if", "else"}, conditions |-> {Name("c")}],
   rounds |->
     [params |-> <<Named("c", "value", "bool")>>, result |-> "void", start |-> <<>>,
      loop |-> <<Local("resource", "y", CallOf("make", <<>>))>>,
      atoms |-> {Do(Take("y")), Do(Look("y")), Jump("break"), Jump("continue")},
      forms |-> {"if", "while"}, conditions |-> {Name("c")}],
   leaving |->
     [params |-> <<Named("c", "value", "bool")>>, result |-> "void", start |-> <<>>,
      loop |-> <<Local("resource", "y", CallOf("make", <<>>))>>,
      atoms |-> {Finally(Take("y")), Do(Look("y")), Jump("break"), Jump("continue")},
      forms |-> {"if", "while"}, conditions |-> {Name("c")}],
   jump |->
     [params |-> <<Named("c", "value", "bool")>>, result |-> "void", loop |-> <<>>,
      start |-> <<Local("resource", "y", CallOf("make", <<>>))>>,
      atoms |-> {Do(Take("y")), Jump("break")},
      forms |-> {"if", "while"}, conditions |-> {Name("c")}]]

Function(f, items) ==
  [params |-> Family[f].params, result |-> Family[f].result, body |-> Family[f].start \o items]

-----------------------------------------------------------------------------
(* How bodies grow. *)

Case(value, items) == [default |-> FALSE, value |-> value, body |-> items]
Default(items) == [default |-> TRUE, value |-> 0, body |-> items]

\* The statement of the given form around the items.
Enclosed(f, form, cond, items) ==
  CASE form = "if" -> [kind |-> "if", cond |-> cond, then |-> items, else |-> <<>>]
    [] form = "else" -> [kind |-> "if", cond |-> cond, then |-> Front(items),
                         else |-> <<Last(items)>>]
    [] form = "while" -> [kind |-> "while", cond |-> cond, body |-> Family[f].loop \o items]
    [] form = "block" -> [kind |-> "block", body |-> items]
    [] form = "switch" ->
         [kind |-> "switch", subject |-> Field("s", "code"),
          cases |-> <<Case(0, Front(items)), Default(<<Last(items)>>)>>]

BodyInit ==
  family \in Families /\ body = <<>> /\ size = 0 /\ blocks = 0 /\ compiled = FALSE

AddStatement ==
  /\ family \in Families /\ ~compiled /\ size < MaxSize
  /\ \E a \in Family[family].atoms : body' = Append(body, a)
  /\ size' = size + 1
  /\ UNCHANGED <<family, blocks, compiled>>

\* The last statements move into a statement of their own.
EncloseStatements ==
  /\ family \in Families /\ ~compiled /\ blocks < MaxBlocks
  /\ blocks' = blocks + 1
  /\ \E n \in 1 .. Min2(2, Len(body)) :
     \E form \in Family[family].forms, cond \in Family[family].conditions :
       LET kept == SubSeq(body, 1, Len(body) - n)
           moved == SubSeq(body, Len(body) - n + 1, Len(body))
       IN /\ form \in {"else", "switch"} => n > 1
          /\ body' = Append(kept, Enclosed(family, form, cond, moved))
  /\ UNCHANGED <<family, size, compiled>>

\* check_function, emit_function and lower_function are given the whole body.
Compile ==
  /\ family \in Families /\ ~compiled
  /\ compiled' = TRUE
  /\ UNCHANGED <<family, body, size, blocks>>

BodyNext == AddStatement \/ EncloseStatements \/ Compile

-----------------------------------------------------------------------------
Checker == INSTANCE OwnershipChecker WITH Signatures <- Library
Meaning == INSTANCE OwnershipSemantics WITH
             Signatures <- Library, Variables <- {"x", "y", "s", "t"}, LoopBound <- 2
To == INSTANCE Translation

Compiled == Function(family, body)
IsAccepted == family \in Families /\ Checker!Accepted(Compiled)

(***************************************************************************)
(* What the checks of semantic.py accept ends every owner exactly once on  *)
(* every path, uses none after its end, and hands over outputs on success  *)
(* and only then: the promise of the ownership rules of OpenC Core, for    *)
(* branches, loops, cleanups, proofs by status and returns together.       *)
(***************************************************************************)
AcceptedIsSafe == [][compiled' /\ IsAccepted => Meaning!Safe(Compiled)]_bodyVars

RECURSIVE Falls(_)
\* Control can get to the end of the items: every condition can have either value.
Falls(items) ==
  \A i \in DOMAIN items :
    LET s == items[i]
    IN CASE s.kind \in {"break", "continue", "return"} -> FALSE
         [] s.kind = "if" -> Falls(s.then) \/ Falls(s.else)
         [] s.kind = "block" -> Falls(s.body)
         [] s.kind = "switch" -> \/ \A c \in DOMAIN s.cases : ~s.cases[c].default
                                \/ \E c \in DOMAIN s.cases : Falls(s.cases[c].body)
         [] OTHER -> TRUE

RECURSIVE Exits(_, _, _)
\* The jumps and returns among the items that are reached: what leaves, and whether an
\* action is registered before it further out but within the loop (past), anywhere (any).
Exits(items, past, any) ==
  UNION {LET s == items[i]
             own == \E j \in 1 .. i - 1 : items[j].kind = "scope"
             within(inner) == Exits(inner, past \/ own, any \/ own)
         IN CASE s.kind \in {"break", "continue", "return"} ->
                   {[exit |-> s, past |-> past, any |-> any \/ own]}
              [] s.kind = "if" -> within(s.then) \union within(s.else)
              [] s.kind = "while" -> Exits(s.body, FALSE, any \/ own)
              [] s.kind = "switch" -> UNION {within(s.cases[c].body) : c \in DOMAIN s.cases}
              [] s.kind = "block" -> within(s.body)
              [] OTHER -> {} : i \in {k \in DOMAIN items : Falls(SubSeq(items, 1, k - 1))}}

\* A return calls while actions are registered: backend_c.py writes the call after them.
CallsLate(fn) ==
  \E e \in Exits(fn.body, FALSE, FALSE) :
    e.exit.kind = "return" /\ e.exit.value.op = "call" /\ e.any

\* A jump leaves a scope and one around it that has actions: lower.py runs those of
\* the innermost scope only.
JumpsPastActions(fn) ==
  \E e \in Exits(fn.body, FALSE, FALSE) : e.exit.kind \in {"break", "continue"} /\ e.past

SourceBehaviours == Meaning!Behaviours(Compiled)
CBehaviours == Meaning!Behaviours(To!EmitFunction(Compiled))
CoreIR == To!LowerFunction(Compiled)
CoreBehaviours == Meaning!IRBehaviours(Compiled, CoreIR)

(***************************************************************************)
(* The C of backend_c.py uses and ends the same resources as the source,   *)
(* in the same order, on every path: the copies of the cleanups in front   *)
(* of every exit add up to one run of each action registered, and no more. *)
(* It makes the same calls in the same order as well, but for exactly the  *)
(* bodies in which a return calls something while actions are registered:  *)
(* there the call is made after the actions, against OPENC-EVAL-RETURN-001.*)
(***************************************************************************)
EmittedMeansTheSame ==
  [][compiled' /\ IsAccepted =>
       /\ Meaning!Owners(CBehaviours) = Meaning!Owners(SourceBehaviours)
       /\ (CBehaviours = SourceBehaviours) = ~CallsLate(Compiled)]_bodyVars

(***************************************************************************)
(* The Core IR of lower.py passes the verifier of ir.py and does the same  *)
(* as the source: every block ends, and on the way out of blocks, branches,*)
(* loops and the function each action runs once, but for exactly the bodies*)
(* in which a jump leaves a scope and one around it that has actions: they *)
(* are passed over there, against OPENC-CLEANUP-STRUCTURED-001.            *)
(***************************************************************************)
LoweredMeansTheSame ==
  [][compiled' /\ IsAccepted =>
       /\ To!Verified(CoreIR)
       /\ (CoreBehaviours = SourceBehaviours) = ~JumpsPastActions(Compiled)]_bodyVars

BodySpec == BodyInit /\ [][BodyNext]_bodyVars
=============================================================================
