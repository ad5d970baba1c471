------------------------------ MODULE Translation ------------------------------
(***************************************************************************)
(* What the Python bootstrap compiler makes of a function body that passed *)
(* the checks: the C of CEmitter (openc/backend_c.py), and the Core IR of  *)
(* FunctionLowerer (openc/lower.py) with the checks of its verifier        *)
(* (openc/ir.py).                                                          *)
(*                                                                         *)
(* C has no scope statement: the actions are kept in a stack of scopes     *)
(* while the body is written, and copied in front of every exit. The C is  *)
(* given in the same form as the source, without scope statements; a break *)
(* ends a switch in both.                                                  *)
(***************************************************************************)
EXTENDS Naturals, Sequences, SequencesExt

-----------------------------------------------------------------------------
(* openc/backend_c.py. *)


\* State of the emitter: lines written to the block at hand, the actions of the
\* scopes that are open, outermost first, and the depth of scopes at each loop.
Emitter == [code |-> <<>>, scopes |-> <<<<>>>>, loops |-> <<>>]

Write(st, line) == [st EXCEPT !.code = Append(@, line)]
AsStatement(action) == [kind |-> "expr", expr |-> action]

EmitScopeCleanups(st, actions) ==
  [st EXCEPT !.code = @ \o [i \in DOMAIN actions |-> AsStatement(Reverse(actions)[i])]]

\* A mistake: the scopes further out are forgotten.
EmitInnermost(st, depth) == EmitScopeCleanups(st, Last(st.scopes))

\* The cleanups of the scopes from the innermost to the one after depth.
EmitCleanupsDownTo(st, depth) ==
  FoldLeft(LAMBDA s, actions : EmitScopeCleanups(s, actions), st,
           Reverse(SubSeq(st.scopes, depth + 1, Len(st.scopes))))

EmitAllCleanups(st) == EmitCleanupsDownTo(st, 0)
EmitCleanupsToLoop(st) == IF st.loops = <<>> THEN st ELSE EmitCleanupsDownTo(st, Last(st.loops))

RECURSIVE EmitStmt(_, _)

EmitItems(st, items) == FoldLeft(EmitStmt, st, items)

\* The lines of a braced block: its own scope is open while they are written.
BlockOf(st, items) ==
  LET opened == [st EXCEPT !.code = <<>>, !.scopes = Append(@, <<>>)]
      written == EmitItems(opened, items)
  IN EmitScopeCleanups(written, Last(written.scopes)).code

LoopBody(st, items) == BlockOf([st EXCEPT !.loops = Append(@, Len(st.scopes))], items)

\* The body of a case is written without a scope of its own: what it registers
\* stays with the scope around the switch, for the cases that follow too.
EmitCase(acc, c) ==
  LET written == EmitItems([acc.st EXCEPT !.code = <<>>], c.body)
  IN [st |-> [written EXCEPT !.code = acc.st.code],
      cases |-> Append(acc.cases, [c EXCEPT !.body = Append(written.code, [kind |-> "break"])])]

EmitSwitch(st, s) ==
  LET done == FoldLeft(EmitCase, [st |-> st, cases |-> <<>>], s.cases)
  IN Write(done.st, [s EXCEPT !.cases = done.cases])

\* The value of a return is text, evaluated by C after the lines of the cleanups.
EmitStmt(st, s) ==
  CASE s.kind \in {"block", "unsafe"} -> Write(st, [s EXCEPT !.body = BlockOf(st, s.body)])
    [] s.kind = "if" ->
         Write(st, [s EXCEPT !.then = BlockOf(st, s.then), !.else = BlockOf(st, s.else)])
    [] s.kind = "while" -> Write(st, [s EXCEPT !.body = LoopBody(st, s.body)])
    [] s.kind = "switch" -> EmitSwitch(st, s)
    [] s.kind \in {"break", "continue"} -> Write(EmitCleanupsToLoop(st), s)
    [] s.kind = "return" -> Write(EmitAllCleanups(st), s)
    [] s.kind = "scope" -> [st EXCEPT !.scopes[Len(st.scopes)] = Append(@, s.action)]
    [] OTHER -> Write(st, s)

EmitFunction(fn) ==
  LET written == EmitItems(Emitter, fn.body)
      ended == IF fn.result = "void" THEN EmitAllCleanups(written) ELSE written
  IN [fn EXCEPT !.body = ended.code]

-----------------------------------------------------------------------------
(* openc/lower.py. A block is known by its index; an instruction is the        *)
(* statement it carries out, the temporaries of expressions being left out;    *)
(* the value of a return is an instruction of its own, before the cleanups.    *)


Unterminated == [op |-> "none", targets |-> <<>>]
NewBlock(label) == [label |-> label, code |-> <<>>, term |-> Unterminated]

\* Lowering starts in the entry block, with one scope of cleanups that is that of
\* the function body.
Lowerer == [blocks |-> <<NewBlock("entry")>>, current |-> 1, breaks |-> <<>>,
            continues |-> <<>>, scopes |-> <<<<>>>>]

Terminated(st) == st.blocks[st.current].term # Unterminated
Put(st, instruction) == [st EXCEPT !.blocks[st.current].code = Append(@, instruction)]
Terminate(st, term) == [st EXCEPT !.blocks[st.current].term = term]
Branch(st, target) == Terminate(st, [op |-> "branch", targets |-> <<target>>])
BranchIfOpen(st, target) == IF Terminated(st) THEN st ELSE Branch(st, target)
At(st, block) == [st EXCEPT !.current = block]

\* The blocks added are those after Len(st.blocks).
AddBlocks(st, labels) ==
  [st EXCEPT !.blocks = @ \o [i \in DOMAIN labels |-> NewBlock(labels[i])]]

\* A mistake: the scopes further out are forgotten.
LowerInnermost(st, count) ==
  LET actions == Reverse(Last(st.scopes))
  IN FoldLeft(LAMBDA s, action : Put(s, [kind |-> "expr", expr |-> action]), st, actions)

\* The cleanups of the count innermost scopes, innermost first, latest first.
EmitCleanups(st, count) ==
  LET chosen == SubSeq(st.scopes, Len(st.scopes) - count + 1, Len(st.scopes))
      actions == FlattenSeq([i \in DOMAIN chosen |-> Reverse(Reverse(chosen)[i])])
  IN FoldLeft(LAMBDA s, action : Put(s, [kind |-> "expr", expr |-> action]), st, actions)

EmitAll(st) == EmitCleanups(st, Len(st.scopes))

RECURSIVE LowerItems(_, _), LowerStmt(_, _)

LowerItems(st, items) ==
  IF items = <<>> \/ Terminated(st) THEN st
  ELSE LowerItems(LowerStmt(st, Head(items)), Tail(items))

LowerBlock(st, items) ==
  LET lowered == LowerItems([st EXCEPT !.scopes = Append(@, <<>>)], items)
      ended == IF Terminated(lowered) THEN lowered ELSE EmitCleanups(lowered, 1)
  IN [ended EXCEPT !.scopes = Front(@)]

LowerIf(st, s) ==
  LET n == Len(st.blocks)
      added == AddBlocks(st, <<"if.then", "if.else", "if.merge">>)
      split == Terminate(added, [op |-> "cond", cond |-> s.cond, targets |-> <<n + 1, n + 2>>])
      yes == BranchIfOpen(LowerBlock(At(split, n + 1), s.then), n + 3)
      no == BranchIfOpen(LowerBlock(At(yes, n + 2), s.else), n + 3)
  IN At(no, n + 3)

LowerWhile(st, s) ==
  LET n == Len(st.blocks)
      added == AddBlocks(st, <<"while.cond", "while.body", "while.exit">>)
      head == Terminate(At(Branch(added, n + 1), n + 1),
                        [op |-> "cond", cond |-> s.cond, targets |-> <<n + 2, n + 3>>])
      inside == [At(head, n + 2) EXCEPT !.breaks = Append(@, n + 3),
                                        !.continues = Append(@, n + 1)]
      body == BranchIfOpen(LowerBlock(inside, s.body), n + 1)
  IN [At(body, n + 3) EXCEPT !.breaks = Front(@), !.continues = Front(@)]

\* The case blocks follow the merge block, in the order of the cases.
LowerSwitch(st, s) ==
  LET n == Len(st.blocks)
      cases == [i \in DOMAIN s.cases |-> "switch.case"]
      split == Terminate(AddBlocks(st, <<"switch.merge">> \o cases),
                 [op |-> "switch", subject |-> s.subject, cases |-> s.cases,
                  targets |-> [i \in 0 .. Len(s.cases) |-> n + 1 + i]])
      lower(acc, i) == BranchIfOpen(LowerBlock(At(acc, n + 1 + i), s.cases[i].body), n + 1)
  IN At(FoldLeft(lower, split, [i \in DOMAIN s.cases |-> i]), n + 1)

\* A jump ends the innermost scope only.
LowerStmt(st, s) ==
  CASE s.kind \in {"block", "unsafe"} -> LowerBlock(st, s.body)
    [] s.kind = "if" -> LowerIf(st, s)
    [] s.kind = "while" -> LowerWhile(st, s)
    [] s.kind = "switch" -> LowerSwitch(st, s)
    [] s.kind = "break" -> Branch(EmitCleanups(st, 1), Last(st.breaks))
    [] s.kind = "continue" -> Branch(EmitCleanups(st, 1), Last(st.continues))
    [] s.kind = "return" ->
         Terminate(EmitAll(Put(st, s)), [op |-> "return", targets |-> <<>>])
    [] s.kind = "scope" -> [st EXCEPT !.scopes[Len(st.scopes)] = Append(@, s.action)]
    [] OTHER -> Put(st, s)

LowerFunction(fn) ==
  LET lowered == LowerItems(Lowerer, fn.body)
  IN IF Terminated(lowered) THEN lowered.blocks
     ELSE Terminate(EmitAll(lowered), [op |-> "return", targets |-> <<>>]).blocks

-----------------------------------------------------------------------------
\* openc/ir.py, Verifier.verify_function.
Verified(blocks) ==
  /\ blocks # <<>>
  /\ \A b \in DOMAIN blocks :
       /\ blocks[b].term # Unterminated
       /\ \A i \in DOMAIN blocks[b].term.targets : blocks[b].term.targets[i] \in DOMAIN blocks
===============================================================================
