---------------------------- MODULE MCObjectCache ----------------------------
(* An instance of ObjectCache for TLC: two groups and few versions of them.  *)
EXTENDS ObjectCache, TLC

\* A group whose bodies call nothing that depends on the others.
Plain(text, locals) ==
  [decl |-> "d", body |-> text, locals |-> locals, pointer |-> FALSE,
   check |-> "fine", uses |-> "any"]

Caller == [Plain("calls", 0) EXCEPT !.uses = "d"]
Gated == [Plain("gated", 0) EXCEPT !.check = "gated"]

Pair(g, h) == [q \in 0 .. 1 |-> IF q = 0 THEN g ELSE h]

(***************************************************************************)
(* A first version, and edits of it: of the second body alone; of the      *)
(* first body, shifting the numbers after it; of the first declaration,    *)
(* which the caller was not written for; and a pointer in the first body,  *)
(* which brings out an error in the second.                                *)
(***************************************************************************)
MCProjects ==
  {Pair(Plain("a", 0), Caller),
   Pair(Plain("a", 0), Gated),
   Pair(Plain("b", 1), Caller),
   Pair([Plain("a", 0) EXCEPT !.decl = "e"], Caller),
   Pair([Plain("a", 0) EXCEPT !.pointer = TRUE], Gated)}

BuilderSymmetry == Permutations(Builders)
===============================================================================
