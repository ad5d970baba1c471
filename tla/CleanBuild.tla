------------------------------ MODULE CleanBuild ------------------------------
(***************************************************************************)
(* What one build of a project promises, with or without a cache and       *)
(* whatever other builds do: it reads the sources, and then either writes  *)
(* the executable that compiling those sources from nothing would write,   *)
(* or rejects them because they are in error, or fails for want of memory  *)
(* or of a file.                                                           *)
(***************************************************************************)
EXTENDS Integers

CONSTANTS
  Builders,     \* compiler processes that share one cache prefix
  Partitions,   \* source groups with a saved object each (source_partitions)
  Projects,     \* the versions of the sources a build may read
  None          \* no executable, no snapshot

Partition == 0 .. Partitions - 1

(***************************************************************************)
(* A version of a source group, as far as the back end tells them apart:   *)
(*   decl     its text outside function bodies                             *)
(*   body     its text inside them                                         *)
(*   locals   the symbols its bodies declare, which shift the numbers of   *)
(*            the functions after them                                     *)
(*   pointer  one of those symbols has a pointer type                      *)
(*   check    "fine"; "wrong", always diagnosed; or "gated", diagnosed     *)
(*            only in a project that has a pointer symbol                  *)
(*   uses     the declarations of other groups its bodies were written for *)
(***************************************************************************)
Group == [decl : STRING, body : STRING, locals : Nat, pointer : BOOLEAN,
          check : {"fine", "wrong", "gated"}, uses : STRING]

ASSUME ProjectsAssumption ==
  /\ Partitions \in Nat \ {0}
  /\ Projects \subseteq [Partition -> Group]

Declarations(S) == [q \in Partition |-> S[q].decl]

\* Symbols are numbered in source order, locals included.
FunctionNumbers(S) ==
  LET number[q \in Partition] ==
        IF q = 0 THEN 0 ELSE number[q - 1] + 1 + S[q - 1].locals
  IN  number

HasPointerSymbol(S) == \E q \in Partition : S[q].pointer

(***************************************************************************)
(* The checks of group p.  They look into its own bodies and at the        *)
(* declarations of the others; one flag about the whole project gates the  *)
(* costlier part of the flow analysis.                                     *)
(***************************************************************************)
Accepts(S, p) ==
  /\ S[p].check # "wrong"
  /\ S[p].check = "gated" => ~HasPointerSymbol(S)
  /\ \A q \in Partition \ {p} : S[p].uses \in {"any", S[q].decl}

Acceptable(S) == \A p \in Partition : Accepts(S, p)

\* The machine code of group p: calls are relocated by function number, and
\* layouts and constants come from the declarations.
Compile(S, p) ==
  [code |-> S[p].body, declarations |-> Declarations(S),
   numbers |-> FunctionNumbers(S)]

Clean(S) == [p \in Partition |-> Compile(S, p)]

VARIABLES
  read,       \* the sources the attempt under way has read
  outcome,    \* "none" before the first build, "building", or the exit
  image       \* the executable a successful build has written

cleanVars == <<read, outcome, image>>

CleanInit ==
  /\ read = [b \in Builders |-> None]
  /\ outcome = [b \in Builders |-> "none"]
  /\ image = [b \in Builders |-> None]

\* A build starts, or starts over with the sources as they are now.
CleanRead(b) ==
  /\ \E S \in Projects : read' = [read EXCEPT ![b] = S]
  /\ outcome' = [outcome EXCEPT ![b] = "building"]
  /\ image' = [image EXCEPT ![b] = None]

CleanWrite(b) ==
  /\ outcome[b] = "building" /\ Acceptable(read[b])
  /\ outcome' = [outcome EXCEPT ![b] = "built"]
  /\ image' = [image EXCEPT ![b] = Clean(read[b])]
  /\ UNCHANGED read

CleanReject(b) ==
  /\ outcome[b] = "building" /\ ~Acceptable(read[b])
  /\ outcome' = [outcome EXCEPT ![b] = "rejected"]
  /\ UNCHANGED <<read, image>>

CleanFail(b) ==
  /\ outcome[b] = "building"
  /\ outcome' = [outcome EXCEPT ![b] = "failed"]
  /\ UNCHANGED <<read, image>>

CleanNext == \E b \in Builders :
  CleanRead(b) \/ CleanWrite(b) \/ CleanReject(b) \/ CleanFail(b)

CleanSpec == CleanInit /\ [][CleanNext]_cleanVars
===============================================================================
