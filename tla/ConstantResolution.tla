--------------------------- MODULE ConstantResolution ---------------------------
(***************************************************************************)
(* The constants of the modules of a project, resolved by the Python       *)
(* bootstrap compiler in whatever order their initialisers allow           *)
(* (resolve_constants of openc/semantic.py): pass after pass over those    *)
(* still pending, until none is or a pass resolves nothing. What an        *)
(* initialiser comes to is the business of the evaluator.                  *)
(***************************************************************************)
EXTENDS Sequences, Naturals

CONSTANTS
  Programs,            \* sequences of constants [name, type, init] of distinct names
  Evaluated(_, _),   \* a constant's value, or the rule of the diagnostic, given the known ones
  Mentions(_)           \* the names an initialiser holds

VARIABLES
  constants,   \* the declarations, in the order of the sources
  pending,     \* those this pass has still to look at
  remaining,   \* those this pass put off
  progressed,  \* whether this pass resolved one
  values,      \* the constants that have a value
  outcome      \* "running", "resolved", "cycle" or the rule of the diagnostic

constantVars == <<constants, pending, remaining, progressed, values, outcome>>

ConstantInit ==
  /\ constants \in Programs
  /\ pending = constants
  /\ remaining = <<>>
  /\ progressed = FALSE
  /\ values = <<>>
  /\ outcome = "running"

\* values with one more.
Defined(name, v) == [n \in DOMAIN values \union {name} |-> IF n = name THEN v ELSE values[n]]

\* An unknown name may be a constant of a later pass; any other fault is reported.
ResolveNext ==
  /\ outcome = "running" /\ pending # <<>>
  /\ LET c == Head(pending)
         v == Evaluated(c, values)
     IN /\ pending' = Tail(pending)
        /\ values' = IF v.ok THEN Defined(c.name, v) ELSE values
        /\ remaining' = IF v.rule = "CONSTANT-NAME" THEN Append(remaining, c) ELSE remaining
        /\ progressed' = (progressed \/ v.ok)
        /\ outcome' = IF v.rule \in {"none", "CONSTANT-NAME"} THEN outcome ELSE v.rule
  /\ UNCHANGED constants

\* A mistake: a constant that had to wait is taken for one of a cycle.
OnePass ==
  /\ outcome = "running" /\ pending = <<>>
  /\ outcome' = IF remaining = <<>> THEN "resolved" ELSE "cycle"
  /\ pending' = remaining
  /\ remaining' = <<>>
  /\ progressed' = FALSE
  /\ UNCHANGED <<constants, values>>

\* The end of a pass.
NextPass ==
  /\ outcome = "running" /\ pending = <<>>
  /\ outcome' = CASE remaining = <<>> -> "resolved"
                  [] remaining # <<>> /\ ~progressed -> "cycle"
                  [] OTHER -> "running"
  /\ pending' = remaining
  /\ remaining' = <<>>
  /\ progressed' = FALSE
  /\ UNCHANGED <<constants, values>>

ConstantNext == ResolveNext \/ NextPass

ConstantSpec == ConstantInit /\ [][ConstantNext]_constantVars

-----------------------------------------------------------------------------
Declared(p) == {p[i] : i \in DOMAIN p}
Unresolved == {c \in Declared(constants) : c.name \notin DOMAIN values}

(***************************************************************************)
(* Whichever pass found them, the values are those of the initialisers     *)
(* under all of the values together, as if each had been evaluated last;   *)
(* a diagnostic is still true at the end; and constants are refused for a  *)
(* cycle only if each of those left needs another one that is left.        *)
(***************************************************************************)
ResolvedTogether ==
  /\ outcome = "resolved" => Unresolved = {}
  /\ \A c \in Declared(constants) \ Unresolved :
       LET v == Evaluated(c, values) IN v.ok /\ values[c.name] = v
  /\ outcome = "cycle" =>
       /\ Unresolved # {}
       /\ \A c \in Unresolved : \E d \in Unresolved : d.name \in Mentions(c.init)
  /\ outcome \notin {"running", "resolved", "cycle"} =>
       \E c \in Unresolved : Evaluated(c, values).rule = outcome

-----------------------------------------------------------------------------
(* What the passes rely on. *)

\* No name is declared twice, and each one that is used is declared.
IsProject(p) ==
  /\ p \in Seq(Declared(p))
  /\ \A i, j \in DOMAIN p : p[i].name = p[j].name => i = j
  /\ \A i \in DOMAIN p : Mentions(p[i].init) \subseteq {d.name : d \in Declared(p)}

Extends(more, known) ==
  DOMAIN known \subseteq DOMAIN more /\ \A n \in DOMAIN known : more[n] = known[n]

\* Names with a value each.
AreKnown(known) ==
  /\ known = [n \in DOMAIN known |-> known[n]]
  /\ \A n \in DOMAIN known : known[n].ok = TRUE /\ known[n].rule = "none"

\* The evaluator looks names up and nothing else: what does not end at an unknown name
\* comes to the same whatever else is known.
IsSteady(c, known, more) ==
  LET v == Evaluated(c, known)
  IN /\ v.ok = (v.rule = "none")
     /\ v.rule \notin {"running", "resolved", "cycle"}
     /\ v.rule = "CONSTANT-NAME" => \E n \in Mentions(c.init) : n \notin DOMAIN known
     /\ v.rule # "CONSTANT-NAME" /\ Extends(more, known) => Evaluated(c, more) = v
===============================================================================
