-------------------------------- MODULE Parser --------------------------------
(***************************************************************************)
(* The parser of the Python bootstrap compiler (openc/parser.py), as        *)
(* operators from a position in a sequence of tokens to a result: the node *)
(* that was read, the position after it, and whether a syntax error has    *)
(* been raised, which leaves every caller up to the top level at once.     *)
(*                                                                         *)
(* A token is its text. Spans, the texts of messages and the contexts that *)
(* only choose a message are left out.                                     *)
(***************************************************************************)
EXTENDS Naturals, Sequences, SequencesExt

CONSTANTS Identifiers, Integers, Texts

EndOfFile == "<eof>"
UnsignedTypes == {"u8"}
Primitives == {"i32", "bool", "text", "status"} \union UnsignedTypes
\* The words expect_identifier refuses. Names of types, external and layout are
\* identifiers like any other.
Reserved ==
  {"import", "export", "struct", "resource", "enum", "const", "unsafe", "void", "own", "out",
   "when", "ref", "ptr", "optional", "storage", "if", "else", "while", "for", "switch", "case",
   "default", "break", "continue", "return", "scope", "cast", "cast_unchecked", "reinterpret",
   "construct", "destroy", "size_of", "align_of", "true", "false", "null", "none"}
IsIdentifier(t) == t \in Identifiers \union Primitives \union {"external", "layout"}
IsWord(t) == IsIdentifier(t) \/ t \in Reserved

Assignments == {"=", "+=", "-="}
Unaries == {"!", "~", "+", "-", "&", "*"}
Levels == <<{"||"}, {"&&"}, {"|"}, {"^"}, {"&"}, {"==", "!="}, {"<", "<=", ">", ">="},
            {"<<", ">>"}, {"+", "-"}, {"*", "/", "%"}>>
IsBinary(t) == \E l \in DOMAIN Levels : t \in Levels[l]
Precedence(t) == CHOOSE l \in DOMAIN Levels : t \in Levels[l]

\* current: the last token ends the file and is never passed.
Tok(ts, at) == IF at > Len(ts) THEN EndOfFile ELSE ts[at]
AtEnd(ts, at) == Tok(ts, at) = EndOfFile

Nothing == [op |-> "nothing"]
Read(node, at) == [node |-> node, at |-> at, bad |-> FALSE]
Bad(at) == [node |-> Nothing, at |-> at, bad |-> TRUE]

\* Go on with what was read, unless an error was raised.
Then(r, Rest(_, _)) == IF r.bad THEN r ELSE Rest(r.node, r.at)

Expect(ts, r, t) ==
  IF r.bad THEN r
  ELSE IF Tok(ts, r.at) = t THEN [r EXCEPT !.at = @ + 1] ELSE Bad(r.at)

Identifier(ts, at) == IF IsIdentifier(Tok(ts, at)) THEN Read(Tok(ts, at), at + 1) ELSE Bad(at)

RECURSIVE NameFrom(_, _, _)
NameFrom(ts, parts, at) ==
  IF Tok(ts, at) # "." THEN Read(parts, at)
  ELSE Then(Identifier(ts, at + 1), LAMBDA part, next : NameFrom(ts, Append(parts, part), next))

QualifiedName(ts, at) ==
  IF IsIdentifier(Tok(ts, at)) THEN NameFrom(ts, <<Tok(ts, at)>>, at + 1) ELSE Bad(at)

RECURSIVE Expression(_, _, _, _), Climb(_, _, _, _), Unary(_, _, _), Postfix(_, _, _),
          ListOf(_, _, _, _, _), Element(_, _, _, _), Type(_, _), Statement(_, _),
          Items(_, _, _), Cases(_, _, _)

\* The lists of the language: what they hold and the token that closes them. A
\* comma before that token is allowed in initializers.
Closing(what) == IF what \in {"argument", "parameter"} THEN ")" ELSE "}"
Trailing(what) == what \in {"value", "field", "status", "item"}

ListOf(ts, what, items, at, constant) ==
  Then(Element(ts, what, at, constant), LAMBDA x, next :
    LET all == Append(items, x)
        comma == Tok(ts, next) = ","
    IN IF comma /\ ~(Trailing(what) /\ Tok(ts, next + 1) = Closing(what))
       THEN ListOf(ts, what, all, next + 1, constant)
       ELSE Read(all, IF comma THEN next + 1 ELSE next))

\* A list that may be empty, with its closing token.
Listed(ts, what, at, constant) ==
  IF Tok(ts, at) = Closing(what) THEN Read(<<>>, at + 1)
  ELSE Expect(ts, ListOf(ts, what, <<>>, at, constant), Closing(what))

-----------------------------------------------------------------------------
(* Types. *)

Named(name) == [cons |-> "named", name |-> name, const |-> FALSE]

\* parse_named_type: the suffix of an array or, where values are declared, a slice.
NamedType(ts, at, suffix) ==
  Then(QualifiedName(ts, at), LAMBDA name, next :
    CASE suffix = "none" \/ Tok(ts, next) # "[" -> Read(Named(name), next)
      [] Tok(ts, next + 1) = "]" ->
           IF suffix # "value" THEN Bad(next)
           ELSE Read([cons |-> "slice", inner |-> Named(name), const |-> FALSE], next + 2)
      [] OTHER ->
           Expect(ts, Then(Expression(ts, next + 1, 0, TRUE), LAMBDA length, last :
                        Read([cons |-> "array", inner |-> Named(name), length |-> length,
                              const |-> FALSE], last)), "]"))

Constructed(cons, r, const) ==
  Then(r, LAMBDA inner, next : Read([cons |-> cons, inner |-> inner, const |-> const], next))

Type(ts, at) ==
  LET leading == Tok(ts, at) = "const"
      first == IF leading THEN at + 1 ELSE at
      const == Tok(ts, first + 1) = "const"
      after == IF const THEN first + 2 ELSE first + 1
  IN CASE Tok(ts, first) = "ref" ->
            IF leading THEN Bad(first) ELSE Constructed("ref", NamedType(ts, after, "array"), const)
       [] Tok(ts, first) = "ptr" ->
            IF leading THEN Bad(first) ELSE Constructed("ptr", NamedType(ts, after, "none"), const)
       [] Tok(ts, first) = "optional" ->
            Constructed("optional", NamedType(ts, first + 1, "array"), leading)
       [] Tok(ts, first) = "storage" ->
            IF leading THEN Bad(first)
            ELSE Constructed("storage", NamedType(ts, first + 1, "array"), FALSE)
       [] OTHER -> Then(NamedType(ts, first, "value"), LAMBDA t, next :
                          Read([t EXCEPT !.const = leading], next))

PtrType(ts, at) ==
  LET const == Tok(ts, at + 1) = "const"
  IN IF Tok(ts, at) # "ptr" THEN Bad(at)
     ELSE Constructed("ptr", NamedType(ts, IF const THEN at + 2 ELSE at + 1, "none"), const)

-----------------------------------------------------------------------------
(* Expressions. constant bars what a constant expression may not hold. *)

Climb(ts, left, min, constant) ==
  Then(left, LAMBDA l, at :
    LET op == Tok(ts, at)
    IN IF op \in Assignments /\ min <= 0 /\ ~constant
       THEN Climb(ts, Then(Expression(ts, at + 1, 0, FALSE), LAMBDA r, next :
                        Read([op |-> "assign", sign |-> op, left |-> l, right |-> r], next)),
                  min, constant)
       ELSE IF ~IsBinary(op) \/ Precedence(op) < min THEN left
       ELSE Climb(ts, Then(Expression(ts, at + 1, Precedence(op) + 1, constant), LAMBDA r, next :
                        Read([op |-> "binary", sign |-> op, left |-> l, right |-> r], next)),
                  min, constant))

Expression(ts, at, min, constant) == Climb(ts, Unary(ts, at, constant), min, constant)
Plain(ts, at) == Expression(ts, at, 0, FALSE)
ConstantExpression(ts, at) == Expression(ts, at, 0, TRUE)

Cast(ts, at, kind, constant) ==
  LET type == Expect(ts, Then(Expect(ts, Read(Nothing, at), "("), LAMBDA n, next : Type(ts, next)), ",")
  IN Then(type, LAMBDA t, next :
       Expect(ts, Then(Expression(ts, next, 0, constant), LAMBDA v, last :
                    Read([op |-> "cast", kind |-> kind, type |-> t, value |-> v], last)), ")"))

Construct(ts, at) ==
  LET name == Expect(ts, Then(Expect(ts, Read(Nothing, at), "("), LAMBDA n, next :
                           QualifiedName(ts, next)), ",")
      place(next) == Expect(ts, Plain(ts, next), ",")
  IN Then(name, LAMBDA type, next :
       Then(place(next), LAMBDA storage, then :
         Expect(ts, Then(Plain(ts, then), LAMBDA v, last :
                Read([op |-> "construct", named |-> type, storage |-> storage, value |-> v], last)),
                ")")))

Destroy(ts, at) ==
  Then(Expect(ts, Read(Nothing, at), "("), LAMBDA n, next :
    Expect(ts, Then(Plain(ts, next), LAMBDA v, last :
                 Read([op |-> "destroy", value |-> v], last)), ")"))

TypeQuery(ts, at, query) ==
  Then(Expect(ts, Read(Nothing, at), "("), LAMBDA n, next :
    Expect(ts, Then(Type(ts, next), LAMBDA t, last :
                 Read([op |-> query, type |-> t], last)), ")"))

Casts == [cast |-> "checked", cast_unchecked |-> "unchecked", reinterpret |-> "reinterpret"]
NotConstant == {"cast_unchecked", "reinterpret", "construct", "destroy", "&", "*"}

Unary(ts, at, constant) ==
  LET t == Tok(ts, at)
  IN CASE constant /\ t \in NotConstant -> Bad(at)
       [] t \in Unaries -> Then(Unary(ts, at + 1, constant), LAMBDA x, next :
                                  Read([op |-> "unary", sign |-> t, value |-> x], next))
       [] t \in DOMAIN Casts -> Cast(ts, at + 1, Casts[t], constant)
       [] t = "construct" -> Construct(ts, at + 1)
       [] t = "destroy" -> Destroy(ts, at + 1)
       [] t \in {"size_of", "align_of"} -> TypeQuery(ts, at + 1, t)
       [] OTHER -> Postfix(ts, [node |-> Nothing, at |-> at, bad |-> FALSE], constant)

\* field = value, of a status or of an aggregate; own takes a name only.
FieldInit(ts, at, own, constant) ==
  Then(Expect(ts, Identifier(ts, at), "="), LAMBDA name, next :
    Then(IF own THEN Then(QualifiedName(ts, next), LAMBDA n, last :
                            Read([op |-> "name", parts |-> n], last))
         ELSE Expression(ts, next, 0, constant), LAMBDA v, last :
      Read([own |-> own, name |-> name, value |-> v], last)))

StatusInit(ts, at) ==
  LET fields == Listed(ts, "status", at, FALSE)
      names == [i \in DOMAIN fields.node |-> fields.node[i].name]
  IN IF fields.bad THEN fields
     ELSE IF ~IsInjective(names) THEN Bad(at)
     ELSE IF "code" \notin ToSet(names) THEN Bad(fields.at)
     ELSE Read([op |-> "status", fields |-> fields.node], fields.at)

AggregateInit(ts, at, type, constant) ==
  Then(Listed(ts, "field", at, constant), LAMBDA fields, next :
    Read([op |-> "aggregate", named |-> type, fields |-> fields], next))

ArrayInit(ts, at, constant) ==
  Then(Listed(ts, "value", at, constant), LAMBDA values, next :
    Read([op |-> "array", values |-> values], next))

\* A name in front of a brace begins an aggregate, whatever the brace was meant for.
\* status is passed over when no brace follows: what stands after it is read alone.
Primary(ts, at, constant) ==
  LET t == Tok(ts, at)
      first == IF t = "status" THEN at + 1 ELSE at
  IN CASE t \in Integers \union Texts \union {"true", "false", "null", "none"} ->
            Read([op |-> "literal", text |-> t], at + 1)
       [] t = "status" /\ Tok(ts, first) = "{" -> StatusInit(ts, first + 1)
       [] t = "{" -> ArrayInit(ts, at + 1, constant)
       [] Tok(ts, first) = "(" -> Expect(ts, Expression(ts, first + 1, 0, constant), ")")
       [] IsIdentifier(t) -> Then(QualifiedName(ts, first), LAMBDA name, next :
                              IF Tok(ts, next) = "{"
                              THEN AggregateInit(ts, next + 1, name, constant)
                              ELSE Read([op |-> "name", parts |-> name], next))
       [] OTHER -> Bad(at)

Argument(ts, at) ==
  LET out == Tok(ts, at) = "out"
  IN Then(Plain(ts, IF out THEN at + 1 ELSE at), LAMBDA v, next : Read([out |-> out, value |-> v], next))

\* Brackets after an expression: an index, or a range with either end left out.
Bracket(ts, at, base, constant) ==
  LET absent == Tok(ts, at) \in {"..", "]"}
      first == IF absent THEN Read(Nothing, at) ELSE Expression(ts, at, 0, constant)
  IN Then(first, LAMBDA low, next :
       IF Tok(ts, next) = ".."
       THEN Expect(ts, Then(IF Tok(ts, next + 1) = "]" THEN Read(Nothing, next + 1)
                            ELSE Expression(ts, next + 1, 0, constant), LAMBDA high, last :
              Read([op |-> "range", base |-> base, low |-> low, high |-> high], last)), "]")
       ELSE IF absent THEN Bad(next)
       ELSE Expect(ts, Read([op |-> "index", base |-> base, index |-> low], next), "]"))

\* The node is Nothing before the primary expression has been read.
Postfix(ts, r, constant) ==
  Then(r, LAMBDA x, at :
    CASE x = Nothing -> Postfix(ts, Primary(ts, at, constant), constant)
      [] Tok(ts, at) = "(" ->
           IF constant THEN Bad(at)
           ELSE Postfix(ts, Then(Listed(ts, "argument", at + 1, FALSE), LAMBDA args, next :
                              Read([op |-> "call", fn |-> x, args |-> args], next)), constant)
      [] Tok(ts, at) = "." ->
           Postfix(ts, Then(Identifier(ts, at + 1), LAMBDA m, next :
                         Read([op |-> "member", base |-> x, field |-> m], next)), constant)
      [] Tok(ts, at) = "[" -> Postfix(ts, Bracket(ts, at + 1, x, constant), constant)
      [] OTHER -> r)

-----------------------------------------------------------------------------
(* Conditional compilation: conditions have a grammar of their own, in which *)
(* every name of the build context is qualified.                              *)

WhenLevels == <<{"||"}, {"&&"}, {"==", "!="}, {"<", "<=", ">", ">="}>>

RECURSIVE WhenCondition(_, _, _), WhenMore(_, _, _)

WhenPrimary(ts, at) ==
  LET t == Tok(ts, at)
  IN CASE t = "!" -> Then(WhenCondition(ts, at + 1, 5), LAMBDA x, next :
                            Read([op |-> "unary", sign |-> "!", value |-> x], next))
       [] t = "(" -> Expect(ts, WhenCondition(ts, at + 1, 1), ")")
       [] t \in Integers \union Texts \union {"true", "false"} ->
            Read([op |-> "literal", text |-> t], at + 1)
       [] t \in {"+", "-"} /\ Tok(ts, at + 1) \in Integers ->
            Read([op |-> "signed", sign |-> t, text |-> Tok(ts, at + 1)], at + 2)
       [] IsIdentifier(t) -> Then(QualifiedName(ts, at), LAMBDA name, next :
                               IF Len(name) = 1 THEN Bad(next)
                               ELSE Read([op |-> "name", parts |-> name], next))
       [] OTHER -> Bad(at)

\* Comparisons do not chain; && and || do, to the left.
WhenMore(ts, left, level) ==
  Then(left, LAMBDA l, at :
    IF Tok(ts, at) \notin WhenLevels[level] THEN left
    ELSE LET both == Then(WhenCondition(ts, at + 1, level + 1), LAMBDA r, next :
                       Read([op |-> "binary", sign |-> Tok(ts, at), left |-> l, right |-> r], next))
         IN IF level > 2 THEN both ELSE WhenMore(ts, both, level))

WhenCondition(ts, at, level) ==
  IF level > Len(WhenLevels) THEN WhenPrimary(ts, at)
  ELSE WhenMore(ts, WhenCondition(ts, at, level + 1), level)

-----------------------------------------------------------------------------
(* Statements. *)

StatementWords == {"if", "else", "while", "for", "switch", "case", "default", "break",
                   "continue", "return", "scope", "unsafe", "when"}
TypeWords == {"ref", "ptr", "optional", "storage", "const"} \union Primitives

RECURSIVE AfterDots(_, _)
AfterDots(ts, at) == IF Tok(ts, at + 1) = "." THEN AfterDots(ts, at + 2) ELSE at

\* A mistake: the dots of a qualified name are not passed over.
LooksNextDoor(ts, at) ==
  /\ Tok(ts, at) \notin StatementWords
  /\ Tok(ts, at) \in TypeWords
       \/ (IsWord(Tok(ts, at)) /\ (IsWord(Tok(ts, at + 1)) \/ Tok(ts, at + 1) = "["))

\* A name followed by a name or by a bracket is taken for a type.
LooksLikeLocalDecl(ts, at) ==
  LET after == Tok(ts, AfterDots(ts, at) + 1)
  IN /\ Tok(ts, at) \notin StatementWords
     /\ Tok(ts, at) \in TypeWords \/ (IsWord(Tok(ts, at)) /\ (IsWord(after) \/ after = "["))

Initializer(ts, at) ==
  IF Tok(ts, at) = "=" THEN Plain(ts, at + 1) ELSE Read(Nothing, at)

\* A declaration up to its semicolon, as in a block and in the header of a for.
LocalHead(ts, at) ==
  Then(Type(ts, at), LAMBDA type, n : Then(Identifier(ts, n), LAMBDA name, next :
    Then(Initializer(ts, next), LAMBDA init, last :
      Read([kind |-> "local", type |-> type, name |-> name, init |-> init], last))))

LocalDecl(ts, at) == Expect(ts, LocalHead(ts, at), ";")

Block(ts, at) == IF Tok(ts, at) = "{" THEN Items(ts, <<>>, at + 1) ELSE Bad(at)

Items(ts, items, at) ==
  IF Tok(ts, at) = "}" THEN Read(items, at + 1)
  ELSE IF AtEnd(ts, at) THEN Bad(at)
  ELSE Then(IF LooksLikeLocalDecl(ts, at) THEN LocalDecl(ts, at) ELSE Statement(ts, at),
            LAMBDA item, next : Items(ts, Append(items, item), next))

RECURSIVE If(_, _)
\* An else if is an if of its own in the else branch.
If(ts, at) ==
  Then(Plain(ts, at), LAMBDA cond, n : Then(Block(ts, n), LAMBDA yes, next :
    LET no == CASE Tok(ts, next) # "else" -> Read(<<>>, next)
                [] Tok(ts, next + 1) = "if" ->
                     Then(If(ts, next + 2), LAMBDA s, last : Read(<<s>>, last))
                [] OTHER -> Block(ts, next + 1)
    IN Then(no, LAMBDA else, last :
         Read([kind |-> "if", cond |-> cond, then |-> yes, else |-> else], last))))

While(ts, at) ==
  Then(Plain(ts, at), LAMBDA cond, n : Then(Block(ts, n), LAMBDA body, next :
    Read([kind |-> "while", cond |-> cond, body |-> body], next)))

\* Each part of the header may be left out.
For(ts, at) ==
  LET init == CASE Tok(ts, at) = ";" -> Read(Nothing, at)
                [] LooksLikeLocalDecl(ts, at) -> LocalHead(ts, at)
                [] OTHER -> Plain(ts, at)
      optional(from, stop) == IF Tok(ts, from) = stop THEN Read(Nothing, from) ELSE Plain(ts, from)
  IN Then(Expect(ts, init, ";"), LAMBDA i, n1 :
       Then(Expect(ts, optional(n1, ";"), ";"), LAMBDA c, n2 :
         Then(optional(n2, "{"), LAMBDA u, n3 : Then(Block(ts, n3), LAMBDA body, next :
           Read([kind |-> "for", init |-> i, cond |-> c, update |-> u, body |-> body], next)))))

Cases(ts, cases, at) ==
  LET t == Tok(ts, at)
      label == CASE t = "case" -> ConstantExpression(ts, at + 1)
                 [] t = "default" /\ \A c \in ToSet(cases) : c.label # Nothing -> Read(Nothing, at + 1)
                 [] OTHER -> Bad(at)
  IN IF t = "}" THEN Read(cases, at + 1)
     ELSE Then(label, LAMBDA l, n : Then(Block(ts, n), LAMBDA body, next :
            Cases(ts, Append(cases, [label |-> l, body |-> body]), next)))

Switch(ts, at) ==
  Then(Expect(ts, Plain(ts, at), "{"), LAMBDA v, n : Then(Cases(ts, <<>>, n), LAMBDA cases, next :
    Read([kind |-> "switch", subject |-> v, cases |-> cases], next)))

Return(ts, at) ==
  LET value == IF Tok(ts, at) = ";" THEN Read(Nothing, at) ELSE Plain(ts, at)
  IN Expect(ts, Then(value, LAMBDA v, next : Read([kind |-> "return", value |-> v], next)), ";")

WhenStmt(ts, at) ==
  Then(WhenCondition(ts, at, 1), LAMBDA c, n : Then(Block(ts, n), LAMBDA body, next :
    Read([kind |-> "when", cond |-> c, body |-> body], next)))

Scope(ts, at) ==
  Then(Plain(ts, at), LAMBDA action, next :
    IF action.op \notin {"call", "destroy"} THEN Bad(next)
    ELSE Expect(ts, Read([kind |-> "scope", action |-> action], next), ";"))

Statement(ts, at) ==
  LET t == Tok(ts, at)
      enclosing(kind, r) == Then(r, LAMBDA items, next : Read([kind |-> kind, body |-> items], next))
  IN CASE t = "{" -> enclosing("block", Block(ts, at))
       [] t = "if" -> If(ts, at + 1)
       [] t = "while" -> While(ts, at + 1)
       [] t = "for" -> For(ts, at + 1)
       [] t = "switch" -> Switch(ts, at + 1)
       [] t \in {"break", "continue"} -> Expect(ts, Read([kind |-> t], at + 1), ";")
       [] t = "return" -> Return(ts, at + 1)
       [] t = "scope" -> Scope(ts, at + 1)
       [] t = "unsafe" -> enclosing("unsafe", Block(ts, at + 1))
       [] t = "when" -> WhenStmt(ts, at + 1)
       [] OTHER -> Expect(ts, Then(Plain(ts, at), LAMBDA e, next :
                                Read([kind |-> "expr", expr |-> e], next)), ";")

-----------------------------------------------------------------------------
(* Declarations. *)

\* ref and own modes; own takes a pointer or the name of a resource.
Parameter(ts, at) ==
  LET out == Tok(ts, at) = "out"
      own == Tok(ts, IF out THEN at + 1 ELSE at) = "own"
      mode == IF out THEN (IF own THEN "out_own" ELSE "out") ELSE IF own THEN "own" ELSE "ordinary"
      first == at + (IF out THEN 1 ELSE 0) + (IF own THEN 1 ELSE 0)
      pointer == own /\ (out \/ Tok(ts, first) = "ptr")
      barred == Tok(ts, first) = "storage" \/ (out /\ Tok(ts, first) = "ref")
      type == CASE pointer -> PtrType(ts, first)
                [] own -> NamedType(ts, first, "none")
                [] barred -> Bad(first)
                [] OTHER -> Type(ts, first)
  IN Then(type, LAMBDA t, n : Then(Identifier(ts, n), LAMBDA name, next :
       Read([mode |-> mode, type |-> t, name |-> name], next)))

RECURSIVE Fields(_, _, _, _)
\* Fields of a struct or, with own pointers that have no default, of a resource.
Fields(ts, fields, at, resource) ==
  LET own == resource /\ Tok(ts, at) = "own"
      type == IF own THEN PtrType(ts, at + 1)
              ELSE IF Tok(ts, at) \in {"ref", "storage"} THEN Bad(at) ELSE Type(ts, at)
      default(n) == IF Tok(ts, n) # "=" THEN Read(Nothing, n)
                    ELSE IF own THEN Bad(n) ELSE ConstantExpression(ts, n + 1)
      field == Then(type, LAMBDA t, n : Then(Identifier(ts, n), LAMBDA name, next :
                 Expect(ts, Then(default(next), LAMBDA d, last :
                   Read([own |-> own, type |-> t, name |-> name, default |-> d], last)), ";")))
  IN IF Tok(ts, at) = "}" THEN Read(fields, at + 1)
     ELSE Then(field, LAMBDA f, next : Fields(ts, Append(fields, f), next, resource))

\* A semicolon after the closing brace is an error raised once it has been passed.
NoSemicolon(ts, r) == IF ~r.bad /\ Tok(ts, r.at) = ";" THEN Bad(r.at + 1) ELSE r

Struct(ts, at, exported, resource) ==
  NoSemicolon(ts, Then(Expect(ts, Identifier(ts, at), "{"), LAMBDA name, n :
    Then(Fields(ts, <<>>, n, resource), LAMBDA fields, next :
      Read([decl |-> IF resource THEN "resource" ELSE "struct", exported |-> exported,
            name |-> name, fields |-> fields], next))))

Enum(ts, at, exported) ==
  LET based == Tok(ts, at) \in UnsignedTypes
      base == IF based THEN Named(<<Tok(ts, at)>>) ELSE Nothing
      name == Identifier(ts, IF based THEN at + 1 ELSE at)
  IN NoSemicolon(ts, Then(Expect(ts, name, "{"), LAMBDA t, n :
       Then(Listed(ts, "item", n, TRUE), LAMBDA items, next :
         Read([decl |-> "enum", exported |-> exported, name |-> t, base |-> base, items |-> items],
              next))))

Constant(ts, at, exported) ==
  IF Tok(ts, at) \in {"ref", "storage"} THEN Bad(at)
  ELSE Then(Type(ts, at), LAMBDA t, n : Then(Expect(ts, Identifier(ts, n), "="), LAMBDA name, next :
         Expect(ts, Then(ConstantExpression(ts, next), LAMBDA v, last :
           Read([decl |-> "const", exported |-> exported, type |-> t, name |-> name, value |-> v],
                last)), ";")))

FunctionHead(ts, at, exported) ==
  LET unsafe == Tok(ts, at) = "unsafe"
      first == IF unsafe THEN at + 1 ELSE at
      t == Tok(ts, first)
      result == CASE t = "void" -> Read(Nothing, first + 1)
                  [] t = "own" -> PtrType(ts, first + 1)
                  [] t = "storage" -> Bad(first)
                  [] OTHER -> Type(ts, first)
  IN Then(result, LAMBDA r, n : Then(Expect(ts, Identifier(ts, n), "("), LAMBDA name, next :
       Then(Listed(ts, "parameter", next, FALSE), LAMBDA params, last :
         Read([decl |-> "function", exported |-> exported, unsafe |-> unsafe, own |-> t = "own",
               result |-> r, name |-> name, params |-> params], last))))

\* The head with the body, or with the semicolon of a function declared outside.
Function(ts, at, exported, external) ==
  LET body(n) == IF external # Nothing THEN Expect(ts, Read(<<>>, n), ";") ELSE Block(ts, n)
  IN Then(FunctionHead(ts, at, exported), LAMBDA h, n : Then(body(n), LAMBDA b, next :
       Read([fn |-> h, external |-> external, body |-> b], next)))

\* external(ABI) or external(ABI, "symbol") in front of a function.
External(ts, at, exported) ==
  LET abi == Then(Expect(ts, Read(Nothing, at), "("), LAMBDA n, next : Identifier(ts, next))
      symbol(next) == CASE Tok(ts, next) # "," -> Read(Nothing, next)
                        [] Tok(ts, next + 1) \in Texts ->
                             Read([op |-> "literal", text |-> Tok(ts, next + 1)], next + 2)
                        [] OTHER -> Bad(next + 1)
  IN Then(abi, LAMBDA a, n : Then(Expect(ts, symbol(n), ")"), LAMBDA s, next :
       Function(ts, next, exported, [abi |-> a, symbol |-> s])))

\* layout(ABI) is for a struct; a function is refused at its body, and one declared
\* outside is not.
Layout(ts, at, exported) ==
  LET abi == Expect(ts, Then(Expect(ts, Read(Nothing, at), "("), LAMBDA n, next :
                          Identifier(ts, next)), ")")
  IN Then(abi, LAMBDA a, next :
       CASE Tok(ts, next) = "struct" ->
              Then(Struct(ts, next + 1, exported, FALSE), LAMBDA d, last :
                Read([layout |-> a, struct |-> d], last))
         [] Tok(ts, next) \in {"resource", "enum", "const"} -> Bad(next + 1)
         [] Tok(ts, next) = "external" -> External(ts, next + 1, exported)
         [] OTHER -> Then(FunctionHead(ts, next, exported), LAMBDA h, last : Bad(last)))

\* What an element of each kind of list is.
Element(ts, what, at, constant) ==
  LET own == Tok(ts, at) = "own"
      valued(name, n) == IF Tok(ts, n) # "=" THEN Read([name |-> name, value |-> Nothing], n)
                         ELSE Then(ConstantExpression(ts, n + 1), LAMBDA v, last :
                                Read([name |-> name, value |-> v], last))
  IN CASE what = "argument" -> Argument(ts, at)
       [] what = "parameter" -> Parameter(ts, at)
       [] what = "value" -> Expression(ts, at, 0, constant)
       [] what = "status" -> IF Tok(ts, at) \in {"code", "message"}
                             THEN FieldInit(ts, at, FALSE, FALSE) ELSE Bad(at + 1)
       [] what = "item" -> Then(Identifier(ts, at), valued)
       [] what = "field" /\ own /\ constant -> Bad(at)
       [] what = "field" -> FieldInit(ts, IF own THEN at + 1 ELSE at, own, constant)

RECURSIVE TopDecl(_, _), WhenDecls(_, _, _)
WhenDecls(ts, decls, at) ==
  IF Tok(ts, at) = "}" THEN Read(decls, at + 1)
  ELSE IF AtEnd(ts, at) THEN Bad(at)
  ELSE Then(TopDecl(ts, at), LAMBDA d, next : WhenDecls(ts, Append(decls, d), next))

When(ts, at, exported) ==
  Then(Expect(ts, WhenCondition(ts, at, 1), "{"), LAMBDA c, n :
    Then(WhenDecls(ts, <<>>, n), LAMBDA decls, next :
      Read([decl |-> "when", exported |-> exported, cond |-> c, decls |-> decls], next)))

TopDecl(ts, at) ==
  LET exported == Tok(ts, at) = "export"
      first == IF exported THEN at + 1 ELSE at
      t == Tok(ts, first)
  IN CASE t = "struct" -> Struct(ts, first + 1, exported, FALSE)
       [] t = "resource" -> Struct(ts, first + 1, exported, TRUE)
       [] t = "enum" -> Enum(ts, first + 1, exported)
       [] t = "const" -> Constant(ts, first + 1, exported)
       [] t = "external" -> External(ts, first + 1, exported)
       [] t = "layout" -> Layout(ts, first + 1, exported)
       [] t = "when" -> When(ts, first + 1, exported)
       [] OTHER -> Function(ts, first, exported, Nothing)

RECURSIVE Synchronize(_, _), TopDecls(_, _, _), Imports(_, _, _)
\* The position after the next semicolon or closing brace.
Synchronize(ts, at) ==
  IF AtEnd(ts, at) THEN at
  ELSE IF Tok(ts, at) \in {";", "}"} THEN at + 1 ELSE Synchronize(ts, at + 1)

\* An error ends its declaration only; errors counts them.
TopDecls(ts, unit, at) ==
  LET r == TopDecl(ts, at)
      synchronized == Synchronize(ts, r.at)
  IN IF AtEnd(ts, at) THEN unit
     ELSE IF r.bad
          THEN TopDecls(ts, [unit EXCEPT !.errors = @ + 1],
                        IF synchronized = at THEN at + 1 ELSE synchronized)
     ELSE TopDecls(ts, [unit EXCEPT !.decls = Append(@, r.node)], r.at)

\* An error in an import ends the parse of the source.
Imports(ts, imports, at) ==
  IF Tok(ts, at) # "import" THEN Read(imports, at)
  ELSE Then(Expect(ts, QualifiedName(ts, at + 1), ";"), LAMBDA m, next :
         Imports(ts, Append(imports, m), next))

SourceUnit(ts) ==
  LET imports == Imports(ts, <<>>, 1)
      unit == [imports |-> imports.node, decls |-> <<>>, errors |-> IF imports.bad THEN 1 ELSE 0]
  IN IF imports.bad THEN unit ELSE TopDecls(ts, unit, imports.at)
===============================================================================
