---------------------------- MODULE ParsedSources ----------------------------
(***************************************************************************)
(* Sources given to the parser of the Python bootstrap compiler: trees     *)
(* built operator by operator, placed at every place of a source that can  *)
(* hold them, written down as the grammar of OpenC Core writes them, and   *)
(* parsed again. The way they are written is the reference the parser is   *)
(* held to: parentheses stand where the precedence table of the grammar    *)
(* needs them and nowhere else. (construct has the three parts that the    *)
(* parser and its tests give it; the grammar names two.)                   *)
(***************************************************************************)
EXTENDS Naturals, Sequences, FiniteSets, SequencesExt

CONSTANTS
  MaxOperators    \* bound: operators of a tree

VARIABLES tree, operators, parsed

treeVars == <<tree, operators, parsed>>

Names == {"a", "b", "f", "code", "message"}
P == INSTANCE Parser WITH Identifiers <- Names, Integers <- {"1"}, Texts <- {"'t'"}

-----------------------------------------------------------------------------
(* How a tree is written. *)

Absent == [op |-> "nothing"]

\* Level of a tree: 0 an assignment, 1 to 10 the binary operators, then unary and
\* primary expressions.
OperatorLevels == <<{"||"}, {"&&"}, {"|"}, {"^"}, {"&"}, {"==", "!="}, {"<", "<=", ">", ">="},
                    {"<<", ">>"}, {"+", "-"}, {"*", "/", "%"}>>
LevelOfSign(s) == CHOOSE l \in DOMAIN OperatorLevels : s \in OperatorLevels[l]
LevelOf(e) ==
  CASE e.op = "assign" -> 0
    [] e.op = "binary" -> LevelOfSign(e.sign)
    [] e.op \in {"unary", "cast", "construct", "destroy", "size_of", "align_of"} -> 11
    [] OTHER -> 12

Joined(texts, between) ==
  FoldLeft(LAMBDA acc, t : IF acc = <<>> THEN t ELSE acc \o <<between>> \o t, <<>>, texts)

Dotted(parts) == Joined([i \in DOMAIN parts |-> <<parts[i]>>], ".")
ConstMark(t) == IF t.const THEN <<"const">> ELSE <<>>

RECURSIVE TextOf(_, _), TypeText(_)

TypeText(t) ==
  CASE t.cons = "named" -> ConstMark(t) \o Dotted(t.name)
    [] t.cons = "slice" -> ConstMark(t) \o TypeText(t.inner) \o <<"[", "]">>
    [] t.cons = "array" -> ConstMark(t) \o TypeText(t.inner) \o <<"[">> \o TextOf(t.length, 0) \o <<"]">>
    [] t.cons \in {"ref", "ptr"} -> <<t.cons>> \o ConstMark(t) \o TypeText(t.inner)
    [] t.cons = "optional" -> ConstMark(t) \o <<"optional">> \o TypeText(t.inner)
    [] t.cons = "storage" -> <<"storage">> \o TypeText(t.inner)

FieldText(f) ==
  (IF f.own THEN <<"own">> ELSE <<>>) \o <<f.name, "=">> \o TextOf(f.value, 0)

All(items, Text(_)) == Joined([i \in DOMAIN items |-> Text(items[i])], ",")

CastWord == [checked |-> "cast", unchecked |-> "cast_unchecked", reinterpret |-> "reinterpret"]

Written(e) ==
  CASE e.op = "nothing" -> <<>>
    [] e.op = "literal" -> <<e.text>>
    [] e.op = "name" -> Dotted(e.parts)
    [] e.op = "assign" -> TextOf(e.left, 1) \o <<e.sign>> \o TextOf(e.right, 0)
    [] e.op = "binary" -> TextOf(e.left, LevelOf(e)) \o <<e.sign>> \o TextOf(e.right, LevelOf(e) + 1)
    [] e.op = "unary" -> <<e.sign>> \o TextOf(e.value, 11)
    [] e.op = "call" ->
         TextOf(e.fn, 12) \o <<"(">>
           \o All(e.args, LAMBDA a : (IF a.out THEN <<"out">> ELSE <<>>) \o TextOf(a.value, 0)) \o <<")">>
    [] e.op = "member" -> TextOf(e.base, 12) \o <<".", e.field>>
    [] e.op = "index" -> TextOf(e.base, 12) \o <<"[">> \o TextOf(e.index, 0) \o <<"]">>
    [] e.op = "range" ->
         TextOf(e.base, 12) \o <<"[">> \o TextOf(e.low, 0) \o <<"..">> \o TextOf(e.high, 0) \o <<"]">>
    [] e.op = "cast" ->
         <<CastWord[e.kind], "(">> \o TypeText(e.type) \o <<",">> \o TextOf(e.value, 0) \o <<")">>
    [] e.op = "construct" ->
         <<"construct", "(">> \o Dotted(e.named) \o <<",">> \o TextOf(e.storage, 0) \o <<",">>
           \o TextOf(e.value, 0) \o <<")">>
    [] e.op = "destroy" -> <<"destroy", "(">> \o TextOf(e.value, 0) \o <<")">>
    [] e.op \in {"size_of", "align_of"} -> <<e.op, "(">> \o TypeText(e.type) \o <<")">>
    [] e.op = "status" -> <<"status", "{">> \o All(e.fields, FieldText) \o <<"}">>
    [] e.op = "aggregate" -> Dotted(e.named) \o <<"{">> \o All(e.fields, FieldText) \o <<"}">>
    [] e.op = "array" -> <<"{">> \o All(e.values, LAMBDA v : TextOf(v, 0)) \o <<"}">>

Bracketed(e, level) == LevelOf(e) < level

TextOf(e, level) ==
  IF e.op # "nothing" /\ Bracketed(e, level) THEN <<"(">> \o Written(e) \o <<")">> ELSE Written(e)

-----------------------------------------------------------------------------
UpdateOf(e) == IF e = Absent THEN <<>> ELSE Written(e)

RECURSIVE BlockText(_)

LocalText(s) ==
  TypeText(s.type) \o <<s.name>>
    \o (IF s.init = Absent THEN <<>> ELSE <<"=">> \o TextOf(s.init, 0))

RECURSIVE StatementText(_)
ElseText(s) ==
  CASE s.else = <<>> -> <<>>
    [] Len(s.else) = 1 /\ s.else[1].kind = "if" -> <<"else">> \o StatementText(s.else[1])
    [] OTHER -> <<"else">> \o BlockText(s.else)

CaseText(c) ==
  (IF c.label = Absent THEN <<"default">> ELSE <<"case">> \o Written(c.label)) \o BlockText(c.body)

StatementText(s) ==
  CASE s.kind = "local" -> LocalText(s) \o <<";">>
    [] s.kind = "expr" -> TextOf(s.expr, 0) \o <<";">>
    [] s.kind = "block" -> BlockText(s.body)
    [] s.kind = "if" -> <<"if">> \o Written(s.cond) \o BlockText(s.then) \o ElseText(s)
    [] s.kind = "while" -> <<"while">> \o Written(s.cond) \o BlockText(s.body)
    [] s.kind = "for" ->
         <<"for">> \o (IF "kind" \in DOMAIN s.init THEN LocalText(s.init) ELSE TextOf(s.init, 0))
           \o <<";">> \o TextOf(s.cond, 0) \o <<";">>
           \o UpdateOf(s.update) \o BlockText(s.body)
    [] s.kind = "switch" ->
         <<"switch">> \o Written(s.subject) \o <<"{">>
           \o FlattenSeq([i \in DOMAIN s.cases |-> CaseText(s.cases[i])]) \o <<"}">>
    [] s.kind \in {"break", "continue"} -> <<s.kind, ";">>
    [] s.kind = "return" -> <<"return">> \o TextOf(s.value, 0) \o <<";">>
    [] s.kind = "scope" -> <<"scope">> \o TextOf(s.action, 0) \o <<";">>
    [] s.kind = "unsafe" -> <<"unsafe">> \o BlockText(s.body)
    [] s.kind = "when" -> <<"when">> \o TextOf(s.cond, 0) \o BlockText(s.body)

BlockText(items) ==
  <<"{">> \o FlattenSeq([i \in DOMAIN items |-> StatementText(items[i])]) \o <<"}">>

-----------------------------------------------------------------------------
ModeText ==
  [out |-> <<"out">>, out_own |-> <<"out", "own">>, own |-> <<"own">>, ordinary |-> <<>>]
Mark(word, present) == IF present THEN <<word>> ELSE <<>>
ParamText(p) == ModeText[p.mode] \o TypeText(p.type) \o <<p.name>>

MemberText(f) ==
  Mark("own", f.own) \o TypeText(f.type) \o <<f.name>>
    \o (IF f.default = Absent THEN <<>> ELSE <<"=">> \o TextOf(f.default, 0)) \o <<";">>

ItemText(i) == <<i.name>> \o (IF i.value = Absent THEN <<>> ELSE <<"=">> \o TextOf(i.value, 0))

StructText(d) ==
  <<d.decl, d.name, "{">> \o FlattenSeq([i \in DOMAIN d.fields |-> MemberText(d.fields[i])]) \o <<"}">>

HeadText(h) ==
  Mark("unsafe", h.unsafe) \o Mark("own", h.own)
    \o (IF h.result = Absent THEN <<"void">> ELSE TypeText(h.result))
    \o <<h.name, "(">> \o All(h.params, ParamText) \o <<")">>

ExternalText(x) ==
  <<"external", "(", x.abi>> \o (IF x.symbol = Absent THEN <<>> ELSE <<",", x.symbol.text>>) \o <<")">>

RECURSIVE DeclText(_)
DeclText(d) ==
  CASE "fn" \in DOMAIN d /\ d.external = Absent ->
         Mark("export", d.fn.exported) \o HeadText(d.fn) \o BlockText(d.body)
    [] "fn" \in DOMAIN d -> Mark("export", d.fn.exported) \o ExternalText(d.external)
                              \o HeadText(d.fn) \o <<";">>
    [] "layout" \in DOMAIN d -> Mark("export", d.struct.exported)
                                  \o <<"layout", "(", d.layout, ")">> \o StructText(d.struct)
    [] d.decl \in {"struct", "resource"} -> Mark("export", d.exported) \o StructText(d)
    [] d.decl = "enum" ->
         Mark("export", d.exported) \o <<"enum">>
           \o (IF d.base = Absent THEN <<>> ELSE TypeText(d.base))
           \o <<d.name, "{">> \o All(d.items, ItemText) \o <<"}">>
    [] d.decl = "const" ->
         Mark("export", d.exported) \o <<"const">> \o TypeText(d.type) \o <<d.name, "=">>
           \o TextOf(d.value, 0) \o <<";">>
    [] d.decl = "when" ->
         Mark("export", d.exported) \o <<"when">> \o TextOf(d.cond, 0) \o <<"{">>
           \o FlattenSeq([i \in DOMAIN d.decls |-> DeclText(d.decls[i])]) \o <<"}">>

UnitText(unit) ==
  FlattenSeq([i \in DOMAIN unit.imports |-> <<"import">> \o Dotted(unit.imports[i]) \o <<";">>])
    \o FlattenSeq([i \in DOMAIN unit.decls |-> DeclText(unit.decls[i])])

-----------------------------------------------------------------------------
(* How trees grow. *)

Leaf(n) == [op |-> "name", parts |-> <<n>>]
One == [op |-> "literal", text |-> "1"]
Leaves == {Leaf("a"), One}
I32 == P!Named(<<"i32">>)
Types ==
  {I32, [I32 EXCEPT !.const = TRUE], P!Named(<<"a", "b">>),
   [cons |-> "slice", inner |-> I32, const |-> FALSE],
   [cons |-> "array", inner |-> I32, length |-> One, const |-> TRUE],
   [cons |-> "optional", inner |-> I32, const |-> TRUE],
   [cons |-> "storage", inner |-> P!Named(<<"a">>), const |-> FALSE]}
    \union [cons : {"ref", "ptr"}, inner : {I32}, const : BOOLEAN]

Field(n, v) == [own |-> FALSE, name |-> n, value |-> v]
OwnField(n) == [own |-> TRUE, name |-> n, value |-> Leaf("a")]

TreeInit == tree \in Leaves /\ operators = 0 /\ parsed = FALSE

Binary(sign, l, r) == [op |-> "binary", sign |-> sign, left |-> l, right |-> r]

\* The trees that hold t under one operator more. A member of a name is a longer name:
\* the grammar writes both alike, and the parser leaves the choice to later passes.
Grown(t) ==
  {Binary(s, t, x) : s \in {"||", "&&", "==", "<", "+", "-", "*"}, x \in Leaves}
    \union {Binary(s, x, t) : s \in {"||", "&&", "==", "<", "+", "-", "*"}, x \in Leaves}
    \union {[op |-> "assign", sign |-> s, left |-> t, right |-> One] : s \in {"="}}
    \union {[op |-> "assign", sign |-> s, left |-> Leaf("b"), right |-> t] : s \in {"=", "+="}}
    \union {[op |-> "unary", sign |-> s, value |-> t] : s \in {"-", "!", "*"}}
    \union {[op |-> "call", fn |-> f, args |-> <<[out |-> o, value |-> t], [out |-> FALSE, value |-> One]>>] :
              f \in {Leaf("f")}, o \in BOOLEAN}
    \union {[op |-> "call", fn |-> t, args |-> <<>>],
            [op |-> "index", base |-> t, index |-> One], [op |-> "index", base |-> Leaf("b"), index |-> t],
            [op |-> "range", base |-> t, low |-> One, high |-> Absent],
            [op |-> "range", base |-> Leaf("b"), low |-> Absent, high |-> t],
            [op |-> "destroy", value |-> t], [op |-> "size_of", type |-> I32],
            [op |-> "construct", named |-> <<"a">>, storage |-> t, value |-> One],
            [op |-> "cast", kind |-> "checked", type |-> I32, value |-> t],
            [op |-> "cast", kind |-> "unchecked", type |-> I32, value |-> t],
            [op |-> "status", fields |-> <<Field("message", One), Field("code", t)>>],
            [op |-> "aggregate", named |-> <<"a", "b">>, fields |-> <<OwnField("a"), Field("b", t)>>],
            [op |-> "array", values |-> <<t, One>>]}
    \union {IF t.op = "name" THEN [t EXCEPT !.parts = Append(@, "b")]
            ELSE [op |-> "member", base |-> t, field |-> "b"]}

Grow ==
  /\ ~parsed /\ operators < MaxOperators
  /\ tree' \in Grown(tree)
  /\ operators' = operators + 1
  /\ UNCHANGED parsed

\* The sources that hold the tree are handed to parse_source_unit.
Parse ==
  /\ ~parsed /\ parsed' = TRUE
  /\ UNCHANGED <<tree, operators>>

TreeNext == Grow \/ Parse

-----------------------------------------------------------------------------
(* Where a tree can stand. *)

RECURSIVE AllowedInConstant(_)
\* What a constant expression may hold of the forms above.
AllowedInConstant(e) ==
  CASE e.op \in {"literal", "name", "size_of"} -> TRUE
    [] e.op = "binary" -> AllowedInConstant(e.left) /\ AllowedInConstant(e.right)
    [] e.op = "unary" -> e.sign # "*" /\ AllowedInConstant(e.value)
    [] e.op = "index" -> AllowedInConstant(e.base) /\ AllowedInConstant(e.index)
    [] e.op = "array" -> AllowedInConstant(e.values[1])
    [] OTHER -> FALSE

(* The three forms of statements that the look-ahead takes for something else. *)
BeginsWithBrace(e) == Written(e)[1] = "{"

\* A name, or names and dots, at the end of a head: an aggregate with the brace of the block.
EndsInName(e) ==
  LET text == Written(e)
  IN \E n \in DOMAIN text :
       /\ \A i \in n .. Len(text) : IF (i - n) % 2 = 0 THEN text[i] \in Names ELSE text[i] = "."
       /\ (Len(text) - n) % 2 = 0
       /\ n > 1 => text[n - 1] # "."

\* A name, dots and names, and a bracket, or the name of a type: a declaration.
StartsLikeDecl(e) ==
  LET text == Written(e)
  IN \/ text[1] = "status"
     \/ \E n \in 1 .. Len(text) - 1 :
          /\ text[n + 1] = "["
          /\ \A i \in 1 .. n : IF i % 2 = 1 THEN text[i] \in Names ELSE text[i] = "."

IsMisread(s) ==
  CASE s.kind \in {"if", "while"} -> EndsInName(s.cond)
    [] s.kind = "for" -> s.update # Absent /\ (EndsInName(s.update) \/ BeginsWithBrace(s.update))
    [] s.kind = "switch" -> \/ EndsInName(s.subject)
                           \/ \E i \in DOMAIN s.cases : /\ s.cases[i].label # Absent
                                                         /\ EndsInName(s.cases[i].label)
    [] s.kind = "expr" -> StartsLikeDecl(s.expr)
    [] OTHER -> FALSE

Local(t, e) == [kind |-> "local", type |-> t, name |-> "b", init |-> e]
Do(e) == [kind |-> "expr", expr |-> e]
Stop == [kind |-> "break"]

StatementsWith(e) ==
  {Local(I32, e), [kind |-> "return", value |-> e],
   [kind |-> "if", cond |-> e, then |-> <<Stop>>,
    else |-> <<[kind |-> "if", cond |-> e, then |-> <<>>, else |-> <<Stop>>]>>],
   [kind |-> "while", cond |-> e, body |-> <<[kind |-> "continue"]>>],
   [kind |-> "for", init |-> Local(I32, e), cond |-> e, update |-> e, body |-> <<Stop>>],
   [kind |-> "for", init |-> Absent, cond |-> Absent, update |-> Absent,
    body |-> <<[kind |-> "block", body |-> <<>>]>>],
   [kind |-> "switch", subject |-> e, cases |-> <<[label |-> One, body |-> <<Stop>>],
                                                  [label |-> Absent, body |-> <<>>]>>],
   [kind |-> "when", cond |-> Binary("==", [op |-> "name", parts |-> <<"a", "b">>], One),
    body |-> <<[kind |-> "unsafe", body |-> <<>>]>>]}
    \union (IF BeginsWithBrace(e) THEN {} ELSE {Do(e)})
    \union (IF e.op \in {"call", "destroy"} THEN {[kind |-> "scope", action |-> e]} ELSE {})

Fn(params, body) ==
  [fn |-> [decl |-> "function", exported |-> FALSE, unsafe |-> FALSE, own |-> FALSE,
           result |-> Absent, name |-> "f", params |-> params],
   external |-> Absent, body |-> body]

ConstantDecls(e) ==
  {[decl |-> "const", exported |-> TRUE, type |-> I32, name |-> "a", value |-> e],
   [decl |-> "struct", exported |-> FALSE, name |-> "a",
    fields |-> <<[own |-> FALSE, type |-> I32, name |-> "b", default |-> e]>>],
   [decl |-> "enum", exported |-> FALSE, name |-> "a", base |-> P!Named(<<"u8">>),
    items |-> <<[name |-> "b", value |-> e], [name |-> "f", value |-> Absent]>>],
   Fn(<<>>, <<[kind |-> "switch", subject |-> One,
               cases |-> <<[label |-> e, body |-> <<Stop>>]>>]>>)}

Ptr == [cons |-> "ptr", inner |-> I32, const |-> TRUE]
Own(t) == [mode |-> "own", type |-> t, name |-> "a"]

\* Declarations that hold no expression, one of each form.
OtherDecls ==
  {Fn(<<>>, <<Local(t, Absent)>>) : t \in Types}
    \union {Fn(<<Own(t), [mode |-> "out_own", type |-> Ptr, name |-> "b"],
                 [mode |-> "out", type |-> I32, name |-> "f"]>>, <<>>) : t \in {Ptr, P!Named(<<"a">>)}}
    \union {[Fn(<<>>, <<>>) EXCEPT !.external = [abi |-> "a", symbol |-> s], !.fn.own = TRUE,
                                   !.fn.result = Ptr] : s \in {Absent, [op |-> "literal", text |-> "'t'"]}}
    \union {[decl |-> "resource", exported |-> TRUE, name |-> "a",
             fields |-> <<[own |-> TRUE, type |-> Ptr, name |-> "b", default |-> Absent]>>],
            [layout |-> "a", struct |-> [decl |-> "struct", exported |-> TRUE, name |-> "b",
                                         fields |-> <<>>]]}

\* The sources that hold the tree, with an import before and a function after.
Units ==
  LET decls == {Fn(<<[mode |-> "ordinary", type |-> I32, name |-> "a"]>>, <<s>>) :
                  s \in StatementsWith(tree)}
                 \union (IF AllowedInConstant(tree) THEN ConstantDecls(tree) ELSE {})
                 \union (IF operators = 0 THEN OtherDecls ELSE {})
      conditional(d) == [decl |-> "when", exported |-> FALSE,
                         cond |-> [op |-> "unary", sign |-> "!", value |->
                                   [op |-> "name", parts |-> <<"a", "b">>]],
                         decls |-> <<d>>]
      all == decls \union (IF operators = 0 THEN {conditional(d) : d \in decls} ELSE {})
  IN {[imports |-> <<<<"a", "b">>>>, decls |-> <<d, Fn(<<>>, <<>>)>>, errors |-> 0] : d \in all}

RECURSIVE StatementsOf(_)
StatementsOf(decl) ==
  IF "body" \in DOMAIN decl THEN ToSet(decl.body)
  ELSE IF "decls" \in DOMAIN decl THEN UNION {StatementsOf(d) : d \in ToSet(decl.decls)}
  ELSE {}
HasMisread(unit) == \E d \in ToSet(unit.decls) : \E s \in StatementsOf(d) : IsMisread(s)

ReadBack(unit) == P!SourceUnit(UnitText(unit)) = unit

(***************************************************************************)
(* What is written is what is read: the parser reads each source back as   *)
(* the tree it was written from, so that precedence, associativity, types, *)
(* qualified names and the look-ahead that tells them from declarations    *)
(* follow the grammar, but for exactly three forms (IsMisread), which the  *)
(* grammar has and the parser does not read: heads of blocks that end in a *)
(* name, the last part of the head of a for beginning with a brace, and    *)
(* statements that begin with a name and a bracket or with status.         *)
(***************************************************************************)
SourcesAreReadBack == [][parsed' => \A unit \in Units : ReadBack(unit) = ~HasMisread(unit)]_treeVars

TreeSpec == TreeInit /\ [][TreeNext]_treeVars
==============================================================================
