------------------------------ MODULE MCBootstrap ------------------------------
(***************************************************************************)
(* What is sequential, side by side: the algorithms of the two compilers,  *)
(* builds of a set of objects one after the other, and the scripts that    *)
(* bootstrap, verify and measure the compilers. A behaviour chooses one of *)
(* them and leaves the others at rest.                                     *)
(***************************************************************************)
EXTENDS FreshIndex, BootstrapBodies, ObjectSet, EvidenceRun,
        ConstantResolution

CONSTANTS
  Parts,          \* the algorithms a behaviour may choose
  MaxOperators,
  ObjectA, ObjectB

(* Programs of three constants: the first of an expression of up to two    *)
(* operators, the others of a few that refer to each other.                *)
Values == INSTANCE ConstantEvaluation
Typed(n) == Values!IntegerType(n)

Number(n) == [op |-> "literal", kind |-> "integer", value |-> n]
Truth(b) == [op |-> "literal", kind |-> "bool", value |-> b]
NameOf(n) == [op |-> "name", name |-> n]
Apply(s, l, r) == [op |-> "binary", sign |-> s, left |-> l, right |-> r]
Prefix(s, e) == [op |-> "unary", sign |-> s, left |-> e]
Struct(fields) == [kind |-> "struct", name |-> "S", fields |-> fields]
Constant(n, t, e) == [name |-> n, type |-> t, init |-> e]
Pointer == [kind |-> "ptr", name |-> "ptr", element |-> Typed("u8"), const |-> FALSE]

Layouts ==
  {Typed("i16"), Pointer, Struct(<<>>), Struct(<<Typed("u8"), Typed("i32"), Typed("u8")>>),
   Struct(<<Typed("i16"), Struct(<<Pointer, Values!Bool>>), Typed("u8")>>)}

\* Around the ends of the types of 8 and 16 bits, which are shifted by as much as their
\* width; the wide ones go beyond what a float holds.
Operands == {Number(n) : n \in {0, 3, 4, 7, 8, 15}} \union {Truth(TRUE), NameOf("b"), NameOf("c")}
WideOperands == {Number(4097), Number(8191), Prefix("-", Number(8191))}
WideDivisors == {Number(1), Number(3), Number(13), Number(14), NameOf("b"), NameOf("c")}
Signs == {"+", "-", "*", "/", "%", "&", "|", "^", "<<", ">>", "<", "==", "&&", "||"}

Once == {Prefix(s, e) : s \in {"-", "~", "!"}, e \in Operands}
          \union {Apply(s, l, r) : s \in Signs, l \in Operands, r \in Operands}
          \union {[op |-> q, type |-> t] : q \in {"size_of", "align_of"}, t \in Layouts}
Twice == {Prefix("-", e) : e \in Once \ {x \in Once : x.op = "size_of"}}
           \union {Apply(s, Apply(t, Number(3), NameOf("b")), x) :
                     s \in Signs, t \in {"-", "*", "/", "<"}, x \in {Number(3), NameOf("c"), Truth(FALSE)}}
Wide == {Apply(s, l, r) : s \in Signs, l \in WideOperands, r \in WideDivisors \union WideOperands}

First == {Constant("a", t, e) : t \in {Typed("i8"), Typed("u8"), Typed("i16"), Values!Bool}, e \in Operands \union Once \union Twice}
           \union {Constant("a", t, e) : t \in {Typed("i64"), Typed("u64")}, e \in Wide}
Second == {Constant("b", Typed("i8"), Prefix("-", Number(7))), Constant("b", Typed("i16"), NameOf("c")),
           Constant("b", Values!Bool, Apply("||", Truth(TRUE), NameOf("a")))}
Third == {Constant("c", Typed("u8"), Number(13)), Constant("c", Typed("i8"), Apply("-", NameOf("b"), Number(1))),
          Constant("c", Typed("i16"), NameOf("a"))}

MCPrograms == {<<a, b, c>> : a \in First, b \in Second, c \in Third}

\* Two units; in the second version one has no functions, the third is rejected.
Two(one, other) == [u \in 0 .. 1 |-> IF u = 0 THEN one ELSE other]
MCVersions == {Two(ObjectA, ObjectB), Two(ObjectB, Empty), Two(ObjectB, ObjectA)}
MCRejected == {Two(ObjectB, ObjectA)}

VARIABLES
  part,
  tree, operators, parsed

indexVars == vars
treeVars == <<tree, operators, parsed>>

Trees == INSTANCE ParsedSources
MCEvaluated(c, known) == Values!Initialised(c, known)
MCMentions(e) == Values!NamesIn(e)

IndexAtRest ==
  /\ records = <<>> /\ cursor = 0 /\ nextStart = 0 /\ previous = 0
  /\ starts = [p \in 0 .. Partitions |-> 0] /\ verdict = "running"
BodyAtRest ==
  family = "none" /\ body = <<>> /\ size = 0 /\ blocks = 0 /\ compiled = FALSE
TreeAtRest == tree = [op |-> "literal", text |-> "1"] /\ operators = 0 /\ parsed = FALSE
ConstantsAtRest ==
  /\ constants = <<>> /\ pending = <<>> /\ remaining = <<>>
  /\ progressed = FALSE /\ values = <<>> /\ outcome = "resolved"
RunAtRest ==
  /\ script = "none" /\ at = 0 /\ fresh = {} /\ gone = {} /\ bad = {}
  /\ good = TRUE /\ failed = FALSE /\ stale = FALSE /\ result = "none" /\ exit = "running"
SetAtRest ==
  /\ sources = NoUnit
  /\ outputs = NoUnit /\ linked = NoUnit /\ manifest = NoUnit
  /\ stored = {} /\ keyRecords = {} /\ projectRecords = {}
  /\ stage = "idle" /\ version = NoUnit /\ keyed = FALSE /\ cached = FALSE
  /\ relinks = FALSE /\ hits = {} /\ hashes = NoUnit /\ bundle = NoUnit
  /\ unit = 0 /\ refused = FALSE

MCInit ==
  /\ part \in Parts
  /\ IF part = "index" THEN Init ELSE IndexAtRest
  /\ IF part = "bodies" THEN BodyInit ELSE BodyAtRest
  /\ IF part = "trees" THEN Trees!TreeInit ELSE TreeAtRest
  /\ IF part = "constants" THEN ConstantInit ELSE ConstantsAtRest
  /\ IF part = "scripts" THEN RunInit ELSE RunAtRest
  /\ IF part = "sets" THEN SetInit ELSE SetAtRest

StepIndex ==
  /\ part = "index" /\ Next
  /\ UNCHANGED <<part, bodyVars, treeVars, constantVars, runVars, setVars>>
StepBody ==
  /\ part = "bodies" /\ BodyNext
  /\ UNCHANGED <<part, indexVars, treeVars, constantVars, runVars, setVars>>
StepTree ==
  /\ part = "trees" /\ Trees!TreeNext
  /\ UNCHANGED <<part, indexVars, bodyVars, constantVars, runVars, setVars>>
StepConstants ==
  /\ part = "constants" /\ ConstantNext
  /\ UNCHANGED <<part, indexVars, bodyVars, treeVars, runVars, setVars>>
StepScript ==
  /\ part = "scripts" /\ RunNext
  /\ UNCHANGED <<part, indexVars, bodyVars, treeVars, constantVars, setVars>>
StepSet ==
  /\ part = "sets" /\ SetNext
  /\ UNCHANGED <<part, indexVars, bodyVars, treeVars, constantVars, runVars>>

MCNext == StepIndex \/ StepBody \/ StepTree \/ StepConstants \/ StepScript \/ StepSet

MCSpec == MCInit /\ [][MCNext]_<<part, indexVars, bodyVars, treeVars, constantVars, runVars, setVars>>

\* ParsedSources: sources read back as the trees they were written from.
SourcesAreReadBack == Trees!SourcesAreReadBack

(***************************************************************************)
(* A resolved constant has the value its initialiser means by the integers *)
(* themselves and by the values of the constants it names, and the value   *)
(* fits the type declared for it. Only the quotient of a dividend no float *)
(* may hold can be off, by the last place of a float, and a remainder with *)
(* it.                                                                     *)
(***************************************************************************)
ConstantsAreExact ==
  outcome = "resolved" =>
    \A i \in DOMAIN constants :
      LET c == constants[i]
      IN /\ Values!Fits(c.type, values[c.name].value)
         /\ Values!IsExact(c.init, c.type, values)

(* The conditions under which SavedObjectsProof shows ResolvedTogether: of  *)
(* the projects of the instance, and of the evaluator for what may be known *)
(* of the two constants that others refer to.                               *)
ASSUME ProjectsAreDeclared == \A p \in MCPrograms : IsProject(p)

Known(b, c) == << <<>>, "b" :> b, "c" :> c, ("b" :> b) @@ ("c" :> c) >>

Meanings ==
  << <<Values!Value(Typed("i8"), -7), Values!Value(Typed("u8"), 13)>>,
     <<Values!Value(Typed("i16"), 100), Values!Value(Typed("i8"), -8)>>,
     <<Values!Value(Values!Bool, TRUE), Values!Value(Typed("i16"), 3)>> >>

ASSUME EvaluatorIsSteady ==
  \A m \in DOMAIN Meanings :
    LET known == Known(Meanings[m][1], Meanings[m][2])
    IN \A c \in First \union Second \union Third, i \in DOMAIN known :
         /\ AreKnown(known[i])
         /\ \A j \in DOMAIN known : IsSteady(c, known[i], known[j])
===============================================================================
