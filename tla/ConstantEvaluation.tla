--------------------------- MODULE ConstantEvaluation ---------------------------
(***************************************************************************)
(* The constant expressions of the Python bootstrap compiler               *)
(* (openc/consteval.py): evaluation under the type the context expects,    *)
(* with the rule of the diagnostic that ends it where there is one; and    *)
(* the types they are evaluated under (openc/typesys.py): widths, ranges,  *)
(* the conversions that lose nothing, the common type of two operands, and *)
(* the size and alignment of a type.                                       *)
(*                                                                         *)
(* A type is a record [kind, name], with element, length, const or fields  *)
(* where its kind has them. Integers are Python's, of any size, so that    *)
(* only a result is confined to its type. Texts, float constants, arrays   *)
(* and aggregates are left out.                                            *)
(***************************************************************************)
EXTENDS Integers, Sequences, SequencesExt, FiniteSetsExt

(* Types. *)

IntegerWidths ==
  [i8 |-> <<8, TRUE>>, i16 |-> <<16, TRUE>>, i32 |-> <<32, TRUE>>, i64 |-> <<64, TRUE>>,
   u8 |-> <<8, FALSE>>, byte |-> <<8, FALSE>>, u16 |-> <<16, FALSE>>, u32 |-> <<32, FALSE>>,
   u64 |-> <<64, FALSE>>, isize |-> <<64, TRUE>>, usize |-> <<64, FALSE>>]

FloatWidths == [f32 |-> 32, f64 |-> 64]
PointerBytes == 8
MaxAlignment == 16

IntegerType(name) == [kind |-> "integer", name |-> name]
Bool == [kind |-> "bool", name |-> "bool"]

IsInteger(t) == t.kind = "integer"
IsFloat(t) == t.kind = "float"
IsNumeric(t) == IsInteger(t) \/ IsFloat(t)

\* Bound: the integers and the significand of a float are narrower than in the code,
\* in the same order: 8, 16, 32, 53 and 64 bits are 4, 8, 10, 12 and 14.
Scaled(width) == CASE width = 8 -> 4 [] width = 16 -> 8 [] width = 32 -> 10 [] width = 64 -> 14
SignificandBits == 12

WidthOf(t) == Scaled(IntegerWidths[t.name][1])
IsSigned(t) == IntegerWidths[t.name][2]

Lowest(t) == IF IsSigned(t) THEN -(2 ^ (WidthOf(t) - 1)) ELSE 0
Highest(t) == IF IsSigned(t) THEN (2 ^ (WidthOf(t) - 1)) - 1 ELSE (2 ^ WidthOf(t)) - 1

InRange(t, v) == Lowest(t) <= v /\ v <= Highest(t)

-----------------------------------------------------------------------------
(* Conversions. *)

Points(t) == t.kind \in {"ref", "ptr"}

KeepsWidth(source, target) ==
  IF IsSigned(source) = IsSigned(target) THEN WidthOf(target) >= WidthOf(source)
  ELSE ~IsSigned(source) /\ WidthOf(target) > WidthOf(source)

RECURSIVE CanLosslesslyConvert(_, _)
CanLosslesslyConvert(source, target) ==
  \/ source = target
  \/ source.kind = "null" /\ target.kind = "ptr"
  \/ source.kind = "none" /\ target.kind = "optional"
  \/ source.kind = "array" /\ target.kind = "slice" /\ source.element = target.element
  \/ /\ Points(source) /\ source.kind = target.kind /\ source.element = target.element
     /\ source.const => target.const
  \/ IsInteger(source) /\ IsInteger(target) /\ KeepsWidth(source, target)
  \/ IsFloat(source) /\ IsFloat(target) /\ FloatWidths[target.name] >= FloatWidths[source.name]
  \/ target.kind = "optional" /\ CanLosslesslyConvert(source, target.element)

\* The type both operands convert to, if there is one.
CommonNumericTypes(left, right) ==
  IF ~(IsNumeric(left) /\ IsNumeric(right)) THEN {}
  ELSE IF CanLosslesslyConvert(left, right) THEN {right}
  ELSE IF CanLosslesslyConvert(right, left) THEN {left} ELSE {}

-----------------------------------------------------------------------------
(* Sizes and alignments. *)

AlignUp(value, alignment) == ((value + alignment - 1) \div alignment) * alignment

\* The largest power of two up to the size and the limit of the target.
NaturalAlignment(size) == Max({a \in {1, 2, 4, 8, 16} : a = 1 \/ (a <= size /\ a <= MaxAlignment)})

RECURSIVE SizeOf(_), AlignOf(_)
SizeOf(t) ==
  CASE t.kind = "void" -> 0
    [] t.kind = "bool" -> 1
    [] t.kind = "integer" -> IntegerWidths[t.name][1] \div 8
    [] t.kind = "float" -> FloatWidths[t.name] \div 8
    [] Points(t) -> PointerBytes
    [] t.kind \in {"slice", "text"} -> 2 * PointerBytes
    [] t.kind = "status" -> 4 + 2 * PointerBytes
    [] t.kind = "optional" -> AlignUp(1, AlignOf(t.element)) + SizeOf(t.element)
    [] t.kind = "array" -> SizeOf(t.element) * t.length
    [] t.kind = "storage" -> SizeOf(t.element)
    [] t.kind = "enum" -> SizeOf(t.element)
    [] t.kind \in {"struct", "resource"} ->
         LET placed == FoldLeft(LAMBDA offset, f : AlignUp(offset, AlignOf(f)) + SizeOf(f), 0, t.fields)
             widest == FoldLeft(LAMBDA a, f : Max({a, AlignOf(f)}), 1, t.fields)
         IN AlignUp(placed, widest)

AlignOf(t) ==
  IF t.kind \in {"struct", "resource"}
  THEN Min({MaxAlignment, FoldLeft(LAMBDA a, f : Max({a, AlignOf(f)}), 1, t.fields)})
  ELSE NaturalAlignment(Max({1, SizeOf(t)}))

-----------------------------------------------------------------------------
(* Values and faults. *)

Value(type, value) == [ok |-> TRUE, type |-> type, value |-> value, rule |-> "none"]
Fault(rule) == [ok |-> FALSE, type |-> Bool, value |-> FALSE, rule |-> rule]

\* The next operand is looked at only when this one has a value.
Given(v, next(_)) == IF v.ok THEN next(v) ELSE v
Demand(condition, rule, v) == IF condition THEN v ELSE Fault(rule)

IsBool(v) == v.type = Bool
TypeError == Fault("CONSTANT-TYPE")

CheckedInteger(type, v) == Demand(InRange(type, v), "STATIC-OVERFLOW", Value(type, v))

\* The expected type, where it is one of integers, is that of the literal.
Literal(e, expected) ==
  LET target == IF IsInteger(expected) THEN expected ELSE IntegerType("i32")
  IN IF e.kind = "bool" THEN Value(Bool, e.value)
     ELSE Demand(InRange(target, e.value), "LITERAL-RANGE", Value(target, e.value))

KnownName(name, known) ==
  IF name \in DOMAIN known THEN known[name] ELSE Fault("CONSTANT-NAME")

-----------------------------------------------------------------------------
(* Python's integer operators. *)

Magnitude(v) == IF v < 0 THEN -v ELSE v

\* A mistake: the quotient is cut towards minus infinity.
Floored(a, b) == IF b > 0 THEN a \div b ELSE (-a) \div (-b)

BitLength(n) == Min({e \in 0 .. 16 : n < 2 ^ e})

\* The whole number nearest to n / d, the even one of two.
Nearest(n, d) ==
  LET q == n \div d
      rest == 2 * (n % d)
  IN IF rest > d \/ (rest = d /\ q % 2 = 1) THEN q + 1 ELSE q

\* The whole part of a / b as a float: so many bits of the quotient, rounded.
FloatQuotient(a, b) ==
  LET bits == BitLength(a \div b)
      unit == 2 ^ (bits - SignificandBits)
      parts == 2 ^ (SignificandBits - bits)
  IN IF bits > SignificandBits THEN Nearest(a, b * unit) * unit
     ELSE Nearest(a * parts, b) \div parts

\* int(a / b): the quotient as a float, cut towards zero.
Truncated(a, b) ==
  LET q == FloatQuotient(Magnitude(a), Magnitude(b)) IN IF (a < 0) = (b < 0) THEN q ELSE -q

BitResult(sign, x, y) ==
  CASE sign = "&" -> IF x = 1 /\ y = 1 THEN 1 ELSE 0
    [] sign = "|" -> IF x = 1 \/ y = 1 THEN 1 ELSE 0
    [] sign = "^" -> IF x # y THEN 1 ELSE 0

RECURSIVE Bits(_, _, _)
\* On two's complement numbers without end.
Bits(sign, a, b) ==
  IF {a, b} \subseteq {0, -1} THEN -BitResult(sign, a % 2, b % 2)
  ELSE 2 * Bits(sign, a \div 2, b \div 2) + BitResult(sign, a % 2, b % 2)

Complement(type, v) ==
  LET masked == (-v - 1) % (2 ^ WidthOf(type))
  IN IF IsSigned(type) /\ masked > Highest(type) THEN masked - 2 ^ WidthOf(type) ELSE masked

-----------------------------------------------------------------------------

Unary(e, v) ==
  CASE e.sign = "!" -> IF IsBool(v) THEN Value(Bool, ~v.value) ELSE TypeError
    [] ~IsInteger(v.type) -> TypeError
    [] e.sign = "+" -> v
    [] e.sign = "-" -> CheckedInteger(v.type, -v.value)
    [] e.sign = "~" -> Value(v.type, Complement(v.type, v.value))

Shift(sign, type, a, b) ==
  IF b < 0 \/ b >= WidthOf(type) THEN Fault("SHIFT-RANGE")
  ELSE CheckedInteger(type, IF sign = "<<" THEN a * 2 ^ b ELSE a \div (2 ^ b))

Arithmetic(sign, type, a, b) ==
  IF sign \in {"/", "%"} /\ b = 0 THEN Fault("DIVISION-BY-ZERO")
  ELSE CheckedInteger(type,
         CASE sign = "+" -> a + b
           [] sign = "-" -> a - b
           [] sign = "*" -> a * b
           [] sign = "/" -> Truncated(a, b)
           [] sign = "%" -> a - Truncated(a, b) * b)

Comparable(s, t) == CanLosslesslyConvert(s, t) \/ CanLosslesslyConvert(t, s)

Equality(sign, l, r) ==
  IF Comparable(l.type, r.type) THEN Value(Bool, (l.value = r.value) = (sign = "==")) ELSE TypeError

Binary(sign, l, r) ==
  LET common == CommonNumericTypes(l.type, r.type)
      type == CHOOSE t \in common : TRUE
  IN CASE sign \in {"==", "!="} -> Equality(sign, l, r)
       [] sign = "<" -> IF IsNumeric(l.type) /\ IsNumeric(r.type)
                        THEN Value(Bool, l.value < r.value) ELSE TypeError
       [] common = {} -> TypeError
       [] sign \in {"&", "|", "^"} -> CheckedInteger(type, Bits(sign, l.value, r.value))
       [] sign \in {"<<", ">>"} -> Shift(sign, type, l.value, r.value)
       [] sign \in {"+", "-", "*", "/", "%"} -> Arithmetic(sign, type, l.value, r.value)

\* The right operand is not evaluated when the left one decides.
ShortCircuit(e, l, right) ==
  IF ~IsBool(l) THEN TypeError
  ELSE IF l.value = (e.sign = "||") THEN Value(Bool, e.sign = "||")
  ELSE Given(right, LAMBDA r : IF IsBool(r) THEN Value(Bool, r.value) ELSE TypeError)

RECURSIVE Evaluate(_, _, _)
Evaluate(e, expected, known) ==
  CASE e.op = "literal" -> Literal(e, expected)
    [] e.op = "name" -> KnownName(e.name, known)
    [] e.op = "unary" -> Given(Evaluate(e.left, expected, known), LAMBDA v : Unary(e, v))
    [] e.op = "size_of" -> Value(IntegerType("usize"), SizeOf(e.type))
    [] e.op = "align_of" -> Value(IntegerType("usize"), AlignOf(e.type))
    [] e.op = "binary" ->
         Given(Evaluate(e.left, expected, known), LAMBDA l :
           IF e.sign \in {"&&", "||"} THEN ShortCircuit(e, l, Evaluate(e.right, Bool, known))
           ELSE Given(Evaluate(e.right, expected, known), LAMBDA r : Binary(e.sign, l, r)))

\* A value of another type must convert to the declared one; the constant keeps the
\* type of its value.
Initialised(c, known) ==
  Given(Evaluate(c.init, c.type, known), LAMBDA v :
    Demand(CanLosslesslyConvert(v.type, c.type), "LOSSY-CONVERSION", v))

-----------------------------------------------------------------------------
(* What a constant means. *)

\* q is a / b cut towards zero: what remains is smaller than b and signed like a.
IsQuotient(q, a, b) ==
  /\ Magnitude(a - q * b) < Magnitude(b)
  /\ a # q * b => (a - q * b < 0) = (a < 0)

\* Bit i of the two's complement representation of v.
BitAt(v, i) == (v \div (2 ^ i)) % 2
\* Bound: no operand of the instance has more bits.
BitsCompared == 0 .. 14

RelatesBits(sign, result, a, b) ==
  \A i \in BitsCompared : BitAt(result, i) = BitResult(sign, BitAt(a, i), BitAt(b, i))

\* r is what the operator means for the values a and b.
Relates(sign, r, a, b) ==
  CASE sign = "+" -> r = a + b
    [] sign = "-" -> r + b = a
    [] sign = "*" -> r = b * a
    [] sign = "/" -> IsQuotient(r, a, b)
    [] sign = "%" -> IsQuotient((a - r) \div b, a, b) /\ (a - r) % Magnitude(b) = 0
    [] sign = "<<" -> r \div (2 ^ b) = a /\ r % (2 ^ b) = 0
    [] sign = ">>" -> \E low \in 0 .. (2 ^ b) - 1 : a = r * 2 ^ b + low
    [] sign \in {"&", "|", "^"} -> RelatesBits(sign, r, a, b)
    [] sign = "<" -> r = (a < b)
    [] sign = "==" -> r = (a = b)
    [] sign = "!=" -> r = (a # b)

\* The layout the emitted C gives a type of scalars, pointers and structs of them:
\* each field at the first multiple of its alignment, the size a multiple of the
\* largest.
RECURSIVE CAlign(_), CSize(_)
CAlign(t) == IF t.kind = "struct" THEN Max({1} \union {CAlign(t.fields[i]) : i \in DOMAIN t.fields})
             ELSE SizeOf(t)
CSize(t) ==
  LET offsets == {f \in [0 .. Len(t.fields) -> 0 .. 40] :
                    /\ f[0] = 0
                    /\ \A i \in DOMAIN t.fields :
                         LET at == f[i] - CSize(t.fields[i])
                         IN at % CAlign(t.fields[i]) = 0 /\ at >= f[i - 1]
                              /\ at < f[i - 1] + CAlign(t.fields[i])}
      last == (CHOOSE f \in offsets : TRUE)[Len(t.fields)]
  IN IF t.kind = "struct" THEN CHOOSE n \in last .. last + CAlign(t) : n % CAlign(t) = 0 ELSE SizeOf(t)

ValueOf(e, expected, known) == Evaluate(e, expected, known).value

UnaryRelates(sign, type, r, a) ==
  CASE sign = "-" -> r + a = 0
    [] sign = "+" -> r = a
    [] sign = "!" -> r # a
    [] sign = "~" -> \A i \in BitsCompared : i < WidthOf(type) => BitAt(r, i) # BitAt(a, i)

\* A float holds every whole number up to this size.
FitsFloat(a) == Magnitude(a) <= 2 ^ SignificandBits

\* The last place of a float of that size.
LastPlace(a) ==
  LET bits == BitLength(Magnitude(a)) IN IF bits > SignificandBits THEN 2 ^ (bits - SignificandBits) ELSE 1

\* q is a / b but for its last place.
IsNearQuotient(q, a, b) == Magnitude(a - q * b) <= LastPlace(q) * Magnitude(b)

NearlyRelates(sign, r, a, b) ==
  IF sign = "/" THEN IsNearQuotient(r, a, b)
  ELSE IsNearQuotient((a - r) \div b, a, b) /\ (a - r) % Magnitude(b) = 0

RECURSIVE IsExact(_, _, _)
\* The value of e is what e says, and each of its operands is too.
IsExact(e, expected, known) ==
  LET value == ValueOf(e, expected, known)
      left == ValueOf(e.left, expected, known)
      right(t) == ValueOf(e.right, t, known)
  IN CASE e.op = "literal" -> value = e.value
       [] e.op = "name" -> value = known[e.name].value
       [] e.op = "size_of" -> value = CSize(e.type)
       [] e.op = "align_of" -> value = CAlign(e.type)
       [] e.op = "unary" ->
            /\ IsExact(e.left, expected, known)
            /\ UnaryRelates(e.sign, Evaluate(e, expected, known).type, value, left)
       [] e.op = "binary" /\ e.sign \in {"&&", "||"} ->
            /\ IsExact(e.left, expected, known)
            /\ IF left = (e.sign = "||") THEN value = left
               ELSE IsExact(e.right, Bool, known) /\ value = right(Bool)
       [] e.op = "binary" ->
            /\ IsExact(e.left, expected, known) /\ IsExact(e.right, expected, known)
            /\ IF e.sign \in {"/", "%"} /\ ~FitsFloat(left)
               THEN NearlyRelates(e.sign, value, left, right(expected))
               ELSE Relates(e.sign, value, left, right(expected))

RECURSIVE NamesIn(_)
NamesIn(e) ==
  CASE e.op = "name" -> {e.name}
    [] e.op = "unary" -> NamesIn(e.left)
    [] e.op = "binary" -> NamesIn(e.left) \union NamesIn(e.right)
    [] OTHER -> {}

Fits(t, v) == IF IsInteger(t) THEN InRange(t, v) ELSE v \in BOOLEAN
===============================================================================
