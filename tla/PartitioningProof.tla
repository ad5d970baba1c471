--------------------------- MODULE PartitioningProof ---------------------------
(***************************************************************************)
(* What the chunked jobs and the object cache rest on: the arithmetic of   *)
(* the cuts, for any number of sources and of parts, and how the ascending *)
(* list of a set grows while the parts are gone through in order.          *)
(***************************************************************************)
EXTENDS Partitioning, SequenceTheorems, FiniteSetTheorems, TLAPS

\* What division of naturals does; the provers know \div only through this.
LEMMA Division ==
  ASSUME NEW a \in Nat, NEW b \in Nat \ {0}
  PROVE  /\ a \div b \in Nat
         /\ b * (a \div b) <= a
         /\ a < b * (a \div b) + b
BY SMT

\* A quotient is at least q when q copies of the divisor fit.
LEMMA QuotientAtLeast ==
  ASSUME NEW a \in Nat, NEW b \in Nat \ {0}, NEW q \in Nat, b * q <= a
  PROVE  q <= a \div b
<1> DEFINE d == a \div b
<1>1. d \in Nat /\ a < b * d + b
  BY Division
<1>2. b * q < b * (d + 1)
  BY <1>1, SMT
<1> HIDE DEF d
<1>3. q < d + 1
  BY <1>1, <1>2, SMT
<1> QED
  BY <1>1, <1>3 DEF d

\* A quotient is below q when q copies of the divisor are more than a.
LEMMA QuotientBelow ==
  ASSUME NEW a \in Nat, NEW b \in Nat \ {0}, NEW q \in Nat, a < b * q
  PROVE  a \div b < q
<1> DEFINE d == a \div b
<1>1. d \in Nat /\ b * d <= a
  BY Division
<1> HIDE DEF d
<1>2. d < q
  BY <1>1, SMT
<1> QED
  BY <1>2 DEF d

(* The first cut is 0, the last is n, and the cuts ascend. *)
LEMMA CutBounds ==
  ASSUME NEW n \in Nat, NEW parts \in Nat \ {0}
  PROVE  /\ Cut(n, 0, parts) = 0
         /\ Cut(n, parts, parts) = n
         /\ \A k \in Nat : Cut(n, k, parts) \in Nat
         /\ \A k, l \in Nat : k <= l => Cut(n, k, parts) <= Cut(n, l, parts)
<1>1. Cut(n, 0, parts) = 0
  <2>1. n * 0 = 0
    BY SMT
  <2> QED
    BY <2>1, SMT DEF Cut
<1>2. Cut(n, parts, parts) = n
  <2>1. n <= (n * parts) \div parts
    BY QuotientAtLeast, SMT
  <2>2. (n * parts) \div parts < n + 1
    BY QuotientBelow, SMT
  <2>3. (n * parts) \div parts \in Nat
    BY Division, SMT
  <2> QED
    BY <2>1, <2>2, <2>3, SMT DEF Cut
<1>3. ASSUME NEW k \in Nat
      PROVE  Cut(n, k, parts) \in Nat
  <2>1. n * k \in Nat
    BY SMT
  <2> QED
    BY <2>1, Division DEF Cut
<1>4. ASSUME NEW k \in Nat, NEW l \in Nat, k <= l
      PROVE  Cut(n, k, parts) <= Cut(n, l, parts)
  <2>1. n * k \in Nat /\ n * l \in Nat /\ n * k <= n * l
    BY <1>4, SMT
  <2>2. Cut(n, k, parts) \in Nat /\ parts * Cut(n, k, parts) <= n * k
    BY <2>1, Division DEF Cut
  <2>3. parts * Cut(n, k, parts) <= n * l
    BY <2>1, <2>2, SMT
  <2> QED
    BY <2>1, <2>2, <2>3, QuotientAtLeast DEF Cut
<1> QED
  BY <1>1, <1>2, <1>3, <1>4

(***************************************************************************)
(* The partition that source_partition_index names for a source is the one *)
(* whose cuts hold it: the formula and the loops over the cuts agree for   *)
(* every size of project, also when the number of partitions does not      *)
(* divide the number of sources.                                           *)
(***************************************************************************)
THEOREM IndexInverseOfCuts ==
  ASSUME NEW n \in Nat \ {0}, NEW parts \in Nat \ {0}, NEW s \in 0 .. n - 1
  PROVE  LET p == SourcePartitionIndex(s, n, parts) IN
         /\ p \in 0 .. parts - 1
         /\ Cut(n, p, parts) <= s
         /\ s < Cut(n, p + 1, parts)
<1> DEFINE a == (s + 1) * parts - 1
           p == a \div n
<1>1. a \in Nat
  BY SMT
<1>2. p \in Nat /\ n * p <= a /\ a < n * p + n
  BY <1>1, Division
<1>3. SourcePartitionIndex(s, n, parts) = p
  BY DEF SourcePartitionIndex
<1>4. p < parts
  <2>1. a < n * parts
    <3>1. (s + 1) * parts <= n * parts
      BY SMT
    <3> QED
      BY <3>1, SMT
  <2> QED
    BY <1>1, <2>1, QuotientBelow
<1>5. Cut(n, p, parts) <= s
  <2>1. n * p \in Nat /\ n * p < parts * (s + 1)
    BY <1>1, <1>2, SMT
  <2>2. (n * p) \div parts < s + 1
    BY SMTT(30), <2>1, QuotientBelow
  <2>3. (n * p) \div parts \in Nat
    BY <2>1, Division
  <2> QED
    BY <2>2, <2>3, SMT DEF Cut
<1>6. s < Cut(n, p + 1, parts)
  <2>1. n * (p + 1) \in Nat /\ parts * (s + 1) <= n * (p + 1)
    BY <1>1, <1>2, SMT
  <2>2. s + 1 <= (n * (p + 1)) \div parts
    BY <2>1, QuotientAtLeast
  <2>3. (n * (p + 1)) \div parts \in Nat
    BY <2>1, Division
  <2> QED
    BY <2>2, <2>3, SMT DEF Cut
<1> QED
  BY <1>2, <1>3, <1>4, <1>5, <1>6, SMT

(* The parts tile the items: one part ends where the next one begins. *)
LEMMA PartsTile ==
  ASSUME NEW n \in Nat, NEW parts \in Nat \ {0}
  PROVE  LET First(c) == Cut(n, c - 1, parts)
             End(c) == Cut(n, c, parts) IN
         /\ First(1) = 0
         /\ End(parts) = n
         /\ \A c \in 1 .. parts : First(c) \in Nat /\ End(c) \in Nat
                                  /\ First(c) <= End(c) /\ End(c) <= n
         /\ \A c, d \in 1 .. parts : c < d => End(c) <= First(d)
         /\ \A c \in 1 .. parts :
              c # parts => c + 1 \in 1 .. parts /\ First(c + 1) = End(c)
<1> DEFINE First(c) == Cut(n, c - 1, parts)
           End(c) == Cut(n, c, parts)
<1>0. /\ Cut(n, 0, parts) = 0 /\ Cut(n, parts, parts) = n
      /\ \A k \in Nat : Cut(n, k, parts) \in Nat
      /\ \A k, l \in Nat : k <= l => Cut(n, k, parts) <= Cut(n, l, parts)
  BY CutBounds
<1>1. ASSUME NEW c \in 1 .. parts
      PROVE  /\ First(c) \in Nat /\ End(c) \in Nat
             /\ First(c) <= End(c) /\ End(c) <= n
  <2>1. c - 1 \in Nat /\ c \in Nat /\ c - 1 <= c /\ c <= parts /\ parts \in Nat
    OBVIOUS
  <2> QED
    BY <1>0, <2>1
<1>2. ASSUME NEW c \in 1 .. parts, NEW d \in 1 .. parts, c < d
      PROVE  End(c) <= First(d)
  <2>1. c \in Nat /\ d - 1 \in Nat /\ c <= d - 1
    BY <1>2
  <2> QED
    BY <1>0, <2>1
<1>3. ASSUME NEW c \in 1 .. parts, c # parts
      PROVE  c + 1 \in 1 .. parts /\ First(c + 1) = End(c)
  <2>1. c + 1 \in 1 .. parts /\ (c + 1) - 1 = c
    BY <1>3
  <2> QED
    BY <2>1
<1>4. First(1) = 0 /\ End(parts) = n
  BY <1>0
<1> QED
  BY <1>1, <1>2, <1>3, <1>4

(* Every item belongs to a part. *)
LEMMA ItemInPart ==
  ASSUME NEW n \in Nat \ {0}, NEW parts \in Nat \ {0}, NEW s \in 0 .. n - 1
  PROVE  \E c \in 1 .. parts : Cut(n, c - 1, parts) <= s /\ s < Cut(n, c, parts)
<1> DEFINE p == SourcePartitionIndex(s, n, parts)
<1>1. /\ p \in 0 .. parts - 1
      /\ Cut(n, p, parts) <= s
      /\ s < Cut(n, p + 1, parts)
  BY IndexInverseOfCuts
<1> HIDE DEF p
<1>2. p + 1 \in 1 .. parts /\ (p + 1) - 1 = p
  BY <1>1
<1> QED
  BY <1>1, <1>2

-----------------------------------------------------------------------------
(* How the ascending list of a set of sources grows. *)

(* The empty list lists nothing. *)
LEMMA ListsEmpty == Lists(<<>>, {})
BY DEF Lists

(* Appending a source beyond all listed ones lists it too. *)
LEMMA ListsAppend ==
  ASSUME NEW q, NEW S \in SUBSET Int, Lists(q, S), NEW x \in Int,
         \A s \in S : s < x
  PROVE  Lists(Append(q, x), S \cup {x})
<1> DEFINE r == Append(q, x)
<1>1. q \in Seq(Int) /\ r \in Seq(Int) /\ Len(q) \in Nat /\ Len(r) = Len(q) + 1
  BY DEF Lists
<1>2. \A i \in 1 .. Len(q) : r[i] = q[i]
  BY <1>1
<1>3. r[Len(q) + 1] = x
  BY <1>1
<1> HIDE DEF r
<1>4. ASSUME NEW i \in 1 .. Len(r) PROVE r[i] \in S \cup {x}
  <2>1. CASE i \in 1 .. Len(q)
    BY <1>2, <2>1 DEF Lists
  <2>2. CASE i = Len(q) + 1
    BY <1>3, <2>2
  <2> QED
    BY <1>1, <2>1, <2>2
<1>5. \A s \in S \cup {x} : \E i \in 1 .. Len(r) : r[i] = s
  <2>1. ASSUME NEW s \in S PROVE \E i \in 1 .. Len(r) : r[i] = s
    <3>1. PICK i \in 1 .. Len(q) : q[i] = s
      BY DEF Lists
    <3>2. i \in 1 .. Len(r) /\ r[i] = s
      BY <1>1, <1>2, <3>1
    <3> QED
      BY <3>2
  <2>2. Len(q) + 1 \in 1 .. Len(r)
    BY <1>1
  <2> QED
    BY <1>3, <2>1, <2>2
<1>6. ASSUME NEW i \in 1 .. Len(r), NEW j \in 1 .. Len(r), i < j
      PROVE  r[i] < r[j]
  <2>1. i \in 1 .. Len(q) /\ r[i] = q[i] /\ q[i] \in S
    BY <1>1, <1>2, <1>6 DEF Lists
  <2>2. CASE j = Len(q) + 1
    BY <1>3, <2>1, <2>2
  <2>3. CASE j # Len(q) + 1
    <3>1. j \in 1 .. Len(q) /\ r[j] = q[j]
      BY SMTT(30), <1>1, <1>2, <2>3
    <3> QED
      BY <1>6, <2>1, <3>1 DEF Lists
  <2> QED
    BY <2>2, <2>3
<1> QED
  BY <1>1, <1>4, <1>5, <1>6 DEF Lists, r

(* The lists of two sets, one below the other, concatenate. *)
LEMMA ListsConcat ==
  ASSUME NEW q, NEW r, NEW S \in SUBSET Int, NEW T \in SUBSET Int,
         Lists(q, S), Lists(r, T),
         \A s \in S, t \in T : s < t
  PROVE  Lists(q \o r, S \cup T)
<1> DEFINE u == q \o r
           m == Len(q)
<1>1. /\ q \in Seq(Int) /\ r \in Seq(Int) /\ u \in Seq(Int)
      /\ m = Len(q) /\ m \in Nat /\ Len(r) \in Nat /\ Len(u) = m + Len(r)
      /\ \A i \in 1 .. Len(u) : u[i] = IF i <= m THEN q[i] ELSE r[i - m]
  BY ConcatProperties DEF Lists
<1> HIDE DEF u, m
<1>2. \A i \in 1 .. Len(u) :
        \/ i \in 1 .. m /\ u[i] = q[i] /\ u[i] \in S
        \/ i > m /\ i - m \in 1 .. Len(r) /\ u[i] = r[i - m] /\ u[i] \in T
  <2> TAKE i \in 1 .. Len(u)
  <2>1. CASE i <= m
    <3>1. i \in 1 .. Len(q) /\ u[i] = q[i]
      BY <1>1, <2>1
    <3> QED
      BY <1>1, <3>1 DEF Lists
  <2>2. CASE ~(i <= m)
    <3>1. i > m /\ i - m \in 1 .. Len(r) /\ u[i] = r[i - m]
      BY <1>1, <2>2
    <3> QED
      BY <3>1 DEF Lists
  <2> QED
    BY <2>1, <2>2
<1>3. \A s \in S \cup T : \E i \in 1 .. Len(u) : u[i] = s
  <2>1. ASSUME NEW s \in S PROVE \E i \in 1 .. Len(u) : u[i] = s
    <3>1. PICK i \in 1 .. m : q[i] = s
      BY <1>1 DEF Lists
    <3>2. i \in 1 .. Len(u) /\ u[i] = s
      BY <1>1, <3>1
    <3> QED
      BY <3>2
  <2>2. ASSUME NEW t \in T PROVE \E i \in 1 .. Len(u) : u[i] = t
    <3>1. PICK i \in 1 .. Len(r) : r[i] = t
      BY DEF Lists
    <3>2. i + m \in 1 .. Len(u) /\ ~(i + m <= m) /\ (i + m) - m = i
      BY SMTT(30), <1>1, <3>1
    <3>3. u[i + m] = t
      BY <1>1, <3>1, <3>2
    <3> QED
      BY <3>2, <3>3
  <2> QED
    BY <2>1, <2>2
<1>4. ASSUME NEW i \in 1 .. Len(u), NEW j \in 1 .. Len(u), i < j
      PROVE  u[i] < u[j]
  <2>1. CASE j <= m
    <3>1. i \in 1 .. m /\ j \in 1 .. m /\ u[i] = q[i] /\ u[j] = q[j]
      BY <1>1, <1>4, <2>1
    <3> QED
      BY <1>1, <1>4, <3>1 DEF Lists
  <2>2. CASE i <= m /\ ~(j <= m)
    <3>1. u[i] \in S /\ u[j] \in T
      BY <1>1, <1>2, <2>2
    <3> QED
      BY <3>1
  <2>3. CASE ~(i <= m)
    <3>1. i > m /\ j > m /\ i - m < j - m
      BY <1>1, <1>4, <2>3
    <3>2. i - m \in 1 .. Len(r) /\ u[i] = r[i - m]
      BY <1>1, <1>2, <3>1
    <3>3. j - m \in 1 .. Len(r) /\ u[j] = r[j - m]
      BY <1>1, <1>2, <3>1
    <3> QED
      BY <3>1, <3>2, <3>3 DEF Lists
  <2> QED
    BY <1>1, <1>4, <2>1, <2>2, <2>3
<1> QED
  BY <1>1, <1>2, <1>3, <1>4 DEF Lists, u, m

(* A number's place in a list of S is the count of those of S up to it. *)
LEMMA ListedAtItsRank ==
  ASSUME NEW q, NEW S, Lists(q, S), NEW i \in 1 .. Len(q)
  PROVE  Cardinality({s \in S : s <= q[i]}) = i
<1> DEFINE T == {s \in S : s <= q[i]}
<1> DEFINE f == [k \in 1 .. i |-> q[k]]
<1>1. /\ q \in Seq(Int) /\ Len(q) \in Nat /\ i \in Nat
      /\ \A k \in 1 .. i : k \in 1 .. Len(q)
      /\ \A k \in 1 .. Len(q) : q[k] \in Int /\ q[k] \in S
      /\ \A k, l \in 1 .. Len(q) : k < l => q[k] < q[l]
      /\ \A s \in S : \E k \in 1 .. Len(q) : q[k] = s
  BY DEF Lists
<1>2. \A k \in 1 .. i : k < i \/ k = i
  BY <1>1
<1>3. \A k \in 1 .. i : q[k] \in T
  BY <1>1, <1>2
<1>4. \A k, l \in 1 .. i : q[k] = q[l] => k = l
  <2> SUFFICES ASSUME NEW k \in 1 .. i, NEW l \in 1 .. i, q[k] = q[l] PROVE k = l
    OBVIOUS
  <2>1. ~(k < l) /\ ~(l < k)
    BY <1>1
  <2> QED
    BY <1>1, <2>1
<1>5. ASSUME NEW s \in T PROVE \E k \in 1 .. i : q[k] = s
  <2>1. PICK k \in 1 .. Len(q) : q[k] = s
    BY <1>1
  <2>2. ~(i < k)
    BY <1>1, <2>1
  <2> QED
    BY <1>1, <2>1, <2>2
<1> HIDE DEF T
<1>6. f \in [1 .. i -> T] /\ \A k \in 1 .. i : f[k] = q[k]
  BY <1>3
<1> HIDE DEF f
<1>7. f \in Bijection(1 .. i, T)
  BY <1>4, <1>5, <1>6 DEF Bijection, Injection, IsInjective, Surjection
<1>8. IsFiniteSet(1 .. i) /\ Cardinality(1 .. i) = i
  <2>1. 1 \in Int /\ i \in Int
    BY <1>1
  <2>2. /\ IsFiniteSet(1 .. i)
        /\ Cardinality(1 .. i) = IF 1 > i THEN 0 ELSE i - 1 + 1
    BY <2>1, FS_Interval
  <2> QED
    BY <1>1, <2>2
<1>9. Cardinality(T) = i
  BY <1>7, <1>8, FS_Bijection DEF ExistsBijection
<1> QED
  BY <1>9 DEF T

(***************************************************************************)
(* There is only one way to write a set of numbers out in order.           *)
(***************************************************************************)
LEMMA ListedOneWay ==
  ASSUME NEW S, NEW q, NEW r, Lists(q, S), Lists(r, S)
  PROVE  q = r
<1>1. /\ q \in Seq(Int) /\ r \in Seq(Int) /\ Len(q) \in Nat /\ Len(r) \in Nat
      /\ \A i \in 1 .. Len(q) : \E j \in 1 .. Len(r) : r[j] = q[i]
      /\ \A j \in 1 .. Len(r) : \E i \in 1 .. Len(q) : q[i] = r[j]
  <2>1. /\ \A i \in 1 .. Len(q) : q[i] \in S
        /\ \A s \in S : \E i \in 1 .. Len(q) : q[i] = s
        /\ \A j \in 1 .. Len(r) : r[j] \in S
        /\ \A s \in S : \E j \in 1 .. Len(r) : r[j] = s
    BY DEF Lists
  <2>2. q \in Seq(Int) /\ r \in Seq(Int) /\ Len(q) \in Nat /\ Len(r) \in Nat
    BY DEF Lists
  <2> QED
    BY <2>1, <2>2
<1>2. ASSUME NEW i \in 1 .. Len(q), NEW j \in 1 .. Len(r), q[i] = r[j]
      PROVE  i = j
  <2>1. Cardinality({s \in S : s <= q[i]}) = i
    BY ListedAtItsRank
  <2>2. Cardinality({s \in S : s <= r[j]}) = j
    BY ListedAtItsRank
  <2> QED
    BY <1>2, <2>1, <2>2
<1>3. \A i \in 1 .. Len(q) : i \in 1 .. Len(r) /\ q[i] = r[i]
  BY <1>1, <1>2
<1>4. \A j \in 1 .. Len(r) : j \in 1 .. Len(q)
  BY <1>1, <1>2
<1>5. Len(q) = Len(r)
  <2>1. Len(q) > 0 => Len(q) \in 1 .. Len(r)
    BY <1>1, <1>3
  <2>2. Len(r) > 0 => Len(r) \in 1 .. Len(q)
    BY <1>1, <1>4
  <2> QED
    BY <1>1, <2>1, <2>2
<1> QED
  BY <1>1, <1>3, <1>5, SeqEqual

\* The set written out.
Written(S) == CHOOSE q : Lists(q, S)

LEMMA ListedIsWritten ==
  ASSUME NEW S, NEW q, Lists(q, S)
  PROVE  q = Written(S)
BY ListedOneWay DEF Written
===============================================================================
