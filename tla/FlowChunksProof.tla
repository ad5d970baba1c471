---------------------------- MODULE FlowChunksProof ----------------------------
(***************************************************************************)
(* Parallel flow validation is correct for every number of sources and of  *)
(* chunks, every size of an analysis and every interleaving: it reports    *)
(* what serial validation reports, counts each cache hit once, and gives   *)
(* back the memory it took.                                                *)
(***************************************************************************)
EXTENDS FlowChunks, WorkerPoolProof, PartitioningProof, FiniteSetTheorems

(* The inductive invariant, in named parts. *)

Unrun(c) == result[c] = -1
Idle(c) == doing[c] = "idle"

\* Sources of chunk c that its loop has passed.
Seen(c) == First(c) .. cursor[c] - 1

\* While the memory is sampled the source at the cursor has been analysed too.
Analysed(c) ==
  IF doing[c] \in {"sample", "over"} THEN Seen(c) \cup {cursor[c]} ELSE Seen(c)

Hits(S) == {s \in S : Hit(s)}

\* A chunk's counter and its private errors say what its loop has passed.
Progress(c) ==
  /\ First(c) <= cursor[c] /\ cursor[c] <= End(c)
  /\ doing[c] \in {"analyse", "sample", "over"} =>
       cursor[c] < End(c) /\ ~Hit(cursor[c])
  /\ skips[c] = Cardinality(Hits(Seen(c)))
  /\ result[c] # 2 => Lists(found[c], Expected(Analysed(c)))

\* A chunk is unrun and untouched, or busy, or run.
RunState(c) ==
  /\ ~Idle(c) => Unrun(c)
  /\ Idle(c) /\ Unrun(c) => cursor[c] = First(c)
  /\ result[c] = 0 => cursor[c] = End(c)

ChunkInv == \A c \in Chunk : Progress(c) /\ RunState(c)

\* While the pool is at work its callbacks and the chunks go together.
LaunchInv ==
  /\ stage = "buffers" => phase = "resolve" /\ \A c \in Chunk : Idle(c) /\ Unrun(c)
  /\ stage \notin {"buffers", "launch", "done"} => phase = "returned"
  /\ stage = "launch" =>
       /\ at = 1
       /\ \A c \in Slot : /\ Idle(c) <=> callback[c] # "running"
                          /\ Unrun(c) <=> callback[c] # "done"
       /\ Idle(Chunks) <=> phase # "caller"
       /\ Unrun(Chunks) <=> \/ phase \notin {"wait", "close", "returned"}
                            \/ phase # "wait" /\ launch = 3

FallbackInv ==
  stage = "fallback" =>
    \A c \in Chunk : /\ c < at => ~Unrun(c)
                     /\ ~Idle(c) => c = at

SettledInv ==
  stage \in {"decide", "append", "destroy"} =>
    \A c \in Chunk : Idle(c) /\ ~Unrun(c)

\* What the merge has put together so far.
MergeInv ==
  /\ stage # "done" <=> verdict = "pending"
  /\ stage # "done" => report = <<>>
  /\ stage \notin {"append", "destroy", "done"} => merged = <<>> /\ skipped = 0
  /\ stage = "decide" => at = 1
  /\ stage = "append" =>
       /\ Passed /\ passed
       /\ Lists(merged, Expected(0 .. First(at) - 1))
       /\ skipped = Cardinality(Hits(0 .. First(at) - 1))
  /\ stage = "destroy" /\ passed =>
       /\ Lists(merged, Expected(Source))
       /\ skipped = Cardinality(Hits(Source))
  /\ verdict \in {"accepted", "rejected"} => skipped = Cardinality(Hits(Source))

\* total[c] is the sum of h[1] .. h[c].
IsTotal(total, h) ==
  /\ total \in [0 .. Chunks -> Nat]
  /\ total[0] = 0
  /\ \A c \in Chunk : total[c] = total[c - 1] + h[c]
  /\ \A i, j \in 0 .. Chunks : i <= j => total[i] <= total[j]
  /\ \A i, j \in 0 .. Chunks :
       i <= j /\ total[i] # total[j] => \E c \in Chunk : i < c /\ c <= j /\ h[c] # 0

\* What each chunk holds of the heap, beside its buffer.
Held == [c \in Chunk |-> IF doing[c] = "analyse" THEN weight[cursor[c]] ELSE 0]

Buffers == IF stage = "buffers" THEN (at - 1) * Buffer ELSE Chunks * Buffer

\* Every live byte is the base's, a buffer's or of an analysis that is under way.
LiveInv ==
  /\ stage # "done" =>
       \E total \in [0 .. Chunks -> Nat] :
         IsTotal(total, Held) /\ live = base + Buffers + total[Chunks]
  /\ stage = "done" /\ verdict # "aborted" => live = base

IInv ==
  /\ TypeOK /\ PoolInv
  /\ ChunkInv /\ LaunchInv /\ FallbackInv /\ SettledInv
  /\ MergeInv /\ LiveInv

-------------------------------------------------------------------------------
(* Running totals. *)

(* What one chunk takes is added to every total from its own on. *)
LEMMA TotalAdds ==
  ASSUME NEW total \in [0 .. Chunks -> Nat], NEW h \in [Chunk -> Nat], IsTotal(total, h),
         NEW c \in Chunk, h[c] = 0, NEW n \in Nat,
         Chunks \in Nat
  PROVE  \E t \in [0 .. Chunks -> Nat] :
           IsTotal(t, [h EXCEPT ![c] = n]) /\ t[Chunks] = total[Chunks] + n
<1> USE DEF Chunk
<1> DEFINE t == [i \in 0 .. Chunks |-> IF i < c THEN total[i] ELSE total[i] + n]
           g == [h EXCEPT ![c] = n]
<1>9. Chunks \in 0 .. Chunks /\ c <= Chunks /\ c \in Nat /\ c # 0
  BY DEF Chunk
<1>1. t \in [0 .. Chunks -> Nat]
  OBVIOUS
<1>2. \A i \in 0 .. Chunks : t[i] = IF i < c THEN total[i] ELSE total[i] + n
  OBVIOUS
<1>3. g[c] = n /\ \A d \in Chunk : d # c => g[d] = h[d]
  OBVIOUS
<1> HIDE DEF t, g
<1>4. t[0] = 0
  BY SMTT(30), <1>2 DEF IsTotal
<1>5. ASSUME NEW d \in Chunk PROVE t[d] = t[d - 1] + g[d]
  <2>1. /\ total[d] = total[d - 1] + h[d] /\ d \in 0 .. Chunks /\ d - 1 \in 0 .. Chunks
        /\ total[d] \in Nat /\ total[d - 1] \in Nat /\ h[d] \in Nat
    BY DEF IsTotal
  <2>2. CASE d < c
    BY SMTT(30), <1>2, <1>3, <2>1, <2>2
  <2>3. CASE d = c
    BY <1>2, <1>3, <2>1, <2>3
  <2>4. CASE d > c
    <3>1. ~(d < c) /\ ~(d - 1 < c) /\ d # c
      BY <2>4
    <3>2. t[d] = total[d] + n /\ t[d - 1] = total[d - 1] + n /\ g[d] = h[d]
      BY <1>2, <1>3, <2>1, <3>1
    <3> QED
      BY <2>1, <3>2
  <2> QED
    BY <2>2, <2>3, <2>4
<1>6. ASSUME NEW i \in 0 .. Chunks, NEW j \in 0 .. Chunks, i <= j
      PROVE  /\ t[i] <= t[j]
             /\ t[i] # t[j] => \E d \in Chunk : i < d /\ d <= j /\ g[d] # 0
  <2>1. /\ total[i] <= total[j] /\ total[i] \in Nat /\ total[j] \in Nat
        /\ total[i] # total[j] => \E d \in Chunk : i < d /\ d <= j /\ h[d] # 0
    BY <1>6 DEF IsTotal
  <2>2. \A d \in Chunk : h[d] # 0 => g[d] # 0
    BY <1>3
  <2>3. CASE j < c \/ c <= i
    <3>1. \/ t[i] = total[i] /\ t[j] = total[j]
          \/ t[i] = total[i] + n /\ t[j] = total[j] + n
      BY SMTT(30), <1>2, <1>6, <2>3
    <3> QED
      BY <2>1, <2>2, <3>1
  <2>4. CASE i < c /\ c <= j
    <3>1. t[i] = total[i] /\ t[j] = total[j] + n
      BY SMTT(30), <1>2, <2>4
    <3>2. CASE n = 0
      BY <2>1, <2>2, <3>1, <3>2
    <3>3. CASE n # 0
      BY SMTT(30), <1>3, <2>1, <2>4, <3>1, <3>3
    <3> QED
      BY <3>2, <3>3
  <2> QED
    BY <2>3, <2>4
<1>7. IsTotal(t, g)
  BY <1>1, <1>4, <1>5, <1>6 DEF IsTotal
<1>8. t[Chunks] = total[Chunks] + n
  BY <1>2, <1>9
<1> QED
  BY <1>1, <1>7, <1>8 DEF g

(* What one chunk gives back is taken from every total from its own on. *)
LEMMA TotalReleases ==
  ASSUME NEW total \in [0 .. Chunks -> Nat], NEW h \in [Chunk -> Nat], IsTotal(total, h),
         NEW c \in Chunk, Chunks \in Nat
  PROVE  /\ h[c] <= total[Chunks]
         /\ \E t \in [0 .. Chunks -> Nat] :
              IsTotal(t, [h EXCEPT ![c] = 0]) /\ t[Chunks] = total[Chunks] - h[c]
<1> USE DEF Chunk
<1> DEFINE t == [i \in 0 .. Chunks |-> IF i < c THEN total[i] ELSE total[i] - h[c]]
           g == [h EXCEPT ![c] = 0]
<1>0. \A i \in 0 .. Chunks : c <= i => h[c] <= total[i]
  <2>1. total[c] = total[c - 1] + h[c] /\ c \in 0 .. Chunks /\ c - 1 \in 0 .. Chunks
    BY DEF IsTotal
  <2>2. h[c] <= total[c]
    BY <2>1
  <2> QED
    BY <2>1, <2>2 DEF IsTotal
<1>9. Chunks \in 0 .. Chunks /\ c <= Chunks /\ c \in Nat /\ c # 0
  BY DEF Chunk
<1>1. t \in [0 .. Chunks -> Nat]
  BY <1>0
<1>2. \A i \in 0 .. Chunks : t[i] = IF i < c THEN total[i] ELSE total[i] - h[c]
  OBVIOUS
<1>3. g[c] = 0 /\ \A d \in Chunk : d # c => g[d] = h[d]
  OBVIOUS
<1> HIDE DEF t, g
<1>4. t[0] = 0
  BY SMTT(30), <1>2 DEF IsTotal
<1>5. ASSUME NEW d \in Chunk PROVE t[d] = t[d - 1] + g[d]
  <2>1. /\ total[d] = total[d - 1] + h[d] /\ d \in 0 .. Chunks /\ d - 1 \in 0 .. Chunks
        /\ total[d] \in Nat /\ total[d - 1] \in Nat /\ h[d] \in Nat
    BY DEF IsTotal
  <2>2. CASE d < c
    BY <1>2, <1>3, <2>1, <2>2
  <2>3. CASE d = c
    BY <1>2, <1>3, <2>1, <2>3
  <2>4. CASE d > c
    <3>1. ~(d < c) /\ ~(d - 1 < c) /\ d # c
      BY <2>4
    <3>2. t[d] = total[d] - h[c] /\ t[d - 1] = total[d - 1] - h[c] /\ g[d] = h[d]
      BY <1>2, <1>3, <2>1, <3>1
    <3> QED
      BY <2>1, <3>2, <1>0
  <2> QED
    BY <2>2, <2>3, <2>4
<1>6. ASSUME NEW i \in 0 .. Chunks, NEW j \in 0 .. Chunks, i <= j
      PROVE  /\ t[i] <= t[j]
             /\ t[i] # t[j] => \E d \in Chunk : i < d /\ d <= j /\ g[d] # 0
  <2>1. /\ total[i] <= total[j] /\ total[i] \in Nat /\ total[j] \in Nat
        /\ total[i] # total[j] => \E d \in Chunk : i < d /\ d <= j /\ h[d] # 0
    BY <1>6 DEF IsTotal
  <2>2. CASE j < c \/ c <= i
    <3>1. \A d \in Chunk : i < d /\ d <= j => g[d] = h[d]
      BY <1>3, <2>2
    <3>2. \/ t[i] = total[i] /\ t[j] = total[j]
          \/ /\ t[i] = total[i] - h[c] /\ t[j] = total[j] - h[c]
             /\ h[c] <= total[i] /\ h[c] \in Nat
      BY SMTT(30), <1>0, <1>2, <1>6, <2>2
    <3>3. t[i] <= t[j] /\ (t[i] # t[j] => total[i] # total[j])
      BY <2>1, <3>2
    <3> QED
      BY <2>1, <3>1, <3>3
  <2>3. CASE i < c /\ c <= j
    <3>1. /\ c - 1 \in 0 .. Chunks /\ c \in 0 .. Chunks /\ i <= c - 1
          /\ total[c] = total[c - 1] + h[c]
      BY <2>3 DEF IsTotal
    <3>2. /\ t[i] = total[i] /\ t[j] = total[j] - h[c]
          /\ total[i] <= total[c - 1] /\ total[c] <= total[j]
          /\ total[c - 1] \in Nat /\ total[c] \in Nat /\ h[c] \in Nat
      BY SMTT(30), <1>2, <2>3, <3>1 DEF IsTotal
    <3>3. t[i] <= t[j]
      BY <2>1, <3>1, <3>2
    <3>4. t[i] # t[j] => total[i] # total[c - 1] \/ total[c] # total[j]
      BY <2>1, <3>1, <3>2
    <3>5. ASSUME total[i] # total[c - 1]
          PROVE  \E d \in Chunk : i < d /\ d <= j /\ g[d] # 0
      <4>1. PICK d \in Chunk : i < d /\ d <= c - 1 /\ h[d] # 0
        BY <3>1, <3>5 DEF IsTotal
      <4>2. d # c /\ d <= j
        BY <2>3, <4>1
      <4>3. g[d] # 0
        BY <1>3, <4>1, <4>2
      <4> QED
        BY <4>1, <4>2, <4>3
    <3>6. ASSUME total[c] # total[j]
          PROVE  \E d \in Chunk : i < d /\ d <= j /\ g[d] # 0
      <4>1. PICK d \in Chunk : c < d /\ d <= j /\ h[d] # 0
        BY <2>3, <3>1, <3>6 DEF IsTotal
      <4>2. d # c /\ i < d
        BY <2>3, <4>1
      <4>3. g[d] # 0
        BY <1>3, <4>1, <4>2
      <4> QED
        BY <4>1, <4>2, <4>3
    <3> QED
      BY <3>3, <3>4, <3>5, <3>6
  <2> QED
    BY <2>2, <2>3
<1>7. IsTotal(t, g)
  BY <1>1, <1>4, <1>5, <1>6 DEF IsTotal
<1>8. t[Chunks] = total[Chunks] - h[c] /\ h[c] <= total[Chunks]
  BY <1>0, <1>2, <1>9
<1> QED
  BY <1>1, <1>7, <1>8 DEF g

(* With nothing taken the total is 0. *)
LEMMA TotalOfNothing ==
  ASSUME NEW total \in [0 .. Chunks -> Nat], NEW h, IsTotal(total, h),
         \A c \in Chunk : h[c] = 0, Chunks \in Nat
  PROVE  total[Chunks] = 0
<1>1. 0 \in 0 .. Chunks /\ Chunks \in 0 .. Chunks
  OBVIOUS
<1> QED
  BY <1>1 DEF IsTotal

USE FlowAssumption DEF Slot, Chunk, Source

(***************************************************************************)
(* The chunks tile the sources.                                            *)
(***************************************************************************)
LEMMA ChunkFacts ==
  /\ First(1) = 0
  /\ End(Chunks) = NumSources
  /\ \A c \in Chunk : First(c) \in Nat /\ End(c) \in Nat
                      /\ First(c) <= End(c) /\ End(c) <= NumSources
  /\ \A c, d \in Chunk : c < d => End(c) <= First(d)
  /\ \A c \in Chunk : c # Chunks => c + 1 \in Chunk /\ First(c + 1) = End(c)
<1>1. NumSources \in Nat /\ Chunks \in Nat \ {0}
  OBVIOUS
<1> QED
  BY <1>1, PartsTile DEF First, End

(* The slots and the last chunk are the chunks. *)
LEMMA SlotFacts ==
  /\ Chunks \in Chunk /\ Chunks \notin Slot /\ 1 \in Chunk
  /\ \A c \in Slot : c \in Chunk /\ c # Chunks
  /\ \A c \in Chunk : c # Chunks => c \in Slot
OBVIOUS

-------------------------------------------------------------------------------
(* The errors of the sources, in order. *)

(* An error of an earlier source comes before one of a later source. *)
LEMMA ErrorsAscend ==
  ASSUME NEW s \in Nat, NEW t \in Nat, s < t, NEW k \in 0 .. MaxErrors - 1, NEW l \in Nat
  PROVE  ErrorOf(s, k) \in Int /\ ErrorOf(t, l) \in Int /\ ErrorOf(s, k) < ErrorOf(t, l)
<1>1. MaxErrors \in Nat /\ s * MaxErrors \in Nat /\ t * MaxErrors \in Nat
  BY SMT
<1>2. (s + 1) * MaxErrors <= t * MaxErrors
  <2>1. s + 1 <= t /\ s + 1 \in Nat
    OBVIOUS
  <2> QED
    BY <1>1, <2>1, SMT
<1>3. (s + 1) * MaxErrors = s * MaxErrors + MaxErrors
  BY <1>1, SMT
<1> QED
  BY <1>1, <1>2, <1>3 DEF ErrorOf

(* The errors of a source are numbers. *)
LEMMA ErrorsAreNumbers ==
  ASSUME NEW s \in Nat, faulty[s] \in 0 .. MaxErrors
  PROVE  /\ ErrorsOf(s) \in SUBSET Int
         /\ \A e \in ErrorsOf(s) : \E k \in 0 .. MaxErrors - 1 : e = ErrorOf(s, k)
<1> DEFINE b == s * MaxErrors
<1>1. b \in Nat
  BY SMT
<1>2. \A k \in 0 .. MaxErrors - 1 : ErrorOf(s, k) = b + k
  BY DEF ErrorOf
<1> HIDE DEF b
<1>3. \A k \in 0 .. faulty[s] - 1 : k \in 0 .. MaxErrors - 1
  OBVIOUS
<1> QED
  BY <1>1, <1>2, <1>3 DEF ErrorsOf

(* What flow_validate_source records is the list of the errors of a source. *)
LEMMA ListsErrors ==
  ASSUME NEW s \in Nat, faulty[s] \in 0 .. MaxErrors
  PROVE  Lists([k \in 1 .. faulty[s] |-> ErrorOf(s, k - 1)], ErrorsOf(s))
<1> DEFINE n == faulty[s]
           b == s * MaxErrors
           q == [k \in 1 .. n |-> ErrorOf(s, k - 1)]
<1>1. b \in Nat /\ n \in Nat
  BY SMT
<1>2. \A k \in 0 .. n - 1 : ErrorOf(s, k) = b + k
  BY DEF ErrorOf
<1>3. ErrorsOf(s) = {ErrorOf(s, k) : k \in 0 .. n - 1}
  BY DEF ErrorsOf
<1> HIDE DEF b, n
<1>4. \A k \in 1 .. n : q[k] = b + (k - 1)
  BY <1>1, <1>2
<1>5. q \in Seq(Int) /\ Len(q) = n
  BY <1>1, <1>2
<1> HIDE DEF q
<1>6. \A i \in 1 .. n : q[i] \in ErrorsOf(s)
  BY <1>1, <1>2, <1>3, <1>4
<1>7. ASSUME NEW e \in ErrorsOf(s) PROVE \E i \in 1 .. n : q[i] = e
  <2>1. PICK k \in 0 .. n - 1 : e = b + k
    BY <1>2, <1>3
  <2>2. k + 1 \in 1 .. n /\ q[k + 1] = e
    BY <1>1, <1>4, <2>1
  <2> QED
    BY <2>2
<1>8. \A i, j \in 1 .. n : i < j => q[i] < q[j]
  BY <1>1, <1>4
<1>9. Lists(q, ErrorsOf(s))
  BY <1>5, <1>6, <1>7, <1>8 DEF Lists
<1> QED
  BY <1>9 DEF q, n

(* The errors of the analysed sources, one set of sources after the other. *)
LEMMA ExpectedOfMore ==
  ASSUME NEW S, NEW T
  PROVE  Expected(S \cup T) = Expected(S) \cup Expected(T)
BY DEF Expected

LEMMA ExpectedOfOne ==
  ASSUME NEW s
  PROVE  Expected({s}) = IF Hit(s) THEN {} ELSE ErrorsOf(s)
BY DEF Expected

LEMMA ExpectedAscends ==
  ASSUME faulty \in [Source -> 0 .. MaxErrors], NEW S \in SUBSET Source,
         NEW T \in SUBSET Source, \A s \in S, t \in T : s < t
  PROVE  /\ Expected(S) \in SUBSET Int
         /\ \A e \in Expected(S), f \in Expected(T) : e < f
<1>1. ASSUME NEW e \in Expected(S)
      PROVE  e \in Int /\ \E s \in S, k \in 0 .. MaxErrors - 1 : e = ErrorOf(s, k)
  <2>1. PICK s \in S : e \in ErrorsOf(s)
    BY DEF Expected
  <2>2. s \in Nat /\ faulty[s] \in 0 .. MaxErrors
    OBVIOUS
  <2> QED
    BY <2>1, <2>2, ErrorsAreNumbers
<1>2. ASSUME NEW e \in Expected(S), NEW f \in Expected(T)
      PROVE  e < f
  <2>1. PICK s \in S, k \in 0 .. MaxErrors - 1 : e = ErrorOf(s, k)
    BY <1>1
  <2>2. PICK t \in T : f \in ErrorsOf(t)
    BY DEF Expected
  <2>3. /\ s \in Nat /\ t \in Nat /\ s < t
        /\ faulty[t] \in 0 .. MaxErrors
    OBVIOUS
  <2>4. PICK l \in 0 .. MaxErrors - 1 : f = ErrorOf(t, l)
    BY <2>2, <2>3, ErrorsAreNumbers
  <2>5. l \in Nat
    OBVIOUS
  <2> QED
    BY <2>1, <2>3, <2>4, <2>5, ErrorsAscend
<1> QED
  BY <1>1, <1>2

(* The hits among the sources, one set of sources after the other. *)
LEMMA HitsOfMore ==
  ASSUME NEW S, NEW T, IsFiniteSet(S), IsFiniteSet(T), S \cap T = {}
  PROVE  /\ Cardinality(Hits(S)) \in Nat /\ Cardinality(Hits(T)) \in Nat
         /\ Cardinality(Hits(S \cup T)) = Cardinality(Hits(S)) + Cardinality(Hits(T))
<1>1. Hits(S) \in SUBSET S /\ Hits(T) \in SUBSET T
  BY DEF Hits
<1>2. IsFiniteSet(Hits(S)) /\ IsFiniteSet(Hits(T))
  BY <1>1, FS_Subset
<1>3. Hits(S) \cap Hits(T) = {} /\ Hits(S \cup T) = Hits(S) \cup Hits(T)
  BY DEF Hits
<1>4. Cardinality(Hits(S)) \in Nat /\ Cardinality(Hits(T)) \in Nat
  BY <1>2, FS_CardinalityType
<1>5. Cardinality(Hits(S) \cup Hits(T)) =
        Cardinality(Hits(S)) + Cardinality(Hits(T)) - 0
  BY <1>2, <1>3, FS_Union, FS_EmptySet
<1>6. Cardinality(Hits(S \cup T)) = Cardinality(Hits(S) \cup Hits(T))
  BY <1>3, Zenon
<1> QED
  BY <1>4, <1>5, <1>6

LEMMA HitsOfOne ==
  ASSUME NEW s
  PROVE  Cardinality(Hits({s})) = IF Hit(s) THEN 1 ELSE 0
<1>1. CASE Hit(s)
  <2>1. Hits({s}) = {s}
    BY <1>1 DEF Hits
  <2> QED
    BY <1>1, <2>1, FS_Singleton
<1>2. CASE ~Hit(s)
  <2>1. Hits({s}) = {}
    BY <1>2 DEF Hits
  <2> QED
    BY <1>2, <2>1, FS_EmptySet
<1> QED
  BY <1>1, <1>2

-------------------------------------------------------------------------------
(* What a step may touch. *)

(* Every step is a step of the pool or leaves the pool alone. *)
LEMMA NextIsPool == [Next]_vars => [PoolNext]_poolVars
<1> SUFFICES ASSUME [Next]_vars PROVE [PoolNext]_poolVars
  OBVIOUS
<1> USE DEF PoolNext, LaunchStep, PoolStep
<1>1. CASE Launch \/ CallerBegins \/ CallerEnds
  BY <1>1 DEF Launch, CallerBegins, CallerEnds
<1>2. ASSUME NEW c \in Slot, PoolThread(c) PROVE PoolNext
  BY <1>2 DEF PoolThread, StartJob, FinishJob
<1>3. CASE \/ AllocateBuffer \/ BufferExhausts \/ LaunchReturns
           \/ FallbackSkip \/ FallbackBegin \/ FallbackEnd
           \/ Decide \/ AppendChunk \/ AppendRefused \/ Destroy
  BY <1>3 DEF AllocateBuffer, BufferExhausts, LaunchReturns, FallbackSkip,
     FallbackBegin, FallbackEnd, Decide, AppendChunk, AppendRefused, Destroy, othersVars
<1>4. ASSUME NEW c \in Chunk, ChunkStep(c) PROVE UNCHANGED poolVars
  BY <1>4 DEF ChunkStep, SkipSource, BeginSource, SourceExhausts, EndSource, SampleLive,
     chunkStepVars, othersVars
<1>5. CASE Finished \/ UNCHANGED vars
  BY <1>5 DEF Finished, vars
<1> QED
  BY <1>1, <1>2, <1>3, <1>4, <1>5 DEF Next, Launcher

(* No step changes what the call was given. *)
LEMMA NextKeepsInput == [Next]_vars => UNCHANGED inputVars
<1> SUFFICES ASSUME [Next]_vars PROVE UNCHANGED inputVars
  OBVIOUS
<1> USE DEF driverVars, othersVars, chunkStepVars
<1>1. CASE Launcher
  BY <1>1 DEF Launcher, AllocateBuffer, BufferExhausts, Launch, CallerBegins, CallerEnds,
     LaunchReturns, FallbackSkip, FallbackBegin, FallbackEnd, Decide, AppendChunk,
     AppendRefused, Destroy
<1>2. ASSUME NEW c \in Slot, PoolThread(c) PROVE UNCHANGED inputVars
  BY <1>2 DEF PoolThread, StartJob, FinishJob
<1>3. ASSUME NEW c \in Chunk, ChunkStep(c) PROVE UNCHANGED inputVars
  BY <1>3 DEF ChunkStep, SkipSource, BeginSource, SourceExhausts, EndSource, SampleLive
<1>4. CASE Finished \/ UNCHANGED vars
  BY <1>4 DEF Finished, vars
<1> QED
  BY <1>1, <1>2, <1>3, <1>4 DEF Next

\* A pool callback is queued or running, and a step of the pool possible, only
\* during the launch.
LEMMA PoolAtLaunch ==
  ASSUME IInv, stage # "done",
         phase \notin {"resolve", "returned"} \/ \E w \in Slot : InFlight(w)
  PROVE  stage = "launch"
BY DEF IInv, LaunchInv, PoolInv, PoolTypeOK, AllSettled, BeforeSubmit, InFlight

(* A move of a chunk: its job begins, runs one step of its loop, or ends. *)
ChunkMove(c) ==
  \/ Idle(c) /\ Unrun(c) /\ BeginChunk(c)
  \/ SkipSource(c) \/ BeginSource(c) \/ EndSource(c) \/ SampleLive(c)
  \/ EndChunk(c)

LEMMA NextOnChunks ==
  ASSUME IInv, [Next]_vars
  PROVE  UNCHANGED chunkVars \/ \E c \in Chunk : ChunkMove(c)
<1> USE DEF ChunkMove
<1>1. CASE \/ AllocateBuffer \/ BufferExhausts \/ Launch \/ LaunchReturns \/ FallbackSkip
           \/ Decide \/ AppendChunk \/ AppendRefused \/ Destroy
           \/ Finished \/ UNCHANGED vars
  <2>1. UNCHANGED chunkVars
    BY <1>1 DEF AllocateBuffer, BufferExhausts, Launch, LaunchReturns, FallbackSkip,
       Decide, AppendChunk, AppendRefused, Destroy, Finished, vars
  <2> QED
    BY <2>1
<1>2. CASE CallerBegins
  <2>1. phase = "call" /\ BeginChunk(Chunks) /\ stage # "done" /\ Idle(Chunks)
    BY <1>2 DEF CallerBegins, CallerStarts, BeginChunk, Running, Idle
  <2>2. stage = "launch"
    BY <2>1, PoolAtLaunch
  <2>3. Unrun(Chunks)
    BY <2>1, <2>2 DEF IInv, LaunchInv
  <2> QED
    BY <2>1, <2>3, SlotFacts
<1>3. CASE CallerEnds
  BY <1>3, SlotFacts DEF CallerEnds
<1>4. CASE FallbackBegin \/ FallbackEnd
  <2>1. at \in Chunk
    BY DEF IInv, TypeOK
  <2> QED
    BY <1>4, <2>1 DEF FallbackBegin, FallbackEnd, Unrun, Idle, BeginChunk, Running
<1>5. ASSUME NEW c \in Slot, PoolThread(c) PROVE \E d \in Chunk : ChunkMove(d)
  <2>1. CASE StartJob(c)
    <3>1. callback[c] = "queued" /\ BeginChunk(c) /\ stage # "done" /\ Idle(c)
      BY <2>1 DEF StartJob, StartCallback, BeginChunk, Running, Idle
    <3>2. stage = "launch"
      BY <3>1, PoolAtLaunch DEF InFlight
    <3>3. Unrun(c)
      BY <3>1, <3>2 DEF IInv, LaunchInv
    <3> QED
      BY <3>1, <3>3, SlotFacts
  <2>2. CASE FinishJob(c)
    BY <2>2, SlotFacts DEF FinishJob
  <2> QED
    BY <1>5, <2>1, <2>2 DEF PoolThread
<1>6. ASSUME NEW c \in Chunk, ChunkStep(c)
      PROVE  UNCHANGED chunkVars \/ \E d \in Chunk : ChunkMove(d)
  BY <1>6 DEF ChunkStep, SourceExhausts
<1> QED
  BY <1>1, <1>2, <1>3, <1>4, <1>5, <1>6 DEF Next, Launcher

\* What a move leaves of the other chunks.
LEMMA MoveIsLocal ==
  ASSUME TypeOK, NEW c \in Chunk, ChunkMove(c), NEW d \in Chunk, d # c
  PROVE  /\ doing'[d] = doing[d] /\ cursor'[d] = cursor[d] /\ found'[d] = found[d]
         /\ skips'[d] = skips[d] /\ result'[d] = result[d]
<1> USE DEF TypeOK
<1>1. CASE BeginChunk(c)
  BY <1>1 DEF BeginChunk
<1>2. CASE SkipSource(c) \/ BeginSource(c) \/ EndSource(c)
  BY <1>2 DEF SkipSource, BeginSource, EndSource
<1>3. CASE SampleLive(c)
  BY <1>3 DEF SampleLive
<1>4. CASE EndChunk(c)
  BY <1>4 DEF EndChunk
<1> QED
  BY <1>1, <1>2, <1>3, <1>4 DEF ChunkMove

-------------------------------------------------------------------------------
(* The chunks. *)

(* How Progress is shown of the next state. *)
LEMMA ProgressFrom ==
  ASSUME UNCHANGED inputVars, NEW c \in Chunk, NEW S, NEW A,
         Seen(c)' = S, Analysed(c)' = A,
         First(c) <= cursor'[c], cursor'[c] <= End(c),
         doing'[c] \in {"analyse", "sample", "over"} =>
           cursor'[c] < End(c) /\ ~Hit(cursor'[c]),
         skips'[c] = Cardinality(Hits(S)),
         result'[c] # 2 => Lists(found'[c], Expected(A))
  PROVE  Progress(c)'
<1>1. First(c)' = First(c) /\ End(c)' = End(c)
  BY DEF First, End
<1>2. saved' = saved /\ faulty' = faulty
  BY DEF inputVars
<1>3. Hits(Seen(c))' = Hits(S)
  BY <1>2 DEF Hits, Hit
<1>4. Expected(Analysed(c))' = Expected(A)
  BY <1>2 DEF Expected, ErrorsOf, Hit
<1>5. Hit(cursor[c])' = Hit(cursor'[c])
  BY <1>2 DEF Hit
<1>6. Cardinality(Hits(Seen(c)))' = Cardinality(Hits(S))
  BY <1>3
<1> QED
  BY <1>1, <1>4, <1>5, <1>6 DEF Progress

(* The place of a busy chunk. *)
LEMMA ChunkPlace ==
  ASSUME TypeOK, NEW c \in Chunk, Progress(c)
  PROVE  /\ cursor[c] \in Nat /\ First(c) \in Nat /\ End(c) \in Nat
         /\ First(c) <= cursor[c] /\ cursor[c] <= End(c) /\ End(c) <= NumSources
         /\ Seen(c) \in SUBSET Source /\ IsFiniteSet(Seen(c))
         /\ cursor[c] < End(c) => cursor[c] \in Source
         /\ \A s \in Seen(c) : s < cursor[c]
<1>1. /\ cursor[c] \in Nat /\ First(c) \in Nat /\ End(c) \in Nat
      /\ First(c) <= cursor[c] /\ cursor[c] <= End(c) /\ End(c) <= NumSources
  BY ChunkFacts DEF TypeOK, Progress
<1>2. Seen(c) \in SUBSET Source /\ \A s \in Seen(c) : s < cursor[c]
  BY <1>1 DEF Seen
<1>3. IsFiniteSet(Seen(c))
  <2>1. First(c) \in Int /\ cursor[c] - 1 \in Int
    BY <1>1
  <2> QED
    BY <2>1, FS_Interval DEF Seen
<1>4. cursor[c] < End(c) => cursor[c] \in Source
  BY <1>1
<1> QED
  BY <1>1, <1>2, <1>3, <1>4

LEMMA SkipKeeps ==
  ASSUME TypeOK, NEW c \in Chunk, Progress(c), Unrun(c), SkipSource(c), UNCHANGED inputVars
  PROVE  Progress(c)'
<1> DEFINE s == cursor[c]
           S == Seen(c) \cup {s}
<1>0. /\ cursor[c] \in Nat /\ First(c) \in Nat /\ End(c) \in Nat /\ First(c) <= s
      /\ IsFiniteSet(Seen(c)) /\ Seen(c) \cap {s} = {}
  BY ChunkPlace
<1>1. /\ doing[c] = "scan" /\ s < End(c) /\ Hit(s)
      /\ skips'[c] = skips[c] + 1 /\ cursor'[c] = s + 1 /\ doing'[c] = "scan"
      /\ found'[c] = found[c] /\ result'[c] = result[c]
  BY DEF SkipSource, Scanning, Running, TypeOK
<1>2. Seen(c)' = S
  BY <1>0, <1>1 DEF Seen, First
<1>3. Analysed(c)' = S /\ Analysed(c) = Seen(c)
  BY <1>1, <1>2 DEF Analysed
<1>4. Cardinality(Hits(S)) = skips[c] + 1
  <2>1. skips[c] = Cardinality(Hits(Seen(c)))
    BY DEF Progress
  <2>2. IsFiniteSet({s})
    BY FS_Singleton
  <2>3. Cardinality(Hits(S)) = Cardinality(Hits(Seen(c))) + Cardinality(Hits({s}))
    BY <1>0, <2>2, HitsOfMore
  <2>4. Cardinality(Hits({s})) = 1
    BY <1>1, HitsOfOne
  <2> QED
    BY <2>1, <2>3, <2>4
<1>5. result'[c] # 2 /\ Lists(found'[c], Expected(S))
  <2>1. Expected(S) = Expected(Seen(c)) \cup {}
    BY ZenonT(30), <1>1, ExpectedOfMore, ExpectedOfOne
  <2> QED
    BY <1>1, <1>3, <2>1 DEF Progress, Unrun
<1>6. First(c) <= cursor'[c] /\ cursor'[c] <= End(c)
  BY <1>0, <1>1
<1> HIDE DEF S
<1> QED
  BY <1>1, <1>2, <1>3, <1>4, <1>5, <1>6, ProgressFrom

LEMMA EndSourceKeeps ==
  ASSUME TypeOK, NEW c \in Chunk, Progress(c), Unrun(c), EndSource(c), UNCHANGED inputVars
  PROVE  Progress(c)'
<1> DEFINE s == cursor[c]
           S == Seen(c) \cup {s}
           q == [k \in 1 .. faulty[s] |-> ErrorOf(s, k - 1)]
<1>1. /\ doing[c] = "analyse" /\ doing'[c] = "sample" /\ found'[c] = found[c] \o q
      /\ cursor' = cursor /\ skips' = skips /\ result' = result
  BY DEF EndSource, Running, TypeOK
<1>2. s < End(c) /\ ~Hit(s) /\ Analysed(c) = Seen(c)
  BY <1>1 DEF Progress, Analysed
<1>3. /\ s \in Source /\ s \in Nat /\ faulty[s] \in 0 .. MaxErrors
      /\ Seen(c) \in SUBSET Source /\ {s} \in SUBSET Source
      /\ \A r \in Seen(c), t \in {s} : r < t
  <2>1. /\ s \in Source /\ s \in Nat /\ Seen(c) \in SUBSET Source
        /\ \A r \in Seen(c) : r < s
    BY <1>2, ChunkPlace
  <2>2. faulty \in [Source -> 0 .. MaxErrors]
    BY DEF TypeOK
  <2> HIDE DEF s
  <2> QED
    BY <2>1, <2>2
<1>4. Seen(c)' = Seen(c) /\ Analysed(c)' = S
  BY <1>1 DEF Seen, Analysed, First
<1>5. Lists(found'[c], Expected(S))
  <2>1. Lists(found[c], Expected(Seen(c)))
    BY <1>2 DEF Progress, Unrun
  <2>2. Lists(q, Expected({s}))
    BY <1>2, <1>3, ListsErrors, ExpectedOfOne
  <2>3. /\ Expected(Seen(c)) \in SUBSET Int
        /\ \A e \in Expected(Seen(c)), f \in Expected({s}) : e < f
    BY <1>3, ExpectedAscends DEF TypeOK
  <2>4. Expected({s}) \in SUBSET Int
    BY <1>3, ErrorsAreNumbers, ExpectedOfOne
  <2> HIDE DEF q
  <2>5. Lists(found[c] \o q, Expected(Seen(c)) \cup Expected({s}))
    BY <2>1, <2>2, <2>3, <2>4, ListsConcat
  <2>6. Expected(S) = Expected(Seen(c)) \cup Expected({s})
    BY ExpectedOfMore
  <2> QED
    BY <1>1, <2>5, <2>6
<1>6. skips'[c] = Cardinality(Hits(Seen(c))) /\ First(c) <= cursor'[c] /\ cursor'[c] <= End(c)
  BY <1>1 DEF Progress
<1>7. cursor'[c] < End(c) /\ ~Hit(cursor'[c])
  BY <1>1, <1>2
<1> HIDE DEF S
<1> QED
  BY <1>4, <1>5, <1>6, <1>7, ProgressFrom

LEMMA SampleKeeps ==
  ASSUME TypeOK, NEW c \in Chunk, Progress(c), Unrun(c), SampleLive(c), UNCHANGED inputVars
  PROVE  Progress(c)'
<1> DEFINE s == cursor[c]
           S == Seen(c) \cup {s}
<1>1. /\ doing[c] = "sample" /\ found' = found /\ skips' = skips /\ result' = result
      /\ \/ doing'[c] = "over" /\ cursor'[c] = s
         \/ doing'[c] = "scan" /\ cursor'[c] = s + 1
  <2>1. CASE OverBudget(c)
    BY <2>1 DEF SampleLive, Running, TypeOK
  <2>2. CASE ~OverBudget(c)
    BY <2>2 DEF SampleLive, Running, TypeOK
  <2> QED
    BY <2>1, <2>2
<1>2. /\ s < End(c) /\ ~Hit(s) /\ Analysed(c) = S
      /\ First(c) <= s /\ skips[c] = Cardinality(Hits(Seen(c)))
  BY <1>1 DEF Progress, Analysed
<1>3. /\ s \in Nat /\ First(c) \in Nat /\ End(c) \in Nat
      /\ IsFiniteSet(Seen(c)) /\ Seen(c) \cap {s} = {}
  BY ChunkPlace
<1>4. Lists(found'[c], Expected(S))
  BY <1>1, <1>2 DEF Progress, Unrun
<1>5. CASE doing'[c] = "over" /\ cursor'[c] = s
  <2>1. Seen(c)' = Seen(c) /\ Analysed(c)' = S
    BY <1>5 DEF Seen, Analysed, First
  <2>2. First(c) <= cursor'[c] /\ cursor'[c] <= End(c)
    BY <1>2, <1>3, <1>5
  <2> HIDE DEF S
  <2> QED
    BY <1>1, <1>2, <1>4, <1>5, <2>1, <2>2, ProgressFrom
<1>6. CASE doing'[c] = "scan" /\ cursor'[c] = s + 1
  <2>1. Seen(c)' = S
    BY <1>2, <1>3, <1>6 DEF Seen, First
  <2>2. Analysed(c)' = S
    BY <1>6, <2>1 DEF Analysed
  <2>3. First(c) <= cursor'[c] /\ cursor'[c] <= End(c)
    BY <1>2, <1>3, <1>6
  <2>4. Cardinality(Hits(S)) = skips[c]
    <3>1. IsFiniteSet({s})
      BY FS_Singleton
    <3>2. /\ Cardinality(Hits(Seen(c))) \in Nat
          /\ Cardinality(Hits(S)) = Cardinality(Hits(Seen(c))) + Cardinality(Hits({s}))
      BY <1>3, <3>1, HitsOfMore
    <3>3. Cardinality(Hits({s})) = 0
      BY <1>2, HitsOfOne
    <3> QED
      BY <1>2, <3>2, <3>3
  <2> HIDE DEF S
  <2> QED
    BY <1>1, <1>4, <1>6, <2>1, <2>2, <2>3, <2>4, ProgressFrom
<1> QED
  BY <1>1, <1>5, <1>6

\* The other moves neither pass a source nor analyse one.
LEMMA QuietMoveKeeps ==
  ASSUME TypeOK, NEW c \in Chunk, Progress(c), RunState(c), UNCHANGED inputVars,
         \/ Idle(c) /\ Unrun(c) /\ BeginChunk(c)
         \/ BeginSource(c)
         \/ EndChunk(c)
  PROVE  Progress(c)'
<1>1. CASE Idle(c) /\ Unrun(c) /\ BeginChunk(c)
  <2>1. /\ doing[c] = "idle" /\ doing'[c] = "scan" /\ cursor'[c] = cursor[c]
        /\ UNCHANGED <<found, skips, result>>
    BY <1>1 DEF BeginChunk, RunState, Idle, TypeOK
  <2>2. Seen(c)' = Seen(c) /\ Analysed(c)' = Analysed(c)
    BY <2>1 DEF Seen, Analysed, First
  <2> QED
    BY <2>1, <2>2, ProgressFrom DEF Progress
<1>2. CASE BeginSource(c)
  <2>1. /\ doing[c] = "scan" /\ doing'[c] = "analyse"
        /\ cursor[c] < End(c) /\ ~Hit(cursor[c])
        /\ UNCHANGED <<cursor, found, skips, result>>
    BY <1>2 DEF BeginSource, Scanning, Running, TypeOK
  <2>2. Seen(c)' = Seen(c) /\ Analysed(c)' = Analysed(c)
    BY <2>1 DEF Seen, Analysed, First
  <2> QED
    BY <2>1, <2>2, ProgressFrom DEF Progress
<1>3. CASE EndChunk(c)
  <2>1. /\ doing[c] \in {"scan", "over"} /\ doing'[c] = "idle"
        /\ result'[c] = IF doing[c] = "over" THEN 2 ELSE 0
        /\ UNCHANGED <<cursor, found, skips>>
    BY <1>3 DEF EndChunk, Running, TypeOK
  <2>2. Seen(c)' = Seen(c) /\ Analysed(c)' = Seen(c)
    BY <2>1 DEF Seen, Analysed, First
  <2>3. result'[c] # 2 => Lists(found'[c], Expected(Seen(c)))
    BY <2>1 DEF Progress, Analysed, RunState, Idle, Unrun
  <2> QED
    BY <2>1, <2>2, <2>3, ProgressFrom DEF Progress
<1> QED
  BY <1>1, <1>2, <1>3

\* A move keeps what the chunk says of itself.
LEMMA MoveKeeps ==
  ASSUME TypeOK, NEW c \in Chunk, Progress(c), RunState(c), UNCHANGED inputVars, ChunkMove(c)
  PROVE  Progress(c)' /\ RunState(c)'
<1>1. CASE Idle(c) /\ Unrun(c) /\ BeginChunk(c)
  <2>1. /\ doing'[c] = "scan" /\ result'[c] = -1
    BY <1>1 DEF BeginChunk, Unrun, TypeOK
  <2> QED
    BY <1>1, <2>1, QuietMoveKeeps DEF RunState, Idle, Unrun
<1>2. CASE SkipSource(c) \/ BeginSource(c) \/ EndSource(c) \/ SampleLive(c)
  <2>1. doing[c] # "idle"
    BY <1>2 DEF SkipSource, BeginSource, EndSource, SampleLive, Scanning, Running
  <2>2. Unrun(c)
    BY <2>1 DEF RunState, Idle
  <2>3. doing'[c] # "idle" /\ result' = result
    <3>1. CASE SkipSource(c) \/ BeginSource(c) \/ EndSource(c)
      BY <2>1, <3>1 DEF SkipSource, BeginSource, EndSource, TypeOK
    <3>2. CASE SampleLive(c)
      <4>1. CASE OverBudget(c)
        BY <3>2, <4>1 DEF SampleLive, TypeOK
      <4>2. CASE ~OverBudget(c)
        BY <3>2, <4>2 DEF SampleLive, TypeOK
      <4> QED
        BY <4>1, <4>2
    <3> QED
      BY <1>2, <3>1, <3>2
  <2>4. Progress(c)'
    BY <1>2, <2>2, SkipKeeps, QuietMoveKeeps, EndSourceKeeps, SampleKeeps
  <2> QED
    BY <2>2, <2>3, <2>4 DEF RunState, Idle, Unrun
<1>3. CASE EndChunk(c)
  <2>1. /\ doing'[c] = "idle" /\ cursor' = cursor
        /\ \/ result'[c] = 2
           \/ result'[c] = 0 /\ cursor[c] = End(c)
    BY <1>3 DEF EndChunk, Running, TypeOK
  <2>2. RunState(c)'
    BY <2>1 DEF RunState, Idle, Unrun, End
  <2> QED
    BY <1>3, <2>2, QuietMoveKeeps
<1> QED
  BY <1>1, <1>2, <1>3 DEF ChunkMove

\* Chunks that a step does not touch keep their part of the invariant.
LEMMA UntouchedChunk ==
  ASSUME NEW d \in Chunk, Progress(d), RunState(d), UNCHANGED inputVars,
         doing'[d] = doing[d], cursor'[d] = cursor[d], found'[d] = found[d],
         skips'[d] = skips[d], result'[d] = result[d]
  PROVE  Progress(d)' /\ RunState(d)'
<1>1. Seen(d)' = Seen(d) /\ Analysed(d)' = Analysed(d)
  BY DEF Seen, Analysed, First
<1>2. Progress(d)'
  BY <1>1, ProgressFrom DEF Progress
<1>3. RunState(d)'
  BY DEF RunState, Idle, Unrun, First, End
<1> QED
  BY <1>2, <1>3

\* Every step keeps what the chunks say of their sources.
LEMMA ChunkInvNext ==
  ASSUME IInv, [Next]_vars
  PROVE  ChunkInv'
<1>1. TypeOK /\ ChunkInv /\ UNCHANGED inputVars
  BY NextKeepsInput DEF IInv
<1>2. CASE UNCHANGED chunkVars
  BY <1>1, <1>2, UntouchedChunk DEF ChunkInv, chunkVars
<1>3. ASSUME NEW c \in Chunk, ChunkMove(c) PROVE ChunkInv'
  <2>1. ASSUME NEW d \in Chunk PROVE Progress(d)' /\ RunState(d)'
    <3>1. Progress(d) /\ RunState(d)
      BY <1>1 DEF ChunkInv
    <3>2. CASE d = c
      BY <1>1, <1>3, <3>1, <3>2, MoveKeeps
    <3>3. CASE d # c
      BY <1>1, <1>3, <3>1, <3>3, MoveIsLocal, UntouchedChunk
    <3> QED
      BY <3>2, <3>3
  <2> QED
    BY <2>1 DEF ChunkInv
<1> QED
  BY <1>2, <1>3, NextOnChunks

(* A step keeps the types of the chunks' variables. *)
LEMMA ChunkTypes ==
  ASSUME IInv, [Next]_vars
  PROVE  /\ doing' \in [Chunk -> {"idle", "scan", "analyse", "sample", "over"}]
         /\ cursor' \in [Chunk -> 0 .. NumSources]
         /\ found' \in [Chunk -> Seq(Int)]
         /\ skips' \in [Chunk -> Nat]
         /\ result' \in [Chunk -> {-1, 0, 2}]
<1>1. TypeOK /\ ChunkInv
  BY DEF IInv
<1>2. CASE UNCHANGED chunkVars
  BY <1>1, <1>2 DEF chunkVars, TypeOK
<1>3. ASSUME NEW c \in Chunk, ChunkMove(c)
      PROVE  /\ doing' \in [Chunk -> {"idle", "scan", "analyse", "sample", "over"}]
             /\ cursor' \in [Chunk -> 0 .. NumSources]
             /\ found' \in [Chunk -> Seq(Int)]
             /\ skips' \in [Chunk -> Nat]
             /\ result' \in [Chunk -> {-1, 0, 2}]
  <2>0. Progress(c)
    BY <1>1 DEF ChunkInv
  <2>1. CASE BeginChunk(c)
    <3>1. First(c) \in 0 .. NumSources
      BY ChunkFacts
    <3> QED
      BY <1>1, <2>1, <3>1 DEF BeginChunk, TypeOK
  <2>2. CASE SkipSource(c)
    <3>1. cursor[c] < End(c)
      BY <2>2 DEF SkipSource, Scanning
    <3>2. cursor[c] + 1 \in 0 .. NumSources
      BY <1>1, <2>0, <3>1, ChunkPlace
    <3> QED
      <4>1. /\ skips' = [skips EXCEPT ![c] = skips[c] + 1] /\ skips[c] \in Nat
            /\ cursor' = [cursor EXCEPT ![c] = cursor[c] + 1]
            /\ UNCHANGED <<doing, found, result>>
        BY <1>1, <2>2 DEF SkipSource, TypeOK
      <4>2. skips' \in [Chunk -> Nat]
        <5>1. skips \in [Chunk -> Nat]
          BY <1>1 DEF TypeOK
        <5>2. skips[c] + 1 \in Nat
          BY <4>1
        <5> QED
          BY <4>1, <5>1, <5>2
      <4>3. cursor' \in [Chunk -> 0 .. NumSources]
        BY <1>1, <3>2, <4>1 DEF TypeOK
      <4> QED
        BY <1>1, <4>1, <4>2, <4>3 DEF TypeOK
  <2>3. CASE BeginSource(c)
    BY <1>1, <2>3 DEF BeginSource, TypeOK
  <2>4. CASE EndSource(c)
    <3> DEFINE s == cursor[c]
               q == [k \in 1 .. faulty[s] |-> ErrorOf(s, k - 1)]
    <3>1. s < End(c)
      BY <2>0, <2>4 DEF EndSource, Running, Progress
    <3>2. s \in Nat /\ faulty[s] \in 0 .. MaxErrors
      <4>1. s \in Source
        BY <1>1, <2>0, <3>1, ChunkPlace
      <4> QED
        BY SMTT(30), <1>1, <4>1 DEF TypeOK
    <3>3. q \in Seq(Int) /\ found[c] \in Seq(Int)
      BY <1>1, <3>2, ListsErrors DEF Lists, TypeOK
    <3>4. found' = [found EXCEPT ![c] = found[c] \o q]
      BY <2>4 DEF EndSource
    <3> HIDE DEF q
    <3>5. found[c] \o q \in Seq(Int)
      BY <3>3, ConcatProperties
    <3>6. found' \in [Chunk -> Seq(Int)]
      BY <1>1, <3>4, <3>5 DEF TypeOK
    <3> QED
      BY <1>1, <2>4, <3>6 DEF EndSource, TypeOK
  <2>5. CASE SampleLive(c)
    <3>1. cursor[c] < End(c)
      BY <2>0, <2>5 DEF SampleLive, Running, Progress
    <3>2. cursor[c] + 1 \in 0 .. NumSources /\ cursor[c] \in 0 .. NumSources
      BY <1>1, <2>0, <3>1, ChunkPlace
    <3>3. /\ \/ doing' = [doing EXCEPT ![c] = "over"]
             \/ doing' = [doing EXCEPT ![c] = "scan"]
          /\ \/ cursor' = [cursor EXCEPT ![c] = cursor[c]]
             \/ cursor' = [cursor EXCEPT ![c] = cursor[c] + 1]
          /\ UNCHANGED <<found, skips, result>>
      <4>1. CASE OverBudget(c)
        BY <2>5, <4>1 DEF SampleLive
      <4>2. CASE ~OverBudget(c)
        BY <2>5, <4>2 DEF SampleLive
      <4> QED
        BY <4>1, <4>2
    <3>4. doing' \in [Chunk -> {"idle", "scan", "analyse", "sample", "over"}]
      BY <1>1, <3>3 DEF TypeOK
    <3>5. cursor' \in [Chunk -> 0 .. NumSources]
      BY <1>1, <3>2, <3>3 DEF TypeOK
    <3> QED
      BY <1>1, <3>3, <3>4, <3>5 DEF TypeOK
  <2>6. CASE EndChunk(c)
    BY <1>1, <2>6 DEF EndChunk, TypeOK
  <2> QED
    BY <1>3, <2>1, <2>2, <2>3, <2>4, <2>5, <2>6 DEF ChunkMove
<1> QED
  BY <1>2, <1>3, NextOnChunks

-------------------------------------------------------------------------------
(* The stages of the driver. *)

\* A step inside a chunk leaves its job busy and the driver where it is, unless
\* it ends the process.
LEMMA StepInsideChunk ==
  ASSUME TypeOK, NEW c \in Chunk, ChunkStep(c)
  PROVE  /\ \A d \in Chunk : Idle(d)' <=> Idle(d)
         /\ result' = result /\ UNCHANGED othersVars
         /\ \/ UNCHANGED <<stage, verdict>>
            \/ stage' = "done" /\ verdict' = "aborted" /\ UNCHANGED <<chunkVars, live>>
<1> USE DEF chunkStepVars, Idle
<1>1. CASE SkipSource(c)
  BY <1>1 DEF SkipSource
<1>2. CASE BeginSource(c)
  BY <1>2 DEF BeginSource, Scanning, Running, TypeOK
<1>3. CASE SourceExhausts(c)
  BY <1>3 DEF SourceExhausts, Exhausted, chunkVars
<1>4. CASE EndSource(c)
  BY <1>4 DEF EndSource, Running, TypeOK
<1>5. CASE SampleLive(c)
  <2>1. doing[c] = "sample" /\ UNCHANGED <<result, othersVars, stage, verdict>>
    BY <1>5 DEF SampleLive, Running
  <2>2. doing' = [doing EXCEPT ![c] = "over"] \/ doing' = [doing EXCEPT ![c] = "scan"]
    <3>1. CASE OverBudget(c)
      BY <1>5, <3>1 DEF SampleLive
    <3>2. CASE ~OverBudget(c)
      BY <1>5, <3>2 DEF SampleLive
    <3> QED
      BY <3>1, <3>2
  <2> QED
    BY <2>1, <2>2 DEF TypeOK
<1> QED
  BY <1>1, <1>2, <1>3, <1>4, <1>5 DEF ChunkStep

\* Beside the pool and its jobs, the launch begins and ends in one step.
LEMMA LaunchInvNext ==
  ASSUME IInv, [Next]_vars
  PROVE  LaunchInv'
<1>1. TypeOK /\ PoolInv /\ LaunchInv /\ ChunkInv
  BY DEF IInv
<1>11. /\ DOMAIN doing = Chunk /\ DOMAIN result = Chunk /\ DOMAIN callback = Slot
       /\ doing = [c \in Chunk |-> doing[c]] /\ result = [c \in Chunk |-> result[c]]
       /\ callback = [c \in Slot |-> callback[c]]
  BY <1>1 DEF TypeOK, PoolTypeOK
<1> USE DEF LaunchInv, PoolTypeOK, Idle, Unrun
<1>2. CASE Launch
  <2>1. UNCHANGED <<doing, result, stage, at>> /\ stage = "launch"
    BY <1>2 DEF Launch, chunkVars, driverVars
  <2>2. CASE ResolveApis \/ ResolveFails \/ CreateWork \/ CreateFails
    <3>1. /\ phase \in {"resolve", "create"} /\ callback' = callback /\ launch' = launch
          /\ phase' \in {"create", "close", "submit"}
      BY <2>2 DEF ResolveApis, ResolveFails, CreateWork, CreateFails, Advance
    <3>2. launch = 3
      BY <1>1, <3>1 DEF PoolInv, NothingClosed
    <3> QED
      BY <1>1, <2>1, <3>1, <3>2
  <2>3. CASE SubmitWork
    <3>1. /\ phase = "submit" /\ callback[next] = "idle" /\ launch' = launch
          /\ phase' = "submit" \/ phase' = "call"
          /\ \A w \in Slot : callback'[w] = IF w = next THEN "queued" ELSE callback[w]
      BY <1>1, <2>3 DEF SubmitWork, Advance, PoolInv, AtSubmit
    <3> QED
      BY <1>1, <2>1, <3>1
  <2>4. CASE WaitWork
    <3>1. /\ phase = "wait" /\ callback' = callback
          /\ \/ phase' = "wait"
             \/ phase' = "close" /\ launch' = 0
      BY <2>4 DEF WaitWork, Advance
    <3> QED
      BY <1>1, <2>1, <3>1
  <2>5. CASE CloseWork
    <3>1. /\ phase = "close" /\ callback' = callback /\ launch' = launch
          /\ phase' = "close" \/ phase' = "returned"
      BY <2>5 DEF CloseWork, Advance
    <3> QED
      BY <1>1, <2>1, <3>1
  <2> QED
    BY <1>2, <2>2, <2>3, <2>4, <2>5 DEF Launch
<1>3. CASE CallerBegins \/ CallerEnds
  <2>1. /\ stage # "done" /\ UNCHANGED <<stage, at, callback, launch>>
        /\ \/ /\ phase = "call" /\ phase' = "caller"
              /\ doing' = [doing EXCEPT ![Chunks] = "scan"] /\ result' = result
           \/ /\ phase = "caller" /\ phase' = "wait"
              /\ doing' = [doing EXCEPT ![Chunks] = "idle"]
              /\ \E r \in {0, 2} : result' = [result EXCEPT ![Chunks] = r]
    BY <1>3 DEF CallerBegins, CallerStarts, BeginChunk, CallerEnds, CallerReturns, EndChunk,
       Running, driverVars
  <2>2. stage = "launch"
    BY <2>1, PoolAtLaunch
  <2>3. /\ \A c \in Slot : doing'[c] = doing[c] /\ result'[c] = result[c]
        /\ \/ phase' = "caller" /\ doing'[Chunks] = "scan" /\ result'[Chunks] = result[Chunks]
           \/ phase' = "wait" /\ doing'[Chunks] = "idle" /\ result'[Chunks] # -1
    BY SMTT(30), <1>11, <2>1, SlotFacts
  <2> QED
    BY <1>1, <2>1, <2>2, <2>3
<1>4. ASSUME NEW c \in Slot, PoolThread(c) PROVE LaunchInv'
  <2>1. UNCHANGED <<phase, launch, stage, at>> /\ stage # "done" /\ InFlight(c)
    BY <1>4 DEF PoolThread, StartJob, FinishJob, StartCallback, FinishCallback,
       driverVars, BeginChunk, EndChunk, Running, InFlight
  <2>2. stage = "launch"
    BY <2>1, PoolAtLaunch
  <2>3. \/ /\ callback[c] = "queued" /\ callback' = [callback EXCEPT ![c] = "running"]
           /\ doing' = [doing EXCEPT ![c] = "scan"] /\ result' = result
        \/ /\ callback[c] = "running" /\ callback' = [callback EXCEPT ![c] = "done"]
           /\ doing' = [doing EXCEPT ![c] = "idle"]
           /\ \E r \in {0, 2} : result' = [result EXCEPT ![c] = r]
    BY <1>4 DEF PoolThread, StartJob, FinishJob, StartCallback, FinishCallback,
       BeginChunk, EndChunk
  <2>4. /\ \A d \in Slot : d # c => callback'[d] = callback[d]
        /\ \A d \in Chunk : d # c => doing'[d] = doing[d] /\ result'[d] = result[d]
        /\ \/ callback'[c] = "running" /\ doing'[c] = "scan" /\ result'[c] = result[c]
           \/ callback'[c] = "done" /\ doing'[c] = "idle" /\ result'[c] # -1
    BY SMTT(30), <1>11, <2>3, SlotFacts
  <2>5. ASSUME NEW d \in Slot
        PROVE  (Idle(d)' <=> callback'[d] # "running") /\ (Unrun(d)' <=> callback'[d] # "done")
    <3>1. CASE d = c
      BY <1>1, <2>2, <2>3, <2>4, <3>1
    <3>2. CASE d # c
      BY <1>1, <2>2, <2>4, <3>2, SlotFacts
    <3> QED
      BY <3>1, <3>2
  <2>6. doing'[Chunks] = doing[Chunks] /\ result'[Chunks] = result[Chunks]
    BY <2>4, SlotFacts
  <2> QED
    BY <1>1, <2>1, <2>2, <2>5, <2>6
<1>5. CASE LaunchReturns
  BY <1>5 DEF LaunchReturns, poolVars
<1>6. CASE AllocateBuffer
  <2>1. /\ stage = "buffers" /\ stage' \in {"buffers", "launch"}
        /\ stage' = "launch" => at' = 1
        /\ UNCHANGED <<phase, callback, launch, doing, result>>
    BY <1>6 DEF AllocateBuffer, poolVars, chunkVars
  <2>2. phase = "resolve" /\ \A w \in Slot : callback[w] = "idle"
    BY <1>1, <2>1 DEF PoolInv, BeforeSubmit
  <2> QED
    BY <1>1, <2>1, <2>2, SlotFacts
<1>7. CASE BufferExhausts
  BY <1>7 DEF BufferExhausts, Exhausted
<1>8. ASSUME NEW c \in Chunk, ChunkStep(c) PROVE LaunchInv'
  <2>1. /\ \A d \in Chunk : (Idle(d)' <=> Idle(d)) /\ result'[d] = result[d]
        /\ UNCHANGED <<phase, callback, launch, at>>
        /\ stage' = stage \/ stage' = "done"
    BY <1>1, <1>8, StepInsideChunk DEF othersVars, poolVars
  <2> HIDE DEF Idle
  <2> QED
    BY <1>1, <2>1, SlotFacts
<1>9. CASE \/ FallbackSkip \/ FallbackBegin \/ FallbackEnd
           \/ Decide \/ AppendChunk \/ AppendRefused \/ Destroy
  <2>1. stage \notin {"buffers", "launch", "done"} /\ stage' \notin {"buffers", "launch"}
        /\ phase' = phase
    BY <1>9 DEF FallbackSkip, FallbackBegin, FallbackEnd, NextChunk, driverVars,
       Decide, AppendChunk, AppendRefused, Destroy, poolVars
  <2> QED
    BY <1>1, <2>1
<1>10. CASE Finished \/ UNCHANGED vars
  BY <1>1, <1>10 DEF Finished, vars, poolVars, chunkVars
<1> QED
  BY <1>2, <1>3, <1>4, <1>5, <1>6, <1>7, <1>8, <1>9, <1>10 DEF Next, Launcher

\* The fallback visits the chunks in order and leaves none unrun.
LEMMA FallbackInvNext ==
  ASSUME IInv, [Next]_vars
  PROVE  FallbackInv' /\ SettledInv'
<1>1. TypeOK /\ LaunchInv /\ FallbackInv /\ SettledInv
  BY DEF IInv
<1> USE DEF Unrun, Idle
<1>2. CASE \/ AllocateBuffer \/ BufferExhausts \/ Launch \/ CallerBegins \/ CallerEnds
           \/ \E c \in Slot : PoolThread(c)
  <2>1. stage' \in {"buffers", "launch", "done"}
    <3>1. CASE AllocateBuffer \/ BufferExhausts \/ Launch
      BY <3>1 DEF AllocateBuffer, BufferExhausts, Exhausted, Launch, driverVars
    <3>2. CASE CallerBegins \/ CallerEnds
      <4>1. phase \in {"call", "caller"} /\ stage # "done" /\ stage' = stage
        BY <3>2 DEF CallerBegins, CallerEnds, CallerStarts, CallerReturns, BeginChunk,
           EndChunk, Running, driverVars
      <4> QED
        BY <4>1, PoolAtLaunch
    <3>3. ASSUME NEW c \in Slot, PoolThread(c) PROVE stage' = "launch"
      <4>1. InFlight(c) /\ stage # "done" /\ stage' = stage
        BY <3>3 DEF PoolThread, StartJob, FinishJob, StartCallback, FinishCallback,
           driverVars, BeginChunk, EndChunk, Running, InFlight
      <4> QED
        BY <4>1, PoolAtLaunch
    <3> QED
      BY <1>2, <3>1, <3>2, <3>3
  <2> QED
    BY <2>1 DEF FallbackInv, SettledInv
<1>3. CASE LaunchReturns
  <2>1. /\ stage = "launch" /\ phase = "returned" /\ stage' = "fallback"
        /\ at' = at /\ UNCHANGED <<doing, result>>
    BY <1>3 DEF LaunchReturns, chunkVars
  <2>2. \A c \in Chunk : Idle(c)
    <3>1. \A w \in Slot : callback[w] # "running"
      BY <2>1 DEF IInv, PoolInv, AllSettled
    <3> QED
      BY <1>1, <2>1, <3>1, SlotFacts DEF LaunchInv
  <2>3. at = 1
    BY <1>1, <2>1 DEF LaunchInv
  <2> QED
    BY <2>1, <2>2, <2>3 DEF FallbackInv, SettledInv
<1>4. CASE FallbackSkip \/ FallbackEnd
  <2>1. /\ stage = "fallback" /\ at \in Chunk
        /\ \A c \in Chunk : (c < at => ~Unrun(c)) /\ (~Idle(c) => c = at)
        /\ NextChunk
    BY <1>1, <1>4 DEF FallbackSkip, FallbackEnd, FallbackInv, TypeOK
  <2>2. /\ \A c \in Chunk : Idle(c)'
        /\ result'[at] # -1
        /\ \A c \in Chunk : c # at => result'[c] = result[c]
    <3>1. CASE FallbackSkip
      BY <2>1, <3>1 DEF FallbackSkip, chunkVars
    <3>2. CASE FallbackEnd
      BY <1>1, <2>1, <3>2 DEF FallbackEnd, EndChunk, TypeOK
    <3> QED
      BY <1>4, <3>1, <3>2
  <2>3. CASE at = Chunks
    BY <2>1, <2>2, <2>3 DEF NextChunk, FallbackInv, SettledInv
  <2>4. CASE at # Chunks
    BY <2>1, <2>2, <2>4 DEF NextChunk, FallbackInv, SettledInv
  <2> QED
    BY <2>3, <2>4
<1>5. CASE FallbackBegin
  BY <1>1, <1>5 DEF FallbackBegin, BeginChunk, driverVars, FallbackInv, SettledInv, TypeOK
<1>6. ASSUME NEW c \in Chunk, ChunkStep(c) PROVE FallbackInv' /\ SettledInv'
  <2>1. /\ \A d \in Chunk : (Idle(d)' <=> Idle(d)) /\ result'[d] = result[d]
        /\ at' = at /\ (stage' = stage \/ stage' = "done")
    BY <1>1, <1>6, StepInsideChunk DEF othersVars
  <2> HIDE DEF Idle
  <2> QED
    BY <1>1, <2>1 DEF FallbackInv, SettledInv
<1>7. CASE Decide \/ AppendChunk \/ AppendRefused \/ Destroy
  <2>1. /\ stage \in {"decide", "append", "destroy"} /\ stage' # "fallback"
        /\ UNCHANGED <<doing, result>>
    BY <1>7 DEF Decide, AppendChunk, AppendRefused, Destroy, chunkVars
  <2> QED
    BY <1>1, <2>1 DEF FallbackInv, SettledInv
<1>8. CASE Finished \/ UNCHANGED vars
  BY <1>1, <1>8 DEF Finished, vars, chunkVars, FallbackInv, SettledInv
<1> QED
  BY <1>2, <1>3, <1>4, <1>5, <1>6, <1>7, <1>8 DEF Next, Launcher

\* The sources of a chunk that passed are all counted and their errors listed.
LEMMA PassedChunk ==
  ASSUME IInv, stage = "append"
  PROVE  /\ Lists(found[at], Expected(Sources(at)))
         /\ skips[at] = Cardinality(Hits(Sources(at)))
<1>1. Progress(at) /\ RunState(at) /\ Idle(at) /\ result[at] = 0
  BY DEF IInv, TypeOK, ChunkInv, SettledInv, MergeInv, Passed
<1>2. Seen(at) = Sources(at) /\ Analysed(at) = Seen(at)
  BY <1>1 DEF RunState, Seen, Sources, Analysed, Idle
<1> QED
  BY <1>1, <1>2 DEF Progress

\* Appending one chunk extends the list and the count by that chunk.
LEMMA AppendExtends ==
  ASSUME IInv, stage = "append"
  PROVE  /\ Lists(merged \o found[at], Expected(0 .. End(at) - 1))
         /\ skipped + skips[at] = Cardinality(Hits(0 .. End(at) - 1))
<1> DEFINE S == 0 .. First(at) - 1
           T == Sources(at)
           U == 0 .. End(at) - 1
<1>1. /\ at \in Chunk /\ faulty \in [Source -> 0 .. MaxErrors]
      /\ Lists(merged, Expected(S)) /\ skipped = Cardinality(Hits(S))
  BY DEF IInv, TypeOK, MergeInv
<1>2. Lists(found[at], Expected(T)) /\ skips[at] = Cardinality(Hits(T))
  BY <1>1, PassedChunk
<1>3. /\ First(at) \in Nat /\ End(at) \in Nat /\ First(at) <= End(at)
      /\ End(at) <= NumSources
  BY <1>1, ChunkFacts
<1>4. /\ S \in SUBSET Source /\ T \in SUBSET Source /\ S \cup T = U
      /\ S \cap T = {} /\ \A s \in S, t \in T : s < t
  BY <1>3 DEF Sources
<1>5. IsFiniteSet(S) /\ IsFiniteSet(T)
  <2>1. 0 \in Int /\ First(at) - 1 \in Int /\ First(at) \in Int /\ End(at) - 1 \in Int
    BY <1>3
  <2> QED
    BY <2>1, FS_Interval DEF Sources
<1> HIDE DEF S, T, U
<1>6. /\ Expected(S) \in SUBSET Int
      /\ \A e \in Expected(S), f \in Expected(T) : e < f
  BY <1>1, <1>4, ExpectedAscends
<1>7. Expected(T) \in SUBSET Int
  <2>1. {} \in SUBSET Source /\ \A s \in {}, t \in T : s < t
    OBVIOUS
  <2>2. \A s \in T, t \in {} : s < t
    OBVIOUS
  <2> QED
    BY <1>1, <1>4, <2>1, <2>2, ExpectedAscends
<1>8. Lists(merged \o found[at], Expected(S) \cup Expected(T))
  BY <1>1, <1>2, <1>6, <1>7, ListsConcat
<1>9. Expected(U) = Expected(S) \cup Expected(T)
  BY <1>4, ExpectedOfMore
<1>10. Cardinality(Hits(U)) = Cardinality(Hits(S)) + Cardinality(Hits(T))
  BY <1>4, <1>5, HitsOfMore
<1>11. Lists(merged \o found[at], Expected(U)) /\ skipped + skips[at] = Cardinality(Hits(U))
  BY <1>1, <1>2, <1>8, <1>9, <1>10
<1> QED
  BY <1>11 DEF U

\* The merge at each stage stands on what the stage before it established.
LEMMA MergeInvNext ==
  ASSUME IInv, [Next]_vars
  PROVE  MergeInv'
<1>1. TypeOK /\ LaunchInv /\ MergeInv /\ saved' = saved /\ faulty' = faulty
  BY NextKeepsInput DEF IInv, inputVars
<1>2. /\ Expected(Source)' = Expected(Source)
      /\ Cardinality(Hits(Source))' = Cardinality(Hits(Source))
  <2>1. Hits(Source)' = Hits(Source)
    BY <1>1 DEF Hits, Hit
  <2> QED
    BY <1>1, <2>1 DEF Expected, ErrorsOf, Hit
<1>3. ASSUME NEW m \in Nat, First(at)' = m
      PROVE  /\ Expected(0 .. First(at) - 1)' = Expected(0 .. m - 1)
             /\ Cardinality(Hits(0 .. First(at) - 1))' = Cardinality(Hits(0 .. m - 1))
  <2>1. (0 .. First(at) - 1)' = 0 .. m - 1
    BY <1>3
  <2>2. Hits(0 .. First(at) - 1)' = Hits(0 .. m - 1)
    BY <1>1, <2>1 DEF Hits, Hit
  <2>3. Expected(0 .. First(at) - 1)' = Expected(0 .. m - 1)
    <3>1. {x \in 0 .. First(at) - 1 : ~Hit(x)}' = {x \in 0 .. m - 1 : ~Hit(x)}
      BY <1>1, <2>1 DEF Hit
    <3>2. \A s : ErrorsOf(s)' = ErrorsOf(s)
      BY <1>1 DEF ErrorsOf
    <3> QED
      BY <3>1, <3>2, Zenon DEF Expected
  <2> QED
    BY <2>2, <2>3
<1>4. ASSUME UNCHANGED <<stage, at, verdict, report, mergeVars, launch, result>>
      PROVE  MergeInv'
  <2>1. First(at)' = First(at)
    BY <1>4 DEF First
  <2>2. First(at) \in Nat
    BY <1>1, ChunkFacts DEF TypeOK
  <2>3. /\ Expected(0 .. First(at) - 1)' = Expected(0 .. First(at) - 1)
        /\ Cardinality(Hits(0 .. First(at) - 1))' = Cardinality(Hits(0 .. First(at) - 1))
    BY <1>3, <2>1, <2>2
  <2>4. Passed' <=> Passed
    BY <1>4 DEF Passed
  <2> QED
    BY <1>1, <1>2, <1>4, <2>3, <2>4 DEF MergeInv, mergeVars
<1>5. ASSUME UNCHANGED <<verdict, report, mergeVars>>,
             stage \notin {"append", "destroy", "done"},
             stage' \notin {"append", "destroy", "done"},
             stage' = "decide" => at' = 1
      PROVE  MergeInv'
  BY <1>1, <1>5 DEF MergeInv, mergeVars
<1>6. ASSUME verdict' = "aborted", stage' = "done" PROVE MergeInv'
  BY <1>6 DEF MergeInv
<1>7. CASE AllocateBuffer \/ LaunchReturns \/ FallbackSkip \/ FallbackEnd
  <2>1. /\ stage \notin {"append", "destroy", "done"}
        /\ stage' \notin {"append", "destroy", "done"}
        /\ stage' = "decide" => at' = 1
        /\ UNCHANGED <<verdict, report, mergeVars>>
    BY <1>7 DEF AllocateBuffer, LaunchReturns, FallbackSkip, FallbackEnd, NextChunk
  <2> QED
    BY <1>5, <2>1
<1>8. CASE \/ Launch \/ CallerBegins \/ CallerEnds \/ FallbackBegin
           \/ \E c \in Slot : PoolThread(c)
  <2>1. /\ UNCHANGED <<stage, at, verdict, report, mergeVars>>
        /\ stage \notin {"append", "destroy", "done"}
    <3>1. CASE Launch \/ FallbackBegin
      BY <3>1 DEF Launch, FallbackBegin, driverVars
    <3>2. CASE CallerBegins \/ CallerEnds
      <4>1. phase \in {"call", "caller"} /\ stage # "done" /\ UNCHANGED driverVars
        BY <3>2 DEF CallerBegins, CallerEnds, CallerStarts, CallerReturns, BeginChunk,
           EndChunk, Running
      <4>2. stage = "launch"
        BY <4>1, PoolAtLaunch
      <4> QED
        BY <4>1, <4>2 DEF driverVars
    <3>3. ASSUME NEW c \in Slot, PoolThread(c)
          PROVE  stage = "launch" /\ UNCHANGED driverVars
      <4>1. InFlight(c) /\ stage # "done" /\ UNCHANGED driverVars
        BY <3>3 DEF PoolThread, StartJob, FinishJob, StartCallback, FinishCallback,
           BeginChunk, EndChunk, Running, InFlight
      <4> QED
        BY <4>1, PoolAtLaunch
    <3> QED
      BY <1>8, <3>1, <3>2, <3>3 DEF driverVars
  <2> QED
    BY <1>1, <1>5, <2>1 DEF MergeInv
<1>9. CASE BufferExhausts
  BY <1>6, <1>9 DEF BufferExhausts, Exhausted
<1>10. ASSUME NEW c \in Chunk, ChunkStep(c) PROVE MergeInv'
  <2>1. UNCHANGED <<at, report, mergeVars, launch, result>>
    BY <1>1, <1>10, StepInsideChunk DEF othersVars, poolVars
  <2>2. \/ UNCHANGED <<stage, verdict>>
        \/ stage' = "done" /\ verdict' = "aborted"
    BY <1>1, <1>10, StepInsideChunk
  <2> QED
    BY <1>4, <1>6, <2>1, <2>2
<1>11. CASE Decide
  <2>1. /\ stage = "decide" /\ at' = at /\ at = 1
        /\ UNCHANGED <<verdict, report, merged, skipped, launch, result>>
        /\ merged = <<>> /\ skipped = 0 /\ report = <<>> /\ verdict = "pending"
    BY <1>1, <1>11 DEF Decide, MergeInv, poolVars, chunkVars
  <2>2. \/ stage' = "append" /\ Passed /\ passed'
        \/ stage' = "destroy" /\ ~passed'
    BY <1>11 DEF Decide
  <2>3. Passed' <=> Passed
    BY <2>1 DEF Passed
  <2>4. First(at)' = 0
    BY <2>1, ChunkFacts DEF First
  <2>5. 0 .. 0 - 1 = {} /\ Expected({}) = {} /\ Hits({}) = {}
    BY DEF Expected, Hits
  <2>6. /\ Lists(merged', Expected(0 .. First(at) - 1)')
        /\ skipped' = Cardinality(Hits(0 .. First(at) - 1))'
    <3>1. /\ Expected(0 .. First(at) - 1)' = {}
          /\ Cardinality(Hits(0 .. First(at) - 1))' = Cardinality({})
      <4>1. /\ Expected(0 .. First(at) - 1)' = Expected(0 .. 0 - 1)
            /\ Cardinality(Hits(0 .. First(at) - 1))' = Cardinality(Hits(0 .. 0 - 1))
        BY <1>3, <2>4
      <4> QED
        BY <2>5, <4>1, Zenon
    <3>2. Lists(merged', {}) /\ skipped' = Cardinality({})
      BY <2>1, ListsEmpty, FS_EmptySet
    <3> QED
      BY <3>1, <3>2, Zenon
  <2> QED
    BY <2>1, <2>2, <2>3, <2>6 DEF MergeInv
<1>12. CASE AppendChunk
  <2>1. /\ stage = "append" /\ at \in Chunk /\ Passed /\ passed
        /\ UNCHANGED <<verdict, report, passed, launch, result>>
        /\ report = <<>> /\ verdict = "pending"
    BY <1>1, <1>12 DEF AppendChunk, MergeInv, TypeOK, poolVars, chunkVars
  <2>2. /\ Lists(merged', Expected(0 .. End(at) - 1))
        /\ skipped' = Cardinality(Hits(0 .. End(at) - 1))
    <3>1. /\ stage = "append" /\ merged' = merged \o found[at]
          /\ skipped' = skipped + skips[at]
      BY <1>12 DEF AppendChunk
    <3> QED
      BY <3>1, AppendExtends
  <2>3. CASE at = Chunks
    <3>1. 0 .. End(at) - 1 = Source /\ stage' = "destroy"
      BY <1>12, <2>3, ChunkFacts DEF AppendChunk
    <3> QED
      BY <1>2, <2>1, <2>2, <3>1 DEF MergeInv
  <2>4. CASE at # Chunks
    <3>1. at' = at + 1 /\ stage' = "append"
      BY <1>12, <2>4 DEF AppendChunk
    <3>2. First(at)' = End(at) /\ End(at) \in Nat
      <4>1. First(at + 1) = End(at) /\ End(at) \in Nat
        BY <2>1, <2>4, ChunkFacts
      <4> QED
        BY <3>1, <4>1 DEF First
    <3>3. Passed' <=> Passed
      BY <2>1 DEF Passed
    <3> QED
      BY <1>3, <2>1, <2>2, <3>1, <3>2, <3>3 DEF MergeInv
  <2> QED
    BY <2>3, <2>4
<1>13. CASE AppendRefused
  BY <1>1, <1>13 DEF AppendRefused, MergeInv
<1>14. CASE Destroy
  <2>1. /\ stage = "destroy" /\ stage' = "done" /\ UNCHANGED <<skipped, passed>>
        /\ verdict' \in {"failed", "accepted", "rejected"}
        /\ verdict' # "failed" => passed
    BY <1>14 DEF Destroy, Report, mergeVars
  <2> QED
    BY <1>1, <1>2, <2>1 DEF MergeInv
<1>15. CASE Finished \/ UNCHANGED vars
  BY <1>4, <1>15 DEF Finished, vars, poolVars, chunkVars
<1> QED
  BY <1>7, <1>8, <1>9, <1>10, <1>11, <1>12, <1>13, <1>14, <1>15 DEF Next, Launcher

-------------------------------------------------------------------------------
(* The live bytes. *)

LEMMA HeldFacts ==
  ASSUME TypeOK, ChunkInv
  PROVE  /\ Held \in [Chunk -> Nat]
         /\ \A c \in Chunk : Held[c] = IF doing[c] = "analyse" THEN weight[cursor[c]] ELSE 0
<1>1. ASSUME NEW c \in Chunk, doing[c] = "analyse" PROVE weight[cursor[c]] \in Nat
  <2>1. Progress(c) /\ cursor[c] < End(c)
    BY <1>1 DEF ChunkInv, Progress
  <2>2. cursor[c] \in Source
    BY <2>1, ChunkPlace
  <2> QED
    BY <2>2 DEF TypeOK
<1> QED
  BY <1>1 DEF Held

\* The bytes held change only where an analysis begins or ends.
LEMMA HeldStays ==
  ASSUME TypeOK, weight' = weight, NEW c \in Chunk,
         BeginChunk(c) \/ SkipSource(c) \/ SampleLive(c) \/ EndChunk(c)
  PROVE  Held' = Held
<1>1. ASSUME NEW d \in Chunk
      PROVE  /\ doing'[d] = "analyse" <=> doing[d] = "analyse"
             /\ doing[d] = "analyse" => cursor'[d] = cursor[d]
  <2>1. CASE BeginChunk(c)
    BY <2>1 DEF BeginChunk, Running, TypeOK
  <2>2. CASE SkipSource(c)
    BY <2>2 DEF SkipSource, Scanning, Running, TypeOK
  <2>3. CASE SampleLive(c)
    <3>1. /\ doing[c] = "sample"
          /\ \E x \in {"over", "scan"} : doing' = [doing EXCEPT ![c] = x]
      BY <2>3 DEF SampleLive, Running
    <3>2. \E n : cursor' = [cursor EXCEPT ![c] = n]
      BY <2>3 DEF SampleLive
    <3> QED
      BY <3>1, <3>2 DEF TypeOK
  <2>4. CASE EndChunk(c)
    BY <2>4 DEF EndChunk, Running, TypeOK
  <2> QED
    BY <2>1, <2>2, <2>3, <2>4
<1> QED
  BY <1>1 DEF Held

\* An analysis that begins or ends changes what its chunk holds and no more.
LEMMA HeldMoves ==
  ASSUME TypeOK, weight' = weight, NEW c \in Chunk
  PROVE  /\ BeginSource(c) => Held' = [Held EXCEPT ![c] = weight[cursor[c]]]
         /\ EndSource(c) => Held' = [Held EXCEPT ![c] = 0]
<1>1. ASSUME BeginSource(c) PROVE Held' = [Held EXCEPT ![c] = weight[cursor[c]]]
  <2>1. doing' = [doing EXCEPT ![c] = "analyse"] /\ cursor' = cursor
    BY <1>1 DEF BeginSource
  <2> QED
    BY <2>1 DEF Held, TypeOK
<1>2. ASSUME EndSource(c) PROVE Held' = [Held EXCEPT ![c] = 0]
  <2>1. doing' = [doing EXCEPT ![c] = "sample"] /\ cursor' = cursor
    BY <1>2 DEF EndSource
  <2> QED
    BY <2>1 DEF Held, TypeOK
<1> QED
  BY <1>1, <1>2

LEMMA BufferFacts ==
  ASSUME TypeOK
  PROVE  /\ Buffers \in Nat /\ Chunks * Buffer \in Nat /\ base \in 0 .. HardLimit
         /\ stage # "buffers" => Buffers = Chunks * Buffer
<1>1. at - 1 \in Nat /\ Buffer \in Nat /\ Chunks \in Nat
  BY DEF TypeOK
<1>2. (at - 1) * Buffer \in Nat /\ Chunks * Buffer \in Nat
  BY <1>1
<1> QED
  BY <1>2 DEF Buffers, TypeOK

\* Every allocation is counted and every release gives back what was taken.
LEMMA LiveInvNext ==
  ASSUME IInv, [Next]_vars
  PROVE  LiveInv' /\ live' \in 0 .. HardLimit
<1>1. /\ TypeOK /\ ChunkInv /\ LiveInv /\ SettledInv
      /\ live \in 0 .. HardLimit /\ base' = base /\ weight' = weight
  BY NextKeepsInput DEF IInv, inputVars, TypeOK
<1>2. HardLimit \in Nat /\ Chunks \in Nat
  OBVIOUS
<1>3. /\ Held \in [Chunk -> Nat]
      /\ \A c \in Chunk : Held[c] = IF doing[c] = "analyse" THEN weight[cursor[c]] ELSE 0
  BY <1>1, HeldFacts
<1>4. /\ Buffers \in Nat /\ Chunks * Buffer \in Nat /\ base \in 0 .. HardLimit
      /\ stage # "buffers" => Buffers = Chunks * Buffer
  BY <1>1, BufferFacts
<1>5. ASSUME live' = live, Buffers' = Buffers, Held' = Held,
             stage # "done", stage' # "done"
      PROVE  LiveInv' /\ live' \in 0 .. HardLimit
  <2>1. PICK total \in [0 .. Chunks -> Nat] :
          IsTotal(total, Held) /\ live = base + Buffers + total[Chunks]
    BY <1>1, <1>5 DEF LiveInv
  <2>2. IsTotal(total, Held)'
    BY <1>5, <2>1 DEF IsTotal
  <2>3. (live = base + Buffers + total[Chunks])'
    BY <1>1, <1>5, <2>1
  <2> QED
    BY <1>1, <1>5, <2>2, <2>3 DEF LiveInv
<1>6. ASSUME live' = live, stage' = "done", verdict' = "aborted"
      PROVE  LiveInv' /\ live' \in 0 .. HardLimit
  BY <1>1, <1>6 DEF LiveInv
<1>7. CASE AllocateBuffer
  <2>1. stage = "buffers" /\ live' = live + Buffer /\ live + Buffer <= HardLimit
        /\ stage' # "done" /\ UNCHANGED chunkVars /\ at \in Chunk
    BY <1>1, <1>7 DEF AllocateBuffer, Reserve, TypeOK
  <2>2. Held' = Held
    BY <1>1, <2>1 DEF Held, chunkVars
  <2>3. Buffers' = Buffers + Buffer
    <3>1. Buffers = (at - 1) * Buffer /\ at - 1 \in Nat /\ Buffer \in Nat
      BY <2>1 DEF Buffers
    <3>2. at * Buffer = (at - 1) * Buffer + Buffer
      <4>1. \A k, b \in Nat : (k + 1) * b = k * b + b
        BY SMT
      <4>2. ((at - 1) + 1) * Buffer = (at - 1) * Buffer + Buffer
        BY <3>1, <4>1
      <4>3. (at - 1) + 1 = at
        BY <2>1
      <4> QED
        BY <4>2, <4>3
    <3>3. CASE at = Chunks
      <4>1. Buffers' = Chunks * Buffer
        BY <1>7, <3>3 DEF AllocateBuffer, Buffers
      <4> QED
        BY <3>1, <3>2, <3>3, <4>1
    <3>4. CASE at # Chunks
      <4>1. Buffers' = (at' - 1) * Buffer /\ at' - 1 = at
        BY <1>7, <2>1, <3>4 DEF AllocateBuffer, Buffers
      <4> QED
        BY <3>1, <3>2, <4>1
    <3> QED
      BY <3>3, <3>4
  <2>4. PICK total \in [0 .. Chunks -> Nat] :
          IsTotal(total, Held) /\ live = base + Buffers + total[Chunks]
    BY <1>1, <2>1 DEF LiveInv
  <2>5. IsTotal(total, Held)'
    BY <2>2, <2>4 DEF IsTotal
  <2>6. (live = base + Buffers + total[Chunks])'
    <3>1. total[Chunks] \in Nat /\ Buffer \in Nat
      BY <1>2
    <3> QED
      BY <1>1, <1>4, <2>1, <2>3, <2>4, <3>1
  <2>7. live' \in 0 .. HardLimit
    <3>1. Buffer \in Nat
      OBVIOUS
    <3> QED
      BY <1>1, <1>2, <2>1, <3>1
  <2> QED
    BY <2>1, <2>5, <2>6, <2>7 DEF LiveInv
<1>8. CASE BufferExhausts \/ \E c \in Chunk : SourceExhausts(c)
  BY <1>6, <1>8 DEF BufferExhausts, SourceExhausts, Exhausted
<1>9. CASE \/ Launch \/ LaunchReturns \/ FallbackSkip \/ Decide \/ AppendChunk
           \/ AppendRefused
  <2>1. /\ stage \notin {"buffers", "done"} /\ stage' \notin {"buffers", "done"}
        /\ UNCHANGED <<live, chunkVars>>
    BY <1>9 DEF Launch, LaunchReturns, FallbackSkip, NextChunk, Decide, AppendChunk,
       AppendRefused, driverVars
  <2>2. Buffers' = Buffers /\ Held' = Held
    BY <1>1, <2>1 DEF Buffers, Held, chunkVars
  <2> QED
    BY <1>5, <2>1, <2>2
<1>10. ASSUME NEW c \in Chunk, BeginChunk(c) \/ EndChunk(c),
              UNCHANGED driverVars \/ FallbackEnd
       PROVE  LiveInv' /\ live' \in 0 .. HardLimit
  <2>1. Held' = Held
    BY <1>1, <1>10, HeldStays
  <2>2. stage # "done" /\ stage' # "done" /\ live' = live /\ Buffers' = Buffers
    BY <1>10 DEF BeginChunk, EndChunk, Running, driverVars, FallbackEnd, NextChunk, Buffers
  <2> QED
    BY <1>5, <2>1, <2>2
<1>11. ASSUME NEW c \in Chunk, SkipSource(c) \/ SampleLive(c)
       PROVE  LiveInv' /\ live' \in 0 .. HardLimit
  <2>1. Held' = Held
    BY <1>1, <1>11, HeldStays
  <2>2. stage # "done" /\ stage' # "done" /\ live' = live /\ Buffers' = Buffers
    BY <1>11 DEF SkipSource, SampleLive, Scanning, Running, chunkStepVars, othersVars, Buffers
  <2> QED
    BY <1>5, <2>1, <2>2
<1>12. ASSUME NEW c \in Chunk, BeginSource(c) \/ EndSource(c)
       PROVE  LiveInv' /\ live' \in 0 .. HardLimit
  <2>1. /\ stage # "done" /\ stage' = stage /\ at' = at
    BY <1>12 DEF BeginSource, EndSource, Scanning, Running, chunkStepVars, othersVars
  <2>2. Buffers' = Buffers
    BY <2>1 DEF Buffers
  <2>3. PICK total \in [0 .. Chunks -> Nat] :
          IsTotal(total, Held) /\ live = base + Buffers + total[Chunks]
    BY <1>1, <2>1 DEF LiveInv
  <2>4. total[Chunks] \in Nat
    BY <1>2
  <2>7. base \in Nat /\ Buffers \in Nat
    BY <1>4
  <2>5. \E t \in [0 .. Chunks -> Nat] :
          IsTotal(t, Held') /\ live' = base + Buffers + t[Chunks]
    <3>1. CASE BeginSource(c)
      <4> DEFINE n == weight[cursor[c]]
      <4>1. Held' = [Held EXCEPT ![c] = n] /\ Held[c] = 0 /\ live' = live + n /\ n \in Nat
        <5>1. Progress(c) /\ cursor[c] < End(c)
          BY <1>1, <3>1 DEF BeginSource, Scanning, ChunkInv
        <5>2. cursor[c] \in Source
          BY <1>1, <5>1, ChunkPlace
        <5>3. n \in Nat
          BY <1>1, <5>2 DEF TypeOK
        <5>4. doing[c] # "analyse" /\ live' = live + n
          BY <3>1 DEF BeginSource, Scanning, Running, Reserve
        <5> QED
          BY <1>1, <1>3, <3>1, <5>3, <5>4, HeldMoves
      <4> HIDE DEF n
      <4>2. PICK t \in [0 .. Chunks -> Nat] :
              IsTotal(t, [Held EXCEPT ![c] = n]) /\ t[Chunks] = total[Chunks] + n
        <5>1. /\ Held \in [Chunk -> Nat] /\ IsTotal(total, Held) /\ Held[c] = 0
              /\ n \in Nat /\ Chunks \in Nat
          BY <1>2, <1>3, <2>3, <4>1
        <5> HIDE FlowAssumption
        <5> QED
          BY <5>1, TotalAdds
      <4>3. live' = base + Buffers + t[Chunks]
        <5>1. /\ live = base + Buffers + total[Chunks] /\ live' = live + n
              /\ t[Chunks] = total[Chunks] + n /\ n \in Nat
          BY <2>3, <4>1, <4>2
        <5> QED
          BY <2>4, <2>7, <5>1
      <4> QED
        BY <4>1, <4>2, <4>3
    <3>2. CASE EndSource(c)
      <4>1. Held' = [Held EXCEPT ![c] = 0] /\ live' = live - Held[c]
        <5>1. doing[c] = "analyse" /\ live' = live - weight[cursor[c]]
          BY <3>2 DEF EndSource, Running, Release
        <5> QED
          BY <1>1, <1>3, <3>2, <5>1, HeldMoves
      <4>2. PICK t \in [0 .. Chunks -> Nat] :
              IsTotal(t, [Held EXCEPT ![c] = 0]) /\ t[Chunks] = total[Chunks] - Held[c]
        BY <1>2, <1>3, <2>3, TotalReleases
      <4>3. live' = base + Buffers + t[Chunks]
        <5>1. /\ live = base + Buffers + total[Chunks] /\ live' = live - Held[c]
              /\ t[Chunks] = total[Chunks] - Held[c]
          BY <2>3, <4>1, <4>2
        <5>2. Held[c] \in Nat
          BY <1>3
        <5> QED
          BY SMTT(30), <2>4, <2>7, <5>1, <5>2
      <4> QED
        BY <4>1, <4>2, <4>3
    <3> QED
      BY <1>12, <3>1, <3>2
  <2>6. live' \in 0 .. HardLimit
    <3>1. CASE BeginSource(c)
      <4>1. live' <= HardLimit
        BY <3>1 DEF BeginSource, Reserve
      <4> QED
        BY <1>2, <1>4, <2>5, <4>1
    <3>2. CASE EndSource(c)
      <4>1. live' = live - Held[c] /\ Held[c] \in Nat
        <5>1. doing[c] = "analyse" /\ live' = live - weight[cursor[c]]
          BY <3>2 DEF EndSource, Running, Release
        <5> QED
          BY <1>3, <5>1
      <4> QED
        BY SMTT(30), <1>1, <1>2, <1>4, <2>5, <4>1
    <3> QED
      BY <1>12, <3>1, <3>2
  <2> QED
    BY <1>1, <2>1, <2>2, <2>5, <2>6 DEF LiveInv, IsTotal
<1>13. CASE Destroy
  <2>1. stage = "destroy" /\ live' = live - Chunks * Buffer /\ stage' = "done"
    BY <1>13 DEF Destroy, Release
  <2>2. PICK total \in [0 .. Chunks -> Nat] :
          IsTotal(total, Held) /\ live = base + Buffers + total[Chunks]
    BY <1>1, <2>1 DEF LiveInv
  <2>3. \A c \in Chunk : Held[c] = 0
    BY <1>1, <1>3, <2>1 DEF SettledInv, Idle
  <2>4. total[Chunks] = 0
    BY <1>2, <2>2, <2>3, TotalOfNothing
  <2>5. live' = base
    BY <1>4, <2>1, <2>2, <2>4
  <2> QED
    BY <1>1, <1>4, <2>1, <2>5 DEF LiveInv
<1>14. CASE Finished \/ UNCHANGED vars
  <2>1. UNCHANGED <<live, stage, verdict, at, chunkVars>>
    BY <1>14 DEF Finished, vars
  <2>2. Buffers' = Buffers /\ Held' = Held
    BY <1>1, <2>1 DEF Buffers, Held, chunkVars
  <2>3. CASE stage = "done"
    BY <1>1, <2>1, <2>3 DEF LiveInv
  <2>4. CASE stage # "done"
    BY <1>5, <2>1, <2>2, <2>4
  <2> QED
    BY <2>3, <2>4
<1>15. CASE CallerBegins \/ CallerEnds
  BY <1>10, <1>15, SlotFacts DEF CallerBegins, CallerEnds
<1>16. CASE FallbackBegin \/ FallbackEnd
  <2>1. at \in Chunk
    BY <1>1 DEF TypeOK
  <2> QED
    BY <1>10, <1>16, <2>1 DEF FallbackBegin, FallbackEnd
<1>17. ASSUME NEW c \in Slot, PoolThread(c) PROVE LiveInv' /\ live' \in 0 .. HardLimit
  BY <1>10, <1>17, SlotFacts DEF PoolThread, StartJob, FinishJob
<1> QED
  BY <1>7, <1>8, <1>9, <1>11, <1>12, <1>13, <1>14, <1>15, <1>16, <1>17
  DEF Next, Launcher, ChunkStep

-------------------------------------------------------------------------------
(* The types. *)

DriverTypes ==
  /\ verdict \in {"pending", "accepted", "rejected", "failed", "aborted"}
  /\ report \in Seq(Int) /\ merged \in Seq(Int) /\ skipped \in Nat
  /\ stage \in {"buffers", "launch", "fallback", "decide", "append",
                "destroy", "done"}
  /\ at \in Chunk

\* A step keeps the types of the driver's variables.
LEMMA DriverTypesNext ==
  ASSUME TypeOK, [Next]_vars
  PROVE  DriverTypes'
<1>1. DriverTypes /\ at \in Chunk /\ 1 \in Chunk
  BY SlotFacts DEF TypeOK, DriverTypes
<1>2. at # Chunks => at + 1 \in Chunk
  BY <1>1, ChunkFacts
<1>3. CASE UNCHANGED <<verdict, report, merged, skipped, stage, at>>
  BY <1>1, <1>3 DEF DriverTypes
<1>4. CASE AllocateBuffer \/ LaunchReturns \/ FallbackSkip \/ FallbackEnd
  <2>1. UNCHANGED <<verdict, report, merged, skipped>>
    BY <1>4 DEF AllocateBuffer, LaunchReturns, FallbackSkip, FallbackEnd, mergeVars
  <2>2. /\ stage' \in {stage, "launch", "fallback", "decide"}
        /\ at' \in {at, 1} \/ (at # Chunks /\ at' = at + 1)
    <3>1. CASE LaunchReturns
      BY <3>1 DEF LaunchReturns
    <3>2. CASE at = Chunks
      BY <1>4, <3>1, <3>2 DEF AllocateBuffer, FallbackSkip, FallbackEnd, NextChunk
    <3>3. CASE at # Chunks
      BY <1>4, <3>1, <3>3 DEF AllocateBuffer, FallbackSkip, FallbackEnd, NextChunk
    <3> QED
      BY <3>2, <3>3
  <2> QED
    BY <1>1, <1>2, <2>1, <2>2 DEF DriverTypes
<1>5. CASE BufferExhausts \/ \E c \in Chunk : SourceExhausts(c)
  <2>1. /\ UNCHANGED <<report, merged, skipped, at>>
        /\ verdict' = "aborted" /\ stage' = "done"
    BY <1>5 DEF BufferExhausts, SourceExhausts, Exhausted, othersVars, mergeVars
  <2> QED
    BY <1>1, <2>1 DEF DriverTypes
<1>6. CASE Decide \/ AppendRefused
  <2>1. /\ UNCHANGED <<verdict, report, merged, skipped, at>>
        /\ stage' \in {"append", "destroy"}
    BY <1>6 DEF Decide, AppendRefused
  <2> QED
    BY <1>1, <2>1 DEF DriverTypes
<1>7. CASE AppendChunk
  <2>1. /\ UNCHANGED <<verdict, report>> /\ stage' \in {stage, "destroy"}
        /\ at' = at \/ (at # Chunks /\ at' = at + 1)
    <3>1. CASE at = Chunks
      BY <1>7, <3>1 DEF AppendChunk
    <3>2. CASE at # Chunks
      BY <1>7, <3>2 DEF AppendChunk
    <3> QED
      BY <3>1, <3>2
  <2>2. merged' \in Seq(Int)
    <3>1. merged' = merged \o found[at] /\ merged \in Seq(Int) /\ found[at] \in Seq(Int)
      BY <1>1, <1>7 DEF AppendChunk, TypeOK
    <3> QED
      BY <3>1, ConcatProperties
  <2>3. skipped' \in Nat
    <3>1. skipped' = skipped + skips[at] /\ skipped \in Nat /\ skips[at] \in Nat
      BY <1>1, <1>7 DEF AppendChunk, TypeOK
    <3> QED
      BY <3>1
  <2> QED
    BY <1>1, <1>2, <2>1, <2>2, <2>3 DEF DriverTypes
<1>8. CASE Destroy
  <2>1. /\ UNCHANGED <<merged, skipped, at>> /\ stage' = "done"
        /\ verdict' \in {"failed", "accepted", "rejected"}
        /\ report' \in {merged, report}
    BY <1>8 DEF Destroy, Report, mergeVars
  <2> QED
    BY <1>1, <2>1 DEF DriverTypes
<1>9. CASE \/ Launch \/ CallerBegins \/ CallerEnds \/ FallbackBegin
           \/ Finished \/ UNCHANGED vars
  BY <1>3, <1>9 DEF Launch, CallerBegins, CallerEnds, FallbackBegin, driverVars, Finished,
     vars, mergeVars
<1>10. ASSUME NEW c \in Slot, PoolThread(c) PROVE DriverTypes'
  BY <1>3, <1>10 DEF PoolThread, StartJob, FinishJob, driverVars, mergeVars
<1>11. ASSUME NEW c \in Chunk, SkipSource(c) \/ BeginSource(c) \/ EndSource(c) \/ SampleLive(c)
       PROVE  DriverTypes'
  BY <1>3, <1>11 DEF SkipSource, BeginSource, EndSource, SampleLive, chunkStepVars,
     othersVars, mergeVars
<1> QED
  BY <1>4, <1>5, <1>6, <1>7, <1>8, <1>9, <1>10, <1>11 DEF Next, Launcher, ChunkStep

LEMMA PassedNext ==
  ASSUME TypeOK, [Next]_vars
  PROVE  passed' \in BOOLEAN
<1>1. passed \in BOOLEAN
  BY DEF TypeOK
<1>2. CASE Decide
  <2>1. passed' = Passed
    BY <1>2 DEF Decide
  <2>2. Passed \in BOOLEAN
    BY Zenon DEF Passed
  <2> QED
    BY <2>1, <2>2, Zenon
<1>3. CASE AppendRefused
  BY <1>3 DEF AppendRefused
<1>4. CASE UNCHANGED passed
  BY <1>1, <1>4
<1>5. CASE \/ AllocateBuffer \/ BufferExhausts \/ Launch \/ CallerBegins \/ CallerEnds
           \/ LaunchReturns \/ FallbackSkip \/ FallbackBegin \/ FallbackEnd
           \/ AppendChunk \/ Destroy \/ Finished \/ UNCHANGED vars
  <2>1. UNCHANGED passed
    BY <1>5 DEF AllocateBuffer, BufferExhausts, Launch, CallerBegins, CallerEnds,
       LaunchReturns, FallbackSkip, FallbackBegin, FallbackEnd, AppendChunk, Destroy,
       Finished, vars, driverVars, othersVars, mergeVars
  <2> QED
    BY <1>1, <2>1
<1>6. ASSUME NEW c \in Slot, PoolThread(c) PROVE UNCHANGED passed
  BY <1>6 DEF PoolThread, StartJob, FinishJob, driverVars, mergeVars
<1>7. ASSUME NEW c \in Chunk, ChunkStep(c) PROVE UNCHANGED passed
  BY <1>7 DEF ChunkStep, SkipSource, BeginSource, SourceExhausts, EndSource, SampleLive,
     chunkStepVars, othersVars, mergeVars
<1> QED
  BY <1>2, <1>3, <1>4, <1>5, <1>6, <1>7 DEF Next, Launcher

\* A step keeps every type.
LEMMA TypeNext ==
  ASSUME IInv, [Next]_vars
  PROVE  TypeOK'
<1>1. TypeOK
  BY DEF IInv
<1>2. PoolTypeOK'
  BY NextIsPool, PoolNextInv DEF IInv, PoolInv
<1>3. /\ saved' \in SUBSET (0 .. Partitions - 1)
      /\ faulty' \in [Source -> 0 .. MaxErrors]
      /\ weight' \in [Source -> Weights]
      /\ base' \in Bases
  BY <1>1, NextKeepsInput DEF inputVars, TypeOK
<1>4. live' \in 0 .. HardLimit
  BY LiveInvNext
<1>5. DriverTypes'
  BY <1>1, DriverTypesNext
<1>6. passed' \in BOOLEAN
  BY <1>1, PassedNext
<1> QED
  BY <1>2, <1>3, <1>4, <1>5, <1>6, ChunkTypes DEF TypeOK, DriverTypes

(* The call begins in the invariant. *)
LEMMA InitIInv == Init => IInv
<1> SUFFICES ASSUME Init PROVE IInv
  OBVIOUS
<1>1. PoolInv
  BY PoolInitInv DEF Init
<1>2. \A c \in Chunk : First(c) \in 0 .. NumSources /\ First(c) <= End(c) /\ End(c) \in Nat
  BY ChunkFacts
<1>3. live = base /\ base \in 0 .. HardLimit /\ 1 \in Chunk
  BY SlotFacts DEF Init
<1>4. TypeOK
  <2>1. /\ passed \in BOOLEAN /\ merged \in Seq(Int) /\ report \in Seq(Int)
        /\ verdict = "pending" /\ stage = "buffers"
    BY EmptySeq DEF Init, FlowInit
  <2>2. /\ doing \in [Chunk -> {"idle", "scan", "analyse", "sample", "over"}]
        /\ cursor \in [Chunk -> 0 .. NumSources]
        /\ found \in [Chunk -> Seq(Int)]
        /\ skips \in [Chunk -> Nat]
        /\ result \in [Chunk -> {-1, 0, 2}]
    BY <1>2, EmptySeq DEF Init
  <2> QED
    BY <1>1, <1>3, <2>1, <2>2 DEF Init, FlowInit, TypeOK, PoolInv
<1>5. ChunkInv
  <2> SUFFICES ASSUME NEW c \in Chunk PROVE Progress(c) /\ RunState(c)
    BY DEF ChunkInv
  <2>1. /\ doing[c] = "idle" /\ cursor[c] = First(c) /\ found[c] = <<>>
        /\ skips[c] = 0 /\ result[c] = -1
    BY DEF Init
  <2>2. Seen(c) = {} /\ Analysed(c) = {}
    BY <1>2, <2>1 DEF Seen, Analysed
  <2>3. Hits({}) = {} /\ Expected({}) = {}
    BY DEF Hits, Expected
  <2>4. skips[c] = Cardinality(Hits(Seen(c))) /\ Lists(found[c], Expected(Analysed(c)))
    BY <2>1, <2>2, <2>3, ListsEmpty, FS_EmptySet
  <2>5. Progress(c)
    BY <1>2, <2>1, <2>4 DEF Progress
  <2>6. RunState(c)
    BY <2>1 DEF RunState, Unrun, Idle
  <2> QED
    BY <2>5, <2>6
<1>6. LaunchInv
  <2>1. /\ phase = "resolve" /\ stage = "buffers"
        /\ \A c \in Chunk : Idle(c) /\ Unrun(c)
    BY DEF Init, PoolInit, Unrun, Idle
  <2> QED
    BY <2>1 DEF LaunchInv
<1>7. FallbackInv /\ SettledInv /\ MergeInv
  BY DEF Init, FlowInit, FallbackInv, SettledInv, MergeInv
<1>8. LiveInv
  <2> DEFINE none == [i \in 0 .. Chunks |-> 0]
  <2>1. none \in [0 .. Chunks -> Nat] /\ none[Chunks] = 0
    BY SMT
  <2>2. Held = [c \in Chunk |-> 0]
    BY DEF Held, Init
  <2>3. IsTotal(none, Held)
    BY <2>1, <2>2 DEF IsTotal
  <2>4. Buffers = 0
    <3>1. (1 - 1) * Buffer = 0
      BY SMT
    <3> QED
      BY <3>1 DEF Buffers, Init
  <2>5. live = base + Buffers + none[Chunks] /\ stage # "done"
    BY <1>3, <2>1, <2>4 DEF Init
  <2> QED
    BY <2>1, <2>3, <2>5 DEF LiveInv
<1> QED
  BY <1>1, <1>4, <1>5, <1>6, <1>7, <1>8 DEF IInv

(***************************************************************************)
(* IInv is an invariant: of the pool, of every chunk, of the memory and of *)
(* the merge.                                                              *)
(***************************************************************************)
THEOREM Invariant == Spec => []IInv
<1>1. IInv /\ [Next]_vars => IInv'
  <2> SUFFICES ASSUME IInv, [Next]_vars PROVE IInv'
    OBVIOUS
  <2>1. PoolInv'
    BY NextIsPool, PoolNextInv DEF IInv
  <2> QED
    BY <2>1, TypeNext, ChunkInvNext, LaunchInvNext, FallbackInvNext, MergeInvNext,
       LiveInvNext DEF IInv
<1> QED
  BY <1>1, InitIInv, PTL DEF Spec

(***************************************************************************)
(* Every variable keeps its type.                                          *)
(***************************************************************************)
THEOREM TypeCorrect == Spec => []TypeOK
<1>1. IInv => TypeOK
  BY DEF IInv
<1> QED
  BY <1>1, Invariant, PTL

(***************************************************************************)
(* However the validation ends, it gives back every byte it took, unless   *)
(* the process has ended: flow_parallel_destroy and flow_validate_source   *)
(* release what was reserved, on every path and whichever thread ran it.   *)
(***************************************************************************)
THEOREM GivesBack == Spec => []NothingLeaks
<1>1. IInv => NothingLeaks
  BY DEF IInv, LiveInv, NothingLeaks
<1> QED
  BY <1>1, Invariant, PTL

(***************************************************************************)
(* Each source the cache covers is counted once in the skipped sources,    *)
(* whichever chunk and thread met it.                                      *)
(***************************************************************************)
THEOREM CountsHits == Spec => []SkipsAreHits
<1>1. IInv => SkipsAreHits
  BY DEF IInv, MergeInv, SkipsAreHits, Hits
<1> QED
  BY <1>1, Invariant, PTL

\* A list is empty just when the set it lists is.
LEMMA ListsNothing ==
  ASSUME NEW q, NEW S, Lists(q, S)
  PROVE  q = <<>> <=> S = {}
<1>1. q \in Seq(Int) /\ Len(q) \in Nat
  BY LenProperties DEF Lists
<1>2. q = <<>> <=> Len(q) = 0
  BY <1>1, EmptySeq
<1>3. ASSUME Len(q) = 0 PROVE S = {}
  <2>1. 1 .. Len(q) = {}
    BY <1>3
  <2> QED
    BY <2>1 DEF Lists
<1>4. ASSUME Len(q) # 0 PROVE S # {}
  <2>1. 1 \in 1 .. Len(q)
    BY <1>1, <1>4
  <2> QED
    BY <2>1 DEF Lists
<1> QED
  BY <1>2, <1>3, <1>4

(***************************************************************************)
(* Parallel validation implements serial validation, for every number of   *)
(* chunks and every interleaving: the end of the process and the release   *)
(* of the buffers are its only visible steps.                              *)
(***************************************************************************)
THEOREM Refines == Spec => ImplementsSerialFlow
<1>1. Init => FlowInit
  BY DEF Init
<1>2. IInv /\ [Next]_vars => [FlowNext]_flowVars
  <2> SUFFICES ASSUME IInv, [Next]_vars PROVE [FlowNext]_flowVars
    OBVIOUS
  <2>0. saved' = saved /\ faulty' = faulty /\ MergeInv /\ TypeOK
    BY NextKeepsInput DEF IInv, inputVars
  <2>1. ASSUME UNCHANGED <<verdict, report>> PROVE UNCHANGED flowVars
    BY <2>0, <2>1 DEF flowVars
  <2>2. ASSUME stage # "done", verdict' = "aborted", report' = report PROVE FlowFails
    BY <2>0, <2>2 DEF FlowFails, MergeInv
  <2>3. CASE \/ AllocateBuffer \/ Launch \/ CallerBegins \/ CallerEnds
             \/ LaunchReturns \/ FallbackSkip \/ FallbackBegin \/ FallbackEnd
             \/ Decide \/ AppendChunk \/ AppendRefused \/ Finished \/ UNCHANGED vars
    <3>1. UNCHANGED <<verdict, report>>
      BY <2>3 DEF AllocateBuffer, Launch, CallerBegins, CallerEnds, LaunchReturns,
         FallbackSkip, FallbackBegin, FallbackEnd, Decide, AppendChunk, AppendRefused,
         Finished, vars, driverVars
    <3> QED
      BY <2>1, <3>1
  <2>4. ASSUME NEW c \in Slot, PoolThread(c) PROVE UNCHANGED flowVars
    BY <2>1, <2>4 DEF PoolThread, StartJob, FinishJob, driverVars
  <2>5. CASE BufferExhausts
    BY <2>2, <2>5 DEF BufferExhausts, Exhausted, othersVars, FlowNext
  <2>6. ASSUME NEW c \in Chunk, ChunkStep(c) PROVE [FlowNext]_flowVars
    <3>1. CASE SourceExhausts(c)
      BY <2>2, <3>1 DEF SourceExhausts, Scanning, Running, Exhausted, othersVars, FlowNext
    <3>2. CASE SkipSource(c) \/ BeginSource(c) \/ EndSource(c) \/ SampleLive(c)
      <4>1. UNCHANGED <<verdict, report>>
        BY <3>2 DEF SkipSource, BeginSource, EndSource, SampleLive, chunkStepVars,
           othersVars
      <4> QED
        BY <2>1, <4>1
    <3> QED
      BY <2>6, <3>1, <3>2 DEF ChunkStep
  <2>7. CASE Destroy
    <3>1. /\ stage = "destroy" /\ verdict = "pending" /\ report = <<>>
          /\ passed => Lists(merged, Expected(Source))
      BY <2>0, <2>7 DEF Destroy, MergeInv
    <3>2. CASE ~passed
      BY <2>0, <2>7, <3>1, <3>2 DEF Destroy, Report, FlowNext, FlowFails
    <3>3. CASE passed /\ merged = <<>>
      <4>1. Expected(Source) = {}
        BY <3>1, <3>3, ListsNothing
      <4> QED
        BY <2>0, <2>7, <3>1, <3>3, <4>1 DEF Destroy, Report, FlowNext, FlowAccepts
    <3>4. CASE passed /\ merged # <<>>
      <4>1. Expected(Source) # {}
        BY <3>1, <3>4, ListsNothing
      <4>2. verdict' = "rejected" /\ report' = merged
        BY <2>7, <3>4 DEF Destroy, Report
      <4>3. Lists(report', Expected(Source))
        BY <3>1, <3>4, <4>2
      <4> QED
        BY <2>0, <3>1, <4>1, <4>2, <4>3 DEF FlowNext, FlowRejects
    <3> QED
      BY <3>2, <3>3, <3>4
  <2> QED
    BY <2>3, <2>4, <2>5, <2>6, <2>7 DEF Next, Launcher
<1> QED
  BY <1>1, <1>2, Invariant, PTL DEF Spec, ImplementsSerialFlow, FlowSpec

-------------------------------------------------------------------------------
(* Why a validation fails. *)

\* The other chunks can hold so much beside chunk c that the budget is passed.
Tight(c, alone) ==
  \E n \in 0 .. HardLimit :
    HeldBeside(c, n) /\ (alone => n = 0) /\ Setup + n > Budget

Alone == stage # "launch" /\ launch = 3

Caused ==
  \/ Cardinality(Expected(Source)) > Capacity
  \/ \E c \in Chunk : Tight(c, launch = 3)

\* Whoever gave up had a reason, and so has who refuses.
CauseInv ==
  /\ verdict # "aborted" =>
       \A c \in Chunk : doing[c] = "over" \/ result[c] = 2 => Tight(c, Alone)
  /\ stage = "destroy" /\ ~passed => Caused
  /\ FailureHasCause

\* A list that fits into a finite set is no longer than the set.
LEMMA ListsFit ==
  ASSUME NEW S, IsFiniteSet(S), NEW T \in SUBSET S, NEW q, Lists(q, T)
  PROVE  Len(q) <= Cardinality(S)
<1>1. /\ q \in Seq(Int) /\ Len(q) \in Nat /\ DOMAIN q = 1 .. Len(q)
      /\ \A i \in 1 .. Len(q) : q[i] \in S
      /\ \A i, j \in 1 .. Len(q) : i < j => q[i] < q[j]
  BY DEF Lists
<1>2. \A i \in 1 .. Len(q) : q[i] \in Int
  BY <1>1
<1> DEFINE f == [i \in 1 .. Len(q) |-> q[i]]
<1>3. f \in [1 .. Len(q) -> S] /\ \A i \in 1 .. Len(q) : f[i] = q[i]
  BY <1>1
<1> HIDE DEF f
<1>4. ASSUME NEW i \in 1 .. Len(q), NEW j \in 1 .. Len(q), f[i] = f[j] PROVE i = j
  <2>1. ~(i < j) /\ ~(j < i)
    BY <1>1, <1>2, <1>3, <1>4
  <2> QED
    BY <1>1, <2>1
<1>5. f \in Injection(1 .. Len(q), S)
  BY <1>3, <1>4 DEF Injection, IsInjective
<1>6. Cardinality(1 .. Len(q)) <= Cardinality(S)
  BY <1>5, FS_Injection
<1>7. Cardinality(1 .. Len(q)) = Len(q)
  <2>1. 1 \in Int /\ Len(q) \in Int
    BY <1>1
  <2>2. Cardinality(1 .. Len(q)) = IF 1 > Len(q) THEN 0 ELSE Len(q) - 1 + 1
    BY <2>1, FS_Interval
  <2> QED
    BY <1>1, <2>2
<1> QED
  BY <1>6, <1>7

LEMMA ExpectedIsFinite ==
  ASSUME faulty \in [Source -> 0 .. MaxErrors]
  PROVE  IsFiniteSet(Expected(Source))
<1> DEFINE bound == ErrorOf(NumSources, 0)
<1>1. bound \in Int
  <2>1. NumSources * MaxErrors \in Nat
    BY SMT
  <2> QED
    BY <2>1 DEF ErrorOf
<1>2. ASSUME NEW e \in Expected(Source) PROVE e \in 0 .. bound
  <2>1. PICK s \in Source : e \in ErrorsOf(s)
    BY DEF Expected
  <2>2. PICK k \in 0 .. MaxErrors - 1 : e = ErrorOf(s, k)
    BY <2>1, ErrorsAreNumbers
  <2>3. s \in Nat /\ NumSources \in Nat /\ s < NumSources /\ k \in Nat /\ 0 \in Nat
    OBVIOUS
  <2>4. e < bound /\ e \in Int
    BY <2>2, <2>3, ErrorsAscend
  <2>5. s * MaxErrors \in Nat
    BY <2>3, SMT
  <2>6. e >= 0
    BY <2>2, <2>5 DEF ErrorOf
  <2> HIDE DEF bound
  <2> QED
    BY <1>1, <2>4, <2>6
<1> HIDE DEF bound
<1>3. IsFiniteSet(0 .. bound)
  <2>1. 0 \in Int
    OBVIOUS
  <2> QED
    BY <1>1, <2>1, FS_Interval
<1> QED
  BY <1>2, <1>3, FS_Subset

\* Nothing that a reason speaks of changes, but for the outcome of the launch.
LEMMA ReasonsStay ==
  ASSUME UNCHANGED inputVars
  PROVE  /\ \A c, n : HeldBeside(c, n)' <=> HeldBeside(c, n)
         /\ \A c : Loads(c)' = Loads(c)
         /\ Setup' = Setup /\ Expected(Source)' = Expected(Source)
         /\ Cardinality(Expected(Source))' = Cardinality(Expected(Source))
<1>1. saved' = saved /\ faulty' = faulty /\ weight' = weight /\ base' = base
  BY DEF inputVars
<1>2. \A c : Loads(c)' = Loads(c)
  BY <1>1 DEF Loads, Hit, Sources, First, End
<1>3. \A c, n : HeldBeside(c, n)' <=> HeldBeside(c, n)
  BY <1>2 DEF HeldBeside
<1>4. Expected(Source)' = Expected(Source)
  BY <1>1 DEF Expected, ErrorsOf, Hit
<1>5. Cardinality(Expected(Source))' = Cardinality(Expected(Source))
  BY <1>4
<1> QED
  BY <1>1, <1>2, <1>3, <1>4, <1>5 DEF Setup

\* What is live beside the base and the buffers is held by analyses that may be.
LEMMA HeldIsPossible ==
  ASSUME IInv, stage # "done", NEW c \in Chunk, doing[c] # "analyse"
  PROVE  \E n \in 0 .. HardLimit :
           /\ HeldBeside(c, n) /\ live = base + Buffers + n
           /\ (\A d \in Chunk : doing[d] # "analyse") => n = 0
<1>1. /\ TypeOK /\ ChunkInv /\ live \in 0 .. HardLimit /\ HardLimit \in Nat /\ Chunks \in Nat
      /\ weight \in [Source -> Weights]
  BY DEF IInv, TypeOK
<1>2. PICK total \in [0 .. Chunks -> Nat] :
        IsTotal(total, Held) /\ live = base + Buffers + total[Chunks]
  BY DEF IInv, LiveInv
<1>3. /\ Held \in [Chunk -> Nat]
      /\ \A d \in Chunk : Held[d] = IF doing[d] = "analyse" THEN weight[cursor[d]] ELSE 0
  BY <1>1, HeldFacts
<1>4. Buffers \in Nat /\ base \in Nat
  BY <1>1, BufferFacts
<1>5. 0 \in 0 .. Chunks /\ Chunks \in 0 .. Chunks
  BY <1>1
<1>6. \A i \in 0 .. Chunks : total[i] \in 0 .. HardLimit
  <2>1. total[Chunks] <= live
    BY <1>1, <1>2, <1>4, <1>5
  <2>2. ASSUME NEW i \in 0 .. Chunks PROVE total[i] \in Nat /\ total[i] <= total[Chunks]
    BY <1>1, <1>2, <1>5 DEF IsTotal
  <2> QED
    BY <1>1, <1>5, <2>1, <2>2
<1>7. ASSUME NEW d \in Chunk
      PROVE  total[d] - total[d - 1] \in IF d = c THEN {0} ELSE Loads(d)
  <2>1. /\ total[d] = total[d - 1] + Held[d] /\ total[d - 1] \in Nat /\ total[d] \in Nat
        /\ Held[d] \in Nat
    <3>1. d - 1 \in 0 .. Chunks /\ d \in 0 .. Chunks
      BY <1>1
    <3> QED
      BY <1>2, <1>3, <3>1 DEF IsTotal
  <2>2. total[d] - total[d - 1] = Held[d]
    BY <2>1
  <2>3. CASE doing[d] = "analyse"
    <3>1. d # c /\ Progress(d) /\ cursor[d] < End(d) /\ ~Hit(cursor[d])
      BY <1>1, <2>3 DEF ChunkInv, Progress
    <3>2. cursor[d] \in Sources(d)
      BY <1>1, <3>1, ChunkPlace DEF Sources
    <3>3. weight[cursor[d]] \in Loads(d)
      BY <3>1, <3>2 DEF Loads
    <3> QED
      BY <1>3, <2>2, <2>3, <3>1, <3>3
  <2>4. CASE doing[d] # "analyse"
    <3>1. Held[d] = 0
      BY <1>3, <2>4
    <3>2. 0 \in Loads(d)
      BY DEF Loads
    <3> QED
      BY <2>2, <3>1, <3>2
  <2> QED
    BY <2>3, <2>4
<1>8. HeldBeside(c, total[Chunks])
  <2>1. total \in [0 .. Chunks -> 0 .. HardLimit]
    BY <1>6
  <2>2. total[0] = 0
    BY <1>2 DEF IsTotal
  <2> QED
    BY <1>7, <2>1, <2>2 DEF HeldBeside
<1>9. (\A d \in Chunk : doing[d] # "analyse") => total[Chunks] = 0
  BY <1>1, <1>2, <1>3, TotalOfNothing
<1> QED
  BY <1>2, <1>5, <1>6, <1>8, <1>9

\* A chunk that finds the budget passed has a reason.
LEMMA SampleHasReason ==
  ASSUME IInv, NEW c \in Chunk, SampleLive(c), OverBudget(c)
  PROVE  Tight(c, Alone)
<1>1. stage # "done" /\ doing[c] = "sample" /\ live > Budget
  BY DEF SampleLive, Running, OverBudget
<1>2. PICK n \in 0 .. HardLimit :
        /\ HeldBeside(c, n) /\ live = base + Buffers + n
        /\ (\A d \in Chunk : doing[d] # "analyse") => n = 0
  BY <1>1, HeldIsPossible
<1>3. stage \in {"launch", "fallback"}
  BY <1>1 DEF IInv, TypeOK, LaunchInv, SettledInv, Idle
<1>4. Setup = base + Buffers
  BY <1>3, BufferFacts DEF Setup, IInv
<1>5. Alone => n = 0
  <2>1. stage = "fallback" => \A d \in Chunk : doing[d] # "analyse"
    BY <1>1 DEF IInv, FallbackInv, Idle
  <2> QED
    BY <1>2, <1>3, <2>1 DEF Alone
<1>6. Setup + n > Budget
  BY <1>1, <1>2, <1>4
<1> QED
  BY <1>2, <1>5, <1>6 DEF Tight

\* A reservation that ends the process would have passed the limit.
LEMMA ExhaustionHasReason ==
  ASSUME IInv, BufferExhausts \/ \E c \in Chunk : SourceExhausts(c)
  PROVE  \E c \in Chunk, n \in 0 .. HardLimit :
           HeldBeside(c, n) /\ \E own \in Loads(c) : Setup + n + own > HardLimit
<1>1. /\ TypeOK /\ ChunkInv /\ base \in Nat /\ HardLimit \in Nat /\ 1 \in Chunk
      /\ Buffers \in Nat /\ live \in Nat
  <2>1. TypeOK /\ ChunkInv
    BY DEF IInv
  <2>2. live \in Nat /\ HardLimit \in Nat
    BY <2>1 DEF TypeOK
  <2>3. base \in Nat /\ Buffers \in Nat
    BY <2>1, BufferFacts
  <2>4. 1 \in Chunk
    BY DEF Chunk
  <2> QED
    BY <2>1, <2>2, <2>3, <2>4
<1>2. CASE BufferExhausts
  <2>1. stage = "buffers" /\ live + Buffer > HardLimit
    BY <1>2 DEF BufferExhausts, Exhausted
  <2>2. \A d \in Chunk : doing[d] # "analyse"
    BY <2>1 DEF IInv, LaunchInv, Idle
  <2>3. HeldBeside(1, 0) /\ live = base + Buffers + 0 /\ 0 \in 0 .. HardLimit
    BY <1>1, <2>1, <2>2, HeldIsPossible
  <2>4. Buffers + Buffer <= Chunks * Buffer
    <3>1. Buffers = (at - 1) * Buffer /\ at \in Chunk /\ Buffer \in Nat
      BY <1>1, <2>1 DEF Buffers, TypeOK
    <3>2. \A k, m, b \in Nat : k + 1 <= m => k * b + b <= m * b
      <4>1. \A k, b, j \in Nat : (k + 1 + j) * b = k * b + b + j * b /\ j * b \in Nat
        BY SMT
      <4>2. \A k, m \in Nat : k + 1 <= m => \E j \in Nat : m = k + 1 + j
        <5> TAKE k, m \in Nat
        <5> HAVE k + 1 <= m
        <5>1. m - (k + 1) \in Nat /\ m = k + 1 + (m - (k + 1))
          OBVIOUS
        <5> QED
          BY <5>1
      <4> TAKE k, m, b \in Nat
      <4> HAVE k + 1 <= m
      <4>3. PICK j \in Nat : m = k + 1 + j
        BY <4>2
      <4>4. m * b = k * b + b + j * b /\ j * b \in Nat /\ k * b \in Nat
        BY <4>1, <4>3, SMT
      <4> QED
        BY <4>4
    <3>3. at - 1 \in Nat /\ (at - 1) + 1 <= Chunks /\ Chunks \in Nat
      BY <3>1
    <3>4. (at - 1) * Buffer + Buffer <= Chunks * Buffer
      BY <3>1, <3>2, <3>3
    <3> QED
      BY <3>1, <3>4
  <2>5. Setup + 0 + 0 > HardLimit
    <3>1. Chunks * Buffer \in Nat /\ Buffer \in Nat
      BY <1>1, BufferFacts
    <3> DEFINE full == Chunks * Buffer
    <3>2. full \in Nat /\ Buffers + Buffer <= full /\ Setup = base + full
      BY <2>4, <3>1 DEF Setup
    <3> HIDE DEF full
    <3> QED
      BY <1>1, <2>1, <2>3, <3>1, <3>2
  <2>6. 0 \in Loads(1)
    BY DEF Loads
  <2> QED
    BY <1>1, <2>3, <2>5, <2>6
<1>3. ASSUME NEW c \in Chunk, SourceExhausts(c)
      PROVE  \E n \in 0 .. HardLimit :
               HeldBeside(c, n) /\ \E own \in Loads(c) : Setup + n + own > HardLimit
  <2> DEFINE own == weight[cursor[c]]
  <2>1. /\ stage # "done" /\ doing[c] = "scan" /\ cursor[c] < End(c) /\ ~Hit(cursor[c])
        /\ live + own > HardLimit
    BY <1>3 DEF SourceExhausts, Scanning, Running, Exhausted
  <2>2. own \in Loads(c)
    <3>1. cursor[c] \in Sources(c)
      BY <1>1, <2>1, ChunkPlace DEF ChunkInv, Sources
    <3> QED
      BY <2>1, <3>1 DEF Loads
  <2>3. PICK n \in 0 .. HardLimit : HeldBeside(c, n) /\ live = base + Buffers + n
    BY <2>1, HeldIsPossible
  <2>4. stage # "buffers"
    BY <2>1 DEF IInv, LaunchInv, Idle
  <2>5. Setup = base + Buffers
    BY <1>1, <2>4, BufferFacts DEF Setup
  <2>6. Setup + n + own > HardLimit
    BY <2>1, <2>3, <2>5
  <2> QED
    BY <2>2, <2>3, <2>6
<1> QED
  BY <1>2, <1>3

\* After the end nothing moves, and the launch is over once it has returned.
LEMMA EndStays ==
  ASSUME [Next]_vars
  PROVE  /\ stage = "done" => UNCHANGED vars
         /\ stage # "launch" => launch' = launch
         /\ \/ UNCHANGED verdict
            \/ Destroy
            \/ BufferExhausts \/ \E c \in Chunk : SourceExhausts(c)
         /\ stage' = "destroy" =>
              \/ stage = "destroy" /\ UNCHANGED passed
              \/ Decide \/ AppendChunk \/ AppendRefused
<1>1. CASE \/ AllocateBuffer \/ LaunchReturns \/ FallbackSkip \/ FallbackBegin \/ FallbackEnd
  <2>1. /\ stage # "done" /\ launch' = launch /\ verdict' = verdict
        /\ stage' \in {"buffers", "launch", "fallback", "decide"}
    BY <1>1 DEF AllocateBuffer, LaunchReturns, FallbackSkip, FallbackBegin, FallbackEnd,
       NextChunk, driverVars, poolVars
  <2> QED
    BY <2>1
<1>2. CASE Decide \/ AppendChunk \/ AppendRefused
  <2>1. stage # "done" /\ launch' = launch /\ verdict' = verdict
    BY <1>2 DEF Decide, AppendChunk, AppendRefused, poolVars
  <2> QED
    BY <1>2, <2>1
<1>3. CASE Destroy
  BY <1>3 DEF Destroy, poolVars
<1>4. CASE Launch
  BY <1>4 DEF Launch, driverVars
<1>5. CASE CallerBegins \/ CallerEnds
  BY <1>5 DEF CallerBegins, CallerEnds, CallerStarts, CallerReturns, BeginChunk, EndChunk,
     Running, driverVars, mergeVars
<1>6. CASE BufferExhausts \/ \E c \in Chunk : SourceExhausts(c)
  <2>1. stage # "done" /\ launch' = launch /\ stage' = "done"
    BY <1>6 DEF BufferExhausts, SourceExhausts, Scanning, Running, Exhausted, othersVars,
       poolVars
  <2> QED
    BY <1>6, <2>1
<1>7. ASSUME NEW c \in Slot, PoolThread(c)
      PROVE  stage # "done" /\ launch' = launch /\ UNCHANGED <<verdict, stage, passed>>
  BY <1>7 DEF PoolThread, StartJob, FinishJob, StartCallback, FinishCallback, BeginChunk,
     EndChunk, Running, driverVars, mergeVars
<1>8. ASSUME NEW c \in Chunk, SkipSource(c) \/ BeginSource(c) \/ EndSource(c) \/ SampleLive(c)
      PROVE  stage # "done" /\ launch' = launch /\ UNCHANGED <<verdict, stage, passed>>
  BY <1>8 DEF SkipSource, BeginSource, EndSource, SampleLive, Scanning, Running,
     chunkStepVars, othersVars, mergeVars, poolVars
<1>9. CASE Finished \/ UNCHANGED vars
  BY <1>9 DEF Finished, vars, poolVars, mergeVars
<1> QED
  BY <1>1, <1>2, <1>3, <1>4, <1>5, <1>6, <1>7, <1>8, <1>9 DEF Next, Launcher, ChunkStep

\* A chunk gives up only where it finds the budget passed.
LEMMA GivesUp ==
  ASSUME IInv, [Next]_vars, NEW c \in Chunk, doing'[c] = "over" \/ result'[c] = 2
  PROVE  \/ doing[c] = "over" \/ result[c] = 2
         \/ SampleLive(c) /\ OverBudget(c)
<1>1. TypeOK
  BY DEF IInv
<1>2. CASE UNCHANGED chunkVars
  BY <1>2 DEF chunkVars
<1>3. ASSUME NEW d \in Chunk, d # c, ChunkMove(d)
      PROVE  doing[c] = "over" \/ result[c] = 2
  BY <1>1, <1>3, MoveIsLocal
<1>4. CASE ChunkMove(c)
  <2>1. CASE BeginChunk(c)
    BY <1>1, <2>1 DEF BeginChunk, TypeOK
  <2>2. CASE SkipSource(c) \/ BeginSource(c) \/ EndSource(c)
    BY <1>1, <2>2 DEF SkipSource, BeginSource, EndSource, TypeOK
  <2>3. CASE SampleLive(c)
    BY <1>1, <2>3 DEF SampleLive, TypeOK
  <2>4. CASE EndChunk(c)
    BY <1>1, <2>4 DEF EndChunk, TypeOK
  <2> QED
    BY <1>4, <2>1, <2>2, <2>3, <2>4 DEF ChunkMove
<1> QED
  BY <1>2, <1>3, <1>4, NextOnChunks

\* Who gave up in company does not come to have been alone.
LEMMA CompanyStays ==
  ASSUME IInv, [Next]_vars, verdict' # "aborted", Alone'
  PROVE  Alone \/ \A c \in Chunk : doing[c] # "over" /\ result[c] # 2
<1>1. CASE stage # "launch"
  BY <1>1, EndStays DEF Alone
<1>2. CASE stage = "launch"
  <2>1. stage' # "launch" /\ launch' = 3
    BY DEF Alone
  <2>2. LaunchReturns
    <3>1. CASE LaunchReturns
      BY <3>1
    <3>2. CASE \/ Launch \/ CallerBegins \/ CallerEnds \/ Finished \/ UNCHANGED vars
      BY <1>2, <2>1, <3>2 DEF Launch, CallerBegins, CallerEnds, driverVars, Finished, vars
    <3>3. ASSUME NEW c \in Slot, PoolThread(c) PROVE UNCHANGED stage
      BY <3>3 DEF PoolThread, StartJob, FinishJob, driverVars
    <3>4. ASSUME NEW c \in Chunk, ChunkStep(c) PROVE stage' = stage
      BY <3>4 DEF ChunkStep, SkipSource, BeginSource, SourceExhausts, EndSource, SampleLive,
         chunkStepVars, Exhausted
    <3>5. CASE \/ AllocateBuffer \/ BufferExhausts \/ FallbackSkip \/ FallbackBegin
               \/ FallbackEnd \/ Decide \/ AppendChunk \/ AppendRefused \/ Destroy
      BY <1>2, <3>5 DEF AllocateBuffer, BufferExhausts, FallbackSkip, FallbackBegin,
         FallbackEnd, Decide, AppendChunk, AppendRefused, Destroy
    <3> QED
      BY <1>2, <2>1, <3>1, <3>2, <3>3, <3>4, <3>5 DEF Next, Launcher
  <2>3. phase = "returned" /\ launch = 3
    BY <2>1, <2>2 DEF LaunchReturns, poolVars
  <2>4. \A w \in Slot : callback[w] = "idle"
    BY <2>3 DEF IInv, PoolInv, AllSettled
  <2>5. ASSUME NEW c \in Chunk PROVE Idle(c) /\ Unrun(c)
    <3>1. CASE c = Chunks
      BY <1>2, <2>3, <3>1 DEF IInv, LaunchInv
    <3>2. CASE c # Chunks
      <4>1. c \in Slot
        BY <3>2, SlotFacts
      <4> QED
        BY <1>2, <2>4, <4>1 DEF IInv, LaunchInv
    <3> QED
      BY <3>1, <3>2
  <2> QED
    BY <2>5 DEF Idle, Unrun
<1> QED
  BY <1>1, <1>2

\* A reason keeps while the company it names keeps.
LEMMA TightStays ==
  ASSUME UNCHANGED inputVars, NEW c \in Chunk, NEW now \in BOOLEAN, NEW then \in BOOLEAN,
         Tight(c, now), then => now
  PROVE  \E n \in 0 .. HardLimit :
           HeldBeside(c, n)' /\ (then => n = 0) /\ Setup' + n > Budget
<1>1. PICK n \in 0 .. HardLimit : HeldBeside(c, n) /\ (now => n = 0) /\ Setup + n > Budget
  BY DEF Tight
<1>2. HeldBeside(c, n)' /\ Setup' = Setup
  BY <1>1, ReasonsStay
<1>3. then => n = 0
  BY <1>1
<1>4. Setup' + n > Budget
  BY <1>1, <1>2
<1> QED
  BY <1>2, <1>3, <1>4

LEMMA CausedStays ==
  ASSUME UNCHANGED inputVars, launch' = launch, Caused
  PROVE  Caused'
<1>1. CASE Cardinality(Expected(Source)) > Capacity
  BY <1>1, ReasonsStay DEF Caused
<1>2. ASSUME NEW c \in Chunk, Tight(c, launch = 3) PROVE Caused'
  <2>1. (launch = 3) \in BOOLEAN /\ (launch' = 3) \in BOOLEAN /\ (launch' = 3 => launch = 3)
    OBVIOUS
  <2>2. \E n \in 0 .. HardLimit :
          HeldBeside(c, n)' /\ (launch' = 3 => n = 0) /\ Setup' + n > Budget
    BY <1>2, <2>1, TightStays
  <2> QED
    BY <2>2 DEF Caused, Tight
<1> QED
  BY <1>1, <1>2 DEF Caused

\* What does not fit into the caller's buffer are more errors than it can hold.
LEMMA RefusalHasReason ==
  ASSUME IInv, AppendRefused
  PROVE  Cardinality(Expected(Source)) > Capacity
<1>1. /\ stage = "append" /\ Len(merged) + Len(found[at]) > Capacity
      /\ TypeOK /\ at \in Chunk
  BY DEF AppendRefused, IInv, TypeOK
<1>2. merged \in Seq(Int) /\ found[at] \in Seq(Int)
  BY <1>1 DEF TypeOK
<1> DEFINE T == Expected(0 .. End(at) - 1)
           S == Expected(Source)
           q == merged \o found[at]
<1>3. Lists(q, T)
  BY <1>1, AppendExtends
<1>4. Len(q) = Len(merged) + Len(found[at])
  BY <1>2, ConcatProperties
<1>5. IsFiniteSet(S)
  BY <1>1, ExpectedIsFinite DEF TypeOK
<1>6. T \in SUBSET S
  <2>1. 0 .. End(at) - 1 \in SUBSET Source
    BY <1>1, ChunkFacts
  <2> QED
    BY <2>1 DEF Expected
<1>7. Cardinality(S) \in Nat
  BY <1>5, FS_CardinalityType
<1>8. Len(q) \in Nat
  BY <1>2, <1>4, LenProperties
<1> HIDE DEF T, S, q
<1>9. Len(q) <= Cardinality(S)
  BY <1>3, <1>5, <1>6, ListsFit
<1>10. Cardinality(S) > Capacity
  BY <1>1, <1>4, <1>7, <1>8, <1>9
<1> QED
  BY <1>10 DEF S

\* A decision against the validation rests on a chunk that gave up.
LEMMA RejectionHasReason ==
  ASSUME IInv, CauseInv, Decide, ~Passed
  PROVE  \E c \in Chunk : Tight(c, launch = 3)
<1>1. /\ stage = "decide" /\ verdict = "pending" /\ launch \in {0, 3}
      /\ result \in [Chunk -> {-1, 0, 2}]
  BY DEF Decide, IInv, MergeInv, TypeOK, PoolTypeOK
<1>2. PICK c \in Chunk : result[c] # 0
  BY <1>1 DEF Passed
<1>3. result[c] = 2
  BY <1>1, <1>2 DEF IInv, SettledInv, Unrun
<1>4. Tight(c, Alone)
  BY <1>1, <1>3 DEF CauseInv
<1>5. Alone <=> launch = 3
  BY <1>1 DEF Alone
<1> QED
  BY <1>4, <1>5 DEF Tight

LEMMA CauseInvNext ==
  ASSUME IInv, CauseInv, [Next]_vars
  PROVE  CauseInv'
<1>1. /\ UNCHANGED inputVars
      /\ stage # "done" <=> verdict = "pending"
      /\ TypeOK
  BY NextKeepsInput DEF IInv, MergeInv
<1>2. ASSUME verdict' # "aborted", NEW c \in Chunk, doing'[c] = "over" \/ result'[c] = 2
      PROVE  Tight(c, Alone)'
  <2>1. verdict # "aborted"
    BY <1>1, <1>2, EndStays DEF vars
  <2>2. Alone \in BOOLEAN /\ Alone' \in BOOLEAN
    BY DEF Alone
  <2>3. Tight(c, Alone) /\ (Alone' => Alone)
    <3>1. CASE doing[c] = "over" \/ result[c] = 2
      BY <1>2, <2>1, <3>1, CompanyStays DEF CauseInv
    <3>2. CASE SampleLive(c) /\ OverBudget(c)
      <4>1. Tight(c, Alone)
        BY <3>2, SampleHasReason
      <4>2. Alone' = Alone
        BY <3>2 DEF SampleLive, chunkStepVars, othersVars, poolVars, Alone
      <4> QED
        BY <4>1, <4>2
    <3> QED
      BY <1>2, <3>1, <3>2, GivesUp
  <2>4. \E n \in 0 .. HardLimit :
          HeldBeside(c, n)' /\ (Alone' => n = 0) /\ Setup' + n > Budget
    BY <1>1, <2>2, <2>3, TightStays
  <2> QED
    BY <2>4 DEF Tight
<1>3. ASSUME stage' = "destroy", ~passed' PROVE Caused'
  <2>1. stage # "launch" /\ Caused
    <3>1. CASE stage = "destroy" /\ UNCHANGED passed
      BY <1>3, <3>1 DEF CauseInv
    <3>2. CASE Decide
      BY <1>3, <3>2, RejectionHasReason DEF Decide, Caused
    <3>3. CASE AppendChunk
      BY <1>3, <3>3 DEF AppendChunk, IInv, MergeInv
    <3>4. CASE AppendRefused
      BY <3>4, RefusalHasReason DEF AppendRefused, Caused
    <3> QED
      BY <1>3, <3>1, <3>2, <3>3, <3>4, EndStays
  <2>2. launch' = launch
    BY <2>1, EndStays
  <2> QED
    BY <1>1, <2>1, <2>2, CausedStays
<1>4. FailureHasCause'
  <2>1. CASE UNCHANGED verdict
    <3>1. CASE stage = "done"
      <4>1. UNCHANGED <<verdict, launch, inputVars>>
        BY <3>1, EndStays DEF vars, poolVars
      <4>2. FailureHasCause
        BY DEF CauseInv
      <4> QED
        BY <4>1, <4>2, ReasonsStay DEF FailureHasCause
    <3>2. CASE stage # "done"
      BY <1>1, <2>1, <3>2 DEF FailureHasCause
    <3> QED
      BY <3>1, <3>2
  <2>2. CASE Destroy
    <3>1. verdict' # "aborted" /\ stage = "destroy" /\ (verdict' = "failed" => ~passed)
      BY <2>2 DEF Destroy, Report
    <3>2. launch' = launch
      BY <3>1, EndStays
    <3>3. verdict' = "failed" => Caused'
      BY <1>1, <3>1, <3>2, CausedStays DEF CauseInv
    <3> QED
      BY <3>1, <3>3 DEF FailureHasCause, Caused, Tight
  <2>3. CASE BufferExhausts \/ \E c \in Chunk : SourceExhausts(c)
    <3>1. verdict' = "aborted"
      BY <2>3 DEF BufferExhausts, SourceExhausts, Exhausted
    <3>2. PICK c \in Chunk, n \in 0 .. HardLimit :
            HeldBeside(c, n) /\ \E own \in Loads(c) : Setup + n + own > HardLimit
      BY <2>3, ExhaustionHasReason
    <3>3. PICK own \in Loads(c) : Setup + n + own > HardLimit
      BY <3>2
    <3>4. HeldBeside(c, n)' /\ own \in Loads(c)' /\ Setup' + n + own > HardLimit
      BY <1>1, <3>2, <3>3, ReasonsStay
    <3> QED
      BY <3>1, <3>4 DEF FailureHasCause
  <2> QED
    BY <2>1, <2>2, <2>3, EndStays
<1> QED
  BY <1>2, <1>3, <1>4 DEF CauseInv

(***************************************************************************)
(* A project fails for a reason of its own: more errors than the caller's  *)
(* buffer holds, a budget passed by what the other chunks can hold at      *)
(* most, or a limit passed by that and one source more; and what the       *)
(* others hold is no reason when the chunks ran one after the other.       *)
(***************************************************************************)
THEOREM FailsForCause == Spec => []FailureHasCause
<1>1. Init => CauseInv
  BY DEF Init, FlowInit, CauseInv, FailureHasCause
<1>2. IInv /\ CauseInv /\ [Next]_vars => CauseInv'
  BY CauseInvNext
<1>3. CauseInv => FailureHasCause
  BY DEF CauseInv
<1> QED
  BY <1>1, <1>2, <1>3, Invariant, PTL DEF Spec

-------------------------------------------------------------------------------
(***************************************************************************)
(* No execution goes on for ever.                                          *)
(***************************************************************************)

\* The places of the driver and the points of a chunk, in order.
LEMMA PlacesInOrder ==
  ASSUME NEW p \in {"buffers", "launch", "fallback", "decide", "append", "destroy", "done"}
  PROVE  Place[p] \in 0 .. 6 /\ (Place[p] = 6 <=> p = "done")
BY DEF Place

LEMMA PointsInOrder ==
  ASSUME NEW p \in {"idle", "scan", "analyse", "sample", "over"}
  PROVE  Point[p] \in 0 .. 3 /\ (Point[p] = 3 <=> p = "over")
BY DEF Point

\* A later place of the driver has fewer turns left.
LEMMA LaterPlace ==
  ASSUME TypeOK, TypeOK', stage # "done",
         \/ Place[stage'] > Place[stage]
         \/ Place[stage'] = Place[stage] /\ at' > at
  PROVE  DriverLeft' \subseteq DriverLeft /\ DriverLeft' # DriverLeft
<1>1. Place[stage] \in 0 .. 5 /\ Place[stage'] \in 0 .. 6
  <2>1. /\ stage \in {"buffers", "launch", "fallback", "decide", "append", "destroy", "done"}
        /\ stage' \in {"buffers", "launch", "fallback", "decide", "append", "destroy", "done"}
    BY DEF TypeOK
  <2> QED
    BY <2>1, PlacesInOrder
<1>2. at \in Chunk /\ at' \in Chunk
  BY DEF TypeOK
<1>3. /\ <<Place[stage], at>> \in DriverLeft
      /\ <<Place[stage], at>> \notin DriverLeft'
  BY <1>1, <1>2 DEF DriverLeft
<1>4. DriverLeft' \subseteq DriverLeft
  BY <1>1, <1>2 DEF DriverLeft
<1> QED
  BY <1>3, <1>4

\* Chunks at the same point of the same source have as much left of it.
LEMMA SamePoint ==
  ASSUME \A d \in Chunk : result'[d] = result[d] /\ doing'[d] = doing[d] /\ cursor'[d] = cursor[d]
  PROVE  ChunksLeft' = ChunksLeft /\ SourcesLeft' = SourcesLeft
<1>1. \A d : End(d)' = End(d)
  BY DEF End
<1> QED
  BY <1>1 DEF ChunksLeft, SourcesLeft

\* A chunk that has come to a later point has less left.
LEMMA LaterPoint ==
  ASSUME TypeOK, TypeOK', NEW c \in Chunk,
         \A d \in Chunk : d # c => /\ doing'[d] = doing[d] /\ cursor'[d] = cursor[d]
                                   /\ result'[d] = result[d],
         result[c] = -1, result'[c] = -1, cursor[c] \in Source, cursor[c] < End(c),
         doing[c] \in {"scan", "analyse", "sample"}, ~Idle(c)',
         \/ cursor'[c] > cursor[c]
         \/ cursor'[c] = cursor[c] /\ Point[doing'[c]] > Point[doing[c]]
  PROVE  /\ SourcesLeft' \subseteq SourcesLeft /\ SourcesLeft' # SourcesLeft
         /\ ChunksLeft' = ChunksLeft
<1> DEFINE s == cursor[c]
           p == Point[doing[c]]
<1>1. \A d : End(d)' = End(d)
  BY DEF End
<1>2. /\ p \in 0 .. 2 /\ Point[doing'[c]] \in 0 .. 3
      /\ Point[doing'[c]] = 3 <=> doing'[c] = "over"
      /\ cursor[c] \in Nat /\ cursor'[c] \in Nat
  <2>1. /\ doing[c] \in {"idle", "scan", "analyse", "sample", "over"}
        /\ doing'[c] \in {"idle", "scan", "analyse", "sample", "over"}
        /\ cursor[c] \in 0 .. NumSources /\ cursor'[c] \in 0 .. NumSources
    BY DEF TypeOK
  <2> QED
    BY <2>1, PointsInOrder
<1>3. <<c, s, p>> \in SourcesLeft
  BY <1>2 DEF SourcesLeft
<1>4. <<c, s, p>> \notin SourcesLeft'
  BY <1>1, <1>2 DEF SourcesLeft
<1>5. ASSUME NEW t \in SourcesLeft' PROVE t \in SourcesLeft
  <2>1. t \in Chunk \X Source \X (0 .. 2)
    BY <1>5 DEF SourcesLeft
  <2>2. CASE t[1] = c
    BY <1>1, <1>2, <1>5, <2>1, <2>2 DEF SourcesLeft
  <2>3. CASE t[1] # c
    BY <1>1, <1>5, <2>1, <2>3 DEF SourcesLeft
  <2> QED
    BY <2>2, <2>3
<1>6. ChunksLeft' = ChunksLeft
  BY DEF ChunksLeft, Idle
<1> QED
  BY <1>3, <1>4, <1>5, <1>6

\* What a move does to the chunks that are left and to their sources.
LEMMA MovesUseUp ==
  ASSUME IInv, TypeOK', NEW c \in Chunk, ChunkMove(c)
  PROVE  /\ ChunksLeft' \subseteq ChunksLeft /\ SourcesLeft' \subseteq SourcesLeft
         /\ BeginChunk(c) => ChunksLeft' # ChunksLeft
         /\ SkipSource(c) \/ BeginSource(c) \/ EndSource(c) \/ SampleLive(c) =>
              SourcesLeft' # SourcesLeft
<1>1. TypeOK /\ Progress(c) /\ RunState(c)
  BY DEF IInv, ChunkInv
<1>2. \A d : End(d)' = End(d)
  BY DEF End
<1>3. \A d \in Chunk : d # c => /\ doing'[d] = doing[d] /\ cursor'[d] = cursor[d]
                                /\ result'[d] = result[d]
  BY <1>1, MoveIsLocal
<1>4. cursor[c] \in Nat /\ (cursor[c] < End(c) => cursor[c] \in Source)
  BY <1>1, ChunkPlace
<1>5. CASE Idle(c) /\ Unrun(c) /\ BeginChunk(c)
  <2>1. /\ doing[c] = "idle" /\ doing' = [doing EXCEPT ![c] = "scan"]
        /\ UNCHANGED <<cursor, result>>
    BY <1>1, <1>5 DEF BeginChunk, RunState, TypeOK, Idle
  <2>2. SourcesLeft' = SourcesLeft
    <3>0. \A d \in Chunk : doing'[d] = IF d = c THEN "scan" ELSE doing[d]
      BY <1>1, <2>1 DEF TypeOK
    <3>1. \A d \in Chunk : /\ Point[doing'[d]] = Point[doing[d]]
                           /\ doing'[d] = "over" <=> doing[d] = "over"
      BY <2>1, <3>0 DEF Point
    <3> QED
      BY <1>2, <2>1, <3>1 DEF SourcesLeft
  <2>3. c \in ChunksLeft /\ c \notin ChunksLeft' /\ ChunksLeft' \subseteq ChunksLeft
    BY <1>1, <1>5, <2>1 DEF ChunksLeft, Unrun, TypeOK
  <2>4. ~(SkipSource(c) \/ BeginSource(c) \/ EndSource(c) \/ SampleLive(c))
    BY <2>1 DEF SkipSource, BeginSource, EndSource, SampleLive, Scanning, Running
  <2> QED
    BY <2>2, <2>3, <2>4
<1>6. CASE SkipSource(c) \/ BeginSource(c) \/ EndSource(c) \/ SampleLive(c)
  <2>1. doing[c] \in {"scan", "analyse", "sample"} /\ cursor[c] < End(c)
    BY <1>1, <1>6 DEF SkipSource, BeginSource, EndSource, SampleLive, Scanning, Running, Progress
  <2>2. result[c] = -1 /\ result' = result
    BY <1>1, <1>6, <2>1 DEF RunState, Idle, Unrun, SkipSource, BeginSource, EndSource, SampleLive
  <2>3. /\ doing'[c] # "idle"
        /\ \/ cursor'[c] > cursor[c]
           \/ cursor'[c] = cursor[c] /\ Point[doing'[c]] > Point[doing[c]]
    <3>0. /\ doing \in [Chunk -> {"idle", "scan", "analyse", "sample", "over"}]
          /\ cursor \in [Chunk -> 0 .. NumSources] /\ cursor[c] \in Nat
      BY <1>1, <1>4 DEF TypeOK
    <3>1. CASE SkipSource(c)
      <4>1. doing[c] = "scan" /\ UNCHANGED doing /\ cursor' = [cursor EXCEPT ![c] = cursor[c] + 1]
        BY <3>1 DEF SkipSource, Scanning, Running
      <4> QED
        BY <3>0, <4>1
    <3>2. CASE BeginSource(c) \/ EndSource(c)
      <4>1. /\ UNCHANGED cursor
            /\ \/ doing[c] = "scan" /\ doing' = [doing EXCEPT ![c] = "analyse"]
               \/ doing[c] = "analyse" /\ doing' = [doing EXCEPT ![c] = "sample"]
        BY <3>2 DEF BeginSource, EndSource, Scanning, Running
      <4> QED
        BY <3>0, <4>1 DEF Point
    <3>3. CASE SampleLive(c)
      <4>1. /\ doing[c] = "sample"
            /\ \/ doing' = [doing EXCEPT ![c] = "over"] /\ cursor' = [cursor EXCEPT ![c] = cursor[c]]
               \/ /\ doing' = [doing EXCEPT ![c] = "scan"]
                  /\ cursor' = [cursor EXCEPT ![c] = cursor[c] + 1]
        BY <3>3 DEF SampleLive, Running
      <4> QED
        BY <3>0, <4>1 DEF Point
    <3> QED
      BY <1>6, <3>1, <3>2, <3>3
  <2>4. ~BeginChunk(c)
    BY <2>1 DEF BeginChunk, Running
  <2>5. cursor[c] \in Source /\ result'[c] = -1
    BY <1>4, <2>1, <2>2
  <2>6. ~Idle(c)'
    BY <2>3 DEF Idle
  <2> QED
    BY <1>1, <1>3, <2>1, <2>2, <2>3, <2>4, <2>5, <2>6, LaterPoint
<1>7. CASE EndChunk(c)
  <2>1. /\ doing[c] = "over" \/ (doing[c] = "scan" /\ cursor[c] = End(c))
        /\ doing' = [doing EXCEPT ![c] = "idle"] /\ UNCHANGED cursor
        /\ result'[c] # -1 /\ result[c] = -1
    <3>1. result \in [Chunk -> {-1, 0, 2}]
      BY <1>1 DEF TypeOK
    <3>2. doing[c] = "over" \/ (doing[c] = "scan" /\ cursor[c] = End(c))
      BY <1>7 DEF EndChunk, Running
    <3>3. result[c] = -1
      BY <1>1, <3>2 DEF RunState, Idle, Unrun
    <3>4. \E x \in {0, 2} : result' = [result EXCEPT ![c] = x]
      BY <1>7 DEF EndChunk
    <3>5. result'[c] # -1
      BY <3>1, <3>4
    <3> QED
      BY <1>7, <3>2, <3>3, <3>5 DEF EndChunk
  <2>2. \A t \in Chunk \X Source \X (0 .. 2) :
          t[1] = c => t \notin SourcesLeft /\ t \notin SourcesLeft'
    <3>1. End(c) \in Nat /\ cursor[c] \in Nat
      BY <1>1, ChunkPlace
    <3>2. \A t \in SourcesLeft : t[1] # c
      BY <2>1, <3>1 DEF SourcesLeft
    <3>3. \A t \in SourcesLeft' : t[1] # c
      BY <2>1 DEF SourcesLeft
    <3> QED
      BY <3>2, <3>3
  <2>3. \A t \in Chunk \X Source \X (0 .. 2) :
          t[1] # c => (t \in SourcesLeft <=> t \in SourcesLeft')
    BY <1>2, <1>3 DEF SourcesLeft
  <2>4. SourcesLeft \subseteq Chunk \X Source \X (0 .. 2)
        /\ SourcesLeft' \subseteq Chunk \X Source \X (0 .. 2)
    BY DEF SourcesLeft
  <2>5. SourcesLeft' \subseteq SourcesLeft
    BY <2>2, <2>3, <2>4
  <2>6. ChunksLeft' = ChunksLeft
    BY <1>1, <1>3, <2>1 DEF ChunksLeft, TypeOK
  <2>7. ~BeginChunk(c) /\ ~(SkipSource(c) \/ BeginSource(c) \/ EndSource(c) \/ SampleLive(c))
    BY <1>1, <1>4, <1>7, <2>1 DEF BeginChunk, Running, SkipSource, BeginSource, EndSource,
       SampleLive, Scanning, EndChunk, TypeOK
  <2> QED
    BY <2>5, <2>6, <2>7
<1> QED
  BY <1>5, <1>6, <1>7 DEF ChunkMove

\* One of the six parts of what is left gets smaller, and none grows.
Fewer ==
  /\ TurnsLeft' \subseteq TurnsLeft /\ StartsLeft' \subseteq StartsLeft /\ EndsLeft' \subseteq EndsLeft
  /\ DriverLeft' \subseteq DriverLeft
  /\ ChunksLeft' \subseteq ChunksLeft /\ SourcesLeft' \subseteq SourcesLeft
  /\ \/ TurnsLeft' # TurnsLeft \/ StartsLeft' # StartsLeft \/ EndsLeft' # EndsLeft
     \/ DriverLeft' # DriverLeft \/ ChunksLeft' # ChunksLeft \/ SourcesLeft' # SourcesLeft

LEMMA FewerIsLess ==
  Fewer => (\A k \in DOMAIN Left : Left'[k] \subseteq Left[k]) /\ Left' # Left
BY DEF Fewer, Left

LEMMA NextUsesUp == IInv /\ IInv' /\ Next => Fewer \/ UNCHANGED vars
<1> SUFFICES ASSUME IInv, IInv', Next PROVE Fewer \/ UNCHANGED vars
  OBVIOUS
<1>0. /\ PoolInv /\ PoolTypeOK /\ TypeOK /\ TypeOK' /\ at \in Chunk
  BY DEF IInv, PoolInv, TypeOK
<1>1. ChunksLeft' \subseteq ChunksLeft /\ SourcesLeft' \subseteq SourcesLeft
  <2>1. CASE UNCHANGED chunkVars
    BY <2>1, SamePoint DEF chunkVars
  <2>2. CASE \E c \in Chunk : ChunkMove(c)
    BY <1>0, <2>2, MovesUseUp
  <2> QED
    BY <2>1, <2>2, NextOnChunks
<1>2. UNCHANGED <<stage, at>> => DriverLeft' = DriverLeft
  BY DEF DriverLeft
<1>3. UNCHANGED poolVars => TurnsLeft' = TurnsLeft /\ StartsLeft' = StartsLeft /\ EndsLeft' = EndsLeft
  BY DEF poolVars, TurnsLeft, StartsLeft, EndsLeft
<1>4. ASSUME LaunchStep, UNCHANGED <<stage, at>> PROVE Fewer
  BY <1>0, <1>1, <1>2, <1>4, LauncherTakesTurn DEF Fewer
<1>5. ASSUME NEW w \in Slot, PoolStep(w), UNCHANGED <<stage, at>> PROVE Fewer
  BY <1>0, <1>1, <1>2, <1>5, PoolThreadTakesStep DEF Fewer
<1>6. ASSUME UNCHANGED poolVars, stage # "done",
             \/ Place[stage'] > Place[stage]
             \/ Place[stage'] = Place[stage] /\ at' > at
      PROVE  Fewer
  BY <1>0, <1>1, <1>3, <1>6, LaterPlace DEF Fewer
<1>7. ASSUME NEW c \in Chunk, ChunkMove(c), UNCHANGED <<poolVars, stage, at>>,
             BeginChunk(c) \/ SkipSource(c) \/ BeginSource(c) \/ EndSource(c) \/ SampleLive(c)
      PROVE  Fewer
  BY <1>0, <1>1, <1>2, <1>3, <1>7, MovesUseUp DEF Fewer
<1>8. CASE Launch \/ CallerBegins \/ CallerEnds
  BY <1>4, <1>8 DEF Launch, CallerBegins, CallerEnds, LaunchStep, driverVars
<1>9. ASSUME NEW c \in Slot, PoolThread(c) PROVE Fewer
  BY <1>5, <1>9 DEF PoolThread, StartJob, FinishJob, PoolStep, driverVars
<1>10. CASE BufferExhausts \/ LaunchReturns \/ Decide \/ AppendRefused \/ Destroy
  BY <1>6, <1>10 DEF BufferExhausts, Exhausted, othersVars, LaunchReturns, Decide, AppendRefused,
     Destroy, Place
<1>11. CASE AllocateBuffer \/ FallbackSkip \/ FallbackEnd \/ AppendChunk
  <2>1. UNCHANGED poolVars
        /\ \/ stage = "buffers" /\ (stage' = "launch" \/ (stage' = stage /\ at' = at + 1))
           \/ stage = "fallback" /\ (stage' = "decide" \/ (stage' = stage /\ at' = at + 1))
           \/ stage = "append" /\ (stage' = "destroy" \/ (stage' = stage /\ at' = at + 1))
    <3>1. CASE AllocateBuffer
      BY <3>1 DEF AllocateBuffer
    <3>2. CASE FallbackSkip \/ FallbackEnd
      BY <3>2 DEF FallbackSkip, FallbackEnd, NextChunk
    <3>3. CASE AppendChunk
      BY <3>3 DEF AppendChunk
    <3> QED
      BY <1>11, <3>1, <3>2, <3>3
  <2> QED
    BY <1>0, <1>6, <2>1 DEF Place
<1>12. CASE FallbackBegin
  <2>1. ChunkMove(at) /\ BeginChunk(at) /\ UNCHANGED <<poolVars, stage, at>>
    BY <1>12 DEF FallbackBegin, ChunkMove, Unrun, Idle, BeginChunk, Running, driverVars
  <2> QED
    BY <1>0, <1>7, <2>1
<1>13. ASSUME NEW c \in Chunk, ChunkStep(c) PROVE Fewer
  <2>1. CASE SourceExhausts(c)
    <3>1. UNCHANGED poolVars /\ stage # "done" /\ stage' = "done"
      BY <2>1 DEF SourceExhausts, Exhausted, Scanning, Running, othersVars
    <3>2. stage \in {"buffers", "launch", "fallback", "decide", "append", "destroy", "done"}
      BY <1>0 DEF TypeOK
    <3>3. Place[stage'] > Place[stage]
      BY <3>1, <3>2 DEF Place
    <3> QED
      BY <1>6, <3>1, <3>3
  <2>2. CASE SkipSource(c) \/ BeginSource(c) \/ EndSource(c) \/ SampleLive(c)
    <3>1. UNCHANGED <<poolVars, stage, at>>
      BY <2>2 DEF SkipSource, BeginSource, EndSource, SampleLive, chunkStepVars, othersVars
    <3> QED
      BY <1>7, <2>2, <3>1 DEF ChunkMove
  <2> QED
    BY <1>13, <2>1, <2>2 DEF ChunkStep
<1> QED
  BY <1>8, <1>9, <1>10, <1>11, <1>12, <1>13 DEF Next, Launcher, Finished

(***************************************************************************)
(* For every number of chunks and sources, every size of an analysis and   *)
(* any scheduling, each step of the threads that validate uses up a part   *)
(* of what is left to do: flow_validate_project_parallel begins nothing a  *)
(* second time.                                                            *)
(***************************************************************************)
THEOREM EachStepCounts == Spec => EveryStepCounts
<1>1. IInv /\ IInv' /\ [Next]_vars =>
        [(\A k \in DOMAIN Left : Left'[k] \subseteq Left[k]) /\ Left' # Left]_vars
  BY NextUsesUp, FewerIsLess
<1> QED
  BY <1>1, Invariant, PTL DEF Spec, EveryStepCounts

\* What is left is finite in every state, and so is every execution.
THEOREM LeftIsFinite == \A k \in DOMAIN Left : IsFiniteSet(Left[k])
<1>0. 0 \in Int /\ 1 \in Int /\ 2 \in Int /\ 5 \in Int /\ Chunks \in Int /\ NumSources - 1 \in Int
  OBVIOUS
<1>1. IsFiniteSet(0 .. 5) /\ IsFiniteSet(0 .. 2) /\ IsFiniteSet(1 .. Chunks)
      /\ IsFiniteSet(0 .. NumSources - 1)
  BY <1>0, FS_Interval
<1>2. /\ IsFiniteSet((0 .. 5) \X (1 .. Chunks))
      /\ IsFiniteSet(((1 .. Chunks) \X (0 .. NumSources - 1)) \X (0 .. 2))
  BY <1>1, FS_Product
<1>3. SourcesLeft \subseteq Chunk \X Source \X (0 .. 2)
  BY DEF SourcesLeft
<1> DEFINE Pairs == ((1 .. Chunks) \X (0 .. NumSources - 1)) \X (0 .. 2)
           F == [t \in SourcesLeft |-> <<<<t[1], t[2]>>, t[3]>>]
<1>4. F \in Injection(SourcesLeft, Pairs)
  <2>1. \A t \in SourcesLeft : F[t] = <<<<t[1], t[2]>>, t[3]>> /\ F[t] \in Pairs
    BY <1>3
  <2>2. ASSUME NEW t \in SourcesLeft, NEW u \in SourcesLeft, F[t] = F[u] PROVE t = u
    <3>1. t[1] = u[1] /\ t[2] = u[2] /\ t[3] = u[3]
      BY <2>1, <2>2
    <3> QED
      BY <1>3, <3>1
  <2>3. F \in [SourcesLeft -> Pairs]
    BY <2>1
  <2> QED
    BY <2>2, <2>3 DEF Injection, IsInjective
<1>5. /\ DriverLeft \subseteq (0 .. 5) \X (1 .. Chunks)
      /\ ChunksLeft \subseteq 1 .. Chunks
  BY DEF DriverLeft, ChunksLeft
<1>6. IsFiniteSet(DriverLeft) /\ IsFiniteSet(ChunksLeft)
  BY <1>1, <1>2, <1>5, FS_Subset
<1>7. IsFiniteSet(SourcesLeft)
  BY <1>2, <1>4, FS_Injection
<1> QED
  BY <1>6, <1>7, CallIsFinite DEF Left

\* The chunk's loop has come to its end.
CanEnd(c) == doing[c] = "over" \/ (doing[c] = "scan" /\ cursor[c] = End(c))

\* The guards of the launching thread's steps, and of the other threads'; what is reserved
\* either fits, or ends the process.
LauncherCanGo ==
  \/ stage \in {"buffers", "decide", "append", "destroy"}
  \/ stage = "launch" /\ phase \in {"resolve", "create", "submit", "close", "returned"}
  \/ stage = "launch" /\ phase = "wait" /\ callback[next] = "done"
  \/ stage = "launch" /\ phase = "call" /\ doing[Chunks] = "idle"
  \/ stage = "launch" /\ phase = "caller" /\ CanEnd(Chunks)
  \/ stage = "fallback" /\ (doing[at] = "idle" \/ CanEnd(at))

OthersCanGo ==
  /\ stage # "done"
  /\ \/ \E c \in Chunk : \/ doing[c] = "scan" /\ cursor[c] < End(c)
                         \/ doing[c] \in {"analyse", "sample"}
     \/ \E c \in Slot : \/ callback[c] = "queued" /\ doing[c] = "idle"
                        \/ callback[c] = "running" /\ CanEnd(c)

(***************************************************************************)
(* Nobody waits for a thread that waits: until the call has returned or    *)
(* the process has ended, one of the guards holds, whatever failed. With   *)
(* EachStepCounts and LeftIsFinite the call comes to its end if threads    *)
(* that can go on do.                                                      *)
(***************************************************************************)
THEOREM SomebodyCanGo == Spec => [](stage = "done" \/ LauncherCanGo \/ OthersCanGo)
<1>1. IInv => stage = "done" \/ LauncherCanGo \/ OthersCanGo
  <2> SUFFICES ASSUME IInv, stage # "done", ~OthersCanGo PROVE LauncherCanGo
    OBVIOUS
  <2>1. ASSUME NEW c \in Chunk, ~Idle(c) PROVE CanEnd(c)
    <3>1. /\ cursor[c] \in Nat /\ End(c) \in Nat /\ cursor[c] <= End(c)
          /\ doing[c] \in {"idle", "scan", "analyse", "sample", "over"}
      <4>1. TypeOK /\ Progress(c)
        BY DEF IInv, ChunkInv
      <4>2. doing[c] \in {"idle", "scan", "analyse", "sample", "over"}
        BY <4>1 DEF TypeOK
      <4> QED
        BY <4>1, <4>2, ChunkPlace
    <3> QED
      BY <2>1, <3>1 DEF OthersCanGo, CanEnd, Idle
  <2>2. ASSUME stage = "launch", NEW w \in Slot PROVE ~InFlight(w)
    <3>1. Idle(w) <=> callback[w] # "running"
      BY <2>2 DEF IInv, LaunchInv
    <3> QED
      BY <2>1, <3>1, SlotFacts DEF OthersCanGo, InFlight, Idle
  <2>3. CASE stage = "launch"
    <3>1. phase \in Phase /\ next \in Slot /\ callback[next] \in {"idle", "queued", "running", "done"}
      BY DEF IInv, PoolInv, PoolTypeOK
    <3>2. CASE phase = "wait"
      <4>1. callback[next] # "idle"
        BY <3>1, <3>2 DEF IInv, PoolInv, AllSubmitted
      <4> QED
        BY <2>2, <2>3, <3>1, <3>2, <4>1 DEF InFlight, LauncherCanGo
    <3>3. CASE phase = "caller"
      <4>1. ~Idle(Chunks) /\ Chunks \in Chunk
        BY <2>3, <3>3 DEF IInv, LaunchInv
      <4> QED
        BY <2>1, <2>3, <3>3, <4>1 DEF LauncherCanGo
    <3>4. CASE phase = "call"
      BY <2>3, <3>4 DEF IInv, LaunchInv, Idle, LauncherCanGo
    <3> QED
      BY <2>3, <3>1, <3>2, <3>3, <3>4 DEF Phase, LauncherCanGo
  <2>4. CASE stage = "fallback"
    <3>1. at \in Chunk
      BY DEF IInv, TypeOK
    <3> QED
      BY <2>1, <2>4, <3>1 DEF Idle, LauncherCanGo
  <2> QED
    BY <2>3, <2>4 DEF IInv, TypeOK, LauncherCanGo
<1> QED
  BY <1>1, Invariant, PTL

-------------------------------------------------------------------------------
(***************************************************************************)
(* The same sources come to the same report.                               *)
(***************************************************************************)

OnlyReport ==
  /\ verdict = "accepted" => Expected(Source) = {}
  /\ verdict = "rejected" => Expected(Source) # {}
  /\ report = IF verdict = "rejected" THEN Written(Expected(Source)) ELSE <<>>

(***************************************************************************)
(* Validated with any number of chunks under any scheduling: two runs over *)
(* the same sources and saved objects, if neither fails, both accept or    *)
(* both reject, and report the same errors in the same order.              *)
(***************************************************************************)
THEOREM ReportsAlike == Spec => []OnlyReport
<1>1. FlowInit => OnlyReport
  BY DEF FlowInit, OnlyReport
<1>2. OnlyReport /\ [FlowNext]_flowVars => OnlyReport'
  <2> SUFFICES ASSUME OnlyReport, [FlowNext]_flowVars PROVE OnlyReport'
    OBVIOUS
  <2>1. Expected(Source)' = Expected(Source)
    BY DEF FlowNext, FlowAccepts, FlowRejects, FlowFails, flowVars, Expected, ErrorsOf, Hit
  <2>2. CASE FlowRejects
    <3>1. verdict' = "rejected" /\ Expected(Source) # {} /\ Lists(report', Expected(Source))
      BY <2>2 DEF FlowRejects
    <3>2. report' = Written(Expected(Source))
      BY <3>1, ListedIsWritten
    <3> QED
      BY <2>1, <3>1, <3>2 DEF OnlyReport
  <2>3. CASE FlowAccepts \/ FlowFails \/ UNCHANGED flowVars
    BY <2>1, <2>3 DEF OnlyReport, FlowAccepts, FlowFails, flowVars
  <2> QED
    BY <2>2, <2>3 DEF FlowNext
<1> QED
  BY <1>1, <1>2, Refines, PTL DEF ImplementsSerialFlow, FlowSpec
===============================================================================
