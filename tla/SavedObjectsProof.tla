--------------------------- MODULE SavedObjectsProof ---------------------------
(***************************************************************************)
(* What the compiler saves beside its output, and finds again: the index   *)
(* of the fresh records that a partition's object is saved from, the set   *)
(* of module objects under a COMPLETE manifest, and the hash function that *)
(* both are keyed with. At the end, the other algorithm that comes to its  *)
(* result one record at a time: the constants of a project, which the      *)
(* Python bootstrap compiler resolves pass by pass.                        *)
(***************************************************************************)
EXTENDS FreshIndex, ObjectSet, HashResolver, ConstantResolution,
        PartitioningProof, FiniteSetTheorems

(***************************************************************************)
(* The index of fresh records is right for every number of sources, of     *)
(* partitions and of records.                                              *)
(***************************************************************************)
USE PartitionsAssumption

\* The first source of partition p.
FirstOf(p) == Cut(Sources, p, Partitions)

\* What has been read is in source order, and `previous` is its last source.
ReadInOrder ==
  /\ \A i, j \in 1 .. cursor : i < j => records[i] <= records[j]
  /\ \A i \in 1 .. cursor : records[i] <= previous
  /\ previous = IF cursor = 0 THEN 0 ELSE records[cursor]

\* A start that is written separates the records read so far ...
WrittenSeparate ==
  \A p \in 0 .. Partitions : p < nextStart =>
    /\ starts[p] <= cursor
    /\ \A i \in 1 .. cursor : i > starts[p] <=> records[i] >= FirstOf(p)

\* ... and nothing read so far reaches a partition whose start is missing.
MissingAhead ==
  \A p \in 0 .. Partitions : p >= nextStart =>
    \A i \in 1 .. cursor : records[i] < FirstOf(p)

\* The last start written is of a partition the reading has reached.
ReachedByReading ==
  verdict = "running" /\ nextStart > 0 =>
    nextStart <= Partitions /\ FirstOf(nextStart - 1) <= previous

Verdicts ==
  /\ verdict = "indexed" => cursor = Len(records) /\ nextStart = Partitions + 1
  /\ verdict = "rejected" => /\ cursor < Len(records)
                             /\ records[cursor + 1] < previous

IndexInv ==
  /\ TypeOK
  /\ ReadInOrder /\ WrittenSeparate /\ MissingAhead /\ ReachedByReading
  /\ Verdicts

\* CutBounds and IndexInverseOfCuts for the sizes of this module.
LEMMA FirstOfFacts ==
  /\ FirstOf(0) = 0
  /\ FirstOf(Partitions) = Sources
  /\ \A p \in Nat : FirstOf(p) \in Nat
  /\ \A p, q \in Nat : p <= q => FirstOf(p) <= FirstOf(q)
  /\ \A s \in 0 .. Sources - 1 :
       LET p == SourcePartitionIndex(s, Sources, Partitions) IN
       p \in 0 .. Partitions - 1 /\ FirstOf(p) <= s /\ s < FirstOf(p + 1)
<1>1. Sources \in Nat
  OBVIOUS
<1> QED
  BY <1>1, CutBounds, IndexInverseOfCuts DEF FirstOf

\* The type invariant in the form the arithmetic below uses.
LEMMA Types ==
  ASSUME TypeOK
  PROVE  /\ Len(records) \in Nat
         /\ \A i \in 1 .. Len(records) : records[i] \in 0 .. Sources - 1
         /\ cursor \in Nat /\ cursor <= Len(records)
         /\ nextStart \in Nat /\ nextStart <= Partitions + 1
         /\ previous \in 0 .. Sources - 1
         /\ \A p \in 0 .. Partitions : starts[p] \in Nat
BY DEF TypeOK

(* Nothing has been read and nothing written. *)
LEMMA IndexInit == Init => IndexInv
BY DEF Init, IndexInv, TypeOK, ReadInOrder, WrittenSeparate, MissingAhead,
       ReachedByReading, Verdicts

(* One record keeps the index right. *)
LEMMA IndexRecordInv == IndexInv /\ IndexRecord => IndexInv'
<1> SUFFICES ASSUME IndexInv, IndexRecord PROVE IndexInv'
  OBVIOUS
<1> DEFINE source == records[cursor + 1]
           q == SourcePartitionIndex(source, Sources, Partitions)
<1>0. /\ Len(records) \in Nat
      /\ \A i \in 1 .. Len(records) : records[i] \in 0 .. Sources - 1
      /\ cursor \in Nat /\ cursor <= Len(records)
      /\ nextStart \in Nat /\ nextStart <= Partitions + 1
      /\ previous \in 0 .. Sources - 1
      /\ \A p \in 0 .. Partitions : starts[p] \in Nat
  BY Types DEF IndexInv
<1>1. source \in 0 .. Sources - 1
  BY <1>0 DEF IndexRecord
<1>2. q \in 0 .. Partitions - 1 /\ FirstOf(q) <= source /\ source < FirstOf(q + 1)
  BY <1>1, FirstOfFacts
<1>3. /\ starts' = FillUpTo(q)
      /\ nextStart' = IF q < nextStart THEN nextStart ELSE q + 1
      /\ previous' = source /\ cursor' = cursor + 1
      /\ records' = records /\ verdict' = verdict /\ verdict = "running"
      /\ cursor < Len(records) /\ source >= previous
  BY DEF IndexRecord
<1> HIDE DEF source, q
<1>4. source = records[cursor']
  BY <1>3 DEF source
<1>5. TypeOK'
  BY <1>1, <1>2, <1>3 DEF IndexInv, TypeOK, FillUpTo
<1>6. ReadInOrder'
  <2>1. ASSUME NEW i \in 1 .. cursor'
        PROVE  records'[i] <= previous'
    BY <1>0, <1>1, <1>3, <1>4, <2>1 DEF IndexInv, ReadInOrder
  <2>2. ASSUME NEW i \in 1 .. cursor', NEW j \in 1 .. cursor', i < j
        PROVE  records'[i] <= records'[j]
    BY <1>0, <1>1, <1>3, <1>4, <2>1, <2>2 DEF IndexInv, ReadInOrder
  <2>3. previous' = records'[cursor'] /\ cursor' # 0
    BY <1>0, <1>3, <1>4
  <2> QED
    BY <2>1, <2>2, <2>3 DEF ReadInOrder
<1>7. \A p \in 0 .. Partitions : p < nextStart => FirstOf(p) <= source
  <2> SUFFICES ASSUME NEW p \in 0 .. Partitions, p < nextStart
               PROVE  FirstOf(p) <= source
    OBVIOUS
  <2>1. FirstOf(p) <= FirstOf(nextStart - 1) /\ FirstOf(p) \in Nat
        /\ FirstOf(nextStart - 1) \in Nat
    <3>1. p \in Nat /\ nextStart - 1 \in Nat /\ p <= nextStart - 1
      BY <1>0
    <3> QED
      BY <3>1, FirstOfFacts
  <2> QED
    BY <1>0, <1>1, <1>3, <2>1 DEF IndexInv, ReachedByReading
<1>8. WrittenSeparate'
  <2> SUFFICES ASSUME NEW p \in 0 .. Partitions, p < nextStart',
                      NEW i \in 1 .. cursor'
               PROVE  /\ starts'[p] <= cursor'
                      /\ i > starts'[p] <=> records'[i] >= FirstOf(p)
    <3>1. 1 \in 1 .. cursor'
      BY <1>0, <1>3
    <3> QED
      BY <1>0, <1>3, <1>5, <3>1 DEF WrittenSeparate, FirstOf
  <2>1. records[i] \in Nat /\ FirstOf(p) \in Nat /\ FirstOf(q) \in Nat
    <3>1. i \in 1 .. Len(records)
      BY <1>0, <1>3
    <3>2. records[i] \in Nat
      BY <1>0, <3>1
    <3>3. p \in Nat /\ q \in Nat
      BY <1>2
    <3> QED
      BY <3>2, <3>3, FirstOfFacts
  <2>2. CASE p < nextStart
    <3>1. starts'[p] = starts[p] /\ starts[p] <= cursor
      BY <1>0, <1>3, <2>2 DEF FillUpTo, IndexInv, WrittenSeparate
    <3>2. CASE i = cursor'
      BY <1>0, <1>1, <1>3, <1>4, <1>7, <2>1, <2>2, <3>1, <3>2
    <3>3. CASE i # cursor'
      BY <1>0, <1>3, <2>1, <2>2, <3>1, <3>3 DEF IndexInv, WrittenSeparate
    <3> QED
      BY <1>0, <3>2, <3>3
  <2>3. CASE p >= nextStart
    <3>1. p <= q /\ starts'[p] = cursor
      BY <1>0, <1>2, <1>3, <2>3 DEF FillUpTo, IndexInv
    <3>2. FirstOf(p) <= FirstOf(q)
      BY <1>0, <1>2, <3>1, FirstOfFacts
    <3>3. CASE i = cursor'
      BY <1>0, <1>1, <1>2, <1>3, <1>4, <2>1, <3>1, <3>2, <3>3
    <3>4. CASE i # cursor'
      BY <1>0, <1>3, <2>1, <2>3, <3>1, <3>4 DEF IndexInv, MissingAhead
    <3> QED
      BY <1>0, <3>3, <3>4
  <2> QED
    BY <1>0, <2>2, <2>3
<1>9. MissingAhead'
  <2> SUFFICES ASSUME NEW p \in 0 .. Partitions, p >= nextStart',
                      NEW i \in 1 .. cursor'
               PROVE  records'[i] < FirstOf(p)
    BY DEF MissingAhead, FirstOf
  <2>1. p >= q + 1 /\ p >= nextStart
    BY <1>0, <1>2, <1>3
  <2>2. FirstOf(q + 1) <= FirstOf(p) /\ FirstOf(q + 1) \in Nat /\ FirstOf(p) \in Nat
    BY <1>0, <1>2, <2>1, FirstOfFacts
  <2> QED
    BY <1>0, <1>1, <1>2, <1>3, <1>4, <2>1, <2>2 DEF IndexInv, MissingAhead
<1>10. ReachedByReading'
  BY <1>0, <1>1, <1>2, <1>3, <1>7 DEF IndexInv, ReachedByReading, FirstOf
<1>11. Verdicts'
  BY <1>0, <1>3 DEF Verdicts
<1> QED
  BY <1>0, <1>5, <1>6, <1>8, <1>9, <1>10, <1>11 DEF IndexInv

(* Filling the rest of the index keeps it right. *)
LEMMA IndexTailInv == IndexInv /\ IndexTail => IndexInv'
<1> SUFFICES ASSUME IndexInv, IndexTail PROVE IndexInv'
  OBVIOUS
<1>1. TypeOK'
  BY DEF IndexInv, TypeOK, IndexTail, FillUpTo
<1>2. ReadInOrder' /\ ReachedByReading' /\ Verdicts'
  BY DEF IndexInv, TypeOK, IndexTail, ReadInOrder, ReachedByReading, Verdicts
<1>3. MissingAhead'
  BY DEF IndexInv, TypeOK, IndexTail, MissingAhead
<1>4. WrittenSeparate'
  <2> SUFFICES ASSUME NEW p \in 0 .. Partitions, NEW i \in 1 .. cursor
               PROVE  /\ starts'[p] <= cursor
                      /\ i > starts'[p] <=> records[i] >= FirstOf(p)
    BY DEF WrittenSeparate, IndexTail, FirstOf, IndexInv, TypeOK, FillUpTo
  <2>1. records[i] \in Nat /\ FirstOf(p) \in Nat
    <3>1. records[i] \in Nat /\ p \in Nat
      BY Types DEF IndexInv
    <3> QED
      BY <3>1, FirstOfFacts
  <2> QED
    BY <2>1 DEF IndexInv, TypeOK, IndexTail, FillUpTo, WrittenSeparate,
                MissingAhead
<1> QED
  BY <1>1, <1>2, <1>3, <1>4 DEF IndexInv

(***************************************************************************)
(* IndexInv is an invariant of the loop.                                   *)
(***************************************************************************)
THEOREM IndexInvariant == Spec => []IndexInv
<1>1. Init => IndexInv
  BY IndexInit
<1>2. IndexInv /\ [Next]_vars => IndexInv'
  <2> SUFFICES ASSUME IndexInv, [Next]_vars PROVE IndexInv'
    OBVIOUS
  <2>1. CASE IndexRecord
    BY <2>1, IndexRecordInv
  <2>2. CASE IndexTail
    BY <2>2, IndexTailInv
  <2>3. CASE RejectRecord
    BY <2>3 DEF RejectRecord, IndexInv, TypeOK, ReadInOrder, WrittenSeparate,
                MissingAhead, ReachedByReading, Verdicts, FirstOf
  <2>4. CASE UNCHANGED vars
    BY <2>4 DEF vars, IndexInv, TypeOK, ReadInOrder, WrittenSeparate,
                MissingAhead, ReachedByReading, Verdicts, FirstOf
  <2> QED
    BY <2>1, <2>2, <2>3, <2>4 DEF Next, Finished
<1> QED
  BY <1>1, <1>2, PTL DEF Spec

(***************************************************************************)
(* The extent of each partition holds exactly the records of its sources,  *)
(* so a partition's code is never saved under another partition's key.     *)
(***************************************************************************)
THEOREM ExtentsAreRight == Spec => []ExtentsHoldOwnRecords
<1>1. IndexInv => ExtentsHoldOwnRecords
  <2> SUFFICES ASSUME IndexInv, verdict = "indexed",
                      NEW p \in Partition, NEW i \in 1 .. Len(records)
               PROVE  (starts[p] < i /\ i <= starts[p + 1])
                        <=> records[i] \in Members(p)
    BY DEF ExtentsHoldOwnRecords
  <2>1. p \in 0 .. Partitions /\ p + 1 \in 0 .. Partitions
        /\ p < nextStart /\ p + 1 < nextStart /\ i \in 1 .. cursor
    BY DEF IndexInv, TypeOK, Verdicts, Partition
  <2>2. ASSUME NEW r \in 0 .. Partitions, r < nextStart
        PROVE  i > starts[r] <=> records[i] >= FirstOf(r)
    BY <2>1, <2>2 DEF IndexInv, WrittenSeparate
  <2>3. /\ records[i] \in Nat /\ FirstOf(p) \in Nat /\ FirstOf(p + 1) \in Nat
        /\ starts[p] \in Nat /\ starts[p + 1] \in Nat
    BY <2>1, Types, FirstOfFacts DEF IndexInv
  <2>4. /\ i > starts[p] <=> records[i] >= FirstOf(p)
        /\ i > starts[p + 1] <=> records[i] >= FirstOf(p + 1)
    BY <2>1, <2>2
  <2> QED
    BY <2>3, <2>4 DEF Members, FirstOf
<1> QED
  BY <1>1, IndexInvariant, PTL

(***************************************************************************)
(* A stream in source order is never rejected, and no other is accepted.   *)
(***************************************************************************)
THEOREM RejectionIsExact == Spec => []RejectsExactlyDisorder
<1>1. IndexInv => RejectsExactlyDisorder
  <2> SUFFICES ASSUME IndexInv PROVE RejectsExactlyDisorder
    OBVIOUS
  <2>1. ASSUME verdict = "rejected"
        PROVE  \E i, j \in 1 .. Len(records) : i < j /\ records[i] > records[j]
    <3>1. /\ cursor \in Nat /\ cursor < Len(records)
          /\ previous \in Nat /\ records[cursor + 1] \in Nat
          /\ records[cursor + 1] < previous
      BY <2>1 DEF IndexInv, TypeOK, Verdicts
    <3>2. cursor > 0 /\ previous = records[cursor]
      BY <3>1 DEF IndexInv, TypeOK, ReadInOrder, Verdicts
    <3> QED
      BY <3>1, <3>2 DEF IndexInv, TypeOK
  <2>2. ASSUME verdict = "indexed"
        PROVE  \A i, j \in 1 .. Len(records) : i < j => records[i] <= records[j]
    BY <2>2 DEF IndexInv, Verdicts, ReadInOrder
  <2> QED
    BY <2>1, <2>2 DEF RejectsExactlyDisorder, IndexInv, TypeOK
<1> QED
  BY <1>1, IndexInvariant, PTL

(***************************************************************************)
(* Both together: the index is right wherever there is one, and there is   *)
(* one for every stream in source order.                                   *)
(***************************************************************************)
THEOREM IndexIsRight == Spec => []IndexIsExact
<1>1. ExtentsHoldOwnRecords /\ RejectsExactlyDisorder => IndexIsExact
  BY DEF IndexIsExact
<1> QED
  BY <1>1, ExtentsAreRight, RejectionIsExact, PTL

-----------------------------------------------------------------------------
(***************************************************************************)
(* A COMPLETE manifest lists one accepted build, for every number of units *)
(* and every set of versions, whatever builds fail, are killed, reuse what *)
(* others have published, or find it lost.                                 *)
(***************************************************************************)

Contents == {v[u] : v \in ProjectVersions, u \in Units} \union {Empty, "torn"}
Tables == [Units -> Contents]

SetTypeOK ==
  /\ sources \in ProjectVersions
  /\ outputs \in Tables /\ hashes \in Tables /\ bundle \in Tables
  /\ unit \in 0 .. LastUnit + 1
  /\ cached \in BOOLEAN /\ relinks \in BOOLEAN
  /\ stage \in {"idle", "try", "invalidate", "write", "link", "finish", "save"}

\* A record of a project names the objects of the version it is under.
RecordInv == projectRecords \subseteq {<<v, v>> : v \in Listings}

Accepted == {"invalidate", "write", "link", "finish", "save"}
PastWriting == {"link", "finish", "save"}

\* What a build works on, and what it has found.
VersionInv ==
  /\ stage # "idle" => version \in ProjectVersions
  /\ stage \in Accepted => version \in Listings
  /\ stage \in {"idle", "try"} => ~cached /\ ~relinks
  /\ stage \in {"idle", "try", "invalidate"} => unit = 0
  /\ relinks => hashes = version /\ ~cached

\* The units it has passed are written, gathered and recorded.
PassedInv ==
  /\ stage = "write" => unit \in Units
  /\ stage \in PastWriting => unit = LastUnit + 1
  /\ \A u \in Units : u < unit =>
       /\ bundle[u] = version[u]
       /\ version[u] # Empty => outputs[u] = version[u]
       /\ cached => hashes[u] = version[u]

\* Until the end there is no manifest, and at the end all is there.
ManifestInv ==
  /\ stage \in {"write", "link", "finish"} => manifest = NoUnit
  /\ stage \in {"finish", "save"} => linked = version

SetInv ==
  SetTypeOK /\ RecordInv /\ VersionInv /\ PassedInv /\ ManifestInv /\ CompleteIsOneBuild

LEMMA VersionsAreTables ==
  /\ ProjectVersions \subseteq Tables /\ Listings \subseteq ProjectVersions
  /\ NoUnit \in Tables /\ Units \subseteq Nat /\ 0 \in Units
<1>1. \A u \in Units, v \in ProjectVersions : v[u] \in Contents
  BY DEF Contents
<1>2. ASSUME NEW v \in ProjectVersions PROVE v \in Tables
  <2>1. v = [u \in Units |-> v[u]]
    BY VersionsAssumption
  <2> QED
    BY <1>1, <2>1 DEF Tables
<1>3. NoUnit \in Tables
  BY DEF NoUnit, Tables, Contents
<1> QED
  BY <1>2, <1>3, VersionsAssumption DEF Listings, Units

\* When every unit is passed, the tables are those of the version.
LEMMA AllPassed ==
  ASSUME SetInv, stage \in PastWriting
  PROVE  /\ bundle = version /\ (cached => hashes = version)
         /\ \A u \in Units : version[u] # Empty => outputs[u] = version[u]
<1>1. \A u \in Units : u < unit
  BY VersionsAssumption DEF SetInv, PassedInv, Units
<1>2. version \in Tables
  BY VersionsAreTables DEF SetInv, VersionInv, PastWriting
<1>3. bundle \in Tables /\ hashes \in Tables
  BY DEF SetInv, SetTypeOK
<1> QED
  BY <1>1, <1>2, <1>3 DEF SetInv, PassedInv, Tables

\* A build that has ended keeps nothing but files.
LEMMA EndKeeps ==
  ASSUME SetInv, End, UNCHANGED sources, outputs' \in Tables, projectRecords' \subseteq {<<v, v>> : v \in Listings},
         manifest' # NoUnit =>
           /\ manifest' \in Listings /\ linked' = manifest'
           /\ \A u \in Units : manifest'[u] # Empty => outputs'[u] = manifest'[u]
  PROVE  SetInv'
<1>1. SetTypeOK'
  <2>1. sources' \in ProjectVersions /\ outputs' \in Tables
    BY DEF SetInv, SetTypeOK
  <2>2. hashes' \in Tables /\ bundle' \in Tables
    BY VersionsAreTables DEF End
  <2>3. unit' \in 0 .. LastUnit + 1
    BY VersionsAssumption DEF End
  <2>4. cached' \in BOOLEAN /\ relinks' \in BOOLEAN /\ stage' = "idle"
    BY DEF End
  <2> QED
    BY <2>1, <2>2, <2>3, <2>4 DEF SetTypeOK
<1>2. PassedInv'
  BY DEF PassedInv, End, Units, PastWriting
<1> QED
  BY <1>1, <1>2 DEF SetInv, RecordInv, VersionInv, ManifestInv, CompleteIsOneBuild, End, Accepted

(* Between the builds, and beside them. *)
LEMMA OthersKeepInv ==
  ASSUME SetInv, Edit \/ Lose \/ Share
  PROVE  SetInv'
<1>1. CASE Edit
  BY <1>1 DEF Edit, SetInv, SetTypeOK, RecordInv, VersionInv, PassedInv, ManifestInv, CompleteIsOneBuild,
              outputVars, storeVars, buildVars, Accepted, PastWriting
<1>2. CASE Lose \/ Share
  <2>1. UNCHANGED <<sources, outputVars, stage, buildVars>>
    BY <1>2 DEF Lose, Share
  <2>2. RecordInv'
    BY <1>2 DEF Lose, Share, SetInv, RecordInv
  <2> QED
    BY <2>1, <2>2 DEF SetInv, SetTypeOK, VersionInv, PassedInv, ManifestInv, CompleteIsOneBuild,
                      outputVars, buildVars, Accepted, PastWriting
<1> QED
  BY <1>1, <1>2

(* Up to the moment when there is no manifest any more. *)
LEMMA BeginKeepsInv ==
  ASSUME SetInv, StartSet \/ TryProject \/ CompileSet \/ Invalidate
  PROVE  SetInv'
<1> USE DEF SetInv, SetTypeOK, RecordInv, VersionInv, PassedInv, ManifestInv, CompleteIsOneBuild,
            outputVars, storeVars, Accepted, PastWriting
<1>1. CASE StartSet
  <2>1. /\ stage = "idle" /\ stage' = "try" /\ version' = sources
        /\ UNCHANGED <<sources, outputs, linked, manifest, projectRecords, hashes, bundle, unit, cached, relinks>>
    BY <1>1 DEF StartSet
  <2>2. SetTypeOK' /\ PassedInv'
    BY <2>1, VersionsAssumption DEF Units
  <2>3. VersionInv' /\ RecordInv' /\ ManifestInv' /\ CompleteIsOneBuild'
    BY <2>1
  <2> QED
    BY <2>2, <2>3
<1>2. CASE TryProject
  <2>1. hashes' = version /\ version \in Listings
    BY <1>2 DEF TryProject
  <2>2. hashes' \in Tables
    BY <2>1, VersionsAreTables
  <2>3. /\ stage' = "invalidate" /\ relinks' = TRUE /\ ~cached' /\ unit' = 0 /\ stage = "try"
        /\ UNCHANGED <<sources, outputs, linked, manifest, projectRecords, version, bundle, cached>>
    BY <1>2 DEF TryProject
  <2>4. SetTypeOK'
    BY <2>2, <2>3, VersionsAssumption
  <2>5. PassedInv'
    BY <2>3 DEF Units
  <2>6. VersionInv' /\ RecordInv' /\ ManifestInv' /\ CompleteIsOneBuild'
    BY <2>1, <2>3
  <2> QED
    BY <2>4, <2>5, <2>6
<1>3. CASE CompileSet
  <2>1. version \in Listings /\ cached' \in BOOLEAN
    BY <1>3 DEF CompileSet, Listings
  <2> QED
    BY <1>3, <2>1 DEF CompileSet, Units
<1>4. CASE Invalidate
  BY <1>4, VersionsAreTables, VersionsAssumption DEF Invalidate, buildVars
<1> QED
  BY <1>1, <1>2, <1>3, <1>4

(* A unit is written: from the cache, or anew. *)
LEMMA WriteKeepsInv ==
  ASSUME SetInv, WriteObject
  PROVE  SetInv'
<1>1. /\ stage = "write" /\ unit \in Units /\ unit' = unit + 1
      /\ stage' = IF unit = LastUnit THEN "link" ELSE "write"
      /\ UNCHANGED <<sources, linked, manifest, projectRecords, version, cached, relinks>>
  BY DEF WriteObject, NextUnit, SetInv, PassedInv
<1>2. manifest = NoUnit /\ version \in Listings /\ (relinks => hashes = version /\ ~cached)
  BY <1>1 DEF SetInv, ManifestInv, VersionInv, Accepted
<1>3. version[unit] \in Contents /\ hashes \in Tables /\ bundle \in Tables /\ outputs \in Tables
  BY <1>1, <1>2, VersionsAreTables DEF SetInv, SetTypeOK, Tables
<1>4. /\ bundle' = [bundle EXCEPT ![unit] = version[unit]]
      /\ hashes' \in {hashes, [hashes EXCEPT ![unit] = version[unit]]}
      /\ cached => hashes' = [hashes EXCEPT ![unit] = version[unit]]
      /\ relinks => hashes' = version
      /\ outputs' = IF version[unit] = Empty THEN outputs ELSE [outputs EXCEPT ![unit] = version[unit]]
  <2>1. CASE WriteSaved
    <3>1. CASE relinks
      <4>1. hashes[unit] = version[unit] /\ [hashes EXCEPT ![unit] = version[unit]] = hashes
        BY <1>1, <1>2, <1>3, <3>1 DEF Tables
      <4> QED
        BY <1>2, <2>1, <3>1, <4>1 DEF WriteSaved
    <3>2. CASE ~relinks
      BY <2>1, <3>2 DEF WriteSaved
    <3> QED
      BY <3>1, <3>2
  <2>2. CASE WriteFresh
    <3>1. [hashes EXCEPT ![unit] = hashes[unit]] = hashes
      BY <1>1, <1>3 DEF Tables
    <3> QED
      BY <1>2, <2>2, <3>1 DEF WriteFresh
  <2> QED
    BY <2>1, <2>2 DEF WriteObject
<1>5. hashes' \in Tables /\ bundle' \in Tables /\ outputs' \in Tables
  BY <1>1, <1>3, <1>4 DEF Tables
<1>6. unit' \in 0 .. LastUnit + 1
  BY <1>1, VersionsAssumption DEF Units
<1>7. SetTypeOK'
  BY <1>1, <1>5, <1>6 DEF SetInv, SetTypeOK
<1>8. VersionInv' /\ RecordInv' /\ ManifestInv' /\ CompleteIsOneBuild'
  BY <1>1, <1>2, <1>4, VersionsAreTables DEF SetInv, VersionInv, RecordInv, ManifestInv, CompleteIsOneBuild, Accepted
<1>9. PassedInv'
  <2>1. (stage' = "write" => unit' \in Units) /\ (stage' \in PastWriting => unit' = LastUnit + 1)
    BY <1>1, VersionsAssumption DEF Units, PastWriting
  <2>2. ASSUME NEW u \in Units, u < unit'
        PROVE  /\ bundle'[u] = version'[u]
               /\ version'[u] # Empty => outputs'[u] = version'[u]
               /\ cached' => hashes'[u] = version'[u]
    <3>1. CASE u = unit
      BY <1>1, <1>3, <1>4, <3>1 DEF Tables
    <3>2. CASE u # unit
      <4>1. u < unit
        BY <1>1, <2>2, <3>2 DEF Units
      <4>2. bundle'[u] = bundle[u] /\ outputs'[u] = outputs[u] /\ hashes'[u] = hashes[u]
        BY <1>1, <1>3, <1>4, <3>2 DEF Tables
      <4> QED
        BY <1>1, <4>1, <4>2 DEF SetInv, PassedInv
    <3> QED
      BY <3>1, <3>2
  <2> QED
    BY <2>1, <2>2 DEF PassedInv
<1> QED
  BY <1>7, <1>8, <1>9 DEF SetInv, SetTypeOK

(* All units are written. *)
LEMMA FinishKeepsInv ==
  ASSUME SetInv, LinkSet \/ Finish \/ SaveProject
  PROVE  SetInv'
<1> USE DEF SetTypeOK, RecordInv, VersionInv, PassedInv, ManifestInv, CompleteIsOneBuild,
            outputVars, storeVars, Accepted, PastWriting
<1>1. CASE LinkSet
  <2>1. stage = "link" /\ bundle = version
    BY <1>1, AllPassed DEF LinkSet
  <2> QED
    BY <1>1, <2>1 DEF LinkSet, SetInv, buildVars
<1>2. CASE Finish
  <2>1. /\ stage = "finish" /\ bundle = version
        /\ \A u \in Units : version[u] # Empty => outputs[u] = version[u]
    BY <1>2, AllPassed DEF Finish
  <2> QED
    BY <1>2, <2>1 DEF Finish, SetInv, buildVars
<1>3. CASE SaveProject
  <2>1. (cached => hashes = version) /\ version \in Listings
    BY <1>3, AllPassed DEF SaveProject, SetInv
  <2>2. projectRecords' \subseteq {<<v, v>> : v \in Listings}
    BY <1>3, <2>1 DEF SaveProject, SetInv
  <2> QED
    BY <1>3, <2>2, EndKeeps DEF SaveProject, SetInv
<1> QED
  BY <1>1, <1>2, <1>3

(* A build fails, or is killed, at any step. *)
LEMMA FailsKeepsInv ==
  ASSUME SetInv, Fails
  PROVE  SetInv'
<1>1. outputs' \in Tables
  BY DEF Fails, SetInv, SetTypeOK, Tables, Contents
<1>2. ASSUME manifest' # NoUnit
      PROVE  manifest' = manifest /\ linked' = linked /\ outputs' = outputs
  BY <1>2 DEF Fails, SetInv, ManifestInv
<1>3. UNCHANGED <<sources, projectRecords>> /\ End
  BY DEF Fails, storeVars
<1> QED
  BY <1>1, <1>2, <1>3, EndKeeps DEF SetInv, SetTypeOK, RecordInv, CompleteIsOneBuild

THEOREM SetInvariant == SetSpec => []SetInv
<1>1. SetInit => SetInv
  <2> SUFFICES ASSUME SetInit PROVE SetInv
    OBVIOUS
  <2>1. SetTypeOK
    <3>1. sources \in ProjectVersions /\ outputs \in Tables /\ hashes \in Tables /\ bundle \in Tables
      BY VersionsAreTables DEF SetInit
    <3>2. unit \in 0 .. LastUnit + 1
      BY VersionsAssumption DEF SetInit
    <3>3. cached \in BOOLEAN /\ relinks \in BOOLEAN /\ stage = "idle"
      BY DEF SetInit
    <3> QED
      BY <3>1, <3>2, <3>3 DEF SetTypeOK
  <2>2. PassedInv
    BY VersionsAssumption DEF SetInit, PassedInv, Units, PastWriting
  <2> QED
    BY <2>1, <2>2 DEF SetInit, SetInv, RecordInv, VersionInv, ManifestInv, CompleteIsOneBuild, Accepted
<1>2. SetInv /\ [SetNext]_setVars => SetInv'
  <2> SUFFICES ASSUME SetInv, [SetNext]_setVars PROVE SetInv'
    OBVIOUS
  <2>1. CASE UNCHANGED setVars
    BY <2>1 DEF setVars, outputVars, storeVars, buildVars, SetInv, SetTypeOK, RecordInv, VersionInv,
                PassedInv, ManifestInv, CompleteIsOneBuild, Accepted, PastWriting
  <2> QED
    BY <2>1, OthersKeepInv, BeginKeepsInv, WriteKeepsInv, FinishKeepsInv, FailsKeepsInv DEF SetNext
<1> QED
  BY <1>1, <1>2, PTL DEF SetSpec

(* A COMPLETE manifest, the objects it lists and the executable are those  *)
(* of one accepted version of the sources, and a build that succeeds       *)
(* leaves the manifest of its own, for every number of units, every set of *)
(* versions, and modules and partitions alike.                             *)
THEOREM ManifestIsOneBuild == SetSpec => []CompleteIsOneBuild
<1>1. SetInv => CompleteIsOneBuild
  BY DEF SetInv
<1> QED
  BY <1>1, SetInvariant, PTL

-----------------------------------------------------------------------------
(***************************************************************************)
(* The library stays loaded under whoever calls into it, for every number  *)
(* of threads.                                                             *)
(***************************************************************************)

ResolverTypeOK ==
  /\ resolver \in {"unset", "found", "absent"}
  /\ references \in Nat
  /\ place \in [Threads -> {"start", "prepare", "publish", "close", "ready"}]
  /\ holds \in [Threads -> BOOLEAN]
  /\ looked \in [Threads -> {"unset", "found", "absent"}]
  /\ callee \in [Threads -> {"unset", "found", "absent"}]

\* The library counts the threads that hold a reference.
Holders == {t \in Threads : holds[t]}
CountInv == IsFiniteSet(Holders) /\ references = Cardinality(Holders)

\* What a thread has found and will call, at each of its places.
PlaceInv ==
  \A t \in Threads :
    /\ place[t] \in {"start", "prepare"} => ~holds[t]
    /\ place[t] \in {"start", "prepare", "publish"} => callee[t] = "unset"
    /\ place[t] = "publish" => looked[t] # "unset" /\ (looked[t] = "found" => holds[t])
    /\ place[t] \in {"close", "ready"} => resolver # "unset" /\ callee[t] = resolver

\* Who has published the function keeps its reference, and nobody else does.
Keeper(t) == place[t] = "ready" /\ holds[t]
KeeperInv ==
  /\ resolver = "found" => \E t \in Threads : Keeper(t)
  /\ \A t \in Threads : Keeper(t) => resolver = "found"
  /\ \A t, u \in Threads : Keeper(t) /\ Keeper(u) => t = u

ResolverInv == ResolverTypeOK /\ CountInv /\ PlaceInv /\ KeeperInv

(* A thread that looks at the word moves on and touches nothing else. *)
LEMMA ReadKeepsInv ==
  ASSUME ResolverInv, NEW t \in Threads, ReadResolver(t)
  PROVE  ResolverInv'
<1> USE DEF ResolverInv, ResolverTypeOK
<1>1. ResolverTypeOK'
  BY DEF ReadResolver, Moves
<1>2. CountInv'
  BY DEF ReadResolver, CountInv, Holders
<1>3. PlaceInv'
  BY DEF ReadResolver, Moves, PlaceInv
<1>4. \A u \in Threads : Keeper(u)' <=> Keeper(u)
  BY DEF ReadResolver, Moves, PlaceInv, Keeper
<1>5. KeeperInv'
  BY <1>4 DEF ReadResolver, KeeperInv
<1> QED
  BY <1>1, <1>2, <1>3, <1>5

(* A loaded library is one reference and one holder more. *)
LEMMA PrepareKeepsInv ==
  ASSUME ResolverInv, NEW t \in Threads, PrepareLibrary(t)
  PROVE  ResolverInv'
<1> USE DEF ResolverInv, ResolverTypeOK
<1>1. PICK loaded \in BOOLEAN :
        /\ references' = IF loaded THEN references + 1 ELSE references
        /\ holds' = [holds EXCEPT ![t] = loaded]
        /\ looked' \in {[looked EXCEPT ![t] = found] :
                        found \in IF loaded THEN {"found", "absent"} ELSE {"absent"}}
  BY DEF PrepareLibrary
<1>2. /\ place[t] = "prepare" /\ place' = [place EXCEPT ![t] = "publish"]
      /\ resolver' = resolver /\ callee' = callee
  BY DEF PrepareLibrary, Moves
<1>3. PICK found \in {"found", "absent"} :
        looked' = [looked EXCEPT ![t] = found] /\ (found = "found" => loaded)
  BY <1>1
<1>4. ~holds[t]
  BY <1>2 DEF PlaceInv
<1>5. ResolverTypeOK'
  <2>1. references' \in Nat
    BY <1>1
  <2>2. holds' \in [Threads -> BOOLEAN]
    BY <1>1, Zenon
  <2> QED
    BY <1>2, <1>3, <2>1, <2>2
<1>6. CountInv'
  <2>1. CASE loaded
    <3>1. Holders' = Holders \cup {t} /\ t \notin Holders
      BY <1>1, <1>4, <2>1 DEF Holders
    <3> QED
      BY <1>1, <2>1, <3>1, FS_AddElement DEF CountInv
  <2>2. CASE ~loaded
    <3>1. Holders' = Holders
      BY <1>1, <1>4, <2>2 DEF Holders
    <3> QED
      BY <1>1, <2>2, <3>1 DEF CountInv
  <2> QED
    BY <2>1, <2>2
<1>7. PlaceInv'
  BY <1>1, <1>2, <1>3 DEF PlaceInv
<1>8. \A u \in Threads : Keeper(u)' <=> Keeper(u)
  BY <1>1, <1>2 DEF Keeper
<1>9. KeeperInv'
  BY <1>2, <1>8 DEF KeeperInv
<1> QED
  BY <1>5, <1>6, <1>7, <1>9

(* The first to publish what it has found becomes the keeper. *)
LEMMA PublishKeepsInv ==
  ASSUME ResolverInv, NEW t \in Threads, PublishResolver(t)
  PROVE  ResolverInv'
<1> USE DEF ResolverInv, ResolverTypeOK
<1>1. /\ place[t] = "publish" /\ UNCHANGED <<references, holds, looked>>
      /\ looked[t] # "unset" /\ (looked[t] = "found" => holds[t])
  BY DEF PublishResolver, PlaceInv
<1>2. CountInv'
  BY <1>1 DEF CountInv, Holders
<1>3. CASE resolver = "unset"
  <2>1. /\ resolver' = looked[t] /\ callee' = [callee EXCEPT ![t] = looked[t]]
        /\ place' = [place EXCEPT ![t] = IF looked[t] = "found" THEN "ready" ELSE "close"]
    BY <1>3 DEF PublishResolver, Moves
  <2>2. \A u \in Threads : place[u] \notin {"close", "ready"}
    BY <1>3 DEF PlaceInv
  <2>3. ResolverTypeOK'
    BY <1>1, <2>1
  <2>4. PlaceInv'
    BY <1>1, <2>1, <2>2 DEF PlaceInv
  <2>5. \A u \in Threads : Keeper(u)' <=> u = t /\ looked[t] = "found"
    BY <1>1, <2>1, <2>2 DEF Keeper
  <2>6. KeeperInv'
    BY <2>1, <2>5 DEF KeeperInv
  <2> QED
    BY <1>2, <2>3, <2>4, <2>6
<1>4. CASE resolver # "unset"
  <2>1. /\ resolver' = resolver /\ callee' = [callee EXCEPT ![t] = resolver]
        /\ place' = [place EXCEPT ![t] = "close"]
    BY <1>4 DEF PublishResolver, Moves
  <2>2. ResolverTypeOK'
    BY <1>1, <2>1
  <2>3. PlaceInv'
    BY <1>1, <1>4, <2>1 DEF PlaceInv
  <2>4. \A u \in Threads : Keeper(u)' <=> Keeper(u)
    BY <1>1, <2>1 DEF Keeper
  <2>5. KeeperInv'
    BY <2>1, <2>4 DEF KeeperInv
  <2> QED
    BY <1>2, <2>2, <2>3, <2>5
<1> QED
  BY <1>3, <1>4

(* A loser gives its reference back, if it has one. *)
LEMMA CloseKeepsInv ==
  ASSUME ResolverInv, NEW t \in Threads, CloseLibrary(t)
  PROVE  ResolverInv'
<1> USE DEF ResolverInv, ResolverTypeOK
<1>1. /\ place[t] = "close" /\ place' = [place EXCEPT ![t] = "ready"]
      /\ references' = IF holds[t] THEN references - 1 ELSE references
      /\ holds' = [holds EXCEPT ![t] = FALSE]
      /\ UNCHANGED <<resolver, looked, callee>>
  BY DEF CloseLibrary, Moves
<1>2. CountInv' /\ references' \in Nat
  <2>1. CASE holds[t]
    <3>1. Holders' = Holders \ {t} /\ t \in Holders
      BY <1>1, <2>1 DEF Holders
    <3>2. IsFiniteSet(Holders') /\ Cardinality(Holders') = Cardinality(Holders) - 1
      BY <3>1, FS_RemoveElement DEF CountInv
    <3> QED
      BY <1>1, <2>1, <3>2, FS_CardinalityType DEF CountInv
  <2>2. CASE ~holds[t]
    <3>1. Holders' = Holders
      BY <1>1, <2>2 DEF Holders
    <3> QED
      BY <1>1, <2>2, <3>1 DEF CountInv
  <2> QED
    BY <2>1, <2>2
<1>3. holds' \in [Threads -> BOOLEAN]
  BY <1>1, Zenon
<1>4. ResolverTypeOK'
  BY <1>1, <1>2, <1>3
<1>5. PlaceInv'
  BY <1>1 DEF PlaceInv
<1>6. \A u \in Threads : Keeper(u)' <=> Keeper(u)
  BY <1>1 DEF Keeper
<1>7. KeeperInv'
  BY <1>1, <1>6 DEF KeeperInv
<1> QED
  BY <1>2, <1>4, <1>5, <1>7

(* The count of references and the keeper together are what is promised. *)
LEMMA InvKeepsLibrary == ResolverInv => LibraryStays
<1> SUFFICES ASSUME ResolverInv PROVE LibraryStays
  OBVIOUS
<1> USE DEF ResolverInv, ResolverTypeOK
<1>1. \A t \in Threads : callee[t] # "unset" => callee[t] = resolver
  BY DEF PlaceInv
<1>2. ASSUME resolver = "found" PROVE references > 0
  <2>1. Holders # {}
    BY <1>2 DEF KeeperInv, Keeper, Holders
  <2> QED
    BY <2>1, FS_EmptySet, FS_CardinalityType DEF CountInv
<1>3. ASSUME \A t \in Threads : place[t] \in {"start", "ready"}
      PROVE  references = IF resolver = "found" THEN 1 ELSE 0
  <2>1. \A t \in Threads : holds[t] <=> Keeper(t)
    BY <1>3 DEF PlaceInv, Keeper
  <2>2. CASE resolver = "found"
    <3>1. PICK t \in Threads : Keeper(t)
      BY <2>2 DEF KeeperInv
    <3>2. Holders = {t}
      BY <2>1, <3>1 DEF KeeperInv, Holders
    <3> QED
      BY <2>2, <3>2, FS_Singleton DEF CountInv
  <2>3. CASE resolver # "found"
    <3>1. Holders = {}
      BY <2>1, <2>3 DEF KeeperInv, Holders
    <3> QED
      BY <2>3, <3>1, FS_EmptySet DEF CountInv
  <2> QED
    BY <2>2, <2>3
<1> QED
  BY <1>1, <1>2, <1>3 DEF LibraryStays

(***************************************************************************)
(* However many threads look for the hash function at once, none calls     *)
(* into a library that is gone, all call the same function, and one        *)
(* reference is left at the end.                                           *)
(***************************************************************************)
THEOREM LibraryIsKept == ResolverSpec => []LibraryStays
<1>1. ResolverInit => ResolverInv
  <2> SUFFICES ASSUME ResolverInit PROVE ResolverInv
    OBVIOUS
  <2> USE DEF ResolverInit
  <2>1. Holders = {}
    BY DEF Holders
  <2>2. CountInv
    BY <2>1, FS_EmptySet DEF CountInv
  <2>3. ResolverTypeOK
    BY DEF ResolverTypeOK
  <2>4. PlaceInv /\ KeeperInv
    BY DEF PlaceInv, KeeperInv, Keeper
  <2> QED
    BY <2>2, <2>3, <2>4 DEF ResolverInv
<1>2. ResolverInv /\ [ResolverNext]_resolverVars => ResolverInv'
  <2> SUFFICES ASSUME ResolverInv, [ResolverNext]_resolverVars PROVE ResolverInv'
    OBVIOUS
  <2>1. CASE ResolverNext
    BY <2>1, ReadKeepsInv, PrepareKeepsInv, PublishKeepsInv, CloseKeepsInv
       DEF ResolverNext
  <2>2. CASE UNCHANGED resolverVars
    BY <2>2 DEF resolverVars, ResolverInv, ResolverTypeOK, CountInv, Holders,
       PlaceInv, KeeperInv, Keeper
  <2> QED
    BY <2>1, <2>2
<1> QED
  BY <1>1, <1>2, InvKeepsLibrary, PTL DEF ResolverSpec

(***************************************************************************)
(* The constants of a project, resolved in passes. Nothing is known of     *)
(* what an initialiser comes to but that it depends on the values of the   *)
(* names it holds; MCBootstrap evaluates these two conditions for the      *)
(* evaluator of the bootstrap compiler and the projects of its instance.   *)
(***************************************************************************)
Projects == \A p \in Programs : IsProject(p)

SteadyEvaluator ==
  \A p \in Programs : \A i \in DOMAIN p : \A known, more :
    AreKnown(known) /\ AreKnown(more) => IsSteady(p[i], known, more)

Names == {c.name : c \in Declared(constants)}

ResolutionTypes ==
  /\ constants \in Programs
  /\ pending \in Seq(Declared(constants)) /\ remaining \in Seq(Declared(constants))
  /\ progressed \in BOOLEAN
  /\ AreKnown(values) /\ DOMAIN values \subseteq Names

\* A constant without a value is still to be looked at.
NoneForgotten ==
  /\ outcome = "running" => Unresolved \subseteq Declared(pending) \union Declared(remaining)
  /\ outcome = "resolved" => Unresolved = {}

\* A value is what the initialiser comes to now, not only when it was found.
StillTheirs ==
  \A c \in Declared(constants) :
    c.name \in DOMAIN values => values[c.name] = Evaluated(c, values)

\* In a pass that has resolved nothing yet, those put off would be put off again.
PutOffAgain ==
  ~progressed => \A c \in Declared(remaining) : Evaluated(c, values).rule = "CONSTANT-NAME"

RefusalHolds ==
  /\ outcome = "cycle" =>
       /\ Unresolved # {}
       /\ \A c \in Unresolved : Evaluated(c, values).rule = "CONSTANT-NAME"
  /\ outcome \notin {"running", "resolved", "cycle"} =>
       /\ outcome \notin {"none", "CONSTANT-NAME"}
       /\ \E c \in Unresolved : Evaluated(c, values).rule = outcome

ResolutionInv ==
  ResolutionTypes /\ NoneForgotten /\ StillTheirs /\ PutOffAgain /\ RefusalHolds

\* What the evaluator promises of one declaration.
LEMMA SteadyDeclaration ==
  ASSUME SteadyEvaluator, NEW p \in Programs, NEW c \in Declared(p),
         NEW known, AreKnown(known)
  PROVE  LET v == Evaluated(c, known)
         IN /\ v.ok = (v.rule = "none")
            /\ v.rule \notin {"running", "resolved", "cycle"}
            /\ v.rule = "CONSTANT-NAME" => \E n \in Mentions(c.init) : n \notin DOMAIN known
            /\ \A more : v.rule # "CONSTANT-NAME" /\ AreKnown(more) /\ Extends(more, known)
                 => Evaluated(c, more) = v
<1>1. PICK i \in DOMAIN p : c = p[i]
  BY DEF Declared
<1>2. ASSUME NEW more, AreKnown(more)
      PROVE  IsSteady(c, known, more)
  BY <1>1, <1>2 DEF SteadyEvaluator
<1> HIDE DEF AreKnown
<1>3. /\ Evaluated(c, known).ok = (Evaluated(c, known).rule = "none")
      /\ Evaluated(c, known).rule \notin {"running", "resolved", "cycle"}
      /\ Evaluated(c, known).rule = "CONSTANT-NAME" =>
           \E n \in Mentions(c.init) : n \notin DOMAIN known
  BY <1>2 DEF IsSteady
<1>4. ASSUME NEW more, Evaluated(c, known).rule # "CONSTANT-NAME",
             AreKnown(more), Extends(more, known)
      PROVE  Evaluated(c, more) = Evaluated(c, known)
  BY <1>2, <1>4 DEF IsSteady
<1>5. QED
  BY <1>3, <1>4

\* A name has one declaration.
LEMMA OneDeclaration ==
  ASSUME Projects, NEW p \in Programs, NEW c \in Declared(p), NEW d \in Declared(p), c.name = d.name
  PROVE  c = d
BY DEF Projects, IsProject, Declared

LEMMA MembersOfSequence ==
  ASSUME NEW S, NEW s \in Seq(S)
  PROVE  /\ Declared(s) \subseteq S
         /\ s # <<>> => /\ Head(s) \in S /\ Tail(s) \in Seq(S)
                        /\ Declared(s) = {Head(s)} \union Declared(Tail(s))
         /\ \A e \in S : /\ Append(s, e) \in Seq(S)
                         /\ Declared(Append(s, e)) = Declared(s) \union {e}
<1>1. Declared(s) \subseteq S
  BY DEF Declared
<1>2. ASSUME s # <<>>
      PROVE  /\ Head(s) \in S /\ Tail(s) \in Seq(S)
             /\ Declared(s) = {Head(s)} \union Declared(Tail(s))
  <2>1. Len(s) >= 1 /\ Head(s) = s[1] /\ Tail(s) \in Seq(S) /\ Len(Tail(s)) = Len(s) - 1
    BY <1>2
  <2>2. \A i \in 1 .. Len(s) - 1 : Tail(s)[i] = s[i + 1]
    BY <1>2, <2>1
  <2>3. ASSUME NEW i \in 1 .. Len(s)
        PROVE  s[i] = s[1] \/ \E j \in 1 .. Len(s) - 1 : s[i] = Tail(s)[j]
    <3>1. CASE i = 1
      BY <3>1
    <3>2. CASE i # 1
      <4>1. i - 1 \in 1 .. Len(s) - 1 /\ s[i] = Tail(s)[i - 1]
        BY <2>1, <2>2, <3>2
      <4>2. QED
        BY <4>1
    <3>3. QED
      BY <3>1, <3>2
  <2>4. ASSUME NEW j \in 1 .. Len(s) - 1
        PROVE  j + 1 \in 1 .. Len(s) /\ Tail(s)[j] = s[j + 1]
    BY <2>1, <2>2
  <2>5. DOMAIN s = 1 .. Len(s) /\ DOMAIN Tail(s) = 1 .. Len(s) - 1
    BY <2>1
  <2>6. Declared(s) = {Head(s)} \union Declared(Tail(s))
    <3>1. ASSUME NEW e \in Declared(s)
          PROVE  e \in {Head(s)} \union Declared(Tail(s))
      <4>1. PICK i \in 1 .. Len(s) : e = s[i]
        BY <2>5, <3>1 DEF Declared
      <4>2. CASE e = s[1]
        BY <2>1, <4>2
      <4>3. CASE \E j \in 1 .. Len(s) - 1 : e = Tail(s)[j]
        BY <2>5, <4>3 DEF Declared
      <4>4. QED
        BY <2>3, <4>1, <4>2, <4>3
    <3>2. ASSUME NEW e \in Declared(Tail(s))
          PROVE  e \in Declared(s)
      BY <2>4, <2>5 DEF Declared
    <3>3. Head(s) \in Declared(s)
      BY <2>1, <2>5 DEF Declared
    <3>4. QED
      BY <3>1, <3>2, <3>3
  <2>7. QED
    BY <2>1, <2>6
<1>3. ASSUME NEW e \in S
      PROVE  /\ Append(s, e) \in Seq(S)
             /\ Declared(Append(s, e)) = Declared(s) \union {e}
  <2>1. /\ Append(s, e) \in Seq(S)
        /\ DOMAIN s = 1 .. Len(s) /\ DOMAIN Append(s, e) = 1 .. Len(s) + 1
        /\ \A i \in 1 .. Len(s) : Append(s, e)[i] = s[i]
        /\ Append(s, e)[Len(s) + 1] = e
    OBVIOUS
  <2>2. \A i \in 1 .. Len(s) + 1 : i \in 1 .. Len(s) \/ i = Len(s) + 1
    OBVIOUS
  <2>3. Len(s) + 1 \in 1 .. Len(s) + 1 /\ \A i \in 1 .. Len(s) : i \in 1 .. Len(s) + 1
    OBVIOUS
  <2>4. QED
    BY <2>1, <2>2, <2>3 DEF Declared
<1>4. QED
  BY <1>1, <1>2, <1>3

LEMMA ResolutionInit ==
  ASSUME Projects, ConstantInit PROVE ResolutionInv
<1>1. constants \in Programs /\ IsProject(constants) /\ constants \in Seq(Declared(constants))
  BY DEF ConstantInit, Projects, IsProject
<1>2. DOMAIN values = {} /\ values = [n \in DOMAIN values |-> values[n]]
  BY DEF ConstantInit
<1>3. Declared(remaining) = {} /\ Declared(pending) = Declared(constants)
  BY DEF ConstantInit, Declared
<1>4. ResolutionTypes
  <2>1. <<>> \in Seq(Declared(constants))
    OBVIOUS
  <2>2. QED
    BY <1>1, <1>2, <2>1 DEF ConstantInit, ResolutionTypes, AreKnown
<1>5. NoneForgotten /\ StillTheirs
  BY <1>2, <1>3 DEF ConstantInit, NoneForgotten, StillTheirs, Unresolved
<1>6. PutOffAgain /\ RefusalHolds
  BY <1>3 DEF ConstantInit, PutOffAgain, RefusalHolds
<1>7. QED
  BY <1>4, <1>5, <1>6 DEF ResolutionInv

\* The values after a step are those before it, and perhaps one more.
LEMMA ResolvingExtends ==
  ASSUME Projects, SteadyEvaluator, ResolutionInv, ResolveNext
  PROVE  /\ AreKnown(values') /\ Extends(values', values)
         /\ Head(pending) \in Declared(constants)
         /\ LET v == Evaluated(Head(pending), values)
            IN /\ v.ok => /\ DOMAIN values' = DOMAIN values \union {Head(pending).name}
                          /\ values'[Head(pending).name] = v
               /\ ~v.ok => values' = values
<1> DEFINE c == Head(pending)
<1> DEFINE v == Evaluated(c, values)
<1>1. c \in Declared(constants)
  BY MembersOfSequence DEF ResolutionInv, ResolutionTypes, ResolveNext
<1>2. v.ok = (v.rule = "none")
  BY <1>1, SteadyDeclaration DEF ResolutionInv, ResolutionTypes
<1>3. CASE ~v.ok
  <2>1. values' = values
    BY <1>3 DEF ResolveNext
  <2>2. QED
    BY <1>1, <1>3, <2>1 DEF ResolutionInv, ResolutionTypes, Extends
<1>4. CASE v.ok
  <2>1. values' = [n \in DOMAIN values \union {c.name} |-> IF n = c.name THEN v ELSE values[n]]
    BY <1>4 DEF ResolveNext, Defined
  <2>2. c.name \in DOMAIN values => values[c.name] = v
    BY <1>1 DEF ResolutionInv, StillTheirs
  <2> HIDE DEF v
  <2>3. DOMAIN values' = DOMAIN values \union {c.name} /\ values'[c.name] = v
    BY <2>1
  <2>4. \A n \in DOMAIN values : values'[n] = values[n]
    BY <2>1, <2>2
  <2>5. v.ok = TRUE /\ v.rule = "none"
    BY <1>2, <1>4
  <2>6. AreKnown(values')
    <3>1. values' = [n \in DOMAIN values' |-> values'[n]]
      BY <2>1
    <3>2. \A n \in DOMAIN values' : values'[n].ok = TRUE /\ values'[n].rule = "none"
      BY <2>3, <2>4, <2>5 DEF ResolutionInv, ResolutionTypes, AreKnown
    <3>3. QED
      BY <3>1, <3>2 DEF AreKnown
  <2>7. QED
    BY <1>1, <1>4, <2>3, <2>4, <2>6 DEF Extends, v
<1>5. QED
  BY <1>2, <1>3, <1>4

LEMMA ResolvingKeeps ==
  ASSUME Projects, SteadyEvaluator, ResolutionInv, ResolveNext
  PROVE  ResolutionInv'
<1> DEFINE c == Head(pending)
<1> DEFINE v == Evaluated(c, values)
<1>1. /\ AreKnown(values) /\ AreKnown(values') /\ Extends(values', values)
      /\ c \in Declared(constants)
      /\ v.ok => DOMAIN values' = DOMAIN values \union {c.name} /\ values'[c.name] = v
      /\ ~v.ok => values' = values
  BY ResolvingExtends DEF ResolutionInv, ResolutionTypes
<1>2. /\ v.ok = (v.rule = "none")
      /\ v.rule \notin {"running", "resolved", "cycle"}
  BY <1>1, SteadyDeclaration DEF ResolutionInv, ResolutionTypes
<1>3. ASSUME NEW d \in Declared(constants), Evaluated(d, values).rule # "CONSTANT-NAME"
      PROVE  Evaluated(d, values') = Evaluated(d, values)
  BY <1>1, <1>3, SteadyDeclaration DEF ResolutionInv, ResolutionTypes
<1>4. /\ constants' = constants /\ constants \in Programs
      /\ Declared(constants') = Declared(constants)
      /\ pending' = Tail(pending) /\ pending' \in Seq(Declared(constants))
      /\ Declared(pending) = {c} \union Declared(pending')
      /\ remaining' \in Seq(Declared(constants))
      /\ Declared(remaining') = Declared(remaining)
           \union (IF v.rule = "CONSTANT-NAME" THEN {c} ELSE {})
  <2>1. /\ pending # <<>> /\ constants' = constants /\ pending' = Tail(pending)
        /\ remaining' = IF v.rule = "CONSTANT-NAME" THEN Append(remaining, c) ELSE remaining
    BY DEF ResolveNext
  <2>2. /\ constants \in Programs
        /\ pending \in Seq(Declared(constants)) /\ remaining \in Seq(Declared(constants))
    BY DEF ResolutionInv, ResolutionTypes
  <2>3. Tail(pending) \in Seq(Declared(constants)) /\ Declared(pending) = {c} \union Declared(Tail(pending))
    BY <2>1, <2>2, MembersOfSequence
  <2>4. /\ Append(remaining, c) \in Seq(Declared(constants))
        /\ Declared(Append(remaining, c)) = Declared(remaining) \union {c}
    BY <1>1, <2>2, MembersOfSequence
  <2>5. QED
    BY <2>1, <2>2, <2>3, <2>4
<1>5. progressed' = (progressed \/ v.ok) /\ progressed \in BOOLEAN /\ outcome = "running"
  BY DEF ResolveNext, ResolutionInv, ResolutionTypes
<1>6. outcome' = IF v.rule \in {"none", "CONSTANT-NAME"} THEN outcome ELSE v.rule
  BY DEF ResolveNext
<1>7. Unresolved \subseteq Declared(pending) \union Declared(remaining)
  BY <1>5 DEF ResolutionInv, NoneForgotten
<1> HIDE DEF c, v
<1>8. ResolutionTypes'
  <2>1. c.name \in Names
    BY <1>1 DEF Names
  <2>2. DOMAIN values' \subseteq Names
    BY <1>1, <1>2, <2>1 DEF ResolutionInv, ResolutionTypes
  <2>3. Names' = Names
    BY <1>4 DEF Names
  <2>4. QED
    BY <1>1, <1>2, <1>4, <1>5, <2>2, <2>3 DEF ResolutionTypes
<1>9. NoneForgotten'
  <2>1. ASSUME outcome' = "running", NEW d \in Declared(constants), d.name \notin DOMAIN values'
        PROVE  d \in Declared(pending') \union Declared(remaining')
    <3>1. d \in Unresolved
      BY <1>1, <2>1 DEF Unresolved, Extends
    <3>2. CASE d = c
      <4>1. ~v.ok
        BY <1>1, <2>1, <3>2
      <4>2. v.rule = "CONSTANT-NAME"
        BY <1>2, <1>6, <2>1, <4>1
      <4>3. QED
        BY <1>4, <3>2, <4>2
    <3>3. CASE d # c
      BY <1>4, <1>7, <3>1, <3>3
    <3>4. QED
      BY <3>2, <3>3
  <2>2. outcome' # "resolved"
    BY <1>2, <1>5, <1>6
  <2>3. QED
    BY <1>4, <2>1, <2>2 DEF NoneForgotten, Unresolved
<1>10. StillTheirs'
  <2>1. ASSUME NEW d \in Declared(constants), d.name \in DOMAIN values'
        PROVE  values'[d.name] = Evaluated(d, values')
    <3>1. CASE d.name \in DOMAIN values
      <4>1. values[d.name] = Evaluated(d, values)
        BY <3>1 DEF ResolutionInv, StillTheirs
      <4>2. values[d.name].rule = "none"
        BY <1>1, <3>1 DEF AreKnown
      <4>3. Evaluated(d, values') = Evaluated(d, values)
        BY <1>3, <4>1, <4>2
      <4>4. values'[d.name] = values[d.name]
        BY <1>1, <3>1 DEF Extends
      <4>5. QED
        BY <4>1, <4>3, <4>4
    <3>2. CASE d.name \notin DOMAIN values
      <4>1. v.ok /\ d.name = c.name
        BY <1>1, <1>2, <2>1, <3>2
      <4>2. d = c
        BY <1>1, <1>4, <4>1, OneDeclaration
      <4>3. v = Evaluated(d, values) /\ v.rule = "none"
        BY <1>2, <4>1, <4>2 DEF v
      <4>4. Evaluated(d, values') = v
        BY <1>3, <4>3
      <4>5. QED
        BY <1>1, <4>1, <4>2, <4>4
    <3>3. QED
      BY <3>1, <3>2
  <2>2. QED
    BY <1>4, <2>1 DEF StillTheirs
<1>11. PutOffAgain'
  <2>1. ASSUME ~progressed', NEW d \in Declared(remaining')
        PROVE  Evaluated(d, values').rule = "CONSTANT-NAME"
    <3>1. ~progressed /\ ~v.ok /\ values' = values
      BY <1>1, <1>2, <1>5, <2>1
    <3>2. CASE d \in Declared(remaining)
      BY <3>1, <3>2 DEF ResolutionInv, PutOffAgain
    <3>3. CASE d \notin Declared(remaining)
      <4>1. d = c /\ v.rule = "CONSTANT-NAME"
        BY <1>4, <2>1, <3>3
      <4>2. QED
        BY <3>1, <4>1 DEF v
    <3>4. QED
      BY <3>2, <3>3
  <2>2. QED
    BY <2>1 DEF PutOffAgain
<1>12. RefusalHolds'
  <2>1. outcome' # "cycle"
    BY <1>2, <1>5, <1>6
  <2>2. ASSUME outcome' # "running"
        PROVE  outcome' \notin {"none", "CONSTANT-NAME"} /\ c \in Unresolved' /\ Evaluated(c, values').rule = outcome'
    <3>1. v.rule \notin {"none", "CONSTANT-NAME"} /\ outcome' = v.rule
      BY <1>5, <1>6, <2>2
    <3>2. ~v.ok /\ values' = values
      BY <1>1, <1>2, <3>1
    <3>3. c.name \notin DOMAIN values
      <4>1. SUFFICES ASSUME c.name \in DOMAIN values PROVE FALSE
        OBVIOUS
      <4>2. values[c.name] = v
        BY <1>1, <4>1 DEF ResolutionInv, StillTheirs, v
      <4>3. values[c.name].rule = "none"
        BY <1>1, <4>1 DEF AreKnown
      <4>4. QED
        BY <3>1, <4>2, <4>3
    <3>4. c \in Unresolved'
      BY <1>1, <1>4, <3>2, <3>3 DEF Unresolved
    <3>5. QED
      BY <3>1, <3>2, <3>4 DEF v
  <2>3. QED
    BY <2>1, <2>2 DEF RefusalHolds
<1>13. QED
  BY <1>8, <1>9, <1>10, <1>11, <1>12 DEF ResolutionInv

LEMMA NextPassKeeps ==
  ASSUME Projects, SteadyEvaluator, ResolutionInv, NextPass
  PROVE  ResolutionInv'
<1>1. /\ outcome = "running" /\ pending = <<>>
      /\ pending' = remaining /\ remaining' = <<>> /\ progressed' = FALSE
      /\ constants' = constants /\ values' = values
      /\ Declared(constants') = Declared(constants)
  BY DEF NextPass
<1>2. Declared(pending) = {} /\ Declared(remaining') = {} /\ Declared(pending') = Declared(remaining)
  BY <1>1 DEF Declared
<1>3. Unresolved \subseteq Declared(remaining) /\ Unresolved' = Unresolved
  BY <1>1, <1>2 DEF ResolutionInv, NoneForgotten, Unresolved
<1>4. outcome' \in {"running", "resolved", "cycle"}
  BY <1>1 DEF NextPass
<1>5. outcome' = "resolved" => remaining = <<>>
  BY <1>1 DEF NextPass
<1>6. outcome' = "cycle" => remaining # <<>> /\ ~progressed
  BY <1>1 DEF NextPass
<1>7. ResolutionTypes'
  <2>1. Names' = Names
    BY <1>1 DEF Names
  <2>2. <<>> \in Seq(Declared(constants))
    OBVIOUS
  <2>3. QED
    BY <1>1, <2>1, <2>2 DEF ResolutionInv, ResolutionTypes
<1>8. NoneForgotten'
  <2>1. remaining = <<>> => Declared(remaining) = {}
    BY DEF Declared
  <2>2. QED
    BY <1>2, <1>3, <1>5, <2>1 DEF NoneForgotten
<1>9. StillTheirs'
  BY <1>1 DEF ResolutionInv, StillTheirs
<1>10. PutOffAgain'
  BY <1>2 DEF PutOffAgain
<1>11. RefusalHolds'
  <2>1. ASSUME outcome' = "cycle"
        PROVE  /\ Unresolved # {}
               /\ \A c \in Unresolved : Evaluated(c, values).rule = "CONSTANT-NAME"
    <3>1. remaining # <<>> /\ \A c \in Declared(remaining) : Evaluated(c, values).rule = "CONSTANT-NAME"
      BY <1>6, <2>1 DEF ResolutionInv, PutOffAgain
    <3>2. Head(remaining) \in Declared(constants) /\ Head(remaining) \in Declared(remaining)
      BY <3>1, MembersOfSequence DEF ResolutionInv, ResolutionTypes
    <3>3. Head(remaining) \in Unresolved
      <4>1. SUFFICES ASSUME Head(remaining).name \in DOMAIN values PROVE FALSE
        BY <3>2 DEF Unresolved
      <4>2. values[Head(remaining).name] = Evaluated(Head(remaining), values)
        BY <3>2, <4>1 DEF ResolutionInv, StillTheirs
      <4>3. values[Head(remaining).name].rule = "none"
        BY <4>1 DEF ResolutionInv, ResolutionTypes, AreKnown
      <4>4. QED
        BY <3>1, <3>2, <4>2, <4>3
    <3>4. QED
      BY <1>3, <3>1, <3>3
  <2>2. QED
    BY <1>1, <1>3, <1>4, <2>1 DEF RefusalHolds
<1>12. QED
  BY <1>7, <1>8, <1>9, <1>10, <1>11 DEF ResolutionInv

LEMMA ResolutionInductive ==
  ASSUME Projects, SteadyEvaluator
  PROVE  ConstantSpec => []ResolutionInv
<1>1. ConstantInit => ResolutionInv
  BY ResolutionInit
<1>2. ResolutionInv /\ [ConstantNext]_constantVars => ResolutionInv'
  <2>1. SUFFICES ASSUME ResolutionInv, [ConstantNext]_constantVars PROVE ResolutionInv'
    OBVIOUS
  <2>2. CASE ResolveNext
    BY <2>1, <2>2, ResolvingKeeps
  <2>3. CASE NextPass
    BY <2>1, <2>3, NextPassKeeps
  <2>4. CASE UNCHANGED constantVars
    BY <2>1, <2>4 DEF constantVars, ResolutionInv, ResolutionTypes, NoneForgotten, StillTheirs,
       PutOffAgain, RefusalHolds, Unresolved, Names
  <2>5. QED
    BY <2>1, <2>2, <2>3, <2>4 DEF ConstantNext
<1>3. QED
  BY <1>1, <1>2, PTL DEF ConstantSpec

(***************************************************************************)
(* However many constants a project has and in whatever order they are     *)
(* declared: the values resolve_constants leaves are those of the          *)
(* initialisers under all of the values together, no constant is without   *)
(* one when it ends well, and a refusal names a fault that is one at the   *)
(* end (a cycle: each constant that is left needs another that is left).   *)
(***************************************************************************)
THEOREM ConstantsAgree ==
  ASSUME Projects, SteadyEvaluator
  PROVE  ConstantSpec => []ResolvedTogether
<1>1. ResolutionInv => ResolvedTogether
  <2>1. SUFFICES ASSUME ResolutionInv PROVE ResolvedTogether
    OBVIOUS
  <2>2. constants \in Programs /\ AreKnown(values)
    BY <2>1 DEF ResolutionInv, ResolutionTypes
  <2>3. ASSUME NEW c \in Declared(constants) \ Unresolved
        PROVE  Evaluated(c, values).ok /\ values[c.name] = Evaluated(c, values)
    <3>1. c.name \in DOMAIN values
      BY <2>3 DEF Unresolved
    <3>2. values[c.name] = Evaluated(c, values) /\ values[c.name].ok
      BY <2>1, <2>2, <3>1 DEF ResolutionInv, StillTheirs, AreKnown
    <3>3. QED
      BY <3>2
  <2>4. ASSUME outcome = "cycle", NEW c \in Unresolved
        PROVE  \E d \in Unresolved : d.name \in Mentions(c.init)
    <3>1. c \in Declared(constants) /\ Evaluated(c, values).rule = "CONSTANT-NAME"
      BY <2>1, <2>4 DEF ResolutionInv, RefusalHolds, Unresolved
    <3>2. PICK n \in Mentions(c.init) : n \notin DOMAIN values
      BY <2>2, <3>1, SteadyDeclaration
    <3>3. \E d \in Declared(constants) : d.name = n
      <4>1. PICK i \in DOMAIN constants : c = constants[i]
        BY <3>1 DEF Declared
      <4>2. Mentions(c.init) \subseteq {d.name : d \in Declared(constants)}
        BY <2>2, <4>1 DEF Projects, IsProject
      <4>3. QED
        BY <3>2, <4>2
    <3>4. QED
      BY <3>2, <3>3 DEF Unresolved
  <2>5. QED
    BY <2>1, <2>3, <2>4 DEF ResolvedTogether, ResolutionInv, NoneForgotten, RefusalHolds
<1>2. QED
  BY <1>1, ResolutionInductive, PTL

\* Values for all of the constants that are those of the initialisers.
IsSolution(f) ==
  /\ AreKnown(f) /\ DOMAIN f = Names
  /\ \A c \in Declared(constants) : f[c.name] = Evaluated(c, f)

OnlySolution ==
  /\ outcome = "resolved" => IsSolution(values) /\ \A f : IsSolution(f) => f = values
  /\ outcome \notin {"running", "resolved", "cycle"} => ~\E f : IsSolution(f)

\* What has been found so far is part of any solution.
PartOfAll == \A f : IsSolution(f) => Extends(f, values)

LEMMA ResolvingStaysPart ==
  ASSUME Projects, SteadyEvaluator, ResolutionInv, PartOfAll, ResolveNext
  PROVE  PartOfAll'
<1> DEFINE c == Head(pending)
<1> DEFINE v == Evaluated(c, values)
<1>1. /\ Extends(values', values) /\ c \in Declared(constants)
      /\ v.ok => DOMAIN values' = DOMAIN values \union {c.name} /\ values'[c.name] = v
      /\ ~v.ok => values' = values
  BY ResolvingExtends
<1>2. constants' = constants /\ constants \in Programs /\ AreKnown(values)
  BY DEF ResolveNext, ResolutionInv, ResolutionTypes
<1>3. v.ok = (v.rule = "none")
  BY <1>1, <1>2, SteadyDeclaration
<1>4. ASSUME NEW f, IsSolution(f)
      PROVE  Extends(f, values')
  <2>1. AreKnown(f) /\ Extends(f, values) /\ c.name \in DOMAIN f /\ f[c.name] = Evaluated(c, f)
    BY <1>1, <1>4 DEF PartOfAll, IsSolution, Names
  <2>2. CASE ~v.ok
    BY <1>1, <2>1, <2>2
  <2>3. CASE v.ok
    <3>1. v.rule = "none" /\ Evaluated(c, f) = v
      BY <1>1, <1>2, <1>3, <2>1, <2>3, SteadyDeclaration
    <3> HIDE DEF v, c
    <3>2. QED
      BY <1>1, <2>1, <2>3, <3>1 DEF Extends
  <2>4. QED
    BY <1>3, <2>2, <2>3
<1>5. \A f : IsSolution(f)' => IsSolution(f)
  BY <1>2 DEF IsSolution, Names
<1>6. QED
  BY <1>4, <1>5 DEF PartOfAll

(***************************************************************************)
(* What the constants of a project mean does not depend on the order in    *)
(* which they are declared or resolved: when resolve_constants ends well,  *)
(* its values are the only ones that agree with every initialiser, and     *)
(* when it reports a fault other than a cycle there are none.              *)
(***************************************************************************)
THEOREM ConstantsHaveOneMeaning ==
  ASSUME Projects, SteadyEvaluator
  PROVE  ConstantSpec => []OnlySolution
<1>1. ConstantInit => PartOfAll
  BY DEF ConstantInit, PartOfAll, Extends
<1>2. ResolutionInv /\ PartOfAll /\ [ConstantNext]_constantVars => PartOfAll'
  <2>1. SUFFICES ASSUME ResolutionInv, PartOfAll, [ConstantNext]_constantVars PROVE PartOfAll'
    OBVIOUS
  <2>2. CASE ResolveNext
    BY <2>1, <2>2, ResolvingStaysPart
  <2>3. CASE constants' = constants /\ values' = values
    BY <2>1, <2>3 DEF PartOfAll, IsSolution, Names
  <2>4. QED
    BY <2>1, <2>2, <2>3 DEF ConstantNext, NextPass, constantVars
<1>3. ResolutionInv /\ PartOfAll => OnlySolution
  <2>1. SUFFICES ASSUME ResolutionInv, PartOfAll PROVE OnlySolution
    OBVIOUS
  <2>2. constants \in Programs /\ AreKnown(values) /\ DOMAIN values \subseteq Names
    BY <2>1 DEF ResolutionInv, ResolutionTypes
  <2>3. ASSUME outcome = "resolved"
        PROVE  IsSolution(values)
    <3>1. \A c \in Declared(constants) : c.name \in DOMAIN values
      BY <2>1, <2>3 DEF ResolutionInv, NoneForgotten, Unresolved
    <3>2. QED
      BY <2>1, <2>2, <3>1 DEF IsSolution, Names, ResolutionInv, StillTheirs
  <2>4. ASSUME outcome = "resolved", NEW f, IsSolution(f)
        PROVE  f = values
    <3>1. DOMAIN f = DOMAIN values /\ \A n \in DOMAIN values : f[n] = values[n]
      BY <2>1, <2>3, <2>4 DEF PartOfAll, Extends, IsSolution
    <3>2. f = [n \in DOMAIN f |-> f[n]] /\ values = [n \in DOMAIN values |-> values[n]]
      BY <2>2, <2>4 DEF IsSolution, AreKnown
    <3>3. QED
      BY <3>1, <3>2
  <2>5. ASSUME outcome \notin {"running", "resolved", "cycle"}, NEW f, IsSolution(f)
        PROVE  FALSE
    <3>1. PICK c \in Declared(constants) : Evaluated(c, values).rule = outcome /\ c.name \notin DOMAIN values
      BY <2>1, <2>5 DEF ResolutionInv, RefusalHolds, Unresolved
    <3>2. outcome \notin {"none", "CONSTANT-NAME"}
      BY <2>1, <2>5 DEF ResolutionInv, RefusalHolds
    <3>3. Evaluated(c, f) = Evaluated(c, values)
      BY <2>1, <2>2, <2>5, <3>1, <3>2, SteadyDeclaration DEF PartOfAll, IsSolution
    <3>4. f[c.name].rule = "none" /\ f[c.name] = Evaluated(c, f)
      BY <2>5 DEF IsSolution, AreKnown, Names
    <3>5. QED
      BY <3>1, <3>2, <3>3, <3>4
  <2>6. QED
    BY <2>3, <2>4, <2>5 DEF OnlySolution
<1>4. QED
  BY <1>1, <1>2, <1>3, ResolutionInductive, PTL DEF ConstantSpec
===============================================================================
