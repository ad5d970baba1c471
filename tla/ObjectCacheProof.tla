--------------------------- MODULE ObjectCacheProof ---------------------------
(***************************************************************************)
(* Builds that share a cache build what they would build alone: proofs     *)
(* about ObjectCache for any number of builders and of source groups, and  *)
(* any versions of the sources.                                            *)
(*                                                                         *)
(* The argument: a key determines the code and the verdict of its group    *)
(* (KeyDetermines); every intact slot of the bundle, and of any snapshot   *)
(* of it, is genuine; so what a build does not check or compile itself is  *)
(* what it would have accepted and compiled.                               *)
(***************************************************************************)
EXTENDS ObjectCache, TLAPS

USE ProjectsAssumption

\* Where a build has not yet looked at the bundle.
Early == {"idle", "open", "probe", "prepare"}

\* What holds of each build.
BuildInv(b) ==
  /\ Genuine(saved[b])
  /\ pc[b] # "idle" => outcome[b] = "building" /\ read[b] \in Projects
  /\ pc[b] \in Early => hits[b] = {} /\ saved[b] = None /\ ~retried[b]
  /\ pc[b] = "prepare" => cache[b] = "warm"
  /\ cache[b] # "warm" => hits[b] = {}
  /\ \A p \in hits[b] : Accepts(read[b], p)
  /\ pc[b] \in {"compile", "merge"} /\ saved[b] # None => Reusable(b, saved[b])
  /\ pc[b] = "write" => Reusable(b, saved[b])
  /\ pc[b] \in {"merge", "write", "frontend"} => Acceptable(read[b])
  /\ pc[b] \in {"write", "frontend"} => image[b] \in {None, Clean(read[b])}
  /\ pc[b] \notin {"idle", "write", "frontend"} => image[b] = None
  /\ pc[b] = "frontend" => image[b] # None
  /\ pc[b] = "merge" => cache[b] # "off"
  /\ retried[b] => cache[b] = "off" /\ pc[b] \in {"compile", "write"}

CacheInv ==
  /\ TypeOK
  /\ Genuine(bundle)
  /\ \A b \in Builders : BuildInv(b)
-------------------------------------------------------------------------------
\* The key of a group determines its code and the verdict of its checks.
LEMMA KeyDetermines ==
  ASSUME NEW S \in Projects, NEW T \in Projects, NEW p \in Partition,
         Key(S, p) = Key(T, p)
  PROVE  Compile(S, p) = Compile(T, p) /\ (Accepts(S, p) <=> Accepts(T, p))
<1>1. /\ Declarations(S) = Declarations(T) /\ FunctionNumbers(S) = FunctionNumbers(T)
      /\ HasPointerSymbol(S) = HasPointerSymbol(T) /\ S[p] = T[p]
  BY DEF Key
<1>2. \A q \in Partition : S[q].decl = T[q].decl
  <2> SUFFICES ASSUME NEW q \in Partition PROVE S[q].decl = T[q].decl
    OBVIOUS
  <2>1. Declarations(S)[q] = Declarations(T)[q]
    BY <1>1
  <2> QED
    BY <2>1 DEF Declarations
<1>3. Compile(S, p) = Compile(T, p)
  BY <1>1 DEF Compile
<1>4. Accepts(S, p) <=> Accepts(T, p)
  BY <1>1, <1>2 DEF Accepts
<1> QED
  BY <1>3, <1>4

\* What a build saves for a group is of the right type, and genuine.
LEMMA SlotIsGenuine ==
  ASSUME NEW S \in Projects, NEW p \in Partition
  PROVE  /\ Compile(S, p) \in Objects
         /\ Slot(S, p) \in [key : Keys, object : Objects, intact : BOOLEAN]
         /\ Slot(S, p).key = Key(S, p) /\ Slot(S, p).intact
<1>1. Key(S, p) \in Keys
  BY DEF Keys
<1>2. Compile(S, p) \in Objects
  BY DEF Objects
<1> QED
  BY <1>1, <1>2 DEF Slot

\* A group that is hit was accepted, and its saved object is its code.
LEMMA AuthenticIsRight ==
  ASSUME NEW snapshot, Genuine(snapshot), NEW S \in Projects,
         NEW p \in Partition, Authentic(snapshot, S, p)
  PROVE  Accepts(S, p) /\ snapshot[p].object = Compile(S, p)
<1>1. PICK T \in Projects : snapshot[p] = Slot(T, p) /\ Accepts(T, p)
  BY DEF Genuine, Authentic
<1>2. Key(T, p) = Key(S, p) /\ snapshot[p].object = Compile(T, p)
  BY <1>1 DEF Slot, Authentic
<1> QED
  BY <1>1, <1>2, KeyDetermines

\* The invariant of a build looks at that build's own state only.
LEMMA OtherBuilds ==
  ASSUME NEW c, BuildInv(c),
         pc'[c] = pc[c], cache'[c] = cache[c], hits'[c] = hits[c],
         saved'[c] = saved[c], retried'[c] = retried[c],
         read'[c] = read[c], image'[c] = image[c], outcome'[c] = outcome[c]
  PROVE  BuildInv(c)'
BY DEF BuildInv, Reusable, Authentic, Genuine

\* A build that ends keeps no promise.
LEMMA EndInv ==
  ASSUME TypeOK, NEW b \in Builders, NEW exit, End(b, exit)
  PROVE  BuildInv(b)'
<1>1. /\ pc'[b] = "idle" /\ cache'[b] = "off" /\ hits'[b] = {}
      /\ saved'[b] = None /\ retried'[b] = FALSE
  BY DEF End, Goto, TypeOK
<1> QED
  BY <1>1 DEF BuildInv, Genuine, Early

LEMMA EndType ==
  ASSUME TypeOK, NEW b \in Builders, End(b, "built") \/ End(b, "rejected") \/ End(b, "failed"),
         read' = read, image' \in [Builders -> [Partition -> Objects] \cup {None}],
         bundle' = bundle, frontend' \in BOOLEAN
  PROVE  TypeOK'
BY ZenonT(30) DEF TypeOK, End, Goto

-------------------------------------------------------------------------------
\* Nothing is cached and no build has started.
LEMMA CacheInit == Init => CacheInv
<1> SUFFICES ASSUME Init PROVE CacheInv
  OBVIOUS
<1>1. TypeOK
  BY DEF Init, CleanInit, TypeOK
<1>2. Genuine(bundle)
  BY DEF Init, Genuine
<1>3. ASSUME NEW b \in Builders PROVE BuildInv(b)
  <2>1. /\ pc[b] = "idle" /\ cache[b] = "off" /\ hits[b] = {}
        /\ saved[b] = None /\ retried[b] = FALSE
    BY DEF Init
  <2> QED
    BY <2>1 DEF BuildInv, Genuine, Early
<1> QED
  BY <1>1, <1>2, <1>3 DEF CacheInv

LEMMA StartStep ==
  ASSUME CacheInv, NEW b \in Builders, Start(b)
  PROVE  CacheInv'
<1> USE DEF Start, CleanRead, Goto, files, local
<1>1. TypeOK'
  BY DEF CacheInv, TypeOK
<1>2. BuildInv(b)'
  BY DEF CacheInv, TypeOK, BuildInv, Early, Genuine
<1>3. ASSUME NEW c \in Builders, c # b PROVE BuildInv(c)'
  BY <1>3, OtherBuilds DEF CacheInv, TypeOK
<1> QED
  BY <1>1, <1>2, <1>3 DEF CacheInv, Genuine

LEMMA OpenFrontendStep ==
  ASSUME CacheInv, NEW b \in Builders, OpenFrontend(b)
  PROVE  CacheInv'
<1> USE DEF OpenFrontend, Goto, files, cleanVars
<1>1. TypeOK'
  BY DEF CacheInv, TypeOK
<1>2. BuildInv(b)'
  BY DEF CacheInv, TypeOK, BuildInv, Early, Genuine
<1>3. ASSUME NEW c \in Builders, c # b PROVE BuildInv(c)'
  BY <1>3, OtherBuilds DEF CacheInv, TypeOK
<1> QED
  BY <1>1, <1>2, <1>3 DEF CacheInv, Genuine

LEMMA ProbeBundleStep ==
  ASSUME CacheInv, NEW b \in Builders, ProbeBundle(b)
  PROVE  CacheInv'
<1> USE DEF ProbeBundle, Goto, files, cleanVars
<1>1. TypeOK'
  BY DEF CacheInv, TypeOK
<1>2. BuildInv(b)'
  BY DEF CacheInv, TypeOK, BuildInv, Early, Genuine
<1>3. ASSUME NEW c \in Builders, c # b PROVE BuildInv(c)'
  BY <1>3, OtherBuilds DEF CacheInv, TypeOK
<1> QED
  BY <1>1, <1>2, <1>3 DEF CacheInv, Genuine

LEMMA PrepareStep ==
  ASSUME CacheInv, NEW b \in Builders, Prepare(b)
  PROVE  CacheInv'
<1> USE DEF Prepare, Goto, files, cleanVars
<1>1. TypeOK'
  BY DEF CacheInv, TypeOK
<1>2. BuildInv(b)'
  <2>1. /\ pc[b] = "prepare" /\ pc'[b] = "compile" /\ read[b] \in Projects
        /\ outcome[b] = "building" /\ ~retried[b] /\ image[b] = None
        /\ UNCHANGED <<read, outcome, image, retried, cache, bundle>>
        /\ hits'[b] = {p \in Partition : Authentic(bundle, read[b], p)}
        /\ saved'[b] \in {bundle, None}
        /\ Genuine(bundle)
    BY DEF CacheInv, TypeOK, BuildInv, Early
  <2>2. \A p \in hits'[b] : Accepts(read[b], p)
    BY <2>1, AuthenticIsRight
  <2>3. saved'[b] # None => \A p \in hits'[b] : Authentic(saved'[b], read[b], p)
    BY <2>1
  <2>4. cache'[b] = "warm"
    BY <2>1 DEF CacheInv, BuildInv
  <2> QED
    BY <2>1, <2>2, <2>3, <2>4 DEF BuildInv, Reusable, Early, Genuine
<1>3. ASSUME NEW c \in Builders, c # b PROVE BuildInv(c)'
  BY <1>3, OtherBuilds DEF CacheInv, TypeOK
<1> QED
  BY <1>1, <1>2, <1>3 DEF CacheInv, Genuine

LEMMA PrepareFailsStep ==
  ASSUME CacheInv, NEW b \in Builders, PrepareFails(b)
  PROVE  CacheInv'
<1> USE DEF PrepareFails, Goto, files, cleanVars
<1>1. TypeOK'
  BY DEF CacheInv, TypeOK
<1>2. BuildInv(b)'
  BY DEF CacheInv, TypeOK, BuildInv, Early, Genuine
<1>3. ASSUME NEW c \in Builders, c # b PROVE BuildInv(c)'
  BY <1>3, OtherBuilds DEF CacheInv, TypeOK
<1> QED
  BY <1>1, <1>2, <1>3 DEF CacheInv, Genuine

LEMMA CompileAcceptsStep ==
  ASSUME CacheInv, NEW b \in Builders, CompileAccepts(b)
  PROVE  CacheInv'
<1> USE DEF CompileAccepts, Goto, files, cleanVars
<1>1. TypeOK'
  BY DEF CacheInv, TypeOK
<1>2. BuildInv(b)'
  <2>1. /\ pc[b] = "compile" /\ read[b] \in Projects
        /\ outcome[b] = "building" /\ image[b] = None
        /\ UNCHANGED <<read, outcome, image, retried, hits, saved>>
        /\ pc'[b] = IF cache'[b] = "off" THEN "write" ELSE "merge"
        /\ cache'[b] = cache[b] \/ cache[b] = "cold"
        /\ Genuine(saved[b])
        /\ cache[b] # "warm" => hits[b] = {}
        /\ retried[b] => cache[b] = "off"
    BY DEF CacheInv, TypeOK, BuildInv, Early
  <2>2. Acceptable(read[b])
    BY DEF CacheInv, BuildInv, Acceptable, Checked
  <2>3. cache'[b] # "warm" => hits[b] = {}
    BY <2>1 DEF CacheInv, TypeOK
  <2>4. /\ \A p \in hits[b] : Accepts(read[b], p)
        /\ saved[b] # None => Reusable(b, saved[b])
    BY <2>1 DEF CacheInv, BuildInv
  <2>5. hits[b] = {} => Reusable(b, saved[b])
    BY DEF Reusable
  <2>6. Reusable(b, saved[b])' <=> Reusable(b, saved[b])
    BY <2>1 DEF Reusable, Authentic
  <2> QED
    BY <2>1, <2>2, <2>3, <2>4, <2>5, <2>6 DEF BuildInv, Early, Genuine
<1>3. ASSUME NEW c \in Builders, c # b PROVE BuildInv(c)'
  BY <1>3, OtherBuilds DEF CacheInv, TypeOK
<1> QED
  BY <1>1, <1>2, <1>3 DEF CacheInv, Genuine

LEMMA MergeStep ==
  ASSUME CacheInv, NEW b \in Builders, Merge(b)
  PROVE  CacheInv'
<1> USE DEF Merge, Goto, files, cleanVars
<1>1. TypeOK'
  BY DEF CacheInv, TypeOK
<1>2. BuildInv(b)'
  <2>1. /\ pc[b] = "merge" /\ pc'[b] = "write" /\ read[b] \in Projects
        /\ outcome[b] = "building" /\ image[b] = None /\ ~retried[b]
        /\ UNCHANGED <<read, outcome, image, retried, hits, cache>>
        /\ Acceptable(read[b])
        /\ cache[b] # "warm" => hits[b] = {}
        /\ \A p \in hits[b] : Accepts(read[b], p)
    BY DEF CacheInv, TypeOK, BuildInv, Early
  <2>2. Genuine(saved'[b])
    BY DEF CacheInv, BuildInv, TypeOK
  <2>3. Reusable(b, saved'[b])
    BY <2>1 DEF CacheInv, BuildInv, TypeOK, Reusable
  <2>4. Reusable(b, saved[b])'
    BY <2>1, <2>3 DEF Reusable, Authentic
  <2> QED
    BY <2>1, <2>2, <2>4 DEF BuildInv, Early, Genuine
<1>3. ASSUME NEW c \in Builders, c # b PROVE BuildInv(c)'
  BY <1>3, OtherBuilds DEF CacheInv, TypeOK
<1> QED
  BY <1>1, <1>2, <1>3 DEF CacheInv, Genuine

LEMMA MergeFailsStep ==
  ASSUME CacheInv, NEW b \in Builders, MergeFails(b)
  PROVE  CacheInv'
<1> USE DEF MergeFails, Goto, files, cleanVars, local
<1>1. TypeOK'
  BY DEF CacheInv, TypeOK
<1>2. BuildInv(b)'
  BY DEF CacheInv, TypeOK, BuildInv, Early, Genuine
<1>3. ASSUME NEW c \in Builders, c # b PROVE BuildInv(c)'
  BY <1>3, OtherBuilds DEF CacheInv, TypeOK
<1> QED
  BY <1>1, <1>2, <1>3 DEF CacheInv, Genuine

LEMMA RetryStep ==
  ASSUME CacheInv, NEW b \in Builders, Retry(b)
  PROVE  CacheInv'
<1> USE DEF Retry, CleanRead, Goto, files
<1>1. TypeOK'
  BY DEF CacheInv, TypeOK
<1>2. BuildInv(b)'
  BY DEF CacheInv, TypeOK, BuildInv, Early, Genuine
<1>3. ASSUME NEW c \in Builders, c # b PROVE BuildInv(c)'
  BY <1>3, OtherBuilds DEF CacheInv, TypeOK
<1> QED
  BY <1>1, <1>2, <1>3 DEF CacheInv, Genuine

\* The functions a build links are those of a build from nothing.
LEMMA MergedIsClean ==
  ASSUME CacheInv, NEW b \in Builders, pc[b] = "write"
  PROVE  Merged(b) = Clean(read[b])
<1>1. ASSUME NEW p \in hits[b], p \in Partition
      PROVE  saved[b][p].object = Compile(read[b], p)
  BY <1>1, AuthenticIsRight DEF CacheInv, BuildInv, Reusable
<1> QED
  BY <1>1 DEF Merged, Clean

LEMMA PublishStep ==
  ASSUME CacheInv, NEW b \in Builders, Publish(b)
  PROVE  CacheInv'
<1> USE DEF Publish, cleanVars
<1>0. /\ read[b] \in Projects /\ Acceptable(read[b]) /\ Genuine(saved[b])
      /\ \A p \in hits[b] : Authentic(saved[b], read[b], p)
      /\ saved[b] \in Bundles \cup {None}
  BY DEF CacheInv, TypeOK, BuildInv, Reusable
<1>1. NextBundle(b) \in Bundles /\ Genuine(NextBundle(b))
  <2>1. ASSUME NEW p \in Partition
        PROVE  /\ NextBundle(b)[p] \in [key : Keys, object : Objects, intact : BOOLEAN]
               /\ \E S \in Projects : NextBundle(b)[p] = Slot(S, p) /\ Accepts(S, p)
    <3>1. CASE p \in hits[b]
      <4>1. saved[b] # None /\ saved[b][p].intact /\ saved[b] \in Bundles
        BY <1>0, <3>1 DEF Authentic
      <4>2. NextBundle(b)[p] = saved[b][p]
        BY <3>1 DEF NextBundle
      <4> QED
        BY <1>0, <4>1, <4>2 DEF Genuine, Bundles
    <3>2. CASE p \notin hits[b]
      <4>1. NextBundle(b)[p] = Slot(read[b], p)
        BY <3>2 DEF NextBundle
      <4> QED
        BY <1>0, <4>1, SlotIsGenuine DEF Acceptable
    <3> QED
      BY <3>1, <3>2
  <2>2. NextBundle(b) \in Bundles
    BY <2>1 DEF NextBundle, Bundles
  <2> QED
    BY <2>1, <2>2 DEF Genuine
<1>2. TypeOK'
  BY <1>1 DEF CacheInv, TypeOK
<1>3. ASSUME NEW c \in Builders PROVE BuildInv(c)'
  BY <1>3, OtherBuilds DEF CacheInv, TypeOK
<1>4. Genuine(bundle)'
  <2>1. CASE bundle' = bundle
    BY <2>1 DEF CacheInv, Genuine
  <2>2. CASE bundle' = NextBundle(b)
    BY <1>1, <2>2 DEF Genuine
  <2> QED
    BY <2>1, <2>2
<1> QED
  BY <1>2, <1>3, <1>4 DEF CacheInv

LEMMA LinkStep ==
  ASSUME CacheInv, NEW b \in Builders, Link(b)
  PROVE  CacheInv'
<1> USE DEF Link, files
<1>0. /\ Merged(b) = Clean(read[b]) /\ read[b] \in Projects
      /\ pc[b] = "write" /\ outcome[b] = "building"
  BY MergedIsClean DEF CacheInv, BuildInv
<1>1. Clean(read[b]) \in [Partition -> Objects]
  BY <1>0, SlotIsGenuine DEF Clean
<1>2. TypeOK'
  BY <1>0, <1>1 DEF CacheInv, TypeOK
<1>3. BuildInv(b)'
  <2>1. /\ image'[b] \in {None, Clean(read[b])}
        /\ pc'[b] = "write"
        /\ UNCHANGED <<read, outcome, hits, saved, retried, cache>>
    BY <1>0 DEF CacheInv, TypeOK
  <2>2. Reusable(b, saved[b])' <=> Reusable(b, saved[b])
    BY <2>1 DEF Reusable, Authentic
  <2> QED
    BY <1>0, <2>1, <2>2 DEF CacheInv, BuildInv, Early, Genuine
<1>4. ASSUME NEW c \in Builders, c # b PROVE BuildInv(c)'
  BY <1>4, OtherBuilds DEF CacheInv, TypeOK
<1> QED
  BY <1>2, <1>3, <1>4 DEF CacheInv, Genuine

\* Only the build that ends changes.
LEMMA EndStep ==
  ASSUME CacheInv, NEW b \in Builders,
         End(b, "built") \/ End(b, "rejected") \/ End(b, "failed"),
         read' = read, bundle' = bundle, frontend' \in BOOLEAN,
         image' = image \/ image' = [image EXCEPT ![b] = None]
  PROVE  CacheInv'
<1>1. TypeOK'
  BY EndType DEF CacheInv, TypeOK
<1>2. BuildInv(b)'
  BY EndInv DEF CacheInv
<1>3. ASSUME NEW c \in Builders, c # b PROVE BuildInv(c)'
  BY <1>3, OtherBuilds DEF CacheInv, TypeOK, End, Goto
<1> QED
  BY <1>1, <1>2, <1>3 DEF CacheInv, Genuine

LEMMA WrittenStep ==
  ASSUME CacheInv, NEW b \in Builders, Written(b)
  PROVE  CacheInv'
<1>1. CASE image[b] = None \/ cache[b] = "off"
  BY <1>1, EndStep DEF Written, files, CacheInv, TypeOK
<1>2. CASE image[b] # None /\ cache[b] # "off"
  <2> USE DEF Written, Goto, files, local
  <2>1. TypeOK'
    BY <1>2 DEF CacheInv, TypeOK
  <2>2. BuildInv(b)'
    BY <1>2 DEF CacheInv, TypeOK, BuildInv, Early, Genuine
  <2>3. ASSUME NEW c \in Builders, c # b PROVE BuildInv(c)'
    BY <1>2, <2>3, OtherBuilds DEF CacheInv, TypeOK
  <2> QED
    BY <1>2, <2>1, <2>2, <2>3 DEF CacheInv, Genuine
<1> QED
  BY <1>1, <1>2

LEMMA EnvironmentStep ==
  ASSUME CacheInv, LoseFiles \/ DamageObject
  PROVE  CacheInv'
<1> USE DEF LoseFiles, DamageObject, cleanVars, local
<1>1. ASSUME NEW c \in Builders PROVE BuildInv(c)'
  BY <1>1, OtherBuilds DEF CacheInv
<1>2. bundle' \in Bundles \cup {None}
  <2>1. CASE LoseFiles
    BY <2>1 DEF CacheInv, TypeOK
  <2>2. CASE DamageObject
    <3>1. bundle \in Bundles
      BY <2>2 DEF CacheInv, TypeOK
    <3>2. PICK q \in Partition : bundle' = [bundle EXCEPT ![q].intact = FALSE]
      BY <2>2
    <3>3. bundle' \in Bundles
      BY ZenonT(30), <3>1, <3>2 DEF Bundles
    <3> QED
      BY <3>3
  <2> QED
    BY <2>1, <2>2
<1>3. TypeOK'
  BY <1>2 DEF CacheInv, TypeOK
<1>4. Genuine(bundle)'
  <2>1. CASE LoseFiles
    BY <2>1 DEF CacheInv, Genuine
  <2>2. CASE DamageObject
    <3>1. PICK q \in Partition : bundle' = [bundle EXCEPT ![q].intact = FALSE]
      BY <2>2
    <3>2. bundle \in Bundles
      BY <2>2 DEF CacheInv, TypeOK
    <3>3. ASSUME NEW p \in Partition, bundle'[p].intact
          PROVE  bundle'[p] = bundle[p] /\ bundle[p].intact
      BY <2>2, <3>1, <3>2, <3>3 DEF Bundles
    <3> QED
      BY <2>2, <3>3 DEF CacheInv, Genuine
  <2> QED
    BY <2>1, <2>2
<1> QED
  BY <1>1, <1>3, <1>4 DEF CacheInv

(***************************************************************************)
(* CacheInv is an invariant.                                               *)
(***************************************************************************)
THEOREM CacheInvariant == Spec => []CacheInv
<1>1. Init => CacheInv
  BY CacheInit
<1>2. CacheInv /\ [Next]_vars => CacheInv'
  <2> SUFFICES ASSUME CacheInv, [Next]_vars PROVE CacheInv'
    OBVIOUS
  <2>1. ASSUME NEW b \in Builders, Step(b) PROVE CacheInv'
    <3>1. CASE CompileRejects(b)
      BY <3>1, EndStep DEF CompileRejects, files, CacheInv, TypeOK
    <3>2. CASE PublishFrontend(b)
      BY <3>2, EndStep DEF PublishFrontend, CacheInv, TypeOK
    <3>3. CASE Fails(b)
      BY <3>3, EndStep DEF Fails, files, CacheInv, TypeOK
    <3> QED
      BY <2>1, <3>1, <3>2, <3>3, StartStep, OpenFrontendStep, ProbeBundleStep,
         PrepareStep, PrepareFailsStep, CompileAcceptsStep, MergeStep,
         MergeFailsStep, RetryStep, PublishStep, LinkStep, WrittenStep DEF Step
  <2>2. CASE LoseFiles \/ DamageObject
    BY <2>2, EnvironmentStep
  <2>3. CASE UNCHANGED vars
    <3>1. ASSUME NEW b \in Builders PROVE BuildInv(b)'
      BY <2>3, <3>1, OtherBuilds DEF CacheInv, vars, cleanVars, files, local
    <3> QED
      BY <2>3, <3>1 DEF CacheInv, TypeOK, Genuine, vars, cleanVars, files, local
  <2> QED
    BY <2>1, <2>2, <2>3 DEF Next
<1> QED
  BY <1>1, <1>2, PTL DEF Spec

(***************************************************************************)
(* Every variable keeps its type.                                          *)
(***************************************************************************)
THEOREM TypeCorrect == Spec => []TypeOK
<1>1. CacheInv => TypeOK
  BY DEF CacheInv
<1> QED
  BY <1>1, CacheInvariant, PTL

(***************************************************************************)
(* What is saved is the code of groups that passed their checks, however   *)
(* many builds publish, fail and are killed.                               *)
(***************************************************************************)
THEOREM SavedIsGenuine == Spec => []BundleIsGenuine
<1>1. CacheInv => BundleIsGenuine
  BY DEF CacheInv, BundleIsGenuine
<1> QED
  BY <1>1, CacheInvariant, PTL

(***************************************************************************)
(* What is linked from the bundle carries the keys of this very build.     *)
(***************************************************************************)
THEOREM HitsStayBound == Spec => []HitsAreBound
<1>1. CacheInv => HitsAreBound
  BY DEF CacheInv, BuildInv, HitsAreBound
<1> QED
  BY <1>1, CacheInvariant, PTL

(***************************************************************************)
(* No build starts over twice.                                             *)
(***************************************************************************)
THEOREM NoThirdAttempt == Spec => []SecondAttemptIsLast
<1>1. CacheInv => SecondAttemptIsLast
  BY DEF CacheInv, BuildInv, SecondAttemptIsLast
<1> QED
  BY <1>1, CacheInvariant, PTL

-------------------------------------------------------------------------------
\* The executable as the abstract specification sees it.
Visible == [b \in Builders |-> IF outcome[b] = "built" THEN image[b] ELSE None]

\* A step that leaves sources and outcomes alone shows nothing.
LEMMA Stutter ==
  ASSUME CacheInv, UNCHANGED <<read, outcome>>,
         \A b \in Builders : outcome[b] = "built" => image'[b] = image[b]
  PROVE  UNCHANGED <<read, outcome, Visible>>
BY DEF Visible

\* An end without an executable shows none.
LEMMA EndShowsNothing ==
  ASSUME CacheInv, NEW b \in Builders, pc[b] # "idle",
         NEW exit \in {"rejected", "failed"}, End(b, exit), read' = read,
         image' = image \/ image' = [image EXCEPT ![b] = None]
  PROVE  /\ outcome[b] = "building"
         /\ outcome' = [outcome EXCEPT ![b] = exit]
         /\ Visible' = Visible /\ read' = read
<1>1. outcome[b] = "building" /\ outcome' = [outcome EXCEPT ![b] = exit]
  BY DEF CacheInv, BuildInv, End
<1>2. ASSUME NEW c \in Builders
      PROVE  (IF outcome'[c] = "built" THEN image'[c] ELSE None)
               = (IF outcome[c] = "built" THEN image[c] ELSE None)
  BY <1>1, <1>2 DEF CacheInv, TypeOK
<1> QED
  BY <1>1, <1>2 DEF Visible

\* A successful end shows what a build from nothing would have written.
LEMMA BuiltShowsClean ==
  ASSUME CacheInv, NEW b \in Builders, pc[b] \in {"write", "frontend"},
         image[b] # None, End(b, "built"), UNCHANGED <<read, image>>
  PROVE  /\ outcome[b] = "building" /\ Acceptable(read[b])
         /\ outcome' = [outcome EXCEPT ![b] = "built"]
         /\ Visible' = [Visible EXCEPT ![b] = Clean(read[b])] /\ read' = read
<1>1. /\ outcome[b] = "building" /\ Acceptable(read[b])
      /\ image[b] = Clean(read[b])
      /\ outcome' = [outcome EXCEPT ![b] = "built"]
  BY DEF CacheInv, BuildInv, End
<1>2. ASSUME NEW c \in Builders
      PROVE  (IF outcome'[c] = "built" THEN image'[c] ELSE None)
               = IF c = b THEN Clean(read[b])
                 ELSE IF outcome[c] = "built" THEN image[c] ELSE None
  BY <1>1, <1>2 DEF CacheInv, TypeOK
<1>3. Visible' = [Visible EXCEPT ![b] = Clean(read[b])]
  BY <1>2 DEF Visible
<1> QED
  BY <1>1, <1>3

\* A build that starts, or starts over, shows no executable.
LEMMA ReadShowsNothing ==
  ASSUME CacheInv, NEW b \in Builders, CleanRead(b)
  PROVE  Visible' = [Visible EXCEPT ![b] = None]
<1>1. ASSUME NEW c \in Builders
      PROVE  (IF outcome'[c] = "built" THEN image'[c] ELSE None)
               = IF c = b THEN None
                 ELSE IF outcome[c] = "built" THEN image[c] ELSE None
  BY <1>1 DEF CacheInv, TypeOK, CleanRead
<1> QED
  BY <1>1 DEF Visible

\* The abstract specification speaks of the same checks and the same code.
LEMMA SameLanguage ==
  ASSUME NEW S
  PROVE  /\ FromNothing!Acceptable(S) <=> Acceptable(S)
         /\ FromNothing!Clean(S) = Clean(S)
<1> USE DEF FromNothing!Partition, Partition
<1>1. FromNothing!Acceptable(S) <=> Acceptable(S)
  BY DEF Acceptable, Accepts, HasPointerSymbol, FromNothing!Acceptable,
     FromNothing!Accepts, FromNothing!HasPointerSymbol
<1>2. FromNothing!FunctionNumbers(S) = FunctionNumbers(S)
  BY DEF FromNothing!FunctionNumbers, FunctionNumbers
<1>3. FromNothing!Declarations(S) = Declarations(S)
  BY DEF FromNothing!Declarations, Declarations
<1>4. FromNothing!Clean(S) = Clean(S)
  BY <1>2, <1>3 DEF Clean, Compile, FromNothing!Clean, FromNothing!Compile
<1> QED
  BY <1>1, <1>4

(***************************************************************************)
(* A build that shares a cache implements a build from nothing: what it    *)
(* writes, and whether it rejects, depends on the sources it read and not  *)
(* on what is saved, who saved it, or when it vanished.                    *)
(***************************************************************************)
THEOREM SharingIsInvisible == Spec => ImplementsCleanBuild
<1>1. Init => FromNothing!CleanInit
  BY DEF Init, CleanInit, FromNothing!CleanInit
<1>2. CacheInv /\ [Next]_vars => [FromNothing!CleanNext]_(FromNothing!cleanVars)
  <2> SUFFICES ASSUME CacheInv, [Next]_vars
               PROVE  [FromNothing!CleanNext]_(FromNothing!cleanVars)
    OBVIOUS
  <2> DEFINE quiet == UNCHANGED <<read, outcome, Visible>>
  <2>0. quiet => UNCHANGED FromNothing!cleanVars
    BY DEF FromNothing!cleanVars, Visible
  <2>1. ASSUME NEW b \in Builders, Step(b)
        PROVE  FromNothing!CleanNext \/ quiet
    <3>1. CASE Start(b) \/ Retry(b)
      <4>1. CleanRead(b)
        BY <3>1 DEF Start, Retry
      <4>2. FromNothing!CleanRead(b)
        BY <4>1, ReadShowsNothing DEF CleanRead, FromNothing!CleanRead, Visible
      <4> QED
        BY <4>2 DEF FromNothing!CleanNext
    <3>2. CASE CompileRejects(b)
      <4>1. ~Acceptable(read[b]) /\ pc[b] # "idle"
        BY <3>2 DEF CompileRejects, Acceptable, Checked
      <4>2. FromNothing!CleanReject(b)
        BY <3>2, <4>1, EndShowsNothing, SameLanguage
        DEF CompileRejects, FromNothing!CleanReject, Visible
      <4> QED
        BY <4>2 DEF FromNothing!CleanNext
    <3>3. CASE Fails(b)
      <4>1. FromNothing!CleanFail(b)
        BY <3>3, EndShowsNothing DEF Fails, FromNothing!CleanFail, Visible
      <4> QED
        BY <4>1 DEF FromNothing!CleanNext
    <3>4. CASE Written(b) /\ image[b] = None
      <4>1. FromNothing!CleanFail(b)
        BY <3>4, EndShowsNothing DEF Written, FromNothing!CleanFail, Visible
      <4> QED
        BY <4>1 DEF FromNothing!CleanNext
    <3>5. CASE \/ Written(b) /\ image[b] # None /\ cache[b] = "off"
               \/ PublishFrontend(b)
      <4>1. /\ pc[b] \in {"write", "frontend"} /\ image[b] # None
            /\ End(b, "built") /\ UNCHANGED <<read, image>>
        BY <3>5 DEF Written, PublishFrontend, CacheInv, BuildInv
      <4>2. FromNothing!CleanWrite(b)
        BY <4>1, BuiltShowsClean, SameLanguage
        DEF FromNothing!CleanWrite, Visible
      <4> QED
        BY <4>2 DEF FromNothing!CleanNext
    <3>6. CASE Written(b) /\ image[b] # None /\ cache[b] # "off"
      BY <3>6, Stutter DEF Written
    <3>7. CASE Link(b)
      <4>1. \A c \in Builders : outcome[c] = "built" => image'[c] = image[c]
        BY <3>7 DEF Link, CacheInv, BuildInv, TypeOK
      <4> QED
        BY <3>7, <4>1, Stutter DEF Link
    <3>8. CASE \/ OpenFrontend(b) \/ ProbeBundle(b) \/ Prepare(b)
               \/ PrepareFails(b) \/ CompileAccepts(b) \/ Merge(b)
               \/ MergeFails(b) \/ Publish(b)
      BY <3>8, Stutter DEF OpenFrontend, ProbeBundle, Prepare, PrepareFails,
         CompileAccepts, Merge, MergeFails, Publish, cleanVars
    <3> QED
      BY <2>1, <3>1, <3>2, <3>3, <3>4, <3>5, <3>6, <3>7, <3>8 DEF Step
  <2>2. CASE LoseFiles \/ DamageObject \/ UNCHANGED vars
    <3>1. UNCHANGED cleanVars
      BY <2>2 DEF LoseFiles, DamageObject, vars
    <3> QED
      BY <2>0, <3>1, Stutter DEF cleanVars
  <2> QED
    BY <2>0, <2>1, <2>2 DEF Next
<1> QED
  BY <1>1, <1>2, CacheInvariant, PTL
  DEF Spec, ImplementsCleanBuild, FromNothing!CleanSpec
===============================================================================
