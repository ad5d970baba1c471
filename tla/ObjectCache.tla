----------------------------- MODULE ObjectCache -----------------------------
(***************************************************************************)
(* The native object cache: builds that share the files <prefix>.bundle    *)
(* and <prefix>.frontend (backend_native_object_cache.p,                   *)
(* source_partition_cache_* in backend_module_cache.p, and the driver in   *)
(* backend_emit.p, all in compiler/selfhost/source).                       *)
(*                                                                         *)
(* A build authenticates the saved objects early, by key and digest, to    *)
(* skip the checks and the lowering of the groups it hits.  It may drop    *)
(* the snapshot while its workers run and read the bundle again before     *)
(* linking; another build may have replaced or removed it in between.      *)
(* Nothing locks the files: a publication replaces a whole file at once.   *)
(***************************************************************************)
EXTENDS CleanBuild

VARIABLES
  bundle,     \* <prefix>.bundle: a slot per group, or None
  frontend,   \* <prefix>.frontend exists
  pc,         \* where each build is
  cache,      \* "warm" reads saved objects, "cold" saves only, "off" neither
  hits,       \* groups whose saved object was authenticated early
  saved,      \* the snapshot of the bundle, None once dropped
  retried,    \* the build is in its second attempt
  todo        \* what is left of publishing and linking

files == <<bundle, frontend>>
local == <<cache, hits, saved, retried, todo>>
vars == <<cleanVars, files, pc, local>>

\* A mistake Key could hold: the flow flag is left out.
KeyWithoutFlag(S, p) ==
  [declarations |-> Declarations(S), numbers |-> FunctionNumbers(S),
   at |-> p, own |-> S[p]]

\* The key of group p is the hash of this.
Key(S, p) ==
  [declarations |-> Declarations(S), numbers |-> FunctionNumbers(S),
   pointers |-> HasPointerSymbol(S), at |-> p, own |-> S[p]]

\* What write_image saves for group p: its key, its object, and the digest,
\* which an intact slot agrees with.
Slot(S, p) == [key |-> Key(S, p), object |-> Compile(S, p), intact |-> TRUE]

Keys == UNION {{Key(S, p) : p \in Partition} : S \in Projects}
Objects == UNION {{Compile(S, p) : p \in Partition} : S \in Projects}
Bundles == [Partition -> [key : Keys, object : Objects, intact : BOOLEAN]]

ASSUME NoneAssumption ==
  None \notin Bundles /\ None \notin [Partition -> Objects]

TypeOK ==
  /\ read \in [Builders -> Projects \cup {None}]
  /\ outcome \in [Builders -> {"none", "building", "built", "rejected",
                               "failed"}]
  /\ image \in [Builders -> [Partition -> Objects] \cup {None}]
  /\ bundle \in Bundles \cup {None}
  /\ frontend \in BOOLEAN
  /\ pc \in [Builders -> {"idle", "open", "probe", "prepare", "compile",
                          "merge", "retry", "write", "frontend"}]
  /\ cache \in [Builders -> {"warm", "cold", "off"}]
  /\ hits \in [Builders -> SUBSET Partition]
  /\ saved \in [Builders -> Bundles \cup {None}]
  /\ retried \in [Builders -> BOOLEAN]
  /\ todo \in [Builders -> SUBSET {"publish", "link"}]

Init ==
  /\ CleanInit
  /\ bundle = None
  /\ frontend = FALSE
  /\ pc = [b \in Builders |-> "idle"]
  /\ cache = [b \in Builders |-> "off"]
  /\ hits = [b \in Builders |-> {}]
  /\ saved = [b \in Builders |-> None]
  /\ retried = [b \in Builders |-> FALSE]
  /\ todo = [b \in Builders |-> {}]

Goto(b, to) == pc' = [pc EXCEPT ![b] = to]

\* The build ends and releases what it holds.
End(b, exit) ==
  /\ outcome' = [outcome EXCEPT ![b] = exit]
  /\ Goto(b, "idle")
  /\ cache' = [cache EXCEPT ![b] = "off"]
  /\ hits' = [hits EXCEPT ![b] = {}]
  /\ saved' = [saved EXCEPT ![b] = None]
  /\ retried' = [retried EXCEPT ![b] = FALSE]
  /\ todo' = [todo EXCEPT ![b] = {}]

(***************************************************************************)
(* Opening the cache.                                                      *)
(***************************************************************************)

\* Every source is read once into a view that the whole attempt uses.
Start(b) ==
  /\ pc[b] = "idle"
  /\ CleanRead(b)
  /\ Goto(b, "open")
  /\ UNCHANGED <<files, local>>

\* Without the frontend file the bundle is looked for, to see whether there
\* is anything to reuse at all; without memory for it the frontend is off.
OpenFrontend(b) ==
  /\ pc[b] = "open"
  /\ \/ frontend /\ Goto(b, "prepare") /\ cache' = [cache EXCEPT ![b] = "warm"]
     \/ ~frontend /\ Goto(b, "probe") /\ UNCHANGED cache
     \/ Goto(b, "prepare") /\ cache' = [cache EXCEPT ![b] = "warm"]
  /\ UNCHANGED <<cleanVars, files, hits, saved, retried, todo>>

ProbeBundle(b) ==
  /\ pc[b] = "probe"
  /\ IF bundle # None
     THEN Goto(b, "prepare") /\ cache' = [cache EXCEPT ![b] = "warm"]
     ELSE Goto(b, "compile") /\ cache' = [cache EXCEPT ![b] = "cold"]
  /\ UNCHANGED <<cleanVars, files, hits, saved, retried, todo>>

\* native_object_cache_read_hit: key, then digest.
Authentic(snapshot, S, p) ==
  /\ snapshot # None
  /\ snapshot[p].key = Key(S, p)
  /\ snapshot[p].intact

\* source_partition_cache_prepare, then _evict_saved: a snapshot above 2 MiB
\* is dropped, and the hits decided on it are kept.  One without a hit is not
\* read any more.
Prepare(b) ==
  /\ pc[b] = "prepare"
  /\ hits' = [hits EXCEPT ![b] =
                {p \in Partition : Authentic(bundle, read[b], p)}]
  /\ \E kept \in {bundle, None} :
       saved' = [saved EXCEPT ![b] = IF hits'[b] = {} THEN None ELSE kept]
  /\ Goto(b, "compile")
  /\ UNCHANGED <<cleanVars, files, cache, retried, todo>>

\* Too large, unsupported or out of memory: the build goes on without.
PrepareFails(b) ==
  /\ pc[b] = "prepare"
  /\ cache' = [cache EXCEPT ![b] = "off"]
  /\ Goto(b, "compile")
  /\ UNCHANGED <<cleanVars, files, hits, saved, retried, todo>>

(***************************************************************************)
(* Flow analysis, acceptance and lowering of the groups that are not hit.  *)
(***************************************************************************)

Checked(b) == Partition \ hits[b]

CompileRejects(b) ==
  /\ pc[b] = "compile"
  /\ \E p \in Checked(b) : ~Accepts(read[b], p)
  /\ End(b, "rejected")
  /\ UNCHANGED <<read, image, files>>

\* A mistake: a build with errors is still merged and published.
CompileAnyway(b) ==
  /\ pc[b] = "compile"
  /\ IF cache[b] = "off"
     THEN Goto(b, "write") /\ todo' = [todo EXCEPT ![b] = {"link"}]
     ELSE Goto(b, "merge") /\ UNCHANGED todo
  /\ UNCHANGED <<cleanVars, files, cache, hits, saved, retried>>

\* A cold build computes its keys meanwhile, or drops the cache if it cannot.
CompileAccepts(b) ==
  /\ pc[b] = "compile"
  /\ \A p \in Checked(b) : Accepts(read[b], p)
  /\ \/ UNCHANGED cache
     \/ cache[b] = "cold" /\ cache' = [cache EXCEPT ![b] = "off"]
  /\ IF cache'[b] = "off"
     THEN Goto(b, "write") /\ todo' = [todo EXCEPT ![b] = {"link"}]
     ELSE Goto(b, "merge") /\ UNCHANGED todo
  /\ UNCHANGED <<cleanVars, files, hits, saved, retried>>

(***************************************************************************)
(* native_object_cache_write_image.                                        *)
(***************************************************************************)

\* The snapshot is still there or not needed, or the bundle is read again
\* and each hit authenticated again.
Reusable(b, snapshot) ==
  \A p \in hits[b] : Authentic(snapshot, read[b], p)

Merge(b) ==
  /\ pc[b] = "merge"
  /\ IF hits[b] = {} \/ saved[b] # None
     THEN UNCHANGED saved
     ELSE Reusable(b, bundle) /\ saved' = [saved EXCEPT ![b] = bundle]
  /\ todo' = [todo EXCEPT ![b] =
                {"link"} \cup IF hits[b] = Partition THEN {} ELSE {"publish"}]
  /\ Goto(b, "write")
  /\ UNCHANGED <<cleanVars, files, cache, hits, retried>>

\* A hit is gone, or a buffer does not fit: the whole build starts over.
MergeFails(b) ==
  /\ pc[b] = "merge"
  /\ Goto(b, "retry")
  /\ UNCHANGED <<cleanVars, files, local>>

\* The second attempt has no cache prefix.
Retry(b) ==
  /\ pc[b] = "retry" /\ ~retried[b]
  /\ CleanRead(b)
  /\ Goto(b, "compile")
  /\ cache' = [cache EXCEPT ![b] = "off"]
  /\ hits' = [hits EXCEPT ![b] = {}]
  /\ saved' = [saved EXCEPT ![b] = None]
  /\ retried' = [retried EXCEPT ![b] = TRUE]
  /\ UNCHANGED <<files, todo>>

\* The functions that are linked: saved ones for the hits, fresh for the rest.
Merged(b) == [p \in Partition |-> IF p \in hits[b] THEN saved[b][p].object
                                                   ELSE Compile(read[b], p)]

\* A mistake: only the reused slots are copied into the new bundle.
BundleOfHits(b) == [p \in hits[b] |-> saved[b][p]]

NextBundle(b) ==
  [p \in Partition |-> IF p \in hits[b] THEN saved[b][p] ELSE Slot(read[b], p)]

\* On a pool thread while the launching thread links, or before it.  A failed
\* publication is only counted.
Publish(b) ==
  /\ pc[b] = "write" /\ "publish" \in todo[b]
  /\ bundle' \in {bundle, NextBundle(b)}
  /\ todo' = [todo EXCEPT ![b] = @ \ {"publish"}]
  /\ UNCHANGED <<cleanVars, frontend, pc, cache, hits, saved, retried>>

Link(b) ==
  /\ pc[b] = "write" /\ "link" \in todo[b]
  /\ \E linked \in {None, Merged(b)} : image' = [image EXCEPT ![b] = linked]
  /\ todo' = [todo EXCEPT ![b] = @ \ {"link"}]
  /\ UNCHANGED <<read, outcome, files, pc, cache, hits, saved, retried>>

\* Both have finished.  Only a successful build saves its frontend.
Written(b) ==
  /\ pc[b] = "write" /\ todo[b] = {}
  /\ IF image[b] = None THEN End(b, "failed")
     ELSE IF cache[b] = "off" THEN End(b, "built")
     ELSE Goto(b, "frontend") /\ UNCHANGED <<outcome, local>>
  /\ UNCHANGED <<read, image, files>>

PublishFrontend(b) ==
  /\ pc[b] = "frontend"
  /\ frontend' \in {frontend, TRUE}
  /\ End(b, "built")
  /\ UNCHANGED <<read, image, bundle>>

(***************************************************************************)
(* What the environment may do.                                            *)
(***************************************************************************)

\* Killed, out of memory, or an internal failure of the emission.
Fails(b) ==
  /\ pc[b] # "idle"
  /\ End(b, "failed")
  /\ image' = [image EXCEPT ![b] = None]
  /\ UNCHANGED <<read, files>>

LoseFiles ==
  /\ bundle' \in {bundle, None}
  /\ frontend' \in {frontend, FALSE}
  /\ UNCHANGED <<cleanVars, pc, local>>

\* Bound: one damaged slot at a time.
DamageObject ==
  /\ bundle # None /\ \A p \in Partition : bundle[p].intact
  /\ \E p \in Partition : bundle' = [bundle EXCEPT ![p].intact = FALSE]
  /\ UNCHANGED <<cleanVars, frontend, pc, local>>

Step(b) ==
  \/ Start(b) \/ OpenFrontend(b) \/ ProbeBundle(b) \/ Prepare(b)
  \/ PrepareFails(b) \/ CompileRejects(b) \/ CompileAccepts(b) \/ Merge(b)
  \/ MergeFails(b) \/ Retry(b) \/ Publish(b) \/ Link(b) \/ Written(b)
  \/ PublishFrontend(b) \/ Fails(b)

Next == (\E b \in Builders : Step(b)) \/ LoseFiles \/ DamageObject

Spec == Init /\ [][Next]_vars

-------------------------------------------------------------------------------
(***************************************************************************)
(* The bundle is genuine: every slot that still agrees with its digest     *)
(* holds the code that some version of the sources compiles to under that  *)
(* key, and that version passed the checks of the group.  A build that     *)
(* skips the checks of a hit relies on nothing else.                       *)
(***************************************************************************)
Genuine(snapshot) ==
  snapshot # None => \A p \in Partition : snapshot[p].intact =>
    \E S \in Projects : snapshot[p] = Slot(S, p) /\ Accepts(S, p)

BundleIsGenuine == Genuine(bundle)

(***************************************************************************)
(* A saved object that a build links is still the one whose key the build  *)
(* computed, although the bundle may have been replaced or removed since   *)
(* the decision to skip the checks.                                        *)
(***************************************************************************)
HitsAreBound ==
  \A b \in Builders : pc[b] = "write" => Reusable(b, saved[b])

(***************************************************************************)
(* A build starts over at most once: an attempt without the cache has      *)
(* nothing to start over for.                                              *)
(***************************************************************************)
SecondAttemptIsLast ==
  \A b \in Builders : retried[b] => cache[b] = "off" /\ pc[b] # "retry"

(***************************************************************************)
(* A build that shares a cache implements a build from nothing.  What the  *)
(* linker has written is looked at only after the build has exited.        *)
(***************************************************************************)
FromNothing == INSTANCE CleanBuild WITH
                 image <- [b \in Builders |->
                             IF outcome[b] = "built" THEN image[b] ELSE None]

ImplementsCleanBuild == FromNothing!CleanSpec
===============================================================================
