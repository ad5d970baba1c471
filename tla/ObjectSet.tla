------------------------------ MODULE ObjectSet ------------------------------
(***************************************************************************)
(* A set of object files: a build of --kind=module-coff-set writes one     *)
(* object per unit (module or partition), an executable linked from them,  *)
(* and a manifest, one after the other and in place (backend_emit.p,       *)
(* backend_module_cache.p). The cache beside them holds objects by their   *)
(* hash, the hash by the unit's key, and by the key of all sources the     *)
(* hashes of a set that was written and linked. A build can end at any     *)
(* step, the sources change between builds, files of the cache are lost,   *)
(* and other builds publish into it.                                       *)
(*                                                                         *)
(* A version of the sources is given by what its units compile to. Keys    *)
(* are taken to determine objects (ObjectCache is about that), and an      *)
(* object stands for its bytes, their hash and its key; what a file of     *)
(* the cache holds is checked when it is read, so damage is a loss.        *)
(***************************************************************************)
EXTENDS Naturals

CONSTANTS
  LastUnit,          \* units are 0 .. LastUnit
  ProjectVersions,   \* versions of the sources: unit by unit, the object or Empty
  Rejected,          \* those in which semantic analysis finds errors
  Empty,             \* of a unit without functions
  ByPartition        \* units are partitions of the sources, not modules

Units == 0 .. LastUnit
Listings == ProjectVersions \ Rejected

ASSUME VersionsAssumption ==
  /\ LastUnit \in Nat
  /\ ProjectVersions \subseteq [Units -> {v[u] : v \in ProjectVersions, u \in Units}]

VARIABLES
  sources,   \* on disk
  outputs,   \* object files at the output, by unit
  linked,    \* the objects in the executable
  manifest,  \* what it lists, if it says COMPLETE
  stored,    \* <cache>.o.*
  keyRecords,      \* <cache>.k.*
  projectRecords,  \* <cache>.p.*: <<version, hashes>>
  stage,     \* of the build
  version,   \* of the sources the build has read
  keyed,     \* the build has a key for the project
  cached,    \* the build uses the cache of objects
  relinks,   \* it has found its project there
  hits,      \* units whose objects it has found there
  hashes, bundle, unit,
  refused    \* an object could not be published

outputVars == <<outputs, linked, manifest>>
storeVars == <<stored, keyRecords, projectRecords>>
buildVars == <<version, keyed, cached, relinks, hits, hashes, bundle, unit, refused>>
setVars == <<sources, outputVars, storeVars, stage, buildVars>>

NoUnit == [u \in Units |-> Empty]
Torn == [u \in Units |-> "torn"]

SetInit ==
  /\ sources \in ProjectVersions
  /\ outputs = NoUnit /\ linked = NoUnit /\ manifest = NoUnit
  /\ stored = {} /\ keyRecords = {} /\ projectRecords = {}
  /\ stage = "idle" /\ version = NoUnit /\ keyed = FALSE /\ cached = FALSE
  /\ relinks = FALSE /\ hits = {} /\ hashes = NoUnit /\ bundle = NoUnit
  /\ unit = 0 /\ refused = FALSE

-----------------------------------------------------------------------------
(* Between the builds, and beside them. *)

Edit ==
  /\ stage = "idle"
  /\ sources' \in ProjectVersions \ {sources}
  /\ UNCHANGED <<outputVars, storeVars, stage, buildVars>>

Lose ==
  /\ \/ \E o \in stored : stored' = stored \ {o} /\ UNCHANGED <<keyRecords, projectRecords>>
     \/ \E o \in keyRecords : keyRecords' = keyRecords \ {o} /\ UNCHANGED <<stored, projectRecords>>
     \/ \E p \in projectRecords : projectRecords' = projectRecords \ {p} /\ UNCHANGED <<stored, keyRecords>>
  /\ UNCHANGED <<sources, outputVars, stage, buildVars>>

\* Another build with the same cache publishes a unit, and at last its project.
Share ==
  /\ \E v \in Listings :
       \/ \E u \in Units \ {w \in Units : v[w] = Empty} :
            /\ stored' = stored \union {v[u]} /\ keyRecords' = keyRecords \union {v[u]}
            /\ UNCHANGED projectRecords
       \/ projectRecords' = projectRecords \union {<<v, v>>} /\ UNCHANGED <<stored, keyRecords>>
  /\ UNCHANGED <<sources, outputVars, stage, buildVars>>

-----------------------------------------------------------------------------
(* A build. *)

End ==
  /\ stage' = "idle"
  /\ version' = NoUnit /\ keyed' = FALSE /\ cached' = FALSE /\ relinks' = FALSE
  /\ hits' = {} /\ hashes' = NoUnit /\ bundle' = NoUnit /\ unit' = 0 /\ refused' = FALSE

\* All sources are read once. A project over the limits has no key.
StartSet ==
  /\ stage = "idle" /\ stage' = "try"
  /\ version' = sources /\ keyed' \in BOOLEAN
  /\ UNCHANGED <<sources, outputVars, storeVars>>
  /\ UNCHANGED <<cached, relinks, hits, hashes, bundle, unit, refused>>

\* The same sources were accepted and linked before: nothing is checked again.
TryProject ==
  /\ stage = "try" /\ keyed
  /\ \E p \in projectRecords :
       /\ p[1] = version
       /\ \A u \in Units : p[2][u] # Empty => p[2][u] \in stored
       /\ hashes' = p[2]
  /\ relinks' = TRUE /\ hits' = Units /\ stage' = "invalidate"
  /\ UNCHANGED <<sources, outputVars, storeVars, version, keyed, cached, bundle, unit, refused>>

\* A unit whose record or object cannot be read is emitted again.
CompileSet ==
  /\ stage = "try" /\ version \notin Rejected
  /\ \/ cached' = TRUE /\ hits' = {u \in Units : version[u] \in keyRecords \intersect stored}
     \/ cached' = FALSE /\ hits' = {}
  /\ stage' = "invalidate"
  /\ UNCHANGED <<sources, outputVars, storeVars, version, keyed, relinks, hashes, bundle, unit, refused>>

\* A mistake: only what is linked needs to be invalidated.
InvalidateLate ==
  /\ stage = "invalidate" /\ stage' = "write"
  /\ UNCHANGED <<sources, outputVars, storeVars, buildVars>>

Invalidate ==
  /\ stage = "invalidate" /\ stage' = "write"
  /\ manifest' = NoUnit
  /\ UNCHANGED <<sources, outputs, linked, storeVars, buildVars>>

\* The object under its hash, then the hash under the key; either may be refused.
Store(o) ==
  \/ /\ stored' = stored \union {o} /\ keyRecords' = keyRecords \union {o}
     /\ UNCHANGED refused
  \/ /\ stored' \in {stored, stored \union {o}} /\ refused' = TRUE
     /\ UNCHANGED keyRecords

NextUnit ==
  /\ unit' = unit + 1
  /\ stage' = IF unit = LastUnit THEN "link" ELSE "write"

\* The saved objects of partitions have been dropped since, and are read again.
WriteSaved ==
  /\ unit \in hits
  /\ ByPartition /\ ~relinks => version[unit] \in keyRecords \intersect stored
  /\ LET o == IF relinks THEN hashes[unit] ELSE version[unit]
     IN /\ bundle' = [bundle EXCEPT ![unit] = o]
        /\ hashes' = [hashes EXCEPT ![unit] = o]
        /\ outputs' = IF o = Empty THEN outputs ELSE [outputs EXCEPT ![unit] = o]
  /\ UNCHANGED <<stored, keyRecords, refused>>

WriteFresh ==
  /\ unit \notin hits
  /\ LET o == version[unit]
     IN /\ bundle' = [bundle EXCEPT ![unit] = o]
        /\ hashes' = [hashes EXCEPT ![unit] = IF cached THEN o ELSE @]
        /\ outputs' = IF o = Empty THEN outputs ELSE [outputs EXCEPT ![unit] = o]
        /\ IF cached /\ o # Empty THEN Store(o) ELSE UNCHANGED <<stored, keyRecords, refused>>

WriteObject ==
  /\ stage = "write" /\ NextUnit
  /\ WriteSaved \/ WriteFresh
  /\ UNCHANGED <<sources, linked, manifest, projectRecords, version, keyed, cached, relinks, hits>>

LinkSet ==
  /\ stage = "link" /\ stage' = "finish"
  /\ linked' = bundle
  /\ UNCHANGED <<sources, outputs, manifest, storeVars, buildVars>>

Finish ==
  /\ stage = "finish" /\ stage' = "save"
  /\ manifest' = bundle
  /\ UNCHANGED <<sources, outputs, linked, storeVars, buildVars>>

SaveProject ==
  /\ stage = "save" /\ End
  /\ projectRecords' \in {projectRecords,
       IF cached /\ keyed /\ ~refused THEN projectRecords \union {<<version, hashes>>} ELSE projectRecords}
  /\ UNCHANGED <<sources, outputVars, stored, keyRecords>>

\* The build fails, or is killed; what it is writing then is untouched or torn.
Fails ==
  /\ stage # "idle" /\ End
  /\ outputs' \in {outputs, IF stage = "write" /\ version[unit] # Empty
                           THEN [outputs EXCEPT ![unit] = "torn"] ELSE outputs}
  /\ linked' \in {linked, IF stage = "link" THEN Torn ELSE linked}
  /\ manifest' \in {manifest, IF stage \in {"invalidate", "finish"} THEN NoUnit ELSE manifest}
  /\ UNCHANGED <<sources, storeVars>>

SetNext ==
  \/ Edit \/ Lose \/ Share
  \/ StartSet \/ TryProject \/ CompileSet \/ Invalidate \/ WriteObject
  \/ LinkSet \/ Finish \/ SaveProject \/ Fails

SetSpec == SetInit /\ [][SetNext]_setVars

-----------------------------------------------------------------------------
(***************************************************************************)
(* A manifest that says COMPLETE lists the objects of one version of the   *)
(* sources, one that was accepted, and they and the executable are those   *)
(* of that version, at every moment, whatever builds have failed, were     *)
(* killed or reused since; and a build that ends with success leaves the   *)
(* manifest of the sources it has read.                                    *)
(***************************************************************************)
CompleteIsOneBuild ==
  /\ manifest # NoUnit =>
       /\ manifest \in Listings /\ linked = manifest
       /\ \A u \in Units : manifest[u] # Empty => outputs[u] = manifest[u]
  /\ stage = "save" => manifest = version
=============================================================================
