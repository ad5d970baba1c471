----------------------------- MODULE HashResolver -----------------------------
(***************************************************************************)
(* The address of the function that hashes (CryptHashCertificate2 of       *)
(* crypt32.dll) is found once per process, by whichever thread needs it    *)
(* first, and published in a word of the image (native_cache_prepare_sha   *)
(* in compiler/selfhost/source/backend_native_cache.p). Several threads of *)
(* the compiler may look for it at once. Each takes a reference to the     *)
(* library, and the library goes when the last reference is given back.    *)
(***************************************************************************)
EXTENDS Naturals

CONSTANT Threads

VARIABLES
  resolver,     \* the word: "unset", "found", or "absent" (the sentinel 1)
  references,   \* to the library
  place,        \* of each thread: "start", "prepare", "publish", "close", "ready"
  holds,        \* a thread's own reference
  looked,       \* what it has found itself
  callee        \* what it will call

resolverVars == <<resolver, references, place, holds, looked, callee>>

ResolverInit ==
  /\ resolver = "unset" /\ references = 0
  /\ place = [t \in Threads |-> "start"]
  /\ holds = [t \in Threads |-> FALSE]
  /\ looked = [t \in Threads |-> "unset"]
  /\ callee = [t \in Threads |-> "unset"]

Moves(t, p) == place' = [place EXCEPT ![t] = p]

ReadResolver(t) ==
  /\ place[t] = "start"
  /\ IF resolver = "unset" THEN Moves(t, "prepare") /\ UNCHANGED callee
     ELSE Moves(t, "ready") /\ callee' = [callee EXCEPT ![t] = resolver]
  /\ UNCHANGED <<resolver, references, holds, looked>>

\* LoadLibraryExW, then GetProcAddress; either may fail.
PrepareLibrary(t) ==
  /\ place[t] = "prepare" /\ Moves(t, "publish")
  /\ \E loaded \in BOOLEAN :
       /\ references' = IF loaded THEN references + 1 ELSE references
       /\ holds' = [holds EXCEPT ![t] = loaded]
       /\ looked' \in {[looked EXCEPT ![t] = found] : found \in IF loaded THEN {"found", "absent"} ELSE {"absent"}}
  /\ UNCHANGED <<resolver, callee>>

\* A mistake: the word is written, whatever another thread has written meanwhile.
Overwrite(t) ==
  /\ place[t] = "publish"
  /\ resolver' = looked[t] /\ callee' = [callee EXCEPT ![t] = looked[t]]
  /\ Moves(t, IF looked[t] = "found" THEN "ready" ELSE "close")
  /\ UNCHANGED <<references, holds, looked>>

\* A compare-and-exchange with 0: the winner keeps its reference, if it has found
\* the function, and a loser calls what the winner has found.
PublishResolver(t) ==
  /\ place[t] = "publish"
  /\ IF resolver = "unset"
     THEN /\ resolver' = looked[t] /\ callee' = [callee EXCEPT ![t] = looked[t]]
          /\ Moves(t, IF looked[t] = "found" THEN "ready" ELSE "close")
     ELSE /\ callee' = [callee EXCEPT ![t] = resolver] /\ UNCHANGED resolver
          /\ Moves(t, "close")
  /\ UNCHANGED <<references, holds, looked>>

CloseLibrary(t) ==
  /\ place[t] = "close" /\ Moves(t, "ready")
  /\ references' = IF holds[t] THEN references - 1 ELSE references
  /\ holds' = [holds EXCEPT ![t] = FALSE]
  /\ UNCHANGED <<resolver, looked, callee>>

ResolverNext ==
  \E t \in Threads :
    ReadResolver(t) \/ PrepareLibrary(t) \/ PublishResolver(t) \/ CloseLibrary(t)

ResolverSpec == ResolverInit /\ [][ResolverNext]_resolverVars

-----------------------------------------------------------------------------
(***************************************************************************)
(* The library is never unloaded under a thread that will call into it; no *)
(* two threads hash by different means; and when no thread is on its way,  *)
(* one reference is left, or none if there is nothing to call.             *)
(***************************************************************************)
LibraryStays ==
  /\ \A t \in Threads : callee[t] # "unset" => callee[t] = resolver
  /\ resolver = "found" => references > 0
  /\ (\A t \in Threads : place[t] \in {"start", "ready"}) =>
       references = IF resolver = "found" THEN 1 ELSE 0
===============================================================================
