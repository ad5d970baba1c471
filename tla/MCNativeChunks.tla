---------------------------- MODULE MCNativeChunks ----------------------------
(***************************************************************************)
(* An instance of NativeChunks for TLC: every creation may fail, every     *)
(* interleaving of the pool threads with the launcher, and sources of      *)
(* every kind.                                                             *)
(***************************************************************************)
EXTENDS NativeChunks

\* Bound: so many sources are out of the ordinary at once.
MaxUnclean == 2

MCInit == Init /\ Cardinality({s \in Source : kind[s] # "clean"}) <= MaxUnclean

MCSpec == MCInit /\ [][Next]_vars /\ Fairness
==============================================================================
