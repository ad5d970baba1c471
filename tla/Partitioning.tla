----------------------------- MODULE Partitioning -----------------------------
(***************************************************************************)
(* How the compiler cuts the list of sources.  The parallel parse, the     *)
(* parallel flow analysis and the native emission cut it into contiguous   *)
(* chunks, one per job; the object cache cuts it into partitions, one per  *)
(* saved object, and asks for the partition of a source the other way      *)
(* round. What comes of the sources - records, diagnostics - is written in *)
(* their order.                                                            *)
(***************************************************************************)
EXTENDS Integers, Sequences

\* Part k of n items cut into `parts` parts is Cut(n, k, parts) up to, and
\* without, Cut(n, k + 1, parts).
Cut(n, k, parts) == (n * k) \div parts

\* A mistake: the cut is inverted as if it rounded up.
PartitionIndexRoundedUp(s, n, parts) ==
  IF n = 0 \/ parts = 0 THEN 0 ELSE ((s + 1) * parts) \div n

SourcePartitionIndex(s, n, parts) ==
  IF n = 0 \/ parts = 0 THEN 0 ELSE ((s + 1) * parts - 1) \div n

\* The sequence q lists the set S of numbers in ascending order.
Lists(q, S) ==
  /\ q \in Seq(Int)
  /\ \A i \in 1 .. Len(q) : q[i] \in S
  /\ \A s \in S : \E i \in 1 .. Len(q) : q[i] = s
  /\ \A i, j \in 1 .. Len(q) : i < j => q[i] < q[j]
===============================================================================
