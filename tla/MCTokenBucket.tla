--------------------------- MODULE MCTokenBucket ---------------------------
(* Instances of TokenBucket for TLC. *)
EXTENDS TokenBucket, TLC

CONSTANTS k1, k2, t1, t2, e1, e2, e3, e4

Symmetry ==
  Permutations(Keys) \cup Permutations(Threads) \cup Permutations(Entries)
=============================================================================
