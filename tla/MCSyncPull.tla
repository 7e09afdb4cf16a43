---------------------------- MODULE MCSyncPull ----------------------------
(***************************************************************************)
(* Instances of the pull for TLC.                                          *)
(***************************************************************************)
EXTENDS SyncPull, TLC

CONSTANTS w1, w2, d1, d2, o1, o2, p1, p2

Symmetry == Permutations(Writers) \cup Permutations(Readers) \cup Permutations(Publishers) \cup Permutations(Observations)
=============================================================================
