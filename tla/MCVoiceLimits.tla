---------------------------- MODULE MCVoiceLimits ----------------------------
(***************************************************************************)
(* Three requests of one user over two handlers, at home.                  *)
(***************************************************************************)
EXTENDS VoiceLimits, TLC

CONSTANTS k1, k2, k3, h1, h2, home

AtHome == [z \in {home} |-> 0]
Symmetry == Permutations({h1, h2}) \cup Permutations({k1, k2, k3})
=============================================================================
