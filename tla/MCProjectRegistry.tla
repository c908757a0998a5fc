------------------------- MODULE MCProjectRegistry --------------------------
(***************************************************************************)
(* Instances of ProjectRegistry for TLC.                                   *)
(***************************************************************************)
EXTENDS ProjectRegistry, TLC

Symmetry == Permutations(Requests) \cup Permutations(Configs) \cup Permutations(Keys)
=============================================================================
