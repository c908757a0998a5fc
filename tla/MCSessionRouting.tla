-------------------------- MODULE MCSessionRouting --------------------------
(***************************************************************************)
(* Instances of SessionRouting for TLC.                                    *)
(***************************************************************************)
EXTENDS SessionRouting, TLC

Symmetry == Permutations(Messages) \cup Permutations(Workflows)
=============================================================================
