---------------------------- MODULE MCRunIntake -----------------------------
(***************************************************************************)
(* Instances of RunIntake for TLC.                                         *)
(***************************************************************************)
EXTENDS RunIntake, TLC

Symmetry == Permutations(Requests) \cup Permutations(Payloads)
=============================================================================
