------------------------- MODULE MCWorkflowVersions -------------------------
(***************************************************************************)
(* Instances of WorkflowVersions for TLC: graph g1 is fine, g2 pins a      *)
(* capability, g3 is malformed and pins one with a secret in its contract. *)
(***************************************************************************)
EXTENDS WorkflowVersions, TLC

CONSTANTS g1, g2, g3, c1, c2

GraphPins == [g \in {g1, g2, g3} |-> CASE g = g1 -> {} [] g = g2 -> {c1} [] g = g3 -> {c2}]

RequestSymmetry == Permutations(Requests)
=============================================================================
