---------------------------- MODULE MCChatThread ----------------------------
(* ChatThread for TLC: requests only differ by name. *)
EXTENDS ChatThread, TLC

Symmetry == Permutations(Requests)
=============================================================================
