---------------------------- MODULE RunLifecycle ----------------------------
(***************************************************************************)
(* What a run promises to its observers: the statuses it goes through when *)
(* nobody but the engine and the answers to its interrupts touch it.       *)
(***************************************************************************)
VARIABLE status

Final == {"COMPLETED", "FAILED"}

Init == status = "RUNNING"

\* An interaction blocks the run.
Block == status = "RUNNING" /\ status' = "WAITING_FOR_INPUT"

\* The interrupt is answered.
Answer == status = "WAITING_FOR_INPUT" /\ status' = "RUNNING"

\* An end node is reached, or a node fails for good.
Finish == status = "RUNNING" /\ status' \in Final

Next == Block \/ Answer \/ Finish

\* Only the answer to an interrupt is not owed to the run.
Spec == Init /\ [][Next]_status /\ WF_status(Block \/ Finish)
=============================================================================
