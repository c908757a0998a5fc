--------------------------- MODULE MCRunRequests ---------------------------
(* Requests and interrupts for RunRequests; each kind is alike.            *)
EXTENDS RunRequests, TLC

Anything == {"start_run", "resume_interrupt", "cancel_run", "cancel_interrupt",
             "rerun_node"}

Alike == Permutations(Requests) \cup Permutations(Interrupts)
=============================================================================
