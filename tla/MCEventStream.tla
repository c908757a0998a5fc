--------------------------- MODULE MCEventStream ---------------------------
(* Publishers for EventStream.                                             *)
EXTENDS EventStream, TLC

CONSTANTS p1, p2, p3

\* A request and a cancellation with an event each, and a request without any.
Mixed == p1 :> 1 @@ p2 :> 1 @@ p3 :> 0
=============================================================================
