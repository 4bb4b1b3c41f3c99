--------------------------- MODULE MCEventPipeline ---------------------------
(* EventPipeline on small instances.                                       *)
EXTENDS EventPipeline

CONSTANTS p1, p2, p3, g1, g2

ASSUME SomeProcesses == Proc \subseteq {p1, p2, p3} /\ Group \subseteq {g1, g2}
=============================================================================
