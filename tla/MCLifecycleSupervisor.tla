------------------------- MODULE MCLifecycleSupervisor -------------------------
(* The instances of LifecycleSupervisor.                                   *)
EXTENDS LifecycleSupervisor

AllScenarios == KnownScenarios
AllFaults == {"fork", "confine", "clone", "wait", "poll", "proc", "result"}
=============================================================================
