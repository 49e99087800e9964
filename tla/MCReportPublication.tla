------------------------ MODULE MCReportPublication ------------------------
(* Instances of ReportPublication.  Calls, strangers and payloads are      *)
(* interchangeable in the safety properties.                               *)
EXTENDS ReportPublication, TLC

Symmetry ==
  Permutations(Publishers) \cup Permutations(Strangers) \cup Permutations(Payloads)
=============================================================================
