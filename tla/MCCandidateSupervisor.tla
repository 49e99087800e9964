----------------------- MODULE MCCandidateSupervisor -----------------------
EXTENDS CandidateSupervisor
=============================================================================
