----------------------------- MODULE MCFdSnapshot -----------------------------
(* An instance of FdSnapshot: see MCFdSnapshot.cfg.                        *)
EXTENDS FdSnapshot
=============================================================================
