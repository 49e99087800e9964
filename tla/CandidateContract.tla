-------------------------- MODULE CandidateContract --------------------------
(***************************************************************************)
(* What one supervised run promises to the controller that launched it,    *)
(* with no process, pipe, signal or clock in sight.  At most one verdict is*)
(* given and it is final.  Any verdict but an error speaks of a finished   *)
(* world: nothing of the run is still executing, and the archive delivered *)
(* with it is the workspace as it will stay.                               *)
(***************************************************************************)
EXTENDS Integers

CONSTANTS
  Verdicts,        \* the outcomes other than an error
  NoArchive,       \* stands for an archive not delivered
  NoVerdict        \* stands for a verdict not given

VARIABLES
  stage,           \* "idle", "running" or "quiet"
  contents,        \* version of the workspace contents
  delivered,       \* version in the archive, or NoArchive
  verdict          \* NoVerdict, "error", "no answer" or one of Verdicts

vars == <<stage, contents, delivered, verdict>>

Init ==
  /\ stage = "idle"
  /\ contents = 0
  /\ delivered = NoArchive
  /\ verdict = NoVerdict

(* The program is started, at most once. *)
Start ==
  /\ stage = "idle" /\ verdict = NoVerdict
  /\ stage' = "running"
  /\ UNCHANGED <<contents, delivered, verdict>>

(* It works on the workspace. *)
Work ==
  /\ stage = "running"
  /\ contents' = contents + 1
  /\ UNCHANGED <<stage, delivered, verdict>>

(* Its last process is gone, for good. *)
Quiesce ==
  /\ stage = "running"
  /\ stage' = "quiet"
  /\ UNCHANGED <<contents, delivered, verdict>>

Deliver ==
  /\ stage = "quiet" /\ verdict = NoVerdict /\ delivered = NoArchive
  /\ delivered' = contents
  /\ UNCHANGED <<stage, contents, verdict>>

Conclude(v) ==
  /\ verdict = NoVerdict
  /\ v \in {"error", "no answer"} \/ delivered = contents
  /\ verdict' = v
  /\ UNCHANGED <<stage, contents, delivered>>

Next ==
  \/ Start \/ Work \/ Quiesce \/ Deliver
  \/ \E v \in Verdicts \cup {"error", "no answer"} : Conclude(v)

Spec == Init /\ [][Next]_vars
=============================================================================
