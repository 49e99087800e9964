---------------------------- MODULE ReportRegister ----------------------------
(***************************************************************************)
(* What atomic_publish_noreplace promises its callers: a report is written *)
(* once.  It is never replaced, it disappears only while no caller has been*)
(* told that it stands, and a caller is told so only of its own text.      *)
(***************************************************************************)
EXTENDS Naturals

CONSTANTS
  Callers,         \* one per call of atomic_publish_noreplace
  NoReport         \* the value of `report' while there is none; its `by' is
                   \* no caller and its `text' nobody's

VARIABLES
  report,          \* who wrote it (report.by) and its text (report.text)
  wanted,          \* the text each caller publishes
  answer,          \* per caller: "none", "accepted" or "failed"
  outages          \* crashes so far

vars == <<report, wanted, answer, outages>>

Unclaimed == \A c \in Callers : answer[c] # "accepted"

Init ==
  /\ answer = [c \in Callers |-> "none"]
  /\ outages = 0
  /\ report.by \notin Callers

Publish(c) ==
  /\ report = NoReport
  /\ report' = [by |-> c, text |-> wanted[c]]
  /\ UNCHANGED <<wanted, answer, outages>>

(* A failed publication is taken back. *)
Withdraw ==
  /\ report.by \in Callers
  /\ Unclaimed
  /\ report' = NoReport
  /\ UNCHANGED <<wanted, answer, outages>>

(* A crash may lose a publication or bring a withdrawn one back, but again *)
(* only as long as nobody was told anything.                               *)
Outage ==
  /\ outages' = outages + 1
  /\ report' # report =>
       /\ Unclaimed
       /\ report = NoReport \/ report.by \in Callers
       /\ report' = NoReport
            \/ \E c \in Callers : report' = [by |-> c, text |-> wanted[c]]
  /\ UNCHANGED <<wanted, answer>>

Accept(c) ==
  /\ answer[c] = "none"
  /\ report.text = wanted[c]
  /\ answer' = [answer EXCEPT ![c] = "accepted"]
  /\ UNCHANGED <<report, wanted, outages>>

(* A failure promises nothing: the report may be absent, another's or even *)
(* complete and in place.                                                  *)
Fail(c) ==
  /\ answer[c] = "none"
  /\ answer' = [answer EXCEPT ![c] = "failed"]
  /\ UNCHANGED <<report, wanted, outages>>

Next ==
  \/ \E c \in Callers : Publish(c) \/ Accept(c) \/ Fail(c)
  \/ Withdraw \/ Outage

Spec == Init /\ [][Next]_vars
=============================================================================
