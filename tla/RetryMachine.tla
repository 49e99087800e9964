----------------------------- MODULE RetryMachine -----------------------------
(***************************************************************************)
(* executable_bounded_retry_state_machine.py: a workflow of one of four     *)
(* shapes is run against a ledger of recorded attempts, under one of five        *)
(* retry policies; an independent reference runs it again.                  *)
(*                                                                         *)
(* A row of the ledger is chosen when it is first looked up: absent, or any *)
(* row the parser accepts there.  Details, framing and duplicate rows are   *)
(* left out.                                                               *)
(***************************************************************************)
EXTENDS Naturals, Sequences, SequencesExt

CONSTANT AttemptBound    \* per model: no retry cap is taken to be larger

VARIABLES
  model, retryPolicy,    \* the task's parameters
  retryLedger,           \* rows looked up and found: of [state, visit, attempt]
  state, visits, attempt,
  cause,                 \* compensation_cause
  observations,
  terminal               \* the report's last line

retryVars == <<model, retryPolicy, retryLedger, state, visits, attempt, cause,
               observations, terminal>>

Models == {"linear", "branching", "cyclic-bounded", "compensating"}
RetryPolicies == {"never", "fixed-two", "fixed-four", "until-terminal",
             "retry-transient-only"}
WorkStates == {"prepare", "execute", "publish", "choose", "fast", "safe",
               "check", "work", "apply", "compensate"}
Failures == {"transient-failure", "ordinary-failure", "terminal-failure"}

ASSUME RetryAssumption == AttemptBound \in [Models -> Nat \ {0}]

Start == [m \in Models |-> CASE m = "branching" -> "choose"
                             [] m = "cyclic-bounded" -> "check"
                             [] OTHER -> "prepare"]

Cap ==
  LET caps == [p \in RetryPolicies |-> CASE p = "never" -> 1
                                    [] p = "fixed-two" -> 2
                                    [] p = "fixed-four" -> 4
                                    [] OTHER -> 6]
  IN IF caps[retryPolicy] < AttemptBound[model] THEN caps[retryPolicy]
     ELSE AttemptBound[model]

None == [outcome |-> "missing", directive |-> "-"]

(* _validate_event_for_model: what a row of state s may record.            *)
Events(s) ==
  [outcome : Failures, directive : {"-"}]
    \cup [outcome : {"success"},
          directive : CASE s = "choose" -> {"fast", "safe"}
                        [] s = "work"   -> {"repeat", "finish"}
                        [] OTHER        -> {"next"}]

Running == [terminal |-> "running"]

Terminal(kind, reason, seen, key, outcome) ==
  [terminal |-> kind, reason |-> reason, total |-> Len(seen), state |-> key[1],
   visit |-> key[2], attempt |-> key[3], outcome |-> outcome]

EmptyTerminal == Terminal("empty", "no-events", <<>>, <<"-", 0, 0>>, "empty")

RetryInit ==
  /\ model \in Models /\ retryPolicy \in RetryPolicies
  /\ retryLedger = <<>> /\ observations = <<>>
  /\ state = Start[model] /\ visits = [s \in WorkStates |-> IF s = state THEN 1 ELSE 0]
  /\ attempt = 1 /\ cause = None
  /\ terminal \in {Running, EmptyTerminal}

EventKey == <<state, visits[state], attempt>>

Observed(event, resolution) ==
  [key |-> EventKey, event |-> event, resolution |-> resolution]

(* Mutant: a policy for transient failures retries an ordinary one too. *)
RetriesOrdinary(event) ==
  /\ event.outcome \notin {"success", "terminal-failure"}
  /\ attempt < Cap /\ retryPolicy # "never"

(* _should_retry and _failure_reason.                                      *)
ShouldRetry(event) ==
  /\ event.outcome \notin {"success", "terminal-failure"}
  /\ attempt < Cap /\ retryPolicy # "never"
  /\ retryPolicy = "retry-transient-only" => event.outcome = "transient-failure"

FailureReason(event) ==
  IF event.outcome = "terminal-failure" THEN "terminal-failure"
  ELSE IF retryPolicy = "never" THEN "retry-disabled"
  ELSE IF retryPolicy = "retry-transient-only" /\ event.outcome = "ordinary-failure"
       THEN "nontransient-failure" ELSE "retry-budget-exhausted"

Enter(s) ==
  /\ state' = s /\ attempt' = 1
  /\ visits' = [visits EXCEPT ![s] = @ + 1]

Halt(t) ==
  /\ terminal' = t
  /\ UNCHANGED <<state, visits, attempt>>

(* The row is missing: _primary_run_visit returns no event.                *)
Missing ==
  /\ terminal = Running
  /\ Halt(Terminal("incomplete", "event-ledger-exhausted", observations,
                   <<state, visits[state],
                     IF observations = <<>> THEN 1
                     ELSE LET last == observations[Len(observations)].key IN
                          IF <<last[1], last[2]>> # <<state, visits[state]>> THEN 1
                          ELSE last[3] + 1>>,
                   "missing"))
  /\ UNCHANGED <<model, retryPolicy, retryLedger, cause, observations>>

Found(event, resolution) ==
  /\ retryLedger' = [k \in DOMAIN retryLedger \cup {EventKey} |->
                  IF k = EventKey THEN event ELSE retryLedger[k]]
  /\ observations' = Append(observations, Observed(event, resolution))
  /\ UNCHANGED <<model, retryPolicy>>

Retry ==
  /\ terminal = Running
  /\ \E event \in Events(state) :
       /\ ShouldRetry(event)
       /\ Found(event, "retry")
       /\ attempt' = attempt + 1
  /\ UNCHANGED <<state, visits, cause, terminal>>

(* A failed visit ends the run, or starts the compensation.                *)
FailVisit ==
  /\ terminal = Running
  /\ \E event \in Events(state) :
       /\ event.outcome # "success" /\ ~ShouldRetry(event)
       /\ Found(event, "failed")
       /\ IF model = "compensating" /\ state \in {"apply", "publish"}
          THEN /\ cause' = [key |-> EventKey, event |-> event]
               /\ Enter("compensate")
               /\ UNCHANGED terminal
          ELSE /\ IF state = "compensate"
                  THEN Halt(Terminal("compensation-failed", "compensation-failed",
                                     observations', EventKey, event.outcome))
                  ELSE Halt(Terminal("failed", FailureReason(event),
                                     observations', EventKey, event.outcome))
               /\ UNCHANGED cause

(* Where a workflow goes after a success; "" when it is over.              *)
Successor(event) ==
  CASE state = "prepare" /\ model = "linear"       -> "execute"
    [] state = "prepare" /\ model = "compensating" -> "apply"
    [] state \in {"execute", "fast", "safe", "apply"} -> "publish"
    [] state = "choose"                            -> event.directive
    [] state = "check"                             -> "work"
    [] state = "work" /\ event.directive = "repeat" /\ visits["work"] < 3 -> "check"
    [] OTHER                                       -> ""

Succeed ==
  /\ terminal = Running
  /\ \E event \in Events(state) :
       /\ event.outcome = "success"
       /\ Found(event, "succeeded")
       /\ IF Successor(event) # ""
          THEN Enter(Successor(event)) /\ UNCHANGED terminal
          ELSE Halt(
            IF state = "compensate"
            THEN Terminal("compensated", "compensation-complete", observations',
                          cause.key, cause.event.outcome)
            ELSE IF event.directive = "repeat"
            THEN Terminal("cycle-limit", "cycle-bound-exceeded", observations',
                          EventKey, "success")
            ELSE Terminal("complete", "workflow-complete", observations', EventKey,
                          "success"))
  /\ UNCHANGED cause

RetryNext == Missing \/ Retry \/ FailVisit \/ Succeed

RetrySpec == RetryInit /\ [][RetryNext]_retryVars

------------------------------------------------------------------------------
(* _reference_simulate: the visits are taken from an agenda instead.       *)

Lookup(key) == IF key \in DOMAIN retryLedger THEN retryLedger[key] ELSE None

(* _reference_run_visit: what lets an attempt be followed by another one.  *)
Repeated(s, v, n) ==
  /\ retryPolicy # "never" /\ n < Cap
  /\ Lookup(<<s, v, n>>).outcome
       \in IF retryPolicy = "retry-transient-only" THEN {"transient-failure"}
           ELSE {"transient-failure", "ordinary-failure"}

LastAttempt(s, v) ==
  CHOOSE n \in 1 .. Cap : ~Repeated(s, v, n) /\ \A k \in 1 .. n - 1 : Repeated(s, v, k)

VisitEnding(s, v, last) ==
  LET event == Lookup(<<s, v, last>>)
      seen(n) == [key |-> <<s, v, n>>, event |-> Lookup(<<s, v, n>>),
                  resolution |-> IF n < last THEN "retry"
                                 ELSE IF event.outcome = "success" THEN "succeeded"
                                 ELSE "failed"]
  IN [event |-> event, last |-> <<s, v, last>>,
      status |-> IF event = None THEN "missing"
                 ELSE IF event.outcome = "success" THEN "success" ELSE "failure",
      reason |-> IF event.outcome = "terminal-failure" THEN "terminal-failure"
                 ELSE IF retryPolicy = "never" THEN "retry-disabled"
                 ELSE IF /\ retryPolicy = "retry-transient-only"
                         /\ event.outcome = "ordinary-failure"
                 THEN "nontransient-failure" ELSE "retry-budget-exhausted",
      seen |-> [n \in 1 .. (IF event = None THEN last - 1 ELSE last) |-> seen(n)]]

ReferenceVisit(s, v) == VisitEnding(s, v, LastAttempt(s, v))

(* The visits the workflow makes when all of them succeed.                 *)
Agenda ==
  CASE model = "linear"    -> <<<<"prepare", 1>>, <<"execute", 1>>, <<"publish", 1>>>>
    [] model = "branching" -> <<<<"choose", 1>>,
                                <<ReferenceVisit("choose", 1).event.directive, 1>>,
                                <<"publish", 1>>>>
    [] model = "cyclic-bounded" ->
         [k \in 1 .. 6 |-> <<IF k % 2 = 1 THEN "check" ELSE "work", (k + 1) \div 2>>]
    [] model = "compensating" -> <<<<"prepare", 1>>, <<"apply", 1>>, <<"publish", 1>>>>

PlannedVisit(k) == ReferenceVisit(Agenda[k][1], Agenda[k][2])

(* A workflow ends with the first visit that has no successor.             *)
EndsWith(k) ==
  \/ PlannedVisit(k).status # "success" \/ k = Len(Agenda)
  \/ PlannedVisit(k).event.directive = "finish"

LastVisit == CHOOSE k \in DOMAIN Agenda : EndsWith(k) /\ \A j \in 1 .. k - 1 : ~EndsWith(j)

MadeBy(k) == FlattenSeq([j \in 1 .. k |-> PlannedVisit(j).seen])

ReferenceRun ==
  LET stop == LastVisit
      final == PlannedVisit(stop)
      made == MadeBy(stop)
      redone == ReferenceVisit("compensate", 1)
      both == made \o redone.seen
      missing(seen, key) ==
        Terminal("incomplete", "event-ledger-exhausted", seen, key, "missing")
  IN CASE final.status = "missing" -> <<made, missing(made, final.last)>>
       [] final.status = "success" ->
            <<made,
              IF final.event.directive = "repeat"
              THEN Terminal("cycle-limit", "cycle-bound-exceeded", made, final.last,
                            "success")
              ELSE Terminal("complete", "workflow-complete", made, final.last,
                            "success")>>
       [] final.status = "failure" /\ ~(model = "compensating" /\ stop > 1) ->
            <<made, Terminal("failed", final.reason, made, final.last,
                             final.event.outcome)>>
       [] final.status = "failure" /\ model = "compensating" /\ stop > 1 ->
            <<both,
              CASE redone.status = "missing" -> missing(both, redone.last)
                [] redone.status = "success" ->
                     Terminal("compensated", "compensation-complete", both,
                              final.last, final.event.outcome)
                [] redone.status = "failure" ->
                     Terminal("compensation-failed", "compensation-failed", both,
                              redone.last, redone.event.outcome)>>

Reference == IF retryLedger = <<>> /\ terminal = EmptyTerminal
             THEN <<<<>>, EmptyTerminal>> ELSE ReferenceRun

------------------------------------------------------------------------------
(* The report is the reference's.  An attempt is repeated exactly while the *)
(* policy allows; a compensation follows a failed apply or publish and      *)
(* nothing else, is the last visit made, and is answered for by the failure *)
(* that caused it; a workflow completes only if its visits all succeeded,   *)
(* and loops three times at most.                                          *)
RetryRight ==
  /\ terminal # Running => <<observations, terminal>> = Reference
  /\ \A i \in 1 .. Len(observations) - 1 :
       LET o == observations[i].key  next == observations[i + 1].key IN
       /\ observations[i].resolution = "retry"
            <=> <<next[1], next[2]>> = <<o[1], o[2]>>
       /\ observations[i].resolution = "failed"
            => next[1] = "compensate" /\ o[1] \in {"apply", "publish"}
       /\ next[1] = "compensate" /\ o[1] # "compensate"
            => observations[i].resolution = "failed"
       /\ o[1] = "compensate" => next[1] = "compensate"
       /\ next[3] <= Cap /\ o[2] <= 3
  /\ terminal.terminal = "complete" =>
       \A i \in DOMAIN observations : observations[i].resolution # "failed"
  /\ terminal.terminal = "compensated" =>
       \E i \in DOMAIN observations :
         /\ observations[i].resolution = "failed"
         /\ observations[i].key = <<terminal.state, terminal.visit, terminal.attempt>>
         /\ observations[i].event.outcome = terminal.outcome
=============================================================================
