-------------------------- MODULE LifecycleSupervisor --------------------------
(***************************************************************************)
(* main() of cbds-development-supervisor.c, the program-free predecessor of *)
(* the candidate supervisor, with the nine scenarios its child can play,    *)
(* the decoder of its result frame (development_supervisor_protocol.py) and *)
(* the canary that judges the frame (development_supervisor_canary.py).     *)
(* Variables carry the names of the C locals they stand for.               *)
(*                                                                         *)
(* Output is counted in units of the capture cap, which is one unit; CPU    *)
(* sums, digests, the nonce and the setup before the fork are left out.     *)
(***************************************************************************)
EXTENDS Naturals, Sequences, FiniteSets

CONSTANTS
  Scenarios,       \* those requested in this instance
  Faults,          \* kinds of system call that may fail in this instance
  PipeCapacity     \* bound: units a pipe holds

(* The fixed scenarios of enum scenario_id; a request names one of them.   *)
KnownScenarios ==
  {"normal", "double_fork", "zombie", "timeout", "stdout", "stderr", "fan-out",
   "forbidden", "spoof"}

ASSUME ScenarioAssumption == Scenarios \subseteq KnownScenarios

VARIABLES
  scenario,
  life, parent, script, doomed,   \* per process; those that got SIGKILL
  exit_status,                    \* of the primary
  notified,                       \* the daemon of the double fork exists
  pipe, open, ready_pipe,
  pc, infrastructure_error, terminating, timed_out,
  termination_signal_received,
  deadline_passed, grace, final_grace,  \* the clock against the three deadlines
  primary_reaped, all_reaped, descendants_reaped,
  observed, overflow, ready_open, ready_seen,
  frame,
  faulted                         \* history: a system call failed

processVars == <<scenario, life, parent, script, exit_status, notified>>
streamVars  == <<pipe, open, ready_pipe>>
clockVars   == <<deadline_passed, grace, final_grace>>
stopVars    == <<terminating, timed_out, termination_signal_received>>
reapVars    == <<primary_reaped, all_reaped, descendants_reaped>>
captureVars == <<observed, overflow, ready_open, ready_seen>>
lifecycleVars == <<processVars, doomed, streamVars, pc, infrastructure_error,
                   stopVars, clockVars, reapVars, captureVars, frame, faulted>>

PidOne  == 0
Primary == 1
Procs   == 1 .. 4
Streams == {"stdout", "stderr"}
Cap     == 1
NoFrame == [outcome |-> "none"]

Present == {p \in Procs : life[p] \in {"live", "zombie"}}
Live    == {p \in Procs : life[p] = "live"}

------------------------------------------------------------------------------
(* run_fixed_scenario: what is left to do for a process.                   *)

PrimaryScript(s) ==
  CASE s = "normal"      -> <<"stdout", "stderr", "exit">>
    [] s = "double_fork" -> <<"fork", "await", "stdout", "exit">>
    [] s = "zombie"      -> <<"fork", "stdout", "exit">>
    [] s = "timeout"     -> <<"idle">>
    [] s = "stdout"      -> <<"flood_stdout">>
    [] s = "stderr"      -> <<"flood_stderr">>
    [] s = "fan-out"     -> <<"fork", "fork", "fork", "idle">>
    [] s = "forbidden"   -> <<"forbidden">>
    [] s = "spoof"       -> <<"stdout", "exit">>

ScriptOfChild(p) ==
  CASE scenario = "double_fork" /\ p = Primary -> <<"fork", "notify", "exit">>
    [] scenario = "zombie"                     -> <<"exit">>
    [] OTHER                                   -> <<"idle">>

LifecycleInit ==
  /\ scenario \in Scenarios
  /\ life = [p \in Procs |-> "unborn"] /\ parent = [p \in Procs |-> PidOne]
  /\ script = [p \in Procs |-> <<>>]
  /\ doomed = {} /\ exit_status = "none" /\ notified = FALSE
  /\ pipe = [s \in Streams |-> 0] /\ open = [s \in Streams |-> FALSE]
  /\ ready_pipe = 0
  /\ pc = "fork" /\ infrastructure_error = FALSE
  /\ terminating = FALSE /\ timed_out = FALSE
  /\ termination_signal_received = FALSE
  /\ deadline_passed = FALSE /\ grace = "off" /\ final_grace = "off"
  /\ primary_reaped = FALSE /\ all_reaped = FALSE /\ descendants_reaped = 0
  /\ observed = [s \in Streams |-> 0] /\ overflow = [s \in Streams |-> FALSE]
  /\ ready_open = FALSE /\ ready_seen = FALSE
  /\ frame = NoFrame /\ faulted = FALSE

MayFail(kind) == {FALSE} \cup {kind \in Faults}
Failing(failed) == faulted' = (faulted \/ failed)

------------------------------------------------------------------------------
(* The scenario's processes, between any two steps of PID 1.               *)

Runs(p, instruction) ==
  /\ p \in Live \ doomed
  /\ script[p] # <<>> /\ Head(script[p]) = instruction

Proceeds(p) == script' = [script EXCEPT ![p] = Tail(@)]

(* The end of a process: what it leaves behind belongs to PID 1. *)
Ends(p, status) ==
  /\ life' = [life EXCEPT ![p] = "zombie"]
  /\ parent' = [q \in Procs |-> IF parent[q] = p THEN PidOne ELSE parent[q]]
  /\ exit_status' = IF p = Primary THEN status ELSE exit_status

SupervisorUnchanged ==
  UNCHANGED <<scenario, doomed, open, pc, infrastructure_error, stopVars, clockVars,
              reapVars, captureVars, frame>>

(* child_main: confined, it says so and closes its end of the ready pipe.  *)
Confine(p) ==
  /\ Runs(p, "ready")
  /\ \E failed \in MayFail("confine") :
       /\ Failing(failed)
       /\ IF failed
          THEN Ends(p, "error") /\ UNCHANGED <<script, ready_pipe>>
          ELSE ready_pipe' = 1 /\ Proceeds(p) /\ UNCHANGED <<life, parent, exit_status>>
  /\ UNCHANGED <<notified, pipe>> /\ SupervisorUnchanged

(* SIGPIPE is ignored: a write to a closed pipe is an error of the scenario.*)
WriteUnit(p, s, instruction) ==
  /\ Runs(p, instruction)
  /\ IF open[s]
     THEN /\ pipe[s] < PipeCapacity
          /\ pipe' = [pipe EXCEPT ![s] = @ + 1]
          /\ IF instruction = s THEN Proceeds(p) ELSE UNCHANGED script
          /\ UNCHANGED <<life, parent, exit_status>>
     ELSE Ends(p, "write_error") /\ UNCHANGED <<pipe, script>>
  /\ UNCHANGED <<notified, ready_pipe, faulted>> /\ SupervisorUnchanged

Write(p) ==
  \/ WriteUnit(p, "stdout", "stdout") \/ WriteUnit(p, "stdout", "flood_stdout")
  \/ WriteUnit(p, "stderr", "stderr") \/ WriteUnit(p, "stderr", "flood_stderr")

ForkChild(p) ==
  /\ Runs(p, "fork")
  /\ \E failed \in MayFail("clone") :
       /\ Failing(failed)
       /\ IF failed
          THEN Ends(p, "error") /\ UNCHANGED script
          ELSE \E q \in Procs :
                 /\ life[q] = "unborn" /\ \A r \in Procs : r < q => life[r] # "unborn"
                 /\ life' = [life EXCEPT ![q] = "live"]
                 /\ parent' = [parent EXCEPT ![q] = p]
                 /\ script' = [script EXCEPT ![p] = Tail(@), ![q] = ScriptOfChild(p)]
                 /\ UNCHANGED exit_status
  /\ UNCHANGED <<notified, pipe, ready_pipe>> /\ SupervisorUnchanged

(* The intermediate process tells the primary that the daemon exists.      *)
Notify(p) ==
  /\ Runs(p, "notify") /\ Proceeds(p)
  /\ notified' = TRUE
  /\ UNCHANGED <<life, parent, exit_status, pipe, ready_pipe, faulted>>
  /\ SupervisorUnchanged

(* It reads a byte, or the end of the pipe of an intermediate that failed. *)
Await(p) ==
  /\ Runs(p, "await")
  /\ notified \/ \A q \in Live : q = p
  /\ IF notified
     THEN Proceeds(p) /\ UNCHANGED <<life, parent, exit_status>>
     ELSE Ends(p, "error") /\ UNCHANGED script
  /\ UNCHANGED <<notified, pipe, ready_pipe, faulted>> /\ SupervisorUnchanged

Finish(p) ==
  /\ \/ Runs(p, "exit") /\ Ends(p, "zero") /\ Proceeds(p)
     \/ Runs(p, "forbidden") /\ Ends(p, "SIGSYS") /\ Proceeds(p)
     \/ p \in Live \cap doomed /\ Ends(p, "SIGKILL") /\ UNCHANGED script
  /\ UNCHANGED <<notified, pipe, ready_pipe, faulted>> /\ SupervisorUnchanged

(* SIGTERM, SIGINT or SIGHUP reaches PID 1. *)
Signal ==
  /\ pc \notin {"fork", "reported", "silent"} /\ ~termination_signal_received
  /\ termination_signal_received' = TRUE
  /\ UNCHANGED <<processVars, doomed, streamVars, pc, infrastructure_error, terminating,
                 timed_out, clockVars, reapVars, captureVars, frame, faulted>>

Clock ==
  /\ pc \notin {"fork", "reported", "silent"}
  /\ \/ ~deadline_passed /\ deadline_passed' = TRUE /\ UNCHANGED <<grace, final_grace>>
     \/ grace = "armed" /\ grace' = "expired" /\ UNCHANGED <<deadline_passed, final_grace>>
     \/ /\ final_grace = "armed" /\ final_grace' = "expired"
        /\ UNCHANGED <<deadline_passed, grace>>
  /\ UNCHANGED <<processVars, doomed, streamVars, pc, infrastructure_error, stopVars,
                 reapVars, captureVars, frame, faulted>>

------------------------------------------------------------------------------
(* PID 1.                                                                  *)

KillAll == doomed' = doomed \cup Live

(* Everything up to the fork; a failure ends without a frame. *)
Fork ==
  /\ pc = "fork"
  /\ \E failed \in MayFail("fork") :
       /\ Failing(failed)
       /\ IF failed
          THEN pc' = "silent" /\ UNCHANGED <<life, script, open, ready_open>>
          ELSE /\ life' = [life EXCEPT ![Primary] = "live"]
               /\ script' = [script EXCEPT ![Primary] = <<"ready">> \o PrimaryScript(scenario)]
               /\ open' = [s \in Streams |-> TRUE] /\ ready_open' = TRUE
               /\ pc' = "reap"
  /\ UNCHANGED <<scenario, parent, exit_status, notified, doomed, pipe, ready_pipe,
                 infrastructure_error, stopVars, clockVars, reapVars, observed, overflow,
                 ready_seen, frame>>

(* reap_available, in the main loop and in the loop after it.              *)
Reaping == pc \in {"reap", "sweep_reap"}
AfterReaping == IF pc = "reap" THEN "decide" ELSE "sweep_clock"
Children == {p \in Present : parent[p] = PidOne}

(* Mutant: only the primary is counted. *)
ReapPrimaryCounted(p) ==
  /\ Reaping /\ p \in Children /\ life[p] = "zombie"
  /\ life' = [life EXCEPT ![p] = "reaped"]
  /\ descendants_reaped' = descendants_reaped + (IF p = Primary THEN 1 ELSE 0)
  /\ primary_reaped' = (primary_reaped \/ p = Primary)
  /\ UNCHANGED <<scenario, parent, script, exit_status, notified, doomed, streamVars, pc,
                 infrastructure_error, stopVars, clockVars, all_reaped, captureVars,
                 frame, faulted>>

ReapChild(p) ==
  /\ Reaping /\ p \in Children /\ life[p] = "zombie"
  /\ life' = [life EXCEPT ![p] = "reaped"]
  /\ descendants_reaped' = descendants_reaped + 1
  /\ primary_reaped' = (primary_reaped \/ p = Primary)
  /\ UNCHANGED <<scenario, parent, script, exit_status, notified, doomed, streamVars, pc,
                 infrastructure_error, stopVars, clockVars, all_reaped, captureVars,
                 frame, faulted>>

(* 0 or ECHILD; a failing wait4 ends the second loop. *)
ReapOver ==
  /\ Reaping
  /\ \E failed \in MayFail("wait") :
       /\ Failing(failed)
       /\ ~failed => \A p \in Children : life[p] = "live"
       /\ all_reaped' = (all_reaped \/ (~failed /\ Children = {}))
       /\ infrastructure_error' = (infrastructure_error \/ failed)
       /\ pc' = IF failed /\ pc = "sweep_reap" THEN "drain" ELSE AfterReaping
  /\ UNCHANGED <<processVars, doomed, streamVars, stopVars, clockVars, primary_reaped,
                 descendants_reaped, captureVars, frame>>

StopReason ==
  \/ primary_reaped \/ termination_signal_received \/ infrastructure_error
  \/ \E s \in Streams : overflow[s]

(* Start terminating, by whichever reason comes first; kill on every turn;  *)
(* give up when the cleanup deadline has passed.  Then poll.               *)
Decide ==
  /\ pc = "decide"
  /\ LET late     == ~terminating /\ ~StopReason /\ deadline_passed
         starting == ~terminating /\ (StopReason \/ late)
         overdue  == terminating /\ ~all_reaped /\ grace = "expired"
     IN \E failed \in MayFail("poll") :
          /\ failed => ~overdue
          /\ Failing(failed)
          /\ timed_out' = (timed_out \/ late)
          /\ terminating' = (terminating \/ starting)
          /\ grace' = IF starting THEN "armed" ELSE grace
          /\ IF starting \/ (terminating /\ ~all_reaped) THEN KillAll ELSE UNCHANGED doomed
          /\ infrastructure_error' = (infrastructure_error \/ overdue \/ failed)
          /\ pc' = IF overdue THEN "sweep" ELSE "stdout"
  /\ UNCHANGED <<processVars, streamVars, termination_signal_received, deadline_passed,
                 final_grace, reapVars, captureVars, frame>>

(* Mutant: a capture that is full is reported as one that overflowed. *)
CapturedFull(s) ==
  LET amount == IF pipe[s] < Cap + 1 - observed[s] THEN pipe[s] ELSE Cap + 1 - observed[s]
  IN [total |-> observed[s] + amount, left |-> pipe[s] - amount,
      overflow |-> observed[s] + amount >= Cap,
      closes |-> observed[s] + amount >= Cap \/ Live = {}]

(* drain_capture: up to one unit past the cap, to end of file or EAGAIN.    *)
(* Every process of the scenario holds both streams open.                  *)
Captured(s) ==
  LET amount == IF pipe[s] < Cap + 1 - observed[s] THEN pipe[s] ELSE Cap + 1 - observed[s]
  IN [total |-> observed[s] + amount, left |-> pipe[s] - amount,
      overflow |-> observed[s] + amount > Cap,
      closes |-> observed[s] + amount > Cap \/ Live = {}]

Drain(streams) ==
  LET drained == {s \in streams : open[s]}
  IN /\ observed' = [s \in Streams |-> IF s \in drained THEN Captured(s).total
                                       ELSE observed[s]]
     /\ overflow' = [s \in Streams |-> IF s \in drained THEN Captured(s).overflow
                                       ELSE overflow[s]]
     /\ pipe' = [s \in Streams |-> IF s \in drained THEN Captured(s).left ELSE pipe[s]]

DrainStream(s, next) ==
  /\ pc = s
  /\ Drain({s})
  /\ open' = [open EXCEPT ![s] = @ /\ ~Captured(s).closes]
  /\ pc' = next
  /\ UNCHANGED <<processVars, doomed, ready_pipe, infrastructure_error, stopVars, clockVars,
                 reapVars, ready_open, ready_seen, frame, faulted>>

DrainStdout == DrainStream("stdout", "stderr")
DrainStderr == DrainStream("stderr", "ready")

ReadReady ==
  /\ ready_seen' = (ready_seen \/ (ready_open /\ ready_pipe > 0))
  /\ ready_pipe' = IF ready_open THEN 0 ELSE ready_pipe

ReadyWriterAlive == Primary \in Live /\ Head(script[Primary]) = "ready"

(* drain_ready, and the test at the end of a turn. *)
DrainReady ==
  /\ pc = "ready"
  /\ ReadReady /\ ready_open' = (ready_open /\ ReadyWriterAlive)
  /\ pc' = IF all_reaped /\ ~ready_open' /\ \A s \in Streams : ~open[s]
           THEN "sweep" ELSE "reap"
  /\ UNCHANGED <<processVars, doomed, pipe, open, infrastructure_error, stopVars, clockVars,
                 reapVars, observed, overflow, frame, faulted>>

(* After the loop: a second, equally bounded attempt to clean up. *)
Sweep ==
  /\ pc = "sweep"
  /\ IF all_reaped
     THEN pc' = "drain" /\ UNCHANGED <<doomed, final_grace>>
     ELSE pc' = "sweep_reap" /\ final_grace' = "armed" /\ KillAll
  /\ UNCHANGED <<processVars, streamVars, infrastructure_error, stopVars, deadline_passed,
                 grace, reapVars, captureVars, frame, faulted>>

(* Mutant: the second deadline is not looked at. *)
SweepClockForever ==
  /\ pc = "sweep_clock"
  /\ pc' = IF all_reaped THEN "drain" ELSE "sweep_reap"
  /\ IF all_reaped THEN UNCHANGED doomed ELSE KillAll
  /\ UNCHANGED <<processVars, streamVars, infrastructure_error, stopVars, clockVars,
                 reapVars, captureVars, frame, faulted>>

SweepClock ==
  /\ pc = "sweep_clock"
  /\ LET overdue == ~all_reaped /\ final_grace = "expired" IN
     /\ infrastructure_error' = (infrastructure_error \/ overdue)
     /\ pc' = IF overdue \/ all_reaped THEN "drain" ELSE "sweep_reap"
     /\ IF overdue \/ all_reaped THEN UNCHANGED doomed ELSE KillAll
  /\ UNCHANGED <<processVars, streamVars, stopVars, clockVars, reapVars, captureVars,
                 frame, faulted>>

FinalDrain ==
  /\ pc = "drain"
  /\ Drain(Streams) /\ open' = [s \in Streams |-> FALSE]
  /\ ReadReady /\ ready_open' = FALSE
  /\ pc' = "report"
  /\ UNCHANGED <<processVars, doomed, infrastructure_error, stopVars, clockVars, reapVars,
                 frame, faulted>>

------------------------------------------------------------------------------
(* The result frame.                                                       *)

Confinement == {"NO_NEW_PRIVS", "DUMPABLE_DISABLED", "SECCOMP_INSTALLED"}

Raised(conditions) == {f \in DOMAIN conditions : conditions[f]}

ResultFlags(sole) ==
  {"REQUEST_VALIDATED", "PID1_VERIFIED"}
    \cup (IF ready_seen THEN Confinement ELSE {})
    \cup Raised([STDOUT_OVERFLOW |-> overflow["stdout"],
                 STDERR_OVERFLOW |-> overflow["stderr"],
                 TIMED_OUT |-> timed_out, PRIMARY_REAPED |-> primary_reaped,
                 ALL_DESCENDANTS_REAPED |-> all_reaped, SOLE_PID1 |-> sole,
                 TERMINATION_SIGNAL_RECEIVED |-> termination_signal_received])

Status == IF primary_reaped THEN exit_status ELSE "none"

Outcome(error) ==
  IF error THEN "SUPERVISOR_ERROR"
  ELSE IF overflow["stdout"] THEN "STDOUT_OVERFLOW"
  ELSE IF overflow["stderr"] THEN "STDERR_OVERFLOW"
  ELSE IF timed_out THEN "WALL_TIMEOUT"
  ELSE IF Status \in {"SIGKILL", "SIGSYS"} THEN "SIGNAL"
  ELSE IF Status # "zero" THEN "NONZERO"
  ELSE "NORMAL"

Report ==
  /\ pc = "report"
  /\ \E unreadable \in MayFail("proc"), unsent \in MayFail("result") :
       LET sole  == Present = {} /\ ~unreadable
           error == infrastructure_error \/ ~ready_seen \/ ~sole
       IN /\ Failing(unreadable \/ unsent)
          /\ infrastructure_error' = error
          /\ IF unsent THEN pc' = "silent" /\ UNCHANGED frame
             ELSE /\ pc' = "reported"
                  /\ frame' = [outcome |-> Outcome(error), status |-> Status,
                               flags |-> ResultFlags(sole), observed |-> observed,
                               reaped |-> descendants_reaped]
  /\ UNCHANGED <<processVars, doomed, streamVars, stopVars, clockVars, reapVars,
                 captureVars>>

Namespace ==
  \E p \in Procs :
    \/ Confine(p) \/ Write(p) \/ ForkChild(p) \/ Notify(p) \/ Await(p) \/ Finish(p)

Supervisor ==
  \/ Fork \/ (\E p \in Procs : ReapChild(p)) \/ ReapOver \/ Decide \/ DrainStdout
  \/ DrainStderr \/ DrainReady \/ Sweep \/ SweepClock \/ FinalDrain \/ Report

LifecycleNext == Namespace \/ Signal \/ Clock \/ Supervisor

(* PID 1 is scheduled and time goes on; no process has to make progress,    *)
(* not even to die.                                                        *)
LifecycleSpec ==
  /\ LifecycleInit /\ [][LifecycleNext]_lifecycleVars
  /\ WF_lifecycleVars(Supervisor) /\ WF_lifecycleVars(Clock)

------------------------------------------------------------------------------
(* _validate_result_semantics.                                             *)

Incidents(f) == f.flags \cap {"STDOUT_OVERFLOW", "STDERR_OVERFLOW", "TIMED_OUT"}

ChildStatusValid(f) ==
  IF "PRIMARY_REAPED" \in f.flags
  THEN f.reaped >= 1 /\ f.status # "none" ELSE f.status = "none"

OutcomeValid(f) ==
  CASE f.outcome = "NORMAL"  -> f.status = "zero" /\ Incidents(f) = {}
    [] f.outcome = "NONZERO" -> f.status \in {"error", "write_error"} /\ Incidents(f) = {}
    [] f.outcome = "SIGNAL"  -> f.status \in {"SIGKILL", "SIGSYS"} /\ Incidents(f) = {}
    [] f.outcome = "WALL_TIMEOUT"     -> Incidents(f) = {"TIMED_OUT"}
    [] f.outcome = "SUPERVISOR_ERROR" -> Incidents(f) = {}
    [] OTHER -> Incidents(f) = {f.outcome}

Accepted(f) ==
  /\ "REQUEST_VALIDATED" \in f.flags
  /\ "SOLE_PID1" \in f.flags => "PID1_VERIFIED" \in f.flags
  /\ "ALL_DESCENDANTS_REAPED" \in f.flags => "PRIMARY_REAPED" \in f.flags
  /\ ChildStatusValid(f)
  /\ "STDOUT_OVERFLOW" \in f.flags <=> f.observed["stdout"] > Cap
  /\ "STDERR_OVERFLOW" \in f.flags <=> f.observed["stderr"] > Cap
  /\ OutcomeValid(f)

------------------------------------------------------------------------------
(* _validate_fixed_result: what the canary expects of each scenario.        *)

Timeouts == {"timeout", "fan-out"}

MandatoryFlags ==
  {"REQUEST_VALIDATED", "PID1_VERIFIED", "PRIMARY_REAPED", "ALL_DESCENDANTS_REAPED",
   "SOLE_PID1"} \cup Confinement

ExpectedOutcome(s) ==
  CASE s \in Timeouts   -> "WALL_TIMEOUT"
    [] s = "stdout"     -> "STDOUT_OVERFLOW"
    [] s = "stderr"     -> "STDERR_OVERFLOW"
    [] s = "forbidden"  -> "SIGNAL"
    [] OTHER            -> "NORMAL"

ExpectedStreams(s) ==
  [t \in Streams |->
     CASE s = t        -> Cap + 1
       [] s = "normal" -> 1
       [] s \in {"double_fork", "zombie", "spoof"} /\ t = "stdout" -> 1
       [] OTHER        -> 0]

ExpectedStatus(s) ==
  CASE s \in Timeouts  -> {"SIGKILL"}
    [] s \in Streams   -> {"SIGKILL", "write_error"}
    [] s = "forbidden" -> {"SIGSYS"}
    [] OTHER           -> {"zero"}

(* Mutant: it is not asked how many processes there were. *)
MinimumReapedOne(s) == 1

MinimumReaped(s) ==
  CASE s = "double_fork" -> 3 [] s = "zombie" -> 2 [] s = "fan-out" -> 4 [] OTHER -> 1

FixedResultValid(f) ==
  /\ Accepted(f)
  /\ f.outcome = ExpectedOutcome(scenario)
  /\ MandatoryFlags \subseteq f.flags /\ "TERMINATION_SIGNAL_RECEIVED" \notin f.flags
  /\ f.observed = ExpectedStreams(scenario)
  /\ f.reaped >= MinimumReaped(scenario)
  /\ f.status \in ExpectedStatus(scenario)

------------------------------------------------------------------------------
(* Correctness. *)

(* The frame of a run that left no process behind is one that the decoder   *)
(* accepts: what the decoder and its test say of a timeout and an overflow, *)
(* that no outcome relabels them, holds of what PID 1 writes.              *)
FrameAccepted ==
  pc = "reported" /\ all_reaped /\ "SOLE_PID1" \in frame.flags => Accepted(frame)

(* The decoder refuses a frame for one reason only: PID 1 met a second      *)
(* incident after the first, or an error after an incident, and reports     *)
(* both.  Every other frame it can write is accepted.                      *)
RefusedOnlyForTwo ==
  pc = "reported" /\ ~Accepted(frame) =>
    \/ Cardinality(Incidents(frame)) > 1
    \/ frame.outcome = "SUPERVISOR_ERROR" /\ Incidents(frame) # {}

(* A run that nothing disturbed passes the canary: no failing call, no      *)
(* signal, no cleanup that was given up, and the deadline only strikes a    *)
(* scenario that waits for it, when all its processes exist.               *)
Disturbed ==
  \/ faulted \/ termination_signal_received
  \/ "expired" \in {grace, final_grace}
  \/ timed_out /\ scenario \notin Timeouts
  \/ timed_out /\ script[Primary] # <<"idle">>

UndisturbedPasses == pc = "reported" /\ ~Disturbed => FixedResultValid(frame)

(* What passes the canary has happened: the primary played its scenario to  *)
(* the end or to its endless last step, after every fork of the scenario;   *)
(* and no process is left.  A descendant may have been killed before its    *)
(* own end: the sleep that is to make a zombie of it is only a delay.       *)
PassedMeansPlayed ==
  pc = "reported" /\ FixedResultValid(frame) =>
    /\ Present = {}
    /\ script[Primary] \in {<<>>, <<"idle">>, <<"flood_stdout">>, <<"flood_stderr">>}
    /\ \A p \in Procs : life[p] # "unborn" =>
         script[p] = <<>> \/ Head(script[p]) \notin {"ready", "fork", "notify"}

(* PID 1 answers or exits, whether processes die or not. *)
Answers == <>(pc \in {"reported", "silent"})
=============================================================================
