--------------------------- MODULE LaunchController ---------------------------
(***************************************************************************)
(* development_reviewed_bash_canary.py: one launch of the fixed case.  The  *)
(* controller starts systemd-run (the client), which asks the user manager *)
(* for a transient unit; the unit's processes speak over two pipes, change *)
(* the workspace and fill the snapshot sink, a memory file the controller   *)
(* seals.  The controller has a deadline, may fail or be interrupted at any *)
(* point, and must not accept a result that something can still change, nor *)
(* leave processes behind.                                                 *)
(*                                                                         *)
(* The client, the manager and the unit's processes are the environment;   *)
(* the controller trusts none of them.  In particular the client may exit   *)
(* with any status at any time, and its start request may still be waiting  *)
(* at the manager while the controller asks whether the unit is inactive.   *)
(***************************************************************************)
EXTENDS Naturals, FiniteSets

CONSTANTS
  Contents,        \* what the workspace, or a snapshot of it, may hold
  Blank,           \* the workspace as it was prepared
  Expected,        \* the workspace the fixture verifier passes
  MaxProcesses     \* bound: processes of the unit (TasksMax)

ASSUME LaunchAssumption ==
  /\ Blank \in Contents /\ Expected \in Contents
  /\ {"nothing", "flood"} \cap Contents = {}
  /\ MaxProcesses \in Nat

VARIABLES
  pc,
  ending,          \* why the unit is being stopped: the branch that called
  unit_error,      \* _terminate_and_reap: quiescence was not verified
  unreaped,        \* "outer reviewed Bash process could not be reaped"
  open,            \* streams still registered with the selector
  got,             \* buffers: what was read from each stream
  snapshot,        \* bytes read from the sink
  verdict,         \* how run_development_reviewed_bash_canary will end
  interrupted,     \* a KeyboardInterrupt was delivered
  fds_open,        \* the descriptors the unit is to open by /proc/<pid>/fd
  client, client_ok,                 \* systemd-run, and whether it returned 0
  unit, live,                        \* the transient unit and its processes
  held, said,      \* streams the unit holds, and what it wrote to each
  workspace, sink, sealed,
  verified,        \* the last quiescence check passed
  late             \* the unit was started after a check that passed

controlVars == <<pc, ending, unit_error, unreaped, open, got, snapshot, verdict>>
unitVars    == <<unit, live, held, late>>
dataVars    == <<said, workspace, sink>>
vars == <<controlVars, interrupted, fds_open, client, client_ok, unitVars,
          dataVars, sealed, verified>>

Streams == {"stdout", "stderr"}
Words   == Contents \cup {"nothing", "flood"}
Endings == {"captured", "timed_out", "truncated", "launch_error", "error",
            "interrupted"}
Labels  == {"spawn", "serve", "wait", "stop", "show", "read", "reread",
            "seal", "reap", "reap_wait", "reap_again", "reaped", "finally",
            "judge", "compare", "verify", "close", "done"}

ControlTypes ==
  /\ pc \in Labels /\ ending \in Endings
  /\ unit_error \in BOOLEAN /\ unreaped \in BOOLEAN
  /\ open \in SUBSET Streams
  /\ got \in [Streams -> Words]
  /\ snapshot \in Contents
  /\ verdict \in {"none", "accepted", "refused"}
  /\ interrupted \in BOOLEAN /\ fds_open \in BOOLEAN

EnvironmentTypes ==
  /\ client \in {"none", "running", "dying", "zombie", "reaped"}
  /\ client_ok \in BOOLEAN
  /\ unit \in {"absent", "queued", "active", "stopping", "gone"}
  /\ held \in SUBSET Streams
  /\ said \in [Streams -> Words]
  /\ workspace \in Contents /\ sink \in Contents
  /\ sealed \in BOOLEAN /\ verified \in BOOLEAN /\ late \in BOOLEAN

TypeOK == ControlTypes /\ EnvironmentTypes /\ live \in 0 .. MaxProcesses

Init ==
  /\ pc = "spawn" /\ ending = "captured" /\ verdict = "none"
  /\ unit_error = FALSE /\ unreaped = FALSE /\ interrupted = FALSE
  /\ open = {} /\ fds_open = TRUE
  /\ got = [s \in Streams |-> "nothing"] /\ said = [s \in Streams |-> "nothing"]
  /\ snapshot = Blank /\ sink = Blank /\ sealed = FALSE
  /\ client = "none" /\ client_ok = FALSE
  /\ unit = "absent" /\ live = 0 /\ held = {}
  /\ workspace = Blank
  /\ verified = FALSE /\ late = FALSE

Exited == client \in {"zombie", "reaped"}        \* poll() is not None

------------------------------------------------------------------------------
(* The environment: the client, the manager and the unit's processes.      *)

ClientAsks ==
  /\ client = "running" /\ unit = "absent"
  /\ unit' = "queued"
  /\ UNCHANGED <<controlVars, interrupted, fds_open, client, client_ok, live,
                 held, late, dataVars, sealed, verified>>

(* systemd-run ends by itself, or of the SIGKILL it was sent.              *)
ClientEnds ==
  /\ client \in {"running", "dying"}
  /\ client' = "zombie"
  /\ client_ok' \in IF client = "running" THEN BOOLEAN ELSE {FALSE}
  /\ UNCHANGED <<controlVars, interrupted, fds_open, unitVars, dataVars, sealed,
                 verified>>

(* The manager starts the unit, which opens the controller's descriptors:  *)
(* once these are closed the start fails.                                  *)
UnitStarts ==
  /\ unit = "queued"
  /\ \/ /\ fds_open /\ MaxProcesses > 0
        /\ unit' = "active" /\ live' = 1 /\ held' = Streams
        /\ late' = verified
     \/ /\ unit' = "gone"
        /\ UNCHANGED <<live, held, late>>
  /\ UNCHANGED <<controlVars, interrupted, fds_open, client, client_ok, dataVars,
                 sealed, verified>>

(* Mutant: RuntimeMaxSec is left out of the unit's properties. *)
NoRuntimeLimit == FALSE

(* The main process exits, or RuntimeMaxSec expires: KillMode=control-group *)
(* has the manager stop the whole unit.                                    *)
RuntimeLimit ==
  /\ unit = "active"
  /\ unit' = "stopping"
  /\ UNCHANGED <<controlVars, interrupted, fds_open, client, client_ok, live,
                 held, late, dataVars, sealed, verified>>

(* A process of the unit forks, or exits.                                  *)
UnitForksOrExits ==
  /\ live > 0
  /\ live' \in {live - 1, live + 1} \cap 0 .. MaxProcesses
  /\ unit' \in IF live' < live THEN {unit, "stopping"} ELSE {unit}
  /\ UNCHANGED <<controlVars, interrupted, fds_open, client, client_ok, held,
                 late, dataVars, sealed, verified>>

(* SIGKILL to what is left in the control group; then the unit is inactive. *)
UnitStops ==
  /\ unit = "stopping" \/ (unit = "active" /\ live = 0)
  /\ live' = 0
  /\ unit' = IF live > 0 THEN unit ELSE "gone"
  /\ UNCHANGED <<controlVars, interrupted, fds_open, client, client_ok, held,
                 late, dataVars, sealed, verified>>

(* The unit's processes do as they like: write any result frame, or more   *)
(* than the controller takes; close a stream; rewrite the workspace, or the *)
(* sink unless it is sealed.                                               *)
UnitSpeaks ==
  /\ live > 0
  /\ \E s \in held :
       \E word \in IF s = "stdout" /\ said[s] = "nothing"
                   THEN Contents \cup {"flood"} ELSE {"flood"} :
         said' = [said EXCEPT ![s] = word]
  /\ UNCHANGED <<controlVars, interrupted, fds_open, client, client_ok, unitVars,
                 workspace, sink, sealed, verified>>

UnitCloses ==
  /\ live > 0
  /\ \E s \in held : held' = held \ {s}
  /\ UNCHANGED <<controlVars, interrupted, fds_open, client, client_ok, unit,
                 live, late, dataVars, sealed, verified>>

UnitWrites ==
  /\ live > 0
  /\ \/ workspace' \in Contents /\ sink' = sink
     \/ ~sealed /\ sink' \in Contents /\ workspace' = workspace
  /\ UNCHANGED <<controlVars, interrupted, fds_open, client, client_ok, unitVars,
                 said, sealed, verified>>

worldVars == <<interrupted, fds_open, client, client_ok, unitVars, dataVars,
               sealed, verified>>

------------------------------------------------------------------------------
(* The controller.  _run_fixed_process: start the client.                  *)
Spawn ==
  /\ pc = "spawn"
  /\ \/ client' = "running" /\ open' = Streams /\ pc' = "serve"
        /\ UNCHANGED ending
     \/ ending' = "launch_error" /\ pc' = "judge"        \* Popen raises
        /\ UNCHANGED <<client, open>>
  /\ UNCHANGED <<unit_error, unreaped, got, snapshot, verdict, interrupted,
                 fds_open, client_ok, unitVars, dataVars, sealed, verified>>

(* Every branch that gives up stops the unit and reaps the client.         *)
Terminate(why) ==
  /\ pc' = "stop" /\ ending' = why
  /\ unit_error' = FALSE

AtEof(s) == Exited /\ unit # "queued" /\ (live = 0 \/ s \notin held)

(* The selector loop: a block is added to its buffer, unless it exceeds the *)
(* cap; a stream at its end is unregistered.                               *)
Serve ==
  /\ pc = "serve"
  /\ \/ \E s \in open :
          /\ said[s] # got[s] /\ said[s] # "flood"
          /\ got' = [got EXCEPT ![s] = said[s]]
          /\ UNCHANGED <<pc, ending, unit_error, open>>
     \/ \E s \in open :
          /\ said[s] = "flood"
          /\ got' = [got EXCEPT ![s] = "flood"]
          /\ Terminate("truncated") /\ UNCHANGED open
     \/ \E s \in open :
          /\ said[s] = got[s] /\ AtEof(s)
          /\ open' = open \ {s}
          /\ UNCHANGED <<pc, ending, unit_error, got>>
     \/ open = {} /\ pc' = "wait" /\ UNCHANGED <<ending, unit_error, open, got>>
  /\ UNCHANGED <<unreaped, snapshot, verdict, worldVars>>

(* An OSError of the loop or of its set-up: the last handler.              *)
LoopFails ==
  /\ pc = "serve" /\ open # {}
  /\ Terminate("launch_error")
  /\ UNCHANGED <<open, got, unreaped, snapshot, verdict, worldVars>>

(* Mutant: the loop looks at the clock only after a block arrived. *)
DeadlineAfterRead ==
  /\ pc = "serve" /\ open # {} /\ \E s \in open : got[s] # "nothing"
  /\ Terminate("timed_out")
  /\ UNCHANGED <<open, got, unreaped, snapshot, verdict, worldVars>>

Deadline ==
  /\ pc = "serve" /\ open # {}
  /\ Terminate("timed_out")
  /\ UNCHANGED <<open, got, unreaped, snapshot, verdict, worldVars>>

(* Mutant: a client that has exited is taken as the unit's end. *)
WaitThenRead ==
  /\ pc = "wait"
  /\ \/ /\ Exited /\ client' = "reaped"
        /\ pc' = "read" /\ UNCHANGED <<ending, unit_error>>
     \/ ~Exited /\ Terminate("timed_out") /\ UNCHANGED client
  /\ UNCHANGED <<unreaped, open, got, snapshot, verdict, interrupted, fds_open,
                 client_ok, unitVars, dataVars, sealed, verified>>

(* Both streams have ended: the client has one more second to exit.        *)
Wait ==
  /\ pc = "wait"
  /\ \/ /\ Exited /\ client' = "reaped"
        /\ pc' = "stop" /\ UNCHANGED <<ending, unit_error>>
     \/ ~Exited /\ Terminate("timed_out") /\ UNCHANGED client
  /\ UNCHANGED <<unreaped, open, got, snapshot, verdict, interrupted, fds_open,
                 client_ok, unitVars, dataVars, sealed, verified>>

(* _stop_and_verify_unit: systemctl kill and systemctl stop may fail, time *)
(* out or kill only a part, and are not looked at.                         *)
StopUnit ==
  /\ pc = "stop" /\ pc' = "show"
  /\ live' \in IF unit \in {"active", "stopping"} THEN 0 .. live ELSE {live}
  /\ unit' \in IF unit = "active" THEN {unit, "stopping"} ELSE {unit}
  /\ UNCHANGED <<ending, unit_error, unreaped, open, got, snapshot, verdict,
                 interrupted, fds_open, client, client_ok, held, late, dataVars,
                 sealed, verified>>

(* Mutant: systemctl stop is trusted, its effect is not checked. *)
AnyState == TRUE

(* systemctl show: loaded or not found, inactive, dead, no control group.  *)
(* A unit whose start request has not been read yet looks like that too.   *)
Quiescent == unit \in {"absent", "queued", "gone"}

ShowUnit ==
  /\ pc = "show"
  /\ \/ /\ Quiescent
        /\ verified' = TRUE
        /\ pc' = IF ending = "captured" THEN "read" ELSE "reap"
        /\ UNCHANGED <<ending, unit_error>>
     \/ /\ verified' = FALSE        \* another state, or no answer
        /\ IF ending = "captured" THEN Terminate("error")
           ELSE pc' = "reap" /\ unit_error' = TRUE /\ UNCHANGED ending
  /\ UNCHANGED <<unreaped, open, got, snapshot, verdict, interrupted, fds_open,
                 client, client_ok, unitVars, dataVars, sealed>>

(* _read_snapshot_sink: two equal reads, the seals, a third equal read.    *)
ReadFirst ==
  /\ pc = "read"
  /\ \/ snapshot' = sink /\ pc' = "reread" /\ UNCHANGED <<ending, unit_error>>
     \/ Terminate("error") /\ UNCHANGED snapshot
  /\ UNCHANGED <<unreaped, open, got, verdict, worldVars>>

ReadAgain ==
  /\ pc = "reread"
  /\ \/ sink = snapshot /\ pc' = "seal" /\ UNCHANGED <<ending, unit_error>>
     \/ Terminate("error")
  /\ UNCHANGED <<unreaped, open, got, snapshot, verdict, worldVars>>

Seal ==
  /\ pc = "seal"
  /\ sealed' \in {sealed, TRUE}
  /\ \/ sealed' /\ sink = snapshot /\ pc' = "judge" /\ UNCHANGED <<ending, unit_error>>
     \/ Terminate("error")
  /\ UNCHANGED <<unreaped, open, got, snapshot, verdict, interrupted, fds_open,
                 client, client_ok, unitVars, dataVars, verified>>

(* _terminate_and_reap: whatever became of the unit, SIGKILL the client's   *)
(* process group, wait a second, kill once more, wait another second.      *)
Reap ==
  /\ pc = "reap" /\ pc' = "reap_wait"
  /\ client' = IF Exited THEN "reaped" ELSE "dying"
  /\ UNCHANGED <<ending, unit_error, unreaped, open, got, snapshot, verdict,
                 interrupted, fds_open, client_ok, unitVars, dataVars, sealed,
                 verified>>

ReapWait ==
  /\ pc = "reap_wait"
  /\ IF Exited THEN client' = "reaped" /\ pc' = "reaped" /\ unreaped' = FALSE
               ELSE pc' = "reap_again" /\ UNCHANGED <<client, unreaped>>
  /\ UNCHANGED <<ending, unit_error, open, got, snapshot, verdict, interrupted,
                 fds_open, client_ok, unitVars, dataVars, sealed, verified>>

ReapAgain ==
  /\ pc = "reap_again" /\ pc' = "reaped"
  /\ unit_error' = TRUE
  /\ unreaped' = ~Exited
  /\ client' = IF Exited THEN "reaped" ELSE client
  /\ UNCHANGED <<ending, open, got, snapshot, verdict, interrupted, fds_open,
                 client_ok, unitVars, dataVars, sealed, verified>>

(* The error of a clean-up in the body reaches the first handler, which    *)
(* cleans up again; that of a clean-up in a handler, or in "finally", is   *)
(* raised.  Without an error a result is returned, unless one was pending. *)
InBody(why) == why \in {"captured", "timed_out", "truncated"}

Reaped ==
  /\ pc = "reaped"
  /\ \/ unit_error /\ InBody(ending) /\ Terminate("error") /\ UNCHANGED verdict
     \/ /\ ~(unit_error /\ InBody(ending))
        /\ IF unit_error \/ ending \in {"error", "interrupted"}
           THEN pc' = "close" /\ verdict' = "refused"
           ELSE pc' = "judge" /\ UNCHANGED verdict
        /\ UNCHANGED <<ending, unit_error>>
  /\ UNCHANGED <<unreaped, open, got, snapshot, worldVars>>

(* A KeyboardInterrupt passes the handlers by.  In the body it reaches the *)
(* "finally" with killed = False; inside a handler's clean-up the handler  *)
(* has set killed, so nothing more is done.                                *)
Interrupt ==
  /\ ~interrupted /\ pc \notin {"spawn", "finally", "close", "done"}
  /\ interrupted' = TRUE
  /\ IF InBody(ending) /\ pc \notin {"judge", "compare", "verify"}
     THEN pc' = "finally" /\ UNCHANGED verdict
     ELSE pc' = "close" /\ verdict' = "refused"
  /\ UNCHANGED <<ending, unit_error, unreaped, open, got, snapshot, fds_open,
                 client, client_ok, unitVars, dataVars, sealed, verified>>

(* Mutant: the last clean-up is left to the handlers. *)
FinallyNothing ==
  /\ pc = "finally"
  /\ pc' = "close" /\ verdict' = "refused"
  /\ UNCHANGED <<ending, unit_error, unreaped, open, got, snapshot, worldVars>>

Finally ==
  /\ pc = "finally"
  /\ IF Exited
     THEN /\ client' = "reaped" /\ pc' = "close" /\ verdict' = "refused"
          /\ UNCHANGED <<ending, unit_error>>
     ELSE Terminate("interrupted") /\ UNCHANGED <<client, verdict>>
  /\ UNCHANGED <<unreaped, open, got, snapshot, interrupted, fds_open, client_ok,
                 unitVars, dataVars, sealed, verified>>

(* _run_development_reviewed_bash_canary_impl: the result must be one of a *)
(* client that returned 0 and said nothing else, its frame must claim the  *)
(* bytes of the sink; then the workspace is read twice, to be compared     *)
(* with the snapshot and to be verified against the fixture.               *)
Judge ==
  /\ pc = "judge"
  /\ IF /\ ending = "captured" /\ client_ok
        /\ got["stderr"] = "nothing"
        /\ got["stdout"] \in Contents /\ got["stdout"] = snapshot
     THEN pc' = "compare" /\ UNCHANGED verdict
     ELSE pc' = "close" /\ verdict' = "refused"
  /\ UNCHANGED <<ending, unit_error, unreaped, open, got, snapshot, worldVars>>

Compare ==
  /\ pc = "compare"
  /\ IF workspace = snapshot
     THEN pc' = "verify" /\ UNCHANGED verdict
     ELSE pc' = "close" /\ verdict' = "refused"
  /\ UNCHANGED <<ending, unit_error, unreaped, open, got, snapshot, worldVars>>

Verify ==
  /\ pc = "verify" /\ pc' = "close"
  /\ verdict' = IF workspace = Expected THEN "accepted" ELSE "refused"
  /\ UNCHANGED <<ending, unit_error, unreaped, open, got, snapshot, worldVars>>

(* The last "finally": every descriptor is closed.                         *)
Close ==
  /\ pc = "close" /\ pc' = "done"
  /\ fds_open' = FALSE
  /\ UNCHANGED <<ending, unit_error, unreaped, open, got, snapshot, verdict,
                 interrupted, client, client_ok, unitVars, dataVars, sealed,
                 verified>>

------------------------------------------------------------------------------
Controller ==
  \/ Spawn \/ Serve \/ Deadline \/ Wait
  \/ StopUnit \/ ShowUnit
  \/ ReadFirst \/ ReadAgain \/ Seal
  \/ Reap \/ ReapWait \/ ReapAgain \/ Reaped \/ Finally
  \/ Judge \/ Compare \/ Verify \/ Close

Environment ==
  \/ ClientAsks \/ ClientEnds \/ UnitStarts \/ RuntimeLimit \/ UnitForksOrExits
  \/ UnitStops \/ UnitSpeaks \/ UnitCloses \/ UnitWrites

Next == Controller \/ LoopFails \/ Interrupt \/ Environment

(* The controller runs; its deadlines and the manager's timer expire; the   *)
(* manager answers requests and stops what it has decided to stop.  Nothing *)
(* is asked of the client or of the unit's processes.                      *)
Fairness ==
  /\ WF_vars(Controller)
  /\ WF_vars(UnitStarts) /\ WF_vars(RuntimeLimit) /\ WF_vars(UnitStops)

Spec == Init /\ [][Next]_vars /\ Fairness

------------------------------------------------------------------------------
(* A result is accepted only when nothing can change it any more: the unit *)
(* has ended and left no process, the sink is sealed, and the sink and the *)
(* workspace both hold what the verifier passed.  The result frame, the    *)
(* client's status and the unit's inactivity are each too weak alone.      *)
AcceptedIsFinal ==
  verdict = "accepted" =>
    /\ unit = "gone" /\ live = 0
    /\ sealed /\ sink = Expected /\ workspace = Expected

(* The runner never leaves its client behind, running or as a zombie,      *)
(* unless it says so ("could not be reaped") or is interrupted while a     *)
(* handler is already cleaning up.                                         *)
LeftReaped ==
  pc \in {"judge", "compare", "verify", "close", "done"} =>
    \/ client \in {"none", "reaped"}
    \/ unreaped
    \/ (interrupted /\ ending \in {"error", "launch_error"})

(* When the runner ends and raised no clean-up error, no process of the    *)
(* unit is left, except of a unit the manager started after the check: the *)
(* check cannot see a start request that is still waiting.  An interrupt   *)
(* after the client has ended is not followed by a clean-up.               *)
OnlyLateUnitsOutlive ==
  /\ pc \in {"judge", "compare", "verify", "close", "done"}
  /\ ~unit_error
  /\ interrupted => ending = "interrupted"
  => live = 0 \/ late

(* Whatever the client and the unit do, the controller comes to an end, and  *)
(* whatever becomes of the controller, the unit's processes all end.         *)
EverythingEnds == <>(pc = "done") /\ <>[](live = 0)
=============================================================================
