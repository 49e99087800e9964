------------------------- MODULE CandidateSupervisor -------------------------
(***************************************************************************)
(* main() of cbds-development-candidate-supervisor.c: PID 1 of a private   *)
(* namespace.  It validates its descriptors, forks the reviewed program,   *)
(* polls it to quiescence or kills it, archives the workspace and writes   *)
(* exactly one result frame.  One action per system call whose place in    *)
(* the order matters; the program and the kernel (CandidateNamespace), the *)
(* clock and a terminating signal interleave between any two of them.      *)
(*                                                                         *)
(* Variables carry the names of the C locals they stand for.               *)
(***************************************************************************)
EXTENDS CandidateNamespace, FiniteSets

CONSTANTS
  MaxUsage,        \* bound: CPU one wait4 reports, and one /proc scan finds
  Faults           \* the kinds of system call that may fail in this instance

FaultKinds ==
  {"request", "setup", "fork", "wait", "scan", "clock", "poll", "read",
   "snapshot", "sink", "result"}

ASSUME FaultsAssumption == MaxUsage \in Nat /\ Faults \subseteq FaultKinds

VARIABLES
  pc,
  infrastructure_error, terminating,
  termination_signal_received,
  wall_expired,    \* the monotonic clock is at or past `deadline'
  grace,           \* the clock against cleanup_deadline
  final_grace,     \* the clock against final_deadline
  wall_limit_reached, cpu_limit_reached,
  primary_reaped, primary_wait_status, all_reaped, descendants_reaped,
  wait4_cpu,       \* user_cpu_usec + sys_cpu_usec
  cumulative_cpu, observed, overflow, ready_open, ready_seen, flags,
  wall_at_timeout, \* `finished - started' reaches the timeout
  snapshot,        \* what build_workspace_snapshot left in the buffer
  archive,         \* workspace version delivered on descriptor 5
  snapshot_bytes,
  frame

supervisorVars ==
  <<pc, infrastructure_error, terminating, termination_signal_received,
    wall_expired, grace, final_grace, wall_limit_reached, cpu_limit_reached,
    primary_reaped, primary_wait_status, all_reaped, descendants_reaped,
    wait4_cpu, cumulative_cpu, observed, overflow, ready_open, ready_seen,
    flags, wall_at_timeout, snapshot, archive, snapshot_bytes, frame>>

vars == <<namespaceVars, supervisorVars>>

Larger(a, b)  == IF a >= b THEN a ELSE b
Smaller(a, b) == IF a <= b THEN a ELSE b

(* Groups of variables a step leaves alone together. *)
controlVars == <<terminating, termination_signal_received>>
clockVars   == <<wall_expired, grace, final_grace>>
limitVars   == <<wall_limit_reached, cpu_limit_reached>>
reapVars    == <<primary_reaped, primary_wait_status, all_reaped,
                 descendants_reaped, wait4_cpu>>
captureVars == <<observed, overflow>>
readyVars   == <<ready_open, ready_seen>>
imageVars   == <<snapshot, archive, snapshot_bytes>>
reportVars  == <<flags, wall_at_timeout, frame>>
timingVars  == <<controlVars, clockVars, limitVars>>
evidenceVars == <<reapVars, cumulative_cpu, captureVars, readyVars, imageVars,
                  reportVars>>
processVars == <<born, life, parent, confined, exit_status, writers, workspace>>
streamVars  == <<pipe, open, ready_pipe>>

Timers == {"off", "armed", "expired"}

Labels ==
  {"request", "setup", "fork", "reap", "scan", "decide", "poll", "stdout",
   "stderr", "ready", "sweep", "sweep_reap", "sweep_clock", "final_drain",
   "measure", "snapshot", "sink", "classify", "write",
   "reported", "silent"}

None    == -1      \* no archive yet
NoFrame == [outcome |-> "none"]
NoImage == [result |-> "none", used |-> 0, version |-> None]

Images ==
  [result : {"none", "complete", "overflow", "error"},
   used : Nat, version : 0 .. MaxWrites \cup {None}]

TypeOK ==
  /\ NamespaceTypeOK
  /\ pc \in Labels
  /\ infrastructure_error \in BOOLEAN /\ terminating \in BOOLEAN
  /\ termination_signal_received \in BOOLEAN
  /\ wall_expired \in BOOLEAN /\ grace \in Timers /\ final_grace \in Timers
  /\ wall_limit_reached \in BOOLEAN /\ cpu_limit_reached \in BOOLEAN
  /\ primary_reaped \in BOOLEAN /\ primary_wait_status \in ExitStatuses
  /\ all_reaped \in BOOLEAN /\ descendants_reaped \in Nat
  /\ wait4_cpu \in Nat /\ cumulative_cpu \in Nat
  /\ observed \in [Streams -> Nat] /\ overflow \in [Streams -> BOOLEAN]
  /\ ready_open \in BOOLEAN /\ ready_seen \in BOOLEAN
  /\ flags \in SUBSET Flags
  /\ wall_at_timeout \in BOOLEAN
  /\ snapshot \in Images
  /\ archive \in 0 .. MaxWrites \cup {None}
  /\ snapshot_bytes \in Nat
  /\ frame \in Frames \cup {NoFrame}

Init ==
  /\ NamespaceInit
  /\ pc = "request"
  /\ infrastructure_error = FALSE /\ terminating = FALSE
  /\ termination_signal_received = FALSE
  /\ wall_expired = FALSE /\ grace = "off" /\ final_grace = "off"
  /\ wall_limit_reached = FALSE /\ cpu_limit_reached = FALSE
  /\ primary_reaped = FALSE /\ primary_wait_status = "none"
  /\ all_reaped = FALSE /\ descendants_reaped = 0
  /\ wait4_cpu = 0 /\ cumulative_cpu = 0
  /\ observed = [s \in Streams |-> 0]
  /\ overflow = [s \in Streams |-> FALSE]
  /\ ready_open = FALSE /\ ready_seen = FALSE
  /\ flags = {}
  /\ wall_at_timeout = FALSE
  /\ snapshot = NoImage /\ archive = None /\ snapshot_bytes = 0
  /\ frame = NoFrame

-----------------------------------------------------------------------------
(* Before the fork. *)

(* A whole system call that may fail: in this step it does when `failed'. *)
MayFail(kind) == {FALSE} \cup {kind \in Faults}

(* getpid() = 1 and parse_request; otherwise exit 111 without any frame. *)
ParseRequest ==
  /\ pc = "request"
  /\ \E failed \in MayFail("request") : pc' = IF failed THEN "silent" ELSE "setup"
  /\ UNCHANGED <<namespaceVars, infrastructure_error, timingVars,
                 evidenceVars>>

(* Descriptors 3, 4 and 5, subreaper, handlers, pipes, the starting clock. *)
Setup ==
  /\ pc = "setup"
  /\ \E failed \in MayFail("setup"),
        valid \in SUBSET {"PROGRAM_DESCRIPTOR_VALIDATED",
                         "FIXTURE_DESCRIPTOR_VALIDATED"} :
       /\ Cardinality(valid) < 2 => failed
       /\ flags' = {"REQUEST_VALIDATED"} \cup valid
       /\ infrastructure_error' = failed
       /\ pc' = IF failed THEN "measure" ELSE "fork"
  /\ UNCHANGED <<namespaceVars, timingVars, reapVars, cumulative_cpu,
                 captureVars, readyVars, imageVars, wall_at_timeout, frame>>

Fork ==
  /\ pc = "fork"
  /\ \/ /\ ForkPrimary
        /\ ready_open' = TRUE
        /\ pc' = "reap"
        /\ UNCHANGED <<parent, doomed, confined, exit_status, pipe, ready_pipe,
                       workspace, infrastructure_error>>
     \/ /\ "fork" \in Faults
        /\ infrastructure_error' = TRUE
        /\ pc' = "measure"
        /\ UNCHANGED <<namespaceVars, ready_open>>
  /\ UNCHANGED <<timingVars, reapVars, cumulative_cpu, captureVars, ready_seen,
                 imageVars, reportVars>>

-----------------------------------------------------------------------------
(* reap_available(): wait4(-1, WNOHANG) until it has nothing to give.  The *)
(* same loop serves the main loop (pc "reap") and the cleanup loop after   *)
(* it (pc "sweep_reap").                                                   *)

Reaping == pc \in {"reap", "sweep_reap"}

AfterReaping == IF pc = "reap" THEN "scan" ELSE "sweep_clock"

ReapChild(p) ==
  /\ Reaping
  /\ p \in Collectable
  /\ life' = [life EXCEPT ![p] = "reaped"]
  /\ descendants_reaped' = descendants_reaped + 1
  /\ \E usage \in 0 .. MaxUsage : wait4_cpu' = wait4_cpu + usage
  /\ primary_reaped' = (primary_reaped \/ p = Primary)
  /\ primary_wait_status' = IF p = Primary THEN exit_status ELSE primary_wait_status
  /\ UNCHANGED <<born, parent, doomed, confined, exit_status, writers,
                 workspace, streamVars, pc, infrastructure_error, timingVars,
                 all_reaped, cumulative_cpu, captureVars, readyVars, imageVars,
                 reportVars>>

(* Mutant: 0 from wait4 is taken for ECHILD. *)
ReapNothingForGood ==
  /\ Reaping
  /\ HasChild
  /\ Collectable = {}
  /\ all_reaped' = TRUE
  /\ pc' = AfterReaping
  /\ UNCHANGED <<namespaceVars, infrastructure_error, timingVars,
                 primary_reaped, primary_wait_status, descendants_reaped,
                 wait4_cpu, cumulative_cpu, captureVars, readyVars, imageVars,
                 reportVars>>

(* 0: children, but none to collect. *)
ReapNothing ==
  /\ Reaping
  /\ HasChild
  /\ Collectable = {}
  /\ pc' = AfterReaping
  /\ UNCHANGED <<namespaceVars, infrastructure_error, timingVars,
                 evidenceVars>>

(* ECHILD *)
ReapNoChild ==
  /\ Reaping
  /\ ~HasChild
  /\ all_reaped' = TRUE
  /\ pc' = AfterReaping
  /\ UNCHANGED <<namespaceVars, infrastructure_error, timingVars,
                 primary_reaped, primary_wait_status, descendants_reaped,
                 wait4_cpu, cumulative_cpu, captureVars, readyVars, imageVars,
                 reportVars>>

(* wait4 fails: the main loop carries on in error, the cleanup loop ends. *)
ReapFails ==
  /\ Reaping
  /\ "wait" \in Faults
  /\ infrastructure_error' = TRUE
  /\ pc' = IF pc = "reap" THEN "scan" ELSE "final_drain"
  /\ UNCHANGED <<namespaceVars, timingVars, evidenceVars>>

-----------------------------------------------------------------------------
(* The rest of one turn of the main loop. *)

(* Mutant: a limit is only reached once it is exceeded. *)
CpuExceeded(cumulative) == cumulative > CpuLimit

CpuReached(cumulative) == cumulative >= CpuLimit

(* live_namespace_cpu_usec, then the running maximum and the CPU limit.    *)
(* The scan is not atomic, so any reading up to the bound may come out of  *)
(* a populated namespace.                                                  *)
AccountCpu ==
  /\ pc = "scan"
  /\ \E failed \in MayFail("scan"), live_cpu \in 0 .. MaxUsage :
       /\ failed \/ Present = {} => live_cpu = 0
       /\ cumulative_cpu' = Larger(cumulative_cpu, wait4_cpu + live_cpu)
       /\ infrastructure_error' = (infrastructure_error \/ failed)
  /\ cpu_limit_reached' = (cpu_limit_reached \/ CpuReached(cumulative_cpu'))
  /\ pc' = "decide"
  /\ UNCHANGED <<namespaceVars, controlVars, clockVars, wall_limit_reached,
                 reapVars, captureVars, readyVars, imageVars, reportVars>>

StopReason ==
  \/ primary_reaped \/ cpu_limit_reached \/ termination_signal_received
  \/ \E s \in Streams : overflow[s]

(* Read the clock; start terminating once there is a reason; keep killing  *)
(* until everything is reaped or the cleanup deadline has passed.  A clock *)
(* that cannot be read stands for `now = deadline'.                        *)
Decide ==
  /\ pc = "decide"
  /\ \E failed \in MayFail("clock"), late \in BOOLEAN :
       LET error    == infrastructure_error \/ failed
           wall     == wall_limit_reached \/ wall_expired \/ failed
           stop     == StopReason \/ wall \/ error
           starting == stop /\ ~terminating
           overdue  == terminating /\ ~all_reaped /\ late
       IN
       /\ ~failed => (late <=> grace = "expired")
       /\ wall_limit_reached' = wall
       /\ terminating' = (terminating \/ stop)
       /\ grace' = IF starting THEN "armed" ELSE grace
       /\ IF starting \/ (terminating /\ ~all_reaped)
            THEN KillAll ELSE UNCHANGED doomed
       /\ infrastructure_error' = (error \/ overdue)
       /\ pc' = IF overdue THEN "sweep" ELSE "poll"
  /\ UNCHANGED <<processVars, streamVars, termination_signal_received,
                 wall_expired, final_grace, cpu_limit_reached, evidenceVars>>

Poll ==
  /\ pc = "poll"
  /\ \E failed \in MayFail("poll") :
       infrastructure_error' = (infrastructure_error \/ failed)
  /\ pc' = "stdout"
  /\ UNCHANGED <<namespaceVars, timingVars, evidenceVars>>

(* Mutant: read() is believed to have filled the buffer. *)
CapturedFull(s) ==
  [observed |-> Cap(s) + 1, overflow |-> TRUE,
   pipe |-> pipe[s] - (Cap(s) + 1 - observed[s]), open |-> FALSE]

(* Mutant: capture stops at the cap and never sees the byte beyond it. *)
CapturedToCap(s) ==
  LET amount == Smaller(pipe[s], Cap(s) - observed[s]) IN
  [observed |-> observed[s] + amount, overflow |-> FALSE,
   pipe |-> pipe[s] - amount, open |-> writers[s] # {}]

(* drain_capture: read until EAGAIN, end of file or cap + 1 bytes. *)
Captured(s) ==
  LET ceiling  == Cap(s) + 1
      amount   == Smaller(pipe[s], ceiling - observed[s])
      total    == observed[s] + amount
      too_much == total = ceiling
      ended    == pipe[s] = amount /\ writers[s] = {}
  IN [observed |-> total, overflow |-> too_much,
      pipe |-> pipe[s] - amount, open |-> ~too_much /\ ~ended]

Drain(streams) ==
  LET drained == {s \in streams : open[s]} IN
  /\ observed' = [s \in Streams |->
                    IF s \in drained THEN Captured(s).observed ELSE observed[s]]
  /\ overflow' = [s \in Streams |->
                    IF s \in drained THEN Captured(s).overflow ELSE overflow[s]]
  /\ pipe' = [s \in Streams |-> IF s \in drained THEN Captured(s).pipe ELSE pipe[s]]

(* The loop ends when nothing is left to reap and every pipe is closed. *)
LoopTest ==
  pc' = IF all_reaped /\ ~ready_open' /\ \A s \in Streams : ~open'[s]
          THEN "sweep" ELSE "reap"

DrainStream(s, next) ==
  /\ pc = s
  /\ \/ /\ Drain({s})
        /\ open' = [open EXCEPT ![s] = @ /\ Captured(s).open]
        /\ pc' = next
        /\ UNCHANGED <<infrastructure_error, ready_open>>
     \/ /\ "read" \in Faults          \* the rest of the || chain is skipped
        /\ open[s]
        /\ \/ Drain({s}) /\ ~Captured(s).overflow    \* fails after the data
           \/ UNCHANGED <<pipe, captureVars>>         \* fails at once
        /\ infrastructure_error' = TRUE
        /\ UNCHANGED <<open, ready_open>>
        /\ LoopTest
  /\ UNCHANGED <<processVars, doomed, ready_pipe, timingVars, reapVars,
                 cumulative_cpu, ready_seen, imageVars, reportVars>>

DrainStdout == DrainStream("stdout", "stderr")
DrainStderr == DrainStream("stderr", "ready")

(* drain_ready: the only writer sends one 'R', so a second or a different  *)
(* byte (ready_invalid) cannot arrive.                                     *)
ReadReady ==
  /\ ready_seen' = (ready_seen \/ (ready_open /\ ready_pipe > 0))
  /\ ready_pipe' = IF ready_open THEN 0 ELSE ready_pipe

DrainReady ==
  /\ pc = "ready"
  /\ \/ /\ ReadReady
        /\ ready_open' = (ready_open /\ ReadyWriterAlive)
        /\ UNCHANGED infrastructure_error
     \/ /\ "read" \in Faults
        /\ ready_open
        /\ ReadReady \/ UNCHANGED <<ready_pipe, ready_seen>>
        /\ infrastructure_error' = TRUE
        /\ UNCHANGED ready_open
  /\ UNCHANGED open
  /\ LoopTest
  /\ UNCHANGED <<processVars, doomed, pipe, timingVars, reapVars,
                 cumulative_cpu, captureVars, imageVars, reportVars>>

-----------------------------------------------------------------------------
(* After the main loop: a second, equally bounded attempt to clean up. *)

Sweep ==
  /\ pc = "sweep"
  /\ IF all_reaped
       THEN pc' = "final_drain" /\ UNCHANGED <<doomed, final_grace>>
       ELSE /\ pc' = "sweep_reap"
            /\ \E failed \in MayFail("clock") :
                 final_grace' = IF failed THEN "expired" ELSE "armed"
            /\ KillAll
  /\ UNCHANGED <<processVars, streamVars, infrastructure_error, controlVars,
                 wall_expired, grace, limitVars, evidenceVars>>

(* Mutant: the second cleanup has no deadline. *)
SweepForever ==
  /\ pc = "sweep_clock"
  /\ pc' = IF all_reaped THEN "final_drain" ELSE "sweep_reap"
  /\ KillAll
  /\ UNCHANGED <<processVars, streamVars, infrastructure_error, timingVars,
                 evidenceVars>>

SweepClock ==
  /\ pc = "sweep_clock"
  /\ \E failed \in MayFail("clock") :
       LET overdue == final_grace = "expired" /\ ~failed IN
       /\ infrastructure_error' = (infrastructure_error \/ overdue)
       /\ pc' = IF overdue \/ all_reaped THEN "final_drain" ELSE "sweep_reap"
       /\ IF overdue \/ all_reaped THEN UNCHANGED doomed ELSE KillAll
  /\ UNCHANGED <<processVars, streamVars, timingVars, evidenceVars>>

(* One last drain of whatever is still open, then every pipe is closed.    *)
(* Here a failing read is ignored.                                         *)
FinalDrain ==
  /\ pc = "final_drain"
  /\ \E unread \in SUBSET Streams :
       /\ unread # {} => "read" \in Faults
       /\ Drain(Streams \ unread)
  /\ open' = [s \in Streams |-> FALSE]
  /\ ReadReady \/ ("read" \in Faults /\ UNCHANGED <<ready_pipe, ready_seen>>)
  /\ ready_open' = FALSE
  /\ pc' = "measure"
  /\ UNCHANGED <<processVars, doomed, infrastructure_error, timingVars,
                 reapVars, cumulative_cpu, imageVars, reportVars>>

-----------------------------------------------------------------------------
(* The evidence. *)

Forked == born > 0

(* sole_namespace_pid1(): nobody but PID 1 left in /proc. *)
SoleNamespacePid1 == Present = {}

ConfinementFlags ==
  {"CHILD_NO_NEW_PRIVS", "CHILD_PREEXEC_DUMPABLE_DISABLED",
   "CHILD_SECCOMP_INSTALLED"}

(* The flags known once the finishing clock is read. *)
MeasuredFlags(wall, cpu, sole) ==
  (IF ready_seen THEN ConfinementFlags ELSE {})
    \cup {OverflowFlag(s) : s \in {t \in Streams : overflow[t]}}
    \cup (IF wall THEN {"WALL_LIMIT_REACHED"} ELSE {})
    \cup (IF cpu THEN {"CPU_LIMIT_REACHED"} ELSE {})
    \cup (IF primary_reaped THEN {"PRIMARY_REAPED"} ELSE {})
    \cup (IF primary_reaped /\ all_reaped THEN {"ALL_DESCENDANTS_REAPED"} ELSE {})
    \cup (IF sole THEN {"SOLE_PID1"} ELSE {})

Measure ==
  /\ pc = "measure"
  /\ \E clockFailed \in MayFail("clock"), scanFailed \in MayFail("scan") :
       LET at_timeout == wall_expired /\ ~clockFailed
           sole == /\ primary_reaped /\ all_reaped
                   /\ SoleNamespacePid1 /\ ~scanFailed
       IN
       /\ wall_at_timeout' = at_timeout
       /\ wall_limit_reached' = (wall_limit_reached \/ at_timeout)
       /\ cumulative_cpu' = Larger(cumulative_cpu, wait4_cpu)
       /\ cpu_limit_reached' = (cpu_limit_reached \/ CpuReached(cumulative_cpu'))
       /\ flags' = flags \cup
            MeasuredFlags(wall_limit_reached', cpu_limit_reached', sole)
       /\ infrastructure_error' =
            (\/ infrastructure_error \/ clockFailed
             \/ Forked /\ (~ready_seen \/ ~sole))
       /\ pc' = IF sole THEN "snapshot" ELSE "classify"
  /\ UNCHANGED <<namespaceVars, controlVars, clockVars, reapVars, captureVars,
                 readyVars, imageVars, frame>>

(* Sizes a complete archive of the workspace can have: the header, at least*)
(* the root entry, and in this instance up to two bytes more than the cap. *)
ArchiveSizes == HeaderBytes + 1 .. HeaderBytes + SnapshotCap + 2

(* Mutant: the archive is taken of the fixture the run started from. *)
BuildFixtureImage(need) ==
  [result |-> IF need > SnapshotCap + 1 THEN "overflow" ELSE "complete",
   used |-> Smaller(need, SnapshotCap + 1), version |-> 0]

(* build_workspace_snapshot(): at most cap + 1 bytes are materialised. *)
BuildImage(need) ==
  [result |-> IF need > SnapshotCap + 1 THEN "overflow" ELSE "complete",
   used |-> Smaller(need, SnapshotCap + 1),
   version |-> workspace]

BuildWorkspaceSnapshot ==
  /\ pc = "snapshot"
  /\ \/ \E need \in ArchiveSizes : snapshot' = BuildImage(need)
     \/ /\ "snapshot" \in Faults
        /\ snapshot' = [NoImage EXCEPT !.result = "error"]
  /\ pc' = "sink"
  /\ UNCHANGED <<namespaceVars, infrastructure_error, timingVars, reapVars,
                 cumulative_cpu, captureVars, readyVars, archive,
                 snapshot_bytes, reportVars>>

(* Filling the buffer to the last byte counts as overflow even when        *)
(* nothing was cut off.                                                    *)
ImageOverflows(image) ==
  image.result = "overflow" \/ image.used = SnapshotCap + 1

(* Mutant: the flag is raised whether or not the write succeeded. *)
WriteSnapshotUnchecked ==
  /\ pc = "sink"
  /\ \E failed \in MayFail("sink") :
       /\ snapshot_bytes' = IF failed THEN 0 ELSE snapshot.used
       /\ archive' = IF failed THEN None ELSE snapshot.version
  /\ flags' = flags \cup
       {IF ImageOverflows(snapshot) THEN "WORKSPACE_SNAPSHOT_OVERFLOW"
                                    ELSE "WORKSPACE_SNAPSHOT_WRITTEN"}
  /\ pc' = "classify"
  /\ UNCHANGED <<namespaceVars, infrastructure_error, timingVars, reapVars,
                 cumulative_cpu, captureVars, readyVars, snapshot,
                 wall_at_timeout, frame>>

WriteSnapshot ==
  /\ pc = "sink"
  /\ \E failed \in MayFail("sink") :
       IF failed \/ snapshot.result = "error"
         THEN /\ infrastructure_error' = TRUE
              /\ UNCHANGED <<flags, snapshot_bytes, archive>>
         ELSE /\ snapshot_bytes' = snapshot.used
              /\ archive' = snapshot.version
              /\ flags' = flags \cup
                   {IF ImageOverflows(snapshot) THEN "WORKSPACE_SNAPSHOT_OVERFLOW"
                                                ELSE "WORKSPACE_SNAPSHOT_WRITTEN"}
              /\ UNCHANGED infrastructure_error
  /\ pc' = "classify"
  /\ UNCHANGED <<namespaceVars, timingVars, reapVars, cumulative_cpu,
                 captureVars, readyVars, snapshot, wall_at_timeout, frame>>

ProcessStatus ==
  IF ~primary_reaped                      THEN "NOT_REAPED"
  ELSE IF primary_wait_status = "signal"  THEN "SIGNALED"
  ELSE "EXITED"

ChildExitCode ==
  IF ProcessStatus # "EXITED"             THEN -1
  ELSE IF primary_wait_status = "exit0"   THEN 0
  ELSE 1

(* Mutant: the wait status alone decides. *)
ClassifyByStatus(fs, status, code) ==
  IF status = "SIGNALED"     THEN "SIGNAL"
  ELSE IF status = "EXITED"  THEN IF code = 0 THEN "NORMAL" ELSE "NONZERO"
  ELSE "SUPERVISOR_ERROR"

(* classify_outcome(): the fixed precedence, independent of which incident *)
(* happened first.                                                         *)
ClassifyOutcome(fs, status, code) ==
  IF "WORKSPACE_SNAPSHOT_OVERFLOW" \in fs THEN "WORKSPACE_SNAPSHOT_OVERFLOW"
  ELSE IF "STDOUT_OVERFLOW" \in fs        THEN "STDOUT_OVERFLOW"
  ELSE IF "STDERR_OVERFLOW" \in fs        THEN "STDERR_OVERFLOW"
  ELSE IF "CPU_LIMIT_REACHED" \in fs      THEN "CPU_LIMIT"
  ELSE IF "WALL_LIMIT_REACHED" \in fs     THEN "WALL_TIMEOUT"
  ELSE IF status = "SIGNALED"             THEN "SIGNAL"
  ELSE IF status = "EXITED"
         THEN IF code = 0 THEN "NORMAL" ELSE "NONZERO"
  ELSE "SUPERVISOR_ERROR"

ResultFrame(error) ==
  [outcome |-> IF error THEN "SUPERVISOR_ERROR"
               ELSE ClassifyOutcome(flags, ProcessStatus, ChildExitCode),
   process_status |-> ProcessStatus,
   child_exit_code |-> ChildExitCode,
   child_signal |-> IF ProcessStatus = "SIGNALED" THEN 9 ELSE 0,
   flags |-> flags, observed |-> observed,
   wall_at_timeout |-> wall_at_timeout,
   wait4_cpu |-> wait4_cpu, cumulative_cpu |-> cumulative_cpu,
   descendants_reaped |-> descendants_reaped,
   workspace_snapshot_bytes |-> snapshot_bytes]

(* Mutant: the signal check overwrites the errors found before. *)
ClassifyForgetful ==
  /\ pc = "classify"
  /\ infrastructure_error' = termination_signal_received
  /\ frame' = ResultFrame(infrastructure_error')
  /\ pc' = "write"
  /\ UNCHANGED <<namespaceVars, timingVars, reapVars, cumulative_cpu,
                 captureVars, readyVars, imageVars, flags, wall_at_timeout>>

(* The last look at the termination signal, and the frame. *)
Classify ==
  /\ pc = "classify"
  /\ infrastructure_error' = (infrastructure_error \/ termination_signal_received)
  /\ frame' = ResultFrame(infrastructure_error')
  /\ pc' = "write"
  /\ UNCHANGED <<namespaceVars, timingVars, reapVars, cumulative_cpu,
                 captureVars, readyVars, imageVars, flags, wall_at_timeout>>

(* write_result(); a broken stdout means exit 115 and no frame. *)
WriteResult ==
  /\ pc = "write"
  /\ \E failed \in MayFail("result") : pc' = IF failed THEN "silent" ELSE "reported"
  /\ UNCHANGED <<namespaceVars, infrastructure_error, timingVars,
                 evidenceVars>>

Supervisor ==
  \/ ParseRequest \/ Setup \/ Fork
  \/ \E p \in Procs : ReapChild(p)
  \/ ReapNothing \/ ReapNoChild \/ ReapFails
  \/ AccountCpu \/ Decide \/ Poll \/ DrainStdout \/ DrainStderr \/ DrainReady
  \/ Sweep \/ SweepClock \/ FinalDrain
  \/ Measure \/ BuildWorkspaceSnapshot \/ WriteSnapshot \/ Classify \/ WriteResult

-----------------------------------------------------------------------------
(* What happens around the supervisor while PID 1 is alive. *)

Alive == pc \notin {"reported", "silent"}

(* Nothing reads the clock before the deadline is computed or after        *)
(* `finished' is taken: time is only worth modelling in between.           *)
ClockRead ==
  pc \notin {"request", "setup", "snapshot", "sink", "classify", "write",
            "reported", "silent"}

Namespace == Alive /\ NamespaceStep /\ UNCHANGED supervisorVars

(* SIGTERM, SIGINT or SIGHUP; before the handlers exist PID 1 ignores them.*)
TerminationSignal ==
  /\ Alive /\ pc \notin {"request", "setup"}
  /\ ~termination_signal_received
  /\ termination_signal_received' = TRUE
  /\ UNCHANGED <<namespaceVars, pc, infrastructure_error, terminating,
                 clockVars, limitVars, evidenceVars>>

WallExpires ==
  /\ ClockRead
  /\ ~wall_expired
  /\ wall_expired' = TRUE
  /\ UNCHANGED <<namespaceVars, pc, infrastructure_error, controlVars, grace,
                 final_grace, limitVars, evidenceVars>>

GraceExpires ==
  /\ ClockRead
  /\ \/ grace = "armed" /\ grace' = "expired" /\ UNCHANGED final_grace
     \/ final_grace = "armed" /\ final_grace' = "expired" /\ UNCHANGED grace
  /\ UNCHANGED <<namespaceVars, pc, infrastructure_error, controlVars,
                 wall_expired, limitVars, evidenceVars>>

(* PID 1 is gone and the kernel has torn the namespace down. *)
Ended == ~Alive /\ UNCHANGED vars

Next ==
  \/ Supervisor
  \/ Namespace
  \/ TerminationSignal \/ WallExpires \/ GraceExpires
  \/ Ended

Spec == Init /\ [][Next]_vars

(* PID 1 keeps being scheduled and the monotonic clock advances.  Nothing  *)
(* is assumed of the program: it may neither end nor die of its SIGKILL.   *)
Fairness ==
  /\ WF_vars(Supervisor)
  /\ WF_vars(WallExpires)
  /\ WF_vars(GraceExpires)

FairSpec == Spec /\ Fairness
-----------------------------------------------------------------------------
(* Correctness. *)

NonError == frame # NoFrame /\ frame.outcome # "SUPERVISOR_ERROR"

(* Every frame this program can send is one the Python controller accepts: *)
(* write_result and validate_development_candidate_result_binding agree on *)
(* flags, limits, precedence, captures and evidence, in every race.        *)
FrameAccepted == pc = "reported" => ValidResultBinding(frame)

(* ECHILD means an empty namespace: orphans reach PID 1, so having no child*)
(* is having no process (all_reaped is never set back by the code).        *)
ReapedMeansEmpty == all_reaped => Present = {}

(* kill(-1) races with fork in the program, and loses nobody: once the     *)
(* supervisor terminates a run no process is alive without SIGKILL.        *)
NothingEscapesTheKill == terminating => Live \subseteq doomed

(* A verdict other than SUPERVISOR_ERROR is about a world at rest, and the *)
(* archive on descriptor 5 is that world's workspace.                      *)
QuiescentVerdict == NonError => Present = {} /\ archive = workspace

(* What the program wrote before it ended is counted, or the overflow is   *)
(* flagged: closing the pipes after the loop drops no byte silently.       *)
NoOutputLost ==
  NonError => \A s \in Streams : pipe[s] = 0 \/ OverflowFlag(s) \in frame.flags

(* NORMAL, NONZERO and SIGNAL describe the program's own end: SIGKILL sent *)
(* by the supervisor is never reported as the program's signal, nor is an  *)
(* end that came after the supervisor had decided to stop the run.         *)
OwnEnd ==
  NonError /\ frame.outcome \in {"NORMAL", "NONZERO", "SIGNAL"}
    => Primary \notin doomed

(* Without failing system calls SUPERVISOR_ERROR has one of three causes:  *)
(* the controller asked to stop, the program never got confined, or it     *)
(* outlived a cleanup deadline.  (A workspace entry the archive cannot hold *)
(* makes build_workspace_snapshot fail: that is the fault "snapshot".)      *)
ErrorJustified ==
  Faults = {} /\ frame # NoFrame /\ frame.outcome = "SUPERVISOR_ERROR"
    => termination_signal_received \/ ~confined \/ grace = "expired"

(* The supervisor always comes to an end, even when the program ignores    *)
(* time, output limits and SIGKILL.                                        *)
AlwaysAnswers == <>(~Alive)

-----------------------------------------------------------------------------
(* The contract, with processes, pipes and evidence hidden. *)

Stage == IF born = 0 THEN "idle" ELSE IF Present = {} THEN "quiet" ELSE "running"

VerdictGiven ==
  CASE pc = "silent"   -> "no answer"
    [] pc = "reported" -> IF frame.outcome = "SUPERVISOR_ERROR" THEN "error"
                                                               ELSE frame.outcome
    [] OTHER           -> "none"

Contract == INSTANCE CandidateContract
  WITH Verdicts <- Outcomes \ {"SUPERVISOR_ERROR"}, NoArchive <- None, NoVerdict <- "none",
       stage <- Stage, contents <- workspace,
       delivered <- archive, verdict <- VerdictGiven

(* The supervisor keeps the contract. *)
ContractSpec == Contract!Spec
=============================================================================
