-------------------------- MODULE CandidateProtocol --------------------------
(***************************************************************************)
(* The result frame of the reviewed-Bash candidate protocol, and what the  *)
(* Python side (development_candidate_protocol.py) demands of a frame      *)
(* before it believes it.                                                  *)
(*                                                                         *)
(* Abstractions.  Identity digests, nonces and the frame checksum only say *)
(* "this answer belongs to this request": a frame here always does.  A     *)
(* SHA-256 of a stream or of the archive is represented by its byte count  *)
(* (the digest is the empty one exactly when the count is zero).  The wall *)
(* time is represented by the one fact the validator extracts from it:     *)
(* whether it reaches the requested timeout.                               *)
(***************************************************************************)
EXTENDS Integers

CONSTANTS
  StdoutCap,       \* request.stdout_cap_bytes
  StderrCap,       \* request.stderr_cap_bytes
  SnapshotCap,     \* request.workspace_snapshot_cap_bytes
  CpuLimit,        \* request.cpu_time_limit_usec, in accounting units
  HeaderBytes      \* size of the archive header (16 in the code)

ASSUME RequestAssumption ==
  /\ StdoutCap \in Nat \ {0}
  /\ StderrCap \in Nat \ {0}
  /\ SnapshotCap \in Nat \ {0}
  /\ CpuLimit \in Nat \ {0}
  /\ HeaderBytes \in Nat \ {0}

Streams == {"stdout", "stderr"}

Cap(s) == IF s = "stdout" THEN StdoutCap ELSE StderrCap

SetupFlags ==
  {"REQUEST_VALIDATED", "PROGRAM_DESCRIPTOR_VALIDATED",
   "FIXTURE_DESCRIPTOR_VALIDATED", "CHILD_NO_NEW_PRIVS",
   "CHILD_PREEXEC_DUMPABLE_DISABLED", "CHILD_SECCOMP_INSTALLED"}

CleanupFlags == {"PRIMARY_REAPED", "ALL_DESCENDANTS_REAPED", "SOLE_PID1"}

ResourceFlags ==
  {"STDOUT_OVERFLOW", "STDERR_OVERFLOW", "WALL_LIMIT_REACHED",
   "CPU_LIMIT_REACHED", "WORKSPACE_SNAPSHOT_OVERFLOW"}

Flags ==
  SetupFlags \cup CleanupFlags \cup ResourceFlags
    \cup {"WORKSPACE_SNAPSHOT_WRITTEN"}

OverflowFlag(s) == IF s = "stdout" THEN "STDOUT_OVERFLOW" ELSE "STDERR_OVERFLOW"

ResourceOutcomes ==
  {"WORKSPACE_SNAPSHOT_OVERFLOW", "STDOUT_OVERFLOW", "STDERR_OVERFLOW",
   "CPU_LIMIT", "WALL_TIMEOUT"}

Outcomes == ResourceOutcomes \cup {"SIGNAL", "NORMAL", "NONZERO", "SUPERVISOR_ERROR"}

Statuses == {"NOT_REAPED", "EXITED", "SIGNALED"}

Frames ==
  [outcome : Outcomes, process_status : Statuses,
   child_exit_code : -1 .. 255, child_signal : 0 .. 64,
   flags : SUBSET Flags, observed : [Streams -> Nat],
   wall_at_timeout : BOOLEAN,     \* wall_usec >= request.wall_timeout_usec
   wait4_cpu : Nat, cumulative_cpu : Nat, descendants_reaped : Nat,
   workspace_snapshot_bytes : Nat]

-----------------------------------------------------------------------------
(* What a frame must satisfy on its own. *)

ValidProcessShape(f) ==
  LET reaped == "PRIMARY_REAPED" \in f.flags IN
  /\ f.process_status = "NOT_REAPED" =>
       f.child_exit_code = -1 /\ f.child_signal = 0 /\ ~reaped
  /\ f.process_status = "EXITED" =>
       f.child_exit_code >= 0 /\ f.child_signal = 0 /\ reaped
  /\ f.process_status = "SIGNALED" =>
       f.child_exit_code = -1 /\ f.child_signal >= 1 /\ reaped
  /\ reaped => f.descendants_reaped >= 1

ValidSelf(f) ==
  LET written  == "WORKSPACE_SNAPSHOT_WRITTEN" \in f.flags
      overflow == "WORKSPACE_SNAPSHOT_OVERFLOW" \in f.flags
  IN
  /\ f.cumulative_cpu >= f.wait4_cpu
  /\ "REQUEST_VALIDATED" \in f.flags
  /\ "ALL_DESCENDANTS_REAPED" \in f.flags => "PRIMARY_REAPED" \in f.flags
  /\ "SOLE_PID1" \in f.flags => "ALL_DESCENDANTS_REAPED" \in f.flags
  /\ ~(written /\ overflow)
  /\ written \/ overflow => "SOLE_PID1" \in f.flags
  /\ ~written /\ ~overflow => f.workspace_snapshot_bytes = 0
  /\ written => f.workspace_snapshot_bytes >= HeaderBytes
  /\ ValidProcessShape(f)

(* What the request's limits demand of it. *)

LimitsExplained(f) ==
  LET wall_reported == "WALL_LIMIT_REACHED" \in f.flags
      cpu_reported  == "CPU_LIMIT_REACHED" \in f.flags
      cpu_reached   == f.cumulative_cpu >= CpuLimit
      cap_incident  == f.flags \cap {"STDOUT_OVERFLOW", "STDERR_OVERFLOW",
                                     "WORKSPACE_SNAPSHOT_OVERFLOW"} # {}
  IN
  /\ wall_reported => f.wall_at_timeout
  /\ f.wall_at_timeout => wall_reported \/ cap_incident \/ cpu_reported
  /\ cpu_reported => cpu_reached
  /\ cpu_reached => cpu_reported \/ cap_incident \/ wall_reported

CapturesAtCap(f) ==
  /\ \A s \in Streams :
       /\ f.observed[s] <= Cap(s) + 1
       /\ (OverflowFlag(s) \in f.flags) <=> (f.observed[s] = Cap(s) + 1)
  /\ f.workspace_snapshot_bytes <= SnapshotCap + 1
  /\ ("WORKSPACE_SNAPSHOT_OVERFLOW" \in f.flags)
       <=> (f.workspace_snapshot_bytes = SnapshotCap + 1)

(* The first of the active incidents in the documented precedence. *)
RequiredResourceOutcome(flags) ==
  CASE "WORKSPACE_SNAPSHOT_OVERFLOW" \in flags -> "WORKSPACE_SNAPSHOT_OVERFLOW"
    [] "STDOUT_OVERFLOW" \in flags
         /\ "WORKSPACE_SNAPSHOT_OVERFLOW" \notin flags -> "STDOUT_OVERFLOW"
    [] "STDERR_OVERFLOW" \in flags
         /\ flags \cap {"WORKSPACE_SNAPSHOT_OVERFLOW", "STDOUT_OVERFLOW"} = {}
           -> "STDERR_OVERFLOW"
    [] "CPU_LIMIT_REACHED" \in flags
         /\ flags \cap {"WORKSPACE_SNAPSHOT_OVERFLOW", "STDOUT_OVERFLOW",
                        "STDERR_OVERFLOW"} = {} -> "CPU_LIMIT"
    [] OTHER -> "WALL_TIMEOUT"

OutcomeExplained(f) ==
  \/ f.outcome = "SUPERVISOR_ERROR"
  \/ /\ f.flags \cap ResourceFlags # {}
     /\ f.outcome = RequiredResourceOutcome(f.flags)
  \/ /\ f.flags \cap ResourceFlags = {}
     /\ \/ /\ f.process_status = "SIGNALED"
           /\ f.outcome = "SIGNAL"
        \/ /\ f.process_status = "EXITED"
           /\ f.outcome = (IF f.child_exit_code = 0 THEN "NORMAL" ELSE "NONZERO")

EvidenceComplete(f) ==
  f.outcome # "SUPERVISOR_ERROR" =>
    /\ SetupFlags \cup CleanupFlags \subseteq f.flags
    /\ "WORKSPACE_SNAPSHOT_OVERFLOW" \notin f.flags =>
         "WORKSPACE_SNAPSHOT_WRITTEN" \in f.flags

(* validate_development_candidate_result_binding raises unless this holds. *)
ValidResultBinding(f) ==
  /\ ValidSelf(f)
  /\ CapturesAtCap(f)
  /\ LimitsExplained(f)
  /\ OutcomeExplained(f)
  /\ EvidenceComplete(f)
=============================================================================
