---------------------------- MODULE CpuAccounting ----------------------------
(***************************************************************************)
(* The CPU watcher of cbds-development-candidate-supervisor.c: reap what is *)
(* dead with wait4, add what /proc says of the rest, keep the maximum.  The *)
(* scan of /proc is not atomic: processes run, fork, end and wait for their *)
(* children between the reading of two entries.  CandidateSupervisor lets a *)
(* scan return anything; this module says what it can return.              *)
(*                                                                         *)
(* CPU time moves when a process is waited for: it leaves the child and is *)
(* added to the parent's `children' time, so the same microseconds can be  *)
(* looked for in two places.  A process is named by its PID, in the order  *)
(* of birth: PIDs do not wrap around during one run.                       *)
(***************************************************************************)
EXTENDS Naturals, FiniteSets

CONSTANTS
  MaxProcs,        \* bound: processes born in one run
  MaxCpu,          \* bound: CPU time consumed in one run
  Tick             \* what one clock tick of /proc/<pid>/stat is worth

ASSUME AccountingAssumption ==
  MaxProcs \in Nat \ {0} /\ MaxCpu \in Nat /\ Tick \in Nat \ {0}

VARIABLES
  life, parent,
  own,             \* CPU time of the process itself (utime + stime)
  children,        \* of the children it waited for (cutime + cstime)
  consumed,        \* CPU time the whole run has used
  lost,            \* of processes whose parent ignores SIGCHLD
  pc,
  listed,          \* processes the scan is bound to come across
  position,        \* PIDs up to here are scanned
  live_cpu,        \* running sum of the scan
  wait4_cpu, cumulative_cpu, all_reaped,
  consumed_before, \* `consumed' when the turn began
  quiet            \* since then no process was waited for or discarded

namespaceVars  == <<life, parent, own, children, consumed, lost>>
supervisorVars == <<pc, listed, position, live_cpu, wait4_cpu,
                    cumulative_cpu, all_reaped, consumed_before>>
cpuVars == <<namespaceVars, supervisorVars, quiet>>

PidOne == 0
Procs  == 1 .. MaxProcs

Present  == {p \in Procs : life[p] \in {"live", "zombie"}}
Collectable(p) == life[p] = "zombie" /\ parent[p] = PidOne
HasChild == \E p \in Present : parent[p] = PidOne

(* The primary has just been forked. *)
CpuInit ==
  /\ life = [p \in Procs |-> IF p = 1 THEN "live" ELSE "unborn"]
  /\ parent = [p \in Procs |-> PidOne]
  /\ own = [p \in Procs |-> 0] /\ children = [p \in Procs |-> 0]
  /\ consumed = 0 /\ lost = 0
  /\ pc = "reap"
  /\ listed = {} /\ position = 0 /\ live_cpu = 0
  /\ wait4_cpu = 0 /\ cumulative_cpu = 0 /\ all_reaped = FALSE
  /\ consumed_before = 0 /\ quiet = TRUE

-----------------------------------------------------------------------------
(* The program. *)

Burn(p) ==
  /\ life[p] = "live"
  /\ consumed < MaxCpu
  /\ own' = [own EXCEPT ![p] = @ + 1]
  /\ consumed' = consumed + 1
  /\ UNCHANGED <<life, parent, children, lost, quiet>>

Spawn(p, child) ==
  /\ life[p] = "live" /\ life[child] = "unborn"
  /\ \A q \in Procs : q < child => life[q] # "unborn"
  /\ life' = [life EXCEPT ![child] = "live"]
  /\ parent' = [parent EXCEPT ![child] = p]
  /\ UNCHANGED <<own, children, consumed, lost, quiet>>

Adopted(p) == [q \in Procs |-> IF parent[q] = p THEN PidOne ELSE parent[q]]

Exit(p) ==
  /\ life[p] = "live"
  /\ life' = [life EXCEPT ![p] = "zombie"]
  /\ parent' = Adopted(p)
  /\ UNCHANGED <<own, children, consumed, lost, quiet>>

(* A parent that ignores SIGCHLD never waits: its child leaves no zombie,  *)
(* and the kernel credits the time to nobody.                              *)
Autoreap(p) ==
  /\ life[p] = "live" /\ parent[p] # PidOne
  /\ life' = [life EXCEPT ![p] = "reaped"]
  /\ parent' = Adopted(p)
  /\ lost' = lost + own[p] + children[p]
  /\ quiet' = FALSE
  /\ UNCHANGED <<own, children, consumed>>

WaitChild(p, q) ==
  /\ life[p] = "live" /\ life[q] = "zombie" /\ parent[q] = p
  /\ life' = [life EXCEPT ![q] = "reaped"]
  /\ children' = [children EXCEPT ![p] = @ + own[q] + children[q]]
  /\ quiet' = FALSE
  /\ UNCHANGED <<parent, own, consumed, lost>>

Namespace ==
  /\ \E p \in Procs :
       \/ Burn(p) \/ Exit(p) \/ Autoreap(p)
       \/ \E q \in Procs : Spawn(p, q) \/ WaitChild(p, q)
  /\ UNCHANGED supervisorVars

-----------------------------------------------------------------------------
(* PID 1. *)

(* Mutant: the rusage of the process alone. *)
ReapSelfOnly(p) ==
  /\ pc = "reap"
  /\ Collectable(p)
  /\ life' = [life EXCEPT ![p] = "reaped"]
  /\ wait4_cpu' = wait4_cpu + own[p]
  /\ UNCHANGED <<parent, own, children, consumed, lost, pc, listed, position,
                 live_cpu, cumulative_cpu, all_reaped, consumed_before, quiet>>

(* wait4(-1, WNOHANG, &usage) and add_rusage. *)
ReapChild(p) ==
  /\ pc = "reap"
  /\ Collectable(p)
  /\ life' = [life EXCEPT ![p] = "reaped"]
  /\ wait4_cpu' = wait4_cpu + own[p] + children[p]
  /\ UNCHANGED <<parent, own, children, consumed, lost, pc, listed, position,
                 live_cpu, cumulative_cpu, all_reaped, consumed_before, quiet>>

(* Nothing (more) to reap: open /proc. *)
OpenProc ==
  /\ pc = "reap"
  /\ \A p \in Procs : ~Collectable(p)
  /\ all_reaped' = (all_reaped \/ ~HasChild)
  /\ pc' = "scan"
  /\ listed' = Present
  /\ position' = 0 /\ live_cpu' = 0
  /\ consumed_before' = consumed /\ quiet' = TRUE
  /\ UNCHANGED <<namespaceVars, wait4_cpu, cumulative_cpu>>

(* Mutant: utime and stime only. *)
ReadingSelf(p) == (own[p] \div Tick) * Tick

(* parse_proc_stat_ticks: every field is in whole ticks. *)
Reading(p) == (own[p] \div Tick + children[p] \div Tick) * Tick

(* readdir returns PIDs in ascending order.  An entry that has gone away is *)
(* skipped; a process born during the scan may or may not be found.        *)
ScanProcess ==
  /\ pc = "scan"
  /\ position < MaxProcs
  /\ position' = position + 1
  /\ IF position' \in Present
       THEN \/ live_cpu' = live_cpu + Reading(position')
            \/ position' \notin listed /\ UNCHANGED live_cpu
       ELSE UNCHANGED live_cpu
  /\ UNCHANGED <<namespaceVars, pc, listed, wait4_cpu, cumulative_cpu,
                 all_reaped, consumed_before, quiet>>

CloseProc ==
  /\ pc = "scan"
  /\ position = MaxProcs
  /\ pc' = "account"
  /\ UNCHANGED <<namespaceVars, listed, position, live_cpu, wait4_cpu,
                 cumulative_cpu, all_reaped, consumed_before, quiet>>

Larger(a, b) == IF a >= b THEN a ELSE b

(* Mutant: the turns are added up instead of taking their maximum. *)
AccountBySum ==
  /\ pc = "account"
  /\ cumulative_cpu' = cumulative_cpu + live_cpu
  /\ pc' = IF all_reaped THEN "end" ELSE "reap"
  /\ UNCHANGED <<namespaceVars, listed, position, live_cpu, wait4_cpu,
                 all_reaped, consumed_before, quiet>>

(* The running maximum; the run is over for the watcher once all is reaped.*)
Account ==
  /\ pc = "account"
  /\ cumulative_cpu' = Larger(cumulative_cpu, wait4_cpu + live_cpu)
  /\ pc' = IF all_reaped THEN "end" ELSE "reap"
  /\ UNCHANGED <<namespaceVars, listed, position, live_cpu, wait4_cpu,
                 all_reaped, consumed_before, quiet>>

Watcher ==
  \/ \E p \in Procs : ReapChild(p)
  \/ OpenProc \/ ScanProcess \/ CloseProc \/ Account

CpuNext == Watcher \/ Namespace

CpuSpec == CpuInit /\ [][CpuNext]_cpuVars
-----------------------------------------------------------------------------
(* Correctness. *)

(* CPU_LIMIT is never raised for time nobody used: whatever moves between  *)
(* child, parent and wait4 during a scan is counted at most once.          *)
NoOvercount == cumulative_cpu <= consumed /\ wait4_cpu <= consumed

(* When wait4 says ECHILD every microsecond is in its total, except what   *)
(* the kernel itself dropped.                                              *)
AllAccounted == all_reaped => wait4_cpu + lost = consumed

(* "reaped grandchildren stay visible": a scan during which nobody waits   *)
(* for a child sees everything used before it, up to the rounding of two   *)
(* tick fields per process.                                                *)
QuietScanSeesAll ==
  pc = "account" /\ quiet =>
    wait4_cpu + live_cpu + lost + 2 * (Tick - 1) * Cardinality(listed)
      >= consumed_before

(* No time is counted twice, and none is missed when the watcher can be     *)
(* exact: the CPU accounting of cbds-development-candidate-supervisor.c.    *)
CpuRight == NoOvercount /\ AllAccounted /\ QuietScanSeesAll
=============================================================================
