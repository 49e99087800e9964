-------------------------- MODULE CandidateNamespace -------------------------
(***************************************************************************)
(* The PID namespace the candidate supervisor rules over: the primary child*)
(* it forks (child_main, then the reviewed Bash program), the descendants  *)
(* that program creates, the three pipes between them and PID 1, and the   *)
(* writable workspace.  Everything here is the environment of the          *)
(* supervisor: kernel behaviour the code relies on, and what a program may *)
(* do.  No fairness is ever assumed of it.                                 *)
(*                                                                         *)
(* A process is named by its birth number; PID 1 itself is PidOne.         *)
(***************************************************************************)
EXTENDS Naturals, CandidateProtocol

CONSTANTS
  MaxProcs,        \* bound: processes born in one run
  MaxPipe,         \* bound: bytes waiting in one pipe
  MaxWrites        \* bound: changes a run makes to the workspace

ASSUME NamespaceAssumption ==
  /\ MaxProcs \in Nat \ {0}
  /\ MaxPipe \in Nat
  /\ MaxWrites \in Nat

VARIABLES
  born,            \* number of processes born so far
  life,            \* "unborn", "live", "zombie" or "reaped"
  parent,          \* who may wait for the process
  doomed,          \* processes the supervisor's SIGKILL reached alive
  confined,        \* the primary wrote 'R': its confinement is installed
  exit_status,     \* how the primary ended
  pipe,            \* bytes in a stream's pipe
  open,            \* the supervisor still holds the stream's read end
  writers,         \* processes holding the stream's write end
  ready_pipe,      \* bytes in the readiness pipe
  workspace        \* version of the workspace contents

namespaceVars == <<born, life, parent, doomed, confined, exit_status,
                   pipe, open, writers, ready_pipe, workspace>>

PidOne  == 0
Primary == 1
Procs   == 1 .. MaxProcs

ExitStatuses == {"none", "exit0", "exit1", "signal"}

NamespaceTypeOK ==
  /\ born \in 0 .. MaxProcs
  /\ life \in [Procs -> {"unborn", "live", "zombie", "reaped"}]
  /\ parent \in [Procs -> Procs \cup {PidOne}]
  /\ doomed \in SUBSET Procs
  /\ confined \in BOOLEAN
  /\ exit_status \in ExitStatuses
  /\ pipe \in [Streams -> Nat]
  /\ open \in [Streams -> BOOLEAN]
  /\ writers \in [Streams -> SUBSET Procs]
  /\ ready_pipe \in Nat
  /\ workspace \in 0 .. MaxWrites

NamespaceInit ==
  /\ born = 0
  /\ life = [p \in Procs |-> "unborn"]
  /\ parent = [p \in Procs |-> PidOne]
  /\ doomed = {}
  /\ confined = FALSE
  /\ exit_status = "none"
  /\ pipe = [s \in Streams |-> 0]
  /\ open = [s \in Streams |-> FALSE]
  /\ writers = [s \in Streams |-> {}]
  /\ ready_pipe = 0
  /\ workspace = 0

Live    == {p \in Procs : life[p] = "live"}
Zombies == {p \in Procs : life[p] = "zombie"}
Present == Live \cup Zombies      \* the numeric /proc entries other than 1

(* The candidate program itself: the primary only runs it once confined. *)
Running == {p \in Live \ doomed : p = Primary => confined}

(* Mutant: an empty readiness pipe is taken for a closed one. *)
NobodyWillWrite == FALSE

ReadyWriterAlive == Primary \in Live /\ ~confined

-----------------------------------------------------------------------------
(* Kernel side of the calls PID 1 makes. *)

(* fork() in main(), with the three pipes already created. *)
ForkPrimary ==
  /\ born = 0
  /\ born' = 1
  /\ life' = [life EXCEPT ![Primary] = "live"]
  /\ open' = [s \in Streams |-> TRUE]
  /\ writers' = [s \in Streams |-> {Primary}]

(* Mutant: kill(child, SIGKILL) instead of kill(-1, SIGKILL). *)
KillPrimary == doomed' = doomed \cup (Live \cap {Primary})

(* kill(-1, SIGKILL) from PID 1 reaches every process of the namespace;    *)
(* a fork in flight is restarted by the pending signal and creates nothing.*)
KillAll == doomed' = doomed \cup Live

(* What wait4(-1, ..., WNOHANG) can collect: dead children of PID 1. *)
Collectable == {p \in Zombies : parent[p] = PidOne}

(* PID 1 has a child at all; otherwise wait4 fails with ECHILD. *)
HasChild == \E p \in Present : parent[p] = PidOne

-----------------------------------------------------------------------------
(* child_main: everything up to the 'R' byte either succeeds or _exits. *)

ChildReady ==
  /\ Primary \in Live \ doomed
  /\ ~confined
  /\ confined' = TRUE
  /\ ready_pipe' = ready_pipe + 1
  /\ UNCHANGED <<born, life, parent, doomed, exit_status, pipe, open,
                 writers, workspace>>

(* fork in the program.  The child inherits the stream descriptors. *)
Spawn(p) ==
  /\ p \in Running
  /\ born < MaxProcs
  /\ LET child == born + 1 IN
     /\ born' = child
     /\ life' = [life EXCEPT ![child] = "live"]
     /\ parent' = [parent EXCEPT ![child] = p]
     /\ writers' = [s \in Streams |->
                      IF p \in writers[s] THEN writers[s] \cup {child}
                                          ELSE writers[s]]
  /\ UNCHANGED <<doomed, confined, exit_status, pipe, open, ready_pipe,
                 workspace>>

(* One byte into a stream.  A write already in the kernel completes even   *)
(* with SIGKILL pending.  With the read end closed nothing is delivered    *)
(* (EPIPE, or death by SIGPIPE, which is an Exit).                         *)
WriteStream(p, s) ==
  /\ p \in Running \cup (doomed \cap Live)
  /\ p = Primary => confined
  /\ p \in writers[s]
  /\ open[s]
  /\ pipe[s] < MaxPipe
  /\ pipe' = [pipe EXCEPT ![s] = @ + 1]
  /\ UNCHANGED <<born, life, parent, doomed, confined, exit_status, open,
                 writers, ready_pipe, workspace>>

(* A process may close or redirect a stream long before it ends. *)
CloseStream(p, s) ==
  /\ p \in Running
  /\ p \in writers[s]
  /\ writers' = [writers EXCEPT ![s] = @ \ {p}]
  /\ UNCHANGED <<born, life, parent, doomed, confined, exit_status, pipe,
                 open, ready_pipe, workspace>>

WriteWorkspace(p) ==
  /\ p \in Running \cup (doomed \cap Live)
  /\ p = Primary => confined
  /\ workspace < MaxWrites
  /\ workspace' = workspace + 1
  /\ UNCHANGED <<born, life, parent, doomed, confined, exit_status, pipe,
                 open, writers, ready_pipe>>

(* A process ends: descriptors close, children are handed to PID 1 (the    *)
(* supervisor is subreaper and namespace init).  A doomed process can only *)
(* end by its signal, and may take arbitrarily long to do so.              *)
Exit(p, how) ==
  /\ p \in Live
  /\ how \in ExitStatuses \ {"none"}
  /\ p \in doomed => how = "signal"
  /\ p = Primary /\ ~confined => how # "exit0"
  /\ life' = [life EXCEPT ![p] = "zombie"]
  /\ parent' = [q \in Procs |-> IF parent[q] = p THEN PidOne ELSE parent[q]]
  /\ exit_status' = IF p = Primary THEN how ELSE exit_status
  /\ writers' = [s \in Streams |-> writers[s] \ {p}]
  /\ UNCHANGED <<born, doomed, confined, pipe, open, ready_pipe, workspace>>

(* A live parent collects its own dead child before PID 1 ever sees it. *)
WaitChild(p, q) ==
  /\ p \in Running
  /\ q \in Zombies
  /\ parent[q] = p
  /\ life' = [life EXCEPT ![q] = "reaped"]
  /\ UNCHANGED <<born, parent, doomed, confined, exit_status, pipe, open,
                 writers, ready_pipe, workspace>>

NamespaceStep ==
  \/ ChildReady
  \/ \E p \in Procs :
       \/ Spawn(p)
       \/ WriteWorkspace(p)
       \/ \E s \in Streams : WriteStream(p, s) \/ CloseStream(p, s)
       \/ \E how \in ExitStatuses : Exit(p, how)
       \/ \E q \in Procs : WaitChild(p, q)
=============================================================================
