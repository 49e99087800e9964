---------------------- MODULE CandidateSupervisorProofs ----------------------
(***************************************************************************)
(* Safety of the candidate supervisor for every number of processes, every *)
(* limit and every set of failing system calls.                            *)
(***************************************************************************)
EXTENDS CandidateSupervisor, FiniteSetTheorems, WellFoundedInduction, TLAPS

USE DEF PidOne, Primary

-----------------------------------------------------------------------------
(* Types. *)

(* Draining keeps byte counts natural, whatever was observed before. *)
LEMMA CapturedType ==
  ASSUME TypeOK, NEW s \in Streams
  PROVE  /\ Captured(s).observed \in Nat
         /\ Captured(s).pipe \in Nat
         /\ Captured(s).overflow \in BOOLEAN
         /\ Captured(s).open \in BOOLEAN
<1>1. pipe[s] \in Nat /\ observed[s] \in Nat /\ Cap(s) \in Nat
  BY RequestAssumption DEF TypeOK, NamespaceTypeOK, Cap
<1> QED
  BY <1>1 DEF Captured, Smaller

LEMMA DrainType ==
  ASSUME TypeOK, NEW streams, Drain(streams)
  PROVE  /\ observed' \in [Streams -> Nat]
         /\ overflow' \in [Streams -> BOOLEAN]
         /\ pipe' \in [Streams -> Nat]
<1>1. observed \in [Streams -> Nat] /\ overflow \in [Streams -> BOOLEAN]
      /\ pipe \in [Streams -> Nat]
  BY DEF TypeOK, NamespaceTypeOK
<1> QED
  BY <1>1, CapturedType DEF Drain

(* The program and the kernel keep the namespace well-typed. *)
LEMMA NamespaceType ==
  ASSUME NamespaceTypeOK, NamespaceStep
  PROVE  NamespaceTypeOK'
<1> USE NamespaceAssumption DEF NamespaceTypeOK, Procs
<1>1. CASE ChildReady
  BY <1>1 DEF ChildReady
<1>2. ASSUME NEW p \in Procs, Spawn(p) PROVE NamespaceTypeOK'
  BY <1>2 DEF Spawn, Running, Live
<1>3. ASSUME NEW p \in Procs, WriteWorkspace(p) PROVE NamespaceTypeOK'
  BY <1>3 DEF WriteWorkspace
<1>4. ASSUME NEW p \in Procs, NEW s \in Streams, WriteStream(p, s)
      PROVE  NamespaceTypeOK'
  BY <1>4 DEF WriteStream
<1>5. ASSUME NEW p \in Procs, NEW s \in Streams, CloseStream(p, s)
      PROVE  NamespaceTypeOK'
  BY <1>5 DEF CloseStream
<1>6. ASSUME NEW p \in Procs, NEW how \in ExitStatuses, Exit(p, how)
      PROVE  NamespaceTypeOK'
  BY <1>6 DEF Exit
<1>7. ASSUME NEW p \in Procs, NEW q \in Procs, WaitChild(p, q)
      PROVE  NamespaceTypeOK'
  BY <1>7 DEF WaitChild
<1> QED
  BY <1>1, <1>2, <1>3, <1>4, <1>5, <1>6, <1>7 DEF NamespaceStep

LEMMA InitType == Init => TypeOK
<1> SUFFICES ASSUME Init PROVE TypeOK
  OBVIOUS
<1>1. NamespaceTypeOK
  <2>1. born \in 0 .. MaxProcs /\ workspace \in 0 .. MaxWrites
    BY NamespaceAssumption DEF Init, NamespaceInit
  <2>2. /\ pipe \in [Streams -> Nat] /\ open \in [Streams -> BOOLEAN]
        /\ writers \in [Streams -> SUBSET Procs]
    BY DEF Init, NamespaceInit
  <2> QED
    BY <2>1, <2>2 DEF Init, NamespaceInit, NamespaceTypeOK, ExitStatuses
<1>2. snapshot \in Images
  BY DEF Init, Images, NoImage
<1> QED
  BY <1>1, <1>2 DEF Init, TypeOK, Labels, Timers, ExitStatuses

(* What the steps of PID 1 do to the namespace variables. *)
LEMMA KillAllType ==
  ASSUME NamespaceTypeOK, KillAll
  PROVE  doomed' \in SUBSET Procs
BY DEF NamespaceTypeOK, KillAll, Live

LEMMA ResultFrameType ==
  ASSUME TypeOK, NEW error \in BOOLEAN
  PROVE  ResultFrame(error) \in Frames
<1>1. ProcessStatus \in Statuses /\ ChildExitCode \in -1 .. 255
  BY DEF ProcessStatus, ChildExitCode, Statuses
<1>2. ASSUME NEW fs, NEW status, NEW code
      PROVE  ClassifyOutcome(fs, status, code) \in Outcomes
  BY DEF ClassifyOutcome, Outcomes, ResourceOutcomes
<1> QED
  BY <1>1, <1>2 DEF ResultFrame, Frames, TypeOK, Outcomes, ResourceOutcomes

LEMMA TypeStep == TypeOK /\ [Next]_vars => TypeOK'
<1> SUFFICES ASSUME TypeOK, [Next]_vars PROVE TypeOK'
  OBVIOUS
<1> USE DEF TypeOK, Labels, Timers, timingVars, controlVars, clockVars,
        limitVars, evidenceVars, reapVars, captureVars, readyVars, imageVars,
        reportVars
<1>1. CASE ParseRequest
  BY <1>1 DEF ParseRequest, namespaceVars, NamespaceTypeOK
<1>2. CASE Setup
  <2>1. infrastructure_error' \in BOOLEAN /\ flags' \in SUBSET Flags
    BY <1>2 DEF Setup, MayFail, Flags, SetupFlags
  <2> QED
    BY <1>2, <2>1 DEF Setup, namespaceVars, NamespaceTypeOK
<1>3. CASE Fork
  <2>1. CASE ForkPrimary
    <3>1. NamespaceTypeOK'
      <4>1. born' \in 0 .. MaxProcs /\ open' \in [Streams -> BOOLEAN]
        BY <2>1, NamespaceAssumption DEF ForkPrimary
      <4>2. Primary \in Procs
        BY NamespaceAssumption DEF Procs
      <4>3. writers' \in [Streams -> SUBSET Procs]
        BY <2>1, <4>2 DEF ForkPrimary
      <4>4. life' \in [Procs -> {"unborn", "live", "zombie", "reaped"}]
        BY <2>1 DEF ForkPrimary, NamespaceTypeOK
      <4> QED
        BY <1>3, <2>1, <4>1, <4>3, <4>4
        DEF Fork, ForkPrimary, NamespaceTypeOK, namespaceVars
    <3>2. pc' \in Labels /\ ready_open' \in BOOLEAN /\ ready_seen' \in BOOLEAN
      BY <1>3, <2>1 DEF Fork, ForkPrimary
    <3>3. UNCHANGED <<timingVars, reapVars, cumulative_cpu, captureVars,
                      imageVars, reportVars>>
      BY <1>3 DEF Fork
    <3>4. infrastructure_error' \in BOOLEAN
      BY <1>3 DEF Fork
    <3> QED
      BY <3>1, <3>2, <3>3, <3>4
  <2>2. CASE ~ForkPrimary
    <3>1. UNCHANGED <<namespaceVars, ready_open, timingVars, reapVars,
                      cumulative_cpu, captureVars, ready_seen, imageVars,
                      reportVars>>
      BY <1>3, <2>2 DEF Fork
    <3>2. pc' \in Labels /\ infrastructure_error' \in BOOLEAN
      BY <1>3, <2>2 DEF Fork
    <3> QED
      BY <3>1, <3>2 DEF namespaceVars, NamespaceTypeOK
  <2> QED
    BY <2>1, <2>2
<1>4. ASSUME NEW p \in Procs, ReapChild(p) PROVE TypeOK'
  BY <1>4, FaultsAssumption
  DEF ReapChild, NamespaceTypeOK, streamVars, ExitStatuses
<1>5. CASE ReapNothing
  BY <1>5 DEF ReapNothing, AfterReaping, namespaceVars, NamespaceTypeOK
<1>6. CASE ReapNoChild
  BY <1>6 DEF ReapNoChild, AfterReaping, namespaceVars, NamespaceTypeOK
<1>7. CASE ReapFails
  BY <1>7 DEF ReapFails, namespaceVars, NamespaceTypeOK
<1>8. CASE AccountCpu
  BY <1>8, FaultsAssumption
  DEF AccountCpu, MayFail, Larger, CpuReached, namespaceVars, NamespaceTypeOK
<1>9. CASE Decide
  <2>1. doomed' \in SUBSET Procs
    BY <1>9, KillAllType DEF Decide, NamespaceTypeOK
  <2>2. /\ wall_limit_reached' \in BOOLEAN /\ terminating' \in BOOLEAN
        /\ grace' \in Timers /\ infrastructure_error' \in BOOLEAN
        /\ pc' \in Labels
    BY <1>9 DEF Decide, MayFail
  <2> QED
    BY <1>9, <2>1, <2>2 DEF Decide, processVars, streamVars, NamespaceTypeOK
<1>10. CASE Poll
  BY <1>10 DEF Poll, MayFail, namespaceVars, NamespaceTypeOK
<1>11. ASSUME NEW s \in Streams, NEW next \in Labels, DrainStream(s, next)
       PROVE  TypeOK'
  <2>1. /\ observed' \in [Streams -> Nat] /\ overflow' \in [Streams -> BOOLEAN]
        /\ pipe' \in [Streams -> Nat] /\ open' \in [Streams -> BOOLEAN]
    BY <1>11, DrainType, CapturedType DEF DrainStream, NamespaceTypeOK
  <2>2. NamespaceTypeOK'
    BY <1>11, <2>1 DEF DrainStream, processVars, NamespaceTypeOK
  <2>3. pc' \in Labels
    BY <1>11 DEF DrainStream, LoopTest
  <2>4. infrastructure_error' \in BOOLEAN /\ ready_open' \in BOOLEAN
    BY <1>11 DEF DrainStream
  <2> QED
    BY <1>11, <2>1, <2>2, <2>3, <2>4 DEF DrainStream
<1>12. CASE DrainReady
  <2>1. NamespaceTypeOK'
    BY <1>12 DEF DrainReady, ReadReady, processVars, NamespaceTypeOK
  <2>2. pc' \in Labels
    BY <1>12 DEF DrainReady, LoopTest
  <2>3. /\ infrastructure_error' \in BOOLEAN
        /\ ready_open' \in BOOLEAN /\ ready_seen' \in BOOLEAN
    BY <1>12 DEF DrainReady, ReadReady, ReadyWriterAlive
  <2> QED
    BY <1>12, <2>1, <2>2, <2>3 DEF DrainReady
<1>13. CASE Sweep
  <2>1. doomed' \in SUBSET Procs
    BY <1>13, KillAllType DEF Sweep, NamespaceTypeOK
  <2> QED
    BY <1>13, <2>1 DEF Sweep, MayFail, processVars, streamVars, NamespaceTypeOK
<1>14. CASE SweepClock
  <2>1. doomed' \in SUBSET Procs
    BY <1>14, KillAllType DEF SweepClock, NamespaceTypeOK
  <2> QED
    BY <1>14, <2>1
    DEF SweepClock, MayFail, processVars, streamVars, NamespaceTypeOK
<1>15. CASE FinalDrain
  <2>1. /\ observed' \in [Streams -> Nat] /\ overflow' \in [Streams -> BOOLEAN]
        /\ pipe' \in [Streams -> Nat]
    BY <1>15, DrainType DEF FinalDrain
  <2>2. ready_pipe' \in Nat /\ ready_seen' \in BOOLEAN
    BY <1>15 DEF FinalDrain, ReadReady, NamespaceTypeOK
  <2>3. open' \in [Streams -> BOOLEAN]
    BY <1>15 DEF FinalDrain
  <2>4. NamespaceTypeOK'
    BY <1>15, <2>1, <2>2, <2>3 DEF FinalDrain, processVars, NamespaceTypeOK
  <2>5. ready_open' \in BOOLEAN /\ pc' \in Labels
    BY <1>15 DEF FinalDrain
  <2>6. UNCHANGED <<infrastructure_error, timingVars, reapVars, cumulative_cpu,
                    imageVars, reportVars>>
    BY <1>15 DEF FinalDrain
  <2> QED
    BY <2>1, <2>2, <2>4, <2>5, <2>6
<1>16. CASE Measure
  <2>1. flags' \in SUBSET Flags
    BY <1>16
    DEF Measure, MeasuredFlags, Flags, SetupFlags, CleanupFlags, ResourceFlags,
        ConfinementFlags, OverflowFlag
  <2>2. NamespaceTypeOK'
    BY <1>16 DEF Measure, namespaceVars, NamespaceTypeOK
  <2>3. /\ wall_at_timeout' \in BOOLEAN /\ wall_limit_reached' \in BOOLEAN
        /\ infrastructure_error' \in BOOLEAN /\ pc' \in Labels
    BY <1>16 DEF Measure, MayFail
  <2>4. cumulative_cpu' \in Nat /\ cpu_limit_reached' \in BOOLEAN
    BY <1>16 DEF Measure, Larger, CpuReached
  <2>5. UNCHANGED <<controlVars, clockVars, reapVars, captureVars, readyVars,
                    imageVars, frame>>
    BY <1>16 DEF Measure
  <2> QED
    BY <2>1, <2>2, <2>3, <2>4, <2>5
<1>17. CASE BuildWorkspaceSnapshot
  <2>1. snapshot' \in Images
    BY <1>17, RequestAssumption
    DEF BuildWorkspaceSnapshot, BuildImage, ArchiveSizes, Smaller, NoImage,
        Images, NamespaceTypeOK
  <2> QED
    BY <1>17, <2>1 DEF BuildWorkspaceSnapshot, namespaceVars, NamespaceTypeOK
<1>18. CASE WriteSnapshot
  <2>1. snapshot.used \in Nat /\ snapshot.version \in 0 .. MaxWrites \cup {None}
    BY DEF Images
  <2>2. flags' \in SUBSET Flags
    BY <1>18 DEF WriteSnapshot, Flags, ResourceFlags
  <2>3. infrastructure_error' \in BOOLEAN /\ snapshot_bytes' \in Nat
        /\ archive' \in 0 .. MaxWrites \cup {None}
    BY <1>18, <2>1 DEF WriteSnapshot
  <2>4. NamespaceTypeOK'
    BY <1>18 DEF WriteSnapshot, namespaceVars, NamespaceTypeOK
  <2> QED
    BY <1>18, <2>2, <2>3, <2>4 DEF WriteSnapshot
<1>19. CASE Classify
  <2>1. infrastructure_error' \in BOOLEAN
    BY <1>19 DEF Classify
  <2>2. frame' \in Frames
    BY <1>19, <2>1, ResultFrameType DEF Classify
  <2> QED
    BY <1>19, <2>1, <2>2 DEF Classify, namespaceVars, NamespaceTypeOK
<1>20. CASE WriteResult
  BY <1>20 DEF WriteResult, namespaceVars, NamespaceTypeOK
<1>21. CASE Namespace
  <2>1. NamespaceTypeOK'
    BY <1>21, NamespaceType DEF Namespace
  <2> QED
    BY <1>21, <2>1 DEF Namespace, supervisorVars
<1>22. CASE TerminationSignal
  BY <1>22 DEF TerminationSignal, namespaceVars, NamespaceTypeOK
<1>23. CASE WallExpires
  BY <1>23 DEF WallExpires, namespaceVars, NamespaceTypeOK
<1>24. CASE GraceExpires
  BY <1>24 DEF GraceExpires, namespaceVars, NamespaceTypeOK
<1>25. CASE UNCHANGED vars
  BY <1>25 DEF vars, supervisorVars, namespaceVars, NamespaceTypeOK
<1>26. CASE DrainStdout \/ DrainStderr
  BY <1>26, <1>11 DEF DrainStdout, DrainStderr, Streams
<1> QED
  BY <1>1, <1>2, <1>3, <1>4, <1>5, <1>6, <1>7, <1>8, <1>9, <1>10, <1>12, <1>13,
     <1>14, <1>15, <1>16, <1>17, <1>18, <1>19, <1>20, <1>21, <1>22, <1>23,
     <1>24, <1>25, <1>26
  DEF Next, Supervisor, Ended

(* Every state of the supervisor is well-typed (all C locals of main()).   *)
THEOREM TypeCorrect == Spec => []TypeOK
  BY InitType, TypeStep, PTL DEF Spec

-----------------------------------------------------------------------------
(* The inductive invariant behind the safety theorems below.               *)

Unstarted == {"request", "setup", "fork"}
Turning   == {"reap", "scan", "decide", "poll", "stdout", "stderr", "ready",
              "sweep", "sweep_reap", "sweep_clock", "final_drain"}

(* Processes are born in order, and a parent is PID 1 or alive and older:  *)
(* this is why having no child can mean having no process.                 *)
FamilyTree ==
  /\ \A p \in Procs : p > born => life[p] = "unborn" /\ parent[p] = PidOne
  /\ \A p \in Present :
       parent[p] = PidOne \/ (parent[p] \in Live /\ parent[p] < p)

(* What PID 1 may believe at each point of main(). *)
Progress ==
  /\ pc \in Unstarted => ~terminating /\ ~all_reaped
  /\ pc \in Turning \/ all_reaped => born > 0
  /\ pc = "measure" /\ ~infrastructure_error => born > 0
  /\ pc \in {"snapshot", "sink"} => all_reaped
  /\ pc \notin {"classify", "write", "reported", "silent"} => archive = None

(* What the image, then the archive, then the frame speaks of. *)
ArchiveTrue ==
  /\ pc = "sink" /\ snapshot.result # "error" => snapshot.version = workspace
  /\ pc = "classify" /\ ~infrastructure_error
       => all_reaped /\ archive = workspace
  /\ pc \in {"write", "reported"} => frame # NoFrame
  /\ frame # NoFrame => pc \in {"write", "reported", "silent"}
  /\ NonError => all_reaped /\ archive = workspace

IInv ==
  /\ TypeOK
  /\ FamilyTree /\ Progress /\ ArchiveTrue
  /\ ReapedMeansEmpty /\ NothingEscapesTheKill

(* The steps that are not calls of the supervisor, and those of its calls  *)
(* that do not touch the process tree.                                     *)
TreeUnchanged == UNCHANGED <<born, life, parent>>

LEMMA TreeMoves ==
  ASSUME [Next]_vars
  PROVE  \/ TreeUnchanged
         \/ Fork /\ ForkPrimary /\ UNCHANGED parent
         \/ \E p \in Procs : ReapChild(p)
         \/ Namespace
<1> USE DEF TreeUnchanged, namespaceVars, processVars
<1>1. CASE Fork
  BY <1>1 DEF Fork
<1>2. CASE ParseRequest \/ Setup \/ ReapNothing \/ ReapNoChild \/ ReapFails
  BY <1>2 DEF ParseRequest, Setup, ReapNothing, ReapNoChild, ReapFails
<1>3. CASE AccountCpu \/ Decide \/ Poll
  BY <1>3 DEF AccountCpu, Decide, Poll
<1>4. CASE DrainStdout \/ DrainStderr \/ DrainReady
  BY <1>4 DEF DrainStdout, DrainStderr, DrainStream, DrainReady
<1>5. CASE Sweep \/ SweepClock \/ FinalDrain \/ Measure
  BY <1>5 DEF Sweep, SweepClock, FinalDrain, Measure
<1>6. CASE BuildWorkspaceSnapshot \/ WriteSnapshot \/ Classify \/ WriteResult
  BY <1>6 DEF BuildWorkspaceSnapshot, WriteSnapshot, Classify, WriteResult
<1>7. CASE TerminationSignal \/ WallExpires \/ GraceExpires \/ UNCHANGED vars
  BY <1>7 DEF TerminationSignal, WallExpires, GraceExpires, vars
<1> QED
  BY <1>1, <1>2, <1>3, <1>4, <1>5, <1>6, <1>7 DEF Next, Supervisor, Ended

(* Births are in order and orphans are handed to PID 1 in the same step in *)
(* which their parent dies.                                                *)
LEMMA FamilyTreeStep == TypeOK /\ FamilyTree /\ [Next]_vars => FamilyTree'
<1> SUFFICES ASSUME TypeOK, FamilyTree, [Next]_vars PROVE FamilyTree'
  OBVIOUS
<1> USE NamespaceAssumption
    DEF TypeOK, NamespaceTypeOK, FamilyTree, Present, Live, Zombies, Procs
<1>1. CASE TreeUnchanged
  BY <1>1 DEF TreeUnchanged
<1>2. CASE Fork /\ ForkPrimary /\ UNCHANGED parent
  BY <1>2 DEF ForkPrimary
<1>3. ASSUME NEW p \in Procs, ReapChild(p) PROVE FamilyTree'
  BY <1>3 DEF ReapChild, Collectable
<1>4. CASE Namespace
  <2>1. CASE ChildReady
    BY <2>1 DEF ChildReady
  <2>2. ASSUME NEW p \in Procs, Spawn(p) PROVE FamilyTree'
    BY <2>2 DEF Spawn, Running
  <2>3. ASSUME NEW p \in Procs, WriteWorkspace(p) PROVE FamilyTree'
    BY <2>3 DEF WriteWorkspace
  <2>4. ASSUME NEW p \in Procs, NEW s \in Streams, WriteStream(p, s)
        PROVE  FamilyTree'
    BY <2>4 DEF WriteStream
  <2>5. ASSUME NEW p \in Procs, NEW s \in Streams, CloseStream(p, s)
        PROVE  FamilyTree'
    BY <2>5 DEF CloseStream
  <2>6. ASSUME NEW p \in Procs, NEW how \in ExitStatuses, Exit(p, how)
        PROVE  FamilyTree'
    BY <2>6 DEF Exit
  <2>7. ASSUME NEW p \in Procs, NEW q \in Procs, WaitChild(p, q)
        PROVE  FamilyTree'
    BY <2>7 DEF WaitChild
  <2> QED
    BY <1>4, <2>1, <2>2, <2>3, <2>4, <2>5, <2>6, <2>7
    DEF Namespace, NamespaceStep
<1> QED
  BY <1>1, <1>2, <1>3, <1>4, TreeMoves

(* If any process exists, the oldest one is a child of PID 1. *)
LEMMA OldestIsMine ==
  ASSUME TypeOK, FamilyTree, Present # {}
  PROVE  HasChild
<1>1. Present \subseteq Nat
  BY NamespaceAssumption DEF Present, Live, Zombies, Procs
<1>2. IsWellFoundedOn(OpToRel(<, Nat), Nat)
  BY NatLessThanWellFounded
<1>3. PICK oldest \in Present :
        \A q \in Present : ~(<<q, oldest>> \in OpToRel(<, Nat))
  BY <1>1, <1>2, WFMin
<1>4. \A q \in Present : ~(q < oldest)
  BY <1>1, <1>3 DEF OpToRel
<1>5. parent[oldest] = PidOne
  BY <1>4 DEF FamilyTree, Present
<1> QED
  BY <1>5 DEF HasChild

(* all_reaped is only set when wait4 finds no child, and from then on      *)
(* nobody is left to fork.                                                 *)
LEMMA ReapedStep ==
  TypeOK /\ FamilyTree /\ Progress /\ ReapedMeansEmpty /\ [Next]_vars
    => ReapedMeansEmpty'
<1> SUFFICES ASSUME TypeOK, FamilyTree, Progress, ReapedMeansEmpty, [Next]_vars
             PROVE  ReapedMeansEmpty'
  OBVIOUS
<1> USE DEF ReapedMeansEmpty, Present, Live, Zombies
<1>1. CASE ReapNoChild
  BY <1>1, OldestIsMine DEF ReapNoChild, namespaceVars
<1>2. CASE ~ReapNoChild
  <2>1. all_reaped' = all_reaped
    <3>1. CASE Namespace \/ UNCHANGED vars
      BY <3>1 DEF Namespace, supervisorVars, vars
    <3>2. CASE TerminationSignal \/ WallExpires \/ GraceExpires
      BY <3>2 DEF TerminationSignal, WallExpires, GraceExpires, evidenceVars,
                  reapVars
    <3>3. CASE Supervisor
      BY <1>2, <3>3
      DEF Supervisor, ParseRequest, Setup, Fork, ReapChild, ReapNothing,
          ReapFails, AccountCpu, Decide, Poll, DrainStdout, DrainStderr,
          DrainStream, DrainReady, Sweep, SweepClock, FinalDrain, Measure,
          BuildWorkspaceSnapshot, WriteSnapshot, Classify, WriteResult,
          evidenceVars, reapVars
    <3> QED
      BY <3>1, <3>2, <3>3 DEF Next, Ended
  <2>2. CASE TreeUnchanged
    BY <2>1, <2>2 DEF TreeUnchanged
  <2>3. CASE Fork /\ ForkPrimary /\ UNCHANGED parent
    BY <2>1, <2>3 DEF Fork, Progress, Unstarted
  <2>4. ASSUME NEW p \in Procs, ReapChild(p) PROVE ReapedMeansEmpty'
    BY <2>1, <2>4 DEF ReapChild, TypeOK, NamespaceTypeOK
  <2>5. CASE Namespace
    BY <2>1, <2>5, NamespaceAssumption
    DEF Namespace, NamespaceStep, ChildReady, Spawn, WriteWorkspace,
        WriteStream, CloseStream, Exit, WaitChild, Running, TypeOK,
        NamespaceTypeOK, Procs
  <2> QED
    BY <2>2, <2>3, <2>4, <2>5, TreeMoves
<1> QED
  BY <1>1, <1>2

(* terminating is set together with kill(-1), and a process that SIGKILL   *)
(* has reached cannot fork any more.                                       *)
LEMMA KillStep ==
  TypeOK /\ Progress /\ NothingEscapesTheKill /\ [Next]_vars
    => NothingEscapesTheKill'
<1> SUFFICES ASSUME TypeOK, Progress, NothingEscapesTheKill, [Next]_vars
             PROVE  NothingEscapesTheKill'
  OBVIOUS
<1> USE DEF NothingEscapesTheKill, Live
<1>1. CASE Decide
  BY <1>1 DEF Decide, KillAll, processVars, TypeOK
<1>2. CASE Sweep \/ SweepClock
  BY <1>2 DEF Sweep, SweepClock, KillAll, processVars, controlVars, timingVars
<1>3. CASE Fork
  BY <1>3 DEF Fork, Progress, Unstarted, controlVars, timingVars
<1>4. ASSUME NEW p \in Procs, ReapChild(p) PROVE NothingEscapesTheKill'
  BY <1>4 DEF ReapChild, controlVars, timingVars, TypeOK, NamespaceTypeOK
<1>5. CASE Namespace
  BY <1>5, NamespaceAssumption
  DEF Namespace, NamespaceStep, ChildReady, Spawn, WriteWorkspace, WriteStream,
      CloseStream, Exit, WaitChild, Running, TypeOK, NamespaceTypeOK, Procs,
      supervisorVars
<1>6. CASE \/ TerminationSignal \/ WallExpires \/ GraceExpires
           \/ UNCHANGED vars
  BY <1>6 DEF TerminationSignal, WallExpires, GraceExpires, vars, namespaceVars,
              supervisorVars, controlVars
<1>7. CASE \/ ParseRequest \/ Setup \/ ReapNothing \/ ReapNoChild \/ ReapFails
           \/ AccountCpu \/ Poll \/ DrainStdout \/ DrainStderr \/ DrainReady
           \/ FinalDrain \/ Measure \/ BuildWorkspaceSnapshot \/ WriteSnapshot
           \/ Classify \/ WriteResult
  BY <1>7
  DEF ParseRequest, Setup, ReapNothing, ReapNoChild, ReapFails, AccountCpu,
      Poll, DrainStdout, DrainStderr, DrainStream, DrainReady, FinalDrain,
      Measure, BuildWorkspaceSnapshot, WriteSnapshot, Classify, WriteResult,
      namespaceVars, processVars, controlVars, timingVars
<1> QED
  BY <1>1, <1>2, <1>3, <1>4, <1>5, <1>6, <1>7 DEF Next, Supervisor, Ended

(* Each step of main() takes the place in the order its guard asks for. *)
LEMMA ProgressStep == TypeOK /\ Progress /\ [Next]_vars => Progress'
<1> SUFFICES ASSUME TypeOK, Progress, [Next]_vars PROVE Progress'
  OBVIOUS
<1> USE DEF Progress, Unstarted, Turning, timingVars, controlVars, evidenceVars,
        reapVars, imageVars, namespaceVars, processVars
<1>1. CASE ParseRequest \/ Setup
  BY <1>1 DEF ParseRequest, Setup
<1>2. CASE Fork
  BY <1>2 DEF Fork, ForkPrimary
<1>3. ASSUME NEW p \in Procs, ReapChild(p) PROVE Progress'
  BY <1>3 DEF ReapChild, Reaping
<1>4. CASE ReapNothing \/ ReapNoChild \/ ReapFails
  BY <1>4 DEF ReapNothing, ReapNoChild, ReapFails, Reaping, AfterReaping
<1>5. CASE AccountCpu \/ Decide \/ Poll
  BY <1>5 DEF AccountCpu, Decide, Poll
<1>6. CASE DrainStdout \/ DrainStderr \/ DrainReady
  BY <1>6 DEF DrainStdout, DrainStderr, DrainStream, DrainReady, LoopTest
<1>7. CASE Sweep \/ SweepClock \/ FinalDrain
  BY <1>7 DEF Sweep, SweepClock, FinalDrain
<1>8. CASE Measure
  BY <1>8 DEF Measure
<1>9. CASE BuildWorkspaceSnapshot \/ WriteSnapshot \/ Classify \/ WriteResult
  BY <1>9 DEF BuildWorkspaceSnapshot, WriteSnapshot, Classify, WriteResult
<1>10. CASE Namespace
  BY <1>10, NamespaceAssumption
  DEF Namespace, NamespaceStep, ChildReady, Spawn, WriteWorkspace, WriteStream,
      CloseStream, Exit, WaitChild, supervisorVars, TypeOK, NamespaceTypeOK
<1>11. CASE \/ TerminationSignal \/ WallExpires \/ GraceExpires
            \/ UNCHANGED vars
  BY <1>11 DEF TerminationSignal, WallExpires, GraceExpires, vars,
               supervisorVars
<1> QED
  BY <1>1, <1>2, <1>3, <1>4, <1>5, <1>6, <1>7, <1>8, <1>9, <1>10, <1>11
  DEF Next, Supervisor, Ended

(* The workspace of an empty namespace does not change any more. *)
LEMMA WorkspaceAtRest ==
  ASSUME TypeOK, Present = {}, Namespace
  PROVE  FALSE
BY NamespaceAssumption
DEF Namespace, NamespaceStep, ChildReady, Spawn, WriteWorkspace, WriteStream,
    CloseStream, Exit, WaitChild, Running, Present, Live, Procs

(* The image is taken of a namespace at rest, delivered unchanged, and only*)
(* an undisturbed delivery leads to a frame that is not an error.          *)
LEMMA ArchiveStep ==
  TypeOK /\ Progress /\ ReapedMeansEmpty /\ ArchiveTrue /\ [Next]_vars
    => ArchiveTrue'
<1> SUFFICES ASSUME TypeOK, Progress, ReapedMeansEmpty, ArchiveTrue, [Next]_vars
             PROVE  ArchiveTrue'
  OBVIOUS
<1> USE DEF ArchiveTrue, NonError, timingVars, evidenceVars, reapVars, imageVars,
        reportVars, namespaceVars, processVars
<1>1. CASE ParseRequest \/ Setup \/ Fork
  BY <1>1 DEF ParseRequest, Setup, Fork
<1>2. ASSUME NEW p \in Procs, ReapChild(p) PROVE ArchiveTrue'
  BY <1>2 DEF ReapChild, Reaping
<1>3. CASE ReapNothing \/ ReapNoChild \/ ReapFails
  BY <1>3 DEF ReapNothing, ReapNoChild, ReapFails, Reaping, AfterReaping
<1>4. CASE AccountCpu \/ Decide \/ Poll
  BY <1>4 DEF AccountCpu, Decide, Poll
<1>5. CASE DrainStdout \/ DrainStderr \/ DrainReady
  BY <1>5 DEF DrainStdout, DrainStderr, DrainStream, DrainReady, LoopTest
<1>6. CASE Sweep \/ SweepClock \/ FinalDrain
  BY <1>6 DEF Sweep, SweepClock, FinalDrain
<1>7. CASE Measure
  BY <1>7 DEF Measure, Progress, Forked
<1>8. CASE BuildWorkspaceSnapshot
  BY <1>8 DEF BuildWorkspaceSnapshot, BuildImage, NoImage
<1>9. CASE WriteSnapshot
  BY <1>9 DEF WriteSnapshot, Progress
<1>10. CASE Classify
  BY <1>10 DEF Classify, ResultFrame, NoFrame, TypeOK
<1>11. CASE WriteResult
  BY <1>11 DEF WriteResult
<1>12. CASE Namespace
  <2>1. Present # {}
    BY <1>12, WorkspaceAtRest
  <2>2. ~all_reaped
    BY <2>1 DEF ReapedMeansEmpty
  <2> QED
    BY <1>12, <2>2 DEF Namespace, supervisorVars, Progress
<1>13. CASE \/ TerminationSignal \/ WallExpires \/ GraceExpires
            \/ UNCHANGED vars
  BY <1>13 DEF TerminationSignal, WallExpires, GraceExpires, vars,
               supervisorVars
<1> QED
  BY <1>1, <1>2, <1>3, <1>4, <1>5, <1>6, <1>7, <1>8, <1>9, <1>10, <1>11, <1>12,
     <1>13
  DEF Next, Supervisor, Ended

-----------------------------------------------------------------------------
(* The theorems. *)

LEMMA InvInit == Init => IInv
<1> SUFFICES ASSUME Init PROVE IInv
  OBVIOUS
<1>1. Present = {}
  BY DEF Init, NamespaceInit, Present, Live, Zombies
<1> QED
  BY <1>1, InitType
  DEF Init, NamespaceInit, IInv, FamilyTree, Progress, Unstarted, Turning,
      ArchiveTrue, NonError, ReapedMeansEmpty, NothingEscapesTheKill

LEMMA InvStep == IInv /\ [Next]_vars => IInv'
  BY TypeStep, FamilyTreeStep, ProgressStep, ReapedStep, KillStep, ArchiveStep
  DEF IInv

THEOREM InvCorrect == Spec => []IInv
  BY InvInit, InvStep, PTL DEF Spec

(* ECHILD from wait4 really means an empty namespace (reap_available). *)
THEOREM ReapedMeansEmptyCorrect == Spec => []ReapedMeansEmpty
<1>1. IInv => ReapedMeansEmpty
  BY DEF IInv
<1> QED
  BY <1>1, InvCorrect, PTL

(* No process escapes kill(-1, SIGKILL) (kill_namespace_processes). *)
THEOREM NothingEscapesTheKillCorrect == Spec => []NothingEscapesTheKill
<1>1. IInv => NothingEscapesTheKill
  BY DEF IInv
<1> QED
  BY <1>1, InvCorrect, PTL

(* A verdict other than SUPERVISOR_ERROR is about a world at rest, and the *)
(* archive delivered with it is that world's workspace (main, measured at  *)
(* sole_namespace_pid1 and later).                                         *)
THEOREM QuiescentVerdictCorrect == Spec => []QuiescentVerdict
<1>1. IInv => QuiescentVerdict
  BY DEF IInv, ArchiveTrue, ReapedMeansEmpty, QuiescentVerdict
<1> QED
  BY <1>1, InvCorrect, PTL

-----------------------------------------------------------------------------
(* The supervisor implements its contract. *)

(* While PID 1 is alive the controller has no verdict; a step that keeps   *)
(* the process tree, the workspace and the archive is then a stutter.      *)
LEMMA HiddenStep ==
  ASSUME UNCHANGED <<born, life, workspace, archive>>, Alive, Alive'
  PROVE  UNCHANGED Contract!vars
<1>1. VerdictGiven = "none" /\ VerdictGiven' = "none"
  BY DEF Alive, VerdictGiven
<1>2. Stage' = Stage
  BY DEF Stage, Present, Live, Zombies
<1> QED
  BY <1>1, <1>2 DEF Contract!vars

(* A process that works keeps the namespace populated. *)
LEMMA NamespaceContract ==
  ASSUME IInv, Namespace
  PROVE  [Contract!Next]_(Contract!vars)
<1>1. VerdictGiven = "none" /\ VerdictGiven' = "none" /\ archive' = archive
  BY DEF Namespace, supervisorVars, Alive, VerdictGiven
<1>2. born > 0 /\ born' > 0
  <2>1. PICK p \in Procs : p \in Present
    BY WorkspaceAtRest DEF IInv, Present, Live, Zombies
  <2>2. born > 0
    BY <2>1, NamespaceAssumption
    DEF IInv, TypeOK, NamespaceTypeOK, FamilyTree, Present, Live, Zombies, Procs
  <2> QED
    BY <2>2
    DEF Namespace, NamespaceStep, ChildReady, Spawn, WriteWorkspace,
        WriteStream, CloseStream, Exit, WaitChild, IInv, TypeOK, NamespaceTypeOK
<1>3. Present # {}
  BY WorkspaceAtRest DEF IInv
<1>4. Present' # {}
  BY NamespaceAssumption
  DEF Namespace, NamespaceStep, ChildReady, Spawn, WriteWorkspace, WriteStream,
      CloseStream, Exit, WaitChild, Present, Live, Zombies, Running, IInv,
      TypeOK, NamespaceTypeOK, Procs
<1>5. Stage = "running" /\ Stage' = "running"
  BY <1>2, <1>3, <1>4 DEF Stage
<1>6. workspace' \in {workspace, workspace + 1}
  BY DEF Namespace, NamespaceStep, ChildReady, Spawn, WriteWorkspace,
         WriteStream, CloseStream, Exit, WaitChild
<1> QED
  BY <1>1, <1>5, <1>6 DEF Contract!Next, Contract!Work, Contract!vars

LEMMA ContractStep ==
  ASSUME IInv, IInv', [Next]_vars
  PROVE  [Contract!Next]_(Contract!vars)
<1> USE DEF Alive, namespaceVars, processVars, imageVars, evidenceVars
<1>1. CASE ParseRequest
  <2>1. CASE pc' = "silent"
    <3>1. /\ VerdictGiven = "none" /\ VerdictGiven' = "no answer"
          /\ UNCHANGED <<Stage, workspace, archive>>
      BY <1>1, <2>1
      DEF ParseRequest, VerdictGiven, Stage, Present, Live, Zombies
    <3> QED
      BY <3>1 DEF Contract!Next, Contract!Conclude
  <2>2. CASE pc' # "silent"
    BY <1>1, <2>2, HiddenStep DEF ParseRequest
  <2> QED
    BY <2>1, <2>2
<1>2. CASE Fork /\ ForkPrimary
  <2>1. VerdictGiven = "none" /\ VerdictGiven' = "none"
    BY <1>2 DEF Fork, ForkPrimary, VerdictGiven
  <2>2. Stage = "idle" /\ born' = 1
    BY <1>2 DEF ForkPrimary, Stage
  <2>3. Primary \in Present'
    BY <1>2, NamespaceAssumption
    DEF ForkPrimary, Present, Live, Procs, IInv, TypeOK, NamespaceTypeOK
  <2>4. Stage' = "running"
    BY <2>2, <2>3 DEF Stage
  <2>5. UNCHANGED <<workspace, archive>>
    BY <1>2 DEF Fork, ForkPrimary
  <2> QED
    BY <2>1, <2>2, <2>4, <2>5 DEF Contract!Next, Contract!Start
<1>3. CASE Fork /\ ~ForkPrimary
  BY <1>3, HiddenStep DEF Fork
<1>4. ASSUME NEW p \in Procs, ReapChild(p)
      PROVE  [Contract!Next]_(Contract!vars)
  <2>1. VerdictGiven = "none" /\ VerdictGiven' = "none"
    BY <1>4 DEF ReapChild, Reaping, VerdictGiven
  <2>2. UNCHANGED <<born, workspace, archive>>
    BY <1>4 DEF ReapChild
  <2>3. Stage = "running"
    BY <1>4 DEF ReapChild, Reaping, Collectable, Stage, Present, IInv, Progress,
                Turning
  <2>4. Stage' \in {"running", "quiet"}
    BY <1>4, <2>2 DEF ReapChild, Reaping, Stage, IInv, Progress, Turning
  <2> QED
    BY <2>1, <2>2, <2>3, <2>4 DEF Contract!Next, Contract!Quiesce, Contract!vars
<1>5. CASE Namespace
  BY <1>5, NamespaceContract
<1>6. CASE WriteSnapshot
  <2>1. VerdictGiven = "none" /\ VerdictGiven' = "none"
    BY <1>6 DEF WriteSnapshot, VerdictGiven
  <2>2. Stage = "quiet" /\ Stage' = "quiet" /\ workspace' = workspace
    BY <1>6 DEF WriteSnapshot, Stage, IInv, Progress, ReapedMeansEmpty, Present,
                Live, Zombies
  <2>3. archive = None
    BY <1>6 DEF WriteSnapshot, IInv, Progress
  <2>4. archive' = archive \/ archive' = workspace
    BY <1>6 DEF WriteSnapshot, IInv, ArchiveTrue
  <2> QED
    BY <2>1, <2>2, <2>3, <2>4 DEF Contract!Next, Contract!Deliver, Contract!vars
<1>7. CASE WriteResult
  <2>1. /\ VerdictGiven = "none"
        /\ UNCHANGED <<Stage, workspace, archive, frame>>
    BY <1>7
    DEF WriteResult, VerdictGiven, Stage, Present, Live, Zombies, reportVars
  <2>2. frame # NoFrame /\ frame \in Frames
    BY <1>7 DEF WriteResult, IInv, ArchiveTrue, TypeOK
  <2>3. CASE pc' = "silent"
    BY <2>1, <2>3 DEF VerdictGiven, Contract!Next, Contract!Conclude
  <2>4. CASE pc' = "reported" /\ frame.outcome = "SUPERVISOR_ERROR"
    BY <2>1, <2>4 DEF VerdictGiven, Contract!Next, Contract!Conclude
  <2>5. CASE pc' = "reported" /\ frame.outcome # "SUPERVISOR_ERROR"
    <3>1. archive = workspace
      BY <2>2, <2>5 DEF IInv, ArchiveTrue, NonError
    <3>2. VerdictGiven' = frame.outcome
      BY <2>1, <2>5 DEF VerdictGiven
    <3>3. frame.outcome \in Outcomes \ {"SUPERVISOR_ERROR"}
      BY <2>2, <2>5 DEF Frames
    <3> QED
      BY <2>1, <3>1, <3>2, <3>3 DEF Contract!Next, Contract!Conclude
  <2> QED
    BY <1>7, <2>3, <2>4, <2>5 DEF WriteResult
<1>8. CASE Setup \/ ReapNothing \/ ReapNoChild \/ ReapFails
  BY <1>8, HiddenStep
  DEF Setup, ReapNothing, ReapNoChild, ReapFails, Reaping, AfterReaping
<1>9. CASE AccountCpu \/ Decide \/ Poll
  BY <1>9, HiddenStep DEF AccountCpu, Decide, Poll
<1>10. CASE DrainStdout \/ DrainStderr \/ DrainReady
  BY <1>10, HiddenStep
  DEF DrainStdout, DrainStderr, DrainStream, DrainReady, LoopTest
<1>11. CASE Sweep \/ SweepClock \/ FinalDrain
  BY <1>11, HiddenStep DEF Sweep, SweepClock, FinalDrain
<1>12. CASE Measure \/ BuildWorkspaceSnapshot \/ Classify
  BY <1>12, HiddenStep DEF Measure, BuildWorkspaceSnapshot, Classify
<1>13. CASE TerminationSignal \/ WallExpires \/ GraceExpires
  BY <1>13, HiddenStep
  DEF TerminationSignal, WallExpires, ClockRead, GraceExpires
<1>14. CASE UNCHANGED vars
  BY <1>14
  DEF vars, supervisorVars, Contract!vars, VerdictGiven, Stage, Present, Live,
      Zombies
<1> QED
  BY <1>1, <1>2, <1>3, <1>4, <1>5, <1>6, <1>7, <1>8, <1>9, <1>10, <1>11, <1>12,
     <1>13, <1>14
  DEF Next, Supervisor, Ended

(* At most one verdict, never revised, and none but an error before the    *)
(* namespace is at rest and its workspace delivered: main() refines the    *)
(* contract for every program, limit and set of failing system calls.      *)
THEOREM ContractCorrect == Spec => ContractSpec
<1>1. Init => Contract!Init
  BY DEF Init, NamespaceInit, Contract!Init, Stage, VerdictGiven
<1>2. IInv /\ IInv' /\ [Next]_vars => [Contract!Next]_(Contract!vars)
  BY ContractStep
<1> QED
  BY <1>1, <1>2, InvCorrect, PTL DEF Spec, ContractSpec, Contract!Spec

-----------------------------------------------------------------------------
(***************************************************************************)
(* Result frames.  The supervisor and the Python validator agree on every  *)
(* frame: whatever the program does and whichever system calls fail, the   *)
(* clock excepted, a frame that is sent satisfies the binding the          *)
(* controller demands.  A verdict drops no output and speaks of the        *)
(* program's own end, and when nothing fails an error has a cause.         *)
(***************************************************************************)

ImageFlags == {"WORKSPACE_SNAPSHOT_WRITTEN", "WORKSPACE_SNAPSHOT_OVERFLOW"}

(* drain_capture: overflow means exactly one byte beyond the cap. *)
CaptureInv ==
  \A s \in Streams :
    /\ observed[s] <= Cap(s) + 1
    /\ overflow[s] <=> observed[s] = Cap(s) + 1

(* A limit is only called reached when it was. *)
LimitInv ==
  /\ wall_limit_reached => wall_expired
  /\ cpu_limit_reached => cumulative_cpu >= CpuLimit
  /\ primary_reaped => descendants_reaped >= 1

(* The flags known before the program is measured. *)
SetupInv ==
  /\ pc \notin {"request", "setup", "silent"} => "REQUEST_VALIDATED" \in flags
  /\ pc \in Turning \cup {"fork", "measure"} =>
       /\ flags \subseteq {"REQUEST_VALIDATED", "PROGRAM_DESCRIPTOR_VALIDATED",
                           "FIXTURE_DESCRIPTOR_VALIDATED"}
       /\ ~infrastructure_error =>
            {"PROGRAM_DESCRIPTOR_VALIDATED", "FIXTURE_DESCRIPTOR_VALIDATED"}
              \subseteq flags
  /\ pc \notin {"classify", "write", "reported", "silent"} => snapshot_bytes = 0

(* From Measure to Classify the flags say what the locals say. *)
MeasuredInv ==
  pc \in {"snapshot", "sink", "classify"} =>
    /\ \A s \in Streams : OverflowFlag(s) \in flags <=> overflow[s]
    /\ "WALL_LIMIT_REACHED" \in flags <=> wall_at_timeout
    /\ "CPU_LIMIT_REACHED" \in flags <=> cumulative_cpu >= CpuLimit
    /\ cumulative_cpu >= wait4_cpu
    /\ "PRIMARY_REAPED" \in flags <=> primary_reaped
    /\ "ALL_DESCENDANTS_REAPED" \in flags => primary_reaped
    /\ "SOLE_PID1" \in flags => "ALL_DESCENDANTS_REAPED" \in flags
    /\ ~infrastructure_error => SetupFlags \cup CleanupFlags \subseteq flags

(* The image fits the buffer, and the flags tell which way. *)
ImageInv ==
  /\ pc \in {"snapshot", "sink"} => flags \cap ImageFlags = {} /\ "SOLE_PID1" \in flags
  /\ pc = "sink" /\ snapshot.result # "error" =>
       /\ snapshot.used <= SnapshotCap + 1
       /\ snapshot.result = "overflow" => snapshot.used = SnapshotCap + 1
       /\ snapshot.used <= SnapshotCap => snapshot.used >= HeaderBytes
  /\ pc = "classify" =>
       \/ flags \cap ImageFlags = {} /\ snapshot_bytes = 0 /\ infrastructure_error
       \/ /\ flags \cap ImageFlags = {"WORKSPACE_SNAPSHOT_WRITTEN"}
          /\ "SOLE_PID1" \in flags
          /\ snapshot_bytes \in HeaderBytes .. SnapshotCap
       \/ /\ flags \cap ImageFlags = {"WORKSPACE_SNAPSHOT_OVERFLOW"}
          /\ "SOLE_PID1" \in flags
          /\ snapshot_bytes = SnapshotCap + 1

FrameInv == frame # NoFrame => ValidResultBinding(frame)

Evidence == CaptureInv /\ LimitInv /\ SetupInv /\ MeasuredInv /\ ImageInv

-----------------------------------------------------------------------------
(* Captures. *)

LEMMA CapNat == \A s \in Streams : Cap(s) \in Nat
BY RequestAssumption DEF Cap

(* One drain reads at most up to the ceiling and says so when it gets there. *)
LEMMA CapturedInv ==
  ASSUME TypeOK, CaptureInv, NEW s \in Streams
  PROVE  /\ Captured(s).observed <= Cap(s) + 1
         /\ Captured(s).overflow <=> Captured(s).observed = Cap(s) + 1
<1>1. /\ pipe[s] \in Nat /\ observed[s] \in Nat /\ Cap(s) \in Nat
      /\ observed[s] <= Cap(s) + 1
  BY CapNat DEF TypeOK, NamespaceTypeOK, CaptureInv
<1>2. Captured(s).observed <= Cap(s) + 1
  BY <1>1 DEF Captured, Smaller
<1>3. Captured(s).overflow <=> Captured(s).observed = Cap(s) + 1
  BY DEF Captured
<1> QED
  BY <1>2, <1>3

LEMMA DrainInv ==
  ASSUME TypeOK, CaptureInv, NEW streams, Drain(streams)
  PROVE  CaptureInv'
<1> SUFFICES ASSUME NEW s \in Streams
             PROVE  /\ observed'[s] <= Cap(s) + 1
                    /\ overflow'[s] <=> observed'[s] = Cap(s) + 1
  BY DEF CaptureInv, Cap, Streams
<1>1. CASE s \in streams /\ open[s]
  BY <1>1, CapturedInv DEF Drain
<1>2. CASE ~(s \in streams /\ open[s])
  BY <1>2 DEF Drain, CaptureInv
<1> QED
  BY <1>1, <1>2

(* Only the three drains touch the captures. *)
LEMMA CaptureStep == TypeOK /\ CaptureInv /\ [Next]_vars => CaptureInv'
<1> SUFFICES ASSUME TypeOK, CaptureInv, [Next]_vars PROVE CaptureInv'
  OBVIOUS
<1>1. CASE FinalDrain
  BY <1>1, DrainInv DEF FinalDrain
<1>2. ASSUME NEW s \in Streams, NEW next, DrainStream(s, next) PROVE CaptureInv'
  <2>1. CASE Drain({s})
    BY <2>1, DrainInv
  <2>2. CASE UNCHANGED captureVars
    BY <2>2 DEF captureVars, CaptureInv, Cap
  <2> QED
    BY <1>2, <2>1, <2>2 DEF DrainStream
<1>3. CASE UNCHANGED captureVars
  BY <1>3 DEF captureVars, CaptureInv, Cap
<1>4. CASE DrainStdout \/ DrainStderr
  BY <1>2, <1>4 DEF DrainStdout, DrainStderr, Streams
<1>5. CASE Supervisor /\ ~FinalDrain /\ ~DrainStdout /\ ~DrainStderr
  <2>1. UNCHANGED captureVars
    BY <1>5
    DEF Supervisor, ParseRequest, Setup, Fork, ReapChild, ReapNothing,
        ReapNoChild, ReapFails, AccountCpu, Decide, Poll, DrainReady, Sweep,
        SweepClock, Measure, BuildWorkspaceSnapshot, WriteSnapshot, Classify,
        WriteResult, evidenceVars
  <2> QED
    BY <1>3, <2>1
<1>6. CASE \/ Namespace \/ TerminationSignal \/ WallExpires \/ GraceExpires
           \/ UNCHANGED vars
  <2>1. UNCHANGED captureVars
    BY <1>6 DEF Namespace, TerminationSignal, WallExpires, GraceExpires, vars,
                supervisorVars, evidenceVars, captureVars
  <2> QED
    BY <1>3, <2>1
<1> QED
  BY <1>1, <1>4, <1>5, <1>6 DEF Next, Ended

-----------------------------------------------------------------------------
(* Limits and setup. *)

(* Without clock failures the wall flag always has a reading behind it. *)
LEMMA LimitStep ==
  ASSUME "clock" \notin Faults
  PROVE  TypeOK /\ LimitInv /\ [Next]_vars => LimitInv'
<1> SUFFICES ASSUME TypeOK, LimitInv, [Next]_vars PROVE LimitInv'
  OBVIOUS
<1> USE DEF LimitInv, timingVars, clockVars, limitVars, evidenceVars, reapVars
<1>1. CASE AccountCpu
  BY <1>1, FaultsAssumption, RequestAssumption
  DEF AccountCpu, CpuReached, Larger, TypeOK
<1>2. CASE Decide
  BY <1>2 DEF Decide, MayFail, TypeOK
<1>3. CASE Measure
  BY <1>3, RequestAssumption DEF Measure, CpuReached, Larger, MayFail, TypeOK
<1>4. ASSUME NEW p \in Procs, ReapChild(p) PROVE LimitInv'
  BY <1>4 DEF ReapChild, TypeOK
<1>5. CASE \/ ParseRequest \/ Setup \/ Fork \/ ReapNothing \/ ReapNoChild
           \/ ReapFails \/ Poll \/ DrainStdout \/ DrainStderr \/ DrainReady
           \/ Sweep \/ SweepClock \/ FinalDrain \/ BuildWorkspaceSnapshot
           \/ WriteSnapshot \/ Classify \/ WriteResult
  BY <1>5
  DEF ParseRequest, Setup, Fork, ReapNothing, ReapNoChild, ReapFails, Poll,
      DrainStdout, DrainStderr, DrainStream, DrainReady, Sweep, SweepClock,
      FinalDrain, BuildWorkspaceSnapshot, WriteSnapshot, Classify, WriteResult
<1>6. CASE \/ Namespace \/ TerminationSignal \/ WallExpires \/ GraceExpires
           \/ UNCHANGED vars
  BY <1>6 DEF Namespace, TerminationSignal, WallExpires, GraceExpires, vars,
              supervisorVars
<1> QED
  BY <1>1, <1>2, <1>3, <1>4, <1>5, <1>6 DEF Next, Supervisor, Ended

(* Flags are only added, and only by three steps of main(). *)
LEMMA SetupStep == TypeOK /\ SetupInv /\ [Next]_vars => SetupInv'
<1> SUFFICES ASSUME TypeOK, SetupInv, [Next]_vars PROVE SetupInv'
  OBVIOUS
<1> USE DEF SetupInv, Turning, evidenceVars, imageVars, reportVars
<1>1. CASE ParseRequest
  BY <1>1 DEF ParseRequest
<1>2. CASE Setup
  <2>1. PICK failed \in MayFail("setup"),
             valid \in SUBSET {"PROGRAM_DESCRIPTOR_VALIDATED",
                              "FIXTURE_DESCRIPTOR_VALIDATED"} :
          /\ Cardinality(valid) < 2 => failed
          /\ flags' = {"REQUEST_VALIDATED"} \cup valid
          /\ infrastructure_error' = failed
          /\ pc' = IF failed THEN "measure" ELSE "fork"
    BY <1>2 DEF Setup
  <2>2. CASE failed
    BY <1>2, <2>1, <2>2 DEF Setup
  <2>3. CASE ~failed
    <3>1. valid = {"PROGRAM_DESCRIPTOR_VALIDATED",
                   "FIXTURE_DESCRIPTOR_VALIDATED"}
      <4>1. Cardinality({}) = 0
        BY FS_EmptySet
      <4>2. \A x : Cardinality({x}) = 1
        BY FS_Singleton
      <4>3. \/ valid = {} \/ valid = {"PROGRAM_DESCRIPTOR_VALIDATED"}
            \/ valid = {"FIXTURE_DESCRIPTOR_VALIDATED"}
            \/ valid = {"PROGRAM_DESCRIPTOR_VALIDATED",
                        "FIXTURE_DESCRIPTOR_VALIDATED"}
        BY <2>1
      <4>4. ~(Cardinality(valid) < 2)
        BY <2>1, <2>3
      <4>5. valid # {}
        BY <4>1, <4>4
      <4>6. \A x : valid # {x}
        <5>1. ASSUME NEW x, valid = {x} PROVE FALSE
          <6>1. Cardinality(valid) = 1
            BY <4>2, <5>1
          <6> QED
            BY <4>4, <6>1
        <5> QED
          BY <5>1
      <4> QED
        BY <4>3, <4>5, <4>6
    <3> QED
      BY <1>2, <2>1, <2>3, <3>1 DEF Setup
  <2> QED
    BY <2>1, <2>2, <2>3 DEF MayFail
<1>3. CASE Fork
  BY <1>3 DEF Fork
<1>4. ASSUME NEW p \in Procs, ReapChild(p) PROVE SetupInv'
  BY <1>4 DEF ReapChild, Reaping
<1>5. CASE ReapNothing \/ ReapNoChild \/ ReapFails
  BY <1>5 DEF ReapNothing, ReapNoChild, ReapFails, Reaping, AfterReaping
<1>6. CASE AccountCpu \/ Decide \/ Poll
  BY <1>6 DEF AccountCpu, Decide, Poll
<1>7. CASE DrainStdout \/ DrainStderr \/ DrainReady
  BY <1>7 DEF DrainStdout, DrainStderr, DrainStream, DrainReady, LoopTest
<1>8. CASE Sweep \/ SweepClock \/ FinalDrain
  BY <1>8 DEF Sweep, SweepClock, FinalDrain
<1>9. CASE Measure
  BY <1>9 DEF Measure
<1>10. CASE BuildWorkspaceSnapshot \/ WriteSnapshot \/ Classify \/ WriteResult
  BY <1>10 DEF BuildWorkspaceSnapshot, WriteSnapshot, Classify, WriteResult
<1>11. CASE \/ Namespace \/ TerminationSignal \/ WallExpires \/ GraceExpires
            \/ UNCHANGED vars
  BY <1>11 DEF Namespace, TerminationSignal, WallExpires, GraceExpires, vars,
               supervisorVars
<1> QED
  BY <1>1, <1>2, <1>3, <1>4, <1>5, <1>6, <1>7, <1>8, <1>9, <1>10, <1>11
  DEF Next, Supervisor, Ended

-----------------------------------------------------------------------------
(* The measurement and the image. *)

(* Steps that stay outside, and steps that stay inside, the stretch from   *)
(* Measure to Classify without touching what its flags speak of.           *)
LEMMA MeasuredStep ==
  ASSUME IInv, CaptureInv, LimitInv, SetupInv, "clock" \notin Faults
  PROVE  MeasuredInv /\ [Next]_vars => MeasuredInv'
<1> SUFFICES ASSUME MeasuredInv, [Next]_vars PROVE MeasuredInv'
  OBVIOUS
<1> USE DEF MeasuredInv, timingVars, controlVars, limitVars, evidenceVars, reapVars,
        captureVars, imageVars, reportVars
<1>1. CASE ParseRequest \/ Setup \/ Fork
  BY <1>1 DEF ParseRequest, Setup, Fork
<1>2. ASSUME NEW p \in Procs, ReapChild(p) PROVE MeasuredInv'
  BY <1>2 DEF ReapChild, Reaping
<1>3. CASE ReapNothing \/ ReapNoChild \/ ReapFails
  BY <1>3 DEF ReapNothing, ReapNoChild, ReapFails, Reaping, AfterReaping
<1>4. CASE AccountCpu \/ Decide \/ Poll
  BY <1>4 DEF AccountCpu, Decide, Poll
<1>5. CASE DrainStdout \/ DrainStderr \/ DrainReady
  BY <1>5 DEF DrainStdout, DrainStderr, DrainStream, DrainReady, LoopTest
<1>6. CASE Sweep \/ SweepClock \/ FinalDrain
  BY <1>6 DEF Sweep, SweepClock, FinalDrain
<1>7. CASE Measure
  <2>1. PICK sole \in BOOLEAN :
          /\ sole => primary_reaped /\ all_reaped
          /\ wall_at_timeout' = wall_expired
          /\ wall_limit_reached' = (wall_limit_reached \/ wall_expired)
          /\ cumulative_cpu' = Larger(cumulative_cpu, wait4_cpu)
          /\ cpu_limit_reached' =
               (cpu_limit_reached \/ CpuReached(cumulative_cpu'))
          /\ flags' = flags \cup
               MeasuredFlags(wall_limit_reached', cpu_limit_reached', sole)
          /\ ~infrastructure_error' =>
               ~infrastructure_error /\ (Forked => ready_seen /\ sole)
    BY <1>7 DEF Measure, MayFail, IInv, TypeOK
  <2>2. UNCHANGED <<overflow, primary_reaped, wait4_cpu>>
    BY <1>7 DEF Measure
  <2>3. flags \subseteq {"REQUEST_VALIDATED", "PROGRAM_DESCRIPTOR_VALIDATED",
                         "FIXTURE_DESCRIPTOR_VALIDATED"}
    BY <1>7 DEF Measure, SetupInv
  <2>4. \A s \in Streams : OverflowFlag(s) \in flags' <=> overflow'[s]
    BY <2>1, <2>2, <2>3
    DEF MeasuredFlags, ConfinementFlags, OverflowFlag, Streams
  <2>5. /\ "WALL_LIMIT_REACHED" \in flags' <=> wall_limit_reached'
        /\ "CPU_LIMIT_REACHED" \in flags' <=> cpu_limit_reached'
        /\ "PRIMARY_REAPED" \in flags' <=> primary_reaped'
        /\ "ALL_DESCENDANTS_REAPED" \in flags' => primary_reaped'
        /\ "SOLE_PID1" \in flags' => "ALL_DESCENDANTS_REAPED" \in flags'
    BY <2>1, <2>2, <2>3 DEF MeasuredFlags, ConfinementFlags, OverflowFlag
  <2>6. /\ wall_limit_reached' <=> wall_at_timeout'
        /\ cpu_limit_reached' <=> cumulative_cpu' >= CpuLimit
        /\ cumulative_cpu' >= wait4_cpu'
    <3>1. wall_limit_reached' <=> wall_at_timeout'
      BY <2>1 DEF LimitInv
    <3>2. cumulative_cpu' >= cumulative_cpu /\ cumulative_cpu' >= wait4_cpu
      BY <2>1 DEF Larger, IInv, TypeOK
    <3>3. cumulative_cpu \in Nat /\ cumulative_cpu' \in Nat
      BY <2>1 DEF Larger, IInv, TypeOK
    <3>4. cpu_limit_reached' <=> cumulative_cpu' >= CpuLimit
      <4>1. cpu_limit_reached => cumulative_cpu' >= CpuLimit
        BY <3>2, <3>3, RequestAssumption DEF LimitInv
      <4> QED
        BY <2>1, <4>1 DEF CpuReached
    <3> QED
      BY <2>2, <3>1, <3>2, <3>4
  <2>7. ~infrastructure_error' => SetupFlags \cup CleanupFlags \subseteq flags'
    <3>1. SUFFICES ASSUME ~infrastructure_error'
                   PROVE  SetupFlags \cup CleanupFlags \subseteq flags'
      OBVIOUS
    <3>2. ready_seen /\ sole
      BY <1>7, <2>1, <3>1 DEF Measure, Forked, IInv, Progress
    <3>3. {"REQUEST_VALIDATED", "PROGRAM_DESCRIPTOR_VALIDATED",
           "FIXTURE_DESCRIPTOR_VALIDATED"} \subseteq flags
      BY <1>7, <2>1, <3>1 DEF Measure, SetupInv
    <3> QED
      BY <2>1, <3>2, <3>3
      DEF MeasuredFlags, ConfinementFlags, SetupFlags, CleanupFlags
  <2> QED
    BY <2>4, <2>5, <2>6, <2>7
<1>8. CASE BuildWorkspaceSnapshot
  BY <1>8 DEF BuildWorkspaceSnapshot
<1>9. CASE WriteSnapshot
  <2>1. UNCHANGED <<timingVars, reapVars, cumulative_cpu, captureVars,
                    wall_at_timeout>>
    BY <1>9 DEF WriteSnapshot
  <2>2. flags' = flags \/ \E f \in ImageFlags : flags' = flags \cup {f}
    BY <1>9 DEF WriteSnapshot, ImageFlags
  <2>3. flags \subseteq flags' /\ \A f \in flags' : f \in flags \/ f \in ImageFlags
    BY <2>2
  <2>4. ~infrastructure_error' => SetupFlags \cup CleanupFlags \subseteq flags'
    <3>1. ~infrastructure_error' => ~infrastructure_error
      BY <1>9 DEF WriteSnapshot, IInv, TypeOK
    <3> QED
      BY <1>9, <2>3, <3>1 DEF WriteSnapshot
  <2>5. \A s \in Streams : OverflowFlag(s) \in flags' <=> overflow'[s]
    <3>1. \A s \in Streams : OverflowFlag(s) \notin ImageFlags
      BY DEF OverflowFlag, ImageFlags
    <3> QED
      BY <1>9, <2>1, <2>3, <3>1 DEF WriteSnapshot
  <2> QED
    BY <1>9, <2>1, <2>3, <2>4, <2>5 DEF WriteSnapshot, ImageFlags
<1>10. CASE Classify \/ WriteResult
  BY <1>10 DEF Classify, WriteResult
<1>11. CASE \/ Namespace \/ TerminationSignal \/ WallExpires \/ GraceExpires
            \/ UNCHANGED vars
  BY <1>11 DEF Namespace, TerminationSignal, WallExpires, GraceExpires, vars,
               supervisorVars
<1> QED
  BY <1>1, <1>2, <1>3, <1>4, <1>5, <1>6, <1>7, <1>8, <1>9, <1>10, <1>11
  DEF Next, Supervisor, Ended

(* The archive either fits, or is flagged at exactly cap + 1 bytes. *)
LEMMA ImageStep ==
  ASSUME IInv, SetupInv
  PROVE  ImageInv /\ [Next]_vars => ImageInv'
<1> SUFFICES ASSUME ImageInv, [Next]_vars PROVE ImageInv'
  OBVIOUS
<1> USE DEF ImageInv, timingVars, evidenceVars, imageVars, reportVars
<1>1. CASE ParseRequest \/ Fork
  BY <1>1 DEF ParseRequest, Fork
<1>2. ASSUME NEW p \in Procs, ReapChild(p) PROVE ImageInv'
  BY <1>2 DEF ReapChild, Reaping
<1>3. CASE ReapNothing \/ ReapNoChild \/ ReapFails
  BY <1>3 DEF ReapNothing, ReapNoChild, ReapFails, Reaping, AfterReaping
<1>4. CASE Setup \/ AccountCpu \/ Decide \/ Poll
  BY <1>4 DEF Setup, AccountCpu, Decide, Poll
<1>5. CASE DrainStdout \/ DrainStderr \/ DrainReady
  BY <1>5 DEF DrainStdout, DrainStderr, DrainStream, DrainReady, LoopTest
<1>6. CASE Sweep \/ SweepClock \/ FinalDrain
  BY <1>6 DEF Sweep, SweepClock, FinalDrain
<1>7. CASE Measure
  <2>1. flags \cap ImageFlags = {} /\ snapshot_bytes' = 0
    BY <1>7 DEF Measure, SetupInv, ImageFlags
  <2>2. PICK sole \in BOOLEAN :
          /\ flags' = flags \cup
               MeasuredFlags(wall_limit_reached', cpu_limit_reached', sole)
          /\ pc' = IF sole THEN "snapshot" ELSE "classify"
          /\ ~sole => infrastructure_error'
    BY <1>7 DEF Measure, IInv, TypeOK, Progress, Forked
  <2>3. flags' \cap ImageFlags = {}
    BY <2>1, <2>2 DEF MeasuredFlags, ConfinementFlags, OverflowFlag, ImageFlags
  <2>4. sole => "SOLE_PID1" \in flags'
    BY <2>2 DEF MeasuredFlags
  <2> QED
    BY <2>1, <2>2, <2>3, <2>4
<1>8. CASE BuildWorkspaceSnapshot
  <2>1. \A need \in ArchiveSizes :
          LET image == BuildImage(need) IN
          /\ image.used <= SnapshotCap + 1
          /\ image.result = "overflow" => image.used = SnapshotCap + 1
          /\ image.used <= SnapshotCap => image.used >= HeaderBytes
    BY RequestAssumption DEF ArchiveSizes, BuildImage, Smaller
  <2> QED
    BY <1>8, <2>1 DEF BuildWorkspaceSnapshot, NoImage
<1>9. CASE WriteSnapshot
  BY <1>9, RequestAssumption
  DEF WriteSnapshot, ImageOverflows, ImageFlags, SetupInv, IInv, TypeOK, Images
<1>10. CASE Classify \/ WriteResult
  BY <1>10 DEF Classify, WriteResult
<1>11. CASE \/ Namespace \/ TerminationSignal \/ WallExpires \/ GraceExpires
            \/ UNCHANGED vars
  BY <1>11 DEF Namespace, TerminationSignal, WallExpires, GraceExpires, vars,
               supervisorVars
<1> QED
  BY <1>1, <1>2, <1>3, <1>4, <1>5, <1>6, <1>7, <1>8, <1>9, <1>10, <1>11
  DEF Next, Supervisor, Ended

-----------------------------------------------------------------------------
(* The frame. *)

(* What Classify puts together is what the validator asks for. *)
LEMMA ResultFrameValid ==
  ASSUME IInv, Evidence, pc = "classify",
         NEW error \in BOOLEAN, infrastructure_error => error
  PROVE  ValidResultBinding(ResultFrame(error))
<1> DEFINE f == ResultFrame(error)
<1>1. /\ f.flags = flags /\ f.observed = observed
      /\ f.wall_at_timeout = wall_at_timeout
      /\ f.wait4_cpu = wait4_cpu /\ f.cumulative_cpu = cumulative_cpu
      /\ f.descendants_reaped = descendants_reaped
      /\ f.workspace_snapshot_bytes = snapshot_bytes
      /\ f.process_status = ProcessStatus
      /\ f.child_exit_code = ChildExitCode
      /\ f.child_signal = IF ProcessStatus = "SIGNALED" THEN 9 ELSE 0
  BY DEF ResultFrame
<1>2. f.outcome = IF error THEN "SUPERVISOR_ERROR"
                  ELSE ClassifyOutcome(flags, ProcessStatus, ChildExitCode)
  BY DEF ResultFrame
<1> HIDE DEF f
<1> USE DEF Evidence, MeasuredInv
<1>3. \/ flags \cap ImageFlags = {} /\ snapshot_bytes = 0 /\ infrastructure_error
      \/ /\ flags \cap ImageFlags = {"WORKSPACE_SNAPSHOT_WRITTEN"}
         /\ "SOLE_PID1" \in flags
         /\ snapshot_bytes \in HeaderBytes .. SnapshotCap
      \/ /\ flags \cap ImageFlags = {"WORKSPACE_SNAPSHOT_OVERFLOW"}
         /\ "SOLE_PID1" \in flags
         /\ snapshot_bytes = SnapshotCap + 1
  BY DEF ImageInv
<1>4. ValidProcessShape(f)
  <2>1. \/ ~primary_reaped /\ ProcessStatus = "NOT_REAPED" /\ ChildExitCode = -1
        \/ primary_reaped /\ ProcessStatus = "SIGNALED" /\ ChildExitCode = -1
        \/ primary_reaped /\ ProcessStatus = "EXITED" /\ ChildExitCode \in {0, 1}
    <3>1. \/ ~primary_reaped /\ ProcessStatus = "NOT_REAPED"
          \/ primary_reaped /\ ProcessStatus \in {"SIGNALED", "EXITED"}
      BY DEF ProcessStatus
    <3>2. ChildExitCode = -1 \/ ProcessStatus = "EXITED"
      BY DEF ChildExitCode
    <3>3. ProcessStatus = "EXITED" => ChildExitCode \in {0, 1}
      BY DEF ChildExitCode
    <3> QED
      BY <3>1, <3>2, <3>3
  <2>2. "PRIMARY_REAPED" \in flags <=> primary_reaped
    OBVIOUS
  <2>3. primary_reaped => descendants_reaped >= 1
    BY DEF LimitInv
  <2> QED
    BY <1>1, <2>1, <2>2, <2>3 DEF ValidProcessShape
<1>5. ValidSelf(f)
  <2>1. "REQUEST_VALIDATED" \in flags
    BY DEF SetupInv
  <2>2. cumulative_cpu >= wait4_cpu
    OBVIOUS
  <2>3. /\ "ALL_DESCENDANTS_REAPED" \in flags => "PRIMARY_REAPED" \in flags
        /\ "SOLE_PID1" \in flags => "ALL_DESCENDANTS_REAPED" \in flags
    OBVIOUS
  <2>4. LET written  == "WORKSPACE_SNAPSHOT_WRITTEN" \in flags
            overflown == "WORKSPACE_SNAPSHOT_OVERFLOW" \in flags
        IN  /\ ~(written /\ overflown)
            /\ written \/ overflown => "SOLE_PID1" \in flags
            /\ ~written /\ ~overflown => snapshot_bytes = 0
            /\ written => snapshot_bytes >= HeaderBytes
    BY <1>3, RequestAssumption DEF ImageFlags
  <2> QED
    BY <1>1, <1>4, <2>1, <2>2, <2>3, <2>4 DEF ValidSelf
<1>6. CapturesAtCap(f)
  <2>1. \A s \in Streams :
          /\ observed[s] <= Cap(s) + 1
          /\ (OverflowFlag(s) \in flags) <=> (observed[s] = Cap(s) + 1)
    BY DEF CaptureInv
  <2>2. /\ snapshot_bytes <= SnapshotCap + 1
        /\ ("WORKSPACE_SNAPSHOT_OVERFLOW" \in flags)
             <=> (snapshot_bytes = SnapshotCap + 1)
    BY <1>3, RequestAssumption DEF ImageFlags
  <2> QED
    BY <1>1, <2>1, <2>2 DEF CapturesAtCap
<1>7. LimitsExplained(f)
  BY <1>1 DEF LimitsExplained
<1>8. OutcomeExplained(f)
  <2>1. CASE error
    BY <1>2, <2>1 DEF OutcomeExplained
  <2>2. CASE ~error
    <3>1. "PRIMARY_REAPED" \in flags
      BY <2>2 DEF CleanupFlags
    <3>2. ProcessStatus \in {"EXITED", "SIGNALED"}
      BY <3>1 DEF ProcessStatus
    <3>3. CASE flags \cap ResourceFlags # {}
      <4>1. f.outcome = RequiredResourceOutcome(flags)
        BY <1>2, <2>2, <3>3
        DEF ClassifyOutcome, RequiredResourceOutcome, ResourceFlags
      <4> QED
        BY <1>1, <3>3, <4>1 DEF OutcomeExplained
    <3>4. CASE flags \cap ResourceFlags = {}
      <4>1. f.outcome = IF ProcessStatus = "SIGNALED" THEN "SIGNAL"
                        ELSE IF ChildExitCode = 0 THEN "NORMAL" ELSE "NONZERO"
        BY <1>2, <2>2, <3>2, <3>4 DEF ClassifyOutcome, ResourceFlags
      <4> QED
        BY <1>1, <3>2, <3>4, <4>1 DEF OutcomeExplained
    <3> QED
      BY <3>3, <3>4
  <2> QED
    BY <2>1, <2>2
<1>9. EvidenceComplete(f)
  <2>1. CASE error
    BY <1>2, <2>1 DEF EvidenceComplete
  <2>2. CASE ~error
    <3>1. SetupFlags \cup CleanupFlags \subseteq flags
      BY <2>2
    <3>2. \/ "WORKSPACE_SNAPSHOT_WRITTEN" \in flags
          \/ "WORKSPACE_SNAPSHOT_OVERFLOW" \in flags
      BY <1>3, <2>2 DEF ImageFlags
    <3> QED
      BY <1>1, <3>1, <3>2 DEF EvidenceComplete
  <2> QED
    BY <2>1, <2>2
<1> QED
  BY <1>5, <1>6, <1>7, <1>8, <1>9 DEF ValidResultBinding, f

(* Only Classify puts a frame together. *)
LEMMA FrameKept == [Next]_vars /\ ~Classify => frame' = frame
  BY DEF Next, Supervisor, ParseRequest, Setup, Fork, ReapChild, ReapNothing,
      ReapNoChild, ReapFails, AccountCpu, Decide, Poll, DrainStdout,
      DrainStderr, DrainStream, DrainReady, Sweep, SweepClock, FinalDrain,
      Measure, BuildWorkspaceSnapshot, WriteSnapshot, WriteResult, Namespace,
      TerminationSignal, WallExpires, GraceExpires, Ended, vars,
      supervisorVars, evidenceVars, reportVars

(* A frame is put together once and never changed. *)
LEMMA FrameStep ==
  ASSUME IInv, Evidence
  PROVE  FrameInv /\ [Next]_vars => FrameInv'
<1> SUFFICES ASSUME FrameInv, [Next]_vars PROVE FrameInv'
  OBVIOUS
<1>1. CASE Classify
  <2>1. frame' = ResultFrame(infrastructure_error') /\ pc = "classify"
    BY <1>1 DEF Classify
  <2>2. infrastructure_error' \in BOOLEAN
    BY <1>1 DEF Classify, IInv, TypeOK
  <2>3. infrastructure_error => infrastructure_error'
    BY <1>1 DEF Classify
  <2>4. ValidResultBinding(ResultFrame(infrastructure_error'))
    BY <2>1, <2>2, <2>3, ResultFrameValid
  <2> QED
    BY <2>1, <2>4 DEF FrameInv
<1>2. CASE ~Classify
  BY <1>2, FrameKept DEF FrameInv
<1> QED
  BY <1>1, <1>2

LEMMA EvidenceInit == Init => Evidence /\ FrameInv
<1> SUFFICES ASSUME Init PROVE Evidence /\ FrameInv
  OBVIOUS
<1>1. CaptureInv
  <2>1. \A s \in Streams : observed[s] = 0 /\ ~overflow[s]
    BY DEF Init
  <2> QED
    BY <2>1, CapNat DEF CaptureInv
<1> QED
  BY <1>1
  DEF Init, Evidence, LimitInv, SetupInv, Turning, MeasuredInv, ImageInv,
      FrameInv

(* Every frame the supervisor writes is one the Python controller accepts  *)
(* (write_result against validate_development_candidate_result_binding),   *)
(* as long as clock_gettime never fails.                                   *)
THEOREM FrameAcceptedCorrect ==
  ASSUME "clock" \notin Faults
  PROVE  Spec => []FrameAccepted
<1>1. Init => Evidence /\ FrameInv
  BY EvidenceInit
<1>2. /\ IInv
      /\ Evidence /\ FrameInv
      /\ [Next]_vars
      => (Evidence /\ FrameInv)'
  <2> SUFFICES ASSUME IInv, Evidence, FrameInv, [Next]_vars
               PROVE  (Evidence /\ FrameInv)'
    OBVIOUS
  <2>1. CaptureInv' /\ LimitInv' /\ SetupInv'
    BY CaptureStep, LimitStep, SetupStep DEF Evidence, IInv
  <2>2. MeasuredInv' /\ ImageInv'
    BY MeasuredStep, ImageStep DEF Evidence
  <2>3. FrameInv'
    BY FrameStep
  <2> QED
    BY <2>1, <2>2, <2>3 DEF Evidence
<1>3. IInv /\ FrameInv => FrameAccepted
  BY DEF IInv, ArchiveTrue, FrameInv, FrameAccepted
<1> QED
  BY <1>1, <1>2, <1>3, InvCorrect, PTL DEF Spec
-----------------------------------------------------------------------------
(* What a frame without an error says of the run.                          *)

(* Reasons to kill that are remembered to the end, and keep the program's  *)
(* own end out of the frame.                                               *)
Remembered ==
  \/ infrastructure_error \/ termination_signal_received
  \/ wall_limit_reached \/ cpu_limit_reached
  \/ \E s \in Streams : overflow[s]

(* The primary is killed for such a reason, or was collected before.       *)
KillInv ==
  /\ primary_reaped => life[Primary] = "reaped"
  /\ terminating => primary_reaped \/ Remembered
  /\ Primary \in doomed => Remembered

(* Errors begin with Setup; without one the second cleanup finds nothing   *)
(* left to do.                                                             *)
SweepInv ==
  /\ pc \in {"request", "setup"} => ~infrastructure_error
  /\ pc = "sweep" => infrastructure_error \/ (all_reaped /\ \A s \in Streams : ~open[s])
  /\ pc \in {"sweep_reap", "sweep_clock"} => infrastructure_error
  /\ pc = "final_drain" => infrastructure_error \/ \A s \in Streams : ~open[s]
  /\ pc \in Unstarted \cup {"measure", "snapshot", "sink", "classify"} =>
       \A s \in Streams : ~open[s]

(* A stream is closed when it has nothing left or has overflowed.          *)
StreamInv ==
  \A s \in Streams : open[s] \/ pipe[s] = 0 \/ overflow[s] \/ infrastructure_error

(* What is remembered is in the flags.                                     *)
FlagInv ==
  pc \in {"snapshot", "sink", "classify"} =>
    /\ wall_limit_reached => "WALL_LIMIT_REACHED" \in flags
    /\ cpu_limit_reached => "CPU_LIMIT_REACHED" \in flags
    /\ \A s \in Streams : overflow[s] => OverflowFlag(s) \in flags

VerdictInv == NoOutputLost /\ OwnEnd

Truth == KillInv /\ SweepInv /\ StreamInv /\ FlagInv /\ VerdictInv

(* A stream that has overflowed stays that way.                            *)
LEMMA OverflowKept ==
  ASSUME TypeOK, CaptureInv, NEW s \in Streams, overflow[s]
  PROVE  Captured(s).overflow
<1>1. /\ pipe[s] \in Nat /\ observed[s] = Cap(s) + 1 /\ Cap(s) \in Nat
  BY CapNat DEF TypeOK, NamespaceTypeOK, CaptureInv
<1>2. Captured(s).observed = Cap(s) + 1
  BY <1>1 DEF Captured, Smaller
<1> QED
  BY <1>2 DEF Captured

(* The limits, the signal, an overflow and an error are never forgotten.   *)
LEMMA RememberedStep ==
  ASSUME TypeOK, CaptureInv, SweepInv, [Next]_vars
  PROVE  Remembered => Remembered'
<1> USE DEF Remembered, timingVars, controlVars, limitVars, evidenceVars, captureVars
<1>1. ASSUME NEW streams, Drain(streams), NEW s \in Streams, overflow[s]
      PROVE  overflow'[s]
  BY <1>1, OverflowKept DEF Drain
<1>2. CASE FinalDrain
  BY <1>1, <1>2 DEF FinalDrain
<1>3. ASSUME NEW s \in Streams, NEW next, DrainStream(s, next)
      PROVE  Remembered => Remembered'
  <2>1. CASE Drain({s})
    BY <1>1, <1>3, <2>1 DEF DrainStream
  <2>2. CASE UNCHANGED captureVars
    BY <1>3, <2>2 DEF DrainStream
  <2> QED
    BY <1>3, <2>1, <2>2 DEF DrainStream
<1>4. CASE DrainStdout \/ DrainStderr
  BY <1>3, <1>4 DEF DrainStdout, DrainStderr, Streams
<1>5. ASSUME NEW p \in Procs, ReapChild(p) PROVE Remembered => Remembered'
  BY <1>5 DEF ReapChild
<1>6. CASE AccountCpu \/ Decide \/ Poll \/ DrainReady
  BY <1>6 DEF AccountCpu, Decide, Poll, DrainReady, TypeOK
<1>7. CASE Measure
  BY <1>7 DEF Measure, TypeOK
<1>8. CASE \/ ParseRequest \/ Setup \/ Fork \/ ReapNothing \/ ReapNoChild
           \/ ReapFails
  BY <1>8 DEF ParseRequest, Setup, Fork, ReapNothing, ReapNoChild, ReapFails,
      SweepInv, reportVars
<1>9. CASE \/ Sweep \/ SweepClock
           \/ BuildWorkspaceSnapshot \/ WriteSnapshot \/ Classify \/ WriteResult
  BY <1>9 DEF Sweep, SweepClock,
      BuildWorkspaceSnapshot, WriteSnapshot, Classify, WriteResult
<1>10. CASE \/ Namespace \/ TerminationSignal \/ WallExpires \/ GraceExpires
            \/ UNCHANGED vars
  BY <1>10 DEF Namespace, TerminationSignal, WallExpires, GraceExpires, vars,
               supervisorVars
<1> QED
  BY <1>2, <1>4, <1>5, <1>6, <1>7, <1>8, <1>9, <1>10 DEF Next, Supervisor, Ended

(* Nobody is killed for nothing.                                           *)
LEMMA KillInvStep ==
  ASSUME IInv, CaptureInv, SweepInv, KillInv, [Next]_vars
  PROVE  KillInv'
<1> USE DEF Primary, timingVars, controlVars, evidenceVars, reapVars, processVars,
      namespaceVars
<1>1. Remembered => Remembered'
  BY RememberedStep DEF IInv
<1>2. primary_reaped' => life'[Primary] = "reaped"
  <2>1. /\ Primary \in Procs /\ born \in Nat
        /\ life \in [Procs -> {"unborn", "live", "zombie", "reaped"}]
        /\ Primary > born => life[Primary] = "unborn"
        /\ primary_reaped => life[Primary] = "reaped"
    <3>1. Primary \in Procs
      BY NamespaceAssumption DEF Procs
    <3>2. born \in Nat /\ life \in [Procs -> {"unborn", "live", "zombie", "reaped"}]
      BY NamespaceAssumption DEF IInv, TypeOK, NamespaceTypeOK
    <3>3. Primary > born => life[Primary] = "unborn"
      BY <3>1 DEF IInv, FamilyTree
    <3> QED
      BY <3>1, <3>2, <3>3 DEF KillInv
  <2>2. CASE Fork /\ ForkPrimary /\ UNCHANGED parent
    <3>1. life[Primary] = "unborn"
      BY <2>1, <2>2 DEF ForkPrimary
    <3>2. UNCHANGED primary_reaped
      BY <2>2 DEF Fork
    <3> QED
      BY <2>1, <3>1, <3>2
  <2>3. ASSUME NEW p \in Procs, ReapChild(p)
        PROVE  primary_reaped' => life'[Primary] = "reaped"
    BY <2>1, <2>3 DEF ReapChild
  <2>4. CASE TreeUnchanged /\ UNCHANGED primary_reaped
    BY <2>1, <2>4 DEF TreeUnchanged
  <2>5. CASE TreeUnchanged /\ ~\E p \in Procs : ReapChild(p)
    <3>1. UNCHANGED primary_reaped
      BY <2>5 DEF Next, Supervisor, ParseRequest, Setup, Fork, ReapNothing,
         ReapNoChild, ReapFails, AccountCpu, Decide, Poll, DrainStdout, DrainStderr,
         DrainStream, DrainReady, Sweep, SweepClock, FinalDrain, Measure,
         BuildWorkspaceSnapshot, WriteSnapshot, Classify, WriteResult, Namespace,
         TerminationSignal, WallExpires, GraceExpires, Ended, vars, supervisorVars
    <3> QED
      BY <2>4, <2>5, <3>1
  <2>6. CASE Namespace
    <3>1. UNCHANGED primary_reaped
      BY <2>6 DEF Namespace, supervisorVars
    <3>2. life[Primary] = "reaped" => life'[Primary] = "reaped"
      <4>1. ASSUME NEW p \in Procs, Spawn(p), life[Primary] = "reaped"
            PROVE  life'[Primary] = "reaped"
        BY <2>1, <4>1 DEF Spawn
      <4>2. ASSUME NEW p \in Procs, NEW how, Exit(p, how) PROVE life'[Primary] = "reaped"
                                                         \/ life[Primary] # "reaped"
        BY <2>1, <4>2 DEF Exit, Live
      <4>3. ASSUME NEW p \in Procs, NEW q \in Procs, WaitChild(p, q)
            PROVE  life'[Primary] = "reaped" \/ life[Primary] # "reaped"
        BY <2>1, <4>3 DEF WaitChild
      <4> QED
        BY <2>6, <4>1, <4>2, <4>3 DEF Namespace, NamespaceStep, ChildReady,
           WriteWorkspace, WriteStream, CloseStream
    <3> QED
      BY <2>1, <3>1, <3>2
  <2> QED
    BY <2>2, <2>3, <2>5, <2>6, TreeMoves
<1>3. /\ primary_reaped => primary_reaped'
      /\ Decide \/ UNCHANGED terminating
      /\ Decide \/ Sweep \/ SweepClock \/ UNCHANGED doomed
  <2>1. ASSUME NEW p \in Procs, ReapChild(p)
        PROVE  (primary_reaped => primary_reaped') /\ UNCHANGED <<terminating, doomed>>
    BY <2>1 DEF ReapChild
  <2>2. CASE Namespace
    BY <2>2 DEF Namespace, supervisorVars, NamespaceStep, ChildReady, Spawn,
       WriteWorkspace, WriteStream, CloseStream, Exit, WaitChild
  <2>3. CASE \/ ParseRequest \/ Setup \/ Fork \/ ReapNothing \/ ReapNoChild
             \/ ReapFails \/ AccountCpu \/ Decide \/ Poll
    BY <2>3 DEF ParseRequest, Setup, Fork, ReapNothing, ReapNoChild, ReapFails,
       AccountCpu, Decide, Poll
  <2>4. CASE DrainStdout \/ DrainStderr \/ DrainReady \/ FinalDrain
    BY <2>4 DEF DrainStdout, DrainStderr, DrainStream, DrainReady, FinalDrain
  <2>5. CASE Sweep \/ SweepClock
    BY <2>5 DEF Sweep, SweepClock
  <2>6. CASE \/ Measure \/ BuildWorkspaceSnapshot \/ WriteSnapshot \/ Classify
             \/ WriteResult
    <3>1. UNCHANGED <<namespaceVars, controlVars, reapVars>>
      BY <2>6 DEF Measure, BuildWorkspaceSnapshot, WriteSnapshot, Classify, WriteResult
    <3> QED
      BY <3>1
  <2>7. CASE TerminationSignal \/ WallExpires \/ GraceExpires \/ UNCHANGED vars
    BY <2>7 DEF TerminationSignal, WallExpires, GraceExpires, vars, supervisorVars
  <2>8. CASE Supervisor
    BY <2>1, <2>3, <2>4, <2>5, <2>6, <2>8 DEF Supervisor
  <2> QED
    BY <2>2, <2>7, <2>8 DEF Next, Ended
<1>4. terminating' => primary_reaped' \/ Remembered'
  <2>1. CASE Decide
    <3>1. UNCHANGED <<primary_reaped, overflow, cpu_limit_reached,
                      termination_signal_received>>
      BY <2>1 DEF Decide, captureVars
    <3>2. \/ terminating' = terminating
          \/ StopReason \/ wall_limit_reached' \/ infrastructure_error'
      BY <2>1 DEF Decide, IInv, TypeOK
    <3>3. StopReason => primary_reaped' \/ Remembered'
      BY <3>1 DEF StopReason, Remembered
    <3>4. wall_limit_reached' \/ infrastructure_error' => Remembered'
      BY DEF Remembered
    <3> QED
      BY <1>1, <1>3, <3>2, <3>3, <3>4 DEF KillInv
  <2> QED
    BY <1>1, <1>3, <2>1 DEF KillInv
<1>5. Primary \in doomed' => Remembered'
  <2>1. CASE Decide
    <3>1. \/ UNCHANGED doomed
          \/ terminating' /\ doomed' = doomed \cup Live /\ UNCHANGED <<life, primary_reaped>>
      BY <2>1 DEF Decide, KillAll, IInv, TypeOK
    <3>2. Primary \in Live => ~primary_reaped
      BY DEF Live, KillInv
    <3> QED
      BY <1>1, <1>4, <3>1, <3>2 DEF KillInv
  <2>2. CASE Sweep \/ SweepClock
    <3>1. UNCHANGED doomed \/ infrastructure_error'
      BY <2>2 DEF Sweep, SweepClock, SweepInv
    <3>2. infrastructure_error' => Remembered'
      BY DEF Remembered
    <3> QED
      BY <1>1, <3>1, <3>2 DEF KillInv
  <2> QED
    BY <1>1, <1>3, <2>1, <2>2 DEF KillInv
<1> QED
  BY <1>2, <1>4, <1>5 DEF KillInv

(* Only three steps of PID 1 open or close a stream.                       *)
LEMMA SweepInvStep ==
  ASSUME TypeOK, SweepInv, [Next]_vars
  PROVE  SweepInv'
<1> USE DEF SweepInv, Unstarted, timingVars, evidenceVars, reapVars, streamVars
<1>1. CASE ParseRequest \/ Setup
  BY <1>1 DEF ParseRequest, Setup, namespaceVars
<1>2. CASE Fork
  BY <1>2 DEF Fork, ForkPrimary, namespaceVars
<1>3. ASSUME NEW p \in Procs, ReapChild(p) PROVE SweepInv'
  BY <1>3 DEF ReapChild, Reaping
<1>4. CASE ReapNothing \/ ReapNoChild \/ ReapFails
  BY <1>4 DEF ReapNothing, ReapNoChild, ReapFails, Reaping, AfterReaping, namespaceVars
<1>5. CASE AccountCpu \/ Decide \/ Poll
  BY <1>5 DEF AccountCpu, Decide, Poll, namespaceVars
<1>6. CASE DrainStdout \/ DrainStderr \/ DrainReady
  <2>1. CASE DrainStdout \/ DrainStderr
    <3>1. /\ pc' \in {"stderr", "ready", "reap"} \/ LoopTest
          /\ UNCHANGED <<all_reaped, ready_open>>
      BY <2>1 DEF DrainStdout, DrainStderr, DrainStream, reapVars
    <3>2. LoopTest => pc' = "reap" \/ (pc' = "sweep" /\ all_reaped
                                      /\ \A s \in Streams : ~open'[s])
      BY DEF LoopTest
    <3> QED
      BY <3>1, <3>2
  <2>2. CASE DrainReady
    <3>1. LoopTest /\ UNCHANGED all_reaped
      BY <2>2 DEF DrainReady, reapVars
    <3>2. pc' = "reap" \/ (pc' = "sweep" /\ all_reaped
                            /\ \A s \in Streams : ~open'[s])
      BY <3>1 DEF LoopTest
    <3> QED
      BY <3>1, <3>2
  <2> QED
    BY <1>6, <2>1, <2>2
<1>7. CASE Sweep \/ SweepClock
  BY <1>7 DEF Sweep, SweepClock
<1>8. CASE FinalDrain
  BY <1>8 DEF FinalDrain
<1>9. CASE Measure \/ BuildWorkspaceSnapshot
  BY <1>9 DEF Measure, BuildWorkspaceSnapshot, namespaceVars
<1>10. CASE WriteSnapshot \/ Classify \/ WriteResult
  BY <1>10 DEF WriteSnapshot, Classify, WriteResult, namespaceVars
<1>11. CASE Namespace
  <2>1. UNCHANGED <<supervisorVars, open>>
    BY <1>11 DEF Namespace, NamespaceStep, ChildReady, Spawn, WriteWorkspace,
       WriteStream, CloseStream, Exit, WaitChild
  <2> QED
    BY <2>1 DEF supervisorVars
<1>12. CASE TerminationSignal \/ WallExpires \/ GraceExpires \/ UNCHANGED vars
  BY <1>12 DEF TerminationSignal, WallExpires, GraceExpires, vars, supervisorVars,
     namespaceVars
<1>13. CASE Supervisor
  BY <1>1, <1>2, <1>3, <1>4, <1>5, <1>6, <1>7, <1>8, <1>9, <1>10, <1>13 DEF Supervisor
<1> QED
  BY <1>11, <1>12, <1>13 DEF Next, Ended

(* drain_capture empties the pipe or reaches the cap.                      *)
LEMMA CapturedEnds ==
  ASSUME TypeOK, NEW s \in Streams
  PROVE  Captured(s).overflow \/ Captured(s).pipe = 0
<1>1. pipe[s] \in Nat /\ observed[s] \in Nat /\ Cap(s) \in Nat
  BY CapNat DEF TypeOK, NamespaceTypeOK
<1>2. CASE pipe[s] <= Cap(s) + 1 - observed[s]
  <2>1. Captured(s).pipe = 0
    BY <1>1, <1>2 DEF Captured, Smaller
  <2> QED
    BY <2>1
<1>3. CASE ~(pipe[s] <= Cap(s) + 1 - observed[s])
  <2>1. Captured(s).observed = Cap(s) + 1
    BY <1>1, <1>3 DEF Captured, Smaller
  <2> QED
    BY <2>1 DEF Captured
<1> QED
  BY <1>2, <1>3

(* A stream read to its end has nothing more to come.                      *)
LEMMA StreamInvStep ==
  ASSUME TypeOK, CaptureInv, SweepInv, StreamInv, [Next]_vars
  PROVE  StreamInv'
<1> USE DEF timingVars, evidenceVars, streamVars, captureVars
<1> DEFINE Served(s) == open[s] \/ pipe[s] = 0 \/ overflow[s] \/ infrastructure_error
<1>1. ASSUME NEW streams, Drain(streams), NEW s \in Streams,
             s \notin streams => open'[s] = open[s],
             infrastructure_error => infrastructure_error'
      PROVE  Served(s)'
  <2>1. CASE s \in streams /\ open[s]
    BY <1>1, <2>1, CapturedEnds DEF Drain
  <2>2. CASE ~(s \in streams /\ open[s])
    <3>1. UNCHANGED <<pipe[s], overflow[s]>>
      BY <1>1, <2>2 DEF Drain
    <3> QED
      BY <1>1, <2>2, <3>1 DEF StreamInv
  <2> QED
    BY <2>1, <2>2
<1>2. ASSUME NEW s \in Streams, NEW next, DrainStream(s, next) PROVE StreamInv'
  <2>1. CASE Drain({s})
    <3>1. \A t \in Streams : t \notin {s} => open'[t] = open[t]
      BY <1>2 DEF DrainStream, TypeOK, NamespaceTypeOK
    <3>2. infrastructure_error => infrastructure_error'
      BY <1>2 DEF DrainStream
    <3> QED
      BY <1>1, <2>1, <3>1, <3>2 DEF StreamInv
  <2>2. CASE infrastructure_error'
    BY <2>2 DEF StreamInv
  <2> QED
    BY <1>2, <2>1, <2>2 DEF DrainStream
<1>3. CASE DrainStdout \/ DrainStderr
  BY <1>2, <1>3 DEF DrainStdout, DrainStderr, Streams
<1>4. CASE FinalDrain
  <2>1. PICK unread \in SUBSET Streams : Drain(Streams \ unread)
    BY <1>4 DEF FinalDrain
  <2>2. infrastructure_error \/ \A s \in Streams : ~open[s]
    BY <1>4 DEF FinalDrain, SweepInv
  <2>3. UNCHANGED infrastructure_error
    BY <1>4 DEF FinalDrain
  <2>4. CASE \A s \in Streams : ~open[s]
    BY <2>1, <2>3, <2>4 DEF Drain, StreamInv
  <2> QED
    BY <2>2, <2>3, <2>4 DEF StreamInv
<1>5. CASE Namespace
  <2>1. UNCHANGED <<overflow, infrastructure_error>>
    BY <1>5 DEF Namespace, supervisorVars
  <2>2. ASSUME NEW p \in Procs, NEW s \in Streams, WriteStream(p, s)
        PROVE  StreamInv'
    BY <2>1, <2>2 DEF WriteStream, StreamInv
  <2>3. CASE UNCHANGED <<open, pipe>>
    BY <2>1, <2>3 DEF StreamInv
  <2> QED
    BY <1>5, <2>2, <2>3 DEF Namespace, NamespaceStep, ChildReady, Spawn, WriteWorkspace,
       CloseStream, Exit, WaitChild
<1>6. CASE Fork
  BY <1>6 DEF Fork, ForkPrimary, StreamInv, namespaceVars
<1>7. CASE Setup
  BY <1>7 DEF Setup, StreamInv, SweepInv, namespaceVars
<1>8. ASSUME NEW p \in Procs, ReapChild(p) PROVE StreamInv'
  BY <1>8 DEF ReapChild, StreamInv
<1>9. ASSUME UNCHANGED <<open, pipe, overflow>>,
             infrastructure_error => infrastructure_error'
      PROVE  StreamInv'
  BY <1>9 DEF StreamInv
<1>10. CASE ParseRequest \/ ReapNothing \/ ReapNoChild \/ ReapFails \/ Poll
  BY <1>9, <1>10 DEF ParseRequest, ReapNothing, ReapNoChild, ReapFails, Poll,
     namespaceVars
<1>11. CASE AccountCpu \/ Decide \/ DrainReady \/ Sweep \/ SweepClock
  BY <1>9, <1>11 DEF AccountCpu, Decide, DrainReady, Sweep, SweepClock, namespaceVars
<1>12. CASE \/ Measure \/ BuildWorkspaceSnapshot \/ WriteSnapshot \/ Classify
            \/ WriteResult
  BY <1>9, <1>12 DEF Measure, BuildWorkspaceSnapshot, WriteSnapshot, Classify,
     WriteResult, namespaceVars, TypeOK
<1>13. CASE TerminationSignal \/ WallExpires \/ GraceExpires \/ UNCHANGED vars
  BY <1>13 DEF TerminationSignal, WallExpires, GraceExpires, vars, supervisorVars,
     namespaceVars, StreamInv
<1>14. CASE Supervisor
  BY <1>3, <1>4, <1>6, <1>7, <1>8, <1>10, <1>11, <1>12, <1>14 DEF Supervisor
<1> QED
  BY <1>5, <1>13, <1>14 DEF Next, Ended

(* Once Measure has put a limit or an overflow into the flags it stays there. *)
LEMMA FlagInvStep ==
  ASSUME TypeOK, FlagInv, [Next]_vars
  PROVE  FlagInv'
<1> USE DEF FlagInv, timingVars, limitVars, evidenceVars, captureVars, reportVars
<1>1. CASE pc' \notin {"snapshot", "sink", "classify"}
  BY <1>1
<1>2. CASE Measure
  <2>1. PICK sole \in BOOLEAN :
          flags' = flags \cup MeasuredFlags(wall_limit_reached', cpu_limit_reached', sole)
    BY <1>2 DEF Measure, TypeOK
  <2>2. UNCHANGED overflow
    BY <1>2 DEF Measure
  <2> QED
    BY <2>1, <2>2 DEF MeasuredFlags
<1>3. CASE BuildWorkspaceSnapshot \/ WriteSnapshot
  <2>1. flags \subseteq flags' /\ UNCHANGED <<limitVars, overflow>>
    BY <1>3 DEF BuildWorkspaceSnapshot, WriteSnapshot
  <2>2. pc \in {"snapshot", "sink"}
    BY <1>3 DEF BuildWorkspaceSnapshot, WriteSnapshot
  <2> QED
    BY <2>1, <2>2
<1>4. CASE Supervisor /\ ~Measure /\ ~BuildWorkspaceSnapshot /\ ~WriteSnapshot
  <2>1. pc' \notin {"snapshot", "sink", "classify"}
    BY <1>4 DEF Supervisor, ParseRequest, Setup, Fork, ReapChild, ReapNothing,
       ReapNoChild, ReapFails, Reaping, AfterReaping, AccountCpu, Decide, Poll,
       DrainStdout, DrainStderr, DrainStream, LoopTest, DrainReady, Sweep,
       SweepClock, FinalDrain, Classify, WriteResult
  <2> QED
    BY <1>1, <2>1
<1>5. CASE \/ Namespace \/ TerminationSignal \/ WallExpires \/ GraceExpires
           \/ UNCHANGED vars
  BY <1>5 DEF Namespace, TerminationSignal, WallExpires, GraceExpires, vars,
     supervisorVars
<1> QED
  BY <1>2, <1>3, <1>4, <1>5 DEF Next, Ended

(* A verdict is put together from what is remembered, and nothing moves    *)
(* afterwards.                                                             *)
LEMMA VerdictInvStep ==
  ASSUME IInv, Truth, [Next]_vars
  PROVE  VerdictInv'
<1> USE DEF Truth
<1>1. CASE Classify
  <2>1. /\ frame' = ResultFrame(infrastructure_error') /\ pc = "classify"
        /\ infrastructure_error' = (infrastructure_error \/ termination_signal_received)
        /\ UNCHANGED <<pipe, doomed>>
    BY <1>1 DEF Classify, namespaceVars
  <2>2. ResultFrame(infrastructure_error').flags = flags
    BY DEF ResultFrame
  <2>3. ResultFrame(infrastructure_error').outcome =
          IF infrastructure_error' THEN "SUPERVISOR_ERROR"
          ELSE ClassifyOutcome(flags, ProcessStatus, ChildExitCode)
    BY DEF ResultFrame
  <2>4. SUFFICES ASSUME ~infrastructure_error' PROVE VerdictInv'
    BY <2>1, <2>3 DEF VerdictInv, NoOutputLost, OwnEnd, NonError
  <2>5. NoOutputLost'
    <3>1. \A s \in Streams : pipe[s] = 0 \/ OverflowFlag(s) \in flags
      BY <2>1, <2>4 DEF SweepInv, StreamInv, FlagInv
    <3> QED
      BY <2>1, <2>2, <3>1 DEF NoOutputLost
  <2>6. OwnEnd'
    <3>1. SUFFICES ASSUME frame'.outcome \in {"NORMAL", "NONZERO", "SIGNAL"}
                   PROVE  Primary \notin doomed
      BY <2>1 DEF OwnEnd
    <3>2. ClassifyOutcome(flags, ProcessStatus, ChildExitCode)
            \in {"NORMAL", "NONZERO", "SIGNAL"}
      BY <2>1, <2>3, <2>4, <3>1
    <3>3. /\ "STDOUT_OVERFLOW" \notin flags /\ "STDERR_OVERFLOW" \notin flags
          /\ "CPU_LIMIT_REACHED" \notin flags /\ "WALL_LIMIT_REACHED" \notin flags
      BY <3>2 DEF ClassifyOutcome
    <3>4. ~\E s \in Streams : overflow[s]
      BY <2>1, <3>3 DEF FlagInv, Streams, OverflowFlag
    <3>5. ~Remembered
      BY <2>1, <2>4, <3>3, <3>4 DEF Remembered, FlagInv
    <3> QED
      BY <3>5 DEF KillInv
  <2> QED
    BY <2>5, <2>6 DEF VerdictInv
<1>2. CASE ~Classify
  <2>1. frame' = frame
    BY <1>2, FrameKept
  <2>2. SUFFICES ASSUME NonError PROVE UNCHANGED <<pipe, doomed>>
    BY <2>1 DEF VerdictInv, NoOutputLost, OwnEnd, NonError
  <2>3. pc \in {"write", "reported", "silent"} /\ Live = {}
    BY <2>2 DEF IInv, ArchiveTrue, ReapedMeansEmpty, Present, NonError
  <2>4. CASE Supervisor
    <3>1. WriteResult
      BY <2>3, <2>4 DEF Supervisor, ParseRequest, Setup, Fork, ReapChild, ReapNothing,
         ReapNoChild, ReapFails, Reaping, AccountCpu, Decide, Poll, DrainStdout,
         DrainStderr, DrainStream, DrainReady, Sweep, SweepClock, FinalDrain, Measure,
         BuildWorkspaceSnapshot, WriteSnapshot, Classify
    <3> QED
      BY <3>1 DEF WriteResult, namespaceVars
  <2>5. CASE Namespace
    BY <2>3, <2>5 DEF Namespace, NamespaceStep, ChildReady, Spawn, WriteWorkspace,
       WriteStream, CloseStream, Exit, WaitChild, Running
  <2>6. CASE TerminationSignal \/ WallExpires \/ GraceExpires \/ UNCHANGED vars
    BY <2>6 DEF TerminationSignal, WallExpires, GraceExpires, vars, namespaceVars
  <2> QED
    BY <2>4, <2>5, <2>6 DEF Next, Ended
<1> QED
  BY <1>1, <1>2

LEMMA TruthInit == Init => Truth
<1> SUFFICES ASSUME Init PROVE Truth
  OBVIOUS
<1>1. \A s \in Streams : pipe[s] = 0 /\ ~open[s] /\ ~overflow[s]
  BY DEF Init, NamespaceInit
<1>2. KillInv /\ SweepInv /\ StreamInv
  BY <1>1 DEF Init, NamespaceInit, KillInv, SweepInv, StreamInv
<1>3. FlagInv /\ VerdictInv
  BY DEF Init, FlagInv, VerdictInv, NoOutputLost, OwnEnd, NonError
<1> QED
  BY <1>2, <1>3 DEF Truth

LEMMA TruthCorrect == Spec => []Truth
<1>1. Init => CaptureInv
  BY EvidenceInit DEF Evidence
<1>2. IInv /\ CaptureInv /\ Truth /\ [Next]_vars => (CaptureInv /\ Truth)'
  <2> SUFFICES ASSUME IInv, CaptureInv, Truth, [Next]_vars
               PROVE  CaptureInv' /\ Truth'
    OBVIOUS
  <2>1. TypeOK /\ KillInv /\ SweepInv /\ StreamInv /\ FlagInv
    BY DEF IInv, Truth
  <2> QED
    BY <2>1, CaptureStep, KillInvStep, SweepInvStep, StreamInvStep, FlagInvStep,
       VerdictInvStep DEF Truth
<1> QED
  BY <1>1, <1>2, TruthInit, InvCorrect, PTL DEF Spec

(* No byte the program wrote is dropped without an overflow flag, whatever  *)
(* fails: the pipes main() closes are empty or have reached their caps.     *)
THEOREM NoOutputLostCorrect == Spec => []NoOutputLost
<1>1. Truth => NoOutputLost
  BY DEF Truth, VerdictInv
<1> QED
  BY <1>1, TruthCorrect, PTL

(* NORMAL, NONZERO and SIGNAL are the program's own end: every reason for    *)
(* which main() kills a live program is remembered until classify_outcome.  *)
THEOREM OwnEndCorrect == Spec => []OwnEnd
<1>1. Truth => OwnEnd
  BY DEF Truth, VerdictInv
<1> QED
  BY <1>1, TruthCorrect, PTL

-----------------------------------------------------------------------------
(* What an error means when no system call fails.                          *)

(* The three causes, in a form that lasts.                                 *)
Excused ==
  \/ termination_signal_received
  \/ grace = "expired"
  \/ ~confined /\ born > 0 /\ Primary \notin Live

(* The readiness byte is on its way, seen, or will never come.             *)
ReadyInv ==
  /\ confined => ready_seen \/ ready_pipe > 0
  /\ born > 0 /\ ~ready_open /\ ~infrastructure_error =>
       ready_seen \/ (~confined /\ Primary \notin Live)

(* Who is left without an error.                                           *)
QuietInv ==
  /\ grace # "off" => terminating
  /\ born > 0 => life[Primary] # "unborn"
  /\ life[Primary] = "reaped" => primary_reaped
  /\ pc \in {"sweep", "final_drain", "measure"} /\ ~infrastructure_error
       => all_reaped /\ ~ready_open
  /\ pc \in {"snapshot", "sink", "classify"} /\ ~infrastructure_error => primary_reaped
  /\ pc = "sink" => snapshot.result # "error"

CauseInv ==
  /\ infrastructure_error => Excused
  /\ frame # NoFrame /\ frame.outcome = "SUPERVISOR_ERROR" => Excused

LEMMA NoFailure == ASSUME Faults = {} PROVE \A kind : MayFail(kind) = {FALSE}
  BY DEF MayFail

(* A cause, once given, stays.                                             *)
LEMMA ExcusedStep ==
  ASSUME IInv, QuietInv, [Next]_vars
  PROVE  Excused => Excused'
<1> USE DEF Excused, timingVars, controlVars, clockVars, evidenceVars, processVars,
      namespaceVars, Primary
<1>1. /\ Primary \in Procs /\ born \in Nat
      /\ life \in [Procs -> {"unborn", "live", "zombie", "reaped"}]
  BY NamespaceAssumption DEF Procs, IInv, TypeOK, NamespaceTypeOK
<1>2. CASE Namespace
  <2>1. UNCHANGED <<termination_signal_received, grace>>
    BY <1>2 DEF Namespace, supervisorVars
  <2>2. ASSUME ~confined, born > 0, Primary \notin Live
        PROVE  ~confined' /\ born' > 0 /\ Primary \notin Live'
    <3>1. CASE ChildReady
      BY <2>2, <3>1 DEF ChildReady
    <3>2. ASSUME NEW p \in Procs, Spawn(p)
          PROVE  ~confined' /\ born' > 0 /\ Primary \notin Live'
      BY <1>1, <2>2, <3>2 DEF Spawn, Live
    <3>3. ASSUME NEW p \in Procs, NEW how, Exit(p, how)
          PROVE  ~confined' /\ born' > 0 /\ Primary \notin Live'
      BY <1>1, <2>2, <3>3 DEF Exit, Live
    <3>4. ASSUME NEW p \in Procs, NEW q \in Procs, WaitChild(p, q)
          PROVE  ~confined' /\ born' > 0 /\ Primary \notin Live'
      BY <1>1, <2>2, <3>4 DEF WaitChild, Live
    <3>5. CASE UNCHANGED <<confined, born, life>>
      BY <2>2, <3>5 DEF Live
    <3> QED
      BY <1>2, <3>1, <3>2, <3>3, <3>4, <3>5 DEF Namespace, NamespaceStep,
         WriteWorkspace, WriteStream, CloseStream
  <2> QED
    BY <2>1, <2>2
<1>3. CASE Decide
  <2>1. UNCHANGED <<termination_signal_received, confined, born, life>>
    BY <1>3 DEF Decide
  <2>2. grace = "expired" => grace' = "expired"
    BY <1>3 DEF Decide, QuietInv
  <2> QED
    BY <2>1, <2>2 DEF Live
<1>4. ASSUME UNCHANGED <<termination_signal_received, grace, confined, born, life>>
      PROVE  Excused => Excused'
  BY <1>4 DEF Live
<1>5. CASE Fork
  <2>1. UNCHANGED <<termination_signal_received, grace>>
    BY <1>5 DEF Fork
  <2>2. CASE ForkPrimary
    <3>1. ~(born > 0)
      BY <2>2 DEF ForkPrimary
    <3> QED
      BY <2>1, <3>1
  <2>3. CASE UNCHANGED namespaceVars
    BY <1>4, <2>1, <2>3
  <2> QED
    BY <1>5, <2>2, <2>3 DEF Fork
<1>6. ASSUME NEW p \in Procs, ReapChild(p) PROVE Excused => Excused'
  <2>1. UNCHANGED <<termination_signal_received, grace, confined, born>>
    BY <1>6 DEF ReapChild
  <2>2. Primary \notin Live => Primary \notin Live'
    BY <1>1, <1>6 DEF ReapChild, Live
  <2> QED
    BY <2>1, <2>2
<1>7. CASE \/ ParseRequest \/ Setup \/ ReapNothing \/ ReapNoChild \/ ReapFails
           \/ AccountCpu \/ Poll
  BY <1>4, <1>7 DEF ParseRequest, Setup, ReapNothing, ReapNoChild, ReapFails,
     AccountCpu, Poll
<1>8. CASE DrainStdout \/ DrainStderr \/ DrainReady \/ FinalDrain
  BY <1>4, <1>8 DEF DrainStdout, DrainStderr, DrainStream, DrainReady, FinalDrain
<1>9. CASE Sweep \/ SweepClock
  BY <1>4, <1>9 DEF Sweep, SweepClock
<1>10. CASE Measure \/ BuildWorkspaceSnapshot \/ WriteSnapshot \/ Classify \/ WriteResult
  BY <1>4, <1>10 DEF Measure, BuildWorkspaceSnapshot, WriteSnapshot, Classify,
     WriteResult
<1>11. CASE TerminationSignal \/ WallExpires \/ GraceExpires \/ UNCHANGED vars
  BY <1>11 DEF TerminationSignal, WallExpires, GraceExpires, vars, supervisorVars, Live
<1>12. CASE Supervisor
  BY <1>3, <1>5, <1>6, <1>7, <1>8, <1>9, <1>10, <1>12 DEF Supervisor
<1> QED
  BY <1>2, <1>11, <1>12 DEF Next, Ended

(* drain_ready closes the pipe only when nobody will write to it.          *)
LEMMA ReadyInvStep ==
  ASSUME IInv, SweepInv, QuietInv, ReadyInv, [Next]_vars, Faults = {}
  PROVE  ReadyInv'
<1> USE DEF ReadyInv, timingVars, evidenceVars, readyVars, streamVars, processVars,
      namespaceVars, Primary
<1>1. /\ Primary \in Procs /\ born \in Nat /\ ready_pipe \in Nat
      /\ life \in [Procs -> {"unborn", "live", "zombie", "reaped"}]
      /\ infrastructure_error \in BOOLEAN
      /\ Primary > born => life[Primary] = "unborn"
  <2>1. Primary \in Procs
    BY NamespaceAssumption DEF Procs
  <2> QED
    BY <2>1, NamespaceAssumption DEF IInv, TypeOK, NamespaceTypeOK, FamilyTree
<1>2. CASE Namespace
  <2>1. UNCHANGED <<ready_open, ready_seen, infrastructure_error>>
    BY <1>2 DEF Namespace, supervisorVars
  <2>2. CASE ChildReady
    BY <1>1, <2>1, <2>2 DEF ChildReady, Live
  <2>3. ASSUME NEW p \in Procs, Spawn(p) PROVE ReadyInv'
    <3>1. born > 0 /\ life'[Primary] = life[Primary]
      BY <1>1, <2>3 DEF Spawn, Running, Live, IInv, FamilyTree, Procs
    <3>2. UNCHANGED <<confined, ready_pipe>>
      BY <2>3 DEF Spawn
    <3> QED
      BY <1>1, <2>1, <3>1, <3>2 DEF Live
  <2>4. ASSUME NEW p \in Procs, NEW how, Exit(p, how) PROVE ReadyInv'
    BY <1>1, <2>1, <2>4 DEF Exit, Live
  <2>5. ASSUME NEW p \in Procs, NEW q \in Procs, WaitChild(p, q) PROVE ReadyInv'
    BY <1>1, <2>1, <2>5 DEF WaitChild, Live
  <2>6. CASE UNCHANGED <<confined, born, life, ready_pipe>>
    BY <2>1, <2>6 DEF Live
  <2> QED
    BY <1>2, <2>2, <2>3, <2>4, <2>5, <2>6 DEF Namespace, NamespaceStep,
       WriteWorkspace, WriteStream, CloseStream
<1>3. CASE DrainReady
  <2>1. /\ UNCHANGED <<confined, born, life, infrastructure_error>>
        /\ ReadReady
        /\ ready_open' = (ready_open /\ ReadyWriterAlive)
    BY <1>3 DEF DrainReady
  <2>2. /\ ready_seen => ready_seen'
        /\ ready_open /\ ready_pipe > 0 => ready_seen'
        /\ ~ready_open => ready_pipe' = ready_pipe
    BY <2>1 DEF ReadReady
  <2>3. confined => ready_seen' \/ ready_pipe' > 0
    BY <2>2
  <2>4. confined /\ ready_open => ready_seen'
    BY <2>2
  <2> QED
    BY <2>1, <2>2, <2>3, <2>4 DEF ReadyWriterAlive, Live
<1>4. CASE FinalDrain
  <2>1. /\ UNCHANGED <<confined, born, life, infrastructure_error>>
        /\ ReadReady
    BY <1>4 DEF FinalDrain
  <2>2. /\ ready_seen => ready_seen'
        /\ ready_open /\ ready_pipe > 0 => ready_seen'
        /\ ~ready_open => ready_pipe' = ready_pipe
    BY <2>1 DEF ReadReady
  <2>3. infrastructure_error \/ ~ready_open
    BY <1>4 DEF FinalDrain, QuietInv
  <2> QED
    BY <2>1, <2>2, <2>3 DEF Live
<1>5. ASSUME UNCHANGED <<confined, born, life, ready_open, ready_seen, ready_pipe>>,
             infrastructure_error => infrastructure_error'
      PROVE  ReadyInv'
  BY <1>5 DEF Live
<1>6. CASE Fork
  BY <1>1, <1>6 DEF Fork, ForkPrimary
<1>7. ASSUME NEW p \in Procs, ReapChild(p) PROVE ReadyInv'
  BY <1>1, <1>7 DEF ReapChild, Live
<1>8. CASE Setup
  BY <1>5, <1>8 DEF Setup, SweepInv
<1>9. CASE ParseRequest \/ ReapNothing \/ ReapNoChild \/ ReapFails \/ Poll
  BY <1>5, <1>9 DEF ParseRequest, ReapNothing, ReapNoChild, ReapFails, Poll
<1>10. CASE AccountCpu \/ Decide \/ Sweep \/ SweepClock
  BY <1>5, <1>10 DEF AccountCpu, Decide, Sweep, SweepClock
<1>11. CASE DrainStdout \/ DrainStderr
  BY <1>5, <1>11 DEF DrainStdout, DrainStderr, DrainStream
<1>12. CASE Measure \/ BuildWorkspaceSnapshot \/ WriteSnapshot \/ Classify \/ WriteResult
  BY <1>1, <1>5, <1>12 DEF Measure, BuildWorkspaceSnapshot, WriteSnapshot, Classify,
     WriteResult
<1>13. CASE TerminationSignal \/ WallExpires \/ GraceExpires \/ UNCHANGED vars
  BY <1>5, <1>13 DEF TerminationSignal, WallExpires, GraceExpires, vars, supervisorVars
<1>14. CASE Supervisor
  BY <1>3, <1>4, <1>6, <1>7, <1>8, <1>9, <1>10, <1>11, <1>12, <1>14 DEF Supervisor
<1> QED
  BY <1>2, <1>13, <1>14 DEF Next, Ended

(* Without an error the loop ends with everybody collected.                *)
LEMMA QuietInvStep ==
  ASSUME IInv, SweepInv, QuietInv, [Next]_vars, Faults = {}
  PROVE  QuietInv'
<1> USE DEF timingVars, controlVars, clockVars, evidenceVars, reapVars, readyVars,
      imageVars, streamVars, processVars, namespaceVars, Primary
<1>1. /\ Primary \in Procs /\ born \in Nat
      /\ life \in [Procs -> {"unborn", "live", "zombie", "reaped"}]
      /\ \A q \in Procs : q > born => life[q] = "unborn"
      /\ life[Primary] = "zombie" => parent[Primary] = PidOne
  <2>1. Primary \in Procs
    BY NamespaceAssumption DEF Procs
  <2>2. parent[Primary] \in Procs => ~(parent[Primary] < Primary)
    BY NamespaceAssumption DEF Procs
  <2>3. Primary \in Present => parent[Primary] = PidOne
    BY <2>1, <2>2 DEF IInv, FamilyTree, Live
  <2> QED
    BY <2>1, <2>3, NamespaceAssumption
    DEF IInv, TypeOK, NamespaceTypeOK, FamilyTree, Present, Zombies
<1>2. grace' # "off" => terminating'
  <2>1. CASE Decide
    BY <2>1 DEF Decide, QuietInv, IInv, TypeOK
  <2>2. CASE GraceExpires
    BY <2>2 DEF GraceExpires, QuietInv
  <2>3. CASE ~Decide /\ ~GraceExpires
    <3>1. UNCHANGED <<grace, terminating>>
      BY <2>3 DEF Next, Supervisor, ParseRequest, Setup, Fork, ReapChild, ReapNothing,
         ReapNoChild, ReapFails, AccountCpu, Poll, DrainStdout, DrainStderr,
         DrainStream, DrainReady, Sweep, SweepClock, FinalDrain, Measure,
         BuildWorkspaceSnapshot, WriteSnapshot, Classify, WriteResult, Namespace,
         TerminationSignal, WallExpires, Ended, vars, supervisorVars
    <3> QED
      BY <3>1 DEF QuietInv
  <2> QED
    BY <2>1, <2>2, <2>3
<1>3. /\ born' > 0 => life'[Primary] # "unborn"
      /\ life'[Primary] = "reaped" => primary_reaped'
      /\ primary_reaped => primary_reaped'
  <2>1. CASE Namespace
    <3>1. UNCHANGED primary_reaped
      BY <2>1 DEF Namespace, supervisorVars
    <3>2. ASSUME NEW p \in Procs, Spawn(p)
          PROVE  /\ born' > 0 => life'[Primary] # "unborn"
                 /\ life'[Primary] = "reaped" => life[Primary] = "reaped"
      <4>1. born > 0
        BY <1>1, <3>2 DEF Spawn, Running, Live, Procs
      <4> QED
        BY <1>1, <3>2, <4>1 DEF Spawn, QuietInv
    <3>3. ASSUME NEW p \in Procs, NEW how, Exit(p, how)
          PROVE  /\ born' > 0 => life'[Primary] # "unborn"
                 /\ life'[Primary] = "reaped" => life[Primary] = "reaped"
      BY <1>1, <3>3 DEF Exit, QuietInv
    <3>4. ASSUME NEW p \in Procs, NEW q \in Procs, WaitChild(p, q)
          PROVE  /\ born' > 0 => life'[Primary] # "unborn"
                 /\ life'[Primary] = "reaped" => life[Primary] = "reaped"
      <4>1. q # Primary
        BY <1>1, <3>4 DEF WaitChild, Zombies, Procs, PidOne
      <4> QED
        BY <1>1, <3>4, <4>1 DEF WaitChild, QuietInv
    <3>5. CASE UNCHANGED <<born, life>>
      BY <3>1, <3>5 DEF QuietInv
    <3> QED
      BY <2>1, <3>1, <3>2, <3>3, <3>4, <3>5 DEF Namespace, NamespaceStep, ChildReady,
         WriteWorkspace, WriteStream, CloseStream, QuietInv
  <2>2. ASSUME NEW p \in Procs, ReapChild(p)
        PROVE  /\ born' > 0 => life'[Primary] # "unborn"
               /\ life'[Primary] = "reaped" => primary_reaped'
               /\ primary_reaped => primary_reaped'
    BY <1>1, <2>2 DEF ReapChild, QuietInv
  <2>3. CASE Fork
    <3>1. UNCHANGED primary_reaped
      BY <2>3 DEF Fork
    <3> QED
      BY <1>1, <2>3, <3>1 DEF Fork, ForkPrimary, QuietInv
  <2>4. CASE ~Namespace /\ ~Fork /\ ~\E p \in Procs : ReapChild(p)
    <3>1. UNCHANGED <<born, life>>
      BY <2>4, TreeMoves DEF TreeUnchanged
    <3>2. UNCHANGED primary_reaped
      BY <2>4 DEF Next, Supervisor, ParseRequest, Setup, ReapNothing, ReapNoChild,
         ReapFails, AccountCpu, Decide, Poll, DrainStdout, DrainStderr, DrainStream,
         DrainReady, Sweep, SweepClock, FinalDrain, Measure, BuildWorkspaceSnapshot,
         WriteSnapshot, Classify, WriteResult, TerminationSignal, WallExpires,
         GraceExpires, Ended, vars, supervisorVars
    <3> QED
      BY <3>1, <3>2 DEF QuietInv
  <2> QED
    BY <2>1, <2>2, <2>3, <2>4
<1>4. pc' \in {"sweep", "final_drain", "measure"} /\ ~infrastructure_error'
        => all_reaped' /\ ~ready_open'
  <2> USE DEF QuietInv
  <2>1. CASE ParseRequest \/ Fork \/ ReapNothing \/ ReapNoChild \/ ReapFails
    BY <2>1 DEF ParseRequest, Fork, ReapNothing, ReapNoChild, ReapFails, Reaping,
       AfterReaping
  <2>2. CASE Setup
    BY <2>2, NoFailure DEF Setup
  <2>3. ASSUME NEW p \in Procs, ReapChild(p)
        PROVE  pc' \notin {"sweep", "final_drain", "measure"}
    BY <2>3 DEF ReapChild, Reaping
  <2>4. CASE AccountCpu \/ Decide \/ Poll
    BY <2>4 DEF AccountCpu, Decide, Poll
  <2>5. CASE DrainStdout \/ DrainStderr
    BY <2>5 DEF DrainStdout, DrainStderr, DrainStream
  <2>6. CASE DrainReady
    <3>1. LoopTest /\ UNCHANGED all_reaped
      BY <2>6 DEF DrainReady
    <3>2. pc' = "reap" \/ (all_reaped /\ ~ready_open')
      BY <3>1 DEF LoopTest
    <3> QED
      BY <3>1, <3>2
  <2>7. CASE Sweep \/ SweepClock \/ FinalDrain
    BY <2>7 DEF Sweep, SweepClock, FinalDrain, SweepInv
  <2>8. CASE Measure \/ BuildWorkspaceSnapshot \/ WriteSnapshot \/ Classify \/ WriteResult
    BY <2>8 DEF Measure, BuildWorkspaceSnapshot, WriteSnapshot, Classify, WriteResult
  <2>9. CASE \/ Namespace \/ TerminationSignal \/ WallExpires \/ GraceExpires
             \/ UNCHANGED vars
    BY <2>9 DEF Namespace, TerminationSignal, WallExpires, GraceExpires, vars,
       supervisorVars
  <2>10. CASE Supervisor
    BY <2>1, <2>2, <2>3, <2>4, <2>5, <2>6, <2>7, <2>8, <2>10 DEF Supervisor
  <2> QED
    BY <2>9, <2>10 DEF Next, Ended
<1>5. /\ pc' \in {"snapshot", "sink", "classify"} /\ ~infrastructure_error'
           => primary_reaped'
      /\ pc' = "sink" => snapshot'.result # "error"
  <2>1. CASE Measure
    <3>1. pc' # "sink" /\ UNCHANGED <<life, primary_reaped>>
          /\ (~infrastructure_error' => ~infrastructure_error)
      BY <2>1 DEF Measure, IInv, TypeOK
    <3>2. ~infrastructure_error => life[Primary] = "reaped"
      BY <1>1, <2>1 DEF Measure, QuietInv, IInv, Progress, ReapedMeansEmpty, Present,
         Live, Zombies
    <3> QED
      BY <3>1, <3>2 DEF QuietInv
  <2>2. CASE BuildWorkspaceSnapshot
    <3>1. \A need \in ArchiveSizes : BuildImage(need).result # "error"
      BY DEF BuildImage
    <3> QED
      BY <2>2, <3>1 DEF BuildWorkspaceSnapshot, QuietInv
  <2>3. CASE WriteSnapshot
    <3>1. pc = "sink" /\ pc' = "classify" /\ UNCHANGED primary_reaped
          /\ (~infrastructure_error' => ~infrastructure_error)
      BY <2>3 DEF WriteSnapshot, IInv, TypeOK
    <3> QED
      BY <3>1 DEF QuietInv
  <2>4. CASE \/ Namespace \/ TerminationSignal \/ WallExpires \/ GraceExpires
             \/ UNCHANGED vars
    BY <2>4 DEF Namespace, TerminationSignal, WallExpires, GraceExpires, vars,
       supervisorVars, QuietInv
  <2>5. CASE Supervisor /\ ~Measure /\ ~BuildWorkspaceSnapshot /\ ~WriteSnapshot
    <3>1. pc' \notin {"snapshot", "sink", "classify"}
      BY <2>5 DEF Supervisor, ParseRequest, Setup, Fork, ReapChild, ReapNothing,
         ReapNoChild, ReapFails, Reaping, AfterReaping, AccountCpu, Decide, Poll,
         DrainStdout, DrainStderr, DrainStream, LoopTest, DrainReady, Sweep,
         SweepClock, FinalDrain, Classify, WriteResult
    <3> QED
      BY <3>1
  <2> QED
    BY <2>1, <2>2, <2>3, <2>4, <2>5 DEF Next, Ended
<1> QED
  BY <1>2, <1>3, <1>4, <1>5 DEF QuietInv

(* Every error has one of the three causes.                                *)
LEMMA CauseInvStep ==
  ASSUME IInv, SweepInv, QuietInv, ReadyInv, CauseInv, [Next]_vars, Faults = {}
  PROVE  CauseInv'
<1> USE DEF timingVars, evidenceVars, clockVars, reportVars
<1>1. Excused => Excused'
  BY ExcusedStep
<1>2. infrastructure_error' => infrastructure_error \/ Excused'
  <2>1. CASE Setup
    BY <2>1, NoFailure DEF Setup
  <2>2. CASE Decide
    <3>1. infrastructure_error' => infrastructure_error \/ grace' = "expired"
      BY <2>2, NoFailure DEF Decide
    <3> QED
      BY <3>1 DEF Excused
  <2>3. CASE SweepClock
    BY <2>3 DEF SweepClock, SweepInv
  <2>4. CASE Measure
    <3>1. SUFFICES ASSUME ~infrastructure_error PROVE infrastructure_error' => Excused
      BY <1>1
    <3>2. born > 0 /\ all_reaped /\ ~ready_open
      BY <2>4, <3>1 DEF Measure, IInv, Progress, QuietInv
    <3>3. Present = {}
      BY <3>2 DEF IInv, ReapedMeansEmpty
    <3>4. primary_reaped
      <4>1. Primary \in Procs /\ life[Primary] \in {"unborn", "live", "zombie", "reaped"}
        BY NamespaceAssumption DEF Primary, Procs, IInv, TypeOK, NamespaceTypeOK
      <4> QED
        BY <3>2, <3>3, <4>1 DEF QuietInv, Present, Live, Zombies
    <3>5. infrastructure_error' => ~ready_seen
      BY <2>4, <3>1, <3>2, <3>3, <3>4, NoFailure DEF Measure, SoleNamespacePid1
    <3>6. ready_seen \/ (~confined /\ Primary \notin Live)
      BY <3>1, <3>2 DEF ReadyInv
    <3> QED
      BY <3>2, <3>5, <3>6 DEF Excused
  <2>5. CASE WriteSnapshot
    BY <2>5, NoFailure DEF WriteSnapshot, QuietInv
  <2>6. CASE Classify
    <3>1. infrastructure_error' => infrastructure_error \/ termination_signal_received'
      BY <2>6 DEF Classify, controlVars
    <3> QED
      BY <3>1 DEF Excused
  <2>7. CASE AccountCpu \/ Poll
    BY <2>7, NoFailure DEF AccountCpu, Poll
  <2>8. CASE DrainStdout \/ DrainStderr \/ DrainReady \/ FinalDrain \/ Sweep
    BY <2>8 DEF DrainStdout, DrainStderr, DrainStream, DrainReady, FinalDrain, Sweep
  <2>9. CASE \/ ParseRequest \/ Fork \/ ReapNothing \/ ReapNoChild \/ ReapFails
             \/ BuildWorkspaceSnapshot \/ WriteResult
    BY <2>9 DEF ParseRequest, Fork, ReapNothing, ReapNoChild, ReapFails,
       BuildWorkspaceSnapshot, WriteResult
  <2>10. ASSUME NEW p \in Procs, ReapChild(p)
         PROVE  infrastructure_error' = infrastructure_error
    BY <2>10 DEF ReapChild
  <2>11. CASE \/ Namespace \/ TerminationSignal \/ WallExpires \/ GraceExpires
              \/ UNCHANGED vars
    BY <2>11 DEF Namespace, TerminationSignal, WallExpires, GraceExpires, vars,
       supervisorVars
  <2>12. CASE Supervisor
    BY <2>1, <2>2, <2>3, <2>4, <2>5, <2>6, <2>7, <2>8, <2>9, <2>10, <2>12 DEF Supervisor
  <2> QED
    BY <2>11, <2>12 DEF Next, Ended
<1>3. infrastructure_error' => Excused'
  BY <1>1, <1>2 DEF CauseInv
<1>4. frame' # NoFrame /\ frame'.outcome = "SUPERVISOR_ERROR" => Excused'
  <2>1. CASE Classify
    <3>1. SUFFICES ASSUME ~infrastructure_error'
                   PROVE  frame'.outcome # "SUPERVISOR_ERROR"
      BY <1>3
    <3>2. frame' = ResultFrame(infrastructure_error') /\ primary_reaped
      BY <2>1, <3>1 DEF Classify, QuietInv, IInv, TypeOK
    <3>3. frame'.outcome = ClassifyOutcome(flags, ProcessStatus, ChildExitCode)
      BY <3>1, <3>2 DEF ResultFrame
    <3>4. ProcessStatus \in {"SIGNALED", "EXITED"}
      BY <3>2 DEF ProcessStatus
    <3> QED
      BY <3>3, <3>4 DEF ClassifyOutcome
  <2>2. CASE ~Classify
    BY <1>1, <2>2, FrameKept DEF CauseInv
  <2> QED
    BY <2>1, <2>2
<1> QED
  BY <1>3, <1>4 DEF CauseInv

LEMMA CauseInit == Init => QuietInv /\ ReadyInv /\ CauseInv
<1> SUFFICES ASSUME Init PROVE QuietInv /\ ReadyInv /\ CauseInv
  OBVIOUS
<1>1. life[Primary] = "unborn" /\ born = 0
  BY NamespaceAssumption DEF Init, NamespaceInit, Procs, Primary
<1> QED
  BY <1>1 DEF Init, NamespaceInit, QuietInv, ReadyInv, CauseInv

(* Without failing calls an error means one of three things: main() was     *)
(* asked to stop, the child was never confined, or it outlived a cleanup    *)
(* deadline.                                                               *)
THEOREM ErrorJustifiedCorrect == Spec => []ErrorJustified
<1>1. CASE Faults = {}
  <2>1. /\ IInv /\ Truth /\ QuietInv /\ ReadyInv /\ CauseInv /\ [Next]_vars
        => (QuietInv /\ ReadyInv /\ CauseInv)'
    BY <1>1, QuietInvStep, ReadyInvStep, CauseInvStep DEF Truth
  <2>2. CauseInv => ErrorJustified
    BY DEF CauseInv, Excused, ErrorJustified
  <2> QED
    BY <2>1, <2>2, CauseInit, InvCorrect, TruthCorrect, PTL DEF Spec
<1>2. CASE Faults # {}
  <2>1. ErrorJustified
    BY <1>2 DEF ErrorJustified
  <2> QED
    BY <2>1, PTL
<1> QED
  BY <1>1, <1>2
=============================================================================
