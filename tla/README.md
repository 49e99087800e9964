# CBDS: a TLA+ verification project

CBDS trains and evaluates a small Bash model.  Most of the repository is data,
generated task tables and validation of values.  The part where order, failure
and concurrency decide whether a result can be believed is small:

- two C programs that are PID 1 of a namespace and report what happened in one
  binary frame (`native/cbds-development-candidate-supervisor.c`, and its
  program-free predecessor `native/cbds-development-supervisor.c`);
- the Python that decides whether to believe those frames
  (`src/cbds/development_candidate_protocol.py`, `development_supervisor_*.py`),
  launches the program (`development_reviewed_bash_canary.py`), hands out the
  runtime's files (`development_runtime_fd_snapshot.py`) and verifies the
  workspace (`executable_fixture_verifier.py`);
- the code that makes results durable without ever replacing one
  (`hash_only_report_publication.py`, `dense_training.py`, `token_schedule.py`).

Around them stand algorithms whose answer is a claim: which tokens are trained,
which contrast is significant, what a benchmark task expects.

This directory models these parts, checks the models with TLC and proves the main
properties of nine of them with TLAPS.  Paths below are relative to the
repository; in `PROJECT.json` they carry the prefix `src/`.

## 1. Inventory

### 1.1 Native candidate supervisor (modelled)

*Source* `native/cbds-development-candidate-supervisor.c`, `main` and the
functions it calls.

*State.* The locals of `main` (`infrastructure_error`, `terminating`, the limit
flags, three deadlines), `struct supervisor_state` (what wait4 said),
two `struct capture_state` (one per stream), the readiness byte, the result
flags, the archive buffer.  Around it, and not its own: the processes of the
namespace with their parents and pending SIGKILL, three pipes, the workspace,
the clock, one asynchronous flag set by SIGTERM/SIGINT/SIGHUP.

*Operations.* Validate descriptors and request; fork; then a loop of
reap (wait4 until empty) / scan /proc / decide (clock, limits, kill) / poll /
drain stdout / drain stderr / drain the readiness pipe; a second cleanup with its
own deadline; a last drain; measure; archive the workspace; write the archive;
classify; write the frame.

*Interactions.* The program and the kernel act between any two system calls.
The frame goes to the Python protocol validator, the archive to the parser and
the fixture verifier, and the launch controller may send SIGTERM at any time.

*Hard behaviours.* kill(-1) racing fork; orphans; pipes kept open by
descendants; a process that does not die; limits reached during cleanup;
several incidents in one run; failing system calls at every place; a /proc scan
that is not atomic; an archive cut off at any of nine limits.

*Correct when* the frame is acceptable to the validator, a verdict speaks of a
finished world and of the program's own end, the archive is that world's
workspace, no output is lost silently, CPU time is neither invented nor lost,
and there always is an end.

### 1.2 Candidate protocol (partly modelled)

*Source* `src/cbds/development_candidate_protocol.py`.  Stateless: encode a
request, decode a frame, bind it to its request.  The binding is a separate
implementation of the rules the C program follows (flags, precedence of
outcomes, caps, limits), so disagreement between the two is the hazard.
Modelled: the validator as a predicate on frames.  Left out: byte encodings,
digests, nonces.

### 1.3 Launch controller of the reviewed Bash canary (partly modelled)

*Source* `src/cbds/development_reviewed_bash_canary.py`.

*State.* The client process (systemd-run), two bounded streams, a deadline, the
snapshot sink (a memory file to be sealed), the exception under way.  Not its
own: the user manager, the transient unit and its processes, the workspace.

*Operations.* Start the client; select and read with bounds; on end, overflow,
deadline or error stop and kill the unit, ask whether it is inactive and its
cgroup empty, collect the client; read the sink twice and seal it; judge the
frame; compare the snapshot with the workspace; verify; close everything.

*Hard behaviours.* A start request that still waits at the manager while the unit
is found inactive; streams that end before the client does; interrupts inside
handlers; a client that lies.

*Correct when* what it accepts can no longer change, its client is always
collected, no process of the unit outlives it, and it ends.

### 1.4 Lifecycle supervisor (partly modelled)

*Source* `native/cbds-development-supervisor.c`, `development_supervisor_protocol.py`,
`development_supervisor_canary.py`.  The predecessor of 1.1: its child plays one
of nine fixed scenarios (timeouts, floods, a doubly forked daemon, a zombie, a
fan-out, a forbidden system call, a spoofed frame).  The decoder and the canary
are two more implementations of what a frame may say.  *Correct when* an
undisturbed scenario passes, what passes was played, and every frame can be
decoded.  The systemd launch around it has the control flow of 1.3.  Not
modelled: `development_fd_handoff_canary.py`.

### 1.5 Runtime descriptor snapshot (partly modelled)

*Source* `src/cbds/development_runtime_fd_snapshot.py`.  *State*: memfds and their
seals, the descriptor table of the process, the object's `_owned_descriptors`,
`_closed` and lock.  *Operations*: scan, capture and seal every regular file, scan
again, construct and verify the object; then, by threads, `duplicate_regular_fd`,
`close`, and the finalizer.  *Hard behaviours*: files and unsealed memfds are
written to meanwhile; an error or interrupt at any place; descriptor numbers are
reused at once.  *Correct when* what is handed out is sealed and right, and each
descriptor is closed exactly once.  The other parts of the runtime (building the
tree, the namespace canary, preflights) are not modelled.

### 1.6 Workspaces, archives and fixture verification (partly modelled)

*Source* `executable_workspace.py`, `executable_fixture_verifier.py`,
`development_candidate_workspace_snapshot.py`, and `build_workspace_snapshot` in C.
A workspace is scanned file by file while something may still write to it;
every scan is made twice, bytes are released between two scans, inputs and
outputs are scanned again at the end.  The archive is written in C and parsed in
Python, each with its own limits and its own idea of order.  *Correct when* what
passed was right as a whole, and when writer and parser agree on every tree.

### 1.7 Publication of reports, checkpoints and schedules (partly modelled)

*Source* `hash_only_report_publication.py`: stage, fsync, authenticate, link,
authenticate, fsync, unlink the temporary name, fsync, read back; on error take
the link back, clean up, fsync.  *Source* `dense_training.py`, `token_schedule.py`:
stage a directory beside its destination, write or export, validate, rename it
with `renameat2(RENAME_NOREPLACE)`, fsync; on error remove the staging directory.

*State.* Directory entries, and what the last fsync made durable; link counts;
bytes; per call, what it believes it has published.

*Hard behaviours.* Any system call can fail, those of the rollback too; a killed
call leaves links behind; two callers see each other's half-published file;
stat-to-unlink intervals; power failures; an exporter's thread that goes on
writing while its files are hashed.

*Correct when* a result is written once: never replaced, never torn, withdrawn
only while no caller was told that it stands.

### 1.8 Token schedule and training ledger (partly modelled)

*Source* `token_schedule.py`, `dense_training.py`.  Per partition, occurrences are
drawn from an endless shuffled stream until an exact budget of visible tokens is
met (the tail is a subset-sum problem); the partitions are interleaved in
proportion, packed into sequences, re-derived from the ledgers, trained on in
micro-batches, and every update is a row of a hash-chained ledger which the
checkpoint's validator replays.  A partition is refused when no selection of the
tail meets its budget, and when it takes more occurrences than a ceiling allows.
*Correct when* the budget is exact, a refusal has one of these two reasons, each
occurrence is trained once and in order, and the ledger says so.

### 1.9 Benchmark families (six of fourteen modelled)

Each `executable_<family>.py` derives the expected result of a task twice, by a
primary derivation and an independent reference, and refuses to build a fixture
on which they differ.  *Correct when* they never differ and both are what the
task asks for.  Modelled: dependency DAG plan, bounded retry state machine,
collision-safe batch rename, process lifecycle delta, checksum repair plan,
hard-link deduplicated mirror.

### 1.10 Confirmatory analysis (partly modelled)

*Source* `statistics.py`, `confirmatory_analysis.py`: exact sign-flip p-values of
paired contrasts and Holm's step-down procedure over a family of them.
*Correct when* an effect that is not there is declared in at most a share alpha
of the equally likely worlds.

### 1.11 Not modelled

See section 6.

## 2. Modules

| Module | Stands for | Uses |
| --- | --- | --- |
| `CandidateProtocol` | frames, and the Python validator as `ValidResultBinding` | |
| `CandidateNamespace` | kernel and supervised program: processes, pipes, workspace, SIGKILL | `CandidateProtocol` |
| `CandidateSupervisor` | `main()` of the supervisor, composed with its namespace | `CandidateNamespace` |
| `CandidateContract` | abstract: what one supervised run promises its controller | |
| `CpuAccounting` | the CPU watcher in detail: wait4, the /proc scan entry by entry | |
| `SnapshotArchive` | the archive: the writer in C record by record, the parser in Python | |
| `LaunchController` | one launch: controller, client, manager, unit | |
| `LifecycleSupervisor` | the program-free supervisor, its scenarios, its decoder and its canary | |
| `FdSnapshot` | capture, use and release of the runtime's sealed descriptors | |
| `FixtureVerification` | the verification of a workspace that may be written to | |
| `ReportPublication` | calls of `atomic_publish_noreplace` on one path, crashes, other programs | |
| `DirectoryPublication` | publication of checkpoints and schedules at one destination | |
| `ReportRegister` | abstract: a write-once register, implemented by the two above | |
| `TokenSchedule` | from tokenized records to the optimizer's ledger | |
| `DagPlan`, `RetryMachine`, `BatchRename`, `ProcessDelta`, `RepairPlan`, `HardlinkMirror` | six benchmark families: primary derivation, reference | |
| `Ranking` | `sorted()` over keys that all differ: each element at the place its rank gives | |
| `ConfirmatoryFamily` | sign-flip p-values and Holm's procedure | |
| `MC*` | the instances TLC checks | |
| `*Proofs` | theorems about the module they are named after; `ObservationProofs` is about `FixtureVerification`, `FdSnapshot` and `CpuAccounting`, `OrderingProofs` about `DagPlan`, `TokenSchedule` and `ConfirmatoryFamily`, `FamilyProofs` about the other families | |

Operators whose comment begins with "Mutant:" are variants of the definition
that follows them, each wrong in the way a plausible bug would make it.  They
are used by nothing; substituting one for its original must break a property,
which is how each property was shown to be able to fail.

### 2.1 CandidateSupervisor

One action per system call (or group of calls with nothing observable between
them); `pc` is the place in `main`:

| Action | Code |
| --- | --- |
| `ParseRequest`, `Setup`, `Fork` | up to and including `fork`; a failure skips to `Measure` |
| `ReapChild`, `ReapNothing`, `ReapNoChild`, `ReapFails` | `reap_available`; the four ways wait4 returns. The same actions serve the main loop and the cleanup loop |
| `AccountCpu` | `live_namespace_cpu_usec` and the running maximum |
| `Decide` | clock, reasons to stop, `kill(-1, SIGKILL)`, cleanup deadline |
| `Poll`, `DrainStdout`, `DrainStderr`, `DrainReady` | poll and the `\|\|` chain of drains, with the loop test at its end |
| `Sweep`, `SweepClock` | the second cleanup after the loop |
| `FinalDrain`, `Measure` | last reads, closes, evidence flags, `sole_namespace_pid1` |
| `BuildWorkspaceSnapshot`, `WriteSnapshot` | the archive, and descriptor 5 |
| `Classify`, `WriteResult` | outcome precedence and the frame |
| `TerminationSignal`, `WallExpires`, `GraceExpires` | the asynchronous signal; the clock passing one of the three deadlines |

Variables have the names of the C locals.  `wall_expired`, `grace` and
`final_grace` replace the clock: all the code ever asks is whether a deadline
has passed.  `wait4_cpu` and `cumulative_cpu` count abstract units.  The
archive is a version of the workspace and a size; `SnapshotArchive` opens it.

The program (`CandidateNamespace`) may fork, orphan its children, wait, write,
close streams, change the workspace and exit in any order, before and after it
is doomed: a write that is already in the kernel completes although SIGKILL is
pending.  It can also refuse to die, for ever.

Which system calls may fail is the constant `Faults`, so that one run can ask
about a healthy system and another about a failing one.

### 2.2 CpuAccounting

`CandidateSupervisor` lets a scan return any amount up to its bound, which is
sound for everything it checks.  This module says what a scan can really
return: it reads one entry per step while processes burn time, fork, end, and
hand their time to the parent that waits for them, which may be at an earlier or
a later entry.  `Reading` rounds each field to whole ticks as /proc does.

### 2.3 SnapshotArchive

`snapshot_directory` is recursive; `frames` is its stack, one frame per open
directory with the names still to visit.  Each record is one action, which fits
in the buffer or marks it as overflowing.  `ParserAccepts` is what the Python
parser checks, clause by clause, `PreorderBefore` its order of paths.  Names are
sequences of bytes, because that is where an order of names and an order of
paths differ.

### 2.4 LaunchController

`pc` is the place in the launch; `ending` is the branch that called
`_terminate_and_reap`.  The environment is free: the client may exit with any
status at any time, its start request may lie at the manager (`queued`) and be
carried out later, unit processes fork, speak, close, write and exit as they
like, `UnitStops` is the manager doing what it was asked and `RuntimeLimit`
systemd's `RuntimeMaxSec`.  `LoopFails` and `Interrupt` raise at every step of
the body.  `late` remembers that a unit was started after the last check.

### 2.5 LifecycleSupervisor

The scenarios are scripts (`PrimaryScript`, `ScriptOfChild`) that the processes
run step by step; the supervisor has the shape of 2.1, with wall time as its
only limit and without an archive.  `Accepted` is the decoder's validation of
flags and outcome, `FixedResultValid` the canary's judgement.

### 2.6 FdSnapshot

`table` is the descriptor table of the whole process: a new descriptor takes any
free number, and `Close` closes whatever a number refers to by now.  `capture` is
the place in `snapshot_development_runtime_for_launch`; `Raise` is an error or
interrupt at any place of it, `Cleanup` its finally clauses, `Finalizer` the
finalizer of an object whose `__post_init__` failed.  Users are threads that
duplicate and close; tenants are the rest of the process; writers change the tree
and, through /proc, memfds that are not yet sealed.

### 2.7 FixtureVerification

A stable scan is `BeginScan`, one `ScanEntry` per file and collection, and a
comparison.  `Write` may happen between any two of them, may change a file and
change it back, and may even restore an earlier time stamp (`restored`), which is
the one thing the scans cannot see.

### 2.8 ReportPublication, DirectoryPublication, ReportRegister

A file is named by the call that created it; `Strangers` are other programs'
files.  `final` and `staged[p]` are directory entries, and so link counts are
counted from them (`Links`).  `durable_final` and `durable_staged` are the
entries as of the last fsync of the parent; after `PowerFailure` every entry may
have its present or its last durable value, and bytes that were not synced may
be torn.  The st_nlink, identity and content checks of the code are modelled;
the remaining fingerprint fields (times, owner, mode) only repeat that nobody
wrote into the file.  `Serialized` says whether callers obey the module's text,
"callers must serialize writers to one report directory".

`DirectoryPublication` has the same world with directories instead of files and
no link count: schedules and checkpoints use one rename.  A checkpoint's files
are read one by one, four times (`BeginPass`, `ReadFile`), while `WriteAgain` is
the exporter's thread.  Both modules implement `ReportRegister`.

### 2.9 TokenSchedule

The stages of one run: `Prefix`, `Window`, `TailSelect` per partition, then
`InterleaveNext`, `Pack`, `Materialize`, `Train`.  A record is its number of visible
tokens; the order of a cycle, which the code takes from a hash, is any order.
`Reach` and `ChosenTail` are the subset-sum table and its backtracking as coded.
A partition ends in one of two refusals: `unreachable`, when the table has no entry
for the remainder, and `ceiling`, when an append of the prefix or the tail has taken
more than `MaxOccurrences` (`MAX_SCHEDULE_OCCURRENCES_PER_PARTITION`).  As in the
code the ceiling is looked at after the append, and a choice from the window that
lifts a partition above it is not replaced by a shorter one.

### 2.10 Families and confirmatory analysis

The state of these modules is the input, chosen by `Init`, and the loop of the
derivation.  The reference is a second set of operators translated from the
second implementation.  The property says that both agree and that the result
is right in terms that neither uses: an order that respects every edge, a rename
that loses no file, events that lead from one snapshot to the other, a plan
that leaves nothing to repair, a mirror that is its own mirror.

`ConfirmatoryFamily` counts sign patterns: a p-value is a fraction of two counts.
`worlds` holds the p-values under every flip, so that the rate of false
rejections is computed over all equally likely worlds and not estimated.

### 2.11 MCSeparateParts

Twelve parts share no state with anything and are small enough for every bounded
input to be tried.  They are checked in one run: `Init` picks a part and an
input, the other parts' variables stay as they are (0, or as they begin), and each
part has its own actions and its own property.  All twelve are extended, so that TLC
also evaluates what the theorems (section 4) assume of the constants.

## 3. Runs

| Run | Instance | Checks | Distinct states |
| --- | --- | --- | --- |
| `verdicts` | candidate supervisor: 2 processes, caps 1, pipe of 1 byte, no failing calls, fairness of PID 1 and clock | `NoOutputLost`, `ErrorJustified`, `AlwaysAnswers` | 387,780 |
| `quiescence` | 3 processes, no output, 1 workspace change | `ReapedMeansEmpty`, `NothingEscapesTheKill`, `ContractSpec` | 599,324 |
| `faults` | 1 process, CPU limit 2, every system call but the clock may fail any number of times | `FrameAccepted`, `QuiescentVerdict`, `OwnEnd` | 2,070,059 |
| `report_serialized` | 2 calls in turn, 2 texts, 3 failing calls, 2 crashes | `NoTornReport`, `FailedCleanly`, `RegisterSpec` | 147,748 |
| `report_racing` | 3 calls at once, 2 texts, nothing fails | `RejectionJustified`, `RegisterSpec` | 46,588 |
| `report_strangers` | 2 calls at once, 2 intruders, 1 failing call | `StrangersUntouched` | 244,232 |
| `launch` | 1 launch, 2 unit processes, 2 contents | `AcceptedIsFinal`, `LeftReaped`, `OnlyLateUnitsOutlive`, `EverythingEnds` | 884,892 |
| `directory_publication` | a checkpoint, a schedule and a stranger, 2 model files, 2 failing calls, 1 interrupt, 1 crash | `PublishedIsWhole`, `FailureAccounted`, `NeverTakenBack`, `RegisterSpec` | 663,943 |
| `lifecycle_verdicts` | nine scenarios, failing calls of every kind but `read` | `RefusedOnlyForTwo`, `UndisturbedPasses`, `PassedMeansPlayed`, `Answers` | 174,668 |
| `separate_parts` | twelve parts, see below | one property per part (two for the schedule) | 1,141,124 |
| `lifecycle_frames` | nine scenarios, nothing fails | `FrameAccepted`: violated | |
| `descriptors` | 2 files, 2 threads, 1 tenant, 5 numbers, 2 writes | `DescriptorsKept`: violated | |

In `separate_parts`:

| Part | Instance | Property |
| --- | --- | --- |
| DAG plan | every graph of 4 nodes with up to 4 edges, 2 priorities, 5 policies | `PlanRight` |
| retry machine | 4 shapes, 5 policies, every ledger up to 3 attempts (2 in the loop) | `RetryRight` |
| batch rename | up to 3 files in 2 directories, 4 names, 2 contents, all rules and policies | `RenameRight` |
| process delta | 2 PIDs, 2 snapshots, every kind of observation | `DeltaRight` |
| repair plan | up to 2 records, assets under 3 paths, all policies | `RepairRight` |
| mirror | 3 names, 2 suffixes, 2 values of each attribute, all keys and policies | `MirrorRight` |
| verification | 1 input, 1 output, 1 name that must be absent, 2 writes | `VerdictRight` |
| schedule | all widths of 2 records per partition, 3 budgets each, a ceiling of 4 occurrences | `ScheduleRight`, `TrainedOnce` |
| CPU watcher | 3 processes, 3 units of CPU, ticks of 2 | `CpuRight` |
| archive | every workspace of up to 4 of 7 paths with 7 kinds of entries, 3 caps | `ArchiveRight` |
| confirmatory family | 2 contrasts of 4 units, 3 scores, 3 alternatives | `FamilyRight` |
| descriptors | 2 files, 2 threads, 1 tenant, 4 numbers, 2 writes | `SnapshotRight` |

Why these bounds are enough for the cases that matter:

- *Processes.* Two give a descendant that outlives, orphans or holds the streams
  of the primary; three give an orphan of an orphan and two processes in
  different states when the kill arrives.  The theorems cover any number.
- *Caps and pipes.* Cap 1 means: nothing, exactly the cap, one byte too many.  A
  pipe of one byte is refilled between drains, and output can be waiting when the
  loop ends.
- *Archive.* In the core, `ArchiveSizes` goes from the smallest archive to two
  bytes beyond the cap.  In `SnapshotArchive` caps of 6, 16 and 17 cut every tree,
  fit an archive of four entries to the byte, and leave one byte more; each other
  limit is reached and passed by some tree; and `a.` sorts between `a` and what
  `a` holds when whole paths are compared, which is where two orders could differ.
- *CPU.* In `faults` one unit per wait4 and per scan reaches the limit of 2 in the
  loop, in the cleanup, or not at all.
- *Faults.* In `faults` each call may fail at each of its places, so every
  combination occurs; one process keeps that run small, which the other runs
  make up for.  `quiescence` has no output because its properties do not read any.
- *Publication.* Three failing calls reach a failure, a failure of its rollback
  and a failure of the cleanup after that; two crashes give a power failure after
  a killed call, or during a later one.  Two calls suffice in turn: the second
  meets everything the first can leave.  Racing needs three to have a reader
  between two writers.  Two model files let a write fall between the reading of
  one and of the other.
- *Launch.* Two unit processes let one end while the other holds the pipes; the
  manager's queue holds the one request a client can make.
- *Schedules.* The budgets are met by the prefix alone, by one, two or three
  occurrences of the window, or by none; sequences of 4 hold records exactly, with
  room, or not at all.  With a ceiling of 4 the largest budget is refused in the
  prefix (records of one token), after the tail (records of one and two), in either
  partition, or accepted.
- *Families.* Four nodes hold a cycle with a node that only waits for it, a
  diamond and two separate chains.  Two records suffice for one path named twice;
  three names for a group of two and one that nearly belongs to it.
- *Statistics.* With four units the smallest p-value is 1/16 or 1/8, and with
  alpha = 1/4 and two contrasts the value 1/8 is exactly Holm's first threshold, so that
  a strict comparison would show.
- *Descriptors.* Two files give a slot that is captured and one that is not;
  numbers are scarce, so that each is reused at once.
- *Symmetry.* Calls, strangers, texts and records are interchangeable and only
  safety is checked on those instances.

Deadlock is checked where a program goes on for ever: in the runs of the candidate
supervisor and of the reports the states in which everything is over stutter
explicitly.  In the others the call, the unit or the derivation really ends, and
the configuration says `CHECK_DEADLOCK FALSE`.

*Fairness.* `FairSpec` (candidate supervisor) and `LifecycleSpec`: PID 1 is scheduled
and the monotonic clock passes its deadlines.  Both are what the code itself
relies on: in the loops it never blocks in anything but `poll` with a timeout,
and it reads the clock in every turn.  Before and after the loops it reads its
request and writes the archive and the frame with blocking calls, so
`WF(Supervisor)` also says that the controller sends the request and takes what is
written.  Nothing is assumed of the program: it may run for ever, never close a
stream and survive SIGKILL in an uninterruptible sleep.  `LaunchController`: the controller
is scheduled (once the request is written its waits all have timeouts, `Deadline` and
`ReapWait` are part of it), the manager starts what was asked for, enforces
`RuntimeMaxSec` and stops what it decided to stop.  Nothing is assumed of the
unit's processes, nor of the client once it has the request.

### What the runs show

- In a healthy system the C program and the Python validator agree on every
  frame: no race between limits, overflow, signals and cleanup produces a frame
  the validator rejects, and an error has one of three causes (`ErrorJustified`):
  asked to stop, never confined, or a cleanup deadline passed.
- A verdict is about a finished world (`QuiescentVerdict`), under every fault.
- The CPU total never exceeds what was used.  It can fall short in two ways, both
  stated by the property: while somebody is waited for during a scan, and for good
  when a parent ignores SIGCHLD, since the kernel then credits the time to nobody.
- Writer and parser of the archive agree on every tree.  Two differences are
  harmless: a special file below the depth limit is reported as an overflow, not as
  an error; and names or links the parser refuses are written all the same, so
  such a workspace is refused later and not marked.
- Publication of reports is a write-once register in turn, whatever fails; and
  with racing callers as long as nothing fails.  With both, it is not: a call that
  fails late takes its report back although another call has accepted it.  That is
  the case the module's text excludes, so it is a hazard and not a defect.
- A call killed between its link and the removal of its temporary name leaves a
  report with two links.  All later calls on that path are rejected until
  somebody removes the temporary name; the register allows the rejection.
- Directories are a register even for racing calls under every fault: the rename
  is the only step that can be seen, and nothing is taken back after it.  The records
  are fsynced before it; entries of the staging directory and exported model files
  never are, so the durability the register states is that of the records and of
  the name.
- An accepted launch is final.  A unit can outlive its launch in one way: the
  manager starts it after the quiescence check found nothing, because the client's
  request was still waiting; then only `RuntimeMaxSec` ends it.  An interrupt after the
  client has ended is likewise not followed by a clean-up.
- A workspace that passes was right at some moment as a whole unless a writer set a
  time stamp back.  Collecting each scan twice is not needed for that: the
  final scans alone give it.
- What passes the lifecycle canary was played, with one reservation: the "zombie"
  scenario can pass although its descendant was killed before it became one, since
  the sleep that is to give it time is only a delay.
- A quarantine plan can move away a file on which a second, correct record of the same
  path relies (`RepairRight` allows exactly this).  A mirror may split names that
  were one file in the source, if the key looks at suffixes or groups.

### Findings

- `lifecycle_frames`.  If the deadline kills the child before its readiness byte, PID 1
  reports SUPERVISOR_ERROR with the flag TIMED_OUT; if the flood overflows in the
  turn in which the deadline passed, it reports STDOUT_OVERFLOW with that flag.  The
  decoder refuses both ("supervisor_error cannot relabel a timeout or stream overflow",
  `development_supervisor_protocol.py:428`), and a test pins the refusal, so
  a clean timeout is lost as a protocol error.  `RefusedOnlyForTwo` shows that this is
  the only reason for which a frame is ever refused.
- `descriptors`.  When the verification in `__post_init__` of a new
  `DevelopmentRuntimeFdSnapshot` fails or is interrupted, the function's finally
  clause closes the captured descriptors, and the finalizer of the half-built object,
  which already owns them, closes the same numbers again.  In between another thread
  may have been given one of them.  The counterexample has 17 steps; `close()` promises
  to "Release every owned descriptor exactly once", and the constructor's tests
  replace `_construct_snapshot`, so that no half-built object exists in them.
  `SnapshotRight` shows that this is the only way a descriptor is lost to
  somebody else's close.

Two observations that no property states, because no text of the repository denies
them.  A `read` error on a stream that persists would keep the lifecycle
supervisor's main loop turning for ever once every process is reaped, since its
cleanup deadline is tested only before that (in the model `read` does not fail).
And noninferiority compares strictly in `statistics.py`
(`noninferiority_from_interval`) but not in `claim_acceptance.py`
(`_endpoint_decision`).

## 4. Theorems

| Theorem | Says |
| --- | --- |
| `CandidateSupervisorProofs`: `TypeCorrect`, `InvCorrect` | types; the inductive invariant `IInv` |
| `ReapedMeansEmptyCorrect`, `NothingEscapesTheKillCorrect`, `QuiescentVerdictCorrect` | the safety properties of `quiescence` and the first of `faults` |
| `ContractCorrect` | `Spec => ContractSpec`: the supervisor implements `CandidateContract` |
| `FrameAcceptedCorrect` | the validator accepts every frame, if the clock can be read |
| `NoOutputLostCorrect`, `OwnEndCorrect`, `ErrorJustifiedCorrect` | what a verdict says of the run, whatever fails |
| `ReportPublicationProofs`: `TypeCorrect`, `DirectoryCorrect` | types; the inductive invariant `DirectoryInv` |
| `NoTornReportCorrect`, `StrangersUntouchedCorrect` | for racing calls too |
| `RegisterCorrect` | calls in turn implement `ReportRegister` |
| `FailedCleanlyCorrect` | calls in turn clean up when they fail |
| `RejectionJustifiedCorrect`, `RacingRegisterCorrect` | racing calls without failures |
| `LaunchControllerProofs`: `LaunchTypes` | types |
| `ClientReaped`, `OutlivesOnlyLate`, `AcceptanceFinal` | the three safety properties of `launch` |
| `DirectoryPublicationProofs`: `DirectoryTypes` | types |
| `PublishedWhole`, `FailuresAccounted`, `NothingTakenBack` | the invariants and the action property of `directory_publication` |
| `DirectoryIsRegister` | directories implement `ReportRegister`, for racing calls and with every failure |
| `LifecycleSupervisorProofs`: `RefusedOnlyForTwoCorrect` | the decoder refuses a frame only for a second incident in it |
| `PassedMeansPlayedCorrect` | the canary accepts a result only if its scenario was played to the end |
| `UndisturbedPassesCorrect` | a scenario that nothing disturbs is accepted |
| `ObservationProofs`: `VerdictRightCorrect` | a workspace that passes was right as a whole, for any files and any number of writes |
| `SnapshotRightCorrect` | no descriptor of the snapshot is forged, left behind or (but for the finding) taken from somebody else |
| `CpuRightCorrect` | the CPU watcher counts nothing twice and misses nothing but what the kernel drops or a tick rounds off |
| `OrderingProofs`: `PlanIsSound` | a plan is a topological order, what is left over can never start |
| `PlanRightCorrect` | the planner's answer is the reference's for every graph and policy, and the cyclic nodes are those that wait for themselves |
| `ScheduleRightCorrect` | a selection has exactly its budget and stays within the ceiling; it is refused only if the window cannot meet the budget or the ceiling is exceeded, which a budget of at most the ceiling never does; and the interleaving keeps the shares |
| `TrainedOnceCorrect` | what is trained is what was selected, and the validator accepts the ledger |
| `FamiliesRight` | the confirmatory family's error is at most alpha whichever contrasts have no effect, and Holm's two answers agree |
| `FamilyProofs`: `RepairsRight` | both repair plans agree; a plan carried out settles what its policy is about |
| `MirrorsRight` | both mirrors agree; a mirror is its own mirror |
| `RenamesRight` | both rename plans agree; one file per destination, and no content lost |
| `RetriesRight` | the run and the reference report the same; a compensation answers for a failure |
| `DeltasRight` | the merge of two sorted lists reports what the derivation over dictionaries does; the events replay |

They hold for all values of the constants that satisfy the named assumptions
(`RequestAssumption`, `NamespaceAssumption`, `FaultsAssumption`,
`PublicationAssumption`, `LaunchAssumption`, `DirectoryAssumption`,
`ScenarioAssumption`, `VerificationAssumption`, `SnapshotAssumption`,
`AccountingAssumption`, `DagAssumption`, `ScheduleAssumption`, `RepairAssumption`,
`MirrorAssumption`, `RenameAssumption`, `RetryAssumption`,
`DeltaAssumption`, `FamilyAssumption`), which only give the constants their types: caps,
limits and ticks are positive, as the request parser requires, names do not collide,
scenarios are those of the C enum, the files of a workspace are listed without
repetition, with the oracle's outputs outside `input/`, the sizes of a schedule are
positive, with a reserve of at least one sequence, as `validate_token_schedule_config`
requires, paths are ordered as byte strings are, strictly and totally, and alpha is a
fraction between 0 and 1, without these, as `_validate_probability` requires.

**Supervisor.** "No child" does not obviously mean "no process".
`ReapedMeansEmpty` is not inductive: the step that sets `all_reaped` knows only
that no process is a child of PID 1.  `FamilyTree` closes the gap: parents are
older than their children and alive (or PID 1), because an exit hands its
children over in the same step.  By well-founded induction on birth numbers
the oldest process present is then a child of PID 1 (`OldestIsMine`).
`Progress` ties flags to the place in `main` (nothing is terminating before the
fork, an archive is made only after `all_reaped`), and `ArchiveTrue` carries
"this is the workspace" from the image over descriptor 5 to the frame.
`IInv` is the conjunction, with `NothingEscapesTheKill`: after the kill nobody
is left who can fork.  `ContractCorrect` follows from `IInv` by cases on `Next`.

**Frames.** `FrameAccepted` needs the evidence that leads to a frame:
`CaptureInv` (overflow is exactly cap + 1 bytes), `LimitInv` (a limit flag has its
cause), `SetupInv`, `MeasuredInv` and `ImageInv` (which flags can be there at which
place).  From these, `ResultFrameValid` derives each clause of the validator,
and `FrameInv` keeps it.  The hypothesis `"clock" \notin Faults` is needed:
if `clock_gettime` fails the program sets the wall flag with a wall time of 0,
which the validator refuses.  On Linux that call does not fail.

**Verdicts.** `Truth` follows what `main` remembers of its run.  The primary is
killed only for a reason in `Remembered`, and none of these locals is ever reset
(`KillInv`); without an error the second cleanup has nothing left to do and both
streams are closed (`SweepInv`), each either empty or overflowed (`StreamInv`); what
is remembered is in the flags when `classify_outcome` reads them (`FlagInv`).  So a
frame without an error dropped no output and a program that was killed is not
reported as ended on its own.  For the converse, `CauseInv` says that an error has
one of three causes, in a form that lasts (`Excused`: a confined program stays
confined, an expired deadline stays expired); `ReadyInv` follows the readiness byte
from the child to PID 1, and `QuietInv` rules out every other origin of an error when
no call fails.

**Lifecycle frames.** The older decoder has a simpler program in front of it, and
the theorem is weaker because it has to be: `FrameAccepted` is false there.
`Captures` says that an overflow flag is the count; `PrimaryKnown` that what PID 1
has recorded of its primary is what happened to it.  With both, every clause of
the decoder but the one on two incidents follows (`WrittenIsRefusedOnlyForTwo`).

**Lifecycle verdicts.** `Played` is a place in a script: every process born is at a
suffix of the script of its scenario, and who has been born, who was told of
the daemon and who is still there follow from those suffixes (`Births`, `Told`, `Family`).
`Told` has to be an equivalence: with the direction that the property uses alone, a
primary could wait for a daemon that has been there for long.  With `Counted` (the frame
counts exactly those waited for) a frame that says "two descendants, nobody left" can
only come from a script that was run to its end.  In the other direction, `Sound` says of a run
that nothing has disturbed (`~Disturbed`) that what is still missing is on
its way: a byte of output is read, in the pipe or ahead in the script (`Bytes`), so is the
readiness byte (`Announced`), and whoever is killed is killed for the scenario's own
cause (`Sentenced`).  It is inductive only together with two facts that hold in disturbed
runs too: a deadline is armed once (`Timers`), and nobody writes before the
readiness byte (`Mute`).

**Verification.** No scan sees two files at the same time, so the witness, the moment
at which everything was right, has to be named.  It is the end of the output scan.
`Bracketed` says that at that moment the tree was right, or it is already certain that
some later scan will not see what was seen before (`Doomed`): since stamps only
grow (`World`), what has changed never looks the same again unless a writer restored
a stamp.  A file that is absent has no stamp; for it the root's own stamp
counts, which is read before and after each scan (`AbsentKept`).  `Accurate` and
`Unwritten` give the other two parts of `VerdictRight`.

**Descriptors.** The numbers in `captured`, `owned` and each user's `mine` are disjoint and
each refers to the memfd its holder believes it to be (`CaptureInv`, `ObjectInv`, `UsersInv`);
every open memfd is among them (`NoLeak`).  So each close hits its own, except when an
object whose verification failed still names what the capture has closed: that is the
exception in `TenantsInv`, and the finding.

**CPU.** `NothingLost`: every unit used is with PID 1, with a process that is there, or
dropped by the kernel.  `ScanInv` says that a scan never counts twice, although time moves
between entries while it reads: it moves from a child to the parent that waits, which
`FamilyTree` shows to be older and so at an earlier entry, against the direction of the
scan.  It can be missed, never met again.  `QuietInv` bounds what is missed when nobody waits
by what two fields lose to rounding (`Slack`), per process listed.  A sum over processes is
expressed as the cardinality of a set of `Units`: the laws of a recursive sum would
have to be proved first, whereas cardinalities of disjoint unions are in the library.

**Publication of reports.** `DirectoryInv` says that every temporary name holds
its own file, nothing, or a stranger's (`OwnNames`); that a file is linked only
when its bytes are durable and nobody will write to it again (`SafeLinks`); that
between a stat and its unlink the name still means the same (`Aimed`).
`NoTornReport` is `SafeLinks`; `StrangersUntouched` is `Aimed`.

**Register.** `RegisterCorrect` needs more: one call at a time (`OneAtATime`), a
name that holds a stranger's file is durable (`OursOnly`), whoever can still roll
back has been believed by nobody (`NobodyBelieves`), an accepted report is durable
(`Claims`), and a call about to return has read its own text (`Looked`).
`os.link` maps to `Publish`, the rollback's unlink to `Withdraw`, the return to
`Accept`, a raise to `Fail`, a kill or a power failure to `Outage`; everything
else stutters.  The hypothesis `Turns` is the module's own rule (and that no
other program renames files over the two names).

**Failed calls.** `Ending` says of a call that has published that its file is in place
until it takes it back, that it starts to do so only after a failing call, and that
past the rollback, with no further failure, the file is gone from the directory and
from the disk (`Gone`); a call that fails in its very last sync leaves it `Settled`.
Both survive every later call and every crash.

**Racing calls.** `Peace` holds as long as nothing has failed, crashed or interfered
(`Quiet`): whoever linked succeeds; everybody else finds a report in its place that
never changes again, and either trusts it, having read its own text under a single
name (`Alone`), or is turned away by another text or, if callers race, by a second
name.  `Rule` is used where callers take turns: a report with two names then belongs
to a caller that is still active, which contradicts it.

**Publication of directories.** A checkpoint's tensor hash is taken from files that
the exporter's thread may still be writing.  `Settled` says why it is right all
the same: versions only grow, so a version declared before the hash lies below
the hashed one, which lies below the present one; what is found again after the
hash was therefore there during it.  `Placed` carries this over the rename,
`Staged` says where a staging directory can be, `Undone` that a call which renamed
still stands at the destination unless there was a crash.  For the register,
`Believed`: a call that has returned stands at the destination on the disk as well,
so that a power failure changes only what nobody was told.

**Launch.** `ClientInv` places the client: past the clean-up it has been collected
or was never started, whichever branch led there.  `UnitInv` is `Checked` (`verified`
and a unit that is inactive or was started late) at every place after the check.
`AcceptInv` says that from sealing on the sink is what was read twice, that the
workspace is the snapshot from the comparison on, and, since only a captured
launch gets there, that a claimed frame comes from a unit that is gone.

**DAG plan.** `Books` says what the loop's two variables mean (a node's indegree is
the number of prerequisites that still wait; the ready nodes are those left that
have none), `Order` that the list so far respects the edges.  `NotEntered` gives
the other half: a set of nodes each of which waits for another one of the set is
never entered, so that the residual is the largest such set, and the plan is as
long as any plan can be.  The planner is compared with the reference in `Exact`.
It says that the depth of a node is the length of the longest chain of completed
prerequisites (`DepthsTrue`) and that each node selected was the first, by the depths of
*now*, of those that could have been selected *then* (`Chosen`).  It is inductive because a
node whose prerequisites are completed keeps its depth for good, and so its key;
at the end it makes the planner's list the only one the reference can build, since
`Precedes` is a total order (`OneFirst`).

The reference's loops are recursive functions, and what they compute needs induction over
the number of nodes.  The library's induction theorems take an operator, which the
provers cannot instantiate; `Induction` is stated with a set instead, `Recursion` with a function that
gives each step, and both are proved from the well-foundedness of `<`.  `Saturation` (a
set that only grows within the nodes is stable after `NodeCount` rounds) then says why
the peeling and the search come to their fixpoints, whereas the closure of
`_reference_cyclic_nodes` needs the usual argument about the largest intermediate node.

**Token schedule.** The model's loops are folds, as the code's are.  A fold is expanded
by its definition into a recursive function, and `Recursion` gives its steps; `Ends` is the
value after so many of them, so that facts about folds (`StepsAgree`, `OneStep`, `SumLaws`)
are stated once for the sums, the concatenation of packs and the table.  In the
table of subset sums an entry `k` is a candidate that ends a selection of width `s` from
the first `k`: `ReachedLeads` says that going back along the entries ends at
0 with ever smaller candidates, `ReachedCovers` that every selection's width is in the
table.  The first makes the tail that `ChosenTail` reads off right, the second makes a
missing entry a proof that there is none.  `SelectionInv` then says what a partition has while
it is selected (`Selecting`: a beginning of the stream, the window after it, and less
than reserve and sequence still missing once the window is open), when it is refused at
the ceiling (`Excessive`) and afterwards (`Finished`).  An occurrence has at least one token
(`TotalAtLeast`), so more occurrences than the ceiling need a budget above it.
`OrderInv` says that what is placed is a beginning of what was selected, and `SharesInv`
that the shares are even: the one that is behind moves, and by at most one sequence.  It
holds only while both have some left, since afterwards the rest of one follows.

`PackInv` says that the packs, put together, are the first places of the order, and that
the first of each did not fit the one before.  `LedgerInv` relates a row to the
packs: its cumulative width is that of the packs up to `Edge`, the last pack of its
update.  `UpdatesCover` is the arithmetic of the two ceilings (sequences to
microbatches to updates): every update before the last is full and the last one is
not empty.  Together these give the two things that `Train` could fail on, a row without a
token and totals that differ at the end, and the clauses of the validator.

**Sorted lists.** `Ranked` gives each element the place that the number of elements before
it says.  `RankTaken` shows that every place is taken (by `Induction`: the elements
before the last one are one fewer), so that the `CHOOSE` in `Ranked` picks the one element of
that rank; `Ranks` and `InOrder` turn this into what the families use: a sorted list holds
each element once, and an earlier element is before a later one.  `FlattenHolds` says what a
concatenation of lists holds.

**Repair plan.** `DerivePlan` reads parameters that do not change, so the invariant is that
the plan is what it derives (`RepairInv`); the work is in what that means.
`ClassifyAgrees` compares the two classifications for any tree, `DerivationsAgree` the plans.
For a plan that is carried out, `AfterHolds` says which records the manifest has then,
`AssetsStay` which assets are left, and `EntriesBecome` what each entry is in the next plan.  The proof needed guards that exclude
each other in `Classify`, `PlanState` and `ReferenceAction`: the first translation had overlapping
`CASE` arms, of which TLC takes the first, as the code does, but of which the semantics of
TLA+ choose any.

**Mirror.** The code partitions the names by the key, the reference sorts all names by key
and preference and cuts the list where the key changes.  `KeysOrdered` makes that sort
total, `RunIsClass` says that a run of one key is a class of the partition and begins with
its owner, `ReferenceAgrees` that both trees are one.  `SameKeySameBytes` gives the
contents; and a mirror mirrored is itself (`MirrorAgain`) because every member has its
owner's attributes by then, which leave the key as it was (`KeyIs`).

**Rename.** The loop decides group by group, the reference file by file.  `RenameInv` says
that what has been decided is what the reference decides about the files settled so far, and
that each destination's representative is the group's winner.  `GroupSays` describes a sorted
group without the sort: its length is the number of peers, its first and last are the
least and greatest.

**Retries.** The machine chooses rows as it goes; the reference is a function of the rows
found so far, and looks at visits the machine has not come to.  What makes the two comparable is that a
visit that is over never changes (`VisitStays`: all the rows it looks at have been found), so
that neither do the agenda's places up to the next one (`AgendaStays`).  `RetryInv` says of
a run under way where it is: `Forward(m)`, at place m + 1 of the agenda, all visits
before it successes, or `Backward(m)`, at the compensation for the failed visit m; and
that nothing else has been looked up (`Under`).  `VisitOver` and `VisitMissing` say that the
reference's visit is the one recorded, `OnwardIs` that the machine's next state is the
agenda's next place, `EndsHere` and `EndsBack` what the reference then reports.

**Lifecycle deltas.** `DeltaInv` says that the loop of the reference is the primary derivation
cut short: for some m, the events so far are those of the first m PIDs in order (`Merged`),
and a row of either side has been passed exactly if its PID is among those m.  The next PID is
then the smaller of the two heads, and belongs to the sides whose head it is (`NextTaken`), so
each of the three branches of the merge reports what the dictionaries say of that PID
(`MergeTakes`).  When both lists are at their end, m is the number of PIDs (`AllTaken`).  That the
events replay is a law of the derivation: after m PIDs the table is that of the later snapshot
for those PIDs and that of the earlier one for the others (`StagesTold`, by `Induction` over m,
one PID's events at a time in `ToldShare`).

**Confirmatory family.** `FamiliesRight` is Holm's theorem for the code's procedure and
its exact p-values, for any number of contrasts and units.  `FamilyInv` says that a report is
worked out from the scores; the rest is about what that means.  `PValueIs`: leaving out the
units without a difference and counting the patterns of the others gives the same share as
counting all patterns (`NonzeroWays`), although the two fractions differ.  `FlippedWays`: the
totals that a contrast's scores reach do not depend on the signs they came with, so the share of
the signs with a p-value of at most a / b is at most a / b (`LevelHolds`: among those
signs take the one with the most patterns beyond it; all of them are beyond it
themselves).  `HolmJudges` turns the fold into
sequences of running maxima and decisions, which gives both parts: a hypothesis is rejected iff
its adjusted value is at most alpha (`DecisionsAgree`, which needs alpha below 1 because of the
cap), and if one of K is rejected, one of K has a p-value of at most alpha over the size of K
(`FirstOfThem`: before the first of K that is judged there are only others).  `Margin` carries
`LevelHolds` from the signs of one contrast to the worlds, and `UnionBound` adds up K's
contrasts.  Inductions over sequences are inductions over their length with a set in the place of
the predicate (`ScoresInduction`).

### Only model-checked

- `AlwaysAnswers`, `Answers`, `EverythingEnds`: liveness under fairness.
- `DescriptorsKept` and the older decoder's `FrameAccepted`: violated, see section 3.
- `ArchiveRight`: it needs an induction over the stack with which the archive is walked, and
  one over the tree.

## 5. Abstractions and limits

- Byte formats, SHA-256, nonces, the seccomp filter, rlimits and (outside
  `FdSnapshot`) descriptor numbers are not modelled.  A digest is represented by
  what it is a digest of.
- In `CpuAccounting` PIDs are issued in ascending order and do not wrap around
  during a run, and readdir of /proc lists them in that order.  User and system time
  are one number, so a process has two fields that are rounded (its own, its
  children's) where /proc has four: the code's sum may fall short by up to four
  ticks per process, the model's by two.
- The candidate supervisor's cleanup deadline is tested in the main loop only while
  not everything is reaped (line 1932).  A stream whose reads go on failing after
  that is never closed, and the loop goes on.  `AlwaysAnswers` is checked without
  failing calls and does not say that this ends.
- `reap_available` loops while anything is collectable.  Births are bounded in
  every instance (`MaxProcs`), so a program that produces orphans for ever faster
  than they are reaped is outside the model; the cgroup limits how many live at a
  time, not how many are born.
- `ReportPublication` starts from an existing parent directory.  Missing parents
  are created without a sync of the directory above them, so the durability that
  `ReportRegister` promises is that of the entry in an existing directory.
  Checks of the parent path are modelled as calls that may fail.
- Other programs do not act in the two stat-to-unlink intervals, which the
  module's text excludes, and do not write into a file the code has linked.
- `DirectoryPublication`: what a checkpoint's records say besides hashes is left out;
  the validation of its ledger is in `TokenSchedule`, where the ledger is.
- `LaunchController` starts after the scope's preparation (runtime, argument vector,
  the sink's creation) and takes the frame's validation from `CandidateProtocol`
  as one bit: a frame is right or not.  The write of the request to the client's
  stdin (line 1048) blocks without a timeout; in the model it is part of the start
  and returns, so `EverythingEnds` supposes that the client takes the request or ends.
- In `LifecycleSupervisor` `read` does not fail (see the end of section 3), and a
  stream carries one of the scenario's outputs, counted in units of the cap.
- `FdSnapshot` leaves out descriptors that live only within one function, file modes
  and the kernel identity checks of directories.
- `FixtureVerification` has files directly below the workspace: no subdirectories,
  symbolic links or size limits.  Time stamps tell two versions of a file apart
  unless a writer restored them.
- `TokenSchedule`: the cycle's order, a keyed hash in the code, may be any order, and
  records of a partition differ only in their length.  Refusals for what the model
  leaves out (labels without a supervised token, losses that are not finite, files
  that change or exceed their size limits) are left out with it.
- `ConfirmatoryFamily` has the exact mode only, not the Monte Carlo one, and exact
  fractions where the code divides floating-point numbers.  For two contrasts the two
  coincide; for three or more the code rounds alpha / 3 and 3 p, so at equality with a
  threshold its answers may differ from the model's.
- In the families a digest, a name or a time is a small number, and the parsers of
  their input files and the generators of their fixtures are left out.

## 6. Not modelled, and what is left of the plan

| Component | Why |
| --- | --- |
| invocation, executor and sandbox | validation of values; the executor refuses to execute anything at this commit |
| campaign registry, specs and manifests, claim acceptance | immutable records with checks of their fields; no state survives a call |
| static families, tranche catalogs, coverage registries | tables, and tests that a table holds what another one names |
| corpus, audits, benchmark import, command line | single-threaded I/O.  `training_corpus.py` and `training_source_audit.py` publish a staged directory by the same calls in the same order as `DirectoryPublication` |
| the eight other executable families, fixtures of the static ones | the same shape as those modelled: derive twice, refuse to disagree.  The largest (enrichment of JSON lines, schema migration) are parsers of a format, where a model would be a second parser |
| building the runtime, the namespace canary, preflights, the fd-handoff canary | one sequence of calls whose failure ends it; their process control is that of `LaunchController` |
| bootstrap and Monte Carlo statistics | claims about distributions, not about reachable states |

Most of the repository's lines are in these parts, which is why the share of
lines that the models translate is small although the parts where processes,
callers, crashes and time meet are nearly all modelled.

Left of the plan:

1. A theorem for the invariant that section 4 lists as only model-checked: that the archive's
   entries and its stack together are the preorder of the tree.
2. More families, in the order in which a derivation keeps state: schema migration,
   then enrichment.
