---------------------------- MODULE MCSeparateParts ----------------------------
(***************************************************************************)
(* The parts of the repository that share nothing and that a small instance *)
(* covers: the CPU watcher, the workspace archive, the runtime's sealed      *)
(* descriptors, the token schedule, six benchmark families, the             *)
(* verification of a fixture's workspace and the judgement of a             *)
(* confirmatory family.  Init chooses one of them and an input of it, and   *)
(* it runs alone.                                                          *)
(***************************************************************************)
EXTENDS Integers, Sequences, FiniteSets, TLC,
        DagPlan, RetryMachine, BatchRename, ProcessDelta, RepairPlan, HardlinkMirror,
        TokenSchedule, FixtureVerification, FdSnapshot, CpuAccounting, SnapshotArchive,
        ConfirmatoryFamily

VARIABLE part

(* Tasks are declared in another order than their names have.              *)
RotatedOrders == {[n \in 1 .. NodeCount |-> 1 + (n % NodeCount)]}

(* Caps of three attempts; of two in the loop, which has six visits.       *)
Attempts ==
  [m \in {"linear", "branching", "compensating"} |-> 3] @@ ("cyclic-bounded" :> 2)

(* Files in two directories, with four names. *)
Name(upper, extension) == [stem |-> "a", upper |-> upper, extension |-> extension]
FourNames == <<Name(TRUE, "md"), Name(FALSE, ""), Name(FALSE, "md"), Name(FALSE, "txt")>>
TwoNames == {Name(FALSE, ""), Name(FALSE, "md")}

(* Resources below and at the threshold. *)
FieldValues == [state : {0}, rss_kib : 0 .. 2] \cup [state : {1}, rss_kib : {0}]

(* One input, one declared output and one name that must stay absent; two   *)
(* writes.                                                                 *)
InputNames == <<"in">>
OutsideNames == <<"out", "stray">>
DeclaredNames == <<"out">>
LooksOfNames ==
  [f \in {"in", "out", "stray"} |->
     CASE f = "in"    -> {"good", "wrong"}
       [] f = "out"   -> {"good", "bad_mode", "wrong", "malformed", "absent"}
       [] f = "stray" -> {"good", "absent"}]

(* Workspaces of up to four entries.  "a." sorts after "a" and before what  *)
(* "a" holds when whole paths are compared; the caps cut every tree, fit an  *)
(* archive of four entries to the byte, and leave one byte more.           *)
Plain == <<2>>
Dotted == <<2, 0>>
Input == <<3>>
Odd == <<4>>
WorkspacePaths == {<<Input>>, <<Input, Plain>>, <<Plain>>, <<Plain, Input>>,
                   <<Plain, Input, Plain>>, <<Plain, Odd>>, <<Dotted>>}
Entry(kind, size, safe) == [kind |-> kind, size |-> size, safe |-> safe]
WorkspaceEntries ==
  {Entry("directory", 0, TRUE), Entry("special", 0, TRUE)}
    \cup {Entry("regular", size, TRUE) : size \in {1, 3}}
    \cup {Entry("symlink", 1, TRUE), Entry("symlink", 2, TRUE), Entry("symlink", 1, FALSE)}
Above(path) == SubSeq(path, 1, Len(path) - 1)
Workspaces ==
  LET rooted == {s \in SUBSET WorkspacePaths :
                   /\ Cardinality(s) <= 4
                   /\ \A path \in s : Len(path) > 1 => Above(path) \in s}
  IN UNION {{t \in [s -> WorkspaceEntries] :
               \A path \in s : Len(path) > 1 => t[Above(path)].kind = "directory"} :
            s \in rooted}
UnsafeName == {Odd}
ByteCaps == {6, 16, 17}

(* Four units a contrast; with alpha = 1/4 the smallest p-value is exactly  *)
(* Holm's first threshold.                                                 *)
UnitScores == {-1, 0, 2}
AscendingScores ==
  {s \in [1 .. 4 -> UnitScores] : \A i \in 1 .. 3 : s[i] <= s[i + 1]}
TwoContrasts == <<"compression", "fixed_size">>

(* A directory and two other names.                                        *)
AssetPaths == {<<1>>, <<2>>, <<2, 1>>}
AssetBefore(p, q) == p[1] < q[1] \/ (p[1] = q[1] /\ Len(p) < Len(q))

(* Three names, the last with another suffix.                              *)
ThreeSuffixes == <<1, 1, 2>>

Symmetry == Permutations(Records)

Parts ==
  {"dag", "retry", "rename", "delta", "verification", "training", "cpu", "archive",
   "family", "repair", "mirror", "descriptors"}

vars == <<part, dagVars, retryVars, renameVars, deltaVars, verificationVars, scheduleVars,
          cpuVars, archiveVars, familyVars, repairVars, mirrorVars,
          fdVars>>

(* The variables of the parts that do not run are 0, or as they begin.     *)
Init ==
  /\ part \in Parts
  /\ IF part = "dag" THEN DagInit
     ELSE /\ edges = 0 /\ priority = 0 /\ declared = 0 /\ tieBreak = 0
          /\ indegrees = 0 /\ ready = 0 /\ depths = 0 /\ ordered = 0 /\ plan = Planning
  /\ IF part = "retry" THEN RetryInit
     ELSE /\ model = 0 /\ retryPolicy = 0 /\ retryLedger = 0 /\ state = 0 /\ visits = 0
          /\ attempt = 0 /\ cause = 0 /\ observations = <<>> /\ terminal = Running
  /\ IF part = "rename" THEN RenameInit
     ELSE /\ candidates = 0 /\ content = 0 /\ mapping = 0 /\ renameRule = 0
          /\ collisionPolicy = 0 /\ pending = {0} /\ actions = 0
          /\ representatives = 0
  /\ IF part = "delta" THEN DeltaInit
     ELSE /\ snapshot = 0 /\ selection = 0 /\ rows = [before |-> <<0>>, after |-> <<0>>]
          /\ left = 1 /\ right = 1 /\ events = <<>>
  /\ IF part = "verification" THEN VerificationInit
     ELSE /\ tree = 0 /\ root = 0 /\ stage = "input" /\ rootBefore = 0 /\ collected = 0
          /\ inputScan = 0 /\ outputScan = 0 /\ payloads = 0 /\ verdict = "none"
          /\ writes = 0 /\ restored = 0 /\ late = 0 /\ existed = 0
  /\ IF part = "training" THEN ScheduleInit
     ELSE /\ phase = "prefix" /\ widths = 0 /\ budget = 0 /\ current = 0
          /\ cycle = 0 /\ drawn = 0 /\ tail = 0 /\ selected = 0 /\ order = 0
          /\ packs = 0 /\ ledger = 0
  /\ CpuInit
  /\ IF part = "archive" THEN ArchiveInit
     ELSE /\ workspace = 0 /\ cap = 0 /\ frames = 0 /\ entries = 0 /\ used = 0
          /\ total = 0 /\ count = 0 /\ outcome = "writing"
  /\ IF part = "family" THEN FamilyInit
     ELSE /\ scores = 0 /\ alternative = 0 /\ hypotheses = Pending /\ worlds = 0
  /\ IF part = "repair" THEN RepairInit
     ELSE /\ manifest = 0 /\ assets = 0 /\ repairPolicy = 0 /\ repairPlan = Undecided
  /\ IF part = "mirror" THEN MirrorInit
     ELSE /\ original = 0 /\ metadata = 0 /\ declaredGroup = 0 /\ ownerPriority = 0
          /\ key = 0 /\ ownerPolicy = 0 /\ mirror = Underived
  /\ FdInit

(* A step of one part, which leaves the others alone.                      *)
Runs(p) ==
  /\ part = p /\ UNCHANGED part
  /\ IF p = "dag" THEN TRUE ELSE UNCHANGED dagVars
  /\ IF p = "retry" THEN TRUE ELSE UNCHANGED retryVars
  /\ IF p = "rename" THEN TRUE ELSE UNCHANGED renameVars
  /\ IF p = "delta" THEN TRUE ELSE UNCHANGED deltaVars
  /\ IF p = "verification" THEN TRUE ELSE UNCHANGED verificationVars
  /\ IF p = "training" THEN TRUE ELSE UNCHANGED scheduleVars
  /\ IF p = "cpu" THEN TRUE ELSE UNCHANGED cpuVars
  /\ IF p = "archive" THEN TRUE ELSE UNCHANGED archiveVars
  /\ IF p = "family" THEN TRUE ELSE UNCHANGED familyVars
  /\ IF p = "repair" THEN TRUE ELSE UNCHANGED repairVars
  /\ IF p = "mirror" THEN TRUE ELSE UNCHANGED mirrorVars
  /\ IF p = "descriptors" THEN TRUE ELSE UNCHANGED fdVars

Plans        == Runs("dag") /\ DagNext
Retries      == Runs("retry") /\ RetryNext
Renames      == Runs("rename") /\ DecideGroup
Deltas       == Runs("delta") /\ DeltaNext
Verification == Runs("verification") /\ VerificationNext
Training     == Runs("training") /\ ScheduleNext
CpuAccounts  == Runs("cpu") /\ CpuNext
Archives     == Runs("archive") /\ ArchiveNext
Families     == Runs("family") /\ FamilyNext
Repairs      == Runs("repair") /\ Derive
Mirrors      == Runs("mirror") /\ DeriveMirror
Descriptors  == Runs("descriptors") /\ FdNext

Next ==
  \/ Plans \/ Retries \/ Renames \/ Deltas \/ Verification \/ Training \/ CpuAccounts
  \/ Archives \/ Families \/ Repairs \/ Mirrors \/ Descriptors

Spec == Init /\ [][Next]_vars
=============================================================================
