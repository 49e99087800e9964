\* Every bounded input of the parts that share nothing, one part at a time.
SPECIFICATION Spec
CONSTANTS
  \* The schedule: all widths of two interchangeable records per partition, three
  \* budgets per partition, the largest of which can meet the ceiling.
  Records = {r1, r2}
  SequenceLength = 4
  Reserve = 4
  CandidateOccurrences = 3
  Budgets = {3, 6, 9}
  MaxOccurrences = 4
  MicrobatchSequences = 2
  AccumulationMicrobatches = 2
  \* Graphs of four nodes with up to four edges.
  NodeCount = 4
  MaximumEdges = 4
  Priorities = {0, 1}
  DeclarationOrders <- RotatedOrders
  \* The verification of a workspace: one input, two names outside it.
  Inputs <- InputNames
  Outside <- OutsideNames
  OracleOutputs <- DeclaredNames
  LooksOf <- LooksOfNames
  MaxWrites = 2
  \* The snapshot: two files, two threads that use it and one with a file of
  \* its own; two writes by another process.
  SlotCount = 2
  Numbers = {1, 2, 3, 4}
  Users = {8, 9}
  Tenants = {7}
  MaxTampering = 2
  \* The CPU watcher: three processes, three units of CPU time, ticks of two.
  MaxProcs = 3
  MaxCpu = 3
  Tick = 2
  \* Retries: caps of three attempts.
  AttemptBound <- Attempts
  \* Renames: up to three files.
  Parents = {1, 2}
  NameOrder <- FourNames
  MappedNames <- TwoNames
  Contents = {0, 1}
  MaximumCandidates = 3
  \* Process tables: two processes, two snapshots.
  Pids = {1, 2}
  BeforeTicks = 2
  AfterTicks = 3
  Threshold = 2
  Values <- FieldValues
  \* Repairs: up to two records.
  Paths <- AssetPaths
  PathBefore <- AssetBefore
  Digests = {1, 2}
  MaxRecords = 2
  \* Mirrors: three names, up to three files behind them.
  NameCount = 3
  Suffix <- ThreeSuffixes
  MetadataValues = {0, 1}
  \* Archives of up to four entries.
  Trees <- Workspaces
  Caps <- ByteCaps
  InputName <- Input
  SeparatorByte = 1
  UnsafeNames <- UnsafeName
  HeaderBytes = 4
  EntryBytes = 2
  MaxDepth = 2
  MaxEntries = 4
  MaxPathBytes = 3
  MaxRegular = 2
  MaxTarget = 1
  MaxTotal = 3
  \* The confirmatory family: two contrasts, four units each.
  Scores <- AscendingScores
  Contrasts <- TwoContrasts
  AlphaNumerator = 1
  AlphaDenominator = 4
SYMMETRY Symmetry
\* A derivation ends.
CHECK_DEADLOCK FALSE
INVARIANTS
  PlanRight
  RetryRight
  RenameRight
  DeltaRight
  VerdictRight
  ScheduleRight
  TrainedOnce
  CpuRight
  ArchiveRight
  FamilyRight
  RepairRight
  MirrorRight
  SnapshotRight
