SPECIFICATION Spec
CONSTANTS
  StdoutCap = 1
  StderrCap = 1
  SnapshotCap = 2
  CpuLimit = 1
  HeaderBytes = 1
  MaxProcs = 3
  MaxPipe = 0
  MaxWrites = 1
  MaxUsage = 0
  Faults = {}
INVARIANTS
  ReapedMeansEmpty
  NothingEscapesTheKill
PROPERTIES
  ContractSpec
