SPECIFICATION FairSpec
CONSTANTS
  StdoutCap = 1
  StderrCap = 1
  SnapshotCap = 2
  CpuLimit = 2
  HeaderBytes = 1
  MaxProcs = 2
  MaxPipe = 1
  MaxWrites = 0
  MaxUsage = 0
  Faults = {}
INVARIANTS
  NoOutputLost
  ErrorJustified
PROPERTIES
  AlwaysAnswers
