SPECIFICATION Spec
CONSTANTS
  StdoutCap = 1
  StderrCap = 1
  SnapshotCap = 2
  CpuLimit = 2
  HeaderBytes = 1
  MaxProcs = 1
  MaxPipe = 1
  MaxWrites = 1
  MaxUsage = 1
  Faults = {"request", "setup", "fork", "wait", "scan", "poll", "read", "snapshot", "sink", "result"}
INVARIANTS
  FrameAccepted
  QuiescentVerdict
  OwnEnd
