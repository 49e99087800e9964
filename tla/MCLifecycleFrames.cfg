\* No system call fails; the decoder's rule about incident flags.
SPECIFICATION LifecycleSpec
CONSTANTS
  Scenarios <- AllScenarios
  Faults = {}
  PipeCapacity = 2
\* PID 1 exits after its frame.
CHECK_DEADLOCK FALSE
INVARIANT FrameAccepted
