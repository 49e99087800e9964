\* A checkpoint, a schedule and another program race for one name.
SPECIFICATION Spec
CONSTANTS
  Publishers = {checkpoint, schedule}
  Checkpoints = {checkpoint}
  Strangers = {other}
  Files = {f1, f2}
  NoDirectory = NoDirectory
  MaxFaults = 2
  MaxInterrupts = 1
  MaxCrashes = 1
  MaxWrites = 2
SYMMETRY Symmetry
\* Every call ends.
CHECK_DEADLOCK FALSE
INVARIANTS
  PublishedIsWhole
  FailureAccounted
PROPERTIES
  NeverTakenBack
  RegisterSpec
