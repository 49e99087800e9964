SPECIFICATION Spec
CONSTANTS
  Publishers = {p1, p2}
  Strangers = {s1}
  Intruders = {}
  Payloads = {A, B}
  Serialized = TRUE
  NoFile = NoFile
  MaxFaults = 3
  MaxCrashes = 2
SYMMETRY Symmetry
INVARIANTS
  NoTornReport
  FailedCleanly
PROPERTIES
  RegisterSpec
