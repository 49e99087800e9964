SPECIFICATION Spec
CONSTANTS
  Publishers = {p1, p2, p3}
  Strangers = {s1}
  Intruders = {}
  Payloads = {A, B}
  Serialized = FALSE
  NoFile = NoFile
  MaxFaults = 0
  MaxCrashes = 0
SYMMETRY Symmetry
INVARIANTS
  RejectionJustified
PROPERTIES
  RegisterSpec
