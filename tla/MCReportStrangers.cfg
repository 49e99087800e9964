SPECIFICATION Spec
CONSTANTS
  Publishers = {p1, p2}
  Strangers = {s1, s2}
  Intruders = {s1, s2}
  Payloads = {A}
  Serialized = FALSE
  NoFile = NoFile
  MaxFaults = 1
  MaxCrashes = 0
SYMMETRY Symmetry
PROPERTIES
  StrangersUntouched
