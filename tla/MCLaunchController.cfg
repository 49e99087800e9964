\* One launch; the client, the manager and up to two unit processes are free.
SPECIFICATION Spec
CONSTANTS
  Contents = {blank, expected}
  Blank = blank
  Expected = expected
  MaxProcesses = 2
\* The call ends and the unit ends: the system really stops.
CHECK_DEADLOCK FALSE
INVARIANTS
  AcceptedIsFinal
  LeftReaped
  OnlyLateUnitsOutlive
PROPERTIES
  EverythingEnds
