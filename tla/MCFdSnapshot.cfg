\* Two files, two threads that use the snapshot and one with a file of its own.
SPECIFICATION FdSpec
CONSTANTS
  SlotCount = 2
  Numbers = {1, 2, 3, 4, 5}
  Users = {u1, u2}
  Tenants = {t1}
  MaxTampering = 2
CHECK_DEADLOCK FALSE
INVARIANTS
  DescriptorsKept
