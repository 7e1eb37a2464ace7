CONSTANTS
  N = 6
  Cap = 1
  Stride = 1
  Slots = 2
  MaxWi = 9
  HostDelay = 1
  ScanTime = 2
SPECIFICATION MCSpec
INVARIANTS WindowIntact ScansHaveOwnSlots
CHECK_DEADLOCK FALSE
