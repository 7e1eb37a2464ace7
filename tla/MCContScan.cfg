CONSTANTS
  N = 6
  Cap = 2
  Stride = 1
  Slots = 2
  MaxWi = 4
SPECIFICATION FairSpec
CHECK_DEADLOCK FALSE
INVARIANTS TypeOK DecodeCoherent WindowComplete OneMoreAfterStop
PROPERTIES ImplementsFifo PublishedIsReleased StopReturns
