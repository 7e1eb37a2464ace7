SPECIFICATION Spec
CONSTANTS
  Kinds = {"record"}
  Depth = 16
  Lag = 2
  ReadTime = 3
  Sym = 2
  Nsym = 3
  Cap = 4
  MaxTo = 3
  MapLen = 9
  WSlots = 13
  Stride = 3
  RingKeys = 3
  FileBlocks = 4
  MaxBlocks <- MCBlocks
CHECK_DEADLOCK FALSE
INVARIANT EachBlockRecorded
