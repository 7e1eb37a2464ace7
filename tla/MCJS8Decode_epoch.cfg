CONSTANTS
  Texts = {"m1", "m2"}
  WithCall = {"m1"}
  Candidates <- MCCandidates
  Osd = TRUE
  OsdFloor = 1
  OsdMax = 2
  RefineMax = 1
  QueueMax = 2
  Cycle = 2
  MaxTime = 4
  MaxScans = 3
SPECIFICATION Spec
CHECK_DEADLOCK FALSE
INVARIANT OncePerEpoch
