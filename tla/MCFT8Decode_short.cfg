CONSTANTS
  Texts = {"m1", "m2"}
  Candidates <- MCCandidates
  TopK = 3
  Osd = TRUE
  OsdFloor = 1
  OsdMax = 2
  Refine = TRUE
  RefineMax = 1
  QueueMax = 2
  Window = 2
  Once = TRUE
  MaxTime = 3
  MaxScans = 3
  c1 = c1
  c2 = c2
  c3 = c3
  c4 = c4
  c5 = c5
  Calls = {c1, c2, c3, c4, c5}
  Hash22 <- MCHash22
  Shift = 1
  Size = 4
  MaxAge = 1
SPECIFICATION MCSpec
CHECK_DEADLOCK FALSE
INVARIANT FoundByShortHash
