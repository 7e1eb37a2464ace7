CONSTANTS
  BlockLen = 2
  RxBuffers = 3
  Buffers = 5
  AudioRing = 2
  Rings = {"hf", "cw"}
  MaxLag = 1
  NormInterval = 3
  HostCopyWaits = TRUE
  Slack = 1
  MaxRx = 9
SPECIFICATION Spec
CHECK_DEADLOCK FALSE
INVARIANTS InputRight SignalsNewBlock
PROPERTIES ReadInOrder
