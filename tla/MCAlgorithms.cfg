SPECIFICATION MCSpec
CONSTANTS
  Scenes = {"steady", "fading", "free", "copy"}
  Carriers = {1, 2}
  Bins = 10
  Levels = {2, 3}
  Gate = 2
  Drift = 2
  Merge = 2
  Confirm = 2
  Ttl = 2
  Recent = 1
  Calls <- MCCalls
  MaxWindow <- MCWindows
  Letters = {"E", "T", "A", "N", "K"}
  Morse <- MCMorse
  Texts <- MCTexts
  Units = {3, 4}
  Glitch = 3
  Received <- MCReceived
  HuffTable <- MCHuff
  JscSize = 262144
  Sent <- MCSent
  Noisy <- MCNoisy
  ErrorSets <- MCErrors
  Kinds = {"refine", "skimmer", "waterfall", "record", "playback", "none"}
  Depth = 16
  Lag = 2
  ReadTime = 3
  Sym = 2
  Nsym = 3
  Cap = 4
  MaxTo = 3
  MapLen = 9
  WSlots = 13
  Stride = 3
  RingKeys = 3
  FileBlocks = 4
  MaxBlocks <- MCBlocks
CHECK_DEADLOCK FALSE
INVARIANTS FrameRight SnapshotIntact FilesInOrder TracksRight SpotsRight KeyedIsRead MostLikely FramesRead
PROPERTIES NewestShown
