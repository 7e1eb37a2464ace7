CONSTANTS
  c1 = c1
  c2 = c2
  Conns = {c1, c2}
  Listener = c1
  Sinks = {0}
  BadTrx = {4}
  Depth = 2
  Raw = {1, 9}
  Step = 2
  FftBins = 4
  AudioBins = 1
  MinHz = 2
  Default = 5
  MaxCmds = 2
  MaxTunes = 2
  MaxBlocks = 6
  Programs = {"psk", "aprs", "logger", "none"}
  Stations = {s1, s2, s3, s4}
  Spotted = {s1, s2}
  Snrs = {0, 5}
  Interval = 2
  Retry = 1
  Hour = 3
  First = 1
  RecLen = 4
  Overhead = 11
  TmplLen = 2
  LenMax = 22
  UdpMax = 20
  Dedup = 2
  Window = 3
  CacheMax = 1
  Disorder = 2
  MaxReports = 4
  MaxBreaks = 2
  MaxClock = 7
SPECIFICATION MCSpec
CHECK_DEADLOCK FALSE
INVARIANTS ClientsListed WindowInFft TuningAgrees ReportsRight
PROPERTIES Delivered LinesApart Retried
