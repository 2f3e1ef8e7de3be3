SPECIFICATION MCSpec
CONSTANTS
  PageSize = 64
  Granularities = {64}
  Thresholds = {32}
  Bases = {64, 128}
  MaxBlocks = 2
  DriverFails = FALSE
  Requests = {7, 31}
  Elements = {7}
  MaxLive = 2
  MaxRequest = 1000
  Aligns = {12, 16}
  Pads = {64}
  Limits = {64}
  Period = 8
  C_FIFO_DEPTH = 2
  Delays = {0, 3}
INVARIANTS
  LiveBlocks FootprintExact BestFit CheckMallocState NeverEarly LateBounded
PROPERTIES CallsExact ValidStable
CHECK_DEADLOCK FALSE
