SPECIFICATION Spec
CONSTANTS
  Duration = 1
  MaxTSCacheNum = 2
  CacheMaxFrames = 2
  TsMod = 10
  FirstTs = {0, 6}
  Steps = {1}
  MaxPackets = 9
  MaxClock = 4
  None = None
INVARIANTS PlaylistContiguous SegmentsAdjoin DurationCovers
CHECK_DEADLOCK FALSE
