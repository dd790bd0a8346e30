SPECIFICATION FairSpec
CONSTANTS
  MAXIMUM_FRAME_BYTES = 2
  Offers <- OverLong
  HealthInterval = 2
  TickInterval = 2
  Uptime = 2
  LongestTick = 1
  WorkRaises = FALSE
  MaxFrames = 2
CHECK_DEADLOCK FALSE
PROPERTY OffTakesEffect
