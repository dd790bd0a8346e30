SPECIFICATION Spec
CONSTANTS
  MAXIMUM_FRAME_BYTES = 2
  Offers <- EveryFrame
  HealthInterval = 2
  TickInterval = 2
  Uptime = 2
  LongestTick = 1
  WorkRaises = TRUE
  MaxFrames = 3
CHECK_DEADLOCK FALSE
INVARIANT NoFrameKillsThePart
