SPECIFICATION FairSpec
CONSTANTS
  NULL = NULL
  FREE = FREE
  Ptr = {p1, p2, p3, p4, p5}
  Malloc <- FirstOf
  ALIGN = 1
  Surfaces <- PointSurface
  Regions <- NoRegion
  WORD = 64
  ShmPixels = 9
  ShmInitial = {"absent"}
  ShmOutcomes = {"ok"}
  Framerates <- OnlyTwenty
  Events = {"cleanup"}
  MaxSwitches = 1
  SendHwm = 1
  RecvHwm = 1
PROPERTY ShutdownSent
CHECK_DEADLOCK FALSE
