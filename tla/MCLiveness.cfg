SPECIFICATION LibrarySpec
CONSTANTS
  NULL = NULL
  FREE = FREE
  Ptr = {p1, p2, p3, p4, p5}
  Malloc <- FirstOf
  ALIGN = 1
  Surfaces <- PointSurface
  Regions <- PointRegion
  WORD = 64
  ShmPixels = 9
  ShmInitial = {"absent"}
  ShmOutcomes = {"ok"}
  Framerates <- OnlyTwenty
  Events = {"cleanup"}
  MaxSwitches = 2
  SendHwm = 1
  RecvHwm = 1
PROPERTY VmReturns
PROPERTY MainAlwaysPolls
CHECK_DEADLOCK FALSE
