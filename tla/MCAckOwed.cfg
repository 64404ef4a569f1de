SPECIFICATION Spec
CONSTANTS
  NULL = NULL
  FREE = FREE
  Ptr = {p1, p2, p3, p4, p5}
  Malloc <- FirstOf
  ALIGN = 1
  Surfaces <- PointSurface
  Regions <- PointRegion
  WORD = 64
  ShmPixels = 9
  ShmInitial = {"absent"}
  ShmOutcomes = {"ok"}
  Framerates <- OnlyTwenty
  Events = {}
  MaxSwitches = 1
  SendHwm = 1
  RecvHwm = 1
INVARIANT AckOwed
