SPECIFICATION Spec
CONSTANTS
  NULL = NULL
  FREE = FREE
  Ptr = {p1, p2, p3, p4, p5}
  Malloc <- FirstOf
  ALIGN = 1
  Surfaces <- PointSurface
  Regions <- NoRegion
  WORD = 64
  ShmPixels = 9
  ShmInitial = {"absent"}
  ShmOutcomes = {"ok", "mmap"}
  Framerates <- OnlyTwenty
  Events = {}
  MaxSwitches = 2
  SendHwm = 1
  RecvHwm = 1
INVARIANT CopiesHaveRegion
