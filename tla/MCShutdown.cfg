SPECIFICATION FlowSpec
CONSTANTS
  NULL = NULL
  FREE = FREE
  Ptr = {p1, p2, p3, p4}
  Malloc <- AnyOf
  ALIGN = 1
  Surfaces <- PointSurface
  Regions <- PointRegion
  WORD = 64
  ShmPixels = 9
  ShmInitial = {"absent"}
  ShmOutcomes = {"ok"}
  Framerates <- OnlyTwenty
  Events = {"cleanup", "interrupt", "spurious"}
  MaxSwitches = 2
  SendHwm = 1
  RecvHwm = 1
  MaxEarly = 3
SYMMETRY PtrSymmetry
INVARIANT SingleOwner
INVARIANT VmOutExclusion
INVARIANT InFlightPerWakeup
CHECK_DEADLOCK FALSE
