SPECIFICATION Spec
CONSTANTS
  NULL = NULL
  FREE = FREE
  Ptr = {p1, p2, p3, p4}
  Malloc <- AnyOf
  ALIGN = 2
  Surfaces <- DisplaySurfaces
  Regions <- FarPixels
  WORD = 64
  ShmPixels = 9
  ShmInitial = {"absent", "named"}
  ShmOutcomes = {"ok", "open", "ftruncate", "mmap"}
  Framerates <- OnlyTwenty
  Events = {"nack", "input"}
  MaxSwitches = 2
  SendHwm = 1
  RecvHwm = 1
SYMMETRY PtrSymmetry
INVARIANT TypeOK
INVARIANT ShmCovered
INVARIANT MirrorCovered
INVARIANT OnlyLargeOverruns
PROPERTY HandedOverIsFrozen
CHECK_DEADLOCK FALSE
