\* Two threads that set, one that flushes, four calls.
CONSTANTS
  Setter = {"s1", "s2"}
  Flusher = {"f"}
  Value = {v1, v2}
  Source = {i1, i2, i3, i4}
  NULL = NULL
  MaxSets = 4
SPECIFICATION FairSpec
INVARIANT TypeOK
INVARIANT OrigIsAnnounced
INVARIANT ChangeIsPending
PROPERTY EventuallyAnnounced
CHECK_DEADLOCK FALSE
