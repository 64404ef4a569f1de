\* The library's threads, one of them a second consumer; three updates.
CONSTANTS
  Thread = {"vm", "out", "main"}
  Update = {u1, u2, u3}
  NULL = NULL
  HEAD = HEAD
  Calls <- MCCalls
SPECIFICATION FairSpec
INVARIANT TypeOK
INVARIANT ListIsWellFormed
INVARIANT NoLostWakeup
PROPERTY IsFifo
PROPERTY DequeueReturns
CHECK_DEADLOCK FALSE
