CONSTANTS
  Proc = {"a", "b", "c"}
  IdOf <- Ids
  VersionLists <- Lists
  NULL = NULL
  Failures = {"uuid", "bus", "socket", "timeout", "ftruncate", "crash"}
SPECIFICATION Spec
INVARIANT TypeOK
INVARIANT RegionsAreExclusive
INVARIANT RegionOfRegistered
INVARIANT VersionWasAnnounced
