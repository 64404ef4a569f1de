\* Pairs of messages of either direction, the block growing from 12 bytes; and
\* the box of up to three regions of every surface up to 5x3.
CONSTANTS
  BYTE = 128
  W16 = 2
  W32 = 3
  W64 = 4
  FIXARRAY_SIZE = 7
  FIXMAP_SIZE = 7
  FIXSTR_SIZE = 7
  MinAlloc = 12
  Junk = 255
  UUIDs = {"vm", "other"}
  UUID = "vm"
  Updates <- MCUpdates
  Answers <- MCAnswers
  MaxMessages = 2
  ALIGN = 3
  MaxWidth = 5
  MaxHeight = 3
  MaxReports = 3
SPECIFICATION ChainSpec
INVARIANTS MessagesArrive BlockIsLargeEnough EventsAreDelivered RateOfLastSuccess
           OnlyUnreadableLeak LeastBox AlignedBox RegionsArrive
CHECK_DEADLOCK FALSE
