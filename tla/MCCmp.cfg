\* Every encoding and every boundary of an alphabet of 128 bytes, in pairs; and
\* every marker, followed by up to four bytes.
CONSTANTS
  BYTE = 128
  W16 = 2
  W32 = 3
  W64 = 4
  FIXARRAY_SIZE = 3
  FIXMAP_SIZE = 3
  FIXSTR_SIZE = 7
  write <- MCWrite
  read <- MCRead
  MaxItems = 2
  Rooms = {2, 4, 5, 1000}
  TailBytes = {0, 1, 63, 64, 127}
SPECIFICATION Spec
INVARIANTS ValuesArrive CutsAreNoticed FailsOnlyWhenFull
           ObjectsAreRewritten NumbersAreCanonical ReadersAreSound
CHECK_DEADLOCK FALSE
