SPECIFICATION Spec
CONSTANTS
  Ids = {k1, k2, k3}
  Boots = {b1, b2}
  Size = 2
  MaxActive = 2
  MaxSeen = 2
  Absent = Absent
  Bad = Bad
INVARIANTS PublishedIsWhole MetadataAreTrue ReportIsTrue
CHECK_DEADLOCK FALSE
