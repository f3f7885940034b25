CONSTANTS
  MaxRecords = 2
  MaxRevision = 2
  LostAfter = 2
  Counts = {0, 1, 2}
SPECIFICATION Spec
CHECK_DEADLOCK TRUE
PROPERTY NewerSnapshotStays
