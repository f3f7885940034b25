CONSTANTS
  MaxRecords = 2
  MaxRevision = 1
  LostAfter = 2
  Counts = {0, 1, 2}
SPECIFICATION FairSpec
CHECK_DEADLOCK TRUE
INVARIANT LostOnlyAfterMisses
PROPERTY StoppedRecordNoticed
PROPERTY ForeignSnapshotHeals
PROPERTY RevocationSticks
