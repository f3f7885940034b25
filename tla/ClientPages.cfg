CONSTANTS
  MaxLogins = 3
  RequestIds = {1, 2}
  FileIds = {1}
  Descriptors = {1, 2}
  WholeMinutes = {1}
  MaxStored = 1
  MaxJobs = 2
  AccessIds = {1, 2}
  MaxReads = 2
  MaxVersion = 2
  MaxLoads = 2
  MaxWatched = 2
  MaxAssessments = 2
  Tokens = {1, 2}
  MaxDigests = 2
  Poses = 2
  FrameTarget = 2
  MaxPanels = 2
  Recorders = {u1, u2}
  MaxEntries = 2
  MaxTime = 1
SPECIFICATION Spec
CHECK_DEADLOCK TRUE
INVARIANT ClientTypeOK
INVARIANT ShellOnlyWithConsent
INVARIANT RecordHandedWithItsCid
INVARIANT AskedWithItsFrames
INVARIANT AlarmOnlyAfterOverlap
PROPERTY DecisionShown
PROPERTY AccessDecisionNoticed
PROPERTY RowsHeal
PROPERTY DecisionCatchesUp
PROPERTY TamperShown
PROPERTY BreakShown
