CONSTANTS
  w1 = w1
  w2 = w2
  m1 = m1
  NoRecord = NoRecord
  Workers = {w1, w2}
  Records = {m1}
  WarningAfter = 1
  ReauthAfter = 2
  InvalidateAfter = 3
  MaxVersion = 2
  Counts = {0, 1, 2, 3, 4}
SPECIFICATION FairSpec
INVARIANTS TypeOK RevocationEnacted
PROPERTIES StreaksRevoke GateReopens
