CONSTANTS
  w1 = w1
  m1 = m1
  m2 = m2
  m3 = m3
  NoRecord = NoRecord
  Workers = {w1}
  Records = {m1, m2, m3}
  WarningAfter = 1
  ReauthAfter = 2
  InvalidateAfter = 3
  MaxVersion = 2
  Counts = {0, 1, 2, 3, 4}
SPECIFICATION Spec
INVARIANTS OneRunning
PROPERTIES StoppedStaysStopped
SYMMETRY Symmetric
