CONSTANTS
  w1 = w1
  u1 = u1
  i1 = i1
  i2 = i2
  r1 = r1
  c1 = c1
  c2 = c2
  k1 = k1
  k2 = k2
  Workers = {w1}
  Updaters = {u1}
  Intents = {i1, i2}
  Records = {r1}
  Descriptors = {c1, c2}
  Keys = {k1, k2}
  AtomicUpdates = TRUE
  MaxChanges = 3
SPECIFICATION Spec
INVARIANTS TypeOK OpenedUnderSameAuthorization UseKeepsOpen ClosedWithItsDescriptor
SYMMETRY Symmetric
