CONSTANTS
  alice = alice
  bob = bob
  root = root
  Workers = {w1, w2}
  Sessions = {s1}
  Devices = {d1}
  Requests = {r1}
  Tokens <- UserAndAdmin
  AtomicUpdates = TRUE
  MaxVersion = 2
SPECIFICATION Spec
CHECK_DEADLOCK TRUE
PROPERTY RestoredWithAuthority
