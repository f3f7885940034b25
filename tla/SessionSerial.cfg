CONSTANTS
  alice = alice
  bob = bob
  root = root
  Workers = {w1}
  Sessions = {s1, s2}
  Devices = {d1, d2}
  Requests = {r1}
  Tokens <- TwoUsersAndAdmin
  AtomicUpdates = FALSE
  MaxVersion = 1
SPECIFICATION Spec
CHECK_DEADLOCK TRUE
PROPERTY RestoredWithAuthority
PROPERTY RefreshKeepsRevoked
PROPERTY PromiseKept
