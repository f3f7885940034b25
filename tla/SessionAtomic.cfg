CONSTANTS
  alice = alice
  bob = bob
  root = root
  Workers = {w1, w2}
  Sessions = {s1}
  Devices = {d1, d2}
  Requests = {r1}
  Tokens <- UserAndAdmin
  AtomicUpdates = TRUE
  MaxVersion = 2
SPECIFICATION Spec
CHECK_DEADLOCK TRUE
INVARIANT TypeOK
INVARIANT OneRestorePerGrant
INVARIANT RetiredVersions
PROPERTY EarlierRevocationsHold
PROPERTY DeviceRestoredByGrant
SYMMETRY Symmetric
