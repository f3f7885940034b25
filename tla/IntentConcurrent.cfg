CONSTANTS
  alice = alice
  bob = bob
  carol = carol
  root = root
  Workers = {w1, w2}
  Intents = {i1}
  Tokens <- AllTokens
  Failures = TRUE
SPECIFICATION Spec
CHECK_DEADLOCK TRUE
INVARIANT TypeOK
INVARIANT SealedUnderReview
INVARIANT UsedOnlyBySealing
INVARIANT ReuseBoundedByWorkers
SYMMETRY WorkerSymmetry
