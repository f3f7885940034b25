CONSTANTS
  alice = alice
  bob = bob
  carol = carol
  root = root
  Workers = {w1}
  Intents = {i1, i2}
  Tokens <- OwnerReviewerAdmin
  Failures = FALSE
SPECIFICATION FairSpec
CHECK_DEADLOCK TRUE
PROPERTY LegalLifecycle
PROPERTY PromiseKept
PROPERTY UsedEventuallyBacked
