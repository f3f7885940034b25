CONSTANTS
  alice = alice
  bob = bob
  carol = carol
  root = root
  Workers = {w1, w2}
  Intents = {i1}
  Tokens <- TwoTokens
  Failures = FALSE
SPECIFICATION Spec
CHECK_DEADLOCK TRUE
INVARIANT OneShot
