-------------------------- MODULE MCIntentWorkflow --------------------------
(***************************************************************************)
(* Model checking of IntentWorkflow: an owner without privilege, a         *)
(* reviewer who also writes intents, a second reviewer, an administrator.  *)
(***************************************************************************)
EXTENDS IntentWorkflow, TLC

CONSTANTS alice, bob, carol, root

Token(u, r) == [user |-> u, role |-> r]

AllTokens == {Token(alice, "USER_LEVEL_1"), Token(bob, "USER_LEVEL_2"),
              Token(carol, "USER_LEVEL_2"), Token(root, "ADMIN")}

\* A writer and a reviewer are enough for questions about the records.
OwnerReviewerAdmin == AllTokens \ {Token(carol, "USER_LEVEL_2")}

TwoTokens == {Token(alice, "USER_LEVEL_1"), Token(bob, "USER_LEVEL_2")}

WorkerSymmetry == Permutations(Workers)
=============================================================================
