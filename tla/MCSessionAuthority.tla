------------------------- MODULE MCSessionAuthority -------------------------
(***************************************************************************)
(* Model checking of SessionAuthority: one user and an administrator with  *)
(* one browser session on one device, or two users with a session each.    *)
(***************************************************************************)
EXTENDS SessionAuthority, TLC

CONSTANTS alice, bob, root

UserAndAdmin == {[user |-> alice, role |-> "USER_LEVEL_1"],
                 [user |-> root, role |-> "ADMIN"]}

TwoUsersAndAdmin ==
  UserAndAdmin \cup {[user |-> bob, role |-> "USER_LEVEL_1"]}

Symmetric == Permutations(Workers) \cup Permutations(Requests)
=============================================================================
