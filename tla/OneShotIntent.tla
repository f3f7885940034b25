---------------------------- MODULE OneShotIntent ----------------------------
(***************************************************************************)
(* What the intent component promises its users, without requests, copies  *)
(* or failures: an intent moves only along the life cycle, and an approval *)
(* pays for at most one stored ciphertext.  IntentWorkflow implements it   *)
(* when requests do not overlap.                                           *)
(***************************************************************************)
EXTENDS Naturals

CONSTANT Intents

VARIABLES state, delivered

Init ==
  /\ state     = [i \in Intents |-> "absent"]
  /\ delivered = [i \in Intents |-> 0]

Move(i, from, to) ==
  /\ state[i] \in from
  /\ state' = [state EXCEPT ![i] = to]
  /\ UNCHANGED delivered

Submit(i)  == Move(i, {"absent"}, "draft")
Approve(i) == Move(i, {"draft"}, "approved")
Reject(i)  == Move(i, {"draft"}, "rejected")
Use(i)     == Move(i, {"approved"}, "used")
Expire(i)  == Move(i, {"approved", "used"}, "expired")
Archive(i) == Move(i, {"expired"}, "archived")
Destroy(i) == Move(i, {"archived"}, "destroyed")

\* The one ciphertext of a used intent is stored.
Deliver(i) ==
  /\ state[i] = "used"
  /\ delivered[i] = 0
  /\ delivered' = [delivered EXCEPT ![i] = 1]
  /\ UNCHANGED state

Next ==
  \E i \in Intents :
    \/ Submit(i) \/ Approve(i) \/ Reject(i) \/ Use(i)
    \/ Deliver(i) \/ Expire(i) \/ Archive(i) \/ Destroy(i)

Spec == Init /\ [][Next]_<<state, delivered>>
=============================================================================
