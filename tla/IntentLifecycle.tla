-------------------------- MODULE IntentLifecycle --------------------------
(***************************************************************************)
(* The intent life cycle of backend/intent/lifecycle.py: the states, the   *)
(* table of permitted transitions and the two sets of states that may back *)
(* a cryptographic operation.  No variables: the modules that have intents *)
(* EXTEND this one.                                                        *)
(*                                                                         *)
(* Here and in every other module, X_Fault is the definition X with a bug  *)
(* the code could plausibly have; nothing uses it but the check that the   *)
(* properties notice the bug.                                              *)
(***************************************************************************)

\* IntentState.
LifecycleStates ==
  {"draft", "approved", "rejected", "used", "expired", "archived", "destroyed"}

\* Fault: an expired intent may be destroyed without being archived.
AllowedTransitions_SkipArchive ==
  [s \in LifecycleStates |->
     CASE s = "draft"    -> {"approved", "rejected"}
       [] s = "approved" -> {"used", "expired"}
       [] s = "used"     -> {"used", "expired"}
       [] s = "expired"  -> {"archived", "destroyed"}
       [] s = "archived" -> {"destroyed"}
       [] OTHER          -> {}]

\* _ALLOWED_TRANSITIONS: the states each state may be followed by.
AllowedTransitions ==
  [s \in LifecycleStates |->
     CASE s = "draft"    -> {"approved", "rejected"}
       [] s = "approved" -> {"used", "expired"}
       [] s = "used"     -> {"used", "expired"}
       [] s = "expired"  -> {"archived"}
       [] s = "archived" -> {"destroyed"}
       [] OTHER          -> {}]

\* Fault: the table is not consulted.
ValidTransition_Any(current, target) == target \in LifecycleStates

\* validate_transition: refuses a target the table does not list.
ValidTransition(current, target) == target \in AllowedTransitions[current]

\* CRYPTO_ELIGIBLE_STATES: any cryptographic operation.
CryptoEligible == {"approved", "used"}

\* Fault: used intents may encrypt again.
EncryptEligible_Reuse == CryptoEligible

\* ENCRYPT_ELIGIBLE_STATES: a new encryption.
EncryptEligible == {"approved"}

\* Fault: a caller may ask for "used".
DirectlyTransitionable_Used ==
  {"approved", "rejected", "used", "expired", "archived", "destroyed"}

\* _DIRECTLY_TRANSITIONABLE_STATES: targets the transition endpoint accepts.
DirectlyTransitionable ==
  {"approved", "rejected", "expired", "archived", "destroyed"}
=============================================================================
