-------------------------- MODULE MCCryptoBinding --------------------------
(***************************************************************************)
(* Small instances of CryptoBinding for TLC.                               *)
(***************************************************************************)
EXTENDS CryptoBinding, TLC

Symmetric ==
  Permutations(Workers) \cup Permutations(Updaters) \cup Permutations(Intents)
    \cup Permutations(Records) \cup Permutations(Descriptors) \cup Permutations(Keys)
=============================================================================
