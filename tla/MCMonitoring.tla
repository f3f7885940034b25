---------------------------- MODULE MCMonitoring ----------------------------
(***************************************************************************)
(* Small instances of Monitoring for TLC.                                  *)
(***************************************************************************)
EXTENDS Monitoring, TLC

Symmetric == Permutations(Workers) \cup Permutations(Records)
=============================================================================
