---------------------------- MODULE MCGatekeeper ----------------------------
(* Gatekeeper for TLC. *)
EXTENDS GatekeeperLifecycle, TLC

MessageSymmetry == Permutations(Messages)
=============================================================================
