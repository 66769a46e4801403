-------------------------- MODULE MCOperatorControls --------------------------
(* OperatorControls for TLC. *)
EXTENDS OperatorControls, TLC

SenderSymmetry == Permutations(Senders)
=============================================================================
