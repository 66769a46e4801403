----------------------------- MODULE MCTestSender -----------------------------
(* TestSender for TLC. *)
EXTENDS TestSender, TLC
=============================================================================
