--------------------------- MODULE MCOutboundQuota ---------------------------
(* OutboundQuota for TLC. *)
EXTENDS OutboundQuota, TLC

SenderSymmetry == Permutations(Senders)
=============================================================================
