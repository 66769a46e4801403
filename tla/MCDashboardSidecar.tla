-------------------------- MODULE MCDashboardSidecar --------------------------
(* DashboardSidecar for TLC. *)
EXTENDS DashboardSidecar, TLC
=============================================================================
