---------------------------- MODULE MCHealthAlerts ----------------------------
(***************************************************************************)
(* A small instance of HealthAlerts: two dashboards.                       *)
(***************************************************************************)
EXTENDS HealthAlerts

CONSTANTS l1, l2
=============================================================================
