------------------------------ MODULE MCAlerts ------------------------------
(* A small instance of Alerts for TLC; the assumptions of Alerts are checked. *)
EXTENDS Alerts
=============================================================================
