----------------------------- MODULE MCBilling -----------------------------
(* Small instances of Billing for TLC; the assumptions of Billing are checked. *)
EXTENDS Billing
=============================================================================
