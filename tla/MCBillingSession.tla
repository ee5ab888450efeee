-------------------------- MODULE MCBillingSession --------------------------
(* Instances of BillingSession for TLC; the .cfg files give the constants. *)
EXTENDS BillingSession
=============================================================================
