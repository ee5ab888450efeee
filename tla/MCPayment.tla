----------------------------- MODULE MCPayment -----------------------------
(* Instances of Payment for TLC; the .cfg files give the constants. *)
EXTENDS Payment
=============================================================================
