----------------------- MODULE MCSubscriptionLedger ------------------------
(* Instances of SubscriptionLedger for TLC; the .cfg files give the constants. *)
EXTENDS SubscriptionLedger

MCDeltas == -1 .. 1
=============================================================================
