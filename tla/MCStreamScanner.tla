-------------------------- MODULE MCStreamScanner --------------------------
(* Instances of StreamScanner for TLC; the .cfg files give the constants. *)
EXTENDS StreamScanner
=============================================================================
