---------------------------- MODULE MCPlayground ----------------------------
(* Instances of Playground for TLC; the .cfg files give the constants. *)
EXTENDS Playground
=============================================================================
