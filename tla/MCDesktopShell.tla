-------------------------- MODULE MCDesktopShell --------------------------
(* Instances of DesktopShell for TLC; the .cfg files give the constants. *)
EXTENDS DesktopShell
=============================================================================
