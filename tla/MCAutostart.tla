---------------------------- MODULE MCAutostart ----------------------------
(* Instances of Autostart for TLC; the .cfg files give the sets. *)
EXTENDS Autostart
=============================================================================
