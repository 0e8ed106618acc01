-------------------------- MODULE MCFixedCommand --------------------------
(* Instances of FixedCommand for TLC; the .cfg files give the sizes. *)
EXTENDS FixedCommand
=============================================================================
