----------------------------- MODULE MCSession -----------------------------
(* Instances of Session for TLC; the .cfg files give the sets. *)
EXTENDS Session
=============================================================================
