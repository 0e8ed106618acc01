------------------------- MODULE MCServiceDiagnose -------------------------
(* Instances of ServiceDiagnose for TLC; the .cfg files give the sizes. *)
EXTENDS ServiceDiagnose
=============================================================================
