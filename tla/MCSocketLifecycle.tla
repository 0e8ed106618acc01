------------------------- MODULE MCSocketLifecycle -------------------------
(* Instances of SocketLifecycle for TLC. *)
EXTENDS SocketLifecycle

(* The one-shot checks of README.md: the next daemon is started once the
   request of the one before is answered and has made main leave its loop with
   success, and nothing goes wrong. *)
OneShotNext ==
    \/ \E p \in Procs :
         \/ Launch(p) /\ \A q \in Procs : pc[q] # "unborn" => exitCode[q] = "zero"
         \/ Construct(p) \/ Accept(p) \/ Reply(p) \/ Destroy(p)
    \/ \E c \in Clients : Connect(c)

OneShotSpec == Init /\ [][OneShotNext]_vars
=============================================================================
