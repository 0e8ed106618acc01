------------------------------ MODULE Exchange ------------------------------
(***************************************************************************)
(* One connection of the Unix socket, system call by system call:          *)
(* accept_one at the server's end, request_over_unix_socket at kasli's,    *)
(* with the framing, the limit on lines, the timeouts and the checks they  *)
(* share (src/ipc/unix_socket.cpp). The peer of the server may also be     *)
(* some other program, which sends and closes as it likes.                 *)
(*                                                                         *)
(* The kernel keeps what one end has sent and the other has not taken yet, *)
(* in order and up to Capacity bytes. script[e] is all that end e means to *)
(* send, sent[e] of it is sent, and taken[e] of it is taken by the peer.   *)
(***************************************************************************)
EXTENDS Integers, Sequences

CONSTANTS
    Byte, Newline,
    Max,         \* kMaxUnixSocketLineBytes
    Buffer,      \* the size of read_line's buffer (4096 in the code)
    Capacity,    \* the room of a socket's queue
    Payloads,    \* the requests of kasli and the responses of the handler
    Scripts,     \* what another peer may send
    Client, Server

ASSUME ExchangeAssumption ==
    /\ Newline \in Byte
    /\ Max \in Nat /\ Buffer \in Nat \ {0} /\ Capacity \in Nat \ {0}
    /\ Payloads \subseteq Seq(Byte) /\ Scripts \subseteq Seq(Byte)
    /\ Client # Server

VARIABLES
    kasli,       \* whether the peer of the server is kasli
    sameUid,     \* whether it runs under the uid of the server
    pc,          \* where each end is
    result,      \* how the call of each end ended
    payload,     \* the argument of write_line
    script, sent, taken,
    data,        \* what read_line has collected
    request,     \* history: the requests the handler was called with
    left         \* history: the peer's end came before the server's

vars == <<kasli, sameUid, pc, result, payload, script, sent, taken, data, request, left>>

End == {Client, Server}
Peer(e) == IF e = Client THEN Server ELSE Client

Errors == {"setsockopt", "uid", "too large", "newline", "missing newline",
           "EAGAIN", "EPIPE", "handler", "killed", "closed"}

TypeOK ==
    /\ kasli \in BOOLEAN /\ sameUid \in BOOLEAN
    /\ pc \in [End -> {"accept", "prepare", "uid", "write", "read", "handle", "close", "done"}]
    /\ result \in [End -> Errors \cup {"none", "ok"}]
    /\ payload \in [End -> Seq(Byte)] /\ script \in [End -> Seq(Byte)]
    /\ sent \in [End -> Nat] /\ taken \in [End -> Nat]
    /\ data \in [End -> Seq(Byte)]
    /\ \A e \in End : taken[e] <= sent[e] /\ sent[e] <= Len(script[e]) /\ Len(data[e]) <= Max
    /\ request \in Seq(Seq(Byte))
    /\ left \in BOOLEAN

(* kasli prepares its socket before it connects; the connection then waits to
   be accepted, and may be written to meanwhile. *)
Init ==
    /\ kasli \in BOOLEAN /\ sameUid \in BOOLEAN
    /\ pc = [e \in End |-> IF e = Client THEN "write" ELSE "accept"]
    /\ result = [e \in End |-> "none"]
    /\ \E p \in Payloads, s \in Scripts :
         /\ payload = [e \in End |-> IF e = Client /\ kasli THEN p ELSE <<>>]
         /\ script = [e \in End |-> IF e # Client THEN <<>>
                                    ELSE IF kasli THEN Append(p, Newline) ELSE s]
    /\ sent = [e \in End |-> 0] /\ taken = [e \in End |-> 0]
    /\ data = [e \in End |-> <<>>]
    /\ request = <<>>
    /\ left = FALSE

-----------------------------------------------------------------------------
InFlight(e) == sent[e] - taken[e]

Closed(e) == pc[e] = "done"

Has(s) == \E i \in 1 .. Len(s) : s[i] = Newline

(* An end that runs the code of unix_socket.cpp. *)
OurCode(e) == e = Server \/ kasli

(* The outcome of a call is known. *)
Outcome(e, r) ==
    /\ result' = [result EXCEPT ![e] = r]
    /\ left' = (left \/ (e = Client /\ result[Server] = "none"))

(* The call is about to return or to unwind: its socket is still open, *)
Ends(e, r) == Outcome(e, r) /\ pc' = [pc EXCEPT ![e] = "close"]

Throws(e, r) ==
    /\ Ends(e, r)
    /\ UNCHANGED <<kasli, sameUid, payload, script, sent, taken, data, request>>

(* until the destructor of its FileDescriptor closes it, on either way. *)
Close(e) ==
    /\ pc[e] = "close"
    /\ pc' = [pc EXCEPT ![e] = "done"]
    /\ UNCHANGED <<kasli, sameUid, result, payload, script, sent, taken, data, request, left>>

(* The kernel closes the socket of a program that ends. *)
Vanishes(e, r) ==
    /\ Outcome(e, r) /\ pc' = [pc EXCEPT ![e] = "done"]
    /\ UNCHANGED <<kasli, sameUid, payload, script, sent, taken, data, request>>

Goto(e, label) == pc' = [pc EXCEPT ![e] = label] /\ UNCHANGED <<result, left>>

-----------------------------------------------------------------------------
(* Mutant: the newline is not counted on one side. *)
LineIsTooLarge_OffByOne(e) == Len(payload[e]) > Max + 1

(* write_line checks its argument before the first byte is sent, *)
LineIsTooLarge(e) == Len(payload[e]) > Max

WriteLineRefuses(e) ==
    /\ OurCode(e) /\ pc[e] = "write" /\ sent[e] = 0
    /\ LineIsTooLarge(e) \/ Has(payload[e])
    /\ Throws(e, IF LineIsTooLarge(e) THEN "too large" ELSE "newline")

WriteLineAccepts(e) == OurCode(e) => ~(LineIsTooLarge(e) \/ Has(payload[e]))

(* and write_all sends what the peer's queue has room for, until all is sent. *)
AfterWrite(e) ==
    IF e = Client THEN Goto(e, "read") ELSE Ends(e, "ok")

Send(e) ==
    /\ pc[e] = "write" /\ WriteLineAccepts(e)
    /\ ~Closed(Peer(e))
    /\ \E k \in 1 .. Len(script[e]) - sent[e] :
         /\ InFlight(e) + k <= Capacity
         /\ sent' = [sent EXCEPT ![e] = @ + k]
         /\ IF sent[e] + k = Len(script[e]) THEN AfterWrite(e)
            ELSE UNCHANGED <<pc, result, left>>
    /\ UNCHANGED <<kasli, sameUid, payload, script, taken, data, request>>

SendFails(e) ==
    /\ OurCode(e) /\ pc[e] = "write" /\ WriteLineAccepts(e)
    /\ Closed(Peer(e))
    /\ Throws(e, "EPIPE")

(* Mutant: without SO_SNDTIMEO. *)
SendTimesOut_Never(e) == FALSE

SendTimesOut(e) ==
    /\ OurCode(e) /\ pc[e] = "write" /\ WriteLineAccepts(e)
    /\ ~Closed(Peer(e)) /\ InFlight(e) = Capacity
    /\ Throws(e, "EAGAIN")

-----------------------------------------------------------------------------
(* read_line takes what is there, up to the size of its buffer, and goes
   through it byte by byte: a newline ends the line, whatever follows it in the
   buffer is dropped, and a byte beyond the limit is an error. *)
Chunk(e, k) == SubSeq(script[Peer(e)], taken[Peer(e)] + 1, taken[Peer(e)] + k)

Readable(e) == {k \in 1 .. Buffer : k <= InFlight(Peer(e))}

Take(e, k) == taken' = [taken EXCEPT ![Peer(e)] = @ + k]

AtNewline(c, j) == j \in 1 .. Len(c) /\ c[j] = Newline /\ ~Has(SubSeq(c, 1, j - 1))

AfterRead(e) == IF e = Client THEN Ends(e, "ok") ELSE Goto(e, "handle")

ReadsLine(e) ==
    /\ OurCode(e) /\ pc[e] = "read"
    /\ \E k \in Readable(e) : \E j \in 1 .. k :
         /\ AtNewline(Chunk(e, k), j)
         /\ Len(data[e]) + (j - 1) <= Max
         /\ data' = [data EXCEPT ![e] = @ \o SubSeq(Chunk(e, k), 1, j - 1)]
         /\ Take(e, k)
    /\ AfterRead(e)
    /\ UNCHANGED <<kasli, sameUid, payload, script, sent, request>>

(* Mutant: every read starts the line anew. *)
ReadsSome_Restarts(e) ==
    /\ OurCode(e) /\ pc[e] = "read"
    /\ \E k \in Readable(e) :
         /\ ~Has(Chunk(e, k))
         /\ Len(data[e]) + k <= Max
         /\ data' = [data EXCEPT ![e] = Chunk(e, k)]
         /\ Take(e, k)
    /\ UNCHANGED <<kasli, sameUid, pc, result, payload, script, sent, request, left>>

(* Mutant: the limit is only looked at when the line ends. *)
ReadsSome_Unlimited(e) ==
    /\ OurCode(e) /\ pc[e] = "read"
    /\ \E k \in Readable(e) :
         /\ ~Has(Chunk(e, k))
         /\ data' = [data EXCEPT ![e] = @ \o Chunk(e, k)]
         /\ Take(e, k)
    /\ UNCHANGED <<kasli, sameUid, pc, result, payload, script, sent, request, left>>

ReadsSome(e) ==
    /\ OurCode(e) /\ pc[e] = "read"
    /\ \E k \in Readable(e) :
         /\ ~Has(Chunk(e, k))
         /\ Len(data[e]) + k <= Max
         /\ data' = [data EXCEPT ![e] = @ \o Chunk(e, k)]
         /\ Take(e, k)
    /\ UNCHANGED <<kasli, sameUid, pc, result, payload, script, sent, request, left>>

ReadsTooMuch(e) ==
    /\ OurCode(e) /\ pc[e] = "read"
    /\ \E k \in Readable(e) : \E j \in 1 .. k :
         /\ ~Has(SubSeq(Chunk(e, k), 1, j))
         /\ Len(data[e]) + j > Max
         /\ Take(e, k)
    /\ Ends(e, "too large")
    /\ UNCHANGED <<kasli, sameUid, payload, script, sent, data, request>>

(* Mutant: the end of the stream ends the line as well. *)
ReadsEnd_AsLine(e) ==
    /\ OurCode(e) /\ pc[e] = "read"
    /\ InFlight(Peer(e)) = 0 /\ Closed(Peer(e))
    /\ AfterRead(e)
    /\ UNCHANGED <<kasli, sameUid, payload, script, sent, taken, data, request>>

(* The peer has closed and nothing is left: read returns 0, or ECONNRESET. *)
ReadsEnd(e) ==
    /\ OurCode(e) /\ pc[e] = "read"
    /\ InFlight(Peer(e)) = 0 /\ Closed(Peer(e))
    /\ Throws(e, "missing newline")

(* Mutant: the time is that of the whole exchange. *)
ReadTimesOut_Overall(e) ==
    /\ OurCode(e) /\ pc[e] = "read"
    /\ Throws(e, "EAGAIN")

(* Mutant: without SO_RCVTIMEO. *)
ReadTimesOut_Never(e) == FALSE

ReadTimesOut(e) ==
    /\ OurCode(e) /\ pc[e] = "read"
    /\ InFlight(Peer(e)) = 0 /\ ~Closed(Peer(e))
    /\ Throws(e, "EAGAIN")

-----------------------------------------------------------------------------
(* accept_one around them. *)
Accept ==
    /\ pc[Server] = "accept"
    /\ Goto(Server, "prepare")
    /\ UNCHANGED <<kasli, sameUid, payload, script, sent, taken, data, request>>

Prepare ==
    /\ pc[Server] = "prepare"
    /\ Goto(Server, "uid")
    /\ UNCHANGED <<kasli, sameUid, payload, script, sent, taken, data, request>>

PrepareFails == pc[Server] = "prepare" /\ Throws(Server, "setsockopt")

ValidatePeer ==
    /\ pc[Server] = "uid" /\ sameUid
    /\ Goto(Server, "read")
    /\ UNCHANGED <<kasli, sameUid, payload, script, sent, taken, data, request>>

(* Mutant: the connection is put back. *)
RejectPeer_PutBack ==
    /\ pc[Server] = "uid" /\ ~sameUid
    /\ Goto(Server, "accept")
    /\ UNCHANGED <<kasli, sameUid, payload, script, sent, taken, data, request>>

RejectPeer == pc[Server] = "uid" /\ ~sameUid /\ Throws(Server, "uid")

HandlerReturns ==
    /\ pc[Server] = "handle"
    /\ request' = Append(request, data[Server])
    /\ \E p \in Payloads :
         /\ payload' = [payload EXCEPT ![Server] = p]
         /\ script' = [script EXCEPT ![Server] = Append(p, Newline)]
    /\ Goto(Server, "write")
    /\ UNCHANGED <<kasli, sameUid, sent, taken, data>>

HandlerThrows ==
    /\ pc[Server] = "handle"
    /\ request' = Append(request, data[Server])
    /\ Ends(Server, "handler")
    /\ UNCHANGED <<kasli, sameUid, payload, script, sent, taken, data>>

(* Another peer, once it has sent its bytes or before, takes what it likes and
   closes when it likes; and a signal ends any of the programs. To the other
   end, a program killed when its call has ended has closed its socket. *)
OtherTakes ==
    /\ ~kasli /\ ~Closed(Client)
    /\ \E k \in Readable(Client) : Take(Client, k)
    /\ UNCHANGED <<kasli, sameUid, pc, result, payload, script, sent, data, request, left>>

OtherCloses == ~kasli /\ ~Closed(Client) /\ Vanishes(Client, "closed")

Kill(e) == OurCode(e) /\ result[e] = "none" /\ Vanishes(e, "killed")

-----------------------------------------------------------------------------
WriteStep(e) == WriteLineRefuses(e) \/ Send(e) \/ SendFails(e) \/ SendTimesOut(e)

ReadStep(e) ==
    \/ ReadsLine(e) \/ ReadsSome(e) \/ ReadsTooMuch(e) \/ ReadsEnd(e) \/ ReadTimesOut(e)

AcceptStep ==
    \/ Accept \/ Prepare \/ PrepareFails \/ ValidatePeer \/ RejectPeer
    \/ HandlerReturns \/ HandlerThrows

EndStep(e) ==
    WriteStep(e) \/ ReadStep(e) \/ Close(e) \/ (e = Server /\ AcceptStep)

Next ==
    \/ \E e \in End : EndStep(e) \/ Kill(e)
    \/ OtherTakes \/ OtherCloses

Spec == Init /\ [][Next]_vars

(* Each end runs, its clock included; nothing is assumed of the handler, whose
   tool and model may take their time, nor of another peer. *)
FairSpec ==
    /\ Spec
    /\ WF_vars(pc[Server] # "handle" /\ EndStep(Server))
    /\ WF_vars(kasli /\ EndStep(Client))

-----------------------------------------------------------------------------
(* The handler is called at most once, for a peer of the same uid, with all of
   the first line the peer sent and nothing else: however the bytes arrive, and
   never with a line that was cut by a close, a timeout or the limit. *)
HandlerGetsTheLine ==
    /\ Len(request) <= 1
    /\ request # <<>> =>
         /\ sameUid
         /\ Len(request[1]) <= Max /\ ~Has(request[1])
         /\ Len(request[1]) < sent[Client]
         /\ Append(request[1], Newline) = SubSeq(script[Client], 1, Len(request[1]) + 1)

(* What request_over_unix_socket returns to kasli is the whole response the
   handler made for the request it sent. *)
AnswerIsWhole ==
    kasli /\ result[Client] = "ok" =>
        data[Client] = payload[Server] /\ request = <<payload[Client]>>

(* When accept_one returns normally to the loop of kaslid, kasli has its answer
   or finds it in its queue: it has not been turned away. One race is left. The
   time of kasli's read may be over while its socket is still open, and then the
   last send succeeds: the server has served a request whose kasli reports that
   it timed out. That time was over before the call of the server ended. *)
ServedOrRaced ==
    kasli /\ result[Server] = "ok" =>
        \/ pc[Client] = "read" /\ taken[Server] < sent[Server]
        \/ result[Client] \in {"ok", "killed"}
        \/ result[Client] = "EAGAIN" /\ left

(* What the errors say is so. The limits of write_line and read_line agree: a
   line between kasli and kaslid is refused by its writer or by nobody, and a
   reader that finds one too large has met another peer whose line is. A line
   without its newline was never sent in full, and to kasli it means that
   accept_one threw, be it for a response that was too large to send. *)
ErrorsAreTrue ==
    /\ result[Client] = "too large" => LineIsTooLarge(Client)
    /\ result[Server] = "too large" /\ request # <<>> => LineIsTooLarge(Server)
    /\ result[Server] = "too large" /\ request = <<>> =>
         /\ ~kasli
         /\ Len(script[Client]) > Max /\ ~Has(SubSeq(script[Client], 1, Max + 1))
    /\ kasli /\ result[Server] = "missing newline" =>
         sent[Client] < Len(script[Client]) /\ result[Client] \notin {"none", "ok"}
    /\ result[Client] = "missing newline" => result[Server] \in Errors

(* accept_one comes to an end whatever the peer does, unless its handler does not
   return, and so the next client in the queue has its turn. *)
ServerMovesOn == <>Closed(Server) \/ <>[](pc[Server] = "handle")

(* request_over_unix_socket comes to an end whatever the server does, also when
   its handler never returns. *)
KasliReturns == kasli ~> Closed(Client)

(* To SocketLifecycle, one connection of a listening process is waiting until
   the process is done with it or the client leaves. *)
Socket == INSTANCE SocketLifecycle WITH
    Procs <- {Server}, OnceProcs <- {}, Clients <- {Client}, Backlog <- 0,
    NoFile <- "no file", LeftOver <- "left over",
    path <- Server,
    pc <- [p \in {Server} |-> IF result[Server] = "killed" THEN "gone"
                              ELSE IF pc[Server] \in {"accept", "close", "done"} THEN "accept"
                              ELSE "handle"],
    exitCode <- [p \in {Server} |-> IF result[Server] = "killed" THEN "signal" ELSE "none"],
    restricted <- {Server},
    backlog <- [p \in {Server} |-> IF pc[Server] = "accept" THEN <<Client>> ELSE <<>>],
    handling <- [p \in {Server} |->
                   IF pc[Server] \in {"accept", "close", "done"} THEN "no file" ELSE Client],
    client <- [c \in {Client} |-> IF left THEN "timedout"
                                  ELSE IF result[Server] = "ok" THEN "answered"
                                  ELSE IF result[Server] # "none" THEN "lost"
                                  ELSE "waiting"],
    overlapped <- FALSE

(* The many steps of an exchange are, to the daemon's life, the single ones of
   SocketLifecycle: Accept, then Reply, AcceptOneThrows or Kill, and a client
   that leaves meanwhile. *)
ServedAsBefore == [][Socket!Next]_(Socket!vars)
=============================================================================
