-------------------------- MODULE SocketLifecycle --------------------------
(***************************************************************************)
(* The life of kaslid processes that share one Unix socket path: the       *)
(* constructor, accept loop and destructor of UnixSocketServer             *)
(* (src/ipc/unix_socket.cpp) as main drives them (src/kaslid/main.cpp),    *)
(* one step per system call, with the clients that connect meanwhile.      *)
(*                                                                         *)
(* A process runs once, so it also names the socket inode it binds; the    *)
(* path names an inode, and an inode that lost its name never regains it.  *)
(***************************************************************************)
EXTENDS Integers, Sequences

CONSTANTS
    Procs,       \* kaslid processes, each started at most once
    OnceProcs,   \* the ones run with --once
    Clients,     \* requests of kasli, one connection each
    Backlog,     \* the argument of listen (16 in the code)
    NoFile,      \* the socket path names nothing
    LeftOver     \* the path names a file no process of Procs bound

ASSUME ProcsAssumption ==
    /\ OnceProcs \subseteq Procs
    /\ Procs \cap Clients = {}
    /\ {NoFile, LeftOver} \cap (Procs \cup Clients) = {}
    /\ NoFile # LeftOver
    /\ Backlog \in Nat

VARIABLES
    path,        \* what the socket path names
    pc,          \* where each process is
    exitCode,    \* what a process returned, or that a signal ended it
    restricted,  \* the inodes whose mode is 0600
    backlog,     \* connections not yet accepted, per listening process
    handling,    \* the connection accept_one works on
    client,      \* what each client sees of its request
    overlapped   \* history: two constructors or destructors ran at once

vars == <<path, pc, exitCode, restricted, backlog, handling, client, overlapped>>

Before    == {"exists", "probe", "remove", "bind"}
After     == {"chmod", "listen"}
Serving   == {"accept", "handle", "close"}
InTransit == Before \cup After \cup {"cleanup", "unlink"}
Running   == InTransit \cup Serving
Pcs       == Running \cup {"unborn", "gone"}

Files     == Procs \cup {NoFile, LeftOver}
Nobody    == NoFile
Peers     == Clients \cup Procs
Outcomes  == {"idle", "waiting", "answered", "lost", "timedout",
              "ENOENT", "ECONNREFUSED", "EAGAIN"}

TypeOK ==
    /\ path \in Files
    /\ pc \in [Procs -> Pcs]
    /\ exitCode \in [Procs -> {"none", "zero", "one", "signal"}]
    /\ restricted \subseteq Procs \cup {LeftOver}
    /\ backlog \in [Procs -> Seq(Peers)]
    /\ handling \in [Procs -> Peers \cup {Nobody}]
    /\ client \in [Clients -> Outcomes]
    /\ overlapped \in BOOLEAN

Init ==
    /\ path \in {NoFile, LeftOver}
    /\ pc = [p \in Procs |-> "unborn"]
    /\ exitCode = [p \in Procs |-> "none"]
    /\ restricted = {}
    /\ backlog = [p \in Procs |-> <<>>]
    /\ handling = [p \in Procs |-> Nobody]
    /\ client = [c \in Clients |-> "idle"]
    /\ overlapped = FALSE

-----------------------------------------------------------------------------
(* What the kernel answers to connect(path). A listener queues one connection
   more than its backlog; beyond that a blocking connect waits. *)
Listening(f) == f \in Procs /\ pc[f] \in Serving

ConnectResult ==
    CASE path = NoFile -> "ENOENT"
      [] Listening(path) -> IF Len(backlog[path]) <= Backlog THEN "connected" ELSE "full"
      [] OTHER -> "ECONNREFUSED"

(* The peers in S see their connection closed without an answer. *)
HangUp(S) ==
    client' = [c \in Clients |->
                 IF c \in S /\ client[c] = "waiting" THEN "lost" ELSE client[c]]

Queued(p) == {backlog[p][i] : i \in 1 .. Len(backlog[p])}

Exit(p, code) ==
    /\ pc' = [pc EXCEPT ![p] = "gone"]
    /\ exitCode' = [exitCode EXCEPT ![p] = code]

Goto(p, label) == pc' = [pc EXCEPT ![p] = label]

NoteOverlap(p) ==
    overlapped' = (overlapped \/ \E q \in Procs \ {p} : pc[q] \in InTransit)

-----------------------------------------------------------------------------
(* main up to UnixSocketServer's constructor. *)
Launch(p) ==
    /\ pc[p] = "unborn"
    /\ Goto(p, "exists")
    /\ NoteOverlap(p)
    /\ UNCHANGED <<path, exitCode, restricted, backlog, handling, client>>

(* reject_active_socket_or_remove_stale: look, probe, remove. *)
CheckExists(p) ==
    /\ pc[p] = "exists"
    /\ Goto(p, IF path = NoFile THEN "bind" ELSE "probe")
    /\ UNCHANGED <<path, exitCode, restricted, backlog, handling, client, overlapped>>

ProbeFindsServer(p) ==
    /\ pc[p] = "probe"
    /\ ConnectResult = "connected"
    /\ backlog' = [backlog EXCEPT ![path] = Append(@, p)]
    /\ Exit(p, "one")
    /\ UNCHANGED <<path, restricted, handling, client, overlapped>>

(* Mutant: any path that exists is taken for a stale one. *)
ProbeFindsStale_Unprobed(p) ==
    /\ pc[p] = "probe"
    /\ Goto(p, "remove")
    /\ UNCHANGED <<path, exitCode, restricted, backlog, handling, client, overlapped>>

(* Mutant: a stale path is refused as well. *)
ProbeFindsStale_Refuses(p) ==
    /\ pc[p] = "probe"
    /\ ConnectResult \in {"ENOENT", "ECONNREFUSED"}
    /\ Exit(p, "one")
    /\ UNCHANGED <<path, restricted, backlog, handling, client, overlapped>>

ProbeFindsStale(p) ==
    /\ pc[p] = "probe"
    /\ ConnectResult \in {"ENOENT", "ECONNREFUSED"}
    /\ Goto(p, "remove")
    /\ UNCHANGED <<path, exitCode, restricted, backlog, handling, client, overlapped>>

RemoveStale(p) ==
    /\ pc[p] = "remove"
    /\ path' = NoFile
    /\ Goto(p, "bind")
    /\ UNCHANGED <<exitCode, restricted, backlog, handling, client, overlapped>>

(* Mutant: the mode is left as the umask has it. *)
Bind_NoChmod(p) ==
    /\ pc[p] = "bind"
    /\ IF path = NoFile
       THEN path' = p /\ Goto(p, "listen") /\ UNCHANGED exitCode
       ELSE Exit(p, "one") /\ UNCHANGED path
    /\ UNCHANGED <<restricted, backlog, handling, client, overlapped>>

(* Mutant: EADDRINUSE is tried again. *)
Bind_Retries(p) ==
    /\ pc[p] = "bind"
    /\ IF path = NoFile
       THEN path' = p /\ Goto(p, "chmod")
       ELSE UNCHANGED <<path, pc>>
    /\ UNCHANGED <<exitCode, restricted, backlog, handling, client, overlapped>>

(* bind creates the file, and fails with EADDRINUSE when there is one. *)
Bind(p) ==
    /\ pc[p] = "bind"
    /\ IF path = NoFile
       THEN path' = p /\ Goto(p, "chmod") /\ UNCHANGED exitCode
       ELSE Exit(p, "one") /\ UNCHANGED path
    /\ UNCHANGED <<restricted, backlog, handling, client, overlapped>>

(* restrict_socket_path goes by name: it changes whatever the path names. *)
RestrictPath(p) ==
    /\ pc[p] = "chmod"
    /\ IF path = NoFile
       THEN Goto(p, "cleanup") /\ UNCHANGED restricted
       ELSE Goto(p, "listen") /\ restricted' = restricted \cup {path}
    /\ UNCHANGED <<path, exitCode, backlog, handling, client, overlapped>>

Listen(p) ==
    /\ pc[p] = "listen"
    /\ Goto(p, "accept")
    /\ UNCHANGED <<path, exitCode, restricted, backlog, handling, client, overlapped>>

(* Any other error of the set-up: before bind there is nothing to undo, after
   it the catch clause closes the descriptor and removes the path by name. *)
FailBeforeBind(p) ==
    /\ pc[p] \in Before
    /\ Exit(p, "one")
    /\ UNCHANGED <<path, restricted, backlog, handling, client, overlapped>>

FailAfterBind(p) ==
    /\ pc[p] \in After
    /\ Goto(p, "cleanup")
    /\ UNCHANGED <<path, exitCode, restricted, backlog, handling, client, overlapped>>

Cleanup(p) ==
    /\ pc[p] = "cleanup"
    /\ path' \in {NoFile, path}
    /\ Exit(p, "one")
    /\ UNCHANGED <<restricted, backlog, handling, client, overlapped>>

-----------------------------------------------------------------------------
(* accept_one in main's loop. A probe sends nothing and is closed, so reading
   its request throws; with --once either end of accept_one leaves the loop. *)
Accept(p) ==
    /\ pc[p] = "accept"
    /\ backlog[p] # <<>>
    /\ handling' = [handling EXCEPT ![p] = Head(backlog[p])]
    /\ backlog' = [backlog EXCEPT ![p] = Tail(@)]
    /\ Goto(p, "handle")
    /\ UNCHANGED <<path, exitCode, restricted, client, overlapped>>

LoopOrLeave(p, code) ==
    IF p \in OnceProcs
    THEN Goto(p, "close") /\ exitCode' = [exitCode EXCEPT ![p] = code]
    ELSE Goto(p, "accept") /\ UNCHANGED exitCode

Reply(p) ==
    /\ pc[p] = "handle"
    /\ handling[p] \in Clients
    /\ client' = [client EXCEPT ![handling[p]] = IF @ = "waiting" THEN "answered" ELSE @]
    /\ handling' = [handling EXCEPT ![p] = Nobody]
    /\ LoopOrLeave(p, "zero")
    /\ UNCHANGED <<path, restricted, backlog, overlapped>>

(* Mutant: the descriptor of the client is not closed. *)
AcceptOneThrows_Leaks(p) ==
    /\ pc[p] = "handle"
    /\ handling' = [handling EXCEPT ![p] = Nobody]
    /\ LoopOrLeave(p, "one")
    /\ UNCHANGED <<path, restricted, backlog, client, overlapped>>

(* Mutant: a connection that ends without a request is read again. *)
AcceptOneThrows_Rereads(p) ==
    /\ pc[p] = "handle" /\ handling[p] \in Clients
    /\ HangUp({handling[p]})
    /\ handling' = [handling EXCEPT ![p] = Nobody]
    /\ LoopOrLeave(p, "one")
    /\ UNCHANGED <<path, restricted, backlog, overlapped>>

AcceptOneThrows(p) ==
    /\ pc[p] = "handle"
    /\ HangUp({handling[p]})
    /\ handling' = [handling EXCEPT ![p] = Nobody]
    /\ LoopOrLeave(p, "one")
    /\ UNCHANGED <<path, restricted, backlog, overlapped>>

(* accept itself fails; without --once main logs it and tries again. *)
AcceptFails(p) ==
    /\ pc[p] = "accept"
    /\ p \in OnceProcs
    /\ LoopOrLeave(p, "one")
    /\ UNCHANGED <<path, restricted, backlog, handling, client, overlapped>>

(* The destructor: close the descriptor, then remove the path by name. *)
CloseListener(p) ==
    /\ pc[p] = "close"
    /\ HangUp(Queued(p))
    /\ backlog' = [backlog EXCEPT ![p] = <<>>]
    /\ Goto(p, "unlink")
    /\ NoteOverlap(p)
    /\ UNCHANGED <<path, exitCode, restricted, handling>>

Unlink(p) ==
    /\ pc[p] = "unlink"
    /\ path' \in {NoFile, path}
    /\ Goto(p, "gone")
    /\ UNCHANGED <<exitCode, restricted, backlog, handling, client, overlapped>>

(* A signal: main installs no handler, so no destructor runs. *)
Kill(p) ==
    /\ pc[p] \in Running
    /\ HangUp(Queued(p) \cup {handling[p]})
    /\ backlog' = [backlog EXCEPT ![p] = <<>>]
    /\ handling' = [handling EXCEPT ![p] = Nobody]
    /\ Exit(p, "signal")
    /\ UNCHANGED <<path, restricted, overlapped>>

-----------------------------------------------------------------------------
(* request_over_unix_socket: connect and send, then wait for the answer. *)
Connect(c) ==
    /\ client[c] = "idle"
    /\ IF ConnectResult = "connected"
       THEN /\ backlog' = [backlog EXCEPT ![path] = Append(@, c)]
            /\ client' = [client EXCEPT ![c] = "waiting"]
       ELSE /\ client' = [client EXCEPT ![c] =
                            IF ConnectResult = "full" THEN "EAGAIN" ELSE ConnectResult]
            /\ UNCHANGED backlog
    /\ UNCHANGED <<path, pc, exitCode, restricted, handling, overlapped>>

(* A request that was not sent may be tried again by its caller. *)
Retry(c) ==
    /\ client[c] \in {"ENOENT", "ECONNREFUSED"}
    /\ client' = [client EXCEPT ![c] = "idle"]
    /\ UNCHANGED <<path, pc, exitCode, restricted, backlog, handling, overlapped>>

(* The 5 s receive timeout; the request stays with the server. *)
ClientTimeout(c) ==
    /\ client[c] = "waiting"
    /\ client' = [client EXCEPT ![c] = "timedout"]
    /\ UNCHANGED <<path, pc, exitCode, restricted, backlog, handling, overlapped>>

-----------------------------------------------------------------------------
Construct(p) ==
    \/ CheckExists(p) \/ ProbeFindsServer(p) \/ ProbeFindsStale(p) \/ RemoveStale(p)
    \/ Bind(p) \/ RestrictPath(p) \/ Listen(p) \/ Cleanup(p)

Serve(p) == Accept(p) \/ Reply(p) \/ AcceptOneThrows(p)

Destroy(p) == CloseListener(p) \/ Unlink(p)

ProcStep(p) ==
    \/ Launch(p) \/ Construct(p) \/ FailBeforeBind(p) \/ FailAfterBind(p)
    \/ Serve(p) \/ AcceptFails(p) \/ Destroy(p) \/ Kill(p)

ClientStep(c) == Connect(c) \/ Retry(c) \/ ClientTimeout(c)

Next ==
    \/ \E p \in Procs : ProcStep(p)
    \/ \E c \in Clients : ClientStep(c)

Spec == Init /\ [][Next]_vars

-----------------------------------------------------------------------------
(* The socket a client can reach by its path is owner-only before the first
   connection can be made: chmod comes before listen, and an inode that lost
   its name while chmod went by name can no longer be reached. *)
ReachableIsOwnerOnly == Listening(path) => path \in restricted

(* A listening process is the one its path leads to, and so is alone, as long
   as no constructor or destructor ran during another one: a start beside a
   live server gives up, a crash leaves a path the next start replaces. *)
SerialStartsShareNothing ==
    ~overlapped => \A p \in Procs : Listening(p) => path = p

(* The same without the condition, as README takes it for granted when it runs
   one daemon with --once after the other, "Each command starts the daemon for
   a single request". *)
ListenerIsReachable == \A p \in Procs : Listening(p) => path = p

(* A connection is held by one process at a time, and a client waits only
   while a live process holds its connection: however the process ends, a
   queued or accepted client is told. *)
Holds(p, c) == handling[p] = c \/ c \in Queued(p)

WaitingIsHeld ==
    \A c \in Clients : client[c] = "waiting" =>
        \E p \in Procs : Holds(p, c) /\ Listening(p)

(* A start comes to an end: the process serves or is gone. *)
StartSettles ==
    \A p \in Procs : pc[p] \in InTransit ~> pc[p] \in Serving \cup {"gone"}

(* A client that connected hears of its request, without its own timeout. *)
WaitingClientHears ==
    \A c \in Clients : client[c] = "waiting" ~> client[c] # "waiting"
=============================================================================
