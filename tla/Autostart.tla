----------------------------- MODULE Autostart -----------------------------
(***************************************************************************)
(* kasli with on-demand start (src/app/daemon_autostart.cpp) composed with *)
(* the daemons of SocketLifecycle and the systemd user unit that           *)
(* packaging/systemd/user/kaslid.service describes. Each client of         *)
(* SocketLifecycle is one run of kasli; its connection attempts are        *)
(* SocketLifecycle's Connect. The service manager is modelled from how the *)
(* code uses it: start is a no-op while the unit's process runs, returns   *)
(* once the process is forked (Type=simple), and a unit whose process      *)
(* failed is started again (Restart=on-failure).                           *)
(***************************************************************************)
EXTENDS SocketLifecycle

CONSTANTS
    UnitProcs,   \* the processes systemd may start, the others are run by hand
    Explicit,    \* the runs of kasli with --socket, which never start the unit
    MaxPolls     \* max_wait / poll_interval (20 in the code)

ASSUME AutostartAssumption ==
    /\ UnitProcs \subseteq Procs \ OnceProcs
    /\ Explicit \subseteq Clients
    /\ MaxPolls \in Nat

VARIABLES
    cli,         \* where each run of kasli is
    polls,       \* waited / poll_interval in request_after_start
    sent         \* history: how often a run's request reached a server

avars == <<vars, cli, polls, sent>>

Attempts == {"first", "again"}
Finished == {"answered", "failed", "nostart", "notready"}
CliPcs   == Attempts \cup {"start", "look", "sleep"} \cup Finished

ATypeOK ==
    /\ TypeOK
    /\ cli \in [Clients -> CliPcs]
    /\ polls \in [Clients -> 0 .. MaxPolls]
    /\ sent \in [Clients -> Nat]

AInit ==
    /\ Init
    /\ cli = [c \in Clients |-> "first"]
    /\ polls = [c \in Clients |-> 0]
    /\ sent = [c \in Clients |-> 0]

-----------------------------------------------------------------------------
UnitRuns == \E p \in UnitProcs : pc[p] \in Running

CliGoto(c, label) == cli' = [cli EXCEPT ![c] = label]

(* deps.request: one connection attempt. *)
Attempt(c) ==
    /\ cli[c] \in Attempts
    /\ Connect(c)
    /\ sent' = IF client'[c] = "waiting" THEN [sent EXCEPT ![c] = @ + 1] ELSE sent
    /\ UNCHANGED <<cli, polls>>

(* Mutant: any failed request is tried again. *)
NotReady_AnyFailure(c) == client[c] \in {"ENOENT", "ECONNREFUSED", "lost", "timedout"}

(* Mutant: a server whose queue is full counts as absent. *)
NotReady_FullQueue(c) == client[c] \in {"ENOENT", "ECONNREFUSED", "EAGAIN"}

(* Its result. Only a connect error that says nobody listens is retried, after
   a start the first time; a request that was sent is never sent again. *)
NotReady(c) == client[c] \in {"ENOENT", "ECONNREFUSED"}

RequestEnds(c) ==
    /\ cli[c] \in Attempts
    /\ client[c] \notin {"idle", "waiting"} /\ ~NotReady(c)
    /\ CliGoto(c, IF client[c] = "answered" THEN "answered" ELSE "failed")
    /\ UNCHANGED <<vars, polls, sent>>

NobodyListens(c) ==
    /\ cli[c] \in Attempts
    /\ NotReady(c)
    /\ CliGoto(c, IF cli[c] = "again" THEN "sleep"
                  ELSE IF c \in Explicit THEN "failed" ELSE "start")
    /\ client' = [client EXCEPT ![c] = "idle"]
    /\ UNCHANGED <<path, pc, exitCode, restricted, backlog, handling, overlapped, polls, sent>>

(* systemctl --user start kaslid. *)
StartForks(c) ==
    /\ cli[c] = "start"
    /\ ~UnitRuns
    /\ \E p \in UnitProcs : Launch(p)
    /\ CliGoto(c, "look")
    /\ UNCHANGED <<polls, sent>>

StartIsNoOp(c) ==
    /\ cli[c] = "start"
    /\ UnitRuns
    /\ CliGoto(c, "look")
    /\ UNCHANGED <<vars, polls, sent>>

StartFails(c) ==
    /\ cli[c] = "start"
    /\ CliGoto(c, "nostart")
    /\ UNCHANGED <<vars, polls, sent>>

(* request_after_start: look for the path, try, sleep, give up. *)
Look(c) ==
    /\ cli[c] = "look"
    /\ CliGoto(c, IF path = NoFile THEN "sleep" ELSE "again")
    /\ UNCHANGED <<vars, polls, sent>>

(* Mutant: one poll too many. *)
Sleep_OneTooMany(c) ==
    /\ cli[c] = "sleep"
    /\ IF polls[c] > MaxPolls
       THEN CliGoto(c, "notready") /\ UNCHANGED polls
       ELSE CliGoto(c, "look") /\ polls' = [polls EXCEPT ![c] = @ + 1]
    /\ UNCHANGED <<vars, sent>>

(* Mutant: the time that was waited is not added up. *)
Sleep_Uncounted(c) ==
    /\ cli[c] = "sleep"
    /\ CliGoto(c, "look")
    /\ UNCHANGED <<vars, polls, sent>>

Sleep(c) ==
    /\ cli[c] = "sleep"
    /\ IF polls[c] = MaxPolls
       THEN CliGoto(c, "notready") /\ UNCHANGED polls
       ELSE CliGoto(c, "look") /\ polls' = [polls EXCEPT ![c] = @ + 1]
    /\ UNCHANGED <<vars, sent>>

CliStep(c) ==
    \/ Attempt(c) \/ RequestEnds(c) \/ NobodyListens(c)
    \/ StartForks(c) \/ StartIsNoOp(c) \/ StartFails(c) \/ Look(c) \/ Sleep(c)

(* systemd replaces a unit process that failed; a user runs the others. *)
UnitFailed == \E p \in UnitProcs : pc[p] = "gone" /\ exitCode[p] \in {"one", "signal"}

UnitRestarts ==
    /\ UnitFailed /\ ~UnitRuns
    /\ \E p \in UnitProcs : Launch(p)
    /\ UNCHANGED <<cli, polls, sent>>

RunByHand ==
    /\ \E p \in Procs \ UnitProcs : Launch(p)
    /\ UNCHANGED <<cli, polls, sent>>

DaemonStep(p) ==
    /\ \/ Construct(p) \/ Serve(p) \/ Destroy(p)
    /\ UNCHANGED <<cli, polls, sent>>

Mishap(p) ==
    /\ \/ FailBeforeBind(p) \/ FailAfterBind(p) \/ AcceptFails(p) \/ Kill(p)
    /\ UNCHANGED <<cli, polls, sent>>

CliTimeout(c) ==
    /\ ClientTimeout(c)
    /\ UNCHANGED <<cli, polls, sent>>

-----------------------------------------------------------------------------
(* The part of the next-state relation in which nothing goes wrong by itself. *)
CalmNext ==
    \/ \E c \in Clients : CliStep(c)
    \/ \E p \in Procs : DaemonStep(p)
    \/ UnitRestarts \/ RunByHand

ANext ==
    \/ CalmNext
    \/ \E p \in Procs : Mishap(p)
    \/ \E c \in Clients : CliTimeout(c)

ASpec == AInit /\ [][ANext]_avars

(* Programs that can run do run: kasli, and the daemons. Nothing makes a start
   by hand, a restart, a signal, an error or a timeout happen. *)
AFairness ==
    /\ \A c \in Clients : WF_avars(CliStep(c))
    /\ \A p \in Procs : WF_avars(DaemonStep(p))

AFairSpec == ASpec /\ AFairness

(* The same without mishaps and timeouts. *)
CalmSpec == AInit /\ [][CalmNext]_avars /\ AFairness

-----------------------------------------------------------------------------
(* The retries never deliver a request twice, and a run that reports that the
   daemon could not be started or was not ready has not delivered it at all,
   so it is safe to repeat. *)
SentAtMostOnce ==
    \A c \in Clients :
        /\ sent[c] <= 1
        /\ cli[c] \in {"nostart", "notready"} => sent[c] = 0

(* To the daemons, kasli and systemd do nothing that SocketLifecycle does not
   allow: what it shows of them holds here. *)
DaemonsAsBefore == Spec

(* A run of kasli ends, whatever happens to the daemons meanwhile. *)
CliFinishes == \A c \in Clients : <>(cli[c] \in Finished)

(* When only systemd runs daemons, one start is enough: a daemon listens at the
   path, though the run that asked for it may have given up by then. *)
StartLeadsToServer ==
    \A c \in Clients : cli[c] = "look" ~> Listening(path)
=============================================================================
