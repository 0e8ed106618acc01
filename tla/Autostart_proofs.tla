-------------------------- MODULE Autostart_proofs --------------------------
(* Theorems of SocketLifecycle, for any set of processes and clients, and of
   Autostart, its composition with kasli, for any number of polls. *)
EXTENDS Autostart, TLAPS

(* Every variable keeps its type: in particular exit codes, queues and the
   file the path names stay within what the code can produce. *)
THEOREM TypeCorrect == Spec => []TypeOK
<1>1. Init => TypeOK
  <2> SUFFICES ASSUME Init PROVE TypeOK
    OBVIOUS
  <2>1. pc \in [Procs -> Pcs]
    BY DEF Init, Pcs
  <2>2. backlog \in [Procs -> Seq(Peers)]
    BY DEF Init
  <2>3. client \in [Clients -> Outcomes]
    BY DEF Init, Outcomes
  <2> QED BY <2>1, <2>2, <2>3 DEF Init, TypeOK, Files, Nobody
<1>2. TypeOK /\ [Next]_vars => TypeOK'
  <2> SUFFICES ASSUME TypeOK, [Next]_vars PROVE TypeOK'
    OBVIOUS
  <2> USE DEF TypeOK, Goto, Exit, Before, After, Serving, InTransit, Running, Pcs, Files, Peers
  <2>1. CASE UNCHANGED vars
    BY <2>1 DEF vars
  <2>2. ASSUME NEW p \in Procs, Launch(p) PROVE TypeOK'
    BY <2>2 DEF Launch, NoteOverlap
  <2>3. ASSUME NEW p \in Procs, Construct(p) PROVE TypeOK'
    <3>1. CASE ProbeFindsServer(p)
      <4>1. path \in Procs
        BY <3>1 DEF ProbeFindsServer, ConnectResult, Listening
      <4>2. backlog' \in [Procs -> Seq(Peers)]
        BY <4>1, <3>1 DEF ProbeFindsServer
      <4> QED BY <4>2, <3>1 DEF ProbeFindsServer
    <3>2. CASE CheckExists(p) BY <3>2 DEF CheckExists
    <3>3. CASE ProbeFindsStale(p) BY <3>3 DEF ProbeFindsStale
    <3>4. CASE RemoveStale(p) BY <3>4 DEF RemoveStale
    <3>5. CASE Bind(p) BY <3>5 DEF Bind
    <3>6. CASE RestrictPath(p) BY <3>6 DEF RestrictPath
    <3>7. CASE Listen(p) BY <3>7 DEF Listen
    <3>8. CASE Cleanup(p) BY <3>8 DEF Cleanup
    <3> QED BY <2>3, <3>1, <3>2, <3>3, <3>4, <3>5, <3>6, <3>7, <3>8 DEF Construct
  <2>4. ASSUME NEW p \in Procs, FailBeforeBind(p) PROVE TypeOK'
    BY <2>4 DEF FailBeforeBind
  <2>5. ASSUME NEW p \in Procs, FailAfterBind(p) PROVE TypeOK'
    BY <2>5 DEF FailAfterBind
  <2>6. ASSUME NEW p \in Procs, Serve(p) \/ AcceptFails(p) PROVE TypeOK'
    <3> USE DEF LoopOrLeave
    <3>1. CASE Accept(p) BY <3>1 DEF Accept
    <3>2. CASE Reply(p) BY <3>2 DEF Reply, Outcomes, Nobody
    <3>3. CASE AcceptOneThrows(p) BY <3>3 DEF AcceptOneThrows, HangUp, Outcomes, Nobody
    <3>4. CASE AcceptFails(p) BY <3>4 DEF AcceptFails
    <3> QED BY <2>6, <3>1, <3>2, <3>3, <3>4 DEF Serve
  <2>7. ASSUME NEW p \in Procs, Destroy(p) PROVE TypeOK'
    <3>1. CASE CloseListener(p)
      <4>1. backlog' \in [Procs -> Seq(Peers)]
        BY <3>1 DEF CloseListener
      <4>2. overlapped' \in BOOLEAN
        BY <3>1 DEF CloseListener, NoteOverlap
      <4>3. client' \in [Clients -> Outcomes]
        BY <3>1 DEF CloseListener, HangUp, Outcomes
      <4> QED BY <3>1, <4>1, <4>2, <4>3 DEF CloseListener
    <3>2. CASE Unlink(p)
      BY <3>2 DEF Unlink
    <3> QED BY <2>7, <3>1, <3>2 DEF Destroy
  <2>8. ASSUME NEW p \in Procs, Kill(p) PROVE TypeOK'
    BY <2>8 DEF Kill, HangUp, Outcomes, Nobody
  <2>9. ASSUME NEW c \in Clients, Connect(c) PROVE TypeOK'
    <3>1. CASE ConnectResult = "connected"
      <4>1. path \in Procs
        BY <3>1 DEF ConnectResult, Listening
      <4>2. backlog' \in [Procs -> Seq(Peers)]
        <5>1. backlog' = [backlog EXCEPT ![path] = Append(backlog[path], c)]
          BY <2>9, <3>1 DEF Connect
        <5>2. Append(backlog[path], c) \in Seq(Peers)
          BY <4>1
        <5> QED BY <5>1, <5>2, <4>1
      <4>3. client' \in [Clients -> Outcomes]
        BY <2>9, <3>1 DEF Connect, Outcomes
      <4> QED BY <2>9, <4>2, <4>3 DEF Connect
    <3>2. CASE ConnectResult # "connected"
      <4>1. ConnectResult \in {"ENOENT", "ECONNREFUSED", "full"}
        BY <3>2 DEF ConnectResult
      <4> QED BY <2>9, <3>2, <4>1 DEF Connect, Outcomes
    <3> QED BY <3>1, <3>2
  <2>10. ASSUME NEW c \in Clients, Retry(c) \/ ClientTimeout(c) PROVE TypeOK'
    BY <2>10 DEF Retry, ClientTimeout, Outcomes
  <2> QED
    BY <2>1, <2>2, <2>3, <2>4, <2>5, <2>6, <2>7, <2>8, <2>9, <2>10
    DEF Next, ProcStep, ClientStep
<1> QED BY <1>1, <1>2, PTL DEF Spec

-----------------------------------------------------------------------------
(* A path never names a process that has not bound yet, and once its own chmod
   is behind it a process the path still names has an owner-only inode. *)
PathIsBound ==
    \A p \in Procs : path = p => pc[p] \notin Before \cup {"unborn"}

RestrictedBeforeListen ==
    \A p \in Procs : path = p /\ pc[p] \in Serving \cup {"listen"} => p \in restricted

OwnerOnlyInv == TypeOK /\ PathIsBound /\ RestrictedBeforeListen

(* Without overlap at most one process is in its constructor or destructor;
   one that is past its probe, or on its way out, has no server beside it. *)
NobodyServes == \A q \in Procs : pc[q] \notin Serving

SerialInv ==
    ~overlapped =>
      \A p \in Procs :
        /\ pc[p] \in InTransit => \A q \in Procs : pc[q] \in InTransit => p = q
        /\ pc[p] \in Serving => path = p
        /\ pc[p] \in InTransit \ {"exists", "probe"} => NobodyServes
        /\ pc[p] \in After => path = p

(* Whatever the interleaving of starts, exits, errors and signals, the socket a
   client can connect to has mode 0600: restrict_socket_path precedes listen. *)
THEOREM OwnerOnly == Spec => []ReachableIsOwnerOnly
<1>1. Init => PathIsBound /\ RestrictedBeforeListen
  BY ProcsAssumption DEF Init, PathIsBound, RestrictedBeforeListen
<1>2. OwnerOnlyInv /\ [Next]_vars => (PathIsBound /\ RestrictedBeforeListen)'
  <2> SUFFICES ASSUME OwnerOnlyInv, [Next]_vars
               PROVE  (PathIsBound /\ RestrictedBeforeListen)'
    OBVIOUS
  <2> USE DEF OwnerOnlyInv, PathIsBound, RestrictedBeforeListen, TypeOK, Goto, Exit,
              Before, After, Serving, InTransit, Running
  <2>1. CASE UNCHANGED vars
    BY <2>1 DEF vars
  <2>2. ASSUME NEW p \in Procs, Construct(p)
        PROVE  (PathIsBound /\ RestrictedBeforeListen)'
    <3>1. CASE CheckExists(p) BY <3>1 DEF CheckExists
    <3>2. CASE ProbeFindsServer(p) BY <3>2 DEF ProbeFindsServer
    <3>3. CASE ProbeFindsStale(p) BY <3>3 DEF ProbeFindsStale
    <3>4. CASE RemoveStale(p) BY <3>4, ProcsAssumption DEF RemoveStale
    <3>5. CASE Bind(p) BY <3>5 DEF Bind
    <3>6. CASE RestrictPath(p) BY <3>6 DEF RestrictPath
    <3>7. CASE Listen(p) BY <3>7 DEF Listen
    <3>8. CASE Cleanup(p) BY <3>8, ProcsAssumption DEF Cleanup
    <3> QED BY <2>2, <3>1, <3>2, <3>3, <3>4, <3>5, <3>6, <3>7, <3>8 DEF Construct
  <2>3. ASSUME NEW p \in Procs, Launch(p) \/ FailBeforeBind(p) \/ FailAfterBind(p)
        PROVE  (PathIsBound /\ RestrictedBeforeListen)'
    BY <2>3 DEF Launch, FailBeforeBind, FailAfterBind
  <2>4. ASSUME NEW p \in Procs, Serve(p) \/ AcceptFails(p)
        PROVE  (PathIsBound /\ RestrictedBeforeListen)'
    BY <2>4 DEF Serve, Accept, Reply, AcceptOneThrows, AcceptFails, LoopOrLeave
  <2>5. ASSUME NEW p \in Procs, Destroy(p) \/ Kill(p)
        PROVE  (PathIsBound /\ RestrictedBeforeListen)'
    BY <2>5, ProcsAssumption DEF Destroy, CloseListener, Unlink, Kill
  <2>6. ASSUME NEW c \in Clients, ClientStep(c)
        PROVE  (PathIsBound /\ RestrictedBeforeListen)'
    BY <2>6 DEF ClientStep, Connect, Retry, ClientTimeout
  <2> QED BY <2>1, <2>2, <2>3, <2>4, <2>5, <2>6 DEF Next, ProcStep
<1>3. OwnerOnlyInv => ReachableIsOwnerOnly
  BY DEF OwnerOnlyInv, RestrictedBeforeListen, ReachableIsOwnerOnly, Listening
<1> QED BY <1>1, <1>2, <1>3, TypeCorrect, PTL DEF Spec, OwnerOnlyInv

-----------------------------------------------------------------------------
(* While starts and exits do not overlap, a listening daemon is the one the
   path names, hence the only one: the probe of a second start finds it, and a
   destructor removes no path but its own. *)
THEOREM SerialStarts == Spec => []SerialStartsShareNothing
<1>1. Init => SerialInv
  BY DEF Init, SerialInv, InTransit, Before, After, Serving
<1>2. TypeOK /\ SerialInv /\ [Next]_vars => SerialInv'
  <2> SUFFICES ASSUME TypeOK, SerialInv, [Next]_vars, ~overlapped' PROVE SerialInv'
    BY DEF SerialInv
  <2> USE DEF TypeOK, SerialInv, NobodyServes, Goto, Exit, Before, After, Serving, InTransit, Running
  <2>1. CASE UNCHANGED vars
    BY <2>1 DEF vars
  <2>2. ASSUME NEW p \in Procs, Construct(p) PROVE SerialInv'
    <3>1. CASE CheckExists(p)
      BY <3>1, ProcsAssumption DEF CheckExists
    <3>2. CASE ProbeFindsServer(p) BY <3>2 DEF ProbeFindsServer
    <3>3. CASE ProbeFindsStale(p)
      <4>1. ~Listening(path)
        BY <3>3, ProcsAssumption DEF ProbeFindsStale, ConnectResult, Listening
      <4> QED BY <3>3, <4>1 DEF ProbeFindsStale, Listening
    <3>4. CASE RemoveStale(p) BY <3>4 DEF RemoveStale
    <3>5. CASE Bind(p)
      <4>0. pc[p] \in InTransit \ {"exists", "probe"} /\ ~overlapped
        BY <3>5 DEF Bind
      <4>1. \A q \in Procs \ {p} : pc[q] \notin InTransit \cup Serving
        <5> HIDE DEF TypeOK, InTransit, Serving, Running, Before, After
        <5>1. \A q \in Procs : pc[q] \in InTransit => p = q
          BY <4>0, Zenon
        <5>2. \A q \in Procs : pc[q] \notin Serving
          BY <4>0, Zenon
        <5>3. ASSUME NEW q \in Procs, q # p PROVE pc[q] \notin InTransit \cup Serving
          <6>1. pc[q] \notin InTransit
            BY <5>1, <5>3, Zenon
          <6>2. pc[q] \notin Serving
            BY <5>2, Zenon
          <6> QED BY <6>1, <6>2, Zenon
        <5> QED BY <5>3, Zenon
      <4>2. /\ pc' \in [Procs -> Pcs] /\ pc'[p] \in {"chmod", "gone"}
            /\ pc'[p] = "chmod" => path' = p
            /\ \A q \in Procs \ {p} : pc'[q] = pc[q]
        BY <3>5 DEF Bind, Pcs
      <4>3. pc'[p] \notin Serving
        BY <4>2
      <4>4. \A q \in Procs \ {p} : pc'[q] \notin InTransit \cup Serving
        BY <4>1, <4>2, Zenon
      <4>5. NobodyServes'
        BY <4>3, <4>4
      <4>6. ASSUME NEW q \in Procs
            PROVE  /\ pc'[q] \in InTransit => \A r \in Procs : pc'[r] \in InTransit => q = r
                   /\ pc'[q] \notin Serving
                   /\ pc'[q] \in After => path' = q
        <5>1. CASE q = p
          BY <4>2, <4>3, <4>4, <5>1
        <5>2. CASE q # p
          BY <4>4, <5>2
        <5> QED BY <5>1, <5>2
      <4> QED BY <4>5, <4>6
    <3>6. CASE RestrictPath(p) BY <3>6 DEF RestrictPath
    <3>7. CASE Listen(p) BY <3>7 DEF Listen
    <3>8. CASE Cleanup(p) BY <3>8 DEF Cleanup
    <3> QED BY <2>2, <3>1, <3>2, <3>3, <3>4, <3>5, <3>6, <3>7, <3>8 DEF Construct
  <2>3. ASSUME NEW p \in Procs, Launch(p) PROVE SerialInv'
    BY <2>3 DEF Launch, NoteOverlap
  <2>4. ASSUME NEW p \in Procs, FailBeforeBind(p) \/ FailAfterBind(p) PROVE SerialInv'
    BY <2>4 DEF FailBeforeBind, FailAfterBind
  <2>5. ASSUME NEW p \in Procs, Serve(p) \/ AcceptFails(p) PROVE SerialInv'
    BY <2>5 DEF Serve, Accept, Reply, AcceptOneThrows, AcceptFails, LoopOrLeave
  <2>6. ASSUME NEW p \in Procs, Destroy(p) PROVE SerialInv'
    <3>1. CASE CloseListener(p)
      <4>1. \A q \in Procs \ {p} : pc[q] \notin InTransit \cup Serving
        BY <3>1 DEF CloseListener, NoteOverlap
      <4> QED BY <3>1, <4>1 DEF CloseListener
    <3>2. CASE Unlink(p) BY <3>2 DEF Unlink
    <3> QED BY <2>6, <3>1, <3>2 DEF Destroy
  <2>7. ASSUME NEW p \in Procs, Kill(p) PROVE SerialInv'
    BY <2>7 DEF Kill
  <2>8. ASSUME NEW c \in Clients, ClientStep(c) PROVE SerialInv'
    BY <2>8 DEF ClientStep, Connect, Retry, ClientTimeout
  <2> QED BY <2>1, <2>2, <2>3, <2>4, <2>5, <2>6, <2>7, <2>8 DEF Next, ProcStep
<1>3. SerialInv => SerialStartsShareNothing
  BY DEF SerialInv, SerialStartsShareNothing, Listening
<1> QED BY <1>1, <1>2, <1>3, TypeCorrect, PTL DEF Spec

-----------------------------------------------------------------------------
Elements(s) == {s[i] : i \in 1 .. Len(s)}

(* A connection that is queued stays in the queue when another one is added. *)
LEMMA QueueAppends ==
    ASSUME NEW s \in Seq(Peers), NEW x \in Peers, NEW y, y \in Elements(s) \/ y = x
    PROVE  y \in Elements(Append(s, x))
<1> DEFINE t == Append(s, x)
<1>1. Len(t) = Len(s) + 1 /\ Len(s) \in Nat /\ t[Len(s) + 1] = x
  OBVIOUS
<1>2. \A i \in 1 .. Len(s) : t[i] = s[i]
  OBVIOUS
<1>3. CASE y = x
  <2>1. Len(s) + 1 \in 1 .. Len(t)
    BY <1>1
  <2> QED BY <1>1, <1>3, <2>1 DEF Elements
<1>4. CASE y \in Elements(s)
  <2>1. PICK i \in 1 .. Len(s) : y = s[i]
    BY <1>4 DEF Elements
  <2>2. i \in 1 .. Len(t) /\ t[i] = y
    BY <2>1, <1>1, <1>2
  <2> QED BY <2>2 DEF Elements
<1> QED BY <1>3, <1>4

(* Only the head of the queue leaves it when accept takes one. *)
LEMMA QueueServes ==
    ASSUME NEW s \in Seq(Peers), s # <<>>, NEW y \in Elements(s)
    PROVE  y = Head(s) \/ y \in Elements(Tail(s))
<1>1. PICK i \in 1 .. Len(s) : y = s[i]
  BY DEF Elements
<1>2. CASE i = 1
  BY <1>1, <1>2
<1>3. CASE i # 1
  <2>1. i - 1 \in 1 .. Len(Tail(s)) /\ Tail(s)[i - 1] = s[i]
    BY <1>1, <1>3
  <2> QED BY <1>1, <2>1 DEF Elements
<1> QED BY <1>2, <1>3

(* A process that is not handling a request has no connection accepted: it is
   this that lets the destructor of one that stops close its queue only. *)
OneAtATime == \A p \in Procs : pc[p] # "handle" => handling[p] = Nobody

HeldInv == TypeOK /\ OneAtATime /\ WaitingIsHeld

(* However a daemon ends, a client is not left waiting on it: every way out of
   accept_one and every end of a process closes what it holds. *)
THEOREM Held == Spec => []WaitingIsHeld
<1>1. Init => OneAtATime /\ WaitingIsHeld
  BY DEF Init, OneAtATime, WaitingIsHeld
<1>2. HeldInv /\ [Next]_vars => (OneAtATime /\ WaitingIsHeld)'
  <2> SUFFICES ASSUME HeldInv, [Next]_vars PROVE (OneAtATime /\ WaitingIsHeld)'
    OBVIOUS
  <2>0. /\ TypeOK /\ OneAtATime /\ WaitingIsHeld
        /\ pc \in [Procs -> Pcs] /\ handling \in [Procs -> Peers \cup {Nobody}]
        /\ backlog \in [Procs -> Seq(Peers)] /\ client \in [Clients -> Outcomes]
    BY DEF HeldInv, TypeOK
  \* What remains to be shown of a step by which no client begins to wait.
  <2>h. ASSUME OneAtATime',
               \A c \in Clients : client'[c] = "waiting" => client[c] = "waiting",
               \A c \in Clients, p \in Procs :
                 client'[c] = "waiting" /\ Holds(p, c) /\ pc[p] \in Serving
                   => Holds(p, c)' /\ pc'[p] \in Serving
        PROVE  (OneAtATime /\ WaitingIsHeld)'
    BY <2>0, <2>h DEF WaitingIsHeld, Listening
  <2>1. CASE UNCHANGED vars
    BY <2>0, <2>1 DEF vars, OneAtATime, WaitingIsHeld, Holds, Queued, Listening
  \* Steps that leave the queues alone and move a process from and to places
  \* where it serves nobody.
  <2>2. ASSUME NEW p \in Procs, pc[p] \notin Serving, UNCHANGED <<handling, backlog, client>>,
               pc' \in [Procs -> Pcs], pc'[p] # "handle", \A q \in Procs \ {p} : pc'[q] = pc[q]
        PROVE  (OneAtATime /\ WaitingIsHeld)'
    <3>1. OneAtATime'
      BY <2>0, <2>2 DEF OneAtATime, Serving
    <3> QED BY <2>h, <2>2, <3>1 DEF Holds, Queued
  <2>3. ASSUME NEW p \in Procs, Launch(p) PROVE (OneAtATime /\ WaitingIsHeld)'
    BY <2>0, <2>2, <2>3 DEF Launch, Goto, Serving, Pcs, Running, InTransit, Before
  <2>4. ASSUME NEW p \in Procs, Construct(p) PROVE (OneAtATime /\ WaitingIsHeld)'
    <3>1. CASE ProbeFindsServer(p)
      <4>1. path \in Procs /\ pc[p] = "probe" /\ pc' = [pc EXCEPT ![p] = "gone"]
            /\ UNCHANGED <<handling, client>>
            /\ backlog' = [backlog EXCEPT ![path] = Append(backlog[path], p)]
        BY <3>1 DEF ProbeFindsServer, ConnectResult, Listening, Exit
      <4>2. OneAtATime'
        BY <2>0, <4>1 DEF OneAtATime
      <4>3. ASSUME NEW q \in Procs, NEW c, c \in Queued(q) PROVE c \in Queued(q)'
        <5>1. CASE q = path
          <6>1. c \in Elements(Append(backlog[path], p))
            BY <2>0, <4>1, <4>3, <5>1, QueueAppends DEF Queued, Elements, Peers
          <6> QED BY <2>0, <4>1, <5>1, <6>1 DEF Queued, Elements
        <5>2. CASE q # path
          BY <2>0, <4>1, <4>3, <5>2 DEF Queued
        <5> QED BY <5>1, <5>2
      <4>4. ASSUME NEW c \in Clients, NEW q \in Procs, Holds(q, c), pc[q] \in Serving
            PROVE  Holds(q, c)' /\ pc'[q] \in Serving
        BY <2>0, <4>1, <4>3, <4>4 DEF Holds, Serving
      <4> QED BY <2>h, <4>1, <4>2, <4>4
    <3>2. CASE CheckExists(p) \/ ProbeFindsStale(p) \/ RemoveStale(p)
      BY <2>0, <2>2, <3>2
      DEF CheckExists, ProbeFindsStale, RemoveStale, Goto, Serving, Pcs, Running, InTransit, Before
    <3>3. CASE Bind(p) \/ RestrictPath(p) \/ Cleanup(p)
      BY <2>0, <2>2, <3>3
      DEF Bind, RestrictPath, Cleanup, Goto, Exit, Serving, Pcs, Running, InTransit, Before, After
    <3>4. CASE Listen(p)
      BY <2>0, <2>2, <3>4 DEF Listen, Goto, Serving, Pcs, Running
    <3> QED BY <2>4, <3>1, <3>2, <3>3, <3>4 DEF Construct
  <2>5. ASSUME NEW p \in Procs, FailBeforeBind(p) \/ FailAfterBind(p)
        PROVE  (OneAtATime /\ WaitingIsHeld)'
    BY <2>0, <2>2, <2>5
    DEF FailBeforeBind, FailAfterBind, Goto, Exit, Serving, Pcs, Running, InTransit, Before, After
  <2>6. ASSUME NEW p \in Procs, Serve(p) \/ AcceptFails(p)
        PROVE  (OneAtATime /\ WaitingIsHeld)'
    <3>1. CASE Accept(p)
      <4>1. /\ pc[p] = "accept" /\ backlog[p] # <<>> /\ UNCHANGED client
            /\ handling' = [handling EXCEPT ![p] = Head(backlog[p])]
            /\ backlog' = [backlog EXCEPT ![p] = Tail(backlog[p])]
            /\ pc' = [pc EXCEPT ![p] = "handle"]
        BY <3>1 DEF Accept, Goto
      <4>2. OneAtATime'
        BY <2>0, <4>1 DEF OneAtATime
      <4>3. ASSUME NEW c \in Clients, NEW q \in Procs, Holds(q, c), pc[q] \in Serving
            PROVE  Holds(q, c)' /\ pc'[q] \in Serving
        <5>1. pc'[q] \in Serving
          BY <2>0, <4>1, <4>3 DEF Serving
        <5>2. CASE q # p
          BY <2>0, <4>1, <4>3, <5>1, <5>2 DEF Holds, Queued
        <5>3. CASE q = p
          <6>1. handling[p] = Nobody /\ Nobody \notin Clients
            BY <2>0, <4>1, ProcsAssumption DEF OneAtATime, Nobody
          <6>2. c \in Elements(backlog[p])
            BY <4>3, <5>3, <6>1 DEF Holds, Queued, Elements
          <6>3. backlog[p] \in Seq(Peers)
            BY <2>0
          <6>4. c = Head(backlog[p]) \/ c \in Elements(Tail(backlog[p]))
            BY <4>1, <6>2, <6>3, QueueServes
          <6>5. handling'[p] = Head(backlog[p]) /\ backlog'[p] = Tail(backlog[p])
            BY <2>0, <4>1
          <6>6. Holds(p, c)'
            BY <6>4, <6>5 DEF Holds, Queued, Elements
          <6> QED BY <5>1, <5>3, <6>6
        <5> QED BY <5>2, <5>3
      <4> QED BY <2>h, <4>1, <4>2, <4>3
    <3>2. ASSUME \A c \in Clients : client'[c] = "waiting" =>
                   client[c] = "waiting" /\ c # handling[p],
                 pc[p] = "handle", UNCHANGED backlog,
                 handling' = [handling EXCEPT ![p] = Nobody], LoopOrLeave(p, "zero") \/ LoopOrLeave(p, "one")
          PROVE  (OneAtATime /\ WaitingIsHeld)'
      <4>1. pc' = [pc EXCEPT ![p] = "close"] \/ pc' = [pc EXCEPT ![p] = "accept"]
        BY <3>2 DEF LoopOrLeave, Goto
      <4>2. OneAtATime'
        BY <2>0, <3>2, <4>1 DEF OneAtATime
      <4>3. ASSUME NEW c \in Clients, NEW q \in Procs, client'[c] = "waiting",
                   Holds(q, c), pc[q] \in Serving
            PROVE  Holds(q, c)' /\ pc'[q] \in Serving
        <5>1. pc'[q] \in Serving
          BY <2>0, <4>1, <4>3 DEF Serving
        <5>2. Holds(q, c)'
          BY <2>0, <3>2, <4>3 DEF Holds, Queued
        <5> QED BY <5>1, <5>2
      <4> QED BY <2>h, <3>2, <4>2, <4>3
    <3>3. CASE Reply(p)
      <4>1. \A c \in Clients : client'[c] = "waiting" => client[c] = "waiting" /\ c # handling[p]
        BY <2>0, <3>3 DEF Reply
      <4> QED BY <3>2, <3>3, <4>1 DEF Reply
    <3>4. CASE AcceptOneThrows(p)
      <4>1. \A c \in Clients : client'[c] = "waiting" => client[c] = "waiting" /\ c # handling[p]
        BY <2>0, <3>4 DEF AcceptOneThrows, HangUp
      <4> QED BY <3>2, <3>4, <4>1 DEF AcceptOneThrows
    <3>5. CASE AcceptFails(p)
      <4>1. pc[p] = "accept" /\ pc' = [pc EXCEPT ![p] = "close"]
            /\ UNCHANGED <<handling, backlog, client>>
        BY <3>5 DEF AcceptFails, LoopOrLeave, Goto
      <4>2. OneAtATime'
        BY <2>0, <4>1 DEF OneAtATime
      <4>3. ASSUME NEW c \in Clients, NEW q \in Procs, Holds(q, c), pc[q] \in Serving
            PROVE  Holds(q, c)' /\ pc'[q] \in Serving
        BY <2>0, <4>1, <4>3 DEF Holds, Queued, Serving
      <4> QED BY <2>h, <4>1, <4>2, <4>3
    <3> QED BY <2>6, <3>1, <3>3, <3>4, <3>5 DEF Serve
  <2>7. ASSUME NEW p \in Procs, Destroy(p) \/ Kill(p) PROVE (OneAtATime /\ WaitingIsHeld)'
    <3>1. CASE Unlink(p)
      BY <2>0, <2>2, <3>1 DEF Unlink, Goto, Serving, Pcs
    \* What p held is hung up, and so p may leave.
    <3>2. ASSUME \A c \in Clients : client'[c] = "waiting" =>
                   client[c] = "waiting" /\ ~Holds(p, c),
                 OneAtATime',
                 \A q \in Procs \ {p} : pc'[q] = pc[q] /\ handling'[q] = handling[q]
                                      /\ backlog'[q] = backlog[q]
          PROVE  (OneAtATime /\ WaitingIsHeld)'
      <4>1. ASSUME NEW c \in Clients, NEW q \in Procs, client'[c] = "waiting",
                   Holds(q, c), pc[q] \in Serving
            PROVE  Holds(q, c)' /\ pc'[q] \in Serving
        <5>1. q # p
          BY <3>2, <4>1
        <5> QED BY <3>2, <4>1, <5>1 DEF Holds, Queued
      <4> QED BY <2>h, <3>2, <4>1
    <3>3. CASE CloseListener(p)
      <4>1. pc[p] = "close" /\ HangUp(Queued(p)) /\ UNCHANGED handling
            /\ pc' = [pc EXCEPT ![p] = "unlink"] /\ backlog' = [backlog EXCEPT ![p] = <<>>]
        BY <3>3 DEF CloseListener, Goto
      <4>2. handling[p] = Nobody /\ Nobody \notin Clients
        BY <2>0, <4>1, ProcsAssumption DEF OneAtATime, Nobody
      <4>3. \A c \in Clients : client'[c] = "waiting" => client[c] = "waiting" /\ ~Holds(p, c)
        BY <4>1, <4>2 DEF HangUp, Holds
      <4>4. OneAtATime'
        BY <2>0, <4>1, <4>2 DEF OneAtATime
      <4> QED BY <2>0, <3>2, <4>1, <4>3, <4>4
    <3>4. CASE Kill(p)
      <4>1. HangUp(Queued(p) \cup {handling[p]}) /\ handling' = [handling EXCEPT ![p] = Nobody]
            /\ pc' = [pc EXCEPT ![p] = "gone"] /\ backlog' = [backlog EXCEPT ![p] = <<>>]
        BY <3>4 DEF Kill, Exit
      <4>2. \A c \in Clients : client'[c] = "waiting" => client[c] = "waiting" /\ ~Holds(p, c)
        BY <4>1 DEF HangUp, Holds
      <4>3. OneAtATime'
        BY <2>0, <4>1 DEF OneAtATime
      <4> QED BY <2>0, <3>2, <4>1, <4>2, <4>3
    <3> QED BY <2>7, <3>1, <3>3, <3>4 DEF Destroy
  <2>8. ASSUME NEW c \in Clients, Connect(c) PROVE (OneAtATime /\ WaitingIsHeld)'
    <3>1. CASE ConnectResult = "connected"
      <4>1. /\ path \in Procs /\ pc[path] \in Serving /\ UNCHANGED <<pc, handling>>
            /\ backlog' = [backlog EXCEPT ![path] = Append(backlog[path], c)]
            /\ client' = [client EXCEPT ![c] = "waiting"]
        BY <2>8, <3>1 DEF Connect, ConnectResult, Listening
      <4>2. OneAtATime'
        BY <2>0, <4>1 DEF OneAtATime
      <4>3. \A y : y \in Elements(backlog[path]) \/ y = c => y \in Elements(backlog'[path])
        <5>1. backlog[path] \in Seq(Peers) /\ c \in Peers
          BY <2>0, <4>1 DEF Peers
        <5>2. backlog'[path] = Append(backlog[path], c)
          BY <2>0, <4>1
        <5> QED BY <5>1, <5>2, QueueAppends
      <4>4. ASSUME NEW d \in Clients, client'[d] = "waiting"
            PROVE  \E p \in Procs : Holds(p, d)' /\ pc'[p] \in Serving
        <5>1. CASE d = c
          BY <4>1, <4>3, <5>1 DEF Holds, Queued, Elements
        <5>2. CASE d # c
          <6>1. PICK p \in Procs : Holds(p, d) /\ pc[p] \in Serving
            BY <2>0, <4>1, <4>4, <5>2 DEF WaitingIsHeld, Listening
          <6>2. CASE p = path
            BY <4>1, <4>3, <6>1, <6>2 DEF Holds, Queued, Elements
          <6>3. CASE p # path
            BY <2>0, <4>1, <6>1, <6>3 DEF Holds, Queued
          <6> QED BY <6>2, <6>3
        <5> QED BY <5>1, <5>2
      <4> QED BY <4>2, <4>4 DEF WaitingIsHeld, Listening
    <3>2. CASE ConnectResult # "connected"
      <4>1. ConnectResult \in {"ENOENT", "ECONNREFUSED", "full"}
        BY <3>2 DEF ConnectResult
      <4>2. client'[c] # "waiting" /\ UNCHANGED <<pc, handling, backlog>>
            /\ \A d \in Clients \ {c} : client'[d] = client[d]
        BY <2>0, <2>8, <3>2, <4>1 DEF Connect
      <4>3. OneAtATime'
        BY <2>0, <4>2 DEF OneAtATime
      <4> QED BY <2>h, <4>2, <4>3 DEF Holds, Queued
    <3> QED BY <3>1, <3>2
  <2>9. ASSUME NEW c \in Clients, Retry(c) \/ ClientTimeout(c)
        PROVE  (OneAtATime /\ WaitingIsHeld)'
    <3>1. client'[c] # "waiting" /\ UNCHANGED <<pc, handling, backlog>>
          /\ \A d \in Clients \ {c} : client'[d] = client[d]
      BY <2>0, <2>9 DEF Retry, ClientTimeout
    <3>2. OneAtATime'
      BY <2>0, <3>1 DEF OneAtATime
    <3> QED BY <2>h, <3>1, <3>2 DEF Holds, Queued
  <2> QED
    BY <2>1, <2>3, <2>4, <2>5, <2>6, <2>7, <2>8, <2>9 DEF Next, ProcStep, ClientStep
<1> QED BY <1>1, <1>2, TypeCorrect, PTL DEF Spec, HeldInv

-----------------------------------------------------------------------------
(* kasli, its retries and the service manager only take steps that
   SocketLifecycle has: each attempt is a Connect, each retry follows a connect
   error, each start is a Launch. *)
THEOREM CompositionRefines == ASpec => DaemonsAsBefore
<1>1. AInit => Init
  BY DEF AInit
<1>2. [ANext]_avars => [Next]_vars
  <2> SUFFICES ASSUME [ANext]_avars, ~(UNCHANGED vars) PROVE Next
    OBVIOUS
  <2>1. ASSUME NEW c \in Clients, CliStep(c) PROVE Next
    <3>1. CASE Attempt(c)
      BY <3>1 DEF Attempt, Next, ClientStep
    <3>2. CASE NobodyListens(c)
      BY <3>2 DEF NobodyListens, NotReady, Retry, Next, ClientStep
    <3>3. CASE StartForks(c)
      BY <3>3, AutostartAssumption DEF StartForks, Next, ProcStep
    <3>4. CASE RequestEnds(c) \/ StartIsNoOp(c) \/ StartFails(c) \/ Look(c) \/ Sleep(c)
      BY <3>4 DEF RequestEnds, StartIsNoOp, StartFails, Look, Sleep
    <3> QED BY <2>1, <3>1, <3>2, <3>3, <3>4 DEF CliStep
  <2>2. ASSUME NEW p \in Procs, DaemonStep(p) \/ Mishap(p) PROVE Next
    BY <2>2 DEF DaemonStep, Mishap, Next, ProcStep
  <2>3. CASE UnitRestarts \/ RunByHand
    BY <2>3, AutostartAssumption DEF UnitRestarts, RunByHand, Next, ProcStep
  <2>4. ASSUME NEW c \in Clients, CliTimeout(c) PROVE Next
    BY <2>4 DEF CliTimeout, Next, ClientStep
  <2>5. CASE UNCHANGED avars
    BY <2>5 DEF avars
  <2> QED BY <2>1, <2>2, <2>3, <2>4, <2>5 DEF ANext, CalmNext
<1> QED BY <1>1, <1>2, PTL DEF ASpec, Spec, DaemonsAsBefore

(* The daemons of the composition therefore keep to owner-only sockets, do not
   share a path unless their starts overlap, and leave no client waiting on a
   connection nobody holds, whoever starts them. *)
THEOREM CompositionKeeps ==
    ASpec => [](TypeOK /\ ReachableIsOwnerOnly /\ SerialStartsShareNothing /\ WaitingIsHeld)
BY CompositionRefines, TypeCorrect, OwnerOnly, SerialStarts, Held, PTL DEF DaemonsAsBefore

(* The state of kasli keeps its type; the polls stay within max_wait. *)
CliTypeOK ==
    /\ cli \in [Clients -> CliPcs]
    /\ polls \in [Clients -> 0 .. MaxPolls]
    /\ sent \in [Clients -> Nat]

LEMMA CliTypeCorrect == ASpec => []CliTypeOK
<1>1. AInit => CliTypeOK
  BY AutostartAssumption DEF AInit, CliTypeOK, CliPcs, Attempts
<1>2. CliTypeOK /\ [ANext]_avars => CliTypeOK'
  <2> SUFFICES ASSUME CliTypeOK, [ANext]_avars PROVE CliTypeOK'
    OBVIOUS
  <2> USE DEF CliTypeOK, CliGoto, CliPcs, Attempts, Finished
  <2>1. ASSUME NEW c \in Clients, CliStep(c) PROVE CliTypeOK'
    <3>1. CASE Attempt(c)
      BY <3>1 DEF Attempt
    <3>2. CASE RequestEnds(c) \/ NobodyListens(c)
      BY <3>2 DEF RequestEnds, NobodyListens
    <3>3. CASE StartForks(c) \/ StartIsNoOp(c) \/ StartFails(c) \/ Look(c)
      BY <3>3 DEF StartForks, StartIsNoOp, StartFails, Look
    <3>4. CASE Sleep(c)
      BY <3>4, AutostartAssumption DEF Sleep
    <3> QED BY <2>1, <3>1, <3>2, <3>3, <3>4 DEF CliStep
  <2>2. CASE UNCHANGED <<cli, polls, sent>>
    BY <2>2
  <2> QED
    BY <2>1, <2>2 DEF ANext, CalmNext, DaemonStep, Mishap, UnitRestarts, RunByHand,
                      CliTimeout, avars
<1> QED BY <1>1, <1>2, PTL DEF ASpec

(* kasli polls no more often than max_wait allows, and every variable of the
   composition keeps its type. *)
THEOREM CompositionTyped == ASpec => []ATypeOK
<1>1. TypeOK /\ CliTypeOK => ATypeOK
  BY DEF CliTypeOK, ATypeOK
<1> QED BY <1>1, CompositionKeeps, CliTypeCorrect, PTL

-----------------------------------------------------------------------------
(* A run has sent its request exactly when its attempt got past connect, and
   from there no step leads back to another attempt. *)
Unsent == {"idle", "ENOENT", "ECONNREFUSED", "EAGAIN"}

SentInv ==
    \A c \in Clients :
        /\ cli[c] \in Attempts => sent[c] = (IF client[c] \in Unsent THEN 0 ELSE 1)
        /\ cli[c] \in {"start", "look", "sleep", "nostart", "notready"} =>
             client[c] = "idle" /\ sent[c] = 0
        /\ cli[c] \in Finished => client[c] # "waiting" /\ sent[c] <= 1

(* Only a client's own connection attempt makes it waiting or idle; what the
   daemons do to a client happens to one that waits. *)
LEMMA DaemonsTouchOnlyWaiting ==
    ASSUME TypeOK, NEW p \in Procs, Launch(p) \/ DaemonStep(p) \/ Mishap(p), NEW c \in Clients
    PROVE  \/ client'[c] = client[c]
           \/ client[c] = "waiting" /\ client'[c] \in {"answered", "lost"}
<1> USE DEF TypeOK
<1>1. CASE client' = client
  BY <1>1
<1>2. ASSUME NEW S, HangUp(S)
      PROVE  client'[c] = client[c] \/ (client[c] = "waiting" /\ client'[c] = "lost")
  BY <1>2 DEF HangUp
<1>3. CASE Reply(p)
  BY <1>3 DEF Reply
<1>4. CASE AcceptOneThrows(p) \/ CloseListener(p) \/ Kill(p)
  BY <1>2, <1>4 DEF AcceptOneThrows, CloseListener, Kill
<1> QED
  BY <1>1, <1>3, <1>4
  DEF Launch, DaemonStep, Mishap, Construct, CheckExists, ProbeFindsServer, ProbeFindsStale,
      RemoveStale, Bind, RestrictPath, Listen, Cleanup, Serve, Accept, Destroy, Unlink,
      FailBeforeBind, FailAfterBind, AcceptFails

(* request_with_optional_user_service_start delivers a request at most once,
   and not at all when it reports that the daemon could not be started or was
   not ready. *)
THEOREM AtMostOnce == ASpec => []SentAtMostOnce
<1> DEFINE Typed == TypeOK /\ CliTypeOK
<1>1. AInit => SentInv
  BY DEF AInit, Init, SentInv, Attempts, Unsent, Finished
<1>2. Typed /\ Typed' /\ SentInv /\ [ANext]_avars => SentInv'
  <2> SUFFICES ASSUME Typed, Typed', SentInv, [ANext]_avars, NEW d \in Clients
               PROVE  SentInv!(d)'
    BY DEF SentInv
  <2> USE DEF Typed, TypeOK, CliTypeOK, SentInv, Attempts, Finished, CliGoto
  <2>1. ASSUME NEW c \in Clients, CliStep(c) PROVE SentInv!(d)'
    <3>1. CASE Attempt(c)
      <4>1. CASE d = c
        <5>1. client'[c] \in {"waiting", "ENOENT", "ECONNREFUSED", "EAGAIN"}
          <6>1. ConnectResult \in {"connected", "full", "ENOENT", "ECONNREFUSED"}
            BY DEF ConnectResult
          <6> QED BY <3>1, <6>1 DEF Attempt, Connect
        <5>2. client[c] = "idle" /\ sent[c] = 0
          BY <3>1 DEF Attempt, Connect, Unsent
        <5> QED BY <3>1, <4>1, <5>1, <5>2 DEF Attempt, Unsent
      <4>2. CASE d # c
        BY <3>1, <4>2 DEF Attempt, Connect
      <4> QED BY <4>1, <4>2
    <3>2. CASE RequestEnds(c)
      <4>1. cli'[c] \in {"answered", "failed"} /\ client[c] # "waiting" /\ sent[c] \in {0, 1}
        BY <3>2 DEF RequestEnds
      <4> QED BY <3>2, <4>1 DEF RequestEnds, vars
    <3>5. CASE NobodyListens(c)
      <4>1. client[c] \in Unsent /\ sent[c] = 0 /\ client'[c] = "idle"
        BY <3>5 DEF NobodyListens, NotReady, Unsent
      <4> QED BY <3>5, <4>1 DEF NobodyListens
    <3>3. CASE StartForks(c)
      BY <3>3 DEF StartForks, Launch
    <3>4. CASE StartIsNoOp(c) \/ StartFails(c) \/ Look(c) \/ Sleep(c)
      BY <3>4 DEF StartIsNoOp, StartFails, Look, Sleep, vars, Unsent
    <3> QED BY <2>1, <3>1, <3>2, <3>3, <3>4, <3>5 DEF CliStep
  <2>2. ASSUME NEW p \in Procs, Launch(p) \/ DaemonStep(p) \/ Mishap(p),
               UNCHANGED <<cli, polls, sent>>
        PROVE  SentInv!(d)'
    <3>1. \/ client'[d] = client[d]
          \/ client[d] = "waiting" /\ client'[d] \in {"answered", "lost"}
      BY <2>2, DaemonsTouchOnlyWaiting
    <3> QED BY <2>2, <3>1 DEF Unsent
  <2>3. CASE UnitRestarts \/ RunByHand
    BY <2>2, <2>3, AutostartAssumption DEF UnitRestarts, RunByHand
  <2>4. ASSUME NEW c \in Clients, CliTimeout(c) PROVE SentInv!(d)'
    BY <2>4 DEF CliTimeout, ClientTimeout, Unsent
  <2>5. CASE UNCHANGED avars
    BY <2>5 DEF avars, vars
  <2>6. ASSUME NEW p \in Procs, DaemonStep(p) \/ Mishap(p) PROVE SentInv!(d)'
    BY <2>2, <2>6 DEF DaemonStep, Mishap
  <2> QED BY <2>1, <2>3, <2>4, <2>5, <2>6 DEF ANext, CalmNext
<1>3. Typed /\ SentInv => SentAtMostOnce
  BY DEF SentInv, SentAtMostOnce, CliTypeOK, CliPcs, Attempts, Finished
<1>4. ASpec => []Typed
  BY CompositionKeeps, CliTypeCorrect, PTL
<1> QED BY <1>1, <1>2, <1>3, <1>4, PTL DEF ASpec
=============================================================================
