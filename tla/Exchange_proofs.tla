-------------------------- MODULE Exchange_proofs --------------------------
(* What two ends of a connection can know of each other, for lines, limits,
   buffers and queues of any size: the handler of kaslid is only ever called with
   the whole first line its peer sent, kasli only ever gets the whole answer, an
   outcome tells the truth about the other end, and all of it together is one step
   of the daemon's life. *)
EXTENDS Exchange, TLAPS

(* The places of an exchange and the outcomes of a call. *)
Labels == {"accept", "prepare", "uid", "write", "read", "handle", "close", "done"}

Outcomes == Errors \cup {"none", "ok"}

(* The type invariant in two parts: where each end is, and what was sent. *)
ControlOK ==
    /\ kasli \in BOOLEAN /\ sameUid \in BOOLEAN /\ left \in BOOLEAN
    /\ pc \in [End -> Labels] /\ result \in [End -> Outcomes]

StreamOK ==
    /\ payload \in [End -> Seq(Byte)] /\ script \in [End -> Seq(Byte)]
    /\ sent \in [End -> Nat] /\ taken \in [End -> Nat]
    /\ data \in [End -> Seq(Byte)] /\ request \in Seq(Seq(Byte))
    /\ \A e \in End : taken[e] <= sent[e] /\ sent[e] <= Len(script[e]) /\ Len(data[e]) <= Max

(* The server has sent nothing when its handler gives it something to send. *)
Unsent == pc[Server] \notin {"write", "close", "done"} => sent[Server] = 0

TypeInv == ControlOK /\ StreamOK /\ Unsent

(* The two parts are the type invariant. *)
LEMMA TypeParts == TypeInv => TypeOK
  BY DEF TypeInv, ControlOK, StreamOK, TypeOK, Labels, Outcomes

-----------------------------------------------------------------------------
(* A line that is continued. *)
LEMMA Continued ==
    ASSUME NEW s \in Seq(Byte), NEW t \in Seq(Byte)
    PROVE  s \o t \in Seq(Byte) /\ Len(s \o t) = Len(s) + Len(t)
  OBVIOUS

(* A piece of a sequence follows what stands before it. *)
LEMMA PieceFollows ==
    ASSUME NEW s \in Seq(Byte), NEW a \in Nat, NEW b \in Nat, a + b <= Len(s)
    PROVE  /\ SubSeq(s, 1, a) \o SubSeq(s, a + 1, a + b) = SubSeq(s, 1, a + b)
           /\ SubSeq(s, a + 1, a + b) \in Seq(Byte)
           /\ Len(SubSeq(s, a + 1, a + b)) = b
           /\ \A i \in 1 .. b : SubSeq(s, a + 1, a + b)[i] = s[a + i]
           /\ Len(SubSeq(s, 1, a)) = a /\ SubSeq(s, 1, a) \in Seq(Byte)
  <1> DEFINE l == SubSeq(s, 1, a)
             r == SubSeq(s, a + 1, a + b)
             w == SubSeq(s, 1, a + b)
             c == l \o r
  <1>0. Len(s) \in Nat /\ a + b \in Nat /\ a <= Len(s)
    OBVIOUS
  <1>1. l \in Seq(Byte) /\ Len(l) = a /\ \A i \in 1 .. a : l[i] = s[i]
    BY <1>0
  <1>2. r \in Seq(Byte) /\ Len(r) = b /\ \A i \in 1 .. b : r[i] = s[a + i]
    BY <1>0
  <1>3. w \in Seq(Byte) /\ Len(w) = a + b /\ \A i \in 1 .. a + b : w[i] = s[i]
    BY <1>0
  <1>4. c \in Seq(Byte) /\ Len(c) = a + b
    BY <1>1, <1>2
  <1>5. ASSUME NEW i \in 1 .. a + b PROVE c[i] = w[i]
    <2>1. CASE i <= a
      <3>1. c[i] = l[i]
        BY <2>1, <1>1, <1>2
      <3> QED BY <3>1, <2>1, <1>1, <1>3
    <2>2. CASE i > a
      <3>1. i - a \in 1 .. b
        BY <2>2
      <3>2. c[i] = r[i - a]
        BY <2>2, <1>1, <1>2
      <3>3. r[i - a] = s[a + (i - a)]
        BY <3>1, <1>2
      <3>4. a + (i - a) = i
        OBVIOUS
      <3> QED BY <3>2, <3>3, <3>4, <1>3
    <2> QED BY <2>1, <2>2
  <1>6. c = w
    BY <1>3, <1>4, <1>5
  <1> QED BY <1>1, <1>2, <1>6

-----------------------------------------------------------------------------
(* A call that ends, with whatever outcome. *)
LEMMA EndsControl ==
    ASSUME ControlOK, NEW e \in End, NEW r \in Outcomes, Ends(e, r),
           UNCHANGED <<kasli, sameUid>>
    PROVE  ControlOK'
  <1>1. left' \in BOOLEAN
    BY DEF Ends, Outcome
  <1>2. pc' \in [End -> Labels]
    BY DEF Ends, Outcome, ControlOK, Labels
  <1>3. result' \in [End -> Outcomes]
    BY DEF Ends, Outcome, ControlOK
  <1> QED BY <1>1, <1>2, <1>3 DEF ControlOK

(* A call that goes on. *)
LEMMA GotoControl ==
    ASSUME ControlOK, NEW e \in End, NEW label \in Labels, Goto(e, label),
           UNCHANGED <<kasli, sameUid>>
    PROVE  ControlOK'
  <1>1. pc' \in [End -> Labels]
    BY DEF Goto, ControlOK
  <1> QED BY <1>1 DEF Goto, ControlOK

(* A call that throws or is killed changes nothing but where its end is. *)
Stops(e, r) == Throws(e, r) \/ Vanishes(e, r)

LEMMA StopsTyped ==
    ASSUME TypeInv, NEW e \in End, NEW r \in Errors, Stops(e, r)
    PROVE  TypeInv'
  <1>1. ControlOK'
    <2>1. CASE Throws(e, r)
      BY <2>1, EndsControl DEF TypeInv, Throws, Outcomes
    <2>2. CASE Vanishes(e, r)
      <3>1. left' \in BOOLEAN /\ UNCHANGED <<kasli, sameUid>>
        BY <2>2 DEF Vanishes, Outcome
      <3>2. pc' \in [End -> Labels]
        BY <2>2 DEF Vanishes, TypeInv, ControlOK, Labels
      <3>3. result' \in [End -> Outcomes]
        BY <2>2 DEF Vanishes, Outcome, TypeInv, ControlOK, Outcomes
      <3> QED BY <3>1, <3>2, <3>3 DEF TypeInv, ControlOK
    <2> QED BY <2>1, <2>2 DEF Stops
  <1>2. StreamOK'
    BY DEF TypeInv, StreamOK, Stops, Throws, Vanishes
  <1>3. Unsent'
    <2>1. sent' = sent /\ (pc'[Server] \in {pc[Server], "close", "done"})
      BY DEF TypeInv, ControlOK, Stops, Throws, Vanishes, Ends, End
    <2> QED BY <2>1 DEF TypeInv, Unsent
  <1> QED BY <1>1, <1>2, <1>3 DEF TypeInv

(* What a read may take: it is there, and it is a piece of the peer's script. *)
LEMMA ChunkTyped ==
    ASSUME TypeInv, NEW e \in End, NEW k \in Readable(e)
    PROVE  /\ Peer(e) \in End /\ k \in Nat \ {0}
           /\ taken[Peer(e)] + k <= sent[Peer(e)]
           /\ taken[Peer(e)] + k <= Len(script[Peer(e)])
           /\ Chunk(e, k) \in Seq(Byte) /\ Len(Chunk(e, k)) = k
           /\ \A i \in 1 .. k : Chunk(e, k)[i] = script[Peer(e)][taken[Peer(e)] + i]
  <1> DEFINE p == Peer(e)
  <1>1. p \in End
    BY DEF Peer, End
  <1>2. /\ taken[p] \in Nat /\ sent[p] \in Nat /\ script[p] \in Seq(Byte)
        /\ sent[p] <= Len(script[p])
    BY <1>1 DEF TypeInv, StreamOK
  <1>3. k \in Nat \ {0} /\ k <= sent[p] - taken[p]
    BY ExchangeAssumption DEF Readable, InFlight
  <1> HIDE DEF p
  <1>4. taken[p] + k <= sent[p] /\ taken[p] + k <= Len(script[p])
    BY <1>2, <1>3
  <1>5. /\ SubSeq(script[p], taken[p] + 1, taken[p] + k) \in Seq(Byte)
        /\ Len(SubSeq(script[p], taken[p] + 1, taken[p] + k)) = k
        /\ \A i \in 1 .. k :
             SubSeq(script[p], taken[p] + 1, taken[p] + k)[i] = script[p][taken[p] + i]
    <2> DEFINE s == script[p]
               a == taken[p]
    <2>1. s \in Seq(Byte) /\ a \in Nat /\ k \in Nat /\ a + k <= Len(s)
      BY <1>2, <1>3, <1>4
    <2> HIDE DEF s, a
    <2>2. /\ SubSeq(s, a + 1, a + k) \in Seq(Byte) /\ Len(SubSeq(s, a + 1, a + k)) = k
          /\ \A i \in 1 .. k : SubSeq(s, a + 1, a + k)[i] = s[a + i]
      BY ONLY <2>1, PieceFollows
    <2> QED BY <2>2 DEF s, a
  <1> QED BY <1>1, <1>3, <1>4, <1>5 DEF p, Chunk

(* A read leaves the streams in order when the line stays within its limit. *)
LEMMA TakeTyped ==
    ASSUME TypeInv, NEW e \in End, NEW k \in Readable(e), Take(e, k),
           data' \in [End -> Seq(Byte)], \A f \in End : Len(data'[f]) <= Max,
           UNCHANGED <<payload, script, sent, request>>
    PROVE  StreamOK'
  <1>1. /\ Peer(e) \in End /\ k \in Nat /\ taken[Peer(e)] + k <= sent[Peer(e)]
    BY ChunkTyped
  <1>2. taken' \in [End -> Nat]
    BY <1>1 DEF TypeInv, StreamOK, Take
  <1>3. \A f \in End : taken'[f] <= sent'[f]
    BY <1>1 DEF TypeInv, StreamOK, Take
  <1> QED BY <1>2, <1>3 DEF TypeInv, StreamOK

(* A line that is read grows by the beginning of a chunk. *)
LEMMA DataTyped ==
    ASSUME TypeInv, NEW e \in End, NEW k \in Readable(e), NEW j \in 0 .. k,
           Len(data[e]) + j <= Max,
           data' = [data EXCEPT ![e] = @ \o SubSeq(Chunk(e, k), 1, j)]
    PROVE  data' \in [End -> Seq(Byte)] /\ \A f \in End : Len(data'[f]) <= Max
  <1> DEFINE c == Chunk(e, k)
             b == SubSeq(c, 1, j)
             d == data[e]
  <1>1. c \in Seq(Byte) /\ Len(c) = k /\ k \in Nat
    BY ChunkTyped
  <1>2. b \in Seq(Byte) /\ Len(b) = j
    <2> HIDE DEF c
    <2> QED BY <1>1
  <1>3. d \in Seq(Byte) /\ data \in [End -> Seq(Byte)]
        /\ \A f \in End : Len(data[f]) <= Max
    BY DEF TypeInv, StreamOK
  <1>4. data' = [data EXCEPT ![e] = d \o b]
    OBVIOUS
  <1> HIDE DEF b, d
  <1>5. d \o b \in Seq(Byte) /\ Len(d \o b) = Len(d) + j
    BY <1>2, <1>3, Continued
  <1>6. Len(d \o b) <= Max
    BY <1>5 DEF d
  <1> QED BY <1>3, <1>4, <1>5, <1>6

(* Every step of an exchange keeps the type invariant. *)
LEMMA TypeStep ==
    ASSUME TypeInv, [Next]_vars
    PROVE  TypeInv'
  <1> USE DEF TypeInv
  <1>1. CASE UNCHANGED vars
    BY <1>1 DEF vars, ControlOK, StreamOK, Unsent
  <1>2. ASSUME NEW e \in End, WriteStep(e) PROVE TypeInv'
    <2>1. CASE WriteLineRefuses(e)
      <3>1. (IF LineIsTooLarge(e) THEN "too large" ELSE "newline") \in Errors
        BY DEF Errors
      <3> QED BY <2>1, <3>1, StopsTyped DEF WriteLineRefuses, Stops
    <2>2. CASE Send(e)
      <3>1. PICK k \in 1 .. Len(script[e]) - sent[e] :
              /\ sent' = [sent EXCEPT ![e] = @ + k]
              /\ IF sent[e] + k = Len(script[e]) THEN AfterWrite(e)
                 ELSE UNCHANGED <<pc, result, left>>
        BY <2>2 DEF Send
      <3>2. UNCHANGED <<kasli, sameUid, payload, script, taken, data, request>> /\ pc[e] = "write"
        BY <2>2 DEF Send
      <3>3. /\ sent[e] \in Nat /\ Len(script[e]) \in Nat /\ k \in Nat
            /\ sent[e] + k <= Len(script[e])
        BY <3>1 DEF StreamOK
      <3>4. StreamOK'
        <4>1. sent' \in [End -> Nat]
          BY <3>1, <3>3 DEF StreamOK
        <4>2. \A f \in End : taken'[f] <= sent'[f] /\ sent'[f] <= Len(script'[f])
          BY <3>1, <3>2, <3>3 DEF StreamOK
        <4> QED BY <4>1, <4>2, <3>2 DEF StreamOK
      <3>5. ControlOK'
        <4>1. CASE sent[e] + k = Len(script[e]) /\ e = Client
          <5>1. Goto(e, "read")
            BY <3>1, <4>1 DEF AfterWrite
          <5> QED BY <5>1, <3>2, GotoControl DEF Labels
        <4>2. CASE sent[e] + k = Len(script[e]) /\ e # Client
          <5>1. Ends(e, "ok")
            BY <3>1, <4>2 DEF AfterWrite
          <5> QED BY <5>1, <3>2, EndsControl DEF Outcomes
        <4>3. CASE sent[e] + k # Len(script[e])
          BY <3>1, <3>2, <4>3 DEF ControlOK
        <4> QED BY <4>1, <4>2, <4>3
      <3>6. Unsent'
        <4>1. CASE e = Server
          <5>1. pc'[Server] \in {"write", "close", "done"}
            BY <3>1, <3>2, <4>1, ExchangeAssumption DEF AfterWrite, Ends, Outcome, ControlOK
          <5> QED BY <5>1 DEF Unsent
        <4>2. CASE e # Server
          <5>1. sent'[Server] = sent[Server]
            BY <3>1, <4>2 DEF StreamOK, End
          <5>2. pc'[Server] = pc[Server]
            BY <3>1, <4>2 DEF AfterWrite, Goto, Ends, Outcome, ControlOK, End
          <5> QED BY <5>1, <5>2 DEF Unsent
        <4> QED BY <4>1, <4>2
      <3> QED BY <3>4, <3>5, <3>6
    <2>3. CASE SendFails(e)
      BY <2>3, StopsTyped DEF SendFails, Errors, Stops
    <2>4. CASE SendTimesOut(e)
      BY <2>4, StopsTyped DEF SendTimesOut, Errors, Stops
    <2> QED BY <1>2, <2>1, <2>2, <2>3, <2>4 DEF WriteStep
  <1>3. ASSUME NEW e \in End, ReadStep(e) PROVE TypeInv'
    <2>1. CASE ReadsLine(e)
      <3>1. PICK k \in Readable(e) : \E j \in 1 .. k :
              /\ Len(data[e]) + (j - 1) <= Max
              /\ data' = [data EXCEPT ![e] = @ \o SubSeq(Chunk(e, k), 1, j - 1)]
              /\ Take(e, k)
        BY <2>1 DEF ReadsLine
      <3>2. PICK j \in 1 .. k :
              /\ Len(data[e]) + (j - 1) <= Max
              /\ data' = [data EXCEPT ![e] = @ \o SubSeq(Chunk(e, k), 1, j - 1)]
              /\ Take(e, k)
        BY <3>1
      <3>3. UNCHANGED <<kasli, sameUid, payload, script, sent, request>> /\ pc[e] = "read"
        BY <2>1 DEF ReadsLine
      <3>4. StreamOK'
        <4>1. j - 1 \in 0 .. k
          BY <3>2, ChunkTyped
        <4> QED BY <4>1, <3>2, <3>3, DataTyped, TakeTyped
      <3>5. ControlOK'
        <4>1. CASE e = Client
          BY <2>1, <4>1, <3>3, EndsControl DEF ReadsLine, AfterRead, Outcomes
        <4>2. CASE e # Client
          BY <2>1, <4>2, <3>3, GotoControl DEF ReadsLine, AfterRead, Labels
        <4> QED BY <4>1, <4>2
      <3>6. Unsent'
        BY <2>1, <3>3 DEF Unsent, ReadsLine, AfterRead, Ends, Outcome, Goto, ControlOK, End
      <3> QED BY <3>4, <3>5, <3>6
    <2>2. CASE ReadsSome(e)
      <3>1. PICK k \in Readable(e) :
              /\ Len(data[e]) + k <= Max
              /\ data' = [data EXCEPT ![e] = @ \o Chunk(e, k)]
              /\ Take(e, k)
        BY <2>2 DEF ReadsSome
      <3>2. UNCHANGED <<kasli, sameUid, pc, result, payload, script, sent, request, left>>
        BY <2>2 DEF ReadsSome
      <3>3. Chunk(e, k) = SubSeq(Chunk(e, k), 1, k) /\ k \in 0 .. k
        BY ChunkTyped
      <3>4. StreamOK'
        BY <3>1, <3>2, <3>3, DataTyped, TakeTyped
      <3> QED BY <3>2, <3>4 DEF ControlOK, Unsent
    <2>3. CASE ReadsTooMuch(e)
      <3>1. PICK k \in Readable(e) : Take(e, k)
        BY <2>3 DEF ReadsTooMuch
      <3>2. /\ UNCHANGED <<kasli, sameUid, payload, script, sent, data, request>>
            /\ Ends(e, "too large")
        BY <2>3 DEF ReadsTooMuch
      <3>3. StreamOK'
        BY <3>1, <3>2, TakeTyped DEF StreamOK
      <3>4. ControlOK'
        BY <3>2, EndsControl DEF Outcomes, Errors
      <3>5. Unsent'
        BY <3>2 DEF Unsent, Ends, Outcome, ControlOK, End
      <3> QED BY <3>3, <3>4, <3>5
    <2>4. CASE ReadsEnd(e)
      BY <2>4, StopsTyped DEF ReadsEnd, Errors, Stops
    <2>5. CASE ReadTimesOut(e)
      BY <2>5, StopsTyped DEF ReadTimesOut, Errors, Stops
    <2> QED BY <1>3, <2>1, <2>2, <2>3, <2>4, <2>5 DEF ReadStep
  <1>4. ASSUME AcceptStep PROVE TypeInv'
    <2> Server \in End
      BY DEF End
    <2>1. CASE Accept \/ Prepare \/ ValidatePeer
      <3>1. ControlOK'
        BY <2>1, GotoControl DEF Accept, Prepare, ValidatePeer, Labels
      <3>2. StreamOK' /\ Unsent'
        BY <2>1 DEF Accept, Prepare, ValidatePeer, StreamOK, Unsent
      <3> QED BY <3>1, <3>2
    <2>2. CASE PrepareFails \/ RejectPeer
      BY <2>2, StopsTyped DEF PrepareFails, RejectPeer, Errors, Stops
    <2>3. CASE HandlerReturns
      <3>1. PICK p \in Payloads :
              /\ payload' = [payload EXCEPT ![Server] = p]
              /\ script' = [script EXCEPT ![Server] = Append(p, Newline)]
        BY <2>3 DEF HandlerReturns
      <3>2. /\ pc[Server] = "handle" /\ Goto(Server, "write")
            /\ request' = Append(request, data[Server])
            /\ UNCHANGED <<kasli, sameUid, sent, taken, data>>
        BY <2>3 DEF HandlerReturns
      <3>3. p \in Seq(Byte) /\ Append(p, Newline) \in Seq(Byte) /\ Len(Append(p, Newline)) \in Nat
        BY ExchangeAssumption
      <3>4. sent[Server] = 0
        BY <3>2 DEF Unsent
      <3>5. request' \in Seq(Seq(Byte))
        BY <3>2 DEF StreamOK
      <3>6. StreamOK'
        <4>1. payload' \in [End -> Seq(Byte)] /\ script' \in [End -> Seq(Byte)]
          BY <3>1, <3>3 DEF StreamOK
        <4>2. \A f \in End : sent'[f] <= Len(script'[f])
          BY <3>1, <3>2, <3>3, <3>4 DEF StreamOK
        <4> QED BY <3>2, <3>5, <4>1, <4>2 DEF StreamOK
      <3>7. ControlOK'
        BY <3>2, GotoControl DEF Labels
      <3>8. Unsent'
        BY <3>2 DEF Unsent, Goto, ControlOK
      <3> QED BY <3>6, <3>7, <3>8
    <2>4. CASE HandlerThrows
      <3>1. /\ Ends(Server, "handler") /\ request' = Append(request, data[Server])
            /\ UNCHANGED <<kasli, sameUid, payload, script, sent, taken, data>>
        BY <2>4 DEF HandlerThrows
      <3>2. ControlOK'
        BY <3>1, EndsControl DEF Outcomes, Errors
      <3>3. request' \in Seq(Seq(Byte))
        BY <3>1 DEF StreamOK
      <3>4. StreamOK'
        BY <3>1, <3>3 DEF StreamOK
      <3>5. Unsent'
        BY <3>1 DEF Unsent, Ends, Outcome, ControlOK
      <3> QED BY <3>2, <3>4, <3>5
    <2> QED BY <1>4, <2>1, <2>2, <2>3, <2>4 DEF AcceptStep
  <1>5. CASE OtherTakes
    <2> Client \in End
      BY DEF End
    <2>1. PICK k \in Readable(Client) : Take(Client, k)
      BY <1>5 DEF OtherTakes
    <2>2. UNCHANGED <<kasli, sameUid, pc, result, payload, script, sent, data, request, left>>
      BY <1>5 DEF OtherTakes
    <2>3. StreamOK'
      BY <2>1, <2>2, TakeTyped DEF StreamOK
    <2> QED BY <2>2, <2>3 DEF ControlOK, Unsent
  <1>6. CASE OtherCloses
    BY <1>6, StopsTyped DEF OtherCloses, Errors, End, Stops
  <1>7. ASSUME NEW e \in End, Kill(e) PROVE TypeInv'
    BY <1>7, StopsTyped DEF Kill, Errors, Stops
  <1>8. ASSUME NEW e \in End, Close(e) PROVE TypeInv'
    <2>1. pc' \in [End -> Labels]
      BY <1>8 DEF Close, ControlOK, Labels
    <2>2. Unsent'
      BY <1>8 DEF Close, ControlOK, Unsent
    <2> QED BY <1>8, <2>1, <2>2 DEF Close, ControlOK, StreamOK
  <1> QED BY <1>1, <1>2, <1>3, <1>4, <1>5, <1>6, <1>7, <1>8 DEF Next, EndStep

(* No connection starts with anything sent, taken or read. *)
LEMMA InitTyped == Init => TypeInv
  <1> SUFFICES ASSUME Init PROVE TypeInv
    OBVIOUS
  <1>1. PICK p \in Payloads, s \in Scripts :
          /\ payload = [e \in End |-> IF e = Client /\ kasli THEN p ELSE <<>>]
          /\ script = [e \in End |-> IF e # Client THEN <<>>
                                     ELSE IF kasli THEN Append(p, Newline) ELSE s]
    BY DEF Init
  <1>2. p \in Seq(Byte) /\ s \in Seq(Byte) /\ Append(p, Newline) \in Seq(Byte)
    BY ExchangeAssumption
  <1>3. payload \in [End -> Seq(Byte)] /\ script \in [End -> Seq(Byte)]
    BY <1>1, <1>2
  <1>4. /\ \A e \in End : sent[e] = 0 /\ taken[e] = 0 /\ data[e] = <<>>
        /\ sent \in [End -> Nat] /\ taken \in [End -> Nat] /\ data \in [End -> Seq(Byte)]
        /\ request \in Seq(Seq(Byte))
    BY DEF Init
  <1>5. StreamOK
    BY <1>3, <1>4, ExchangeAssumption DEF StreamOK
  <1>6. ControlOK
    <2>1. kasli \in BOOLEAN /\ sameUid \in BOOLEAN /\ left \in BOOLEAN
      BY DEF Init
    <2>2. pc \in [End -> Labels] /\ result \in [End -> Outcomes]
      BY DEF Init, Labels, Outcomes
    <2> QED BY <2>1, <2>2 DEF ControlOK
  <1>7. Unsent
    BY <1>4 DEF Unsent, End
  <1> QED BY <1>5, <1>6, <1>7 DEF TypeInv

(* What is sent is taken at most once and in order, no line that is being read
   exceeds kMaxUnixSocketLineBytes, and every value has its type. *)
THEOREM TypeCorrect == Spec => []TypeOK
  <1>1. TypeInv /\ [Next]_vars => TypeInv'
    BY TypeStep
  <1> QED BY <1>1, InitTyped, TypeParts, PTL DEF Spec

-----------------------------------------------------------------------------
(* The beginning of a sequence and the newline that follows it. *)
LEMMA LineEnds ==
    ASSUME NEW s \in Seq(Byte), NEW n \in Nat, n + 1 <= Len(s), s[n + 1] = Newline
    PROVE  Append(SubSeq(s, 1, n), Newline) = SubSeq(s, 1, n + 1)
  <1> DEFINE b == SubSeq(s, 1, n)
             l == Append(b, Newline)
             w == SubSeq(s, 1, n + 1)
  <1>0. Newline \in Byte /\ Len(s) \in Nat
    BY ExchangeAssumption
  <1>1. b \in Seq(Byte) /\ Len(b) = n /\ \A i \in 1 .. n : b[i] = s[i]
    BY <1>0
  <1>2. w \in Seq(Byte) /\ Len(w) = n + 1 /\ \A i \in 1 .. n + 1 : w[i] = s[i]
    BY <1>0
  <1> HIDE DEF b
  <1>3. /\ l \in Seq(Byte) /\ Len(l) = n + 1 /\ l[n + 1] = Newline
        /\ \A i \in 1 .. n : l[i] = b[i]
    BY <1>0, <1>1
  <1>4. ASSUME NEW i \in 1 .. n + 1 PROVE l[i] = w[i]
    <2>1. CASE i = n + 1
      BY <2>1, <1>2, <1>3
    <2>2. CASE i # n + 1
      <3>1. i \in 1 .. n
        BY <2>2
      <3> QED BY <3>1, <1>1, <1>2, <1>3
    <2> QED BY <2>1, <2>2
  <1>5. l = w
    BY <1>2, <1>3, <1>4
  <1> QED BY <1>5 DEF b

(* A line has no newline when none of its two parts has. *)
LEMMA NoNewline ==
    ASSUME NEW s \in Seq(Byte), NEW t \in Seq(Byte), ~Has(s), ~Has(t)
    PROVE  ~Has(s \o t)
  <1> SUFFICES ASSUME NEW i \in 1 .. Len(s \o t), (s \o t)[i] = Newline
               PROVE  FALSE
    BY DEF Has
  <1>1. Len(s) \in Nat /\ Len(t) \in Nat /\ Len(s \o t) = Len(s) + Len(t)
    OBVIOUS
  <1>2. CASE i <= Len(s)
    <2>1. (s \o t)[i] = s[i] /\ i \in 1 .. Len(s)
      BY <1>1, <1>2
    <2> QED BY <2>1 DEF Has
  <1>3. CASE i > Len(s)
    <2>1. (s \o t)[i] = t[i - Len(s)] /\ i - Len(s) \in 1 .. Len(t)
      BY <1>1, <1>3
    <2> QED BY <2>1 DEF Has
  <1> QED BY <1>1, <1>2, <1>3

(* The first line of the server's peer, of which the newline was sent as well. *)
IsFirstLine(d) ==
    /\ Len(d) <= Max /\ ~Has(d)
    /\ Len(d) < sent[Client]
    /\ Append(d, Newline) = SubSeq(script[Client], 1, Len(d) + 1)

(* What accept_one knows at each place. While it reads, it has all that was taken
   from its peer; so a line that ends is the first one. *)
LineInv ==
    /\ pc[Server] \notin {"write", "close", "done"} => request = <<>>
    /\ pc[Server] \in {"accept", "prepare", "uid"} => data[Server] = <<>> /\ taken[Client] = 0
    /\ pc[Server] = "read" =>
         /\ sameUid /\ ~Has(data[Server])
         /\ data[Server] = SubSeq(script[Client], 1, taken[Client])
    /\ pc[Server] = "handle" => sameUid /\ IsFirstLine(data[Server])
    /\ request # <<>> => sameUid /\ Len(request) = 1 /\ IsFirstLine(request[1])

(* What was a first line stays one: the peer's script is fixed, and what it has
   sent only grows. *)
LEMMA StaysFirstLine ==
    ASSUME TypeInv, TypeInv', NEW d \in Seq(Byte), IsFirstLine(d),
           script'[Client] = script[Client], sent[Client] <= sent'[Client]
    PROVE  /\ Len(d) <= Max /\ ~Has(d)
           /\ Len(d) < sent'[Client]
           /\ Append(d, Newline) = SubSeq(script'[Client], 1, Len(d) + 1)
  <1>1. Client \in End
    BY DEF End
  <1>2. sent[Client] \in Nat /\ sent'[Client] \in Nat /\ Len(d) \in Nat
    BY <1>1 DEF TypeInv, StreamOK
  <1> QED BY <1>2 DEF IsFirstLine

(* Steps of the peer, and steps by which the server goes on to answer or ends. *)
LEMMA LineKept ==
    ASSUME TypeInv, TypeInv', LineInv, UNCHANGED <<sameUid, request>>,
           script'[Client] = script[Client], sent[Client] <= sent'[Client],
           \/ pc'[Server] \in {"write", "close", "done"}
           \/ /\ pc'[Server] = pc[Server]
              /\ taken'[Client] = taken[Client] /\ data'[Server] = data[Server]
    PROVE  LineInv'
  <1>1. Server \in End /\ data[Server] \in Seq(Byte) /\ request \in Seq(Seq(Byte))
    BY DEF End, TypeInv, StreamOK
  <1>2. request # <<>> => IsFirstLine(request[1])'
    <2> SUFFICES ASSUME request # <<>> PROVE IsFirstLine(request[1])'
      OBVIOUS
    <2>1. request[1] \in Seq(Byte) /\ IsFirstLine(request[1]) /\ request' = request
      BY <1>1 DEF LineInv
    <2> QED BY <2>1, StaysFirstLine DEF IsFirstLine, Has
  <1>3. CASE pc'[Server] \in {"write", "close", "done"}
    BY <1>2, <1>3 DEF LineInv
  <1>4. CASE /\ pc'[Server] = pc[Server] /\ taken'[Client] = taken[Client]
             /\ data'[Server] = data[Server]
    <2>1. pc[Server] = "handle" => IsFirstLine(data[Server])'
      <3> SUFFICES ASSUME pc[Server] = "handle" PROVE IsFirstLine(data[Server])'
        OBVIOUS
      <3>1. IsFirstLine(data[Server])
        BY DEF LineInv
      <3> QED BY <1>1, <1>4, <3>1, StaysFirstLine DEF IsFirstLine, Has
    <2>2. Has(data[Server])' <=> Has(data[Server])
      BY <1>4 DEF Has
    <2> QED BY <1>2, <1>4, <2>1, <2>2 DEF LineInv
  <1> QED BY <1>3, <1>4

(* A call that stops, at either end, and the close of its socket. *)
LEMMA StopsKeeps ==
    ASSUME TypeInv, TypeInv', LineInv, NEW e \in End, NEW r, Stops(e, r) \/ Close(e)
    PROVE  LineInv'
  <1>1. pc'[Server] \in {"close", "done"} \/ pc'[Server] = pc[Server]
    BY DEF Stops, Throws, Vanishes, Ends, Close, TypeInv, ControlOK, End
  <1>2. UNCHANGED <<sameUid, request, script, sent, taken, data>>
    BY DEF Stops, Throws, Vanishes, Close
  <1>3. sent[Client] <= sent'[Client]
    BY <1>2 DEF TypeInv, StreamOK, End
  <1> QED BY <1>1, <1>2, <1>3, LineKept

(* What an end reads next follows what it has, as long as it has kept all it took. *)
LEMMA ReadsOn ==
    ASSUME TypeInv, NEW e \in End, NEW k \in Readable(e), NEW j \in 0 .. k,
           data[e] = SubSeq(script[Peer(e)], 1, taken[Peer(e)])
    PROVE  /\ data[e] \o SubSeq(Chunk(e, k), 1, j)
                = SubSeq(script[Peer(e)], 1, taken[Peer(e)] + j)
           /\ SubSeq(Chunk(e, k), 1, j) \in Seq(Byte)
           /\ Len(SubSeq(script[Peer(e)], 1, taken[Peer(e)] + j)) = taken[Peer(e)] + j
  <1> DEFINE s == script[Peer(e)]
             a == taken[Peer(e)]
             c == Chunk(e, k)
  <1>1. Peer(e) \in End
    BY DEF End, Peer
  <1>2. /\ k \in Nat /\ a + k <= Len(s) /\ c \in Seq(Byte) /\ Len(c) = k
        /\ \A i \in 1 .. k : c[i] = s[a + i]
    BY <1>1, ChunkTyped
  <1>3. s \in Seq(Byte) /\ a \in Nat /\ data[e] = SubSeq(s, 1, a)
    BY <1>1 DEF TypeInv, StreamOK
  <1> HIDE DEF s, a, c
  <1>4. j \in Nat /\ j <= k /\ a + j <= Len(s)
    BY <1>2, <1>3
  <1> DEFINE x == SubSeq(c, 1, j)
             y == SubSeq(s, a + 1, a + j)
  <1>5. x \in Seq(Byte) /\ Len(x) = j /\ \A i \in 1 .. j : x[i] = c[i]
    BY <1>2, <1>4
  <1>6. /\ y \in Seq(Byte) /\ Len(y) = j /\ \A i \in 1 .. j : y[i] = s[a + i]
        /\ SubSeq(s, 1, a) \o y = SubSeq(s, 1, a + j)
    BY ONLY <1>3, <1>4, PieceFollows
  <1> HIDE DEF x, y
  <1>7. x = y
    <2>1. \A i \in 1 .. j : i \in 1 .. k
      BY <1>2, <1>4
    <2>2. \A i \in 1 .. j : x[i] = y[i]
      BY ONLY <1>2, <1>5, <1>6, <2>1
    <2> QED BY ONLY <1>5, <1>6, <2>2, <1>4
  <1>8. Len(SubSeq(s, 1, a + j)) = a + j
    BY <1>3, <1>4
  <1> QED BY <1>3, <1>5, <1>6, <1>7, <1>8 DEF s, a, c, x

(* The same of the server. *)
LEMMA ServerReads ==
    ASSUME TypeInv, LineInv, pc[Server] = "read", NEW k \in Readable(Server), NEW j \in 0 .. k
    PROVE  /\ data[Server] \o SubSeq(Chunk(Server, k), 1, j)
                = SubSeq(script[Client], 1, taken[Client] + j)
           /\ SubSeq(Chunk(Server, k), 1, j) \in Seq(Byte)
           /\ Len(SubSeq(script[Client], 1, taken[Client] + j)) = taken[Client] + j
  <1>1. Server \in End /\ Peer(Server) = Client
    BY ExchangeAssumption DEF End, Peer
  <1>2. data[Server] = SubSeq(script[Client], 1, taken[Client])
    BY DEF LineInv
  <1> QED BY <1>1, <1>2, ReadsOn

(* Every step keeps what accept_one knows, one case per system call. *)
LEMMA LineStep ==
    ASSUME TypeInv, TypeInv', LineInv, [Next]_vars
    PROVE  LineInv'
  <1>0. /\ Server \in End /\ Client \in End /\ Client # Server
        /\ Peer(Server) = Client /\ Peer(Client) = Server
    BY ExchangeAssumption DEF End, Peer
  <1>t. /\ taken \in [End -> Nat] /\ sent \in [End -> Nat] /\ script \in [End -> Seq(Byte)]
        /\ data \in [End -> Seq(Byte)] /\ pc \in [End -> Labels]
        /\ sent[Client] <= sent[Client] /\ request \in Seq(Seq(Byte))
    <2>1. sent \in [End -> Nat] /\ sent[Client] \in Nat
      BY <1>0 DEF TypeInv, StreamOK
    <2> QED BY <2>1 DEF TypeInv, StreamOK, ControlOK
  <1>1. CASE UNCHANGED vars
    BY <1>1, <1>t, LineKept DEF vars
  <1>2. ASSUME NEW e \in End, WriteStep(e) PROVE LineInv'
    <2>1. CASE WriteLineRefuses(e) \/ SendFails(e) \/ SendTimesOut(e)
      BY <2>1, StopsKeeps DEF WriteLineRefuses, SendFails, SendTimesOut, Stops
    <2>2. CASE Send(e)
      <3>1. PICK k \in 1 .. Len(script[e]) - sent[e] :
              /\ sent' = [sent EXCEPT ![e] = @ + k]
              /\ IF sent[e] + k = Len(script[e]) THEN AfterWrite(e)
                 ELSE UNCHANGED <<pc, result, left>>
        BY <2>2 DEF Send
      <3>2. UNCHANGED <<sameUid, script, taken, data, request>> /\ pc[e] = "write"
        BY <2>2 DEF Send
      <3>3. sent[Client] <= sent'[Client]
        BY <3>1, <1>0, <1>t
      <3>4. pc'[Server] = pc[Server] \/ pc'[Server] \in {"write", "close", "done"}
        BY <3>1, <1>0, <1>t DEF AfterWrite, Goto, Ends, Outcome, End
      <3> QED BY <3>2, <3>3, <3>4, LineKept
    <2> QED BY <1>2, <2>1, <2>2 DEF WriteStep
  <1>3. ASSUME ReadStep(Server) PROVE LineInv'
    <2>1. CASE ReadsLine(Server)
      <3>1. PICK k \in Readable(Server) : \E j \in 1 .. k :
              /\ AtNewline(Chunk(Server, k), j)
              /\ Len(data[Server]) + (j - 1) <= Max
              /\ data' = [data EXCEPT ![Server] = @ \o SubSeq(Chunk(Server, k), 1, j - 1)]
        BY <2>1 DEF ReadsLine
      <3>2. PICK j \in 1 .. k :
              /\ AtNewline(Chunk(Server, k), j)
              /\ Len(data[Server]) + (j - 1) <= Max
              /\ data' = [data EXCEPT ![Server] = @ \o SubSeq(Chunk(Server, k), 1, j - 1)]
        BY <3>1
      <3>3. /\ UNCHANGED <<sameUid, script, sent, request>> /\ pc[Server] = "read"
            /\ pc' = [pc EXCEPT ![Server] = "handle"]
        BY <2>1, <1>0 DEF ReadsLine, AfterRead, Goto
      <3> DEFINE n == taken[Client] + (j - 1)
      <3>4. /\ k \in Nat /\ taken[Client] + k <= sent[Client]
            /\ taken[Client] + k <= Len(script[Client])
            /\ \A i \in 1 .. k : Chunk(Server, k)[i] = script[Client][taken[Client] + i]
        BY <1>0, ChunkTyped
      <3>5. j - 1 \in 0 .. k /\ n \in Nat /\ n + 1 = taken[Client] + j /\ n < sent[Client]
            /\ n + 1 <= Len(script[Client])
        <4>1. j \in Nat /\ 1 <= j /\ j <= k
          BY <3>2, <3>4
        <4>2. taken[Client] \in Nat /\ sent[Client] \in Nat /\ Len(script[Client]) \in Nat
          BY <1>0, <1>t
        <4> QED BY <4>1, <4>2, <3>4
      <3>6. /\ data'[Server] = SubSeq(script[Client], 1, n) /\ Len(data'[Server]) = n
        BY <3>2, <3>3, <3>5, <1>0, <1>t, ServerReads
      <3>7. ~Has(data'[Server])
        <4>1. ~Has(data[Server])
          BY <3>3 DEF LineInv
        <4>2. ~Has(SubSeq(Chunk(Server, k), 1, j - 1))
          BY <3>2 DEF AtNewline
        <4>3. SubSeq(Chunk(Server, k), 1, j - 1) \in Seq(Byte)
          BY <3>3, <3>5, ServerReads
        <4>4. data'[Server] = data[Server] \o SubSeq(Chunk(Server, k), 1, j - 1)
          BY <3>2, <1>0, <1>t
        <4> QED BY <4>1, <4>2, <4>3, <4>4, <1>0, <1>t, NoNewline
      <3>8. script[Client][n + 1] = Newline
        BY <3>2, <3>4, <3>5 DEF AtNewline
      <3>9. Append(data'[Server], Newline) = SubSeq(script[Client], 1, n + 1)
        <4> HIDE DEF n
        <4> QED BY <3>5, <3>6, <3>8, <1>0, <1>t, LineEnds
      <3>10. Len(data'[Server]) <= Max
        BY <1>0 DEF TypeInv, StreamOK
      <3>11. IsFirstLine(data[Server])'
        <4> HIDE DEF n
        <4> QED BY <3>3, <3>5, <3>6, <3>7, <3>9, <3>10 DEF IsFirstLine, Has
      <3>12. sameUid /\ request = <<>>
        BY <3>3 DEF LineInv
      <3>13. pc'[Server] = "handle"
        BY <3>3, <1>0, <1>t
      <3> QED BY <3>3, <3>11, <3>12, <3>13 DEF LineInv
    <2>2. CASE ReadsSome(Server)
      <3>1. PICK k \in Readable(Server) :
              /\ ~Has(Chunk(Server, k))
              /\ data' = [data EXCEPT ![Server] = @ \o Chunk(Server, k)]
              /\ taken' = [taken EXCEPT ![Client] = @ + k]
        BY <2>2, <1>0 DEF ReadsSome, Take
      <3>2. UNCHANGED <<sameUid, pc, script, sent, request>> /\ pc[Server] = "read"
        BY <2>2 DEF ReadsSome
      <3>3. k \in Nat /\ Chunk(Server, k) \in Seq(Byte) /\ Len(Chunk(Server, k)) = k
        BY <1>0, ChunkTyped
      <3>4. SubSeq(Chunk(Server, k), 1, k) = Chunk(Server, k) /\ k \in 0 .. k
        BY <3>3
      <3>5. /\ data'[Server] = data[Server] \o Chunk(Server, k)
            /\ taken'[Client] = taken[Client] + k
        BY <3>1, <1>0, <1>t
      <3>6. data'[Server] = SubSeq(script'[Client], 1, taken'[Client])
        BY <3>2, <3>4, <3>5, ServerReads
      <3>7. sameUid /\ ~Has(data[Server]) /\ request = <<>>
        BY <3>2 DEF LineInv
      <3>8. ~Has(data'[Server])
        BY <3>1, <3>3, <3>5, <3>7, <1>0, <1>t, NoNewline
      <3>9. ~Has(data[Server])'
        BY <3>8 DEF Has
      <3> QED BY <3>2, <3>6, <3>7, <3>9 DEF LineInv
    <2>3. CASE ReadsTooMuch(Server)
      <3>1. pc'[Server] = "close" /\ UNCHANGED <<sameUid, script, sent, request>>
        BY <2>3, <1>0, <1>t DEF ReadsTooMuch, Ends, Outcome
      <3> QED BY <3>1, <1>t, LineKept
    <2>4. CASE ReadsEnd(Server) \/ ReadTimesOut(Server)
      BY <2>4, <1>0, StopsKeeps DEF ReadsEnd, ReadTimesOut, Stops
    <2> QED BY <1>3, <2>1, <2>2, <2>3, <2>4 DEF ReadStep
  <1>4. ASSUME ReadStep(Client) PROVE LineInv'
    <2>1. CASE ReadsEnd(Client) \/ ReadTimesOut(Client)
      BY <2>1, <1>0, StopsKeeps DEF ReadsEnd, ReadTimesOut, Stops
    <2>2. CASE ReadsLine(Client) \/ ReadsSome(Client) \/ ReadsTooMuch(Client)
      <3>1. UNCHANGED <<sameUid, script, sent, request>>
        BY <2>2 DEF ReadsLine, ReadsSome, ReadsTooMuch
      <3>2. pc'[Server] = pc[Server]
        BY <2>2, <1>0, <1>t DEF ReadsLine, ReadsSome, ReadsTooMuch, AfterRead, Ends, Outcome
      <3>3. taken'[Client] = taken[Client]
        BY <2>2, <1>0, <1>t DEF ReadsLine, ReadsSome, ReadsTooMuch, Take
      <3>4. data'[Server] = data[Server]
        BY <2>2, <1>0, <1>t DEF ReadsLine, ReadsSome, ReadsTooMuch
      <3> QED BY <3>1, <3>2, <3>3, <3>4, <1>t, LineKept
    <2> QED BY <1>4, <2>1, <2>2 DEF ReadStep
  <1>5. ASSUME AcceptStep PROVE LineInv'
    <2>1. CASE Accept \/ Prepare
      BY <2>1, <1>0, <1>t DEF Accept, Prepare, Goto, LineInv, IsFirstLine, Has
    <2>2. CASE ValidatePeer
      <3>1. /\ pc[Server] = "uid" /\ pc'[Server] = "read" /\ sameUid'
            /\ UNCHANGED <<script, sent, taken, data, request>>
        BY <2>2, <1>0, <1>t DEF ValidatePeer, Goto
      <3>2. data[Server] = <<>> /\ taken[Client] = 0 /\ request = <<>>
        BY <3>1 DEF LineInv
      <3>3. SubSeq(script[Client], 1, 0) = <<>>
        BY <1>0, <1>t
      <3>4. ~Has(data[Server])'
        BY <3>1, <3>2 DEF Has
      <3> QED BY <3>1, <3>2, <3>3, <3>4 DEF LineInv
    <2>3. CASE PrepareFails \/ RejectPeer
      BY <2>3, <1>0, StopsKeeps DEF PrepareFails, RejectPeer, Stops
    <2>4. CASE HandlerReturns \/ HandlerThrows
      <3>1. /\ pc[Server] = "handle" /\ request' = Append(request, data[Server])
            /\ UNCHANGED <<sameUid, sent, data>> /\ pc'[Server] \in {"write", "close", "done"}
        BY <2>4, <1>0, <1>t DEF HandlerReturns, HandlerThrows, Goto, Ends, Outcome
      <3>2. script'[Client] = script[Client]
        BY <2>4, <1>0, <1>t DEF HandlerReturns, HandlerThrows
      <3>3. request = <<>> /\ sameUid /\ IsFirstLine(data[Server]) /\ data[Server] \in Seq(Byte)
        BY <3>1, <1>0, <1>t DEF LineInv
      <3>4. Len(request') = 1 /\ request'[1] = data[Server]
        BY <3>1, <3>3
      <3>5. IsFirstLine(request[1])'
        BY <3>1, <3>2, <3>3, <3>4, <1>t, StaysFirstLine DEF IsFirstLine, Has
      <3> QED BY <3>1, <3>3, <3>4, <3>5 DEF LineInv
    <2> QED BY <1>5, <2>1, <2>2, <2>3, <2>4 DEF AcceptStep
  <1>6. CASE OtherTakes
    <2>1. /\ UNCHANGED <<sameUid, pc, script, sent, data, request>>
          /\ taken'[Client] = taken[Client]
      BY <1>6, <1>0, <1>t DEF OtherTakes, Take
    <2> QED BY <2>1, <1>t, LineKept
  <1>7. CASE OtherCloses
    BY <1>7, <1>0, StopsKeeps DEF OtherCloses, Stops
  <1>8. ASSUME NEW e \in End, Kill(e) PROVE LineInv'
    BY <1>8, StopsKeeps DEF Kill, Stops
  <1>9. ASSUME NEW e \in End, Close(e) PROVE LineInv'
    BY <1>9, StopsKeeps
  <1> QED BY <1>1, <1>2, <1>3, <1>4, <1>5, <1>6, <1>7, <1>8, <1>9 DEF Next, EndStep, End

(* Nothing is taken or asked when a connection starts. *)
LEMMA InitLined == Init => LineInv
  <1> SUFFICES ASSUME Init PROVE LineInv
    OBVIOUS
  <1>1. pc[Server] = "accept" /\ data[Server] = <<>> /\ taken[Client] = 0 /\ request = <<>>
    BY ExchangeAssumption DEF Init, End
  <1> QED BY <1>1 DEF LineInv

(* accept_one calls the handler at most once, with all of the first line of a peer
   of its own uid and nothing else, however that line was cut into pieces on its
   way and whatever the peer does meanwhile. *)
THEOREM WholeLines == Spec => []HandlerGetsTheLine
  <1>1. Init => LineInv
    BY InitLined
  <1>2. TypeInv /\ LineInv /\ [Next]_vars => (TypeInv /\ LineInv)'
    BY TypeStep, LineStep
  <1>3. TypeInv /\ LineInv => HandlerGetsTheLine
    <2> SUFFICES ASSUME TypeInv, LineInv PROVE HandlerGetsTheLine
      OBVIOUS
    <2>1. CASE request = <<>>
      BY <2>1 DEF HandlerGetsTheLine
    <2>2. CASE request # <<>>
      <3>1. sameUid /\ Len(request) = 1 /\ IsFirstLine(request[1])
        BY <2>2, Zenon DEF LineInv
      <3>2. Len(request) <= 1
        BY <3>1
      <3> QED BY <3>1, <3>2, Zenon DEF HandlerGetsTheLine, IsFirstLine
    <2> QED BY <2>1, <2>2
  <1> QED BY <1>1, <1>2, <1>3, InitTyped, PTL DEF Spec

-----------------------------------------------------------------------------
(* A step of one end leaves the peer where it is, with what it has sent and read. *)
OnlyMoves(e) ==
    LET p == Peer(e) IN
    /\ UNCHANGED <<kasli, sameUid>>
    /\ pc'[p] = pc[p] /\ result'[p] = result[p] /\ payload'[p] = payload[p]
    /\ script'[p] = script[p] /\ sent'[p] = sent[p] /\ data'[p] = data[p]
    /\ taken'[e] = taken[e]

ClientStep == EndStep(Client) \/ Kill(Client) \/ OtherTakes \/ OtherCloses

ServerStep == EndStep(Server) \/ Kill(Server)

(* The two ends of the connection. *)
LEMMA TheEnds ==
    /\ Server \in End /\ Client \in End /\ Client # Server /\ End = {Client, Server}
    /\ Peer(Server) = Client /\ Peer(Client) = Server
  BY ExchangeAssumption DEF End, Peer

(* kasli's end, or the other peer in its place, moves alone. *)
LEMMA ClientMoves ==
    ASSUME TypeInv, ClientStep
    PROVE  OnlyMoves(Client) /\ UNCHANGED <<payload, script, request>>
  <1>t. /\ pc \in [End -> Labels] /\ result \in [End -> Outcomes] /\ sent \in [End -> Nat]
        /\ taken \in [End -> Nat] /\ data \in [End -> Seq(Byte)]
    BY DEF TypeInv, ControlOK, StreamOK
  <1>1. ASSUME NEW r, Stops(Client, r) \/ Close(Client)
        PROVE OnlyMoves(Client) /\ UNCHANGED <<payload, script, request>>
    BY <1>1, <1>t, TheEnds DEF Stops, Throws, Vanishes, Close, Ends, Outcome, OnlyMoves
  <1>2. CASE WriteStep(Client)
    <2>1. CASE Send(Client)
      <3>1. /\ UNCHANGED <<kasli, sameUid, payload, script, taken, data, request>>
            /\ \E k : sent' = [sent EXCEPT ![Client] = @ + k]
            /\ AfterWrite(Client) \/ UNCHANGED <<pc, result, left>>
        BY <2>1 DEF Send
      <3>2. pc'[Server] = pc[Server] /\ result'[Server] = result[Server]
        BY <3>1, <1>t, TheEnds DEF AfterWrite, Goto, Ends, Outcome
      <3> QED BY <3>1, <3>2, <1>t, TheEnds DEF OnlyMoves
    <2> QED BY <1>1, <1>2, <2>1 DEF WriteStep, WriteLineRefuses, SendFails, SendTimesOut, Stops
  <1>3. CASE ReadStep(Client)
    <2>1. CASE ReadsEnd(Client) \/ ReadTimesOut(Client)
      BY <1>1, <2>1 DEF ReadsEnd, ReadTimesOut, Stops
    <2>2. CASE ReadsLine(Client) \/ ReadsSome(Client) \/ ReadsTooMuch(Client)
      <3>1. UNCHANGED <<kasli, sameUid, payload, script, sent, request>>
        BY <2>2 DEF ReadsLine, ReadsSome, ReadsTooMuch
      <3>2. pc'[Server] = pc[Server] /\ result'[Server] = result[Server]
        BY <2>2, <1>t, TheEnds DEF ReadsLine, ReadsSome, ReadsTooMuch, AfterRead, Ends, Outcome
      <3>3. taken'[Client] = taken[Client] /\ data'[Server] = data[Server]
        BY <2>2, <1>t, TheEnds DEF ReadsLine, ReadsSome, ReadsTooMuch, Take
      <3> QED BY <3>1, <3>2, <3>3, TheEnds DEF OnlyMoves
    <2> QED BY <1>3, <2>1, <2>2 DEF ReadStep
  <1>4. CASE OtherTakes
    BY <1>4, <1>t, TheEnds DEF OtherTakes, Take, OnlyMoves
  <1>5. CASE Kill(Client) \/ OtherCloses \/ Close(Client)
    BY <1>1, <1>5 DEF Kill, OtherCloses, Stops
  <1> QED BY <1>2, <1>3, <1>4, <1>5, TheEnds DEF ClientStep, EndStep

(* accept_one moves alone, and changes what it means to send only when its handler
   returns. *)
LEMMA ServerMoves ==
    ASSUME TypeInv, ServerStep
    PROVE  /\ OnlyMoves(Server)
           /\ pc[Server] # "handle" => UNCHANGED <<payload, script, request>>
  <1>t. /\ pc \in [End -> Labels] /\ result \in [End -> Outcomes] /\ sent \in [End -> Nat]
        /\ taken \in [End -> Nat] /\ data \in [End -> Seq(Byte)]
        /\ payload \in [End -> Seq(Byte)] /\ script \in [End -> Seq(Byte)]
    BY DEF TypeInv, ControlOK, StreamOK
  <1>1. ASSUME NEW r, Stops(Server, r) \/ Close(Server)
        PROVE OnlyMoves(Server) /\ UNCHANGED <<payload, script, request>>
    BY <1>1, <1>t, TheEnds DEF Stops, Throws, Vanishes, Close, Ends, Outcome, OnlyMoves
  <1>2. CASE WriteStep(Server)
    <2>1. CASE Send(Server)
      <3>1. /\ UNCHANGED <<kasli, sameUid, payload, script, taken, data, request>>
            /\ \E k : sent' = [sent EXCEPT ![Server] = @ + k]
            /\ AfterWrite(Server) \/ UNCHANGED <<pc, result, left>>
        BY <2>1 DEF Send
      <3>2. pc'[Client] = pc[Client] /\ result'[Client] = result[Client]
        BY <3>1, <1>t, TheEnds DEF AfterWrite, Goto, Ends, Outcome
      <3> QED BY <3>1, <3>2, <1>t, TheEnds DEF OnlyMoves
    <2> QED BY <1>1, <1>2, <2>1 DEF WriteStep, WriteLineRefuses, SendFails, SendTimesOut, Stops
  <1>3. CASE ReadStep(Server)
    <2>1. CASE ReadsEnd(Server) \/ ReadTimesOut(Server)
      BY <1>1, <2>1 DEF ReadsEnd, ReadTimesOut, Stops
    <2>2. CASE ReadsLine(Server) \/ ReadsSome(Server) \/ ReadsTooMuch(Server)
      <3>1. UNCHANGED <<kasli, sameUid, payload, script, sent, request>>
        BY <2>2 DEF ReadsLine, ReadsSome, ReadsTooMuch
      <3>2. pc'[Client] = pc[Client] /\ result'[Client] = result[Client]
        BY <2>2, <1>t, TheEnds DEF ReadsLine, ReadsSome, ReadsTooMuch, AfterRead, Ends, Outcome, Goto
      <3>3. taken'[Server] = taken[Server] /\ data'[Client] = data[Client]
        BY <2>2, <1>t, TheEnds DEF ReadsLine, ReadsSome, ReadsTooMuch, Take
      <3> QED BY <3>1, <3>2, <3>3, TheEnds DEF OnlyMoves
    <2> QED BY <1>3, <2>1, <2>2 DEF ReadStep
  <1>4. CASE Accept \/ Prepare \/ ValidatePeer
    BY <1>4, <1>t, TheEnds DEF Accept, Prepare, ValidatePeer, Goto, OnlyMoves
  <1>5. CASE PrepareFails \/ RejectPeer \/ Kill(Server) \/ Close(Server)
    BY <1>1, <1>5 DEF PrepareFails, RejectPeer, Kill, Stops
  <1>6. CASE HandlerReturns
    BY <1>6, <1>t, TheEnds DEF HandlerReturns, Goto, OnlyMoves
  <1>7. CASE HandlerThrows
    BY <1>7, <1>t, TheEnds DEF HandlerThrows, Ends, Outcome, OnlyMoves
  <1> QED BY <1>2, <1>3, <1>4, <1>5, <1>6, <1>7 DEF ServerStep, EndStep, AcceptStep

(* Every step is one of either end. *)
LEMMA OneMoves == Next => ClientStep \/ ServerStep
  BY DEF Next, ClientStep, ServerStep, End

-----------------------------------------------------------------------------
(* What write_line takes. *)
Sendable(p) == Len(p) <= Max /\ ~Has(p)

(* The call of an end is over: its socket is yet to be closed, or is. *)
Over == {"close", "done"}

(* An end has an outcome exactly when its call is over, and only kasli has other
   outcomes than to close. *)
EndInv ==
    /\ \A e \in End : result[e] = "none" <=> pc[e] \notin Over
    /\ kasli => pc[Client] \in {"write", "read"} \cup Over
    /\ ~kasli => result[Client] \in {"none", "closed"}

(* Another peer has no call that ends before its socket is closed. *)
OtherInv == ~kasli => pc[Client] # "close"

(* What request_over_unix_socket knows at each place: when it reads, it has sent
   all of its request, and has all that was taken from the server. *)
RequestInv ==
    kasli =>
      /\ script[Client] = Append(payload[Client], Newline)
      /\ sent[Client] > 0 => Sendable(payload[Client])
      /\ pc[Client] = "write" =>
           data[Client] = <<>> /\ taken[Server] = 0 /\ sent[Client] < Len(script[Client])
      /\ pc[Client] = "read" =>
           /\ sent[Client] = Len(script[Client])
           /\ ~Has(data[Client]) /\ data[Client] = SubSeq(script[Server], 1, taken[Server])

(* What accept_one knows of its response: it has one only after a request, no byte
   of it is sent unless write_line takes it, and ok means that all are sent. *)
ResponseInv ==
    /\ script[Server] # <<>> =>
         request # <<>> /\ script[Server] = Append(payload[Server], Newline)
    /\ pc[Server] = "write" => script[Server] # <<>>
    /\ sent[Server] > 0 => Sendable(payload[Server])
    /\ result[Server] = "ok" => script[Server] # <<>> /\ sent[Server] = Len(script[Server])

PairInv == EndInv /\ OtherInv /\ RequestInv /\ ResponseInv

(* How a step of an end changes its place and its outcome. *)
LEMMA MoveOrEnd ==
    ASSUME TypeInv, PairInv, NEW e \in End,
           (e = Client /\ ClientStep) \/ (e = Server /\ ServerStep)
    PROVE  \/ Close(e) /\ pc[e] = "close" /\ pc'[e] = "done" /\ result' = result
           \/ pc[e] \notin Over /\ pc'[e] \in Over /\ result'[e] # "none"
           \/ pc[e] \notin Over /\ pc'[e] \notin Over /\ result'[e] = result[e]
  <1> DEFINE Goal == \/ Close(e) /\ pc[e] = "close" /\ pc'[e] = "done" /\ result' = result
                     \/ pc[e] \notin Over /\ pc'[e] \in Over /\ result'[e] # "none"
                     \/ pc[e] \notin Over /\ pc'[e] \notin Over /\ result'[e] = result[e]
  <1>t. pc \in [End -> Labels] /\ result \in [End -> Outcomes]
    BY DEF TypeInv, ControlOK
  <1>1. ASSUME NEW r \in Errors \cup {"ok"}, Ends(e, r) \/ Vanishes(e, r), pc[e] \notin Over
        PROVE  Goal
    BY <1>1, <1>t DEF Ends, Vanishes, Outcome, Errors, Over
  <1>2. ASSUME NEW l \in Labels \ Over, Goto(e, l), pc[e] \notin Over
        PROVE  Goal
    BY <1>2, <1>t DEF Goto
  <1>3. ASSUME UNCHANGED <<pc, result>>, pc[e] \notin Over
        PROVE  Goal
    BY <1>3
  <1>c. ASSUME Close(e) PROVE Goal
    <2>1. pc[e] = "close" /\ pc'[e] = "done" /\ result' = result
      BY <1>c, <1>t DEF Close
    <2> QED BY <1>c, <2>1
  <1> SUFFICES Goal
    OBVIOUS
  <1> HIDE DEF Goal
  <1>4. CASE WriteStep(e)
    <2>0. pc[e] \notin Over
      BY <1>4 DEF WriteStep, Send, WriteLineRefuses, SendFails, SendTimesOut, Over
    <2>1. CASE Send(e)
      <3>1. AfterWrite(e) \/ UNCHANGED <<pc, result>>
        BY <2>1 DEF Send
      <3> QED BY <1>1, <1>2, <1>3, <2>0, <3>1 DEF AfterWrite, Labels, Over
    <2>2. CASE WriteLineRefuses(e)
      <3>1. (IF LineIsTooLarge(e) THEN "too large" ELSE "newline") \in Errors
        BY DEF Errors
      <3> QED BY <1>1, <2>0, <2>2, <3>1 DEF WriteLineRefuses, Throws
    <2>3. CASE SendFails(e) \/ SendTimesOut(e)
      BY <1>1, <2>0, <2>3 DEF SendFails, SendTimesOut, Throws, Errors
    <2> QED BY <1>4, <2>1, <2>2, <2>3 DEF WriteStep
  <1>5. CASE ReadStep(e)
    <2>1. pc[e] \notin Over
      BY <1>5 DEF ReadStep, ReadsLine, ReadsSome, ReadsTooMuch, ReadsEnd, ReadTimesOut, Over
    <2>2. CASE ReadsLine(e)
      BY <1>1, <1>2, <2>1, <2>2 DEF ReadsLine, AfterRead, Labels, Over
    <2>3. CASE ReadsSome(e)
      BY <1>3, <2>1, <2>3 DEF ReadsSome
    <2>4. CASE ReadsTooMuch(e) \/ ReadsEnd(e) \/ ReadTimesOut(e)
      BY <1>1, <2>1, <2>4 DEF ReadsTooMuch, ReadsEnd, ReadTimesOut, Throws, Errors
    <2> QED BY <1>5, <2>2, <2>3, <2>4 DEF ReadStep
  <1>6. CASE e = Server /\ AcceptStep
    <2>0. pc[e] \notin Over
      BY <1>6 DEF AcceptStep, Accept, Prepare, PrepareFails, ValidatePeer, RejectPeer,
           HandlerReturns, HandlerThrows, Over
    <2>1. CASE Accept \/ Prepare \/ ValidatePeer \/ HandlerReturns
      BY <1>2, <1>6, <2>0, <2>1 DEF Accept, Prepare, ValidatePeer, HandlerReturns, Labels, Over
    <2>2. CASE PrepareFails \/ RejectPeer \/ HandlerThrows
      BY <1>1, <1>6, <2>0, <2>2 DEF PrepareFails, RejectPeer, HandlerThrows, Throws, Errors
    <2> QED BY <1>6, <2>1, <2>2 DEF AcceptStep
  <1>7. CASE Kill(e)
    <2>1. pc[e] \notin Over
      BY <1>7 DEF Kill, PairInv, EndInv
    <2> QED BY <1>1, <1>7, <2>1 DEF Kill, Errors
  <1>8. CASE e = Client /\ (OtherTakes \/ OtherCloses)
    <2>1. pc[e] \notin Over
      <3>1. ~kasli /\ pc[Client] # "done" /\ pc[Client] # "close"
        BY <1>8 DEF OtherTakes, OtherCloses, Closed, PairInv, OtherInv
      <3> QED BY <1>8, <3>1 DEF Over
    <2> QED BY <1>1, <1>3, <1>8, <2>1 DEF OtherTakes, OtherCloses, Errors
  <1> QED BY <1>c, <1>4, <1>5, <1>6, <1>7, <1>8, TheEnds DEF ClientStep, ServerStep, EndStep

(* Each end has its outcome when its call is over. *)
LEMMA EndKept ==
    ASSUME TypeInv, PairInv, [Next]_vars
    PROVE  EndInv' /\ OtherInv'
  <1>0. EndInv /\ OtherInv /\ pc \in [End -> Labels] /\ result \in [End -> Outcomes]
    BY DEF PairInv, TypeInv, ControlOK
  <1>1. CASE UNCHANGED vars
    BY <1>0, <1>1 DEF EndInv, OtherInv, vars
  <1>2. CASE ServerStep
    <2>1. kasli' = kasli /\ pc'[Client] = pc[Client] /\ result'[Client] = result[Client]
      BY <1>2, ServerMoves, TheEnds DEF OnlyMoves
    <2>2. result'[Server] = "none" <=> pc'[Server] \notin Over
      BY <1>0, <1>2, MoveOrEnd, TheEnds DEF EndInv, Over
    <2> QED BY <1>0, <2>1, <2>2, TheEnds DEF EndInv, OtherInv
  <1>3. CASE ClientStep
    <2>1. kasli' = kasli /\ pc'[Server] = pc[Server] /\ result'[Server] = result[Server]
      BY <1>3, ClientMoves, TheEnds DEF OnlyMoves
    <2>2. result'[Client] = "none" <=> pc'[Client] \notin Over
      BY <1>0, <1>3, MoveOrEnd, TheEnds DEF EndInv, Over
    <2>3. kasli => pc'[Client] \in {"write", "read"} \cup Over
      <3> SUFFICES ASSUME kasli PROVE pc'[Client] \in {"write", "read"} \cup Over
        OBVIOUS
      <3>1. CASE pc'[Client] = pc[Client]
        BY <1>0, <3>1 DEF EndInv
      <3>2. CASE WriteStep(Client)
        BY <1>0, <3>2, TheEnds DEF WriteStep, WriteLineRefuses, SendFails, SendTimesOut, Send,
             AfterWrite, Throws, Ends, Goto, EndInv, Over
      <3>3. CASE ReadStep(Client)
        BY <1>0, <3>3, TheEnds DEF ReadStep, ReadsLine, ReadsSome, ReadsTooMuch, ReadsEnd,
             ReadTimesOut, AfterRead, Throws, Ends, EndInv, Over
      <3>4. CASE Kill(Client) \/ Close(Client)
        BY <1>0, <3>4, TheEnds DEF Kill, Vanishes, Close, Over
      <3> QED BY <1>3, <3>2, <3>3, <3>4, TheEnds DEF ClientStep, EndStep, OtherTakes, OtherCloses
    <2>4. ~kasli => result'[Client] \in {"none", "closed"} /\ pc'[Client] # "close"
      <3> SUFFICES ASSUME ~kasli PROVE result'[Client] \in {"none", "closed"} /\ pc'[Client] # "close"
        OBVIOUS
      <3>1. ~OurCode(Client) /\ pc[Client] # "close"
        BY <1>0, TheEnds DEF OurCode, OtherInv
      <3>2. CASE Send(Client) \/ OtherTakes
        <4>1. result' = result /\ (pc' = pc \/ pc' = [pc EXCEPT ![Client] = "read"])
          BY <3>2, TheEnds DEF Send, AfterWrite, Goto, OtherTakes
        <4> QED BY <1>0, <3>1, <4>1, TheEnds DEF EndInv
      <3>3. CASE OtherCloses
        BY <1>0, <3>3, TheEnds DEF OtherCloses, Vanishes, Outcome
      <3> QED BY <1>3, <3>1, <3>2, <3>3, TheEnds DEF ClientStep, EndStep, WriteStep, ReadStep,
             WriteLineRefuses, SendFails, SendTimesOut, ReadsLine, ReadsSome, ReadsTooMuch,
             ReadsEnd, ReadTimesOut, Kill, Close
    <2> QED BY <2>1, <2>2, <2>3, <2>4, <1>0, TheEnds DEF EndInv, OtherInv
  <1> QED BY <1>1, <1>2, <1>3, OneMoves

(* What is sent was taken by write_line. *)
LEMMA Accepted ==
    ASSUME TypeInv, NEW e \in End, OurCode(e), WriteLineAccepts(e)
    PROVE  Sendable(payload[e])
  <1>1. Len(payload[e]) \in Nat /\ Max \in Nat
    BY ExchangeAssumption DEF TypeInv, StreamOK
  <1>2. ~(Len(payload[e]) > Max) /\ ~Has(payload[e])
    BY DEF WriteLineAccepts, LineIsTooLarge
  <1> QED BY <1>1, <1>2 DEF Sendable

(* What kasli knows stays so. *)
LEMMA RequestKept ==
    ASSUME TypeInv, TypeInv', PairInv, [Next]_vars
    PROVE  RequestInv'
  <1>t. /\ pc \in [End -> Labels] /\ sent \in [End -> Nat] /\ taken \in [End -> Nat]
        /\ data \in [End -> Seq(Byte)] /\ script \in [End -> Seq(Byte)]
        /\ payload \in [End -> Seq(Byte)]
    BY DEF TypeInv, ControlOK, StreamOK
  <1> SUFFICES ASSUME kasli, kasli' = kasli PROVE RequestInv'
    <2>1. kasli' = kasli
      BY ClientMoves, ServerMoves, OneMoves DEF OnlyMoves, vars
    <2> QED BY <2>1 DEF RequestInv
  <1>0. /\ script[Client] = Append(payload[Client], Newline)
        /\ sent[Client] > 0 => Sendable(payload[Client])
        /\ pc[Client] = "write" =>
             data[Client] = <<>> /\ taken[Server] = 0 /\ sent[Client] < Len(script[Client])
        /\ pc[Client] = "read" =>
             /\ sent[Client] = Len(script[Client])
             /\ ~Has(data[Client]) /\ data[Client] = SubSeq(script[Server], 1, taken[Server])
    BY DEF PairInv, RequestInv
  <1>1. CASE UNCHANGED vars
    BY <1>0, <1>1 DEF vars, RequestInv, Sendable, Has
  <1>2. CASE ServerStep
    <2>1. /\ pc'[Client] = pc[Client] /\ payload'[Client] = payload[Client]
          /\ script'[Client] = script[Client] /\ sent'[Client] = sent[Client]
          /\ data'[Client] = data[Client] /\ taken'[Server] = taken[Server]
      BY <1>2, ServerMoves, TheEnds DEF OnlyMoves
    <2>2. SubSeq(script'[Server], 1, taken[Server]) = SubSeq(script[Server], 1, taken[Server])
      <3>1. CASE pc[Server] # "handle"
        BY <1>2, <3>1, ServerMoves
      <3>2. CASE pc[Server] = "handle"
        <4>1. taken[Server] = 0
          <5>1. sent[Server] = 0 /\ taken[Server] <= sent[Server] /\ taken[Server] \in Nat
            BY <3>2, TheEnds DEF TypeInv, Unsent, StreamOK
          <5> QED BY <5>1
        <4>2. \A q \in Seq(Byte) : SubSeq(q, 1, 0) = <<>>
          OBVIOUS
        <4>3. script'[Server] \in Seq(Byte) /\ script[Server] \in Seq(Byte)
          BY <1>t, TheEnds DEF TypeInv, StreamOK
        <4> QED BY <4>1, <4>2, <4>3
      <3> QED BY <3>1, <3>2
    <2>3. Has(data[Client])' <=> Has(data[Client])
      BY <2>1 DEF Has
    <2>4. Sendable(payload[Client])' <=> Sendable(payload[Client])
      BY <2>1 DEF Sendable, Has
    <2> QED BY <1>0, <2>1, <2>2, <2>3, <2>4 DEF RequestInv
  <1>3. ASSUME ClientStep, pc'[Client] \in Over, sent'[Client] = sent[Client]
        PROVE  RequestInv'
    <2>1. payload' = payload /\ script' = script
      BY <1>3, ClientMoves
    <2>2. Sendable(payload[Client])' <=> Sendable(payload[Client])
      BY <2>1 DEF Sendable, Has
    <2> QED BY <1>0, <1>3, <2>1, <2>2 DEF RequestInv, Over
  <1>4. ASSUME NEW r, Stops(Client, r) \/ Close(Client), ClientStep PROVE RequestInv'
    BY <1>3, <1>4, <1>t, TheEnds DEF Stops, Throws, Vanishes, Close, Ends, Over
  <1>5. CASE Send(Client)
    <2>1. PICK k \in 1 .. Len(script[Client]) - sent[Client] :
            /\ sent' = [sent EXCEPT ![Client] = @ + k]
            /\ IF sent[Client] + k = Len(script[Client]) THEN AfterWrite(Client)
               ELSE UNCHANGED <<pc, result, left>>
      BY <1>5 DEF Send
    <2>2. /\ UNCHANGED <<payload, script, taken, data>> /\ pc[Client] = "write"
          /\ WriteLineAccepts(Client)
      BY <1>5 DEF Send
    <2>3. Sendable(payload[Client])
      BY <2>2, TheEnds, Accepted DEF OurCode
    <2>3a. Sendable(payload[Client])'
      BY <2>2, <2>3 DEF Sendable, Has
    <2>4. sent'[Client] = sent[Client] + k /\ sent[Client] + k <= Len(script[Client])
      BY <2>1, <1>t, TheEnds
    <2>5. CASE sent[Client] + k = Len(script[Client])
      <3>1. pc'[Client] = "read"
        BY <2>1, <2>5, <1>t, TheEnds DEF AfterWrite, Goto
      <3>2. data[Client] = <<>> /\ taken[Server] = 0
        BY <1>0, <2>2
      <3>3. SubSeq(script[Server], 1, 0) = <<>>
        BY <1>t, TheEnds
      <3>4. ~Has(data[Client])'
        BY <2>2, <3>2 DEF Has
      <3> QED BY <1>0, <2>2, <2>3a, <2>4, <2>5, <3>1, <3>2, <3>3, <3>4 DEF RequestInv
    <2>6. CASE sent[Client] + k # Len(script[Client])
      <3>1. pc' = pc /\ sent'[Client] < Len(script'[Client])
        BY <2>1, <2>2, <2>4, <2>6, <1>t, TheEnds
      <3> QED BY <1>0, <2>2, <2>3a, <3>1 DEF RequestInv
    <2> QED BY <2>5, <2>6
  <1>6. CASE ReadsSome(Client)
    <2>1. PICK k \in Readable(Client) :
            /\ ~Has(Chunk(Client, k))
            /\ data' = [data EXCEPT ![Client] = @ \o Chunk(Client, k)]
            /\ taken' = [taken EXCEPT ![Server] = @ + k]
      BY <1>6, TheEnds DEF ReadsSome, Take
    <2>2. UNCHANGED <<pc, payload, script, sent>> /\ pc[Client] = "read"
      BY <1>6 DEF ReadsSome
    <2>3. k \in Nat /\ Chunk(Client, k) \in Seq(Byte) /\ Len(Chunk(Client, k)) = k
      BY TheEnds, ChunkTyped
    <2>4. SubSeq(Chunk(Client, k), 1, k) = Chunk(Client, k) /\ k \in 0 .. k
      BY <2>3
    <2>5. /\ data'[Client] = data[Client] \o Chunk(Client, k)
          /\ taken'[Server] = taken[Server] + k
      BY <2>1, <1>t, TheEnds
    <2>6. data'[Client] = SubSeq(script'[Server], 1, taken'[Server])
      BY <1>0, <2>2, <2>4, <2>5, TheEnds, ReadsOn
    <2>7. ~Has(data'[Client])
      BY <1>0, <2>1, <2>2, <2>3, <2>5, <1>t, TheEnds, NoNewline
    <2>8. ~Has(data[Client])'
      BY <2>7 DEF Has
    <2>9. Sendable(payload[Client])' <=> Sendable(payload[Client])
      BY <2>2 DEF Sendable, Has
    <2> QED BY <1>0, <2>2, <2>6, <2>8, <2>9 DEF RequestInv
  <1>7. CASE ClientStep
    <2>1. CASE WriteStep(Client)
      BY <1>4, <1>5, <1>7, <2>1 DEF WriteStep, WriteLineRefuses, SendFails, SendTimesOut, Stops
    <2>2. CASE ReadsLine(Client) \/ ReadsTooMuch(Client)
      <3>1. pc'[Client] \in Over /\ sent' = sent
        BY <2>2, <1>t, TheEnds DEF ReadsLine, ReadsTooMuch, AfterRead, Ends, Over
      <3> QED BY <1>3, <1>7, <3>1
    <2>3. CASE ReadsEnd(Client) \/ ReadTimesOut(Client) \/ Kill(Client) \/ OtherCloses
               \/ Close(Client)
      BY <1>4, <1>7, <2>3 DEF ReadsEnd, ReadTimesOut, Kill, OtherCloses, Stops
    <2>4. ~OtherTakes
      BY DEF OtherTakes
    <2> QED BY <1>6, <1>7, <2>1, <2>2, <2>3, <2>4, TheEnds DEF ClientStep, EndStep, ReadStep
  <1> QED BY <1>1, <1>2, <1>7, OneMoves

(* A sequence that something was added to. *)
LEMMA NotEmpty ==
    ASSUME NEW T, NEW q \in Seq(T), NEW x \in T
    PROVE  Append(q, x) # <<>>
  <1>1. Len(Append(q, x)) = Len(q) + 1 /\ Len(q) \in Nat
    OBVIOUS
  <1> QED BY <1>1

(* What accept_one knows of its response stays so. *)
LEMMA ResponseKept ==
    ASSUME TypeInv, PairInv, [Next]_vars
    PROVE  ResponseInv'
  <1>t. /\ pc \in [End -> Labels] /\ result \in [End -> Outcomes] /\ sent \in [End -> Nat]
        /\ script \in [End -> Seq(Byte)] /\ payload \in [End -> Seq(Byte)]
        /\ request \in Seq(Seq(Byte)) /\ data \in [End -> Seq(Byte)]
    BY DEF TypeInv, ControlOK, StreamOK
  <1>0. ResponseInv
    BY DEF PairInv
  <1>1. ASSUME payload'[Server] = payload[Server], script'[Server] = script[Server],
               sent'[Server] = sent[Server], request # <<>> => request' # <<>>,
               pc'[Server] = "write" => pc[Server] = "write",
               result'[Server] = "ok" => result[Server] = "ok"
        PROVE  ResponseInv'
    <2>1. Sendable(payload[Server])' <=> Sendable(payload[Server])
      BY <1>1 DEF Sendable, Has
    <2> QED BY <1>0, <1>1, <2>1 DEF ResponseInv
  <1>2. CASE UNCHANGED vars
    BY <1>1, <1>2 DEF vars
  <1>3. CASE ClientStep
    BY <1>1, <1>3, ClientMoves, TheEnds DEF OnlyMoves
  <1>4. ASSUME NEW r \in Errors, Stops(Server, r) PROVE ResponseInv'
    <2>1. pc'[Server] # "write" /\ result'[Server] = r /\ r # "ok"
      BY <1>4, <1>t, TheEnds DEF Stops, Throws, Vanishes, Ends, Outcome, Errors
    <2> QED BY <1>1, <1>4, <2>1 DEF Stops, Throws, Vanishes
  <1>5. CASE Send(Server)
    <2>1. PICK k \in 1 .. Len(script[Server]) - sent[Server] :
            /\ sent' = [sent EXCEPT ![Server] = @ + k]
            /\ IF sent[Server] + k = Len(script[Server]) THEN AfterWrite(Server)
               ELSE UNCHANGED <<pc, result, left>>
      BY <1>5 DEF Send
    <2>2. /\ UNCHANGED <<payload, script, request>> /\ pc[Server] = "write"
          /\ WriteLineAccepts(Server)
      BY <1>5 DEF Send
    <2>3. Sendable(payload[Server])
      BY <2>2, TheEnds, Accepted DEF OurCode
    <2>4. Sendable(payload[Server])'
      BY <2>2, <2>3 DEF Sendable, Has
    <2>5. sent'[Server] = sent[Server] + k
      BY <2>1, <1>t, TheEnds
    <2>6. result[Server] # "ok"
      BY <2>2, TheEnds DEF PairInv, EndInv, Over
    <2>7. result'[Server] = "ok" => sent'[Server] = Len(script[Server])
      BY <2>1, <2>5, <2>6
    <2> QED BY <1>0, <2>2, <2>4, <2>7 DEF ResponseInv
  <1>6. CASE HandlerReturns
    <2>1. PICK p \in Payloads :
            /\ payload' = [payload EXCEPT ![Server] = p]
            /\ script' = [script EXCEPT ![Server] = Append(p, Newline)]
      BY <1>6 DEF HandlerReturns
    <2>2. /\ pc[Server] = "handle" /\ UNCHANGED <<sent, result>>
          /\ request' = Append(request, data[Server])
      BY <1>6 DEF HandlerReturns, Goto
    <2>3. p \in Seq(Byte) /\ payload'[Server] = p /\ script'[Server] = Append(p, Newline)
      BY <2>1, <1>t, TheEnds, ExchangeAssumption
    <2>4. script'[Server] # <<>>
      BY <2>3
    <2>5. request' # <<>>
      BY <2>2, <1>t, TheEnds, NotEmpty
    <2>6. sent'[Server] = 0 /\ result'[Server] # "ok"
      BY <2>2, TheEnds DEF TypeInv, Unsent, PairInv, EndInv, Over
    <2> QED BY <2>3, <2>4, <2>5, <2>6 DEF ResponseInv
  <1>7. CASE HandlerThrows
    <2>1. /\ request' = Append(request, data[Server]) /\ UNCHANGED <<payload, script, sent>>
          /\ pc'[Server] = "close" /\ result'[Server] = "handler"
      BY <1>7, <1>t, TheEnds DEF HandlerThrows, Ends, Outcome
    <2>2. request' # <<>>
      BY <2>1, <1>t, TheEnds, NotEmpty
    <2> QED BY <1>1, <2>1, <2>2
  <1>8. CASE ReadStep(Server)
    <2>1. CASE ReadsEnd(Server) \/ ReadTimesOut(Server)
      BY <1>4, <2>1 DEF ReadsEnd, ReadTimesOut, Errors, Stops
    <2>2. CASE ReadsLine(Server) \/ ReadsSome(Server) \/ ReadsTooMuch(Server)
      <3>1. UNCHANGED <<payload, script, sent, request>> /\ pc[Server] = "read"
        BY <2>2 DEF ReadsLine, ReadsSome, ReadsTooMuch
      <3>2. pc'[Server] # "write" /\ result'[Server] \in {result[Server], "too large"}
        BY <2>2, <1>t, TheEnds DEF ReadsLine, ReadsSome, ReadsTooMuch, AfterRead, Goto, Ends, Outcome
      <3> QED BY <1>1, <3>1, <3>2
    <2> QED BY <1>8, <2>1, <2>2 DEF ReadStep
  <1>9. CASE Accept \/ Prepare \/ ValidatePeer
    BY <1>1, <1>9, <1>t, TheEnds DEF Accept, Prepare, ValidatePeer, Goto
  <1>10. CASE WriteLineRefuses(Server)
    <2>1. (IF LineIsTooLarge(Server) THEN "too large" ELSE "newline") \in Errors
      BY DEF Errors
    <2> QED BY <1>4, <1>10, <2>1 DEF WriteLineRefuses, Stops
  <1>11. CASE SendFails(Server) \/ SendTimesOut(Server) \/ PrepareFails \/ RejectPeer
              \/ Kill(Server)
    BY <1>4, <1>11 DEF SendFails, SendTimesOut, PrepareFails, RejectPeer, Kill, Errors, Stops
  <1>12. CASE Close(Server)
    BY <1>1, <1>12, <1>t, TheEnds DEF Close
  <1> QED BY <1>2, <1>3, <1>5, <1>6, <1>7, <1>8, <1>9, <1>10, <1>11, <1>12, OneMoves
          DEF ServerStep, EndStep, WriteStep, AcceptStep

(* A connection starts with nothing said. *)
LEMMA InitPaired == Init => PairInv
  <1> SUFFICES ASSUME Init PROVE PairInv
    OBVIOUS
  <1>1. PICK p \in Payloads, s \in Scripts :
          /\ payload = [e \in End |-> IF e = Client /\ kasli THEN p ELSE <<>>]
          /\ script = [e \in End |-> IF e # Client THEN <<>>
                                     ELSE IF kasli THEN Append(p, Newline) ELSE s]
    BY DEF Init
  <1>2. /\ script[Server] = <<>>
        /\ kasli => payload[Client] = p /\ script[Client] = Append(p, Newline)
    BY <1>1, TheEnds
  <1>3. /\ pc[Client] = "write" /\ pc[Server] = "accept"
        /\ \A e \in End : result[e] = "none" /\ sent[e] = 0 /\ taken[e] = 0 /\ data[e] = <<>>
    BY TheEnds DEF Init
  <1>4. p \in Seq(Byte) /\ 0 < Len(Append(p, Newline))
    <2>1. p \in Seq(Byte) /\ Len(p) \in Nat /\ Len(Append(p, Newline)) = Len(p) + 1
      BY ExchangeAssumption
    <2> QED BY <2>1
  <1>5. EndInv
    BY <1>3, TheEnds DEF EndInv, Over
  <1>o. OtherInv
    BY <1>3 DEF OtherInv
  <1>6. RequestInv
    BY <1>2, <1>3, <1>4, TheEnds DEF RequestInv
  <1>7. ResponseInv
    BY <1>2, <1>3, TheEnds DEF ResponseInv
  <1> QED BY <1>5, <1>o, <1>6, <1>7 DEF PairInv

-----------------------------------------------------------------------------
(* A line write_line takes and its newline: the newline is the first one, and so
   what stands before it is the line. *)
LEMMA LineOfPayload ==
    ASSUME NEW p \in Seq(Byte)
    PROVE  /\ Append(p, Newline) \in Seq(Byte) /\ Len(Append(p, Newline)) = Len(p) + 1
           /\ Append(p, Newline)[Len(p) + 1] = Newline
           /\ SubSeq(Append(p, Newline), 1, Len(p)) = p
           /\ \A n \in Nat : /\ n + 1 <= Len(p) + 1 /\ Append(p, Newline)[n + 1] = Newline
                             /\ ~Has(p)
                            => n = Len(p)
  <1> DEFINE l == Append(p, Newline)
             b == SubSeq(l, 1, Len(p))
  <1>0. Newline \in Byte /\ Len(p) \in Nat
    BY ExchangeAssumption
  <1>1. /\ l \in Seq(Byte) /\ Len(l) = Len(p) + 1 /\ l[Len(p) + 1] = Newline
        /\ \A i \in 1 .. Len(p) : l[i] = p[i]
    BY <1>0
  <1> HIDE DEF l
  <1>2. b \in Seq(Byte) /\ Len(b) = Len(p) /\ \A i \in 1 .. Len(p) : b[i] = l[i]
    BY <1>0, <1>1
  <1>3. b = p
    <2>1. \A i \in 1 .. Len(p) : b[i] = p[i]
      BY <1>1, <1>2
    <2> HIDE DEF b
    <2> QED BY <1>2, <2>1
  <1>4. ASSUME NEW n \in Nat, n + 1 <= Len(p) + 1, l[n + 1] = Newline, ~Has(p)
        PROVE  n = Len(p)
    <2> SUFFICES ASSUME n # Len(p) PROVE FALSE
      OBVIOUS
    <2>1. n + 1 \in 1 .. Len(p)
      BY <1>0, <1>4
    <2>2. p[n + 1] = Newline
      BY <1>1, <1>4, <2>1
    <2> QED BY <1>4, <2>1, <2>2 DEF Has
  <1> QED BY <1>1, <1>3, <1>4 DEF l

(* The beginning of a sequence has a newline if the sequence has one there. *)
LEMMA HasInPrefix ==
    ASSUME NEW q \in Seq(Byte), NEW m \in Nat, m <= Len(q), NEW i \in 1 .. m, q[i] = Newline
    PROVE  Has(SubSeq(q, 1, m))
  <1>1. Len(SubSeq(q, 1, m)) = m /\ SubSeq(q, 1, m)[i] = q[i]
    OBVIOUS
  <1> QED BY <1>1 DEF Has

(* Some of the response was sent, so it is a line write_line takes. *)
LEMMA ResponseSent ==
    ASSUME TypeInv, PairInv, sent[Server] > 0
    PROVE  /\ payload[Server] \in Seq(Byte) /\ script[Server] = Append(payload[Server], Newline)
           /\ Len(payload[Server]) <= Max /\ ~Has(payload[Server])
           /\ Len(payload[Server]) \in Nat /\ Len(script[Server]) = Len(payload[Server]) + 1
  <1>1. /\ sent[Server] \in Nat /\ sent[Server] <= Len(script[Server])
        /\ script[Server] \in Seq(Byte) /\ payload[Server] \in Seq(Byte)
    BY TheEnds DEF TypeInv, StreamOK
  <1>2. script[Server] # <<>>
    BY <1>1
  <1>3. script[Server] = Append(payload[Server], Newline) /\ Sendable(payload[Server])
    BY <1>2 DEF PairInv, ResponseInv
  <1> QED BY <1>1, <1>3, LineOfPayload DEF Sendable

(* The same of kasli's request. *)
LEMMA RequestSent ==
    ASSUME TypeInv, PairInv, kasli, sent[Client] > 0
    PROVE  /\ payload[Client] \in Seq(Byte) /\ script[Client] = Append(payload[Client], Newline)
           /\ Len(payload[Client]) <= Max /\ ~Has(payload[Client])
           /\ Len(payload[Client]) \in Nat /\ Len(script[Client]) = Len(payload[Client]) + 1
  <1>1. payload[Client] \in Seq(Byte)
    BY TheEnds DEF TypeInv, StreamOK
  <1>2. script[Client] = Append(payload[Client], Newline) /\ Sendable(payload[Client])
    BY DEF PairInv, RequestInv
  <1> QED BY <1>1, <1>2, LineOfPayload DEF Sendable

(* A request of kasli reaches the handler as kasli means it, and by then kasli has
   sent all of it. *)
LEMMA RequestArrives ==
    ASSUME TypeInv, LineInv, PairInv, kasli, request # <<>>
    PROVE  request = <<payload[Client]>> /\ sent[Client] = Len(script[Client])
  <1> DEFINE d == request[1]
             p == payload[Client]
             s == script[Client]
  <1>1. Len(request) = 1 /\ IsFirstLine(d) /\ request \in Seq(Seq(Byte))
    BY DEF LineInv, TypeInv, StreamOK
  <1>2. d \in Seq(Byte) /\ Len(d) \in Nat /\ request = <<d>>
    BY <1>1
  <1>3. sent[Client] \in Nat /\ sent[Client] <= Len(s) /\ Len(d) < sent[Client] /\ s \in Seq(Byte)
    BY <1>1, TheEnds DEF IsFirstLine, TypeInv, StreamOK
  <1>4. sent[Client] > 0
    BY <1>2, <1>3
  <1>5. p \in Seq(Byte) /\ s = Append(p, Newline) /\ ~Has(p) /\ Len(s) = Len(p) + 1
    BY <1>4, RequestSent
  <1>6. Append(d, Newline) = SubSeq(s, 1, Len(d) + 1)
    BY <1>1 DEF IsFirstLine
  <1> HIDE DEF d, p, s
  <1>7. Len(d) + 1 <= Len(p) + 1 /\ Len(p) \in Nat /\ Len(d) + 1 <= Len(s)
    BY <1>2, <1>3, <1>5
  <1>8. s[Len(d) + 1] = Newline
    <2>1. SubSeq(s, 1, Len(d) + 1)[Len(d) + 1] = s[Len(d) + 1]
      BY <1>2, <1>3, <1>7
    <2>2. Append(d, Newline)[Len(d) + 1] = Newline
      BY <1>2, LineOfPayload
    <2> QED BY <1>6, <2>1, <2>2
  <1>9. Len(d) = Len(p)
    BY <1>2, <1>5, <1>7, <1>8, LineOfPayload
  <1>10. d = p
    <2>1. \A i \in 1 .. Len(p) : d[i] = p[i]
      <3> SUFFICES ASSUME NEW i \in 1 .. Len(p) PROVE d[i] = p[i]
        OBVIOUS
      <3>1. Append(d, Newline)[i] = d[i]
        BY <1>2, <1>7, <1>9
      <3>2. Append(p, Newline)[i] = p[i]
        BY <1>5, <1>7
      <3>3. SubSeq(s, 1, Len(d) + 1)[i] = s[i]
        BY <1>2, <1>3, <1>7, <1>9
      <3> QED BY <1>5, <1>6, <3>1, <3>2, <3>3
    <2> QED BY <1>2, <1>5, <1>9, <2>1
  <1>11. sent[Client] = Len(s)
    BY <1>3, <1>5, <1>7, <1>9
  <1> QED BY <1>2, <1>10, <1>11 DEF p, s

-----------------------------------------------------------------------------
(* What kasli has when it takes some more from the server. *)
LEMMA ClientTakes ==
    ASSUME TypeInv, PairInv, kasli, pc[Client] = "read", NEW k \in Readable(Client)
    PROVE  /\ data[Client] = SubSeq(script[Server], 1, taken[Server])
           /\ Len(data[Client]) = taken[Server] /\ taken[Server] \in Nat
           /\ taken[Server] + k <= Len(script[Server]) /\ sent[Server] > 0
           /\ Len(Chunk(Client, k)) = k /\ Chunk(Client, k) \in Seq(Byte) /\ k \in Nat
           /\ \A i \in 1 .. k : Chunk(Client, k)[i] = script[Server][taken[Server] + i]
  <1>1. data[Client] = SubSeq(script[Server], 1, taken[Server])
    BY DEF PairInv, RequestInv
  <1>2. /\ k \in Nat \ {0} /\ taken[Server] + k <= sent[Server]
        /\ taken[Server] + k <= Len(script[Server])
        /\ Chunk(Client, k) \in Seq(Byte) /\ Len(Chunk(Client, k)) = k
        /\ \A i \in 1 .. k : Chunk(Client, k)[i] = script[Server][taken[Server] + i]
    BY TheEnds, ChunkTyped
  <1>3. /\ taken[Server] \in Nat /\ sent[Server] \in Nat /\ script[Server] \in Seq(Byte)
    BY TheEnds DEF TypeInv, StreamOK
  <1>4. taken[Server] <= Len(script[Server]) /\ Len(script[Server]) \in Nat
    BY <1>2, <1>3
  <1>5. Len(data[Client]) = taken[Server]
    BY <1>1, <1>3, <1>4
  <1>6. sent[Server] > 0
    BY <1>2, <1>3
  <1> QED BY <1>1, <1>2, <1>3, <1>5, <1>6

(* The limits of write_line and read_line agree: kasli never finds a response of
   kaslid too large. *)
LEMMA LimitsAgree ==
    ASSUME TypeInv, PairInv, kasli
    PROVE  ~ReadsTooMuch(Client)
  <1> SUFFICES ASSUME ReadsTooMuch(Client) PROVE FALSE
    OBVIOUS
  <1> DEFINE a == taken[Server]
             s == script[Server]
             p == payload[Server]
  <1>1. pc[Client] = "read" /\ \E k \in Readable(Client) : \E j \in 1 .. k :
          ~Has(SubSeq(Chunk(Client, k), 1, j)) /\ Len(data[Client]) + j > Max
    BY DEF ReadsTooMuch
  <1>2. PICK k \in Readable(Client) : \E j \in 1 .. k :
          ~Has(SubSeq(Chunk(Client, k), 1, j)) /\ Len(data[Client]) + j > Max
    BY <1>1
  <1>3. PICK j \in 1 .. k : ~Has(SubSeq(Chunk(Client, k), 1, j)) /\ Len(data[Client]) + j > Max
    BY <1>2
  <1> DEFINE c == Chunk(Client, k)
  <1>4. /\ Len(data[Client]) = a /\ a \in Nat /\ a + k <= Len(s) /\ sent[Server] > 0
        /\ Len(c) = k /\ c \in Seq(Byte) /\ k \in Nat
        /\ \A i \in 1 .. k : c[i] = s[a + i]
    BY <1>1, ClientTakes
  <1>5. /\ p \in Seq(Byte) /\ s = Append(p, Newline) /\ Len(p) <= Max /\ Len(p) \in Nat
        /\ Len(s) = Len(p) + 1
    BY <1>4, ResponseSent
  <1>6. a + j > Max /\ Max \in Nat
    BY <1>3, <1>4, ExchangeAssumption
  <1> HIDE DEF a, s, p, c
  <1>7. j \in Nat /\ 1 <= j /\ j <= k /\ a + j = Len(p) + 1
    <2>1. j \in Nat /\ 1 <= j /\ j <= k
      BY <1>4
    <2>2. a \in Nat /\ k \in Nat /\ a + k <= Len(p) + 1 /\ Len(p) \in Nat /\ Len(p) <= Max
      BY <1>4, <1>5
    <2> QED BY ONLY <1>6, <2>1, <2>2
  <1>8. c[j] = Newline
    BY <1>4, <1>5, <1>7, LineOfPayload
  <1>9. Has(SubSeq(c, 1, j))
    <2>1. j \in 1 .. j /\ j <= Len(c)
      BY <1>4, <1>7
    <2> QED BY <1>4, <1>7, <1>8, <2>1, HasInPrefix
  <1> QED BY <1>3, <1>9 DEF c

(* What kasli gets as the line is the response of the handler. *)
LEMMA AnswerArrives ==
    ASSUME TypeInv, PairInv, kasli, ReadsLine(Client)
    PROVE  data'[Client] = payload[Server] /\ script[Server] # <<>>
  <1> DEFINE a == taken[Server]
             s == script[Server]
             p == payload[Server]
  <1>1. pc[Client] = "read" /\ \E k \in Readable(Client) : \E j \in 1 .. k :
          /\ AtNewline(Chunk(Client, k), j)
          /\ data' = [data EXCEPT ![Client] = @ \o SubSeq(Chunk(Client, k), 1, j - 1)]
    BY DEF ReadsLine
  <1>2. PICK k \in Readable(Client) : \E j \in 1 .. k :
          /\ AtNewline(Chunk(Client, k), j)
          /\ data' = [data EXCEPT ![Client] = @ \o SubSeq(Chunk(Client, k), 1, j - 1)]
    BY <1>1
  <1>3. PICK j \in 1 .. k :
          /\ AtNewline(Chunk(Client, k), j)
          /\ data' = [data EXCEPT ![Client] = @ \o SubSeq(Chunk(Client, k), 1, j - 1)]
    BY <1>2
  <1> DEFINE c == Chunk(Client, k)
  <1>4. /\ data[Client] = SubSeq(s, 1, a) /\ a \in Nat /\ a + k <= Len(s) /\ sent[Server] > 0
        /\ k \in Nat /\ \A i \in 1 .. k : c[i] = s[a + i]
    BY <1>1, ClientTakes
  <1>5. /\ p \in Seq(Byte) /\ s = Append(p, Newline) /\ ~Has(p) /\ Len(p) \in Nat
        /\ Len(s) = Len(p) + 1
    BY <1>4, ResponseSent
  <1>6. c[j] = Newline
    BY <1>3 DEF AtNewline
  <1>7. data'[Client] = SubSeq(s, 1, a + (j - 1))
    <2>1. j - 1 \in 0 .. k
      BY <1>4
    <2>2. data[Client] \o SubSeq(c, 1, j - 1) = SubSeq(s, 1, a + (j - 1))
      BY <1>4, <2>1, TheEnds, ReadsOn
    <2>3. data \in [End -> Seq(Byte)]
      BY DEF TypeInv, StreamOK
    <2> QED BY <1>3, <2>2, <2>3, TheEnds
  <1> HIDE DEF a, s, p, c
  <1> DEFINE n == a + (j - 1)
  <1>8. n \in Nat /\ n + 1 = a + j /\ n + 1 <= Len(p) + 1
    BY <1>4, <1>5
  <1>9. Append(p, Newline)[n + 1] = Newline
    BY <1>4, <1>5, <1>6, <1>8
  <1>10. n = Len(p)
    <2> HIDE DEF n
    <2> QED BY <1>5, <1>8, <1>9, LineOfPayload
  <1>11. data'[Client] = p
    BY <1>5, <1>7, <1>10, LineOfPayload
  <1>12. s # <<>>
    BY <1>5
  <1> QED BY <1>11, <1>12 DEF s, p

(* As long as kasli reads a response that is sent in full, some of it is left. *)
LEMMA SomeIsLeft ==
    ASSUME TypeInv, PairInv, kasli, pc[Client] = "read", result[Server] = "ok"
    PROVE  InFlight(Server) # 0
  <1> SUFFICES ASSUME InFlight(Server) = 0 PROVE FALSE
    OBVIOUS
  <1> DEFINE s == script[Server]
  <1>1. /\ s # <<>> /\ sent[Server] = Len(s) /\ s = Append(payload[Server], Newline)
    BY DEF PairInv, ResponseInv
  <1>2. /\ taken[Server] \in Nat /\ sent[Server] \in Nat /\ s \in Seq(Byte)
        /\ payload[Server] \in Seq(Byte)
    BY TheEnds DEF TypeInv, StreamOK
  <1>3. taken[Server] = Len(s)
    BY <1>1, <1>2 DEF InFlight
  <1>4. data[Client] = SubSeq(s, 1, Len(s)) /\ ~Has(data[Client])
    BY <1>3 DEF PairInv, RequestInv
  <1>5. Len(s) = Len(payload[Server]) + 1 /\ s[Len(s)] = Newline /\ Len(payload[Server]) \in Nat
    BY <1>1, <1>2, LineOfPayload
  <1> HIDE DEF s
  <1>6. Len(s) \in Nat /\ Len(s) \in 1 .. Len(s) /\ Len(s) <= Len(s)
    BY <1>5
  <1>7. Has(SubSeq(s, 1, Len(s)))
    BY <1>2, <1>5, <1>6, HasInPrefix
  <1> QED BY <1>4, <1>7

(* A line that accept_one finds too large is too large, and not kasli's. *)
LEMMA TooLargeIsTrue ==
    ASSUME TypeInv, LineInv, PairInv, ReadsTooMuch(Server)
    PROVE  /\ ~kasli
           /\ Len(script[Client]) > Max /\ ~Has(SubSeq(script[Client], 1, Max + 1))
  <1> DEFINE a == taken[Client]
             s == script[Client]
             p == payload[Client]
  <1>1. pc[Server] = "read" /\ \E k \in Readable(Server) : \E j \in 1 .. k :
          ~Has(SubSeq(Chunk(Server, k), 1, j)) /\ Len(data[Server]) + j > Max
    BY DEF ReadsTooMuch
  <1>2. PICK k \in Readable(Server) : \E j \in 1 .. k :
          ~Has(SubSeq(Chunk(Server, k), 1, j)) /\ Len(data[Server]) + j > Max
    BY <1>1
  <1>3. PICK j \in 1 .. k : ~Has(SubSeq(Chunk(Server, k), 1, j)) /\ Len(data[Server]) + j > Max
    BY <1>2
  <1> DEFINE c == SubSeq(Chunk(Server, k), 1, j)
             w == SubSeq(s, 1, a + j)
  <1>4. /\ k \in Nat /\ a + k <= sent[Client] /\ a + k <= Len(s)
    BY TheEnds, ChunkTyped
  <1>5. /\ a \in Nat /\ sent[Client] \in Nat /\ s \in Seq(Byte) /\ data[Server] \in Seq(Byte)
        /\ Max \in Nat
    BY TheEnds, ExchangeAssumption DEF TypeInv, StreamOK
  <1>6. j \in 0 .. k /\ j \in Nat /\ 1 <= j /\ j <= k
    BY <1>4
  <1>7. data[Server] \o c = w /\ c \in Seq(Byte) /\ ~Has(data[Server])
    BY <1>1, <1>6, ServerReads DEF LineInv
  <1>8. data[Server] = SubSeq(s, 1, a)
    BY <1>1 DEF LineInv
  <1>9. Len(data[Server]) = a
    BY <1>4, <1>5, <1>8
  <1>10. ~Has(w)
    BY <1>3, <1>5, <1>7, NoNewline
  <1> HIDE DEF s, a, c
  <1>11. Len(s) \in Nat /\ a + j > Max /\ a + j <= Len(s) /\ Len(s) > Max /\ a + j \in Nat
    BY <1>3, <1>4, <1>5, <1>6, <1>9
  <1>12. \A i \in 1 .. Max + 1 : s[i] # Newline
    <2> SUFFICES ASSUME NEW i \in 1 .. Max + 1, s[i] = Newline PROVE FALSE
      OBVIOUS
    <2>1. i \in 1 .. a + j
      BY <1>5, <1>11
    <2>2. Has(w)
      BY <1>5, <1>11, <2>1, HasInPrefix
    <2> QED BY <1>10, <2>2
  <1>13. ~Has(SubSeq(s, 1, Max + 1))
    <2>1. /\ Len(SubSeq(s, 1, Max + 1)) = Max + 1
          /\ \A i \in 1 .. Max + 1 : SubSeq(s, 1, Max + 1)[i] = s[i]
      BY <1>5, <1>11
    <2> QED BY <1>12, <2>1 DEF Has
  <1>14. ~kasli
    <2> SUFFICES ASSUME kasli PROVE FALSE
      OBVIOUS
    <2>1. sent[Client] > 0
      BY <1>4, <1>5, <1>6
    <2>2. /\ p \in Seq(Byte) /\ s = Append(p, Newline) /\ Len(p) <= Max /\ Len(p) \in Nat
      BY <2>1, RequestSent DEF s
    <2>3. s[Len(p) + 1] = Newline
      BY <2>2, LineOfPayload
    <2>4. Len(p) + 1 \in 1 .. Max + 1
      BY <1>5, <2>2
    <2> QED BY <1>12, <2>3, <2>4
  <1> QED BY <1>11, <1>13, <1>14 DEF s

(* kasli closed before accept_one had its newline, so kasli did not send it. *)
LEMMA NewlineNotSent ==
    ASSUME TypeInv, LineInv, PairInv, kasli, pc[Server] = "read", InFlight(Client) = 0
    PROVE  sent[Client] < Len(script[Client])
  <1> DEFINE s == script[Client]
             p == payload[Client]
  <1>1. /\ taken[Client] \in Nat /\ sent[Client] \in Nat /\ s \in Seq(Byte)
        /\ sent[Client] <= Len(s) /\ p \in Seq(Byte)
    BY TheEnds DEF TypeInv, StreamOK
  <1>2. s = Append(p, Newline)
    BY DEF PairInv, RequestInv
  <1>3. taken[Client] = sent[Client]
    BY <1>1 DEF InFlight
  <1>4. ~Has(SubSeq(s, 1, sent[Client]))
    BY <1>3 DEF LineInv
  <1>5. Len(s) = Len(p) + 1 /\ s[Len(s)] = Newline /\ Len(p) \in Nat
    BY <1>1, <1>2, LineOfPayload
  <1> HIDE DEF s
  <1>6. sent[Client] # Len(s)
    <2> SUFFICES ASSUME sent[Client] = Len(s) PROVE FALSE
      OBVIOUS
    <2>1. Len(s) \in Nat /\ Len(s) \in 1 .. Len(s) /\ Len(s) <= Len(s)
      BY <1>5
    <2>2. Has(SubSeq(s, 1, Len(s)))
      BY <1>1, <1>5, <2>1, HasInPrefix
    <2> QED BY <1>4, <2>2
  <1> QED BY <1>1, <1>5, <1>6 DEF s

-----------------------------------------------------------------------------
(* What the two ends know of each other, and what it gives: the response that
   kasli returned, the ok that kasli has or raced with, and the errors that are so. *)
AnswerInv ==
    kasli /\ result[Client] = "ok" => data[Client] = payload[Server] /\ script[Server] # <<>>

(* A call of kasli that is over before the server's is seen to have left; and with
   its request sent in full it has not failed before it read. *)
LeftInv ==
    kasli /\ result[Client] # "none" =>
      /\ result[Server] = "none" => left
      /\ sent[Client] = Len(script[Client]) =>
           result[Client] \in {"ok", "killed", "EAGAIN", "missing newline"}

MutualInv ==
    TypeInv /\ LineInv /\ PairInv /\ AnswerInv /\ LeftInv /\ ServedOrRaced /\ ErrorsAreTrue

(* An outcome stays, and so does all it speaks of: after it an end closes its
   socket, and does nothing else. *)
LEMMA DoneIsDone ==
    ASSUME TypeInv, LineInv, PairInv, [Next]_vars
    PROVE  /\ kasli' = kasli /\ script'[Client] = script[Client]
           /\ payload'[Client] = payload[Client]
           /\ result[Client] # "none" =>
                /\ result'[Client] = result[Client]
                /\ sent'[Client] = sent[Client] /\ data'[Client] = data[Client]
           /\ result[Server] # "none" =>
                /\ result'[Server] = result[Server] /\ request' = request
                /\ payload'[Server] = payload[Server]
           /\ script[Server] # <<>> =>
                script'[Server] = script[Server] /\ payload'[Server] = payload[Server]
  <1>0. \A e \in End : result[e] = "none" <=> pc[e] \notin Over
    BY DEF PairInv, EndInv
  <1>1. CASE UNCHANGED vars
    BY <1>1 DEF vars
  <1>2. CASE ClientStep
    <2>1. /\ OnlyMoves(Client) /\ UNCHANGED <<payload, script, request>>
          /\ result[Client] = "none" \/ Close(Client)
      BY <1>0, <1>2, ClientMoves, MoveOrEnd, TheEnds
    <2> QED BY <2>1, TheEnds DEF OnlyMoves, Close
  <1>3. CASE ServerStep
    <2>1. /\ OnlyMoves(Server)
          /\ result[Server] = "none" \/ UNCHANGED <<result, payload, request>>
          /\ pc[Server] # "handle" => UNCHANGED <<payload, script, request>>
      <3>1. result[Server] = "none" \/ Close(Server)
        BY <1>0, <1>3, MoveOrEnd, TheEnds
      <3> QED BY <1>3, <3>1, ServerMoves DEF Close
    <2>2. script[Server] # <<>> => pc[Server] # "handle"
      BY DEF PairInv, ResponseInv, LineInv
    <2> QED BY <2>1, <2>2, TheEnds DEF OnlyMoves
  <1> QED BY <1>1, <1>2, <1>3, OneMoves

(* How kasli's call may end. *)
LEMMA ClientEnds ==
    ASSUME TypeInv, PairInv, [Next]_vars, kasli, result'[Client] # result[Client]
    PROVE  /\ pc[Client] \in {"write", "read"} /\ result'[Server] = result[Server]
           /\ UNCHANGED <<payload, script, sent, request>>
           /\ \/ result'[Client] = "killed"
              \/ /\ pc[Client] = "write"
                 /\ result'[Client] = IF LineIsTooLarge(Client) THEN "too large" ELSE "newline"
              \/ pc[Client] = "write" /\ result'[Client] \in {"EPIPE", "EAGAIN"}
              \/ ReadsLine(Client) /\ result'[Client] = "ok" /\ pc[Client] = "read"
              \/ ReadsTooMuch(Client)
              \/ ReadsEnd(Client) /\ result'[Client] = "missing newline" /\ pc[Client] = "read"
              \/ ReadTimesOut(Client) /\ result'[Client] = "EAGAIN" /\ pc[Client] = "read"
  <1>t. result \in [End -> Outcomes] /\ EndInv
    BY DEF TypeInv, ControlOK, PairInv
  <1>1. ClientStep
    <2>1. ~(UNCHANGED vars)
      BY DEF vars
    <2>2. ~ServerStep
      BY ServerMoves, TheEnds DEF OnlyMoves
    <2> QED BY <2>1, <2>2, OneMoves
  <1>2. /\ OnlyMoves(Client) /\ UNCHANGED <<payload, script, request>>
        /\ pc[Client] \in {"write", "read"} /\ ~Close(Client)
    <2>1. ~Close(Client)
      BY DEF Close
    <2> QED BY <1>1, <1>t, <2>1, ClientMoves, MoveOrEnd, TheEnds DEF EndInv
  <1>3. ASSUME NEW r, Stops(Client, r) PROVE result'[Client] = r /\ sent' = sent
    BY <1>3, <1>t, TheEnds DEF Stops, Throws, Vanishes, Ends, Outcome
  <1>4. CASE WriteStep(Client)
    <2>1. ~Send(Client)
      BY TheEnds DEF Send, AfterWrite, Goto
    <2>2. CASE WriteLineRefuses(Client)
      BY <1>2, <1>3, <2>2, TheEnds DEF WriteLineRefuses, OnlyMoves, Stops
    <2>3. CASE SendFails(Client) \/ SendTimesOut(Client)
      BY <1>2, <1>3, <2>3, TheEnds DEF SendFails, SendTimesOut, OnlyMoves, Stops
    <2> QED BY <1>4, <2>1, <2>2, <2>3 DEF WriteStep
  <1>5. CASE ReadStep(Client)
    <2>1. CASE ReadsLine(Client)
      <3>1. result'[Client] = "ok" /\ pc[Client] = "read" /\ sent' = sent
        BY <2>1, <1>t, TheEnds DEF ReadsLine, AfterRead, Ends, Outcome
      <3> QED BY <1>2, <2>1, <3>1, TheEnds DEF OnlyMoves
    <2>2. ~ReadsSome(Client)
      BY DEF ReadsSome
    <2>3. CASE ReadsTooMuch(Client)
      BY <1>2, <2>3, TheEnds DEF OnlyMoves, ReadsTooMuch
    <2>4. CASE ReadsEnd(Client)
      BY <1>2, <1>3, <2>4, TheEnds DEF ReadsEnd, OnlyMoves, Stops
    <2>5. CASE ReadTimesOut(Client)
      BY <1>2, <1>3, <2>5, TheEnds DEF ReadTimesOut, OnlyMoves, Stops
    <2> QED BY <1>5, <2>1, <2>2, <2>3, <2>4, <2>5 DEF ReadStep
  <1>6. CASE Kill(Client)
    BY <1>2, <1>3, <1>6, TheEnds DEF Kill, OnlyMoves, Stops
  <1> QED BY <1>1, <1>2, <1>4, <1>5, <1>6, TheEnds DEF ClientStep, EndStep, OtherTakes, OtherCloses

(* How accept_one may end. *)
LEMMA ServerEnds ==
    ASSUME TypeInv, PairInv, [Next]_vars, result'[Server] # result[Server]
    PROVE  /\ result'[Client] = result[Client] /\ pc'[Client] = pc[Client]
           /\ sent'[Client] = sent[Client]
           /\ \/ Send(Server) /\ pc[Server] = "write" /\ result'[Server] = "ok"
              \/ /\ pc[Server] = "write" /\ request' = request
                 /\ result'[Server] = IF LineIsTooLarge(Server) THEN "too large" ELSE "newline"
              \/ ReadsTooMuch(Server) /\ result'[Server] = "too large"
              \/ ReadsEnd(Server) /\ result'[Server] = "missing newline"
              \/ result'[Server] \in Errors \ {"too large", "missing newline"}
  <1>t. result \in [End -> Outcomes] /\ EndInv
    BY DEF TypeInv, ControlOK, PairInv
  <1>1. ServerStep
    <2>1. ~(UNCHANGED vars)
      BY DEF vars
    <2>2. ~ClientStep
      BY ClientMoves, TheEnds DEF OnlyMoves
    <2> QED BY <2>1, <2>2, OneMoves
  <1>2. OnlyMoves(Server)
    BY <1>1, ServerMoves
  <1> SUFFICES
         \/ Send(Server) /\ pc[Server] = "write" /\ result'[Server] = "ok"
         \/ /\ pc[Server] = "write" /\ request' = request
            /\ result'[Server] = IF LineIsTooLarge(Server) THEN "too large" ELSE "newline"
         \/ ReadsTooMuch(Server) /\ result'[Server] = "too large"
         \/ ReadsEnd(Server) /\ result'[Server] = "missing newline"
         \/ result'[Server] \in Errors \ {"too large", "missing newline"}
    BY <1>2, TheEnds DEF OnlyMoves
  <1>3. ASSUME NEW r, Ends(Server, r) \/ Vanishes(Server, r) PROVE result'[Server] = r
    BY <1>3, <1>t, TheEnds DEF Ends, Vanishes, Outcome
  <1>4. CASE WriteStep(Server)
    <2>1. CASE Send(Server)
      <3>1. pc[Server] = "write" /\ (AfterWrite(Server) \/ result' = result)
        BY <2>1 DEF Send
      <3>2. result'[Server] = "ok"
        BY <1>3, <3>1, TheEnds DEF AfterWrite
      <3> QED BY <2>1, <3>1, <3>2
    <2>2. CASE WriteLineRefuses(Server)
      BY <1>3, <2>2 DEF WriteLineRefuses, Throws
    <2>3. CASE SendFails(Server) \/ SendTimesOut(Server)
      BY <1>3, <2>3 DEF SendFails, SendTimesOut, Throws, Errors
    <2> QED BY <1>4, <2>1, <2>2, <2>3 DEF WriteStep
  <1>5. CASE ReadStep(Server)
    <2>1. ~ReadsLine(Server) /\ ~ReadsSome(Server)
      BY TheEnds DEF ReadsLine, AfterRead, Goto, ReadsSome
    <2>2. CASE ReadsEnd(Server) \/ ReadTimesOut(Server)
      BY <1>3, <2>2 DEF ReadsEnd, ReadTimesOut, Throws, Errors
    <2>3. CASE ReadsTooMuch(Server)
      BY <1>3, <2>3 DEF ReadsTooMuch
    <2> QED BY <1>5, <2>1, <2>2, <2>3 DEF ReadStep
  <1>6. CASE AcceptStep
    <2>1. ~(Accept \/ Prepare \/ ValidatePeer \/ HandlerReturns)
      BY DEF Accept, Prepare, ValidatePeer, HandlerReturns, Goto
    <2>2. CASE PrepareFails \/ RejectPeer \/ HandlerThrows
      BY <1>3, <2>2 DEF PrepareFails, RejectPeer, HandlerThrows, Throws, Errors
    <2> QED BY <1>6, <2>1, <2>2 DEF AcceptStep
  <1>7. CASE Kill(Server)
    BY <1>3, <1>7 DEF Kill, Errors
  <1>8. ~Close(Server)
    BY DEF Close
  <1> QED BY <1>1, <1>4, <1>5, <1>6, <1>7, <1>8 DEF ServerStep, EndStep

(* What request_over_unix_socket returns is the response. *)
LEMMA AnswerKept ==
    ASSUME MutualInv, [Next]_vars
    PROVE  AnswerInv'
  <1> USE DEF MutualInv
  <1> SUFFICES ASSUME kasli', result'[Client] = "ok"
               PROVE  data'[Client] = payload'[Server] /\ script'[Server] # <<>>
    BY DEF AnswerInv
  <1>1. kasli
    BY DoneIsDone
  <1>2. CASE result'[Client] = result[Client]
    <2>1. data[Client] = payload[Server] /\ script[Server] # <<>>
      BY <1>1, <1>2 DEF AnswerInv
    <2> QED BY <1>2, <2>1, DoneIsDone
  <1>3. CASE result'[Client] # result[Client]
    <2>1. ReadsLine(Client) /\ UNCHANGED <<payload, script>>
      BY <1>1, <1>3, ClientEnds, LimitsAgree
    <2> QED BY <1>1, <2>1, AnswerArrives
  <1> QED BY <1>2, <1>3

(* So a handler that was called has all that kasli sends. *)
LEMMA AskedIsSent ==
    TypeInv /\ LineInv /\ PairInv /\ kasli /\ request # <<>> => sent[Client] = Len(script[Client])
  BY RequestArrives

(* kasli is seen to have left once it is, and when its call ends first. *)
LEMMA LeftGrows ==
    ASSUME TypeInv, PairInv, [Next]_vars
    PROVE  /\ left => left'
           /\ result'[Client] # result[Client] /\ result[Server] = "none" => left'
  <1>t. left \in BOOLEAN /\ result \in [End -> Outcomes]
    BY DEF TypeInv, ControlOK
  <1> DEFINE Goal == /\ left => left'
                     /\ result'[Client] # result[Client] /\ result[Server] = "none" => left'
  <1>1. ASSUME left' = left, result'[Client] = result[Client] PROVE Goal
    BY <1>1, Zenon
  <1>2. ASSUME NEW r, Outcome(Client, r) PROVE Goal
    BY <1>2, Zenon DEF Outcome
  <1>3. ASSUME NEW r, Outcome(Server, r) PROVE Goal
    <2>1. left' = (left \/ (Server = Client /\ result[Server] = "none"))
      BY <1>3, Zenon DEF Outcome
    <2>2. left => left'
      BY <2>1, Zenon
    <2>3. result'[Client] = result[Client]
      BY <1>3, <1>t, TheEnds DEF Outcome
    <2> QED BY <2>2, <2>3, Zenon
  <1>4. ASSUME NEW e \in End, NEW r, Outcome(e, r) PROVE Goal
    <2>1. e = Client \/ e = Server
      BY TheEnds
    <2> QED BY <1>2, <1>3, <1>4, <2>1, Zenon
  <1>5. ASSUME UNCHANGED <<result, left>> PROVE Goal
    BY <1>1, <1>5
  <1> SUFFICES Goal
    OBVIOUS
  <1> HIDE DEF Goal
  <1>6. CASE UNCHANGED vars
    BY <1>5, <1>6 DEF vars
  <1>7. ASSUME NEW e \in End, WriteStep(e) PROVE Goal
    BY <1>4, <1>5, <1>7, Zenon DEF WriteStep, WriteLineRefuses, Send, SendFails, SendTimesOut,
         AfterWrite, Goto, Throws, Ends
  <1>8. ASSUME NEW e \in End, ReadStep(e) PROVE Goal
    BY <1>4, <1>5, <1>8, Zenon DEF ReadStep, ReadsLine, ReadsSome, ReadsTooMuch, ReadsEnd,
         ReadTimesOut, AfterRead, Goto, Throws, Ends
  <1>9. CASE AcceptStep
    BY <1>4, <1>5, <1>9, TheEnds, Zenon DEF AcceptStep, Accept, Prepare, PrepareFails,
         ValidatePeer, RejectPeer, HandlerReturns, HandlerThrows, Goto, Throws, Ends
  <1>10. ASSUME NEW e \in End, Close(e) \/ Kill(e) PROVE Goal
    BY <1>4, <1>5, <1>10, Zenon DEF Close, Kill, Vanishes
  <1>11. CASE OtherTakes \/ OtherCloses
    BY <1>4, <1>5, <1>11, TheEnds, Zenon DEF OtherTakes, OtherCloses, Vanishes
  <1> QED BY <1>6, <1>7, <1>8, <1>9, <1>10, <1>11 DEF Next, EndStep

(* When kasli's call is over, it is known whether the server's was before. *)
LEMMA LeftKept ==
    ASSUME MutualInv, TypeInv', [Next]_vars
    PROVE  LeftInv'
  <1> USE DEF MutualInv
  <1> SUFFICES ASSUME kasli', result'[Client] # "none"
               PROVE  /\ result'[Server] = "none" => left'
                      /\ sent'[Client] = Len(script'[Client]) =>
                           result'[Client] \in {"ok", "killed", "EAGAIN", "missing newline"}
    BY DEF LeftInv
  <1>1. kasli
    BY DoneIsDone
  <1>2. result'[Server] = "none" => result[Server] = "none"
    BY DoneIsDone
  <1>3. CASE result'[Client] = result[Client]
    <2>1. result'[Server] = "none" => left'
      BY <1>1, <1>2, <1>3, LeftGrows, Zenon DEF LeftInv
    <2>2. sent'[Client] = sent[Client] /\ script'[Client] = script[Client]
      BY <1>3, DoneIsDone
    <2> QED BY <1>1, <1>3, <2>1, <2>2 DEF LeftInv
  <1>4. CASE result'[Client] # result[Client]
    <2>1. result'[Server] = "none" => left'
      BY <1>2, <1>4, LeftGrows, Zenon
    <2>2. CASE pc[Client] = "write"
      <3>1. sent[Client] < Len(script[Client]) /\ UNCHANGED <<sent, script>>
        BY <1>1, <1>4, <2>2, ClientEnds DEF PairInv, RequestInv
      <3>2. sent'[Client] \in Nat /\ sent'[Client] < Len(script'[Client])
        BY <3>1, TheEnds DEF TypeInv, StreamOK
      <3>3. sent'[Client] # Len(script'[Client])
        BY <3>2
      <3> QED BY <2>1, <3>3, Zenon
    <2>3. CASE pc[Client] # "write"
      BY <1>1, <1>4, <2>1, <2>3, ClientEnds, LimitsAgree
    <2> QED BY <2>2, <2>3
  <1> QED BY <1>3, <1>4

(* So kasli finds the rest of an answer that is sent. *)
LEMMA ReadingIsLeft ==
    TypeInv /\ PairInv /\ kasli /\ pc[Client] = "read" /\ result[Server] = "ok"
      => InFlight(Server) # 0
  BY SomeIsLeft

(* When accept_one returns normally, kasli has its answer or will have it, or its
   time was over before. *)
LEMMA OkKept ==
    ASSUME MutualInv, TypeInv', LineInv', PairInv', LeftInv', ErrorsAreTrue', [Next]_vars
    PROVE  ServedOrRaced'
  <1> USE DEF MutualInv
  <1> SUFFICES ASSUME kasli', result'[Server] = "ok"
               PROVE  \/ pc'[Client] = "read" /\ taken'[Server] < sent'[Server]
                      \/ result'[Client] \in {"ok", "killed"}
                      \/ result'[Client] = "EAGAIN" /\ left'
    BY DEF ServedOrRaced
  <1>1. kasli
    BY DoneIsDone
  <1>2. sent'[Client] = Len(script'[Client]) /\ pc'[Client] # "write"
    <2>1. request' # <<>>
      BY DEF PairInv, ResponseInv
    <2>2. (sent[Client] = Len(script[Client]))'
      <3>1. (TypeInv /\ LineInv /\ PairInv /\ kasli /\ request # <<>>)'
        BY <2>1
      <3> QED BY <3>1, AskedIsSent, PTL
    <2>3. pc'[Client] = "write" => sent'[Client] < Len(script'[Client])
      BY DEF PairInv, RequestInv
    <2>4. sent'[Client] \in Nat
      BY TheEnds DEF TypeInv, StreamOK
    <2> QED BY <2>2, <2>3, <2>4
  <1>3. CASE pc'[Client] = "read"
    <2>1. (TypeInv /\ PairInv /\ kasli /\ pc[Client] = "read" /\ result[Server] = "ok")'
      BY <1>3
    <2>3. (InFlight(Server) # 0)'
      BY <2>1, ReadingIsLeft, PTL
    <2>4. taken'[Server] \in Nat /\ sent'[Server] \in Nat /\ taken'[Server] <= sent'[Server]
      BY TheEnds DEF TypeInv, StreamOK
    <2>5. taken'[Server] < sent'[Server]
      BY <2>3, <2>4 DEF InFlight
    <2> QED BY <1>3, <2>5
  <1>4. CASE pc'[Client] # "read"
    <2>1. result'[Client] # "none" /\ pc'[Client] \in Over
      BY <1>2, <1>4, TheEnds DEF PairInv, EndInv
    <2>2. result'[Client] # "missing newline"
      BY DEF ErrorsAreTrue, Errors
    <2>3. result'[Client] \in {"ok", "killed", "EAGAIN"}
      BY <1>2, <2>1, <2>2 DEF LeftInv
    <2>4. ASSUME result'[Client] = "EAGAIN" PROVE left'
      <3>1. CASE result'[Client] = result[Client] /\ result[Server] = "ok"
        <4>1. pc[Client] # "read"
          BY <2>4, <3>1, TheEnds DEF PairInv, EndInv, Over
        <4>2. left
          BY <1>1, <2>4, <3>1, <4>1, Zenon DEF ServedOrRaced
        <4> QED BY <4>2, LeftGrows, Zenon
      <3>2. CASE result'[Client] = result[Client] /\ result[Server] # "ok"
        <4>1. pc[Server] = "write"
          BY <3>2, ServerEnds DEF Errors
        <4>2. result[Server] = "none"
          BY <4>1, TheEnds DEF PairInv, EndInv, Over
        <4>3. left
          BY <1>1, <2>1, <3>2, <4>2, Zenon DEF LeftInv
        <4> QED BY <4>3, LeftGrows, Zenon
      <3>3. CASE result'[Client] # result[Client]
        <4>1. result[Server] = "ok" /\ pc[Client] \in {"write", "read"}
          BY <1>1, <3>3, ClientEnds
        <4>2. result[Client] = "none"
          BY <4>1, TheEnds DEF PairInv, EndInv, Over
        <4>3. pc[Client] = "read"
          BY <1>1, <4>1, <4>2 DEF ServedOrRaced
        <4>4. ~ReadTimesOut(Client)
          BY <1>1, <4>1, <4>3, SomeIsLeft, TheEnds DEF ReadTimesOut
        <4> QED BY <1>1, <2>4, <3>3, <4>3, <4>4, ClientEnds, LimitsAgree
      <3> QED BY <3>1, <3>2, <3>3
    <2> QED BY <2>3, <2>4
  <1> QED BY <1>3, <1>4

(* What an error says is so when it is thrown, and stays so. *)
LEMMA ErrorsKept ==
    ASSUME MutualInv, PairInv', [Next]_vars
    PROVE  ErrorsAreTrue'
  <1> USE DEF MutualInv
  <1>0. \A e \in End : pc[e] = "done" => result[e] # "none"
    BY DEF PairInv, EndInv, Over
  <1>1. ~kasli => result'[Client] \in {"none", "closed"}
    BY DoneIsDone DEF PairInv, EndInv
  <1>2. ASSUME result'[Client] = "too large" PROVE LineIsTooLarge(Client)'
    <2>1. CASE result[Client] = "too large"
      BY <2>1, DoneIsDone DEF ErrorsAreTrue, LineIsTooLarge
    <2>2. CASE result[Client] # "too large"
      <3>1. kasli
        BY <1>1, <1>2
      <3>2. LineIsTooLarge(Client)
        BY <1>2, <2>2, <3>1, ClientEnds, LimitsAgree
      <3> QED BY <3>2, DoneIsDone DEF LineIsTooLarge
    <2> QED BY <2>1, <2>2
  <1>3. ASSUME result'[Server] = "too large"
        PROVE  /\ request' # <<>> => LineIsTooLarge(Server)'
               /\ request' = <<>> =>
                    /\ ~kasli'
                    /\ Len(script'[Client]) > Max /\ ~Has(SubSeq(script'[Client], 1, Max + 1))
    <2>1. CASE result[Server] = "too large"
      <3>1. /\ request' = request /\ payload'[Server] = payload[Server] /\ kasli' = kasli
            /\ script'[Client] = script[Client]
        BY <2>1, DoneIsDone
      <3>2. /\ request # <<>> => LineIsTooLarge(Server)
            /\ request = <<>> => ~kasli /\ Len(script[Client]) > Max
                                /\ ~Has(SubSeq(script[Client], 1, Max + 1))
        BY <2>1 DEF ErrorsAreTrue
      <3> QED BY <3>1, <3>2 DEF LineIsTooLarge
    <2>2. CASE result[Server] # "too large"
      <3>1. CASE ReadsTooMuch(Server)
        <4>1. request' = request /\ request = <<>>
          BY <3>1 DEF ReadsTooMuch, LineInv
        <4> QED BY <3>1, <4>1, TooLargeIsTrue, DoneIsDone
      <3>2. CASE ~ReadsTooMuch(Server)
        <4>1. pc[Server] = "write" /\ request' = request /\ LineIsTooLarge(Server)
          BY <1>3, <2>2, <3>2, ServerEnds
        <4>2. script[Server] # <<>> /\ request # <<>>
          BY <4>1 DEF PairInv, ResponseInv
        <4> QED BY <4>1, <4>2, DoneIsDone DEF LineIsTooLarge
      <3> QED BY <3>1, <3>2
    <2> QED BY <2>1, <2>2
  <1>4. ASSUME kasli', result'[Server] = "missing newline"
        PROVE  sent'[Client] < Len(script'[Client]) /\ result'[Client] \notin {"none", "ok"}
    <2>0. kasli
      BY <1>4, DoneIsDone
    <2>1. CASE result[Server] = "missing newline"
      BY <2>0, <2>1, DoneIsDone DEF ErrorsAreTrue
    <2>2. CASE result[Server] # "missing newline"
      <3>1. ReadsEnd(Server)
        BY <1>4, <2>2, ServerEnds
      <3>2. pc[Server] = "read" /\ InFlight(Client) = 0 /\ pc[Client] = "done"
        BY <3>1, TheEnds DEF ReadsEnd, Closed
      <3>3. result[Client] # "none" /\ result[Client] # "ok"
        BY <1>0, <2>0, <3>2, TheEnds DEF AnswerInv, PairInv, ResponseInv, LineInv
      <3>4. sent[Client] < Len(script[Client])
        BY <2>0, <3>2, NewlineNotSent
      <3> QED BY <3>3, <3>4, DoneIsDone
    <2> QED BY <2>1, <2>2
  <1>5. ASSUME result'[Client] = "missing newline" PROVE result'[Server] \in Errors
    <2>1. CASE result[Client] = "missing newline"
      BY <2>1, DoneIsDone DEF ErrorsAreTrue, Errors
    <2>2. CASE result[Client] # "missing newline"
      <3>0. kasli
        BY <1>1, <1>5
      <3>1. ReadsEnd(Client) /\ pc[Client] = "read" /\ result'[Server] = result[Server]
        BY <1>5, <2>2, <3>0, ClientEnds, LimitsAgree
      <3>2. pc[Server] = "done" /\ InFlight(Server) = 0
        BY <3>1, TheEnds DEF ReadsEnd, Closed
      <3>3. result[Server] # "none" /\ result[Server] # "ok"
        BY <1>0, <3>0, <3>1, <3>2, SomeIsLeft, TheEnds
      <3> QED BY <3>1, <3>3, TheEnds DEF TypeInv, ControlOK, Outcomes
    <2> QED BY <2>1, <2>2
  <1> QED BY <1>2, <1>3, <1>4, <1>5, Zenon DEF ErrorsAreTrue, Has

(* Whatever cuts, delays or ends an exchange, the outcomes of the two ends fit
   together, also while one has ended its call and not yet closed its socket. *)
THEOREM ExchangeInvariant == Spec => []MutualInv
  <1>1. Init => MutualInv
    <2> SUFFICES ASSUME Init PROVE MutualInv
      OBVIOUS
    <2>1. \A e \in End : result[e] = "none"
      BY DEF Init
    <2>2. AnswerInv /\ LeftInv /\ ServedOrRaced /\ ErrorsAreTrue
      BY <2>1, TheEnds DEF AnswerInv, LeftInv, ServedOrRaced, ErrorsAreTrue
    <2> QED BY <2>2, InitTyped, InitLined, InitPaired DEF MutualInv
  <1>2. MutualInv /\ [Next]_vars => MutualInv'
    <2> SUFFICES ASSUME MutualInv, [Next]_vars PROVE MutualInv'
      OBVIOUS
    <2>1. TypeInv /\ LineInv /\ PairInv
      BY DEF MutualInv
    <2>2. TypeInv'
      BY <2>1, TypeStep
    <2>3. LineInv'
      BY <2>1, <2>2, LineStep
    <2>4. PairInv'
      BY <2>1, <2>2, EndKept, RequestKept, ResponseKept DEF PairInv
    <2>5. LeftInv'
      BY <2>2, LeftKept
    <2>6. ErrorsAreTrue'
      BY <2>4, ErrorsKept
    <2>7. ServedOrRaced'
      BY <2>2, <2>3, <2>4, <2>5, <2>6, OkKept
    <2> QED BY <2>2, <2>3, <2>4, <2>5, <2>6, <2>7, AnswerKept DEF MutualInv
  <1> QED BY <1>1, <1>2, PTL DEF Spec

(* What request_over_unix_socket returns to kasli is the whole response, and the
   handler made it for the request kasli sent. *)
THEOREM WholeAnswers == Spec => []AnswerIsWhole
  <1>1. MutualInv => AnswerIsWhole
    <2> SUFFICES ASSUME MutualInv, kasli, result[Client] = "ok"
                 PROVE  data[Client] = payload[Server] /\ request = <<payload[Client]>>
      BY DEF AnswerIsWhole
    <2>1. data[Client] = payload[Server] /\ script[Server] # <<>>
      BY DEF MutualInv, AnswerInv
    <2>2. request # <<>>
      BY <2>1 DEF MutualInv, PairInv, ResponseInv
    <2> QED BY <2>1, <2>2, RequestArrives DEF MutualInv
  <1> QED BY <1>1, ExchangeInvariant, PTL

(* An exchange that accept_one counts as served has not been turned away from
   kasli: it has its answer, or finds it in its queue, unless it is killed or its
   time was over while the server was still at it. *)
THEOREM ServedOnBothSides == Spec => []ServedOrRaced
  <1>1. MutualInv => ServedOrRaced
    BY DEF MutualInv
  <1> QED BY <1>1, ExchangeInvariant, PTL

(* What the errors of either end say of the exchange is so. *)
THEOREM HonestErrors == Spec => []ErrorsAreTrue
  <1>1. MutualInv => ErrorsAreTrue
    BY DEF MutualInv
  <1> QED BY <1>1, ExchangeInvariant, PTL

-----------------------------------------------------------------------------
(* What SocketLifecycle sees of a step of the server: the connection is accepted,
   is being worked on, is done with, or the process is killed. *)
Idle == {"accept", "close", "done"}

LEMMA ServerSeen ==
    ASSUME TypeInv, PairInv, ServerStep
    PROVE  /\ left' = left
           /\ \/ /\ pc[Server] = "accept" /\ pc'[Server] = "prepare"
                 /\ result'[Server] = result[Server]
              \/ /\ pc[Server] \notin Idle /\ pc'[Server] \notin Idle
                 /\ result'[Server] = result[Server]
              \/ /\ pc[Server] \notin Idle /\ pc'[Server] = "close"
                 /\ result'[Server] \in Errors \ {"killed"}
              \/ pc[Server] \notin Idle /\ pc'[Server] = "close" /\ result'[Server] = "ok"
              \/ /\ pc[Server] = "close" /\ pc'[Server] = "done"
                 /\ result'[Server] = result[Server]
              \/ pc[Server] \notin Over /\ pc'[Server] = "done" /\ result'[Server] = "killed"
  <1> DEFINE Accepts == pc[Server] = "accept" /\ pc'[Server] = "prepare" /\ result'[Server] = result[Server]
             Works == /\ pc[Server] \notin Idle /\ pc'[Server] \notin Idle
                      /\ result'[Server] = result[Server]
             Fails == /\ pc[Server] \notin Idle /\ pc'[Server] = "close"
                      /\ result'[Server] \in Errors \ {"killed"}
             Serves == pc[Server] \notin Idle /\ pc'[Server] = "close" /\ result'[Server] = "ok"
             Closes == /\ pc[Server] = "close" /\ pc'[Server] = "done"
                       /\ result'[Server] = result[Server]
             Dies == pc[Server] \notin Over /\ pc'[Server] = "done" /\ result'[Server] = "killed"
  <1>t. pc \in [End -> Labels] /\ result \in [End -> Outcomes] /\ left \in BOOLEAN
    BY DEF TypeInv, ControlOK
  <1> SUFFICES left' = left /\ (Accepts \/ Works \/ Fails \/ Serves \/ Closes \/ Dies)
    OBVIOUS
  <1>1. ASSUME NEW r \in Errors \ {"killed"}, Ends(Server, r), pc[Server] \notin Idle
        PROVE  left' = left /\ Fails
    BY <1>1, <1>t, TheEnds DEF Ends, Outcome
  <1>2. ASSUME NEW l, Goto(Server, l), l \notin Idle, pc[Server] \notin Idle
        PROVE  left' = left /\ Works
    BY <1>2, <1>t, TheEnds DEF Goto
  <1>3. ASSUME UNCHANGED <<pc, result, left>>, pc[Server] \notin Idle
        PROVE  left' = left /\ Works
    BY <1>3
  <1>4. ASSUME Ends(Server, "ok"), pc[Server] \notin Idle
        PROVE  left' = left /\ Serves
    BY <1>4, <1>t, TheEnds DEF Ends, Outcome
  <1>5. CASE Accept
    BY <1>5, <1>t, TheEnds DEF Accept, Goto
  <1>6. CASE Kill(Server)
    <2>1. pc[Server] \notin Over
      BY <1>6, TheEnds DEF Kill, PairInv, EndInv
    <2>2. left' = left /\ pc'[Server] = "done" /\ result'[Server] = "killed"
      BY <1>6, <1>t, TheEnds DEF Kill, Vanishes, Outcome
    <2> QED BY <2>1, <2>2
  <1>7. CASE Close(Server)
    BY <1>7, <1>t, TheEnds DEF Close
  <1> HIDE DEF Accepts, Works, Fails, Serves, Closes, Dies
  <1>8. CASE WriteStep(Server)
    <2>0. pc[Server] \notin Idle
      BY <1>8 DEF WriteStep, Send, WriteLineRefuses, SendFails, SendTimesOut, Idle
    <2>1. CASE Send(Server)
      <3>1. AfterWrite(Server) \/ UNCHANGED <<pc, result, left>>
        BY <2>1 DEF Send
      <3> QED BY <1>3, <1>4, <2>0, <3>1, TheEnds DEF AfterWrite
    <2>2. CASE WriteLineRefuses(Server)
      <3>1. (IF LineIsTooLarge(Server) THEN "too large" ELSE "newline") \in Errors \ {"killed"}
        BY DEF Errors
      <3> QED BY <1>1, <2>0, <2>2, <3>1 DEF WriteLineRefuses, Throws
    <2>3. CASE SendFails(Server) \/ SendTimesOut(Server)
      BY <1>1, <2>0, <2>3 DEF SendFails, SendTimesOut, Throws, Errors
    <2> QED BY <1>8, <2>1, <2>2, <2>3 DEF WriteStep
  <1>9. CASE ReadStep(Server)
    <2>0. pc[Server] \notin Idle
      BY <1>9 DEF ReadStep, ReadsLine, ReadsSome, ReadsTooMuch, ReadsEnd, ReadTimesOut, Idle
    <2>1. CASE ReadsLine(Server)
      BY <1>2, <2>0, <2>1, TheEnds DEF ReadsLine, AfterRead, Idle
    <2>2. CASE ReadsSome(Server)
      BY <1>3, <2>0, <2>2 DEF ReadsSome
    <2>3. CASE ReadsTooMuch(Server) \/ ReadsEnd(Server) \/ ReadTimesOut(Server)
      BY <1>1, <2>0, <2>3 DEF ReadsTooMuch, ReadsEnd, ReadTimesOut, Throws, Errors
    <2> QED BY <1>9, <2>1, <2>2, <2>3 DEF ReadStep
  <1>10. CASE AcceptStep
    <2>1. CASE Prepare \/ ValidatePeer \/ HandlerReturns
      BY <1>2, <2>1 DEF Prepare, ValidatePeer, HandlerReturns, Idle
    <2>2. CASE PrepareFails \/ RejectPeer \/ HandlerThrows
      <3>1. pc[Server] \notin Idle
        BY <2>2 DEF PrepareFails, RejectPeer, HandlerThrows, Idle
      <3> QED BY <1>1, <2>2, <3>1 DEF PrepareFails, RejectPeer, HandlerThrows, Throws, Errors
    <2> QED BY <1>5, <1>10, <2>1, <2>2 DEF AcceptStep
  <1> QED BY <1>6, <1>7, <1>8, <1>9, <1>10 DEF ServerStep, EndStep

(* And of a step of the client: nothing, or that it left. *)
LEMMA ClientSeen ==
    ASSUME TypeInv, ClientStep
    PROVE  /\ pc'[Server] = pc[Server] /\ result'[Server] = result[Server]
           /\ left' = left \/ (left' /\ ~left /\ result[Server] = "none")
  <1>t. left \in BOOLEAN
    BY DEF TypeInv, ControlOK
  <1>0. pc'[Server] = pc[Server] /\ result'[Server] = result[Server]
    BY ClientMoves, TheEnds DEF OnlyMoves
  <1> DEFINE Seen == left' = left \/ (left' /\ ~left /\ result[Server] = "none")
  <1>1. ASSUME NEW r, Outcome(Client, r) PROVE Seen
    <2>1. left' = (left \/ result[Server] = "none")
      BY <1>1, Zenon DEF Outcome
    <2>2. CASE left = TRUE
      BY <2>1, <2>2, Zenon
    <2>3. CASE left = FALSE
      <3>1. CASE result[Server] # "none"
        BY <2>1, <2>3, <3>1, Zenon
      <3>2. CASE result[Server] = "none"
        BY <2>1, <2>3, <3>2, Zenon
      <3> QED BY <3>1, <3>2
    <2> QED BY <1>t, <2>2, <2>3
  <1>2. ASSUME left' = left PROVE Seen
    BY <1>2
  <1> SUFFICES Seen
    BY <1>0
  <1> HIDE DEF Seen
  <1>3. CASE WriteStep(Client)
    BY <1>1, <1>2, <1>3, Zenon DEF WriteStep, WriteLineRefuses, Send, SendFails, SendTimesOut,
         AfterWrite, Goto, Throws, Ends
  <1>4. CASE ReadStep(Client)
    BY <1>1, <1>2, <1>4, TheEnds, Zenon DEF ReadStep, ReadsLine, ReadsSome, ReadsTooMuch, ReadsEnd,
         ReadTimesOut, AfterRead, Throws, Ends
  <1>5. CASE Kill(Client) \/ OtherCloses \/ OtherTakes \/ Close(Client)
    BY <1>1, <1>2, <1>5, Zenon DEF Kill, OtherCloses, OtherTakes, Vanishes, Close
  <1> QED BY <1>3, <1>4, <1>5, TheEnds DEF ClientStep, EndStep

(* Every step of an exchange is a step of SocketLifecycle, or none it can see. *)
LEMMA StepServes ==
    ASSUME TypeInv, PairInv, [Next]_vars
    PROVE  [Socket!Next]_(Socket!vars)
  <1> DEFINE l == pc[Server]
             r == result[Server]
  <1>0. l \in Labels /\ r \in Outcomes /\ left \in BOOLEAN /\ (r = "none" <=> l \notin Over)
    BY TheEnds DEF TypeInv, ControlOK, PairInv, EndInv
  <1>1. ASSUME l' = l, r' = r, left' = left PROVE UNCHANGED Socket!vars
    BY <1>1 DEF Socket!vars
  <1>2. ASSUME (l \notin Idle /\ l' \notin Idle) \/ (l = "close" /\ l' = "done"),
               r' = r, left' = left
        PROVE  UNCHANGED Socket!vars
    BY <1>0, <1>2 DEF Socket!vars, Idle
  <1> DEFINE P == [p \in {Server} |-> IF r = "killed" THEN "gone"
                                     ELSE IF l \in {"accept", "close", "done"} THEN "accept"
                                     ELSE "handle"]
             X == [p \in {Server} |-> IF r = "killed" THEN "signal" ELSE "none"]
             B == [p \in {Server} |-> IF l = "accept" THEN <<Client>> ELSE <<>>]
             H == [p \in {Server} |-> IF l \in {"accept", "close", "done"} THEN "no file"
                                     ELSE Client]
             C == [c \in {Client} |-> IF left THEN "timedout"
                                     ELSE IF r = "ok" THEN "answered"
                                     ELSE IF r # "none" THEN "lost"
                                     ELSE "waiting"]
  <1>3. ASSUME l = "accept", l' = "prepare", r' = r, left' = left
        PROVE  Socket!Accept(Server)
    <2>1. P[Server] = "accept" /\ P' = [P EXCEPT ![Server] = "handle"]
      BY <1>0, <1>3 DEF Over
    <2>2. B[Server] = <<Client>> /\ B' = [p \in {Server} |-> <<>>]
      BY <1>3
    <2>3. Head(<<Client>>) = Client /\ Tail(<<Client>>) = <<>> /\ <<Client>> # <<>>
      OBVIOUS
    <2>4. B' = [B EXCEPT ![Server] = Tail(B[Server])]
      BY <2>2, <2>3
    <2>5. H' = [H EXCEPT ![Server] = Head(B[Server])]
      BY <1>3, <2>2, <2>3
    <2>6. X' = X /\ C' = C
      BY <1>3
    <2> QED BY <2>1, <2>2, <2>3, <2>4, <2>5, <2>6 DEF Socket!Accept, Socket!Goto
  <1>4. ASSUME l \notin Idle, l' = "close", r' = "ok", left' = left
        PROVE  Socket!Reply(Server)
    <2>1. P[Server] = "handle" /\ P' = [P EXCEPT ![Server] = "accept"]
      BY <1>0, <1>4 DEF Idle, Over
    <2>2. H[Server] = Client /\ H' = [H EXCEPT ![Server] = "no file"]
      BY <1>4 DEF Idle
    <2>3. B' = B
      BY <1>4 DEF Idle
    <2>4. X' = X
      BY <1>0, <1>4 DEF Idle, Over
    <2>5. C' = [C EXCEPT ![Client] = IF C[Client] = "waiting" THEN "answered" ELSE C[Client]]
      <3>1. CASE left = TRUE
        BY <1>4, <3>1
      <3>2. CASE left = FALSE
        BY <1>0, <1>4, <3>2 DEF Idle, Over
      <3> QED BY <1>0, <3>1, <3>2
    <2> QED BY <2>1, <2>2, <2>3, <2>4, <2>5
        DEF Socket!Reply, Socket!Goto, Socket!LoopOrLeave, Socket!Nobody
  <1>c. ASSUME l \notin Over, r' \in Errors, left' = left
        PROVE  C' = [c \in {Client} |-> IF C[c] = "waiting" THEN "lost" ELSE C[c]]
    <2>1. r' # "none" /\ r' # "ok"
      BY <1>c DEF Errors
    <2>2. CASE left = TRUE
      BY <1>c, <2>2
    <2>3. CASE left = FALSE
      BY <1>0, <1>c, <2>1, <2>3
    <2> QED BY <1>0, <2>2, <2>3
  <1>5. ASSUME l \notin Idle, l' = "close", r' \in Errors \ {"killed"}, left' = left
        PROVE  Socket!AcceptOneThrows(Server)
    <2>1. P[Server] = "handle" /\ P' = [P EXCEPT ![Server] = "accept"]
      BY <1>0, <1>5 DEF Idle, Over
    <2>2. H[Server] = Client /\ H' = [H EXCEPT ![Server] = "no file"]
      BY <1>5 DEF Idle
    <2>3. B' = B /\ X' = X
      BY <1>0, <1>5 DEF Idle, Over
    <2>4. C' = [c \in {Client} |-> IF c \in {H[Server]} /\ C[c] = "waiting" THEN "lost" ELSE C[c]]
      BY <1>5, <1>c, <2>2 DEF Idle, Over
    <2> QED BY <2>1, <2>2, <2>3, <2>4
        DEF Socket!AcceptOneThrows, Socket!HangUp, Socket!Goto, Socket!LoopOrLeave,
         Socket!Nobody
  <1>6. ASSUME l \notin Over, l' = "done", r' = "killed", left' = left
        PROVE  Socket!Kill(Server)
    <2>1. P[Server] \in {"accept", "handle"} /\ P' = [P EXCEPT ![Server] = "gone"]
      BY <1>0, <1>6 DEF Idle, Over
    <2>2. H' = [H EXCEPT ![Server] = "no file"] /\ B' = [B EXCEPT ![Server] = <<>>]
      BY <1>6 DEF Over
    <2>3. X' = [X EXCEPT ![Server] = "signal"]
      BY <1>6 DEF Over
    <2>4. Client \in Socket!Queued(Server) \cup {H[Server]}
      <3>1. CASE l = "accept"
        <4>1. B[Server] = <<Client>> /\ 1 \in 1 .. Len(<<Client>>) /\ <<Client>>[1] = Client
          BY <3>1
        <4> QED BY <4>1 DEF Socket!Queued
      <3>2. CASE l # "accept"
        BY <1>6, <3>2 DEF Over
      <3> QED BY <3>1, <3>2
    <2>5. C' = [c \in {Client} |-> IF c \in Socket!Queued(Server) \cup {H[Server]} /\ C[c] = "waiting"
                                   THEN "lost" ELSE C[c]]
      BY <1>6, <1>c, <2>4 DEF Errors
    <2> QED BY <2>1, <2>2, <2>3, <2>5
        DEF Socket!Kill, Socket!HangUp, Socket!Exit, Socket!Running, Socket!Serving,
            Socket!Nobody
  <1>7. ASSUME l' = l, r' = r, left', ~left, r = "none"
        PROVE  Socket!ClientTimeout(Client)
    BY <1>0, <1>7 DEF Socket!ClientTimeout
  <1>8. CASE UNCHANGED vars
    BY <1>1, <1>8 DEF vars
  <1>9. CASE ClientStep
    BY <1>1, <1>7, <1>9, ClientSeen DEF Socket!Next, Socket!ClientStep
  <1>10. CASE ServerStep
    BY <1>2, <1>3, <1>4, <1>5, <1>6, <1>10, ServerSeen
    DEF Socket!Next, Socket!ProcStep, Socket!Serve
  <1> QED BY <1>8, <1>9, <1>10, OneMoves

-----------------------------------------------------------------------------
(* The system calls of one exchange, in whatever order the two processes make
   them and wherever they fail, are to the daemon's life the single steps
   SocketLifecycle takes for accept_one and for a client that leaves. *)
THEOREM LifecycleIsRefined == Spec => ServedAsBefore
  <1>1. TypeInv /\ PairInv /\ [Next]_vars => [Socket!Next]_(Socket!vars)
    BY StepServes
  <1>2. MutualInv => TypeInv /\ PairInv
    BY DEF MutualInv, AnswerInv
  <1> QED BY <1>1, <1>2, ExchangeInvariant, PTL DEF Spec, ServedAsBefore
=============================================================================
