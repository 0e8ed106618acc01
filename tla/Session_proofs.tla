--------------------------- MODULE Session_proofs ---------------------------
(* Theorems of Session, for any requests, tools and registry. *)
EXTENDS Session, FiniteSetTheorems, TLAPS

ToolMethods == {"tool.call", "ask"}

Traced(r) == \E e \in recorded : e.req = r

NoOutcome(r) ==
    Promise!ModelReplied(r) \notin recorded /\ Promise!ModelFailed(r) \notin recorded

(* What the handler has established when it reaches each of its steps. *)
StepInv ==
    /\ pc # "idle" => asked[active] \in Inputs /\ answer[active] = "none"
    /\ pc \in {"decide", "execute", "tool.call"} => asked[active].method \in ToolMethods
    /\ pc \in {"decide", "execute"} => ran[active] = 0
    /\ pc = "execute" => asked[active].tool \in ReadOnly
    /\ pc \in {"decide", "execute", "tool.call", "model.skipped", "model.request", "complete"}
         => consulted[active] = 0
    /\ pc = "tool.call" /\ status = "ok" => ran[active] = 1
    /\ pc \in {"model.request", "complete", "model.response", "model.error"}
         => /\ asked[active].method = "ask" /\ ran[active] = 1
            /\ Promise!ToolSucceeded(active) \in recorded
    /\ pc = "complete" => Promise!ModelAsked(active) \in recorded
    /\ pc \in {"model.response", "model.error"} => consulted[active] = 1
    /\ pc = "model.skipped" => status # "ok"
    /\ pc \in {"model.skipped", "send"} => Traced(active)

(* A response that will say ok rests on what is on record. *)
EncodeInv ==
    pc = "encode" =>
      IF status = "ok"
      THEN /\ asked[active].method = "tool.call" => Promise!ToolSucceeded(active) \in recorded
           /\ asked[active].method = "ask" => Promise!ModelReplied(active) \in recorded
      ELSE Traced(active)

(* A request that has not arrived has left no trace. *)
FreshInv ==
    \A r \in Requests : asked[r] = Promise!Unasked =>
        ran[r] = 0 /\ consulted[r] = 0 /\ answer[r] = "none"

HandlerInv == TypeOK /\ StepInv /\ EncodeInv /\ FreshInv

(* No outcome of the model is on record for a request it was not asked about,
   nor while the handler has one to record. *)
OutcomeInv ==
    /\ \A r \in Requests : consulted[r] = 0 => NoOutcome(r)
    /\ pc \in {"model.response", "model.error"} => NoOutcome(active)

-----------------------------------------------------------------------------
(* An event of a known type about a request is an event. *)
LEMMA EventTyped ==
    ASSUME NEW r \in Requests, NEW t \in Promise!Types, NEW s \in Promise!Statuses
    PROVE  Event(t, r, s) \in Events
BY DEF Event, Events, Promise!Event

(* However AuditLog::append ends, the file is a sequence of lines. *)
LEMMA AppendTyped ==
    ASSUME TypeOK, NEW e \in Events, AppendReturns(e) \/ AppendThrows(e)
    PROVE  log' \in Seq(Lines) /\ recorded' \subseteq Events /\ tears' \in Nat
<1>1. log \in Seq(Lines) /\ e \in Lines /\ Cut \in Lines /\ Glued \in Lines
  BY DEF TypeOK, Lines
<1>2. Written(e) \in Seq(Lines)
  <2>1. CASE Torn
    <3>1. Len(log) \in 1 .. Len(log)
      BY <1>1, <2>1 DEF Torn
    <3>2. [log EXCEPT ![Len(log)] = Glued] \in Seq(Lines)
      BY <1>1, <3>1
    <3> QED BY <2>1, <3>2 DEF Written
  <2>2. CASE ~Torn
    BY <1>1, <2>2 DEF Written
  <2> QED BY <2>1, <2>2
<1>3. Append(log, Cut) \in Seq(Lines)
  BY <1>1
<1>4. recorded \subseteq Events /\ tears \in Nat
  BY DEF TypeOK
<1>5. CASE AppendReturns(e)
  BY <1>2, <1>4, <1>5 DEF AppendReturns
<1>6. CASE AppendThrows(e)
  <2>1. log' \in {log, Append(log, Cut), Written(e)}
    BY <1>6 DEF AppendThrows
  <2>2. tears' \in {tears, tears + 1} /\ recorded' = recorded
    BY <1>6 DEF AppendThrows
  <2>3. log' \in Seq(Lines)
    BY <1>1, <1>2, <1>3, <2>1
  <2> QED BY <1>4, <2>2, <2>3
<1> QED BY <1>5, <1>6

(* Audit leaves the file well formed and goes to one of its two labels. *)
LEMMA AuditTyped ==
    ASSUME TypeOK, NEW t \in Promise!Types, NEW s \in Promise!Statuses,
           NEW l1 \in Labels \ {"idle"}, NEW l2 \in Labels \ {"idle"},
           Audit(t, s, l1, l2)
    PROVE  /\ log' \in Seq(Lines) /\ recorded' \subseteq Events /\ tears' \in Nat
           /\ pc' \in Labels \ {"idle"}
<1>1. active \in Requests
  BY DEF TypeOK, Audit, Promise!Types
<1>2. Event(t, active, s) \in Events
  BY <1>1, EventTyped
<1>3. AppendReturns(Event(t, active, s)) \/ AppendThrows(Event(t, active, s))
  BY DEF Audit
<1>4. pc' \in {l1, l2}
  BY DEF Audit
<1> QED BY <1>2, <1>3, <1>4, AppendTyped

-----------------------------------------------------------------------------
(* Every variable keeps its type; the handler is idle exactly when no request
   is active. *)
THEOREM TypeCorrect == Spec => []TypeOK
<1>1. Init => TypeOK
  <2> SUFFICES ASSUME Init PROVE TypeOK
    OBVIOUS
  <2>1. log \in Seq(Lines)
    BY DEF Init
  <2>2. asked \in [Requests -> Inputs \cup {Promise!Unasked}]
    BY DEF Init, Promise!Init
  <2>3. answer \in [Requests -> {"none", "ok", "error", "dropped"}]
    BY DEF Init, Promise!Init
  <2> QED BY <2>1, <2>2, <2>3 DEF Init, Promise!Init, TypeOK, Labels, Promise!Statuses
<1>2. TypeOK /\ [Next]_vars => TypeOK'
  <2> SUFFICES ASSUME TypeOK, [Next]_vars PROVE TypeOK'
    OBVIOUS
  <2>0. CASE UNCHANGED vars
    BY <2>0 DEF vars, TypeOK
  <2>1. ASSUME NEW r \in Requests, Receive(r) PROVE TypeOK'
    <3>1. PICK in \in Inputs : /\ asked' = [asked EXCEPT ![r] = in]
                               /\ pc' \in Labels \ {"idle"}
                               /\ status' \in {"ok", "none"}
      BY <2>1, Zenon DEF Receive, Labels
    <3> QED BY <2>1, <3>1, RegistryAssumption DEF Receive, TypeOK, Promise!Statuses
  <2>2. CASE UnknownMethod
    <3>1. active \in Requests /\ Event("protocol.error", active, "none") \in Events
      BY <2>2, EventTyped DEF UnknownMethod, TypeOK, Promise!Types, Promise!Statuses
    <3>2. log' \in Seq(Lines) /\ recorded' \subseteq Events /\ tears' \in Nat
      BY <2>2, <3>1, AppendTyped DEF UnknownMethod
    <3> QED BY <2>2, <3>1, <3>2, RegistryAssumption DEF UnknownMethod, TypeOK, Labels
  <2>3. CASE Decide
    BY <2>3 DEF Decide, TypeOK, Labels, Promise!Statuses
  <2>4. CASE Execute
    BY <2>4 DEF Execute, TypeOK, Labels, Promise!Statuses
  <2>5. CASE AuditToolCall \/ AuditModelSkipped \/ AuditModelRequest
             \/ AuditModelResponse \/ AuditModelError
    <3>1. PICK t \in Promise!Types, s \in Promise!Statuses,
               l1 \in Labels \ {"idle"}, l2 \in Labels \ {"idle"} : Audit(t, s, l1, l2)
      BY <2>5 DEF AuditToolCall, AuditModelSkipped, AuditModelRequest, AuditModelResponse,
                  AuditModelError, TypeOK, Labels, Promise!Types, Promise!Statuses
    <3>2. /\ log' \in Seq(Lines) /\ recorded' \subseteq Events /\ tears' \in Nat
          /\ pc' \in Labels \ {"idle"} /\ active # NoRequest
      BY <3>1, AuditTyped DEF Audit, TypeOK, Promise!Types
    <3>3. UNCHANGED <<asked, active, ran, consulted, answer>> /\ status' \in {status, "error"}
      BY <2>5 DEF AuditToolCall, AuditModelSkipped, AuditModelRequest, AuditModelResponse,
                  AuditModelError
    <3> QED BY <3>2, <3>3 DEF TypeOK, Promise!Statuses
  <2>6. CASE Complete
    BY <2>6 DEF Complete, TypeOK, Labels
  <2>7. CASE Encode \/ SendError \/ Drop
    BY <2>7 DEF Encode, SendError, Drop, Idle, TypeOK, Labels, Promise!Statuses
  <2>8. CASE AuditProtocolError
    <3>1. active \in Requests /\ Event("protocol.error", active, "none") \in Events
      BY <2>8, EventTyped DEF AuditProtocolError, TypeOK, Promise!Types, Promise!Statuses
    <3>2. log' \in Seq(Lines) /\ recorded' \subseteq Events /\ tears' \in Nat
      BY <2>8, <3>1, AppendTyped DEF AuditProtocolError
    <3> QED BY <2>8, <3>1, <3>2, RegistryAssumption
            DEF AuditProtocolError, Idle, TypeOK, Labels, Promise!Statuses
  <2> QED BY <2>0, <2>1, <2>2, <2>3, <2>4, <2>5, <2>6, <2>7, <2>8 DEF Next, Handle
<1> QED BY <1>1, <1>2, PTL DEF Spec

-----------------------------------------------------------------------------
(* Nothing an append does takes an event off the record. *)
LEMMA RecordGrows ==
    ASSUME NEW e, AppendReturns(e) \/ AppendThrows(e)
    PROVE  recorded \subseteq recorded'
BY DEF AppendReturns, AppendThrows

(* A request that has arrived is not Unasked. *)
LEMMA ArrivedIsNotUnasked == \A in \in Inputs : in # Promise!Unasked
<1> SUFFICES ASSUME NEW in \in Inputs PROVE in.method # "none"
  BY DEF Promise!Unasked
<1> QED BY DEF Inputs

(* What an Audit step of the active request does to the record. *)
LEMMA AuditRecords ==
    ASSUME NEW t, NEW s, NEW l1, NEW l2, Audit(t, s, l1, l2)
    PROVE  /\ recorded \subseteq recorded'
           /\ \/ pc' = l1 /\ recorded' = recorded \cup {Event(t, active, s)}
              \/ pc' = l2 /\ recorded' = recorded
BY DEF Audit, AppendReturns, AppendThrows

(* The handler's invariant: what call_tool and ask_with_tool have established
   when they reach each of their steps. *)
THEOREM HandlerInvariant == Spec => []HandlerInv
<1>1. Init => StepInv /\ EncodeInv /\ FreshInv
  BY DEF Init, Promise!Init, StepInv, EncodeInv, FreshInv
<1>2. HandlerInv /\ TypeOK' /\ [Next]_vars => (StepInv /\ EncodeInv /\ FreshInv)'
  <2> SUFFICES ASSUME HandlerInv, TypeOK', [Next]_vars
               PROVE  (StepInv /\ EncodeInv /\ FreshInv)'
    OBVIOUS
  <2> USE DEF HandlerInv
  <2>0. CASE UNCHANGED vars
    BY <2>0 DEF vars, StepInv, EncodeInv, FreshInv, Traced
  <2>1. ASSUME NEW r \in Requests, Receive(r) PROVE (StepInv /\ EncodeInv /\ FreshInv)'
    <3>1. PICK in \in Inputs :
            /\ asked' = [asked EXCEPT ![r] = in]
            /\ pc' \in {"protocol.error", "unknown", "encode", "decide"}
            /\ pc' = "decide" => in.method \in ToolMethods
            /\ pc' = "encode" => in.method = "tools.list" /\ status' = "ok"
      <4>1. PICK in \in Inputs :
              /\ asked' = [asked EXCEPT ![r] = in]
              /\ pc' = CASE in.method = "malformed"  -> "protocol.error"
                         [] in.method = "unknown"    -> "unknown"
                         [] in.method = "tools.list" -> "encode"
                         [] OTHER                    -> "decide"
              /\ status' = IF in.method = "tools.list" THEN "ok" ELSE "none"
        BY <2>1 DEF Receive
      <4>2. in.method \in {"malformed", "unknown", "tools.list"} \cup ToolMethods
        BY DEF Inputs, ToolMethods
      <4> QED BY <4>1, <4>2 DEF ToolMethods
    <3>2. /\ asked'[r] \in Inputs /\ asked'[r].method = in.method
          /\ active' = r /\ ran[r] = 0 /\ consulted[r] = 0 /\ answer[r] = "none"
          /\ UNCHANGED <<ran, consulted, recorded, answer>>
      BY <2>1, <3>1 DEF Receive, FreshInv, TypeOK
    <3>3. StepInv'
      BY <3>1, <3>2 DEF StepInv
    <3>4. EncodeInv'
      BY <3>1, <3>2 DEF EncodeInv
    <3>5. FreshInv'
      BY <3>1, <3>2, ArrivedIsNotUnasked DEF FreshInv, TypeOK
    <3> QED BY <3>3, <3>4, <3>5
  <2>2. CASE UnknownMethod
    <3>1. \/ pc' = "send" /\ recorded' = recorded \cup {Event("protocol.error", active, "none")}
          \/ pc' = "protocol.error"
      BY <2>2 DEF UnknownMethod, AppendReturns
    <3>2. pc' = "send" => Traced(active)'
      BY <2>2, <3>1 DEF UnknownMethod, Traced, Event, Promise!Event
    <3> QED BY <2>2, <3>1, <3>2 DEF UnknownMethod, StepInv, EncodeInv, FreshInv
  <2>3. CASE Decide
    BY <2>3 DEF Decide, Allowed, StepInv, EncodeInv, FreshInv
  <2>4. CASE Execute
    <3>1. active \in Requests /\ asked[active] # Promise!Unasked
      BY <2>4, ArrivedIsNotUnasked DEF Execute, StepInv, TypeOK
    <3>2. ran'[active] = 1 /\ \A r \in Requests : r # active => ran'[r] = ran[r]
      <4>1. ran \in [Requests -> Nat] /\ ran[active] = 0
        BY <2>4 DEF Execute, StepInv, TypeOK
      <4>2. ran' = [ran EXCEPT ![active] = ran[active] + 1]
        BY <2>4 DEF Execute
      <4> QED BY <3>1, <4>1, <4>2
    <3>3. StepInv'
      BY <2>4, <3>1, <3>2 DEF Execute, StepInv
    <3> QED BY <2>4, <3>1, <3>2, <3>3 DEF Execute, EncodeInv, FreshInv
  <2>5. CASE AuditToolCall
    <3> DEFINE l1 == IF asked[active].method = "tool.call" THEN "encode"
                     ELSE IF status = "ok" THEN "model.request" ELSE "model.skipped"
    <3>1. \/ pc' = l1 /\ recorded' = recorded \cup {Event("tool.call", active, status)}
          \/ pc' = "protocol.error" /\ recorded' = recorded
      BY <2>5, AuditRecords DEF AuditToolCall
    <3>2. pc = "tool.call"
      BY <2>5 DEF AuditToolCall, Audit
    <3>3. pc' = l1 => /\ Traced(active)'
                      /\ status = "ok" => Promise!ToolSucceeded(active) \in recorded'
      <4>1. pc' = l1 => Event("tool.call", active, status) \in recorded'
        BY <3>1 DEF StepInv
      <4> QED BY <4>1, <2>5 DEF AuditToolCall, Traced, Event, Promise!Event, Promise!ToolSucceeded
    <3>4. StepInv'
      BY <2>5, <3>1, <3>2, <3>3 DEF AuditToolCall, StepInv, ToolMethods, Promise!ToolSucceeded
    <3>5. EncodeInv'
      BY <2>5, <3>1, <3>2, <3>3
      DEF AuditToolCall, StepInv, EncodeInv, ToolMethods, Promise!ToolSucceeded
    <3> QED BY <2>5, <3>4, <3>5 DEF AuditToolCall, FreshInv
  <2>6. CASE AuditModelSkipped
    <3>1. /\ recorded \subseteq recorded' /\ pc' \in {"encode", "protocol.error"}
          /\ pc = "model.skipped"
      BY <2>6, AuditRecords DEF AuditModelSkipped, Audit
    <3>2. Traced(active)' /\ status # "ok"
      BY <2>6, <3>1 DEF AuditModelSkipped, StepInv, Traced
    <3> QED BY <2>6, <3>1, <3>2 DEF AuditModelSkipped, StepInv, EncodeInv, FreshInv
  <2>7. CASE AuditModelRequest
    <3>1. /\ recorded \subseteq recorded' /\ pc = "model.request"
          /\ \/ pc' = "complete" /\ Event("model.request", active, "none") \in recorded'
             \/ pc' = "protocol.error"
      BY <2>7, AuditRecords DEF AuditModelRequest, Audit
    <3> QED
      BY <2>7, <3>1 DEF AuditModelRequest, StepInv, EncodeInv, FreshInv, Event,
                        Promise!ModelAsked, Promise!ToolSucceeded
  <2>8. CASE Complete
    <3>1. active \in Requests /\ asked[active] # Promise!Unasked
      BY <2>8, ArrivedIsNotUnasked DEF Complete, StepInv, TypeOK
    <3>2. /\ consulted'[active] = 1
          /\ \A r \in Requests : r # active => consulted'[r] = consulted[r]
      <4>1. consulted \in [Requests -> Nat] /\ consulted[active] = 0
        BY <2>8 DEF Complete, StepInv, TypeOK
      <4>2. consulted' = [consulted EXCEPT ![active] = consulted[active] + 1]
        BY <2>8 DEF Complete
      <4> QED BY <3>1, <4>1, <4>2
    <3>3. StepInv'
      BY <2>8, <3>1, <3>2 DEF Complete, StepInv, Promise!ToolSucceeded
    <3> QED BY <2>8, <3>1, <3>2, <3>3 DEF Complete, EncodeInv, FreshInv
  <2>9. CASE AuditModelResponse
    <3>1. /\ recorded \subseteq recorded' /\ pc = "model.response"
          /\ \/ pc' = "encode" /\ Event("model.response", active, "none") \in recorded'
             \/ pc' = "model.error"
      BY <2>9, AuditRecords DEF AuditModelResponse, Audit
    <3>2. pc' = "encode" => Traced(active)'
      BY <2>9, <3>1 DEF AuditModelResponse, Traced, Event, Promise!Event
    <3> QED
      BY <2>9, <3>1, <3>2 DEF AuditModelResponse, StepInv, EncodeInv, FreshInv, Event,
                        Promise!ModelReplied, Promise!ToolSucceeded
  <2>10. CASE AuditModelError
    <3>1. /\ recorded \subseteq recorded' /\ pc = "model.error"
          /\ pc' \in {"encode", "protocol.error"}
      BY <2>10, AuditRecords DEF AuditModelError, Audit
    <3>2. Traced(active)'
      BY <2>10, <3>1 DEF AuditModelError, StepInv, Traced, Promise!ToolSucceeded, Promise!Event
    <3> QED BY <2>10, <3>1, <3>2 DEF AuditModelError, StepInv, EncodeInv, FreshInv
  <2>11. CASE AuditProtocolError
    <3>1. active \in Requests /\ asked[active] # Promise!Unasked
      BY <2>11, ArrivedIsNotUnasked DEF AuditProtocolError, StepInv, TypeOK
    <3>2. pc' = "send" => Traced(active)' /\ UNCHANGED <<active, answer>>
      BY <2>11 DEF AuditProtocolError, AppendReturns, Idle, Traced, Event, Promise!Event
    <3> QED
      BY <2>11, <3>1, <3>2 DEF AuditProtocolError, Idle, StepInv, EncodeInv, FreshInv, TypeOK
  <2>12. CASE Encode \/ SendError \/ Drop
    <3>1. active \in Requests /\ asked[active] # Promise!Unasked
      BY <2>12, ArrivedIsNotUnasked DEF Encode, SendError, Drop, StepInv, TypeOK
    <3> QED
      BY <2>12, <3>1 DEF Encode, SendError, Drop, Idle, StepInv, EncodeInv, FreshInv, TypeOK
  <2> QED
    BY <2>0, <2>1, <2>2, <2>3, <2>4, <2>5, <2>6, <2>7, <2>8, <2>9, <2>10, <2>11, <2>12
    DEF Next, Handle
<1> QED BY <1>1, <1>2, TypeCorrect, PTL DEF Spec, HandlerInv

(* A step that puts no outcome of the model on record keeps OutcomeInv. *)
LEMMA NoOutcomeKept ==
    ASSUME OutcomeInv, UNCHANGED consulted,
           \A r \in Requests : NoOutcome(r) => NoOutcome(r)',
           pc' \in {"model.response", "model.error"} =>
             /\ pc \in {"model.response", "model.error"}
             /\ active' = active /\ active \in Requests
    PROVE  OutcomeInv'
BY DEF OutcomeInv

(* An append of another event leaves a request without an outcome. *)
LEMMA OtherEvents ==
    ASSUME NEW t, t \notin {"model.response", "model.error"}, NEW a, NEW s, NEW r,
           NoOutcome(r), recorded' \in {recorded, recorded \cup {Event(t, a, s)}}
    PROVE  NoOutcome(r)'
<1>1. Event(t, a, s).type = t
  BY DEF Event, Promise!Event
<1>2. Promise!ModelReplied(r).type = "model.response" /\ Promise!ModelFailed(r).type = "model.error"
  BY DEF Promise!ModelReplied, Promise!ModelFailed, Promise!Event
<1>3. Event(t, a, s) # Promise!ModelReplied(r) /\ Event(t, a, s) # Promise!ModelFailed(r)
  BY <1>1, <1>2
<1> QED BY <1>3 DEF NoOutcome

(* The record holds no outcome of the model before the model was asked, and one
   at most afterwards. *)
THEOREM OutcomeInvariant == Spec => []OutcomeInv
<1>1. Init => OutcomeInv
  BY DEF Init, Promise!Init, OutcomeInv, NoOutcome
<1>2. HandlerInv /\ OutcomeInv /\ [Next]_vars => OutcomeInv'
  <2> SUFFICES ASSUME HandlerInv, OutcomeInv, [Next]_vars PROVE OutcomeInv'
    OBVIOUS
  <2>0. pc # "idle" => active \in Requests
    BY DEF HandlerInv, TypeOK
  <2>1. CASE /\ UNCHANGED <<recorded, consulted>>
             /\ pc' \notin {"model.response", "model.error"} \/ UNCHANGED <<pc, active>>
    BY <2>0, <2>1, NoOutcomeKept DEF NoOutcome
  <2>2. ASSUME NEW t \in Promise!Types \ {"model.response", "model.error"}, NEW s,
               recorded' \in {recorded, recorded \cup {Event(t, active, s)}},
               UNCHANGED consulted, pc' \notin {"model.response", "model.error"}
        PROVE  OutcomeInv'
    <3>1. \A r \in Requests : NoOutcome(r) => NoOutcome(r)'
      BY <2>2, OtherEvents
    <3> QED BY <2>2, <3>1, NoOutcomeKept
  <2>3. CASE UnknownMethod
    BY <2>2, <2>3 DEF UnknownMethod, AppendReturns, AppendThrows, Promise!Types
  <2>4. CASE AuditProtocolError
    <3>1. /\ recorded' \in {recorded, recorded \cup {Event("protocol.error", active, "none")}}
          /\ UNCHANGED consulted /\ pc' \in {"send", "idle"}
      BY <2>4 DEF AuditProtocolError, AppendReturns, AppendThrows, Idle
    <3> QED BY <2>2, <3>1 DEF Promise!Types
  <2>5. CASE AuditToolCall
    <3>1. /\ recorded' \in {recorded, recorded \cup {Event("tool.call", active, status)}}
          /\ pc' \in {"encode", "model.request", "model.skipped", "protocol.error"}
          /\ UNCHANGED consulted
      BY <2>5, AuditRecords DEF AuditToolCall
    <3> QED BY <2>2, <3>1 DEF Promise!Types
  <2>6. CASE AuditModelSkipped
    <3>1. /\ recorded' \in {recorded, recorded \cup {Event("model.skipped", active, "none")}}
          /\ pc' \in {"encode", "protocol.error"} /\ UNCHANGED consulted
      BY <2>6, AuditRecords DEF AuditModelSkipped
    <3> QED BY <2>2, <3>1 DEF Promise!Types
  <2>7. CASE AuditModelRequest
    <3>1. /\ recorded' \in {recorded, recorded \cup {Event("model.request", active, "none")}}
          /\ pc' \in {"complete", "protocol.error"} /\ UNCHANGED consulted
      BY <2>7, AuditRecords DEF AuditModelRequest
    <3> QED BY <2>2, <3>1 DEF Promise!Types
  <2>8. CASE Complete
    <3>1. /\ active \in Requests /\ consulted[active] = 0 /\ consulted \in [Requests -> Nat]
          /\ consulted' = [consulted EXCEPT ![active] = @ + 1]
          /\ UNCHANGED <<active, recorded>>
      BY <2>0, <2>8 DEF Complete, HandlerInv, StepInv, TypeOK
    <3>2. NoOutcome(active) /\ \A r \in Requests : consulted'[r] = 0 => consulted[r] = 0
      BY <3>1 DEF OutcomeInv
    <3> QED BY <3>1, <3>2 DEF OutcomeInv, NoOutcome
  <2>9. CASE AuditModelResponse \/ AuditModelError
    <3>1. PICK t \in {"model.response", "model.error"} :
            /\ pc = t /\ UNCHANGED <<active, consulted>>
            /\ \/ /\ pc' \in {"encode", "protocol.error"}
                  /\ recorded' \in {recorded, recorded \cup {Event(t, active, "none")}}
               \/ pc' = "model.error" /\ recorded' = recorded
      BY <2>9, AuditRecords DEF AuditModelResponse, AuditModelError, Audit
    <3>2. active \in Requests /\ consulted[active] = 1 /\ NoOutcome(active)
      BY <2>0, <3>1 DEF HandlerInv, StepInv, OutcomeInv
    <3>3. ASSUME NEW r \in Requests, consulted'[r] = 0 PROVE NoOutcome(r)'
      <4>1. r # active /\ NoOutcome(r)
        BY <3>1, <3>2, <3>3 DEF OutcomeInv
      <4>2. Event(t, active, "none").req = active
        BY DEF Event, Promise!Event
      <4>3. Promise!ModelReplied(r).req = r /\ Promise!ModelFailed(r).req = r
        BY DEF Promise!ModelReplied, Promise!ModelFailed, Promise!Event
      <4>4. Event(t, active, "none") \notin {Promise!ModelReplied(r), Promise!ModelFailed(r)}
        BY <4>1, <4>2, <4>3
      <4> QED BY <3>1, <4>1, <4>4 DEF NoOutcome
    <3>4. pc' \in {"model.response", "model.error"} => NoOutcome(active)'
      BY <3>1, <3>2 DEF NoOutcome
    <3> QED BY <3>3, <3>4 DEF OutcomeInv
  <2>10. CASE \E r \in Requests : Receive(r)
    <3>1. UNCHANGED <<recorded, consulted>> /\ pc' \notin {"model.response", "model.error"}
      BY <2>10, Zenon DEF Receive
    <3> QED BY <2>1, <3>1
  <2>11. CASE Decide \/ Execute \/ Encode \/ SendError \/ Drop \/ UNCHANGED vars
    BY <2>1, <2>11 DEF Decide, Execute, Encode, SendError, Drop, Idle, vars
  <2> QED
    BY <2>3, <2>4, <2>5, <2>6, <2>7, <2>8, <2>9, <2>10, <2>11 DEF Next, Handle
<1> QED BY <1>1, <1>2, HandlerInvariant, PTL DEF Spec

-----------------------------------------------------------------------------
(* The detailed handler implements AuditedGateway: through every exception,
   short write and kill, no tool runs but a registered read-only one, and that
   once; the model is consulted once at most, not before its evidence is on
   record, and one outcome of it is recorded at most; and success is answered
   only when it is on record. *)
THEOREM SessionKeepsPromise == Spec => KeepsPromise
<1>1. Init => Promise!Init
  BY DEF Init
<1>2. HandlerInv /\ OutcomeInv /\ [Next]_vars => [Promise!Next]_(Promise!vars)
  <2> SUFFICES ASSUME HandlerInv, OutcomeInv, [Next]_vars, ~(UNCHANGED Promise!vars)
               PROVE  Promise!Next
    BY DEF Promise!vars
  <2> USE DEF HandlerInv
  <2>0. ASSUME NEW t \in Promise!Types, NEW s \in Promise!Statuses, active \in Requests,
               recorded' \in {recorded, recorded \cup {Event(t, active, s)}},
               UNCHANGED <<asked, ran, consulted, answer>>,
               t = "tool.call" /\ s = "ok" => ran[active] = 1,
               t = "model.response" => consulted[active] = 1 /\ NoOutcome(active),
               t = "model.error" => consulted[active] = 1 /\ NoOutcome(active),
               t = "model.skipped" => consulted[active] = 0
        PROVE  Promise!Next
    <3>1. recorded' = recorded \cup {Event(t, active, s)}
      BY <2>0 DEF Promise!vars
    <3>2. Promise!Event(t, active, s) = Promise!ToolSucceeded(active) => ran[active] = 1
      BY <2>0 DEF Promise!Event, Promise!ToolSucceeded
    <3>3. Promise!Record(active)
      BY <2>0, <3>1, <3>2 DEF Promise!Record, Event, NoOutcome
    <3> QED BY <2>0, <3>3 DEF Promise!Next
  <2>1. ASSUME NEW r \in Requests, Receive(r) PROVE Promise!Next
    <3>1. Promise!Arrive(r)
      BY <2>1 DEF Receive, Promise!Arrive
    <3> QED BY <3>1 DEF Promise!Next
  <2>2. ASSUME pc # "idle" PROVE active \in Requests
    BY <2>2 DEF TypeOK
  <2>3. CASE UnknownMethod
    BY <2>0, <2>2, <2>3 DEF UnknownMethod, AppendReturns, AppendThrows,
                            Promise!Types, Promise!Statuses
  <2>4. CASE Decide
    BY <2>4 DEF Decide, Promise!vars
  <2>5. CASE Execute
    <3>0. ran' = [ran EXCEPT ![active] = 1]
      <4>1. ran[active] = 0 /\ ran' = [ran EXCEPT ![active] = ran[active] + 1]
        BY <2>5 DEF Execute, StepInv
      <4>2. ran[active] + 1 = 1
        BY <4>1
      <4> QED BY <4>1, <4>2, Zenon
    <3>1. Promise!Run(active)
      BY <2>5, <3>0 DEF Execute, StepInv, ToolMethods, Promise!Run
    <3> QED BY <2>2, <2>5, <3>1 DEF Execute, Promise!Next
  <2>6. CASE AuditToolCall
    <3>1. status \in Promise!Statuses
      BY DEF TypeOK
    <3>2. recorded' \in {recorded, recorded \cup {Event("tool.call", active, status)}}
      BY <2>6, AuditRecords DEF AuditToolCall
    <3>3. pc = "tool.call"
      BY <2>6 DEF AuditToolCall, Audit
    <3>4. status = "ok" => ran[active] = 1
      BY <3>3 DEF StepInv
    <3> QED BY <2>0, <2>2, <2>6, <3>1, <3>2, <3>3, <3>4 DEF AuditToolCall, Promise!Types
  <2>7. CASE AuditModelSkipped
    <3>1. /\ recorded' \in {recorded, recorded \cup {Event("model.skipped", active, "none")}}
          /\ pc = "model.skipped"
      BY <2>7, AuditRecords DEF AuditModelSkipped, Audit
    <3> QED BY <2>0, <2>2, <2>7, <3>1
            DEF AuditModelSkipped, StepInv, Promise!Types, Promise!Statuses
  <2>8. CASE AuditModelRequest
    <3>1. /\ recorded' \in {recorded, recorded \cup {Event("model.request", active, "none")}}
          /\ pc = "model.request"
      BY <2>8, AuditRecords DEF AuditModelRequest, Audit
    <3> QED BY <2>0, <2>2, <2>8, <3>1
            DEF AuditModelRequest, Promise!Types, Promise!Statuses
  <2>9. CASE Complete
    <3>0. consulted' = [consulted EXCEPT ![active] = 1]
      <4>1. /\ consulted[active] = 0
            /\ consulted' = [consulted EXCEPT ![active] = consulted[active] + 1]
        BY <2>9 DEF Complete, StepInv
      <4>2. consulted[active] + 1 = 1
        BY <4>1
      <4> QED BY <4>1, <4>2, Zenon
    <3>1. Promise!Consult(active)
      BY <2>9, <3>0 DEF Complete, StepInv, Promise!Consult
    <3> QED BY <2>2, <2>9, <3>1 DEF Complete, Promise!Next
  <2>10. CASE AuditModelResponse
    <3>1. /\ recorded' \in {recorded, recorded \cup {Event("model.response", active, "none")}}
          /\ pc = "model.response"
      BY <2>10, AuditRecords DEF AuditModelResponse, Audit
    <3>2. active \in Requests /\ consulted[active] = 1 /\ NoOutcome(active)
      BY <2>2, <3>1 DEF StepInv, OutcomeInv
    <3> QED BY <2>0, <2>10, <3>1, <3>2
            DEF AuditModelResponse, Promise!Types, Promise!Statuses
  <2>11. CASE AuditModelError
    <3>1. /\ recorded' \in {recorded, recorded \cup {Event("model.error", active, "none")}}
          /\ pc = "model.error"
      BY <2>11, AuditRecords DEF AuditModelError, Audit
    <3>2. active \in Requests /\ consulted[active] = 1 /\ NoOutcome(active)
      BY <2>2, <3>1 DEF StepInv, OutcomeInv
    <3> QED BY <2>0, <2>11, <3>1, <3>2
            DEF AuditModelError, Promise!Types, Promise!Statuses
  <2>12. CASE Encode
    <3>1. CASE pc' = "protocol.error"
      BY <2>12, <3>1 DEF Encode, Idle, Promise!vars
    <3>2. CASE pc' # "protocol.error" /\ status = "ok"
      <4>1. Promise!Succeed(active)
        BY <2>12, <3>2 DEF Encode, StepInv, EncodeInv, Promise!Succeed
      <4> QED BY <2>2, <2>12, <4>1 DEF Encode, Promise!Next
    <3>3. CASE pc' # "protocol.error" /\ status # "ok"
      <4>1. Promise!Fail(active)
        BY <2>12, <3>3 DEF Encode, StepInv, EncodeInv, Traced, Promise!Fail
      <4> QED BY <2>2, <2>12, <4>1 DEF Encode, Promise!Next
    <3> QED BY <3>1, <3>2, <3>3
  <2>13. CASE SendError
    <3>1. Promise!Fail(active)
      BY <2>13 DEF SendError, StepInv, Traced, Promise!Fail
    <3> QED BY <2>2, <2>13, <3>1 DEF SendError, Promise!Next
  <2>14. CASE Drop
    <3>1. Promise!Fail(active)
      BY <2>14 DEF Drop, StepInv, Promise!Fail
    <3> QED BY <2>2, <2>14, <3>1 DEF Drop, Promise!Next
  <2>15. CASE AuditProtocolError
    <3>1. CASE AppendReturns(Event("protocol.error", active, "none")) /\ UNCHANGED answer
      BY <2>0, <2>2, <2>15, <3>1 DEF AuditProtocolError, AppendReturns,
                                     Promise!Types, Promise!Statuses
    <3>2. CASE /\ AppendThrows(Event("protocol.error", active, "none"))
               /\ answer' = [answer EXCEPT ![active] = "dropped"]
      <4>1. Promise!Fail(active)
        BY <2>15, <3>2 DEF AuditProtocolError, AppendThrows, StepInv, Promise!Fail
      <4> QED BY <2>2, <2>15, <4>1 DEF AuditProtocolError, Promise!Next
    <3> QED BY <2>15, <3>1, <3>2 DEF AuditProtocolError
  <2>16. CASE UNCHANGED vars
    BY <2>16 DEF vars, Promise!vars
  <2> QED
    BY <2>1, <2>3, <2>4, <2>5, <2>6, <2>7, <2>8, <2>9, <2>10, <2>11, <2>12, <2>13, <2>14,
       <2>15, <2>16 DEF Next, Handle
<1> QED BY <1>1, <1>2, HandlerInvariant, OutcomeInvariant, PTL DEF Spec, KeepsPromise, Promise!Spec

-----------------------------------------------------------------------------
(* Neither a record cut short nor a glued line is an event. *)
LEMMA FragmentsAreNoEvents == Cut \notin Events /\ Glued \notin Events
<1>1. Cut.type = "cut" /\ Glued.type = "glued"
  BY DEF Cut, Glued
<1>2. \A e \in Events : e.type \in Promise!Types
  BY DEF Events
<1> QED BY <1>1, <1>2 DEF Promise!Types

(* AuditLog::append only ever adds to the end of the file: an event that can
   be read afterwards could be read before, at the same place, or is the one
   being written, on the last line. *)
LEMMA AppendAdds ==
    ASSUME TypeOK, NEW e \in Events, AppendReturns(e) \/ AppendThrows(e)
    PROVE  /\ Len(log') \in Nat /\ Len(log) \in Nat /\ Len(log) <= Len(log')
           /\ \A i \in 1 .. Len(log') : log'[i] \in Events =>
                \/ i \in 1 .. Len(log) /\ log'[i] = log[i]
                \/ i = Len(log') /\ log'[i] = e
<1>1. log \in Seq(Lines) /\ Len(log) \in Nat
  BY DEF TypeOK
<1>2. CASE log' = log
  BY <1>1, <1>2
<1>3. ASSUME NEW x, log' = Append(log, x), x = e \/ x = Cut
      PROVE  /\ Len(log') = Len(log) + 1 /\ log'[Len(log) + 1] = x
             /\ \A i \in 1 .. Len(log) : log'[i] = log[i]
  BY <1>1, <1>3
<1>4. CASE log' = Append(log, e)
  BY <1>1, <1>3, <1>4
<1>5. CASE log' = Append(log, Cut)
  BY <1>1, <1>3, <1>5, FragmentsAreNoEvents
<1>6. CASE Torn /\ log' = [log EXCEPT ![Len(log)] = Glued]
  <2>1. Len(log) \in 1 .. Len(log)
    BY <1>1, <1>6 DEF Torn
  <2>2. /\ Len(log') = Len(log) /\ log'[Len(log)] = Glued
        /\ \A i \in 1 .. Len(log) : i # Len(log) => log'[i] = log[i]
    BY <1>1, <1>6, <2>1
  <2> QED BY <1>1, <2>2, FragmentsAreNoEvents
<1> QED BY <1>2, <1>4, <1>5, <1>6 DEF AppendReturns, AppendThrows, Written

-----------------------------------------------------------------------------
(* The rank of the event the handler may write next from a label on. *)
NextRank(l) ==
    CASE l \in {"decide", "execute", "tool.call"} -> 1
      [] l \in {"model.skipped", "model.request", "complete"} -> 2
      [] l = "model.response" -> 3
      [] l = "model.error" -> 4
      [] OTHER -> 5

(* What the file holds of the active request is behind the handler, and of a
   request that has not arrived it holds nothing. *)
OrderInv ==
    /\ LogInOrder
    /\ \A i \in 1 .. Len(log) : log[i] \in Events => asked[log[i].req] # Promise!Unasked
    /\ \A i \in 1 .. Len(log) : log[i] \in Events /\ log[i].req = active =>
         Rank(log[i].type) <= NextRank(pc)

(* An append about the active request that is not behind what the file holds of
   it leaves the file in order, and adds at most that one event. *)
LEMMA AppendInOrder ==
    ASSUME TypeOK, OrderInv, pc # "idle", NEW t \in Promise!Types, NEW s \in Promise!Statuses,
           Rank(t) = NextRank(pc), NEW l \in Labels, NextRank(pc) <= NextRank(l),
           \/ AppendReturns(Event(t, active, s))
           \/ AppendThrows(Event(t, active, s)),
           UNCHANGED asked, pc' = l, active' \in {active, NoRequest},
           asked[active] # Promise!Unasked
    PROVE  OrderInv'
<1> DEFINE e == Event(t, active, s)
<1>1. e \in Events /\ e.req = active /\ e.type = t /\ active \in Requests
  BY EventTyped DEF TypeOK, Event, Promise!Event
<1>2. /\ Len(log') \in Nat /\ Len(log) \in Nat /\ Len(log) <= Len(log')
      /\ \A i \in 1 .. Len(log') : log'[i] \in Events =>
           \/ i \in 1 .. Len(log) /\ log'[i] = log[i]
           \/ i = Len(log') /\ log'[i] = e
  BY <1>1, AppendAdds
<1>3. \A x \in Promise!Types : Rank(x) \in Nat
  BY DEF Rank
<1>4. \A x \in Events : x.type \in Promise!Types /\ x.req \in Requests
  BY DEF Events
<1>5. \A x \in Labels : NextRank(x) \in Nat
  BY DEF NextRank
<1>6. pc \in Labels
  BY DEF TypeOK
<1> HIDE DEF e
<1>7. ASSUME NEW i \in 1 .. Len(log'), log'[i] \in Events
      PROVE  /\ asked[log'[i].req] # Promise!Unasked
             /\ log'[i].req = active => Rank(log'[i].type) <= Rank(t)
  <2>1. CASE i \in 1 .. Len(log) /\ log'[i] = log[i]
    BY <1>7, <2>1 DEF OrderInv
  <2>2. CASE log'[i] = e
    <3>1. Rank(t) \in Nat
      BY <1>3
    <3> QED BY <1>1, <2>2, <3>1
  <2> QED BY <1>2, <1>7, <2>1, <2>2
<1>8. LogInOrder'
  <2> SUFFICES ASSUME NEW i \in 1 .. Len(log'), NEW j \in 1 .. Len(log'), i < j,
                      log'[i] \in Events, log'[j] \in Events, log'[i].req = log'[j].req
               PROVE  Rank(log'[i].type) <= Rank(log'[j].type)
    BY DEF LogInOrder
  <2>1. i \in 1 .. Len(log) /\ log'[i] = log[i]
    BY <1>2
  <2>2. CASE j \in 1 .. Len(log) /\ log'[j] = log[j]
    BY <2>1, <2>2 DEF OrderInv, LogInOrder
  <2>3. CASE log'[j] = e
    BY <1>1, <1>7, <2>3
  <2> QED BY <1>2, <2>2, <2>3
<1>9. ASSUME NEW i \in 1 .. Len(log'), log'[i] \in Events, log'[i].req = active'
      PROVE  Rank(log'[i].type) <= NextRank(pc')
  <2>1. active' = active
    BY <1>4, <1>9, RegistryAssumption
  <2>2. Rank(log'[i].type) <= Rank(t)
    BY <1>7, <1>9, <2>1
  <2> QED BY <1>3, <1>4, <1>5, <1>6, <1>9, <2>2
<1> QED BY <1>7, <1>8, <1>9 DEF OrderInv

(* A step that leaves the file alone and does not take the handler back. *)
LEMMA OrderKept ==
    ASSUME TypeOK, OrderInv, UNCHANGED <<log, asked>>, NEW l \in Labels, pc' = l,
           \/ active' = active /\ NextRank(pc) <= NextRank(l)
           \/ active' = NoRequest
    PROVE  OrderInv'
<1>1. \A x \in Events : x.type \in Promise!Types /\ x.req \in Requests
  BY DEF Events
<1>2. \A x \in Promise!Types : Rank(x) \in Nat
  BY DEF Rank
<1>3. NextRank(pc) \in Nat /\ NextRank(l) \in Nat
  BY DEF NextRank
<1>4. LogInOrder'
  BY DEF OrderInv, LogInOrder
<1>5. ASSUME NEW i \in 1 .. Len(log), log[i] \in Events, log[i].req = active'
      PROVE  Rank(log[i].type) <= NextRank(l)
  <2>1. active' = active /\ NextRank(pc) <= NextRank(l)
    BY <1>1, <1>5, RegistryAssumption
  <2>2. Rank(log[i].type) <= NextRank(pc)
    BY <1>5, <2>1 DEF OrderInv
  <2> QED BY <1>1, <1>2, <1>3, <1>5, <2>1, <2>2
<1> QED BY <1>4, <1>5 DEF OrderInv

(* One audit record, seen as such an append. *)
LEMMA AuditInOrder ==
    ASSUME TypeOK, OrderInv, NEW t \in Promise!Types, NEW s \in Promise!Statuses,
           NEW l1 \in Labels, NEW l2 \in Labels, Audit(t, s, l1, l2),
           NextRank(t) <= NextRank(l1), NextRank(t) <= NextRank(l2),
           UNCHANGED <<asked, active>>, asked[active] # Promise!Unasked
    PROVE  OrderInv'
<1>1. pc = t /\ pc # "idle" /\ Rank(t) = NextRank(t)
  BY DEF Audit, Promise!Types, Rank, NextRank
<1>2. pc' \in {l1, l2} /\ \/ AppendReturns(Event(t, active, s))
                          \/ AppendThrows(Event(t, active, s))
  BY DEF Audit
<1> QED BY <1>1, <1>2, AppendInOrder

(* The handler writes the events of a request in one order only, and a request
   that is received has none in the file: so the file stays in order through
   every exception, short write and kill. *)
THEOREM FileInOrder == Spec => []LogInOrder
<1>1. Init => OrderInv
  <2> SUFFICES ASSUME Init PROVE OrderInv
    OBVIOUS
  <2>1. log = <<>> /\ Len(log) = 0
    BY DEF Init
  <2>2. 1 .. Len(log) = {}
    BY <2>1
  <2> QED BY <2>2 DEF OrderInv, LogInOrder
<1>2. HandlerInv /\ OrderInv /\ [Next]_vars => OrderInv'
  <2> SUFFICES ASSUME HandlerInv, OrderInv, [Next]_vars PROVE OrderInv'
    OBVIOUS
  <2>a. TypeOK /\ StepInv
    BY DEF HandlerInv
  <2>b. pc # "idle" => active \in Requests /\ asked[active] # Promise!Unasked
    BY <2>a, ArrivedIsNotUnasked DEF TypeOK, StepInv
  <2>0. CASE UNCHANGED vars
    BY <2>0 DEF vars, OrderInv, LogInOrder
  <2>1. ASSUME NEW r \in Requests, Receive(r) PROVE OrderInv'
    <3>1. /\ asked[r] = Promise!Unasked /\ active' = r /\ log' = log
          /\ \E in \in Inputs : asked' = [asked EXCEPT ![r] = in]
      BY <2>1 DEF Receive
    <3>2. asked'[r] # Promise!Unasked /\ \A q \in Requests \ {r} : asked'[q] = asked[q]
      BY <2>a, <3>1, ArrivedIsNotUnasked DEF TypeOK
    <3>3. ASSUME NEW i \in 1 .. Len(log), log[i] \in Events
          PROVE  log[i].req # r /\ asked'[log[i].req] # Promise!Unasked
      <4>1. log[i].req \in Requests
        BY <3>3 DEF Events
      <4> QED BY <3>1, <3>2, <3>3, <4>1 DEF OrderInv
    <3>4. LogInOrder'
      BY <3>1 DEF OrderInv, LogInOrder
    <3> QED BY <3>1, <3>3, <3>4 DEF OrderInv
  <2>2. CASE UnknownMethod
    <3>1. /\ pc = "unknown" /\ pc' \in {"send", "protocol.error"} /\ UNCHANGED <<asked, active>>
          /\ \/ AppendReturns(Event("protocol.error", active, "none"))
             \/ AppendThrows(Event("protocol.error", active, "none"))
      BY <2>2 DEF UnknownMethod
    <3>2. /\ Rank("protocol.error") = NextRank(pc) /\ NextRank(pc) <= NextRank(pc')
          /\ pc' \in Labels
      BY <3>1 DEF Rank, NextRank, Labels
    <3> QED BY <2>a, <2>b, <3>1, <3>2, AppendInOrder DEF Promise!Types, Promise!Statuses
  <2>3. CASE Decide
    <3>1. pc' \in {"execute", "tool.call"} /\ pc = "decide" /\ UNCHANGED <<log, asked, active>>
      BY <2>3 DEF Decide
    <3>2. NextRank(pc) <= NextRank(pc') /\ pc' \in Labels
      BY <3>1 DEF NextRank, Labels
    <3> QED BY <2>a, <3>1, <3>2, OrderKept
  <2>4. CASE Execute
    <3>1. pc' = "tool.call" /\ pc = "execute" /\ UNCHANGED <<log, asked, active>>
      BY <2>4 DEF Execute
    <3>2. NextRank(pc) <= NextRank(pc') /\ pc' \in Labels
      BY <3>1 DEF NextRank, Labels
    <3> QED BY <2>a, <3>1, <3>2, OrderKept
  <2>5. CASE AuditToolCall
    <3>1. PICK l \in {"encode", "model.request", "model.skipped"} :
            Audit("tool.call", status, l, "protocol.error")
      BY <2>5 DEF AuditToolCall
    <3>2. /\ NextRank("tool.call") <= NextRank(l) /\ l \in Labels
          /\ NextRank("tool.call") <= NextRank("protocol.error") /\ "protocol.error" \in Labels
      BY DEF NextRank, Labels
    <3>3. pc = "tool.call" /\ status \in Promise!Statuses /\ UNCHANGED <<asked, active>>
      BY <2>5, <2>a DEF AuditToolCall, Audit, TypeOK
    <3> QED BY <2>a, <2>b, <3>1, <3>2, <3>3, AuditInOrder DEF Promise!Types
  <2>6. CASE AuditModelSkipped \/ AuditModelRequest \/ AuditModelResponse \/ AuditModelError
    <3>1. PICK t \in Promise!Types, l1 \in Labels, l2 \in Labels :
            /\ Audit(t, "none", l1, l2)
            /\ NextRank(t) <= NextRank(l1) /\ NextRank(t) <= NextRank(l2)
      <4>1. CASE AuditModelSkipped
        BY <4>1 DEF AuditModelSkipped, Promise!Types, Labels, NextRank
      <4>2. CASE AuditModelRequest
        BY <4>2 DEF AuditModelRequest, Promise!Types, Labels, NextRank
      <4>3. CASE AuditModelResponse
        BY <4>3 DEF AuditModelResponse, Promise!Types, Labels, NextRank
      <4>4. CASE AuditModelError
        BY <4>4 DEF AuditModelError, Promise!Types, Labels, NextRank
      <4> QED BY <2>6, <4>1, <4>2, <4>3, <4>4
    <3>2. UNCHANGED <<asked, active>>
      BY <2>6 DEF AuditModelSkipped, AuditModelRequest, AuditModelResponse, AuditModelError
    <3>3. pc # "idle"
      BY <3>1 DEF Audit, Promise!Types
    <3> QED BY <2>a, <2>b, <3>1, <3>2, <3>3, AuditInOrder DEF Promise!Statuses
  <2>7. CASE Complete
    <3>1. /\ pc' \in {"model.response", "model.error"} /\ pc = "complete"
          /\ UNCHANGED <<log, asked, active>>
      BY <2>7 DEF Complete
    <3>2. NextRank(pc) <= NextRank(pc') /\ pc' \in Labels
      BY <3>1 DEF NextRank, Labels
    <3> QED BY <2>a, <3>1, <3>2, OrderKept
  <2>8. CASE Encode \/ SendError \/ Drop
    <3>1. /\ UNCHANGED <<log, asked>> /\ pc' \in {"idle", "protocol.error"}
          /\ active' = NoRequest \/ (active' = active /\ pc = "encode" /\ pc' = "protocol.error")
      BY <2>8 DEF Encode, SendError, Drop, Idle
    <3>2. NextRank("encode") <= NextRank("protocol.error") /\ pc' \in Labels
      BY <3>1 DEF NextRank, Labels
    <3> QED BY <2>a, <3>1, <3>2, OrderKept
  <2>9. CASE AuditProtocolError
    <3>1. /\ pc = "protocol.error" /\ pc' \in {"send", "idle"} /\ UNCHANGED asked
          /\ active' \in {active, NoRequest}
          /\ \/ AppendReturns(Event("protocol.error", active, "none"))
             \/ AppendThrows(Event("protocol.error", active, "none"))
      BY <2>9 DEF AuditProtocolError, Idle
    <3>2. /\ Rank("protocol.error") = NextRank(pc) /\ NextRank(pc) <= NextRank(pc')
          /\ pc' \in Labels
      BY <3>1 DEF Rank, NextRank, Labels
    <3> QED BY <2>a, <2>b, <3>1, <3>2, AppendInOrder DEF Promise!Types, Promise!Statuses
  <2> QED
    BY <2>0, <2>1, <2>2, <2>3, <2>4, <2>5, <2>6, <2>7, <2>8, <2>9 DEF Next, Handle
<1>3. OrderInv => LogInOrder
  BY DEF OrderInv
<1> QED BY <1>1, <1>2, <1>3, HandlerInvariant, PTL DEF Spec

-----------------------------------------------------------------------------
(* Every record cut short has cost at most one event, and the one still at the
   end of the file has cost none yet. *)
LossInv ==
    /\ IsFiniteSet(recorded)
    /\ Cardinality(recorded \ Readable) + (IF Torn THEN 1 ELSE 0) <= tears

(* What AuditLog::append does to the events that can be read: none is lost; one
   that is written after a complete line can be read; one that is written after
   a record cut short ends that line, and is lost with it. *)
LEMMA AppendReads ==
    ASSUME TypeOK, NEW e \in Events, AppendReturns(e) \/ AppendThrows(e)
    PROVE  /\ Readable \subseteq Readable'
           /\ log' = Written(e) => ~Torn' /\ (~Torn => e \in Readable')
           /\ log' = log => Torn' = Torn /\ Readable' = Readable
<1>0. log \in Seq(Lines) /\ Len(log) \in Nat
  BY DEF TypeOK
<1>1. CASE log' = log
  <2>1. Readable' = Readable /\ Torn' = Torn
    BY <1>1 DEF Readable, Torn
  <2>2. log # Written(e)
    <3>1. CASE Torn
      <4>1. Len(log) \in 1 .. Len(log) /\ log[Len(log)] = Cut
        BY <1>0, <3>1 DEF Torn
      <4>2. Written(e)[Len(log)] = Glued
        BY <1>0, <3>1, <4>1 DEF Written
      <4> QED BY <4>1, <4>2 DEF Cut, Glued
    <3>2. CASE ~Torn
      <4>1. Len(Append(log, e)) = Len(log) + 1
        BY <1>0
      <4> QED BY <1>0, <3>2, <4>1 DEF Written
    <3> QED BY <3>1, <3>2
  <2> QED BY <1>1, <2>1, <2>2
<1>2. ASSUME NEW x, log' = Append(log, x), x = e \/ x = Cut, ~Torn
      PROVE  /\ Readable \subseteq Readable' /\ log' # log
             /\ log'[Len(log')] = x
             /\ x \in Events => x \in Readable'
  <2>1. /\ Len(log') = Len(log) + 1 /\ log'[Len(log) + 1] = x
        /\ \A i \in 1 .. Len(log) : log'[i] = log[i]
    BY <1>0, <1>2
  <2>2. \A i \in 1 .. Len(log) : i \in 1 .. Len(log')
    BY <1>0, <2>1
  <2>3. Len(log) + 1 \in 1 .. Len(log') /\ log' # log
    BY <1>0, <2>1
  <2> QED BY <2>1, <2>2, <2>3 DEF Readable
<1>3. CASE ~Torn /\ log' = Append(log, e)
  <2>1. e # Cut
    BY FragmentsAreNoEvents
  <2> QED BY <1>2, <1>3, <2>1 DEF Torn
<1>4. CASE ~Torn /\ log' = Append(log, Cut)
  <2>1. log' # Written(e)
    <3>1. Append(log, Cut)[Len(log) + 1] = Cut /\ Append(log, e)[Len(log) + 1] = e
      BY <1>0
    <3> QED BY <1>4, <3>1, FragmentsAreNoEvents DEF Written
  <2> QED BY <1>2, <1>4, <2>1
<1>5. CASE Torn /\ log' = [log EXCEPT ![Len(log)] = Glued]
  <2>1. Len(log) \in 1 .. Len(log) /\ log[Len(log)] = Cut
    BY <1>0, <1>5 DEF Torn
  <2>2. /\ Len(log') = Len(log) /\ log'[Len(log)] = Glued
        /\ \A i \in 1 .. Len(log) : i # Len(log) => log'[i] = log[i]
    BY <1>0, <1>5, <2>1
  <2>3. Cut # Glued
    BY DEF Cut, Glued
  <2>4. Readable \subseteq Readable'
    BY <2>1, <2>2, FragmentsAreNoEvents DEF Readable
  <2> QED BY <1>5, <2>1, <2>2, <2>3, <2>4 DEF Torn
<1> QED BY <1>1, <1>3, <1>4, <1>5 DEF AppendReturns, AppendThrows, Written

(* An append keeps the account of what was lost. *)
LEMMA AppendLoss ==
    ASSUME TypeOK, LossInv, NEW e \in Events, AppendReturns(e) \/ AppendThrows(e)
    PROVE  LossInv'
<1> DEFINE L == recorded \ Readable
<1>1. /\ Readable \subseteq Readable'
      /\ log' = Written(e) => ~Torn' /\ (~Torn => e \in Readable')
      /\ log' = log => Torn' = Torn /\ Readable' = Readable
  BY AppendReads
<1>2. IsFiniteSet(recorded) /\ IsFiniteSet(L) /\ Cardinality(L) \in Nat /\ tears \in Nat
  BY FS_Difference, FS_CardinalityType DEF LossInv, TypeOK
<1>3. /\ IsFiniteSet(L \cup {e}) /\ Cardinality(L \cup {e}) \in Nat
      /\ Cardinality(L \cup {e}) <= Cardinality(L) + 1
  <2> HIDE DEF L
  <2>1. /\ IsFiniteSet(L \cup {e})
        /\ Cardinality(L \cup {e}) = IF e \in L THEN Cardinality(L) ELSE Cardinality(L) + 1
    BY <1>2, FS_AddElement
  <2> QED BY <1>2, <2>1
<1>4. Cardinality(L) + (IF Torn THEN 1 ELSE 0) <= tears
  BY DEF LossInv
<1>5. CASE AppendReturns(e)
  <2>1. log' = Written(e) /\ recorded' = recorded \cup {e} /\ tears' = tears
    BY <1>5 DEF AppendReturns
  <2>2. IsFiniteSet(recorded')
    BY <1>2, <2>1, FS_AddElement
  <2>3. CASE Torn
    <3>1. L' \subseteq L \cup {e}
      BY <1>1, <2>1
    <3>2. Cardinality(L') <= Cardinality(L \cup {e}) /\ Cardinality(L') \in Nat
      BY <1>3, <3>1, FS_Subset, FS_CardinalityType
    <3>3. Cardinality(L') + 0 <= tears'
      BY <1>2, <1>3, <1>4, <2>1, <2>3, <3>2
    <3> QED BY <1>1, <2>1, <2>2, <3>3 DEF LossInv
  <2>4. CASE ~Torn
    <3>1. L' \subseteq L
      BY <1>1, <2>1, <2>4
    <3>2. Cardinality(L') <= Cardinality(L) /\ Cardinality(L') \in Nat
      BY <1>2, <3>1, FS_Subset, FS_CardinalityType
    <3>3. Cardinality(L') + 0 <= tears'
      BY <1>2, <1>4, <2>1, <2>4, <3>2
    <3> QED BY <1>1, <2>1, <2>2, <3>3 DEF LossInv
  <2> QED BY <2>3, <2>4
<1>6. CASE AppendThrows(e)
  <2>1. recorded' = recorded /\ L' \subseteq L
    BY <1>1, <1>6 DEF AppendThrows
  <2>2. Cardinality(L') <= Cardinality(L) /\ Cardinality(L') \in Nat
    BY <1>2, <2>1, FS_Subset, FS_CardinalityType
  <2>3. CASE log' = log /\ tears' = tears
    <3>1. Cardinality(L') + (IF Torn' THEN 1 ELSE 0) <= tears'
      BY <1>1, <1>2, <1>4, <2>2, <2>3
    <3> QED BY <1>2, <2>1, <3>1 DEF LossInv
  <2>4. CASE ~Torn /\ tears' = tears + 1
    <3>1. Cardinality(L') + (IF Torn' THEN 1 ELSE 0) <= tears'
      BY <1>2, <1>4, <2>2, <2>4
    <3> QED BY <1>2, <2>1, <3>1 DEF LossInv
  <2>5. CASE log' = Written(e) /\ tears' = tears
    <3>1. Cardinality(L') + (IF Torn' THEN 1 ELSE 0) <= tears'
      BY <1>1, <1>2, <1>4, <2>2, <2>5
    <3> QED BY <1>2, <2>1, <3>1 DEF LossInv
  <2> QED BY <1>6, <2>3, <2>4, <2>5 DEF AppendThrows
<1> QED BY <1>5, <1>6

(* However often AuditLog::append fails half way, the events that were reported
   as written and cannot be read are at most as many as those failures. *)
THEOREM LossBounded == Spec => []LossIsBounded
<1>1. Init => LossInv
  <2> SUFFICES ASSUME Init PROVE LossInv
    OBVIOUS
  <2>1. recorded = {} /\ log = <<>> /\ tears = 0 /\ recorded \ Readable = {}
    BY DEF Init, Promise!Init
  <2> QED BY <2>1, FS_EmptySet DEF LossInv, Torn
<1>2. TypeOK /\ LossInv /\ [Next]_vars => LossInv'
  <2> SUFFICES ASSUME TypeOK, LossInv, [Next]_vars PROVE LossInv'
    OBVIOUS
  <2>1. CASE UNCHANGED <<log, recorded, tears>>
    BY <2>1 DEF LossInv, Readable, Torn
  <2>2. ASSUME NEW t \in Promise!Types, NEW s \in Promise!Statuses, pc # "idle",
               \/ AppendReturns(Event(t, active, s)) \/ AppendThrows(Event(t, active, s))
        PROVE  LossInv'
    <3>1. Event(t, active, s) \in Events
      BY <2>2, EventTyped DEF TypeOK
    <3> QED BY <2>2, <3>1, AppendLoss
  <2>3. CASE UnknownMethod \/ AuditProtocolError
    BY <2>2, <2>3 DEF UnknownMethod, AuditProtocolError, Promise!Types, Promise!Statuses
  <2>4. CASE AuditToolCall \/ AuditModelSkipped \/ AuditModelRequest
             \/ AuditModelResponse \/ AuditModelError
    <3>1. PICK t \in Promise!Types, s \in Promise!Statuses : \E l1, l2 : Audit(t, s, l1, l2)
      BY <2>4 DEF AuditToolCall, AuditModelSkipped, AuditModelRequest, AuditModelResponse,
                  AuditModelError, TypeOK, Promise!Types, Promise!Statuses
    <3>2. pc = t /\ \/ AppendReturns(Event(t, active, s)) \/ AppendThrows(Event(t, active, s))
      BY <3>1 DEF Audit
    <3> QED BY <2>2, <3>2 DEF Promise!Types
  <2>5. CASE \/ \E r \in Requests : Receive(r)
             \/ Decide \/ Execute \/ Complete \/ Encode \/ SendError \/ Drop \/ UNCHANGED vars
    BY <2>1, <2>5 DEF Receive, Decide, Execute, Complete, Encode, SendError, Drop, vars
  <2> QED BY <2>3, <2>4, <2>5 DEF Next, Handle
<1>3. TypeOK /\ LossInv => LossIsBounded
  <2> SUFFICES ASSUME TypeOK, LossInv PROVE LossIsBounded
    OBVIOUS
  <2>1. Cardinality(recorded \ Readable) \in Nat /\ tears \in Nat
    BY FS_Difference, FS_CardinalityType DEF LossInv, TypeOK
  <2> QED BY <2>1 DEF LossInv, LossIsBounded
<1> QED BY <1>1, <1>2, <1>3, TypeCorrect, PTL DEF Spec
=============================================================================
