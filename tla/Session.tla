------------------------------ MODULE Session ------------------------------
(***************************************************************************)
(* One kaslid process handling requests one after the other:               *)
(* handle_request (src/kaslid/main.cpp), SessionService::call_tool and     *)
(* ask_with_tool (src/session/session_service.cpp), PolicyBroker::decide   *)
(* and AuditLog::append, with everything that can throw. The daemon may    *)
(* also be killed in the middle of a request and started again; the audit  *)
(* file stays.                                                             *)
(*                                                                         *)
(* A tool's output, a prompt and an answer are left out; of them the flow  *)
(* depends only on whether they were obtained and can be encoded.          *)
(***************************************************************************)
EXTENDS Integers, Sequences, FiniteSets

CONSTANTS
    Requests,    \* requests, by identity: the ids in the messages repeat
    Tools,       \* the tool names a request may carry
    Registered,  \* the ones in the registry
    ReadOnly,    \* the ones registered with risk read_only
    NoRequest    \* the handler is idle

ASSUME RegistryAssumption ==
    /\ ReadOnly \subseteq Registered /\ Registered \subseteq Tools
    /\ NoRequest \notin Requests

(* What the handler tells apart in a request line; "malformed" is one that does
   not parse or lacks its id, its method or a part of its tool request. *)
Inputs ==
    [method : {"malformed", "unknown", "tools.list"}, tool : {"none"}, claim : {"none"}]
      \cup [method : {"tool.call", "ask"}, tool : Tools, claim : {"read_only", "other"}]

VARIABLES
    asked,       \* the content of a request once it arrived
    active,      \* the request being handled
    pc,          \* where its handler is
    status,      \* ToolResponse.status of the active request
    log,         \* the lines of the audit file
    ran, consulted, recorded, answer,   \* as in AuditedGateway
    tears        \* history: appends that failed with part of a record written

vars == <<asked, active, pc, status, log, ran, consulted, recorded, answer, tears>>

Promise == INSTANCE AuditedGateway

Event(type, r, s) == Promise!Event(type, r, s)
Events == [type : Promise!Types, req : Requests, status : Promise!Statuses]

(* Lines that hold no event: a record cut short at the end of the file, and
   one that the next record was glued to. *)
Cut   == [type |-> "cut", req |-> NoRequest, status |-> "none"]
Glued == [type |-> "glued", req |-> NoRequest, status |-> "none"]
Lines == Events \cup {Cut, Glued}

Labels == {"idle", "unknown", "decide", "execute", "tool.call", "model.skipped",
           "model.request", "complete", "model.response", "model.error",
           "protocol.error", "encode", "send"}

TypeOK ==
    /\ asked \in [Requests -> Inputs \cup {Promise!Unasked}]
    /\ active \in Requests \cup {NoRequest}
    /\ pc \in Labels
    /\ pc = "idle" <=> active = NoRequest
    /\ status \in Promise!Statuses
    /\ log \in Seq(Lines)
    /\ ran \in [Requests -> Nat] /\ consulted \in [Requests -> Nat]
    /\ recorded \subseteq Events
    /\ answer \in [Requests -> {"none", "ok", "error", "dropped"}]
    /\ tears \in Nat

Init ==
    /\ Promise!Init
    /\ active = NoRequest /\ pc = "idle" /\ status = "none"
    /\ log = <<>> /\ tears = 0

-----------------------------------------------------------------------------
(* AuditLog::append. The file is opened for appending each time; nothing looks
   at how the last line ended. *)
Torn == log # <<>> /\ log[Len(log)] = Cut

(* Mutant: the file is opened without std::ios::app. *)
Written_Truncates(e) == <<e>>

Written(e) == IF Torn THEN [log EXCEPT ![Len(log)] = Glued] ELSE Append(log, e)

AppendReturns(e) ==
    /\ log' = Written(e)
    /\ recorded' = recorded \cup {e}
    /\ UNCHANGED tears

(* It throws when the record cannot be encoded or the file not opened, when a
   write stops short, or when the file is complete and closing it fails. *)
AppendThrows(e) ==
    /\ \/ log' = log /\ UNCHANGED tears
       \/ ~Torn /\ log' = Append(log, Cut) /\ tears' = tears + 1
       \/ log' = Written(e) /\ UNCHANGED tears
    /\ UNCHANGED recorded

(* One audit record of the active request, and where the handler goes next. *)
Audit(type, s, returned, thrown) ==
    /\ pc = type
    /\ \/ AppendReturns(Event(type, active, s)) /\ pc' = returned
       \/ AppendThrows(Event(type, active, s)) /\ pc' = thrown

(* Mutant: the request is not forgotten. *)
Idle_KeepsActive == pc' = "idle" /\ status' = "none" /\ UNCHANGED active

Idle == active' = NoRequest /\ pc' = "idle" /\ status' = "none"

-----------------------------------------------------------------------------
(* handle_request: parse, look at the method. *)
Receive(r) ==
    /\ pc = "idle"
    /\ asked[r] = Promise!Unasked
    /\ \E in \in Inputs :
         /\ asked' = [asked EXCEPT ![r] = in]
         /\ pc' = CASE in.method = "malformed"  -> "protocol.error"
                    [] in.method = "unknown"    -> "unknown"
                    [] in.method = "tools.list" -> "encode"
                    [] OTHER                    -> "decide"
         /\ status' = IF in.method = "tools.list" THEN "ok" ELSE "none"
    /\ active' = r
    /\ UNCHANGED <<log, ran, consulted, recorded, answer, tears>>

(* An unknown method is audited inside the try block: when that throws, the
   catch clause audits again. *)
UnknownMethod ==
    /\ pc = "unknown"
    /\ \/ AppendReturns(Event("protocol.error", active, "none")) /\ pc' = "send"
       \/ AppendThrows(Event("protocol.error", active, "none")) /\ pc' = "protocol.error"
    /\ UNCHANGED <<asked, active, status, ran, consulted, answer>>

(* Mutant: the risk the caller claims decides. *)
Allowed_TrustsClaim(in) == in.tool \in Registered /\ in.claim = "read_only"

(* PolicyBroker::decide, on a policy built from the registry: the claimed risk
   of the request is not looked at. *)
Allowed(in) == in.tool \in Registered /\ in.tool \in ReadOnly

Decide ==
    /\ pc = "decide"
    /\ IF Allowed(asked[active])
       THEN pc' = "execute" /\ UNCHANGED status
       ELSE pc' = "tool.call" /\ status' = "denied"
    /\ UNCHANGED <<asked, active, log, ran, consulted, recorded, answer, tears>>

(* Mutant: a tool that fails is tried again. *)
Execute_RetriesErrors ==
    /\ pc = "execute"
    /\ ran' = [ran EXCEPT ![active] = @ + 1]
    /\ \/ status' = "ok" /\ pc' = "tool.call"
       \/ status' = "none" /\ pc' = "decide"
    /\ UNCHANGED <<asked, active, log, consulted, recorded, answer, tears>>

(* tool->call; an exception becomes a response with status error. *)
Execute ==
    /\ pc = "execute"
    /\ ran' = [ran EXCEPT ![active] = @ + 1]
    /\ status' \in {"ok", "error"}
    /\ pc' = "tool.call"
    /\ UNCHANGED <<asked, active, log, consulted, recorded, answer, tears>>

AuditToolCall ==
    /\ Audit("tool.call", status,
             IF asked[active].method = "tool.call" THEN "encode"
             ELSE IF status = "ok" THEN "model.request" ELSE "model.skipped",
             "protocol.error")
    /\ UNCHANGED <<asked, active, status, ran, consulted, answer>>

AuditModelSkipped ==
    /\ Audit("model.skipped", "none", "encode", "protocol.error")
    /\ UNCHANGED <<asked, active, status, ran, consulted, answer>>

AuditModelRequest ==
    /\ Audit("model.request", "none", "complete", "protocol.error")
    /\ UNCHANGED <<asked, active, status, ran, consulted, answer>>

(* model.complete: an answer, or an exception. *)
Complete ==
    /\ pc = "complete"
    /\ consulted' = [consulted EXCEPT ![active] = @ + 1]
    /\ pc' \in {"model.response", "model.error"}
    /\ UNCHANGED <<asked, active, status, log, ran, recorded, answer, tears>>

(* The append of model.response is inside the try block: when it throws, the
   answer is dropped and the failure is audited as the model's. *)
AuditModelResponse ==
    /\ Audit("model.response", "none", "encode", "model.error")
    /\ UNCHANGED <<asked, active, status, ran, consulted, answer>>

(* Mutant: the response is audited after the error all the same. *)
AuditModelError_FallsThrough ==
    /\ Audit("model.error", "none", "model.response", "protocol.error")
    /\ status' = "error"
    /\ UNCHANGED <<asked, active, ran, consulted, answer>>

AuditModelError ==
    /\ Audit("model.error", "none", "encode", "protocol.error")
    /\ status' = "error"
    /\ UNCHANGED <<asked, active, ran, consulted, answer>>

(* Mutant: only a success is answered. *)
Encode_OnlySuccess ==
    /\ pc = "encode" /\ status = "ok"
    /\ answer' = [answer EXCEPT ![active] = "ok"]
    /\ Idle
    /\ UNCHANGED <<asked, log, ran, consulted, recorded, tears>>

(* The response is encoded inside the try block, and sent. "encode" knows the
   success of the request; "send" carries an error response. *)
Encode ==
    /\ pc = "encode"
    /\ \/ /\ answer' = [answer EXCEPT ![active] = IF status = "ok" THEN "ok" ELSE "error"]
          /\ Idle
       \/ /\ pc' = "protocol.error"
          /\ UNCHANGED <<active, status, answer>>
    /\ UNCHANGED <<asked, log, ran, consulted, recorded, tears>>

(* The catch clause of handle_request. When its append throws too, the
   exception leaves the handler and the connection is closed unanswered. *)
AuditProtocolError ==
    /\ pc = "protocol.error"
    /\ \/ /\ AppendReturns(Event("protocol.error", active, "none"))
          /\ pc' = "send"
          /\ UNCHANGED <<active, status, answer>>
       \/ /\ AppendThrows(Event("protocol.error", active, "none"))
          /\ answer' = [answer EXCEPT ![active] = "dropped"]
          /\ Idle
    /\ UNCHANGED <<asked, ran, consulted>>

SendError ==
    /\ pc = "send"
    /\ answer' = [answer EXCEPT ![active] = "error"]
    /\ Idle
    /\ UNCHANGED <<asked, log, ran, consulted, recorded, tears>>

(* The response does not reach the client: it is larger than a line may be, or
   the client has gone. Or the daemon is killed while it handles a request. *)
Drop ==
    /\ pc # "idle"
    /\ answer' = [answer EXCEPT ![active] = "dropped"]
    /\ Idle
    /\ UNCHANGED <<asked, log, ran, consulted, recorded, tears>>

-----------------------------------------------------------------------------
Handle ==
    \/ UnknownMethod \/ Decide \/ Execute \/ AuditToolCall
    \/ AuditModelSkipped \/ AuditModelRequest \/ Complete \/ AuditModelResponse
    \/ AuditModelError \/ Encode \/ AuditProtocolError \/ SendError

Next == (\E r \in Requests : Receive(r)) \/ Handle \/ Drop

Spec == Init /\ [][Next]_vars

(* The handler is sequential code that goes on: the model client and the
   commands of the tools have their timeouts. It is an assumption that the file
   system answers too: std::filesystem::space has no timeout on a mount whose
   server is gone. *)
FairSpec == Spec /\ WF_vars(Handle)

-----------------------------------------------------------------------------
(* The daemon keeps the promise of AuditedGateway through every error path: no
   request has its tool executed or its evidence sent to the model twice. *)
KeepsPromise == Promise!Spec

Readable == {log[i] : i \in 1 .. Len(log)} \cap Events

(* An append that returned can still be unreadable, glued to what a failed one
   left behind; each record cut short costs at most one later event. *)
LossIsBounded == Cardinality(recorded \ Readable) <= tears

(* The file tells each request's story in the order it happened: a model event
   never stands before the tool call it rests on, nor an outcome before the
   request to the model. *)
Rank(type) ==
    CASE type = "tool.call" -> 1
      [] type \in {"model.skipped", "model.request"} -> 2
      [] type = "model.response" -> 3
      [] type = "model.error" -> 4
      [] type = "protocol.error" -> 5
      [] OTHER -> 0

LogInOrder ==
    \A i, j \in 1 .. Len(log) :
        i < j /\ {log[i], log[j]} \subseteq Events /\ log[i].req = log[j].req
          => Rank(log[i].type) <= Rank(log[j].type)

(* PROJECT.md, "Each tool call records": a request that was answered and whose
   tool ran has its tool.call event on record. *)
EveryRunIsRecorded ==
    \A r \in Requests : ran[r] > 0 /\ answer[r] \in {"ok", "error"} =>
        \E e \in recorded : e.type = "tool.call" /\ e.req = r

(* The test "audit log appends one JSON event per line": an append that
   returned has left its event on a line of its own. *)
RecordedIsReadable == recorded \subseteq Readable

(* Every request the handler takes up is done with. *)
EveryRequestSettles == \A r \in Requests : active = r ~> active # r
=============================================================================
