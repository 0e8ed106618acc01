-------------------------- MODULE AuditedGateway --------------------------
(***************************************************************************)
(* What the daemon promises of every request, whatever fails on the way:   *)
(* only a registered read-only tool runs, and at most once; the model is   *)
(* consulted at most once, and only after the tool's success and the       *)
(* consultation itself are on record; of a consultation one outcome goes   *)
(* on record at most; a request is answered once, and with success only    *)
(* when that success is on record. "On record" means that AuditLog::append *)
(* returned.                                                               *)
(***************************************************************************)
EXTENDS Naturals

CONSTANTS
    Requests,    \* the requests that arrive
    Inputs,      \* what a request may say: its method, tool and claimed risk
    ReadOnly     \* the tools registered with risk read_only

VARIABLES
    asked,       \* the content of a request once it arrived
    ran,         \* how often the tool of a request was executed
    consulted,   \* how often the model was given the evidence of a request
    recorded,    \* the audit events whose append returned
    answer       \* what a request was answered

vars == <<asked, ran, consulted, recorded, answer>>

Unasked == [method |-> "none", tool |-> "none", claim |-> "none"]

Types    == {"tool.call", "model.skipped", "model.request", "model.response",
             "model.error", "protocol.error"}
Statuses == {"ok", "denied", "error", "none"}

Event(type, r, status) == [type |-> type, req |-> r, status |-> status]

ToolSucceeded(r) == Event("tool.call", r, "ok")
ModelAsked(r)    == Event("model.request", r, "none")
ModelReplied(r)  == Event("model.response", r, "none")
ModelFailed(r)   == Event("model.error", r, "none")

Init ==
    /\ asked = [r \in Requests |-> Unasked]
    /\ ran = [r \in Requests |-> 0] /\ consulted = [r \in Requests |-> 0]
    /\ recorded = {}
    /\ answer = [r \in Requests |-> "none"]

Arrive(r) ==
    /\ asked[r] = Unasked
    /\ \E in \in Inputs : asked' = [asked EXCEPT ![r] = in]
    /\ UNCHANGED <<ran, consulted, recorded, answer>>

Run(r) ==
    /\ ran[r] = 0 /\ answer[r] = "none"
    /\ asked[r].method \in {"tool.call", "ask"}
    /\ asked[r].tool \in ReadOnly
    /\ ran' = [ran EXCEPT ![r] = 1]
    /\ UNCHANGED <<asked, consulted, recorded, answer>>

(* Nothing is taken off the record, and a success goes on it only for a tool
   that ran; an outcome of the model only for a model that was asked, and not
   beside the opposite one. *)
Record(r) ==
    /\ \E type \in Types, status \in Statuses :
         /\ Event(type, r, status) = ToolSucceeded(r) => ran[r] = 1
         /\ type = "model.response" => consulted[r] = 1 /\ ModelFailed(r) \notin recorded
         /\ type = "model.error" => consulted[r] = 1 /\ ModelReplied(r) \notin recorded
         /\ type = "model.skipped" => consulted[r] = 0
         /\ recorded' = recorded \cup {Event(type, r, status)}
    /\ UNCHANGED <<asked, ran, consulted, answer>>

Consult(r) ==
    /\ ran[r] = 1 /\ consulted[r] = 0
    /\ asked[r].method = "ask"
    /\ {ToolSucceeded(r), ModelAsked(r)} \subseteq recorded
    /\ consulted' = [consulted EXCEPT ![r] = 1]
    /\ UNCHANGED <<asked, ran, recorded, answer>>

Succeed(r) ==
    /\ answer[r] = "none"
    /\ asked[r].method = "tool.call" => ToolSucceeded(r) \in recorded
    /\ asked[r].method = "ask" => ModelReplied(r) \in recorded
    /\ answer' = [answer EXCEPT ![r] = "ok"]
    /\ UNCHANGED <<asked, ran, consulted, recorded>>

(* A request that fails has left a trace, unless it is dropped unanswered. *)
Fail(r) ==
    /\ answer[r] = "none"
    /\ \E a \in {"error", "dropped"} :
         /\ a = "error" => \E e \in recorded : e.req = r
         /\ answer' = [answer EXCEPT ![r] = a]
    /\ UNCHANGED <<asked, ran, consulted, recorded>>

Next ==
    \E r \in Requests :
        Arrive(r) \/ Run(r) \/ Record(r) \/ Consult(r) \/ Succeed(r) \/ Fail(r)

Spec == Init /\ [][Next]_vars
===========================================================================
