--------------------------- MODULE ServiceDiagnose ---------------------------
(***************************************************************************)
(* service.diagnose (src/tools/service_diagnose_tool.cpp) with the tool it *)
(* asks first, systemd.unit.status (src/tools/systemd_tool.cpp). The       *)
(* status tool reads each property in a bus call of its own, so the unit   *)
(* may change in between, and puts what it read into a bounded text; the   *)
(* diagnosis is made from that text.                                       *)
(*                                                                         *)
(* A text is a sequence of tokens: a key with its "=", a value, the end of *)
(* a line. Of the properties, the description stands for those ahead of    *)
(* the two that decide, the exit code for those behind; the name of the    *)
(* unit and the description may be long. Redaction leaves states and       *)
(* results alone and is left out.                                          *)
(***************************************************************************)
EXTENDS Integers, Sequences, SequencesExt

CONSTANTS
    kMaxBodyBytes,            \* the bound of the status text
    kMaxDiagnosisBodyBytes,   \* the bound of the diagnosis text
    MaxName, MaxDescription   \* bounds on the length of a name and a description

Tokens ==
    {"description=", "active_state=", "service_result=", "exec_main=", "unit=", "tools=",
     "journal=", "diagnosis=", "truncated=", "true", "nl", "word",
     "active", "failed", "inactive", "activating", "success", "exit-code",
     "unavailable", "present", "absent", "alarming", "ok", "error",
     "service is failed", "service reports a non-success result",
     "service is active", "status unavailable; journal evidence collected",
     "status collected; journal unavailable", "partial evidence collected"}

Marker == <<"truncated=", "true", "nl">>

ASSUME DiagnoseAssumption ==
    /\ {kMaxBodyBytes, kMaxDiagnosisBodyBytes, MaxName, MaxDescription} \subseteq Nat
    /\ Len(Marker) <= kMaxBodyBytes /\ Len(Marker) <= kMaxDiagnosisBodyBytes

StatusBody    == INSTANCE EvidenceBody WITH Byte <- Tokens, MaxBody <- kMaxBodyBytes
DiagnosisBody == INSTANCE EvidenceBody WITH Byte <- Tokens, MaxBody <- kMaxDiagnosisBodyBytes

(* What the service manager knows of the unit, and where it may go. *)
Running    == [active_state |-> "active", service_result |-> "success"]
Stopped    == [active_state |-> "inactive", service_result |-> "success"]
Crashed    == [active_state |-> "failed", service_result |-> "exit-code"]
Restarting == [active_state |-> "activating", service_result |-> "exit-code"]

UnitStates == {Running, Stopped, Crashed, Restarting}

UnitSteps ==
    {<<Stopped, Running>>, <<Crashed, Running>>, <<Restarting, Running>>,
     <<Running, Stopped>>, <<Running, Crashed>>, <<Running, Restarting>>,
     <<Restarting, Crashed>>, <<Restarting, Stopped>>}

VARIABLES
    unit,        \* the unit, as the service manager knows it
    pc,          \* where the call is
    name,        \* the name of the unit
    is_service,  \* the name ends with .service
    description, \* the description of the unit
    read,        \* what the status tool has read so far
    status,      \* the response of the status tool
    journal,     \* the response of journal.query
    response,    \* the response of service.diagnose
    seen         \* history: the states the unit had during the call

vars == <<unit, pc, name, is_service, description, read, status, journal, response, seen>>

NotRead  == [active_state |-> "absent", service_result |-> "absent"]
NoAnswer == [status |-> "none", body |-> <<>>]

JournalAnswers ==
    {[status |-> "error", body |-> <<>>]}
      \cup [status : {"ok"}, body : {<<>>, <<"word", "nl">>, <<"alarming", "nl">>}]

Words(n) == [i \in 1 .. n |-> "word"]

Init ==
    /\ unit \in UnitStates
    /\ is_service \in BOOLEAN
    /\ name \in {Words(n) : n \in 1 .. MaxName}
    /\ description \in {Words(n) : n \in 0 .. MaxDescription}
    /\ pc = "call"
    /\ read = NotRead /\ status = NoAnswer /\ journal = NoAnswer /\ response = NoAnswer
    /\ seen = {unit}

-----------------------------------------------------------------------------
Line(key, value) == <<key>> \o value \o <<"nl">>

format_systemd_unit_status_body(r) ==
    LET lines == <<Line("unit=", name), Line("description=", description),
                   Line("active_state=", <<r.active_state>>)>>
                   \o (IF is_service
                       THEN <<Line("service_result=", <<r.service_result>>),
                              Line("exec_main=", <<"word">>)>>
                       ELSE <<>>)
    IN  StatusBody!append_all(lines)

(* parse_key_value_lines: the first line with a key counts. A key without a
   line and one without a value are not told apart by what follows. *)
LineStarts(body) == {i \in 1 .. Len(body) : i = 1 \/ body[i - 1] = "nl"}

LineEnd(body, i) == Min({j \in i .. Len(body) : body[j] = "nl"} \cup {Len(body) + 1})

ValueOf(body, key) ==
    LET at == {i \in LineStarts(body) : body[i] = key}
    IN  IF at = {} THEN <<>> ELSE SubSeq(body, Min(at) + 1, LineEnd(body, Min(at)) - 1)

(* Mutant: the result is looked at before the state. *)
Diagnosis_ResultFirst(body, status_ok, journal_ok) ==
    LET active_state   == ValueOf(body, "active_state=")
        service_result == ValueOf(body, "service_result=")
    IN  CASE service_result \notin {<<>>, <<"success">>} -> "service reports a non-success result"
          [] service_result \in {<<>>, <<"success">>} /\ active_state = <<"failed">> ->
               "service is failed"
          [] service_result \in {<<>>, <<"success">>} /\ active_state = <<"active">> ->
               "service is active"
          [] OTHER -> "partial evidence collected"

(* Mutant: a service without a bad result is taken to be active. *)
Diagnosis_AssumesActive(body, status_ok, journal_ok) ==
    LET active_state   == ValueOf(body, "active_state=")
        service_result == ValueOf(body, "service_result=")
    IN  IF active_state = <<"failed">> THEN "service is failed"
        ELSE IF service_result \notin {<<>>, <<"success">>}
        THEN "service reports a non-success result"
        ELSE IF status_ok THEN "service is active"
        ELSE "partial evidence collected"

Diagnosis(body, status_ok, journal_ok) ==
    LET active_state   == ValueOf(body, "active_state=")
        service_result == ValueOf(body, "service_result=")
    IN  IF active_state = <<"failed">> THEN "service is failed"
        ELSE IF service_result \notin {<<>>, <<"success">>}
        THEN "service reports a non-success result"
        ELSE IF active_state = <<"active">> THEN "service is active"
        ELSE IF ~status_ok /\ journal_ok THEN "status unavailable; journal evidence collected"
        ELSE IF status_ok /\ ~journal_ok THEN "status collected; journal unavailable"
        ELSE "partial evidence collected"

JournalFlag(body) ==
    IF body = <<>> THEN "absent" ELSE IF "alarming" \in Range(body) THEN "alarming" ELSE "present"

DiagnosisText(status_ok, journal_ok) ==
    LET Reported(key) ==
            LET value == ValueOf(status.body, key)
            IN  IF value = <<>> THEN <<>> ELSE <<Line(key, value)>>
        lines == <<Line("unit=", name), Line("tools=", <<status.status, journal.status>>)>>
                   \o Reported("active_state=") \o Reported("service_result=")
                   \o Reported("exec_main=")
                   \o <<Line("journal=", <<JournalFlag(journal.body)>>),
                        Line("diagnosis=", <<Diagnosis(status.body, status_ok, journal_ok)>>)>>
    IN  DiagnosisBody!append_all(lines)

-----------------------------------------------------------------------------
(* A blank unit is refused before anything is asked. *)
Refuse ==
    /\ pc = "call"
    /\ response' = [status |-> "error", body |-> <<>>]
    /\ pc' = "done"
    /\ UNCHANGED <<unit, name, is_service, description, read, status, journal, seen>>

(* systemd.unit.status: connect, get the unit, read its path. *)
GetUnit ==
    /\ pc = "call"
    /\ \/ pc' = "active_state" /\ UNCHANGED status
       \/ pc' = "journal" /\ status' = [status |-> "error", body |-> <<>>]
    /\ seen' = {unit}
    /\ UNCHANGED <<unit, name, is_service, description, read, journal, response>>

(* read_string_property; one that cannot be read is "unavailable". *)
ReadProperty(key, next) ==
    /\ pc = key
    /\ read' \in {[read EXCEPT ![key] = v] : v \in {unit[key], "unavailable"}}
    /\ pc' = next
    /\ UNCHANGED <<unit, name, is_service, description, status, journal, response, seen>>

ReadActiveState == ReadProperty("active_state", IF is_service THEN "service_result" ELSE "format")

ReadServiceResult == ReadProperty("service_result", "format")

ReturnStatus ==
    /\ pc = "format"
    /\ status' = [status |-> "ok", body |-> format_systemd_unit_status_body(read)]
    /\ pc' = "journal"
    /\ UNCHANGED <<unit, name, is_service, description, read, journal, response, seen>>

QueryJournal ==
    /\ pc = "journal"
    /\ journal' \in JournalAnswers
    /\ pc' = "diagnose"
    /\ UNCHANGED <<unit, name, is_service, description, read, status, response, seen>>

Diagnose ==
    /\ pc = "diagnose"
    /\ LET status_ok  == status.status = "ok"
           journal_ok == journal.status = "ok"
       IN  response' = [status |-> IF status_ok \/ journal_ok THEN "ok" ELSE "error",
                        body |-> DiagnosisText(status_ok, journal_ok)]
    /\ pc' = "done"
    /\ UNCHANGED <<unit, name, is_service, description, read, status, journal, seen>>

(* The service manager does not wait for the call. *)
UnitChanges ==
    /\ pc # "done"
    /\ unit' \in {u \in UnitStates : <<unit, u>> \in UnitSteps}
    /\ seen' = seen \cup {unit'}
    /\ UNCHANGED <<pc, name, is_service, description, read, status, journal, response>>

Next ==
    \/ Refuse \/ GetUnit \/ ReadActiveState \/ ReadServiceResult \/ ReturnStatus
    \/ QueryJournal \/ Diagnose \/ UnitChanges

Spec == Init /\ [][Next]_vars

-----------------------------------------------------------------------------
(* What a reader finds behind "diagnosis=". *)
Told == ValueOf(response.body, "diagnosis=")

StatusIsCut == IsSuffix(Marker, status.body)

(* How much of the status text is there ahead of the marker: a line of a state
   or a result has three tokens, and two lines stand ahead of the state. *)
StateAt == Len(name) + Len(description) + 4
AllOfIt == StateAt + 3 + IF is_service THEN 6 ELSE 0
Kept    == IF AllOfIt <= kMaxBodyBytes THEN AllOfIt ELSE kMaxBodyBytes - Len(Marker)

(* What is left of a value whose line begins behind the first p tokens: all of
   it, a part that runs into the marker, or nothing. *)
Left(p, value) == IF p + 3 <= Kept THEN value ELSE IF p < Kept THEN "cut" ELSE "none"

LeftState  == IF status.status = "ok" THEN Left(StateAt, read.active_state) ELSE "none"
LeftResult == IF status.status = "ok" /\ is_service
              THEN Left(StateAt + 3, read.service_result) ELSE "none"

(* What is to be said of a state and a result. *)
Verdict(state, result) ==
    CASE state = "failed" -> "service is failed"
      [] state # "failed" /\ result \notin {"none", "success"} ->
           "service reports a non-success result"
      [] state = "active" /\ result \in {"none", "success"} -> "service is active"
      [] OTHER -> IF status.status = journal.status THEN "partial evidence collected"
                  ELSE IF journal.status = "ok"
                  THEN "status unavailable; journal evidence collected"
                  ELSE "status collected; journal unavailable"

(* However the unit changes between the bus calls and wherever the two texts are
   cut, a diagnosis that is told is the one of the state and the result that
   were read, as far as the cut has left them, and each of those is one the unit
   had during the call or "unavailable", which is what is said of a property
   that could not be read. A result that was cut or could not be read counts as
   a bad one: the code compares with "success" only. *)
DiagnosisWasTrue ==
    Told # <<>> =>
      /\ status.status = "ok" =>
           /\ read.active_state \in {u.active_state : u \in seen} \cup {"unavailable"}
           /\ is_service =>
                read.service_result \in {u.service_result : u \in seen} \cup {"unavailable"}
      /\ Told = <<Verdict(LeftState, LeftResult)>>

(* A unit that does not change during the call, and can be read, is diagnosed
   for what it is, unless a text was cut. *)
SteadyUnitIsDiagnosed ==
    /\ status.status = "ok" /\ ~StatusIsCut /\ Told # <<>>
    /\ "unavailable" \notin {read.active_state, read.service_result}
    => /\ seen = {Crashed} => Told = <<"service is failed">>
       /\ seen = {Running} => Told = <<"service is active">>
=============================================================================
