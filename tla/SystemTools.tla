---------------------------- MODULE SystemTools ----------------------------
(***************************************************************************)
(* A call of one of the tools that look at the live system, while devices  *)
(* come and go and file systems are mounted and unmounted.                 *)
(***************************************************************************)
EXTENDS NetworkSummary, PowerStatus, HardwareSummary, DiskUsage

DirectoryTools == {Network, Power, Hardware}

SInit ==
    \E t \in DirectoryTools \cup {Disk} :
      /\ RInit(t)
      /\ IF t \in DirectoryTools THEN DInit ELSE DIdle
      /\ IF t = Network THEN NInit ELSE NIdle
      /\ IF t = Hardware THEN HInit ELSE HIdle
      /\ IF t = Disk THEN DiskInit ELSE DiskIdle

(* Only the part of the system a call looks at needs to change. *)
SystemChanges ==
    \/ /\ tool \in DirectoryTools /\ DirectoryChanges
       /\ UNCHANGED <<netVars, hwVars, diskVars>>
    \/ /\ tool = Disk /\ TableChanges
       /\ UNCHANGED <<dirVars, netVars, hwVars>>

SNext ==
    \/ NetworkStep /\ UNCHANGED <<hwVars, diskVars>>
    \/ PowerStep /\ UNCHANGED <<netVars, hwVars, diskVars>>
    \/ HardwareStep /\ UNCHANGED <<netVars, diskVars>>
    \/ DiskStep /\ UNCHANGED <<dirVars, netVars, hwVars>>
    \/ (FormatLine \/ FormatDone) /\ UNCHANGED <<dirVars, netVars, hwVars, diskVars>>
    \/ SystemChanges

sVars == <<callVars, vars, changes, dirVars, netVars, hwVars, diskVars>>

SSpec == SInit /\ [][SNext]_sVars

-----------------------------------------------------------------------------
(* A row is of a device that was there during the call, and each of its attributes
   is what the device's file held at some time during the call, or unknown if the
   device was gone then; no device has two rows and the rows are sorted. *)
RowsWereTrue ==
    tool \in DirectoryTools /\ status = "ok" =>
      \A i \in 1 .. Len(rows) :
        LET r == rows[i] IN
        /\ r.name \in IF tool = Hardware THEN ever \cap WithDevice ELSE ever
        /\ {r.first, r.second} \subseteq was[r.name]
        /\ i > 1 => rows[i - 1].name < r.name

(* The devices a report owes a row: the ones that were there throughout the call,
   of the GPUs only if their directory could be read. *)
Owed ==
    IF tool = Hardware THEN IF "drm" \in failed THEN {} ELSE stayed \cap WithDevice
    ELSE stayed

(* A device that is there throughout the call is in the report, with its own
   attributes if they did not change, however other devices come and go: it is left
   out only when the rows are full, of devices that sort before it, and then the
   report says that there are more. *)
StayingIsReported ==
    tool \in DirectoryTools /\ status = "ok" =>
      \A n \in Owed :
        \/ \E i \in 1 .. Len(rows) :
             /\ rows[i].name = n
             /\ n \in steady => rows[i].first = Text(content[n]) /\ rows[i].second = Text(content[n])
        \/ more /\ \A i \in 1 .. Len(rows) : rows[i].name < n

(* Everything the body should say if there were no limit to it. *)
WholeText ==
    LET before == IF tool = Hardware THEN Before(rows) ELSE Caption(rows)
        all    == Lines(before, rows, FALSE)
    IN  FlattenSeq([i \in 1 .. Len(all) |-> all[i].text])

(* The body ends with the mark exactly when rows were left out or cut, and is
   everything it should say when it does not. *)
MarkIsTrue ==
    status = "ok" =>
      IF more \/ Len(WholeText) > MaxBody
      THEN SubSeq(body, Len(body) - Len(Marker) + 1, Len(body)) = Marker
      ELSE body = WholeText
=============================================================================
