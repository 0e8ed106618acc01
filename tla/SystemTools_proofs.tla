------------------------ MODULE SystemTools_proofs ------------------------
(* That the reports of network.summary, power.status, hardware.summary and
   disk.usage are bounded, faithful and true, for every machine, cap and wording,
   and however the system changes while they are made. First the formatter of
   BoundedBody alone, which all of them extend. *)
EXTENDS SystemTools, DataLemmas, FiniteSetTheorems

-----------------------------------------------------------------------------
(* Bounded and faithful are inductive together: a body within its bound is what
   lets the marker find room. *)
IInv == TypeOK /\ BodyIsBounded /\ BodyIsFaithful

(* A call of append_bounded keeps both. *)
LEMMA StepPreserves ==
    ASSUME IInv, NEW text \in Seq(Byte), AppendText(text)
    PROVE  IInv'
  <1> USE BodyAssumption, CallsAssumption DEF IInv, TypeOK, BodyIsBounded
  <1>0. /\ text \in Seq(Byte) /\ Len(text) \in Nat
        /\ body' = append_bounded(body, text) /\ given' = given \o text
        /\ truncated' = (truncated \/ ~Fits(body, text))
    BY DEF AppendText
  <1>1. body' \in Seq(Byte) /\ Len(body') <= MaxBody
    BY <1>0, AppendIsBounded
  <1>2. TypeOK'
    <2>1. given' \in Seq(Byte)
      BY <1>0
    <2>2. truncated' \in BOOLEAN
      BY <1>0
    <2>3. calls' \in 0 .. MaxCalls
      BY DEF AppendText
    <2> QED BY <1>1, <2>1, <2>2, <2>3
  <1>3. BodyIsFaithful'
    <2>1. IsFaithful(body, truncated, given)
      BY DEF IsFaithful, BodyIsFaithful
    <2>2. IsFaithful(body', truncated', given')
      <3>1. IsFaithful(append_bounded(body, text), truncated \/ ~Fits(body, text), given \o text)
        BY <1>0, <2>1, AppendIsFaithful
      <3> QED BY <1>0, <3>1
    <2> QED BY <2>2 DEF IsFaithful, BodyIsFaithful
  <1> QED BY <1>1, <1>2, <1>3

(* An empty body is bounded and faithful. *)
LEMMA InitBounded == Init => IInv
  <1> SUFFICES ASSUME Init PROVE IInv
    OBVIOUS
  <1>1. body = <<>> /\ given = <<>> /\ truncated = FALSE /\ calls = 0
    BY DEF Init
  <1>2. <<>> \in Seq(Byte) /\ Len(<<>>) = 0
    OBVIOUS
  <1>3. TypeOK
    <2>1. calls \in 0 .. MaxCalls
      BY <1>1, CallsAssumption
    <2>2. body \in Seq(Byte) /\ given \in Seq(Byte)
      BY <1>1, <1>2
    <2>3. truncated \in BOOLEAN
      BY <1>1, Zenon
    <2> QED BY <2>1, <2>2, <2>3, Zenon DEF TypeOK
  <1>4. BodyIsBounded
    BY <1>1, <1>2, BodyAssumption DEF BodyIsBounded
  <1>5. BodyIsFaithful
    BY <1>1 DEF BodyIsFaithful
  <1> QED BY <1>3, <1>4, <1>5 DEF IInv

(* The three facts of BoundedBody hold of every run of a formatter. *)
LEMMA AllInvariants == Spec => []IInv
  <1>1. IInv /\ [Next]_vars => IInv'
    <2> SUFFICES ASSUME IInv, [Next]_vars PROVE IInv'
      OBVIOUS
    <2>1. CASE Next
      BY <2>1, StepPreserves, CallsAssumption DEF Next
    <2>2. CASE UNCHANGED vars
      BY <2>2 DEF vars, IInv, TypeOK, BodyIsBounded, BodyIsFaithful
    <2> QED BY <2>1, <2>2
  <1> QED BY <1>1, InitBounded, PTL DEF Spec

(* Every evidence body append_bounded builds stays within kMaxBodyBytes. *)
THEOREM Bounded == Spec => []BodyIsBounded
  <1>1. IInv => BodyIsBounded
    BY DEF IInv
  <1> QED BY <1>1, AllInvariants, PTL

(* A body without the flag is complete; a cut one is the longest beginning that
   leaves room for the marker, and later calls do not disturb it. *)
THEOREM Faithful == Spec => []BodyIsFaithful
  <1>1. IInv => BodyIsFaithful
    BY DEF IInv
  <1> QED BY <1>1, AllInvariants, PTL

-----------------------------------------------------------------------------
(* A line the formatter has to append. *)
Line == [text : Seq(Byte), row : BOOLEAN]

(* The wording of a report: any text will do. *)
Wording ==
    /\ NoneText \in Seq(Byte) /\ ScalarText \in Seq(Byte)
    /\ \A n : CountText(n) \in Seq(Byte)
    /\ \A r : RowText(r) \in Seq(Byte)
    /\ \A c : CpuText(c) \in Seq(Byte)

(* The rows are a sequence of something, and what is left to append is text. *)
LinesInv ==
    /\ todo \in Seq(Line)
    /\ \E S : rows \in Seq(S)

ReportInv == IInv /\ LinesInv

(* A step of a provider leaves the body alone, and adds a row at most. *)
Collects ==
    /\ UNCHANGED <<vars, todo>>
    /\ rows' = rows \/ \E row : rows' = Append(rows, row)

(* Such a step keeps the body as it was, and the rows a sequence. *)
LEMMA CollectsKeeps ==
    ASSUME ReportInv, Collects
    PROVE  ReportInv'
  <1>1. IInv'
    BY DEF Collects, vars, ReportInv, IInv, TypeOK, BodyIsBounded, BodyIsFaithful
  <1>2. PICK S : rows \in Seq(S)
    BY DEF ReportInv, LinesInv
  <1>3. \E T : rows' \in Seq(T)
    <2>1. CASE rows' = rows
      BY <1>2, <2>1
    <2>2. CASE \E row : rows' = Append(rows, row)
      <3>1. PICK row : rows' = Append(rows, row)
        BY <2>2
      <3>2. rows \in Seq(S \cup {row})
        BY <1>2
      <3>3. Append(rows, row) \in Seq(S \cup {row})
        BY <3>2
      <3> QED BY <3>1, <3>3
    <2> QED BY <2>1, <2>2 DEF Collects
  <1>4. todo' \in Seq(Line)
    BY DEF Collects, ReportInv, LinesInv
  <1> QED BY <1>1, <1>3, <1>4 DEF ReportInv, LinesInv

(* The lines of a report are texts. *)
LEMMA LinesTyped ==
    ASSUME Wording, NEW S, NEW rs \in Seq(S), NEW before \in Seq(Line), NEW has_more
    PROVE  Lines(before, rs, has_more) \in Seq(Line)
  <1> DEFINE m == [i \in 1 .. Len(rs) |-> [text |-> RowText(rs[i]), row |-> TRUE]]
             e == IF has_more THEN <<Always(Marker)>> ELSE <<>>
  <1>1. m \in Seq(Line)
    <2>1. Len(rs) \in Nat
      OBVIOUS
    <2>2. \A i \in 1 .. Len(rs) : [text |-> RowText(rs[i]), row |-> TRUE] \in Line
      BY DEF Wording, Line
    <2>3. m \in [1 .. Len(rs) -> Line]
      BY <2>2
    <2> QED BY <2>1, <2>3
  <1>2. e \in Seq(Line)
    <2>1. Always(Marker) \in Line
      BY BodyAssumption DEF Always, Line
    <2> QED BY <2>1
  <1>3. Lines(before, rs, has_more) = before \o m \o e
    BY DEF Lines
  <1> HIDE DEF m, e
  <1> QED BY <1>1, <1>2, <1>3

(* What stands before the rows, in the reports with a caption and in that of
   hardware.summary. *)
LEMMA BeforeTyped ==
    ASSUME Wording, NEW rs
    PROVE  Caption(rs) \in Seq(Line) /\ Before(rs) \in Seq(Line)
  <1>1. /\ Always(CountText(Len(rs))) \in Line /\ Always(NoneText) \in Line
        /\ Always(ScalarText) \in Line /\ Always(CpuText(cpu)) \in Line
    BY DEF Wording, Always, Line
  <1>2. Caption(rs) \in Seq(Line)
    BY <1>1 DEF Caption
  <1>3. Before(rs) \in Seq(Line)
    BY <1>1 DEF Before
  <1> QED BY <1>2, <1>3

(* A provider that returns hands texts to the formatter. *)
LEMMA ReturnKeeps ==
    ASSUME ReportInv, Wording, NEW S, NEW rs \in Seq(S), NEW before \in Seq(Line),
           Return(rs, before)
    PROVE  ReportInv'
  <1>1. IInv'
    BY DEF Return, vars, ReportInv, IInv, TypeOK, BodyIsBounded, BodyIsFaithful
  <1>2. todo' \in Seq(Line) /\ rows' = rs
    BY LinesTyped DEF Return
  <1> QED BY <1>1, <1>2 DEF ReportInv, LinesInv

(* The steps of the providers that do not return. *)
LEMMA LoopCollects ==
    ASSUME NEW t, NEW cap, DirectoryLoop(t, cap)
    PROVE  Collects
  <1>1. CASE OpenDirectory(t) \/ ListEnd(t) \/ ReadFirst(t)
    BY <1>1 DEF OpenDirectory, ListEnd, ReadFirst, Goto, Collects
  <1>2. CASE ListEntry(t)
    BY <1>2 DEF ListEntry, callVars, Collects
  <1>3. CASE ListThrows(t)
    BY <1>3 DEF ListThrows, Failure, Collects
  <1>4. CASE NextName(t) /\ Admit(cap, "first", "next")
    BY <1>4 DEF Admit, Collects
  <1> QED BY <1>1, <1>2, <1>3, <1>4 DEF DirectoryLoop

(* Reading a row adds one. *)
LEMMA RowCollects ==
    ASSUME NEW t, NEW extra, ReadRow(t, extra)
    PROVE  Collects
  BY DEF ReadRow, AddRow, Collects

(* Every step of a call, and of the system under it, keeps the report in order. *)
LEMMA ReportStep ==
    ASSUME ReportInv, Wording, [SNext]_sVars
    PROVE  ReportInv'
  <1>0. PICK S : rows \in Seq(S)
    BY DEF ReportInv, LinesInv
  <1>1. CASE UNCHANGED sVars
    BY <1>1, CollectsKeeps DEF sVars, callVars, Collects
  <1>2. CASE NetworkStep
    <2>1. CASE NetworkReturns
      BY <2>1, <1>0, BeforeTyped, ReturnKeeps DEF NetworkReturns
    <2>2. CASE NetworkUnavailable \/ NetworkExists \/ CollectAddresses \/ CollectRoutes \/ NetworkOpenFails
      <3>1. Collects
        BY <2>2 DEF NetworkUnavailable, NetworkExists, CollectAddresses, CollectRoutes,
                    NetworkOpenFails, Failure, Goto, Collects
      <3> QED BY <3>1, CollectsKeeps
    <2>3. CASE DirectoryLoop(Network, kMaxNetworkRows)
      BY <2>3, LoopCollects, CollectsKeeps
    <2>4. CASE NetworkRow
      BY <2>4, RowCollects, CollectsKeeps DEF NetworkRow
    <2> QED BY <1>2, <2>1, <2>2, <2>3, <2>4 DEF NetworkStep
  <1>3. CASE PowerStep
    <2>1. CASE PowerReturns
      BY <2>1, <1>0, BeforeTyped, ReturnKeeps DEF PowerReturns
    <2>2. CASE PowerUnavailable \/ PowerExists \/ PowerOpenFails
      <3>1. Collects
        BY <2>2 DEF PowerUnavailable, PowerExists, PowerOpenFails, Failure, Goto, Collects
      <3> QED BY <3>1, CollectsKeeps
    <2>3. CASE DirectoryLoop(Power, kMaxPowerRows)
      BY <2>3, LoopCollects, CollectsKeeps
    <2>4. CASE ReadRow(Power, <<>>)
      BY <2>4, RowCollects, CollectsKeeps
    <2> QED BY <1>3, <2>1, <2>2, <2>3, <2>4 DEF PowerStep
  <1>4. CASE HardwareStep
    <2>1. CASE HardwareReturns
      BY <2>1, <1>0, BeforeTyped, ReturnKeeps DEF HardwareReturns
    <2>2. CASE NoGpus
      <3>1. <<>> \in Seq({})
        OBVIOUS
      <3> QED BY <2>2, <3>1, BeforeTyped, ReturnKeeps DEF NoGpus
    <2>3. CASE HardwareUnavailable \/ ReadScalars \/ DrmExists \/ ExistsThrows
      <3>1. Collects
        BY <2>3 DEF HardwareUnavailable, ReadScalars, DrmExists, ExistsThrows, Failure, Goto, Collects
      <3> QED BY <3>1, CollectsKeeps
    <2>4. CASE DirectoryStep \/ ReadFirst(Hardware)
      <3>1. Collects
        BY <2>4 DEF DirectoryStep, OpenDirectory, ListEnd, ListThrows, ReadFirst, Failure, Goto, Collects
      <3> QED BY <3>1, CollectsKeeps
    <2>5. CASE ListDrmEntry \/ NextCard \/ DeviceExists
      <3>1. Collects
        BY <2>5 DEF ListDrmEntry, NextCard, DeviceExists, callVars, Goto, Admit, Collects
      <3> QED BY <3>1, CollectsKeeps
    <2>6. CASE ReadRow(Hardware, <<>>)
      BY <2>6, RowCollects, CollectsKeeps
    <2> QED BY <1>4, <2>1, <2>2, <2>3, <2>4, <2>5, <2>6 DEF HardwareStep
  <1>5. CASE DiskStep
    <2>1. CASE DiskReturns
      <3>1. PICK rs \in Orders(rows) : Return(rs, Caption(rs))
        BY <2>1 DEF DiskReturns
      <3>2. rs \in Seq(S)
        <4>1. Len(rows) \in Nat /\ rows \in [1 .. Len(rows) -> S]
          BY <1>0
        <4>2. PICK p \in Bijection(1 .. Len(rows), 1 .. Len(rows)) :
                rs = [i \in 1 .. Len(rows) |-> rows[p[i]]]
          BY DEF Orders
        <4>3. p \in [1 .. Len(rows) -> 1 .. Len(rows)]
          BY <4>2 DEF Bijection, Injection, Surjection
        <4>4. rs \in [1 .. Len(rows) -> S]
          BY <4>1, <4>2, <4>3
        <4> QED BY <4>1, <4>4
      <3> QED BY <3>1, <3>2, BeforeTyped, ReturnKeeps
    <2>2. CASE MountinfoUnavailable \/ MountinfoOpened \/ ReadLines \/ TakeLine \/ SpaceFails
      <3>1. Collects
        BY <2>2 DEF MountinfoUnavailable, MountinfoOpened, ReadLines, TakeLine, SpaceFails,
                    callVars, Failure, Goto, Collects
      <3> QED BY <3>1, CollectsKeeps
    <2>3. CASE MeasureSpace
      <3>1. Collects
        BY <2>3 DEF MeasureSpace, AddRow, Admit, Collects
      <3> QED BY <3>1, CollectsKeeps
    <2> QED BY <1>5, <2>1, <2>2, <2>3 DEF DiskStep
  <1>6. CASE FormatLine
    <2>1. todo \in Seq(Line) /\ todo # <<>>
      BY <1>6 DEF FormatLine, ReportInv, LinesInv
    <2>2. Head(todo) \in Line /\ Tail(todo) \in Seq(Line)
      BY <2>1
    <2>3. Head(todo).text \in Seq(Byte)
      BY <2>2 DEF Line
    <2>4. IInv'
      BY <1>6, <2>3, StepPreserves DEF FormatLine, ReportInv
    <2>5. todo' \in Seq(Line)
      <3>1. todo' = <<>> \/ todo' = Tail(todo)
        BY <1>6 DEF FormatLine
      <3>2. <<>> \in Seq(Line)
        OBVIOUS
      <3>3. CASE todo' = <<>>
        BY <3>2, <3>3
      <3>4. CASE todo' = Tail(todo)
        BY <3>4, <2>2, Zenon
      <3> QED BY <3>1, <3>3, <3>4
    <2>6. rows' = rows
      BY <1>6 DEF FormatLine
    <2> QED BY <1>0, <2>4, <2>5, <2>6 DEF ReportInv, LinesInv
  <1>7. CASE FormatDone
    <2>1. Collects
      BY <1>7 DEF FormatDone, Collects
    <2> QED BY <2>1, CollectsKeeps
  <1>8. CASE SystemChanges
    <2>1. Collects
      BY <1>8 DEF SystemChanges, DirectoryChanges, TableChanges, Changing, callVars, Collects
    <2> QED BY <2>1, CollectsKeeps
  <1> QED BY <1>1, <1>2, <1>3, <1>4, <1>5, <1>6, <1>7, <1>8 DEF SNext

-----------------------------------------------------------------------------
(* A call starts with an empty body and nothing to append to it. *)
LEMMA ReportInit == SInit => ReportInv
  <1> SUFFICES ASSUME SInit PROVE ReportInv
    OBVIOUS
  <1>1. Init /\ rows = <<>> /\ todo = <<>>
    BY DEF SInit, RInit
  <1>2. IInv
    BY <1>1, InitBounded
  <1>3. rows \in Seq({}) /\ todo \in Seq(Line)
    BY <1>1
  <1> QED BY <1>2, <1>3 DEF ReportInv, LinesInv

(* No report of the four tools exceeds its bound, whatever rows they find and
   whatever their lines say. *)
THEOREM ReportsAreBounded ==
    ASSUME Wording
    PROVE  SSpec => []BodyIsBounded
  <1>1. ReportInv /\ [SNext]_sVars => ReportInv'
    BY ReportStep
  <1>2. ReportInv => BodyIsBounded
    BY DEF ReportInv, IInv
  <1> QED BY <1>1, <1>2, ReportInit, PTL DEF SSpec

(* A report is all its lines, or the longest beginning of them that leaves room for
   the marker, with the marker. *)
THEOREM ReportsAreFaithful ==
    ASSUME Wording
    PROVE  SSpec => []BodyIsFaithful
  <1>1. ReportInv /\ [SNext]_sVars => ReportInv'
    BY ReportStep
  <1>2. ReportInv => BodyIsFaithful
    BY DEF ReportInv, IInv
  <1> QED BY <1>1, <1>2, ReportInit, PTL DEF SSpec

-----------------------------------------------------------------------------
(* The places of a call before its directory is listed, the others it can be in,
   and the ones where a name is being worked on. *)
Early == {"start", "addresses", "routes", "drm", "open"}

Picked == {"device", "first", "second"}

Labels == Early \cup Picked \cup {"list", "next", "format", "done"}

(* The rows a tool keeps, and the devices it has rows for. *)
Cap ==
    IF tool = Network THEN kMaxNetworkRows
    ELSE IF tool = Power THEN kMaxPowerRows ELSE kMaxGpuRows

Reportable == IF tool = Hardware THEN WithDevice ELSE Names

(* The histories are about the devices: what can be read now has been noted, and
   of a device that kept its attributes there is nothing else to read. *)
DeviceInv ==
    /\ steady \subseteq stayed /\ stayed \subseteq present
    /\ present \subseteq ever /\ ever \subseteq Names
    /\ content \in [Names -> Contents]
    /\ was \in [Names -> SUBSET (Contents \cup {Unknown})]
    /\ \A n \in Names : read_text_file(n) \in was[n]
    /\ \A n \in steady : was[n] = {Text(content[n])}

(* There are no rows before the names are listed, and more only when there is no
   room: while a row is read there is. *)
PlaceInv ==
    /\ pc \in Labels /\ (status = "ok" => pc = "done")
    /\ pc \in Early \cup {"list"} => rows = <<>> /\ ~more
    /\ pc = "device" => tool = Hardware
    /\ more => Len(rows) >= Cap
    /\ pc \in {"first", "second"} => Len(rows) < Cap

(* The names in the loop are of devices that were there. *)
ListInv ==
    /\ due \subseteq present /\ listed \subseteq ever
    /\ pc \in Picked => reading \in ever
    /\ pc \in {"first", "second"} => reading \in Reportable
    /\ pc = "second" => first \in was[reading]

(* The rows are true while they are collected, not only when they are returned. *)
RowInv ==
    \A i \in 1 .. Len(rows) :
        /\ rows[i].name \in ever \cap Reportable
        /\ {rows[i].first, rows[i].second} \subseteq was[rows[i].name]
        /\ i > 1 => rows[i - 1].name < rows[i].name

(* What is still to come sorts after what has been. *)
SortInv ==
    /\ pc \in Picked \cup {"next"} => \A n \in listed, i \in 1 .. Len(rows) : rows[i].name < n
    /\ pc \in Picked => /\ \A n \in listed : reading < n
                        /\ \A i \in 1 .. Len(rows) : rows[i].name < reading

(* A device that stays is still to be come to, to be read, or reported. *)
Reported(n) ==
    \/ \E i \in 1 .. Len(rows) : rows[i].name = n
    \/ more /\ \A i \in 1 .. Len(rows) : rows[i].name < n

StayInv ==
    \A n \in stayed \cap Reportable :
        /\ pc = "list" => n \in due \cup listed
        /\ pc \in Picked \cup {"next"} =>
             n \in listed \/ (pc \in Picked /\ n = reading) \/ Reported(n)
        /\ pc = "format" \/ status = "ok" => Reported(n) \/ (tool = Hardware /\ "drm" \in failed)

CallInv == DeviceInv /\ PlaceInv /\ ListInv /\ RowInv /\ SortInv /\ StayInv

DirInv == tool \in DirectoryTools => CallInv

(* What a step of a call leaves alone. *)
SameRows == UNCHANGED <<tool, rows, more>>

(* The devices are as they were. *)
LEMMA DevicesKept ==
    ASSUME DeviceInv, UNCHANGED deviceVars
    PROVE  DeviceInv'
  BY DEF DeviceInv, deviceVars, read_text_file, Text

(* Rows that stay as they are stay true. *)
LEMMA RowsKept ==
    ASSUME RowInv, UNCHANGED <<deviceVars, tool, rows>>
    PROVE  RowInv'
  BY DEF RowInv, deviceVars, Reportable

(* The steps before the directory is opened, and the ones that give up. *)
LEMMA EarlyKeeps ==
    ASSUME CallInv, pc \in Early, pc' \in Early, status' = status, UNCHANGED dirVars, SameRows
    PROVE  CallInv'
  <1>1. DeviceInv' /\ RowInv'
    BY DevicesKept, RowsKept DEF CallInv, dirVars, SameRows
  <1>2. PlaceInv' /\ ListInv' /\ SortInv'
    BY DEF CallInv, PlaceInv, ListInv, SortInv, Early, Picked, Labels, SameRows, dirVars, loopVars,
           deviceVars, Cap, Reportable
  <1>3. StayInv'
    BY DEF CallInv, PlaceInv, StayInv, Early, Picked
  <1> QED BY <1>1, <1>2, <1>3 DEF CallInv

(* A call that gives up promises nothing of its rows. *)
LEMMA FailureKeeps ==
    ASSUME CallInv, pc' = "done", status' = "error", UNCHANGED dirVars, SameRows
    PROVE  CallInv'
  <1>1. DeviceInv' /\ RowInv'
    BY DevicesKept, RowsKept DEF CallInv, dirVars, SameRows
  <1>2. PlaceInv' /\ ListInv' /\ SortInv'
    BY DEF CallInv, PlaceInv, ListInv, SortInv, Early, Picked, Labels, SameRows, dirVars, loopVars,
           deviceVars, Cap, Reportable
  <1>3. StayInv'
    BY DEF StayInv, Picked
  <1> QED BY <1>1, <1>2, <1>3 DEF CallInv

(* The listing: every device that stays is come to before it ends. *)
LEMMA OpenKeeps ==
    ASSUME CallInv, NEW t, OpenDirectory(t)
    PROVE  CallInv'
  <1>0. pc = "open" /\ pc' = "list" /\ status' = status /\ SameRows /\ due' = present
        /\ UNCHANGED <<listed, reading, first, deviceVars>>
    BY DEF OpenDirectory, At, Goto, SameRows
  <1>1. DeviceInv' /\ RowInv'
    BY <1>0, DevicesKept, RowsKept DEF CallInv, SameRows
  <1>2. PlaceInv' /\ ListInv' /\ SortInv'
    BY <1>0 DEF CallInv, PlaceInv, ListInv, SortInv, Early, Picked, Labels, SameRows,
           deviceVars, Cap, Reportable
  <1>3. StayInv'
    BY <1>0 DEF CallInv, DeviceInv, PlaceInv, StayInv, Picked, deviceVars
  <1> QED BY <1>1, <1>2, <1>3 DEF CallInv

(* An entry that is come to is listed, and due no more. *)
LEMMA EntryKeeps ==
    ASSUME CallInv, pc = "list", UNCHANGED <<callVars, reading, first, deviceVars>>,
           NEW n \in present, due' = due \ {n},
           listed' = listed \cup {n} \/ (listed' = listed /\ n \notin Reportable)
    PROVE  CallInv'
  <1>0. pc' = pc /\ status' = status /\ SameRows
    BY DEF callVars, SameRows
  <1>1. DeviceInv' /\ RowInv'
    BY <1>0, DevicesKept, RowsKept DEF CallInv, SameRows
  <1>2. PlaceInv' /\ ListInv' /\ SortInv'
    BY <1>0 DEF CallInv, DeviceInv, PlaceInv, ListInv, SortInv, Early, Picked, Labels, SameRows,
           deviceVars, Cap, Reportable
  <1>3. StayInv'
    BY <1>0 DEF CallInv, PlaceInv, StayInv, Picked, deviceVars, Reportable, SameRows
  <1> QED BY <1>1, <1>2, <1>3 DEF CallInv

(* When the listing ends nothing is due: what stays is listed. *)
LEMMA EndKeeps ==
    ASSUME CallInv, NEW t, ListEnd(t)
    PROVE  CallInv'
  <1>0. pc = "list" /\ pc' = "next" /\ status' = status /\ SameRows /\ due = {} /\ UNCHANGED dirVars
    BY DEF ListEnd, At, Goto, SameRows
  <1>1. DeviceInv' /\ RowInv'
    BY <1>0, DevicesKept, RowsKept DEF CallInv, SameRows, dirVars
  <1>2. PlaceInv' /\ ListInv' /\ SortInv'
    BY <1>0 DEF CallInv, PlaceInv, ListInv, SortInv, Early, Picked, Labels, SameRows,
           dirVars, loopVars, deviceVars, Cap, Reportable
  <1>3. StayInv'
    BY <1>0 DEF CallInv, PlaceInv, StayInv, Picked, dirVars, loopVars, deviceVars, Reportable, SameRows
  <1> QED BY <1>1, <1>2, <1>3 DEF CallInv

(* The next name: the least of the listed ones, which sorts after all the rows. *)
LEMMA NextIsNext ==
    ASSUME CallInv, NEW t, NextName(t)
    PROVE  /\ pc = "next" /\ UNCHANGED <<due, first, deviceVars>>
           /\ reading' \in listed /\ reading' \in ever /\ listed' = listed \ {reading'}
           /\ \A n \in listed' : reading' < n
           /\ \A i \in 1 .. Len(rows) : rows[i].name < reading'
  <1>1. PICK n \in listed : IsNext(n) /\ listed' = listed \ {n} /\ reading' = n
    BY DEF NextName
  <1>2. listed \subseteq Nat
    BY DirectoryAssumption DEF CallInv, ListInv, DeviceInv
  <1>3. \A m \in listed' : n < m
    BY <1>1, <1>2 DEF IsNext
  <1> QED BY <1>1, <1>3 DEF NextName, At, CallInv, SortInv, ListInv

(* With no room for its row the report is marked, and the device sorts after all
   the rows there are. *)
LEMMA AdmitKeeps ==
    ASSUME CallInv, NEW t, NextName(t), Admit(Cap, "first", "next"), tool # Hardware,
           Cap \in Nat, Len(rows) \in Nat
    PROVE  CallInv'
  <1>0. /\ pc = "next" /\ pc' = (IF Len(rows) < Cap THEN "first" ELSE "next")
        /\ status' = status /\ tool' = tool /\ rows' = rows
        /\ more' = (more \/ Len(rows) >= Cap)
    BY NextIsNext DEF Admit
  <1>1. DeviceInv' /\ RowInv'
    BY <1>0, NextIsNext, DevicesKept, RowsKept DEF CallInv
  <1>p. PlaceInv'
    BY <1>0 DEF CallInv, PlaceInv, Early, Labels, Picked, Cap
  <1>l. ListInv'
    BY <1>0, NextIsNext DEF CallInv, ListInv, DeviceInv, Reportable, deviceVars, Picked
  <1>s. SortInv'
    BY <1>0, NextIsNext DEF CallInv, SortInv, Picked
  <1>3. StayInv'
    <2> SUFFICES ASSUME NEW n \in stayed \cap Reportable
                 PROVE  n \in listed' \/ (pc' \in Picked /\ n = reading') \/ Reported(n)'
      BY <1>0, NextIsNext DEF StayInv, deviceVars, Reportable, CallInv, PlaceInv, Picked
    <2>1. n \in listed \/ Reported(n)
      BY <1>0 DEF CallInv, StayInv, Picked
    <2>2. CASE n = reading'
      <3>1. CASE Len(rows) < Cap
        BY <1>0, <2>2, <3>1 DEF Picked
      <3>2. CASE ~(Len(rows) < Cap)
        <4>1. Len(rows) >= Cap
          BY <3>2
        <4>2. more'
          BY <1>0, <4>1, Zenon
        <4> QED BY <1>0, <2>2, <4>2, NextIsNext DEF Reported
      <3> QED BY <3>1, <3>2
    <2>3. CASE n # reading' /\ n \in listed
      BY <2>3, NextIsNext
    <2>4. CASE Reported(n)
      BY <1>0, <2>4 DEF Reported
    <2> QED BY <2>1, <2>2, <2>3, <2>4
  <1> QED BY <1>1, <1>p, <1>l, <1>s, <1>3 DEF CallInv

(* A card is looked at before it is known to be a device. *)
LEMMA CardKeeps ==
    ASSUME CallInv, NextCard
    PROVE  CallInv'
  <1>0. /\ pc = "next" /\ pc' = "device" /\ tool = Hardware
        /\ status' = status /\ SameRows /\ NextName(Hardware)
    BY DEF NextCard, NextName, At, Goto, SameRows
  <1>1. DeviceInv' /\ RowInv'
    BY <1>0, NextIsNext, DevicesKept, RowsKept DEF CallInv, SameRows
  <1>p. PlaceInv'
    BY <1>0 DEF CallInv, PlaceInv, Early, Labels, Picked, Cap, SameRows
  <1>l. ListInv'
    BY <1>0, NextIsNext DEF CallInv, ListInv, Reportable, deviceVars, Picked
  <1>s. SortInv'
    BY <1>0, NextIsNext DEF CallInv, SortInv, Picked, SameRows
  <1>3. StayInv'
    <2> SUFFICES ASSUME NEW n \in stayed \cap Reportable
                 PROVE  n \in listed' \/ n = reading' \/ Reported(n)'
      BY <1>0, NextIsNext DEF StayInv, deviceVars, Reportable, CallInv, PlaceInv, Picked, SameRows
    <2>1. n \in listed \/ Reported(n)
      BY <1>0 DEF CallInv, StayInv, Picked
    <2>2. CASE n \in listed
      BY <1>0, <2>2, NextIsNext
    <2>3. CASE Reported(n)
      BY <1>0, <2>3 DEF Reported, SameRows
    <2> QED BY <2>1, <2>2, <2>3
  <1> QED BY <1>1, <1>p, <1>l, <1>s, <1>3 DEF CallInv

(* A card without a device is passed over: it was not there, or is not one of
   those a report owes a row. *)
LEMMA DeviceKeeps ==
    ASSUME CallInv, DeviceExists, Len(rows) \in Nat
    PROVE  CallInv'
  <1>0. /\ pc = "device" /\ tool = Hardware /\ UNCHANGED dirVars
        /\ status' = status /\ tool' = tool /\ rows' = rows
        /\ \/ /\ reading \in WithDevice /\ Len(rows) < kMaxGpuRows
              /\ pc' = "first" /\ ~more'
           \/ /\ Len(rows) >= kMaxGpuRows /\ pc' = "next" /\ more'
           \/ /\ reading \notin present \cap WithDevice /\ pc' = "next" /\ more' = more
    <2>0. pc = "device" /\ tool = Hardware /\ UNCHANGED dirVars
      BY DEF DeviceExists, At
    <2>k. kMaxGpuRows \in Nat
      BY HardwareAssumption, Zenon
    <2>c. Cap = kMaxGpuRows
      BY <2>0 DEF Cap, Hardware, Network, Power
    <2>1. CASE reading \in present \cap WithDevice
      <3>1. Admit(kMaxGpuRows, "first", "next")
        BY <2>1 DEF DeviceExists
      <3>2. CASE Len(rows) < kMaxGpuRows
        <4>1. ~(Len(rows) >= kMaxGpuRows)
          BY <2>k, <3>2
        <4>2. ~more
          BY <4>1, <2>c DEF CallInv, PlaceInv
        <4>3. ~more'
          BY <3>1, <4>1, <4>2, Zenon DEF Admit
        <4> QED BY <2>0, <2>1, <3>1, <3>2, <4>3 DEF Admit
      <3>3. CASE ~(Len(rows) < kMaxGpuRows)
        <4>1. Len(rows) >= kMaxGpuRows
          BY <2>k, <3>3
        <4>2. more'
          BY <3>1, <4>1, Zenon DEF Admit
        <4> QED BY <2>0, <3>1, <3>3, <4>1, <4>2 DEF Admit
      <3> QED BY <3>2, <3>3
    <2>2. CASE reading \notin present \cap WithDevice
      BY <2>2 DEF DeviceExists, At, Goto
    <2> QED BY <2>1, <2>2
  <1>1. DeviceInv' /\ RowInv'
    BY <1>0, DevicesKept, RowsKept DEF CallInv, dirVars
  <1>c. Cap = kMaxGpuRows /\ Cap' = kMaxGpuRows
    BY <1>0 DEF Cap, Hardware, Network, Power
  <1>p. PlaceInv'
    BY <1>0, <1>c DEF CallInv, PlaceInv, Early, Labels, Picked
  <1>l. ListInv'
    BY <1>0 DEF CallInv, ListInv, Reportable, dirVars, loopVars, deviceVars, Picked
  <1>s. SortInv'
    BY <1>0 DEF CallInv, SortInv, Picked, dirVars, loopVars
  <1>3. StayInv'
    <2> SUFFICES ASSUME NEW n \in stayed \cap WithDevice
                 PROVE  n \in listed \/ (pc' \in Picked /\ n = reading) \/ Reported(n)'
      BY <1>0 DEF StayInv, dirVars, loopVars, deviceVars, Reportable, CallInv, PlaceInv, Picked
    <2>1. n \in listed \/ n = reading \/ Reported(n)
      BY <1>0 DEF CallInv, StayInv, Picked, Reportable
    <2>2. n \in present
      BY DEF CallInv, DeviceInv
    <2>3. CASE n = reading
      <3>1. \A i \in 1 .. Len(rows) : rows[i].name < reading
        BY <1>0 DEF Picked, CallInv, SortInv
      <3>2. pc' = "first" \/ more'
        BY <1>0, <2>2, <2>3, Zenon
      <3> QED BY <1>0, <2>3, <3>1, <3>2 DEF Picked, Reported
    <2>4. CASE Reported(n)
      <3>1. rows' = rows /\ (more => more')
        <4>1. more => ~(Len(rows) < kMaxGpuRows)
          <5>1. kMaxGpuRows \in Nat
            BY HardwareAssumption, Zenon
          <5> QED BY <1>c, <5>1 DEF CallInv, PlaceInv
        <4> QED BY <1>0, <4>1
      <3> QED BY <2>4, <3>1 DEF Reported
    <2> QED BY <2>1, <2>3, <2>4
  <1> QED BY <1>1, <1>p, <1>l, <1>s, <1>3 DEF CallInv

(* An attribute is what the device's file holds now. *)
LEMMA FirstKeeps ==
    ASSUME CallInv, NEW t, ReadFirst(t)
    PROVE  CallInv'
  <1>0. /\ pc = "first" /\ pc' = "second" /\ status' = status /\ SameRows
        /\ first' = read_text_file(reading) /\ UNCHANGED <<due, listed, reading, deviceVars>>
    BY DEF ReadFirst, At, Goto, SameRows
  <1>1. DeviceInv' /\ RowInv'
    BY <1>0, DevicesKept, RowsKept DEF CallInv, SameRows
  <1>p. PlaceInv'
    BY <1>0 DEF CallInv, PlaceInv, Early, Labels, Picked, Cap, SameRows
  <1>l. ListInv'
    BY <1>0 DEF CallInv, ListInv, DeviceInv, Reportable, deviceVars, Picked, SameRows
  <1>s. SortInv'
    BY <1>0 DEF CallInv, SortInv, Picked, SameRows
  <1>3. StayInv'
    <2> SUFFICES ASSUME NEW n \in stayed \cap Reportable
                 PROVE  n \in listed \/ n = reading \/ Reported(n)'
      BY <1>0 DEF StayInv, deviceVars, Reportable, CallInv, PlaceInv, Picked, SameRows
    <2>1. n \in listed \/ n = reading \/ Reported(n)
      BY <1>0 DEF CallInv, StayInv, Picked
    <2> QED BY <1>0, <2>1 DEF Reported, SameRows
  <1> QED BY <1>1, <1>p, <1>l, <1>s, <1>3 DEF CallInv

(* A row goes to the end. *)
LEMMA AppendRow ==
    ASSUME NEW S, NEW rs \in Seq(S), NEW x
    PROVE  /\ Len(rs) \in Nat /\ Len(Append(rs, x)) = Len(rs) + 1
           /\ \A i \in 1 .. Len(rs) : Append(rs, x)[i] = rs[i]
           /\ Append(rs, x)[Len(rs) + 1] = x
  <1>1. rs \in Seq(S \cup {x})
    OBVIOUS
  <1> QED BY <1>1

(* The second attribute completes the row of a device that sorts last. *)
LEMMA RowKeeps ==
    ASSUME CallInv, NEW t, NEW extra, ReadRow(t, extra), NEW S, rows \in Seq(S), Cap \in Nat
    PROVE  CallInv'
  <1>0. /\ pc = "second" /\ pc' = "next" /\ status' = status /\ tool' = tool /\ more' = more
        /\ rows' = Append(rows, Row(extra)) /\ UNCHANGED dirVars
    BY DEF ReadRow, At, AddRow
  <1> DEFINE L == Len(rows)
             row == Row(extra)
  <1>r. row.name = reading /\ row.first = first /\ row.second = read_text_file(reading)
    BY DEF Row
  <1> HIDE DEF row
  <1>a. /\ L \in Nat /\ Len(rows') = L + 1
        /\ \A i \in 1 .. L : rows'[i] = rows[i]
        /\ rows'[L + 1] = row
    BY <1>0, AppendRow DEF row
  <1>d. DeviceInv'
    BY <1>0, DevicesKept DEF CallInv, dirVars
  <1>m. /\ reading \in ever \cap Reportable /\ first \in was[reading]
        /\ read_text_file(reading) \in was[reading]
        /\ \A i \in 1 .. L : rows[i].name < reading
        /\ \A n \in listed : reading < n
    BY <1>0 DEF CallInv, ListInv, SortInv, DeviceInv, Picked
  <1> HIDE DEF L
  <1>1. RowInv'
    <2> SUFFICES ASSUME NEW i \in 1 .. L + 1
                 PROVE  /\ rows'[i].name \in ever \cap Reportable
                        /\ {rows'[i].first, rows'[i].second} \subseteq was[rows'[i].name]
                        /\ i > 1 => rows'[i - 1].name < rows'[i].name
      BY <1>0, <1>a DEF RowInv, dirVars, deviceVars, Reportable
    <2>1. CASE i \in 1 .. L
      <3>1. rows'[i] = rows[i] /\ (i > 1 => i - 1 \in 1 .. L /\ rows'[i - 1] = rows[i - 1])
        BY <1>a, <2>1
      <3> QED BY <2>1, <3>1 DEF CallInv, RowInv, L
    <2>2. CASE i = L + 1
      <3>1. rows'[i] = row /\ (i > 1 => i - 1 \in 1 .. L /\ rows'[i - 1] = rows[i - 1])
        BY <1>a, <2>2
      <3> QED BY <1>m, <1>r, <3>1
    <2> QED BY <1>a, <2>1, <2>2
  <1>p. PlaceInv'
    <2>1. ~more
      BY <1>0, <1>a DEF CallInv, PlaceInv, L
    <2> QED BY <1>0, <2>1 DEF CallInv, PlaceInv, Early, Labels, Picked
  <1>l. ListInv'
    BY <1>0 DEF CallInv, ListInv, dirVars, loopVars, deviceVars, Picked
  <1>s. SortInv'
    <2> SUFFICES ASSUME NEW n \in listed, NEW i \in 1 .. L + 1
                 PROVE  rows'[i].name < n
      BY <1>0, <1>a DEF SortInv, Picked, dirVars, loopVars
    <2>1. CASE i \in 1 .. L
      BY <1>0, <1>a, <2>1 DEF CallInv, SortInv, Picked, L
    <2>2. CASE i = L + 1
      BY <1>a, <1>m, <1>r, <2>2
    <2> QED BY <1>a, <2>1, <2>2
  <1>3. StayInv'
    <2> SUFFICES ASSUME NEW n \in stayed \cap Reportable
                 PROVE  n \in listed \/ \E i \in 1 .. L + 1 : rows'[i].name = n
      BY <1>0, <1>a DEF StayInv, dirVars, loopVars, deviceVars, Reportable, CallInv, PlaceInv, Picked,
           Reported
    <2>1. ~more
      BY <1>0, <1>a DEF CallInv, PlaceInv, L
    <2>2. n \in listed \/ n = reading \/ \E i \in 1 .. L : rows[i].name = n
      BY <1>0, <2>1 DEF CallInv, StayInv, Picked, Reported, L
    <2>3. CASE n = reading
      <3>1. L + 1 \in 1 .. L + 1
        BY <1>a
      <3> QED BY <1>a, <1>r, <2>3, <3>1
    <2>4. CASE \E i \in 1 .. L : rows[i].name = n
      <3>1. PICK i \in 1 .. L : rows[i].name = n
        BY <2>4
      <3>2. i \in 1 .. L + 1 /\ rows'[i].name = n
        BY <1>a, <3>1
      <3> QED BY <3>2
    <2> QED BY <2>2, <2>3, <2>4
  <1> QED BY <1>d, <1>1, <1>p, <1>l, <1>s, <1>3 DEF CallInv

(* The rows that are returned are the ones collected, all names done with. *)
LEMMA ReturnsKeep ==
    ASSUME CallInv, NEW t, NoMoreNames(t), NEW before, Return(rows, before), UNCHANGED dirVars
    PROVE  CallInv'
  <1>0. /\ pc = "next" /\ pc' = "format" /\ status' = status /\ SameRows /\ listed = {}
    BY DEF NoMoreNames, At, Return, SameRows
  <1>1. DeviceInv' /\ RowInv'
    BY <1>0, DevicesKept, RowsKept DEF CallInv, SameRows, dirVars
  <1>2. PlaceInv' /\ ListInv' /\ SortInv'
    BY <1>0 DEF CallInv, PlaceInv, ListInv, SortInv, Early, Picked, Labels, SameRows,
           dirVars, loopVars, deviceVars, Cap, Reportable
  <1>3. StayInv'
    <2> SUFFICES ASSUME NEW n \in stayed \cap Reportable PROVE Reported(n)'
      BY <1>0 DEF StayInv, Picked, dirVars, deviceVars, Reportable, SameRows
    <2>1. Reported(n)
      BY <1>0 DEF CallInv, StayInv, Picked
    <2> QED BY <1>0, <2>1 DEF Reported, SameRows
  <1> QED BY <1>1, <1>2, <1>3 DEF CallInv

(* Without their directory no GPU is owed a row. *)
LEMMA NoGpusKeep ==
    ASSUME CallInv, NoGpus
    PROVE  CallInv'
  <1>0. /\ pc \in Early /\ pc' = "format" /\ status' = status /\ rows' = <<>> /\ rows = <<>>
        /\ UNCHANGED <<tool, more, dirVars>> /\ tool = Hardware /\ "drm" \in failed'
    BY DEF NoGpus, Return, Early, CallInv, PlaceInv
  <1>1. DeviceInv' /\ RowInv'
    BY <1>0, DevicesKept, RowsKept DEF CallInv, dirVars
  <1>2. PlaceInv' /\ ListInv' /\ SortInv'
    BY <1>0 DEF CallInv, PlaceInv, ListInv, SortInv, Early, Picked, Labels,
           dirVars, loopVars, deviceVars, Cap, Reportable
  <1>3. StayInv'
    BY <1>0 DEF StayInv, Picked
  <1> QED BY <1>1, <1>2, <1>3 DEF CallInv

(* The formatter works on what it was given, while nothing changes. *)
LEMMA FormatKeeps ==
    ASSUME CallInv, pc = "format", UNCHANGED <<dirVars, failed>>, SameRows,
           \/ pc' = "format" /\ status' = status
           \/ pc' = "done" /\ status' = "ok"
    PROVE  CallInv'
  <1>1. DeviceInv' /\ RowInv'
    BY DevicesKept, RowsKept DEF CallInv, SameRows, dirVars
  <1>2. PlaceInv' /\ ListInv' /\ SortInv'
    BY DEF CallInv, PlaceInv, ListInv, SortInv, Early, Picked, Labels, SameRows,
           dirVars, loopVars, deviceVars, Cap, Reportable
  <1>3. StayInv'
    <2> SUFFICES ASSUME NEW n \in stayed \cap Reportable
                 PROVE  Reported(n)' \/ (tool = Hardware /\ "drm" \in failed)
      BY DEF StayInv, Picked, dirVars, deviceVars, Reportable, SameRows
    <2>1. Reported(n) \/ (tool = Hardware /\ "drm" \in failed)
      BY DEF CallInv, StayInv
    <2> QED BY <2>1 DEF Reported, SameRows
  <1> QED BY <1>1, <1>2, <1>3 DEF CallInv

(* Devices that come, go and change add to the histories, and only a device that
   goes is taken off the listing. *)
LEMMA ChangesNote ==
    ASSUME DeviceInv, NEW k \in Names, NEW c \in Contents,
           Vanish(k) \/ Appear(k, c) \/ Alter(k, c)
    PROVE  /\ DeviceInv' /\ UNCHANGED <<listed, reading, first>>
           /\ ever \subseteq ever' /\ stayed' \subseteq stayed /\ steady' \subseteq steady
           /\ \A n \in Names : was[n] \subseteq was'[n]
           /\ \A n \in due : n \in due' \/ n \notin stayed'
           /\ due \subseteq present => due' \subseteq present'
  <1>t. /\ steady \subseteq stayed /\ stayed \subseteq present
        /\ present \subseteq ever /\ ever \subseteq Names
        /\ content \in [Names -> Contents]
        /\ was \in [Names -> SUBSET (Contents \cup {Unknown})]
        /\ \A n \in Names : read_text_file(n) \in was[n]
        /\ \A n \in steady : was[n] = {Text(content[n])}
        /\ Empty \in Contents
    BY DirectoryAssumption DEF DeviceInv
  <1>x. Text(c) \in Contents \cup {Unknown}
    BY DEF Text
  <1>1. CASE Vanish(k)
    <2>0. /\ present' = present \ {k} /\ due' = due \ {k} /\ UNCHANGED <<ever, listed, reading, first>>
          /\ stayed' = stayed \ {k} /\ steady' = steady \ {k}
          /\ content' = [content EXCEPT ![k] = Empty]
          /\ was' = [was EXCEPT ![k] = @ \cup {Unknown}]
      BY <1>1 DEF Vanish
    <2>1. /\ content' \in [Names -> Contents]
          /\ was' \in [Names -> SUBSET (Contents \cup {Unknown})]
      BY <1>t, <2>0
    <2>2. ASSUME NEW n \in Names PROVE read_text_file(n)' \in was'[n]
      <3>1. read_text_file(n) \in was[n]
        BY <1>t
      <3>2. CASE n = k
        BY <1>t, <2>0, <3>2 DEF read_text_file
      <3>3. CASE n # k
        BY <1>t, <2>0, <3>1, <3>3 DEF read_text_file, Text
      <3> QED BY <3>2, <3>3
    <2>3. ASSUME NEW n \in steady' PROVE was'[n] = {Text(content[n])'}
      BY <1>t, <2>0 DEF Text
    <2>4. DeviceInv'
      BY <1>t, <2>0, <2>1, <2>2, <2>3 DEF DeviceInv, Text
    <2> QED BY <1>t, <2>0, <2>4
  <1>2. CASE Appear(k, c)
    <2>0. /\ k \notin present
          /\ present' = present \cup {k} /\ ever' = ever \cup {k}
          /\ content' = [content EXCEPT ![k] = c]
          /\ was' = [was EXCEPT ![k] = @ \cup {Text(c)}]
          /\ UNCHANGED <<stayed, steady, due, listed, reading, first>>
      BY <1>2 DEF Appear, loopVars
    <2>1. /\ content' \in [Names -> Contents]
          /\ was' \in [Names -> SUBSET (Contents \cup {Unknown})]
      BY <1>t, <1>x, <2>0
    <2>2. ASSUME NEW n \in Names PROVE read_text_file(n)' \in was'[n]
      <3>1. read_text_file(n) \in was[n]
        BY <1>t
      <3>2. CASE n = k
        BY <1>t, <2>0, <3>2 DEF read_text_file, Text
      <3>3. CASE n # k
        BY <1>t, <2>0, <3>1, <3>3 DEF read_text_file, Text
      <3> QED BY <3>2, <3>3
    <2>3. ASSUME NEW n \in steady' PROVE was'[n] = {Text(content[n])'}
      BY <1>t, <2>0 DEF Text
    <2>4. DeviceInv'
      BY <1>t, <2>0, <2>1, <2>2, <2>3 DEF DeviceInv, Text
    <2> QED BY <1>t, <2>0, <2>4
  <1>3. CASE Alter(k, c)
    <2>0. /\ k \in present
          /\ steady' = steady \ {k}
          /\ content' = [content EXCEPT ![k] = c]
          /\ was' = [was EXCEPT ![k] = @ \cup {Text(c)}]
          /\ UNCHANGED <<present, ever, stayed, due, listed, reading, first>>
      BY <1>3 DEF Alter, loopVars
    <2>1. /\ content' \in [Names -> Contents]
          /\ was' \in [Names -> SUBSET (Contents \cup {Unknown})]
      BY <1>t, <1>x, <2>0
    <2>2. ASSUME NEW n \in Names PROVE read_text_file(n)' \in was'[n]
      <3>1. read_text_file(n) \in was[n]
        BY <1>t
      <3>2. CASE n = k
        BY <1>t, <2>0, <3>2 DEF read_text_file, Text
      <3>3. CASE n # k
        BY <1>t, <2>0, <3>1, <3>3 DEF read_text_file, Text
      <3> QED BY <3>2, <3>3
    <2>3. ASSUME NEW n \in steady' PROVE was'[n] = {Text(content[n])'}
      BY <1>t, <2>0 DEF Text
    <2>4. DeviceInv'
      BY <1>t, <2>0, <2>1, <2>2, <2>3 DEF DeviceInv, Text
    <2> QED BY <1>t, <2>0, <2>4
  <1> QED BY <1>1, <1>2, <1>3

(* A change of the devices keeps the call in order, wherever it is. *)
LEMMA ChangesKeep ==
    ASSUME CallInv, DirectoryChanges, UNCHANGED failed
    PROVE  CallInv'
  <1>0. pc' = pc /\ status' = status /\ SameRows /\ pc \notin {"format", "done"}
    BY DEF DirectoryChanges, Changing, callVars, SameRows
  <1>1. PICK k \in Names, c \in Contents : Vanish(k) \/ Appear(k, c) \/ Alter(k, c)
    BY DirectoryAssumption DEF DirectoryChanges
  <1>2. /\ DeviceInv' /\ UNCHANGED <<listed, reading, first>>
        /\ ever \subseteq ever' /\ stayed' \subseteq stayed
        /\ \A n \in Names : was[n] \subseteq was'[n]
        /\ \A n \in due : n \in due' \/ n \notin stayed'
        /\ due' \subseteq present'
    BY <1>1, ChangesNote DEF CallInv, ListInv
  <1>n. ever \subseteq Names
    BY DEF CallInv, DeviceInv
  <1>p. PlaceInv'
    BY <1>0 DEF CallInv, PlaceInv, SameRows, Cap
  <1>l. ListInv'
    BY <1>0, <1>2, <1>n DEF CallInv, ListInv, SameRows, Reportable, Picked
  <1>r. RowInv'
    <2> SUFFICES ASSUME NEW i \in 1 .. Len(rows)
                 PROVE  /\ rows[i].name \in ever' \cap Reportable
                        /\ {rows[i].first, rows[i].second} \subseteq was'[rows[i].name]
                        /\ i > 1 => rows[i - 1].name < rows[i].name
      BY <1>0 DEF RowInv, SameRows, Reportable
    <2>1. /\ rows[i].name \in ever \cap Reportable
          /\ {rows[i].first, rows[i].second} \subseteq was[rows[i].name]
          /\ i > 1 => rows[i - 1].name < rows[i].name
      BY DEF CallInv, RowInv
    <2> QED BY <1>2, <1>n, <2>1
  <1>s. SortInv'
    BY <1>0, <1>2 DEF CallInv, SortInv, SameRows
  <1>3. StayInv'
    <2> SUFFICES ASSUME NEW n \in stayed' \cap Reportable
                 PROVE  /\ pc = "list" => n \in due' \cup listed
                        /\ pc \in Picked \cup {"next"} =>
                             n \in listed \/ (pc \in Picked /\ n = reading) \/ Reported(n)'
      BY <1>0, <1>2 DEF StayInv, SameRows, Reportable, CallInv, PlaceInv
    <2>1. /\ pc = "list" => n \in due \cup listed
          /\ pc \in Picked \cup {"next"} =>
                n \in listed \/ (pc \in Picked /\ n = reading) \/ Reported(n)
      BY <1>2 DEF CallInv, StayInv
    <2>2. Reported(n) => Reported(n)'
      BY <1>0 DEF Reported, SameRows
    <2> QED BY <1>2, <2>1, <2>2
  <1> QED BY <1>2, <1>p, <1>l, <1>r, <1>s, <1>3 DEF CallInv

(* A step that changes neither the call nor the devices. *)
LEMMA StutterKeeps ==
    ASSUME CallInv, UNCHANGED <<callVars, dirVars, failed>>
    PROVE  CallInv'
  <1>0. pc' = pc /\ status' = status /\ SameRows
    BY DEF callVars, SameRows
  <1>1. DeviceInv' /\ RowInv'
    BY <1>0, DevicesKept, RowsKept DEF CallInv, SameRows, dirVars
  <1>2. PlaceInv' /\ ListInv' /\ SortInv'
    BY <1>0 DEF CallInv, PlaceInv, ListInv, SortInv, SameRows,
           dirVars, loopVars, deviceVars, Cap, Reportable
  <1>3. StayInv'
    <2>1. ASSUME NEW n PROVE Reported(n) => Reported(n)'
      BY <1>0 DEF Reported, SameRows
    <2> QED BY <1>0, <2>1 DEF CallInv, StayInv, SameRows, dirVars, loopVars, deviceVars, Reportable
  <1> QED BY <1>1, <1>2, <1>3 DEF CallInv

(* The steps all three tools take alike. *)
LEMMA LoopKeeps ==
    ASSUME CallInv, NEW t, tool = t, t \in {Network, Power}, DirectoryLoop(t, Cap),
           Len(rows) \in Nat
    PROVE  CallInv'
  <1>t. tool # Hardware /\ tool \in {Network, Power}
    BY DEF Network, Power, Hardware
  <1>c. Cap \in Nat
    BY <1>t, NetworkAssumption, PowerAssumption DEF Cap
  <1>1. CASE OpenDirectory(t)
    BY <1>1, OpenKeeps
  <1>2. CASE ListEntry(t)
    <2>1. PICK n \in present \ listed : listed' = listed \cup {n} /\ due' = due \ {n}
      BY <1>2 DEF ListEntry
    <2> QED BY <1>2, <2>1, EntryKeeps DEF ListEntry, At
  <1>3. CASE ListEnd(t)
    BY <1>3, EndKeeps
  <1>4. CASE ListThrows(t)
    BY <1>4, FailureKeeps DEF ListThrows, Failure, SameRows
  <1>5. CASE NextName(t) /\ Admit(Cap, "first", "next")
    BY <1>5, <1>t, <1>c, AdmitKeeps
  <1>6. CASE ReadFirst(t)
    BY <1>6, FirstKeeps
  <1> QED BY <1>1, <1>2, <1>3, <1>4, <1>5, <1>6 DEF DirectoryLoop

(* Every step of a call, and of the devices under it, keeps the invariant. *)
LEMMA DirStep ==
    ASSUME LinesInv, DirInv, [SNext]_sVars
    PROVE  DirInv'
  <1>n. Network # Power /\ Network # Hardware /\ Power # Hardware /\ Disk \notin DirectoryTools
    BY DEF Network, Power, Hardware, Disk, DirectoryTools
  <1>r. PICK S : rows \in Seq(S)
    BY DEF LinesInv
  <1>l. Len(rows) \in Nat
    BY <1>r
  <1>1. CASE UNCHANGED sVars
    BY <1>1, StutterKeeps DEF DirInv, sVars, callVars, hwVars
  <1>2. CASE NetworkStep
    <2>0. tool = Network /\ tool' = tool
      BY <1>2 DEF NetworkStep, NetworkUnavailable, NetworkExists, CollectAddresses, CollectRoutes,
           NetworkOpenFails, NetworkReturns, NoMoreNames, DirectoryLoop, NetworkRow, ReadRow, AddRow,
           OpenDirectory, ListEntry, ListEnd, ListThrows, NextName, ReadFirst, Admit, Return, At,
           Goto, Failure, callVars
    <2>1. CallInv /\ Cap = kMaxNetworkRows /\ Cap \in Nat
      BY <2>0, NetworkAssumption DEF DirInv, DirectoryTools, Cap
    <2> SUFFICES CallInv'
      BY DEF DirInv
    <2>2. CASE NetworkUnavailable \/ NetworkOpenFails
      BY <2>1, <2>2, FailureKeeps DEF NetworkUnavailable, NetworkOpenFails, Failure, SameRows
    <2>3. CASE NetworkExists \/ CollectAddresses \/ CollectRoutes
      BY <2>1, <2>3, EarlyKeeps DEF NetworkExists, CollectAddresses, CollectRoutes, Goto, SameRows,
           At, Early
    <2>4. CASE NetworkReturns
      BY <2>1, <2>4, ReturnsKeep DEF NetworkReturns
    <2>5. CASE DirectoryLoop(Network, kMaxNetworkRows)
      BY <1>l, <2>0, <2>1, <2>5, LoopKeeps
    <2>6. CASE NetworkRow
      BY <1>r, <2>1, <2>6, RowKeeps DEF NetworkRow
    <2> QED BY <1>2, <2>2, <2>3, <2>4, <2>5, <2>6 DEF NetworkStep
  <1>3. CASE PowerStep
    <2>0. tool = Power /\ tool' = tool
      BY <1>3 DEF PowerStep, PowerUnavailable, PowerExists,
           PowerOpenFails, PowerReturns, NoMoreNames, DirectoryLoop, ReadRow, AddRow,
           OpenDirectory, ListEntry, ListEnd, ListThrows, NextName, ReadFirst, Admit, Return, At,
           Goto, Failure, callVars
    <2>1. CallInv /\ Cap = kMaxPowerRows /\ Cap \in Nat
      BY <1>n, <2>0, PowerAssumption DEF DirInv, DirectoryTools, Cap
    <2> SUFFICES CallInv'
      BY DEF DirInv
    <2>2. CASE PowerUnavailable \/ PowerOpenFails
      BY <2>1, <2>2, FailureKeeps DEF PowerUnavailable, PowerOpenFails, Failure, SameRows
    <2>3. CASE PowerExists
      BY <2>1, <2>3, EarlyKeeps DEF PowerExists, Goto, SameRows, At, Early
    <2>4. CASE PowerReturns
      BY <2>1, <2>4, ReturnsKeep DEF PowerReturns
    <2>5. CASE DirectoryLoop(Power, kMaxPowerRows)
      BY <1>l, <2>0, <2>1, <2>5, LoopKeeps
    <2>6. CASE ReadRow(Power, <<>>)
      BY <1>r, <2>1, <2>6, RowKeeps
    <2> QED BY <1>3, <2>2, <2>3, <2>4, <2>5, <2>6 DEF PowerStep
  <1>4. CASE HardwareStep
    <2>0. tool = Hardware /\ tool' = tool
      BY <1>4 DEF HardwareStep, HardwareUnavailable, ReadScalars, DrmExists, NoGpus, ExistsThrows,
           HardwareReturns, DirectoryStep, ListDrmEntry, NextCard, DeviceExists, ReadFirst, ReadRow,
           AddRow, OpenDirectory, ListEnd, ListThrows, NextName, NoMoreNames, Admit, Return, At,
           Goto, Failure, callVars
    <2>1. CallInv /\ Cap = kMaxGpuRows /\ Cap \in Nat /\ Reportable = WithDevice
      <3>1. kMaxGpuRows \in Nat
        BY HardwareAssumption, Zenon
      <3> QED BY <1>n, <2>0, <3>1 DEF DirInv, DirectoryTools, Cap, Reportable
    <2> SUFFICES CallInv'
      BY DEF DirInv
    <2>2. CASE HardwareUnavailable \/ ExistsThrows \/ ListThrows(Hardware)
      BY <2>1, <2>2, FailureKeeps DEF HardwareUnavailable, ExistsThrows, ListThrows, Failure, SameRows
    <2>3. CASE ReadScalars \/ DrmExists
      BY <2>1, <2>3, EarlyKeeps DEF ReadScalars, DrmExists, Goto, SameRows, At, Early
    <2>4. CASE NoGpus
      BY <2>1, <2>4, NoGpusKeep
    <2>5. CASE HardwareReturns
      BY <2>1, <2>5, ReturnsKeep DEF HardwareReturns
    <2>6. CASE OpenDirectory(Hardware) \/ ListEnd(Hardware)
      BY <2>1, <2>6, OpenKeeps, EndKeeps
    <2>7. CASE ListDrmEntry
      <3>1. PICK n \in due \cup (present \ listed) :
              due' = due \ {n} /\ listed' = IF n \in CardNames THEN listed \cup {n} ELSE listed
        BY <2>7 DEF ListDrmEntry
      <3>2. n \in present
        BY <2>1 DEF CallInv, ListInv
      <3>3. listed' = listed \cup {n} \/ (listed' = listed /\ n \notin Reportable)
        BY <2>1, <3>1, HardwareAssumption
      <3> QED BY <2>1, <2>7, <3>1, <3>2, <3>3, EntryKeeps DEF ListDrmEntry, At
    <2>8. CASE NextCard \/ DeviceExists
      BY <1>l, <2>1, <2>8, CardKeeps, DeviceKeeps
    <2>9. CASE ReadFirst(Hardware) \/ ReadRow(Hardware, <<>>)
      BY <1>r, <2>1, <2>9, FirstKeeps, RowKeeps
    <2> QED BY <1>4, <2>2, <2>3, <2>4, <2>5, <2>6, <2>7, <2>8, <2>9 DEF HardwareStep, DirectoryStep
  <1>5. CASE DiskStep
    <2>0. tool = Disk /\ tool' = tool
      BY <1>5 DEF DiskStep, MountinfoUnavailable, MountinfoOpened, ReadLines, TakeLine, SpaceFails,
           MeasureSpace, DiskReturns, AddRow, Admit, Return, At, Goto, Failure, callVars
    <2> QED BY <1>n, <2>0 DEF DirInv
  <1>6. CASE (FormatLine \/ FormatDone) /\ UNCHANGED <<dirVars, netVars, hwVars, diskVars>>
    BY <1>6, FormatKeeps DEF DirInv, FormatLine, FormatDone, hwVars, SameRows
  <1>7. CASE SystemChanges
    <2>0. tool' = tool
      BY <1>7 DEF SystemChanges, DirectoryChanges, TableChanges, Changing, callVars
    <2>1. CASE tool \in DirectoryTools
      <3>1. DirectoryChanges /\ UNCHANGED failed
        BY <1>7, <1>n, <2>1 DEF SystemChanges, hwVars
      <3> QED BY <2>1, <3>1, ChangesKeep DEF DirInv
    <2> QED BY <2>0, <2>1 DEF DirInv
  <1> QED BY <1>1, <1>2, <1>3, <1>4, <1>5, <1>6, <1>7 DEF SNext

(* A call starts with no row, before the directory is opened. *)
LEMMA DirInit == SInit => DirInv
  <1> SUFFICES ASSUME SInit, tool \in DirectoryTools PROVE CallInv
    BY DEF DirInv
  <1>n. Disk \notin DirectoryTools
    BY DEF Network, Power, Hardware, Disk, DirectoryTools
  <1>1. DInit /\ pc = "start" /\ status = "none" /\ rows = <<>> /\ more = FALSE
    BY <1>n DEF SInit, RInit
  <1>2. DeviceInv
    <2>1. PICK c \in [present -> Contents] :
            content = [n \in Names |-> IF n \in present THEN c[n] ELSE Empty]
      BY <1>1 DEF DInit
    <2>2. content \in [Names -> Contents] /\ present \subseteq Names
      BY <1>1, <2>1, DirectoryAssumption DEF DInit
    <2>3. /\ was = [n \in Names |-> {read_text_file(n)}]
          /\ steady = present /\ stayed = present /\ ever = present
      BY <1>1 DEF DInit
    <2>4. \A n \in Names : read_text_file(n) \in Contents \cup {Unknown}
      BY <2>2 DEF read_text_file, Text
    <2>5. \A n \in present : read_text_file(n) = Text(content[n])
      BY DEF read_text_file
    <2>6. was \in [Names -> SUBSET (Contents \cup {Unknown})]
      BY <2>3, <2>4
    <2> QED BY <2>2, <2>3, <2>5, <2>6 DEF DeviceInv
  <1>3. PlaceInv /\ ListInv /\ RowInv /\ SortInv /\ StayInv
    BY <1>1 DEF PlaceInv, ListInv, RowInv, SortInv, StayInv, DInit, Early, Labels, Picked
  <1> QED BY <1>2, <1>3 DEF CallInv

(* The invariant says of the rows what the property says. *)
LEMMA RowsTrue == DirInv => RowsWereTrue
  <1> SUFFICES ASSUME CallInv, tool \in DirectoryTools, status = "ok" PROVE RowsWereTrue
    BY DEF DirInv, RowsWereTrue
  <1> QED BY DEF CallInv, RowInv, DeviceInv, RowsWereTrue, Reportable

(* And of the devices that stay. *)
LEMMA StayReported == DirInv => StayingIsReported
  <1> SUFFICES ASSUME CallInv, status = "ok", NEW n \in Owed
               PROVE  \/ \E i \in 1 .. Len(rows) :
                           /\ rows[i].name = n
                           /\ n \in steady => /\ rows[i].first = Text(content[n])
                                              /\ rows[i].second = Text(content[n])
                      \/ more /\ \A i \in 1 .. Len(rows) : rows[i].name < n
    BY DEF DirInv, StayingIsReported
  <1>1. n \in stayed \cap Reportable /\ ~(tool = Hardware /\ "drm" \in failed)
    BY DEF Owed, Reportable, CallInv, DeviceInv
  <1>2. Reported(n)
    BY <1>1 DEF CallInv, StayInv
  <1>3. ASSUME NEW i \in 1 .. Len(rows), rows[i].name = n, n \in steady
        PROVE  rows[i].first = Text(content[n]) /\ rows[i].second = Text(content[n])
    <2>1. {rows[i].first, rows[i].second} \subseteq was[n] /\ was[n] = {Text(content[n])}
      BY <1>3 DEF CallInv, RowInv, DeviceInv
    <2> QED BY <2>1
  <1> QED BY <1>2, <1>3 DEF Reported

-----------------------------------------------------------------------------
(* Whatever devices come, go and change while a call reads their directory, each
   row of its report is of a device that was there, with attributes it had, in the
   order of the names. *)
THEOREM ReportedRowsWereTrue ==
    ASSUME Wording
    PROVE  SSpec => []RowsWereTrue
  <1>1. (ReportInv /\ DirInv) /\ [SNext]_sVars => (ReportInv /\ DirInv)'
    BY ReportStep, DirStep DEF ReportInv
  <1> QED BY <1>1, ReportInit, DirInit, RowsTrue, PTL DEF SSpec

(* And no device that stays is missed, whatever the others do and wherever the
   listing was when they did it, unless the report says it is cut. *)
THEOREM StayingDevicesAreReported ==
    ASSUME Wording
    PROVE  SSpec => []StayingIsReported
  <1>1. (ReportInv /\ DirInv) /\ [SNext]_sVars => (ReportInv /\ DirInv)'
    BY ReportStep, DirStep DEF ReportInv
  <1> QED BY <1>1, ReportInit, DirInit, StayReported, PTL DEF SSpec

-----------------------------------------------------------------------------
(* The lists of mounts the kernel keeps: the root's is the first, and no mount is
   there twice. *)
Table(list) ==
    /\ list \in Seq(Mounts) /\ Len(list) > 0 /\ list[1] = Root
    /\ \A i, j \in 1 .. Len(list) : list[i] = list[j] => i = j

(* What a mount point leads to is one of the list. *)
LEMMA ResolvedIsMounted ==
    ASSUME NEW list, Table(list), NEW point
    PROVE  \E i \in 1 .. Len(list) :
             /\ Resolved(list, point) = list[i]
             /\ MountPoint[list[i]] = point \/ \A j \in 1 .. Len(list) : MountPoint[list[j]] # point
  <1> DEFINE there == {i \in 1 .. Len(list) : MountPoint[list[i]] = point}
  <1>0. Len(list) \in Nat /\ 1 \in 1 .. Len(list) /\ list[1] = Root
    BY DEF Table
  <1>1. CASE there = {}
    <2>1. Resolved(list, point) = Root
      BY <1>1 DEF Resolved
    <2> QED BY <1>0, <1>1, <2>1
  <1>2. CASE there # {}
    <2>1. Resolved(list, point) = list[Max(there)]
      BY <1>2 DEF Resolved
    <2>2. there \in SUBSET (1 .. Len(list))
      OBVIOUS
    <2>3. Max(there) \in there
      <3> HIDE DEF there
      <3> QED BY <1>0, <1>2, <2>2, LastPlace
    <2> QED BY <2>1, <2>3
  <1> QED BY <1>1, <1>2

(* What some mount point leads to, its own leads to. *)
LEMMA TopsAreTops ==
    ASSUME NEW list, Table(list), NEW m \in Tops(list)
    PROVE  m \in Mounts /\ Resolved(list, MountPoint[m]) = m
  <1>0. list \in Seq(Mounts) /\ 1 \in 1 .. Len(list) /\ list[1] = Root
    BY DEF Table
  <1>1. PICK point \in Points : m = Resolved(list, point)
    BY DEF Tops
  <1>2. PICK i \in 1 .. Len(list) :
             /\ Resolved(list, point) = list[i]
             /\ MountPoint[list[i]] = point \/ \A j \in 1 .. Len(list) : MountPoint[list[j]] # point
    BY ResolvedIsMounted
  <1>3. m \in Mounts
    BY <1>0, <1>1, <1>2
  <1>4. CASE MountPoint[m] = point
    BY <1>1, <1>3, <1>4
  <1>5. CASE \A j \in 1 .. Len(list) : MountPoint[list[j]] # point
    <2>1. m = Root
      BY <1>1, <1>5 DEF Resolved
    <2>2. PICK k \in 1 .. Len(list) :
             /\ Resolved(list, MountPoint[Root]) = list[k]
             /\ \/ MountPoint[list[k]] = MountPoint[Root]
                \/ \A j \in 1 .. Len(list) : MountPoint[list[j]] # MountPoint[Root]
      BY ResolvedIsMounted
    <2>3. MountPoint[list[k]] = MountPoint[Root] /\ list[k] \in Mounts
      BY <1>0, <2>2
    <2>4. list[k] = Root
      BY <2>3, DiskAssumption
    <2> QED BY <1>3, <2>1, <2>2, <2>4
  <1> QED BY <1>1, <1>2, <1>3, <1>4, <1>5

(* Only a file system with nothing available is shown as full. *)
LEMMA FullIsFull ==
    ASSUME NEW s \in [capacity : Nat, available : Nat]
    PROVE  used_percent(s) = 100 <=> s.capacity > 0 /\ s.available = 0
  <1> DEFINE c == s.capacity
             a == s.available
  <1>0. c \in Nat /\ a \in Nat
    OBVIOUS
  <1> HIDE DEF c, a
  <1>1. CASE c = 0 \/ a >= c
    <2>1. used_percent(s) = 0
      BY <1>1 DEF used_percent, c, a
    <2>2. ~(c > 0 /\ a = 0)
      BY <1>0, <1>1
    <2> QED BY <2>1, <2>2 DEF c, a
  <1>2. CASE c > 0 /\ a < c
    <2> DEFINE q == ((c - a) * 100) \div c
    <2>1. used_percent(s) = q
      BY <1>0, <1>2 DEF used_percent, c, a
    <2>2. q = 100 <=> a = 0
      BY <1>0, <1>2
    <2> QED BY <1>2, <2>1, <2>2 DEF c, a
  <1> QED BY <1>0, <1>1, <1>2

-----------------------------------------------------------------------------
(* A mount is ahead of the reader until its line is taken. *)
Unread(m) == \E j \in cursor + 1 .. Len(mounted) : mounted[j] = m

Ahead(m) == Unread(m) \/ \E i \in 1 .. Len(lines) : lines[i] = m

Collecting == pc \in {"start", "lines", "space"}

(* The histories are about the list of mounts. *)
TableInv ==
    /\ Table(mounted) /\ cursor \in 0 .. Len(mounted)
    /\ everMounted \subseteq Mounts /\ \A i \in 1 .. Len(mounted) : mounted[i] \in everMounted
    /\ ledTo \in [Points -> SUBSET Mounts]
    /\ \A point \in Points : Resolved(mounted, point) \in ledTo[point]
    /\ \A m \in uncovered : m \in Mounts /\ Resolved(mounted, MountPoint[m]) = m

(* No line is read twice, however the list changes under the reader. *)
LineReadInv ==
    /\ lines \in Seq(Mounts) /\ mount \in Mounts
    /\ \A i \in 1 .. Len(lines) : lines[i] \in everMounted /\ ~Unread(lines[i])
    /\ \A i, j \in 1 .. Len(lines) : lines[i] = lines[j] => i = j
    /\ pc = "space" => mount \in everMounted \cap Candidates /\ ~Ahead(mount)

(* The rows are true and of different mounts, none of them still to come. *)
MeasuredInv ==
    /\ \A i \in 1 .. Len(rows) :
         /\ rows[i].mount \in Candidates \cap everMounted
         /\ rows[i].measured \in ledTo[MountPoint[rows[i].mount]]
         /\ rows[i].used_percent = used_percent(Space[rows[i].measured])
         /\ rows[i].mount \in uncovered => rows[i].measured = rows[i].mount
    /\ Collecting => \A i \in 1 .. Len(rows) :
                       ~Ahead(rows[i].mount) /\ (pc = "space" => rows[i].mount # mount)
    /\ \A i, j \in 1 .. Len(rows) : rows[i].mount = rows[j].mount => i = j

(* A mount that stays on top is still to come, being measured, or in a row. *)
HasRow(m) == \E i \in 1 .. Len(rows) : rows[i].mount = m

OnTopInv ==
    ~more =>
      \A m \in (uncovered \cap Candidates) \ unmeasured :
        /\ Collecting => Ahead(m) \/ (pc = "space" /\ m = mount) \/ HasRow(m)
        /\ pc = "format" \/ status = "ok" => HasRow(m)

(* What is returned is in the order of the mount points. *)
OrderedInv ==
    /\ Collecting \/ pc \in {"format", "done"}
    /\ status = "ok" => pc = "done"
    /\ pc = "format" \/ status = "ok" =>
         \A i, j \in 1 .. Len(rows) :
           j < i => MountPoint[rows[j].mount] <= MountPoint[rows[i].mount]

DiskCallInv == TableInv /\ LineReadInv /\ MeasuredInv /\ OnTopInv /\ OrderedInv

DiskInv == tool = Disk => DiskCallInv

(* A change of the list adds to the histories. *)
LEMMA TableNotes ==
    ASSUME TableInv, NEW list, Table(list), TableBecomes(list),
           \A i \in 1 .. Len(list) : list[i] \in Mounts
    PROVE  /\ Table(mounted') /\ everMounted' \subseteq Mounts
           /\ \A i \in 1 .. Len(mounted') : mounted'[i] \in everMounted'
           /\ ledTo' \in [Points -> SUBSET Mounts]
           /\ \A point \in Points : Resolved(mounted, point)' \in ledTo'[point]
           /\ \A m \in uncovered' : m \in Mounts /\ Resolved(mounted, MountPoint[m])' = m
           /\ everMounted \subseteq everMounted' /\ uncovered' \subseteq uncovered
           /\ \A point \in Points : ledTo[point] \subseteq ledTo'[point]
  <1>0. /\ mounted' = list
        /\ everMounted' = everMounted \cup Range(list)
        /\ ledTo' = [point \in Points |-> ledTo[point] \cup {Resolved(list, point)}]
        /\ uncovered' = uncovered \cap Tops(list)
    BY DEF TableBecomes
  <1>1. DOMAIN list = 1 .. Len(list)
    BY DEF Table
  <1>2. Range(list) = {list[i] : i \in 1 .. Len(list)}
    BY <1>1 DEF Range
  <1>r. \A point : Resolved(mounted, point)' = Resolved(list, point)
    BY <1>0 DEF Resolved
  <1>3. \A point \in Points : Resolved(list, point) \in Mounts
    BY ResolvedIsMounted
  <1>4. ledTo' \in [Points -> SUBSET Mounts]
    BY <1>0, <1>3 DEF TableInv
  <1>5. \A m \in uncovered' : m \in Mounts /\ Resolved(mounted, MountPoint[m])' = m
    BY <1>0, <1>r, TopsAreTops
  <1>6. \A point \in Points : Resolved(mounted, point)' \in ledTo'[point] /\ ledTo[point] \subseteq ledTo'[point]
    BY <1>0, <1>r
  <1>7. everMounted' \subseteq Mounts /\ \A i \in 1 .. Len(mounted') : mounted'[i] \in everMounted'
    BY <1>0, <1>2 DEF TableInv
  <1> QED BY <1>0, <1>4, <1>5, <1>6, <1>7

(* What the reader has and what it has made of it stay right when the list only
   gains mounts that were never there, and loses none that stay on top. *)
LEMMA TableKeeps ==
    ASSUME DiskCallInv, TableInv', UNCHANGED <<callVars, lines, mount, unmeasured>>, Collecting,
           everMounted \subseteq everMounted', uncovered' \subseteq uncovered,
           \A point \in Points : ledTo[point] \subseteq ledTo'[point],
           \A m \in everMounted : Unread(m)' => Unread(m),
           \A m \in uncovered' : Unread(m) => Unread(m)'
    PROVE  DiskCallInv'
  <1>0. UNCHANGED <<pc, status, rows, more>>
    BY DEF callVars
  <1>a. \A m \in everMounted : Ahead(m)' => Ahead(m)
    BY DEF Ahead
  <1>b. \A m \in uncovered' : Ahead(m) => Ahead(m)'
    BY DEF Ahead
  <1>c. Collecting' <=> Collecting
    BY <1>0 DEF Collecting
  <1>1. LineReadInv'
    BY <1>0, <1>a DEF DiskCallInv, LineReadInv
  <1>2. MeasuredInv'
    <2>1. ASSUME NEW i \in 1 .. Len(rows)
          PROVE  /\ rows[i].mount \in Candidates \cap everMounted'
                 /\ rows[i].measured \in ledTo'[MountPoint[rows[i].mount]]
                 /\ rows[i].used_percent = used_percent(Space[rows[i].measured])
                 /\ rows[i].mount \in uncovered' => rows[i].measured = rows[i].mount
                 /\ ~Ahead(rows[i].mount)' /\ (pc = "space" => rows[i].mount # mount)
      <3>1. /\ rows[i].mount \in Candidates \cap everMounted
            /\ rows[i].measured \in ledTo[MountPoint[rows[i].mount]]
            /\ rows[i].used_percent = used_percent(Space[rows[i].measured])
            /\ rows[i].mount \in uncovered => rows[i].measured = rows[i].mount
            /\ ~Ahead(rows[i].mount) /\ (pc = "space" => rows[i].mount # mount)
        BY DEF DiskCallInv, MeasuredInv
      <3>2. MountPoint[rows[i].mount] \in Points
        BY <3>1 DEF DiskCallInv, TableInv, Points
      <3>3. ~Ahead(rows[i].mount)'
        BY <1>0, <1>a, <3>1
      <3> QED BY <3>1, <3>2, <3>3
    <2>2. \A i, j \in 1 .. Len(rows) : rows[i].mount = rows[j].mount => i = j
      BY DEF DiskCallInv, MeasuredInv
    <2>3. ASSUME NEW i \in 1 .. Len(rows')
          PROVE  /\ rows'[i].mount \in Candidates \cap everMounted'
                 /\ rows'[i].measured \in ledTo'[MountPoint[rows'[i].mount]]
                 /\ rows'[i].used_percent = used_percent(Space[rows'[i].measured])
                 /\ rows'[i].mount \in uncovered' => rows'[i].measured = rows'[i].mount
                 /\ ~Ahead(rows[i].mount)' /\ (pc' = "space" => rows'[i].mount # mount')
      BY <1>0, <2>1
    <2>4. \A i, j \in 1 .. Len(rows') : rows'[i].mount = rows'[j].mount => i = j
      BY <1>0, <2>2
    <2> QED BY <2>3, <2>4 DEF MeasuredInv
  <1>3. OnTopInv'
    <2> SUFFICES ASSUME ~more, NEW m \in (uncovered' \cap Candidates) \ unmeasured
                 PROVE  Ahead(m)' \/ (pc = "space" /\ m = mount) \/ HasRow(m)'
      BY <1>0, <1>c DEF OnTopInv, DiskCallInv, OrderedInv, Collecting
    <2>1. Ahead(m) \/ (pc = "space" /\ m = mount) \/ HasRow(m)
      BY DEF DiskCallInv, OnTopInv
    <2>2. HasRow(m) => HasRow(m)'
      BY <1>0 DEF HasRow
    <2> QED BY <1>b, <2>1, <2>2
  <1>4. OrderedInv'
    BY <1>0, <1>c DEF DiskCallInv, OrderedInv
  <1> QED BY <1>1, <1>2, <1>3, <1>4 DEF DiskCallInv

(* What is mounted is at the end, for the reader still to come. *)
LEMMA MountKeeps ==
    ASSUME DiskCallInv, NEW m \in Mounts, Mount(m), Collecting,
           UNCHANGED <<callVars, lines, mount, unmeasured>>
    PROVE  DiskCallInv'
  <1> DEFINE L == Len(mounted)
             list == Append(mounted, m)
  <1>0. /\ mounted \in Seq(Mounts) /\ L \in Nat /\ L > 0 /\ mounted[1] = Root /\ cursor \in 0 .. L
        /\ \A i, j \in 1 .. L : mounted[i] = mounted[j] => i = j
        /\ \A i \in 1 .. L : mounted[i] \in everMounted /\ mounted[i] # m
        /\ m \notin everMounted /\ TableBecomes(list) /\ cursor' = cursor
    BY DEF DiskCallInv, TableInv, Table, Mount
  <1>1. /\ list \in Seq(Mounts) /\ Len(list) = L + 1
        /\ \A i \in 1 .. L : list[i] = mounted[i]
        /\ list[L + 1] = m
    BY <1>0
  <1> HIDE DEF list, L
  <1>2. Table(list)
    <2>1. \A i, j \in 1 .. L + 1 : list[i] = list[j] => i = j
      <3> SUFFICES ASSUME NEW i \in 1 .. L + 1, NEW j \in 1 .. L + 1, list[i] = list[j] PROVE i = j
        OBVIOUS
      <3>1. CASE i \in 1 .. L /\ j \in 1 .. L
        BY <1>0, <1>1, <3>1
      <3>2. CASE i = L + 1 /\ j \in 1 .. L
        BY <1>0, <1>1, <3>2
      <3>3. CASE j = L + 1 /\ i \in 1 .. L
        BY <1>0, <1>1, <3>3
      <3> QED BY <1>0, <3>1, <3>2, <3>3
    <2> QED BY <1>0, <1>1, <2>1 DEF Table
  <1>3. \A i \in 1 .. Len(list) : list[i] \in Mounts
    BY <1>1
  <1>4. mounted' = list
    BY <1>0 DEF TableBecomes
  <1>5. TableInv' /\ everMounted \subseteq everMounted' /\ uncovered' \subseteq uncovered
        /\ \A point \in Points : ledTo[point] \subseteq ledTo'[point]
    <2>1. TableInv
      BY DEF DiskCallInv
    <2>2. cursor' \in 0 .. Len(mounted')
      BY <1>0, <1>1, <1>4
    <2> QED BY <1>0, <1>2, <1>3, <2>1, <2>2, TableNotes DEF TableInv
  <1>6. \A x : Unread(x) => Unread(x)'
    <2> SUFFICES ASSUME NEW x, NEW j \in cursor + 1 .. L, mounted[j] = x
                 PROVE  \E k \in cursor + 1 .. L + 1 : list[k] = x
      BY <1>0, <1>1, <1>4 DEF Unread, L
    <2>1. j \in 1 .. L /\ j \in cursor + 1 .. L + 1
      BY <1>0
    <2> QED BY <1>1, <2>1
  <1>7. \A x \in everMounted : Unread(x)' => Unread(x)
    <2> SUFFICES ASSUME NEW x \in everMounted, NEW k \in cursor + 1 .. L + 1, list[k] = x
                 PROVE  \E j \in cursor + 1 .. L : mounted[j] = x
      BY <1>0, <1>1, <1>4 DEF Unread, L
    <2>1. k # L + 1
      BY <1>0, <1>1
    <2>2. k \in cursor + 1 .. L /\ k \in 1 .. L
      BY <1>0, <2>1
    <2> QED BY <1>1, <2>2
  <1> QED BY <1>5, <1>6, <1>7, TableKeeps

(* Removing a place of a sequence moves the later ones. *)
LEMMA Removed ==
    ASSUME NEW S, NEW s \in Seq(S), NEW i \in 1 .. Len(s)
    PROVE  /\ RemoveAt(s, i) \in Seq(S) /\ Len(RemoveAt(s, i)) = Len(s) - 1
           /\ \A k \in 1 .. Len(s) - 1 : RemoveAt(s, i)[k] = IF k < i THEN s[k] ELSE s[k + 1]
  <1> DEFINE a == SubSeq(s, 1, i - 1)
             b == SubSeq(s, i + 1, Len(s))
  <1>0. Len(s) \in Nat /\ i \in Nat
    OBVIOUS
  <1>1. a \in Seq(S) /\ Len(a) = i - 1 /\ \A k \in 1 .. i - 1 : a[k] = s[k]
    BY <1>0
  <1>2. b \in Seq(S) /\ Len(b) = Len(s) - i /\ \A k \in 1 .. Len(s) - i : b[k] = s[k + i]
    <2>1. b \in Seq(S) /\ Len(b) = Len(s) - i
      BY <1>0
    <2>2. ASSUME NEW k \in 1 .. Len(s) - i PROVE b[k] = s[k + i]
      <3>1. b[k] = s[(i + 1) + k - 1]
        BY <1>0, <2>1
      <3>2. (i + 1) + k - 1 = k + i
        BY <1>0
      <3> QED BY <3>1, <3>2
    <2> QED BY <2>1, <2>2
  <1>3. RemoveAt(s, i) = a \o b
    BY DEF RemoveAt
  <1> HIDE DEF a, b
  <1>4. a \o b \in Seq(S) /\ Len(a \o b) = Len(s) - 1
    <2>0. a \in Seq(S) /\ b \in Seq(S)
      BY <1>1, <1>2
    <2>1. a \o b \in Seq(S) /\ Len(a \o b) = Len(a) + Len(b)
      BY <2>0
    <2>2. Len(a) + Len(b) = Len(s) - 1
      BY <1>0, <1>1, <1>2
    <2> QED BY <2>1, <2>2
  <1>5. ASSUME NEW k \in 1 .. Len(s) - 1
        PROVE  (a \o b)[k] = IF k < i THEN s[k] ELSE s[k + 1]
    <2>1. CASE k < i
      <3>1. k \in 1 .. Len(a)
        BY <1>0, <1>1, <2>1
      <3>2. (a \o b)[k] = a[k]
        BY <1>1, <1>2, <3>1
      <3> QED BY <1>1, <2>1, <3>1, <3>2
    <2>2. CASE ~(k < i)
      <3>1. k \in Len(a) + 1 .. Len(a) + Len(b) /\ k - Len(a) \in 1 .. Len(s) - i
            /\ k - Len(a) + i = k + 1
        BY <1>0, <1>1, <1>2, <2>2
      <3>2. (a \o b)[k] = b[k - Len(a)]
        BY <1>1, <1>2, <3>1
      <3>3. b[k - Len(a)] = s[k + 1]
        BY <1>2, <3>1
      <3> QED BY <2>2, <3>2, <3>3
    <2> QED BY <2>1, <2>2
  <1> QED BY <1>3, <1>4, <1>5

(* What is unmounted is gone for the reader too, unless it has been read; no other
   mount is read twice or not at all for that. *)
LEMMA UnmountKeeps ==
    ASSUME DiskCallInv, NEW i \in 1 .. Len(mounted), Unmount(i), Collecting,
           UNCHANGED <<callVars, lines, mount, unmeasured>>
    PROVE  DiskCallInv'
  <1> DEFINE L == Len(mounted)
             list == RemoveAt(mounted, i)
  <1>0. /\ mounted \in Seq(Mounts) /\ L \in Nat /\ L > 0 /\ mounted[1] = Root /\ cursor \in 0 .. L
        /\ \A j, k \in 1 .. L : mounted[j] = mounted[k] => j = k
        /\ mounted[i] # Root /\ TableBecomes(list)
        /\ cursor' = IF i <= cursor THEN cursor - 1 ELSE cursor
        /\ i \in 1 .. L
    BY DEF DiskCallInv, TableInv, Table, Unmount
  <1>1. /\ list \in Seq(Mounts) /\ Len(list) = L - 1
        /\ \A k \in 1 .. L - 1 : list[k] = IF k < i THEN mounted[k] ELSE mounted[k + 1]
    BY <1>0, Removed
  <1> HIDE DEF list, L
  <1>i. i > 1
    <2>1. i # 1
      BY <1>0
    <2> QED BY <1>0, <2>1
  <1>2. Table(list)
    <2>1. \A j, k \in 1 .. L - 1 : list[j] = list[k] => j = k
      <3> SUFFICES ASSUME NEW j \in 1 .. L - 1, NEW k \in 1 .. L - 1, list[j] = list[k] PROVE j = k
        OBVIOUS
      <3> DEFINE J == IF j < i THEN j ELSE j + 1
                 K == IF k < i THEN k ELSE k + 1
      <3>1. J \in 1 .. L /\ K \in 1 .. L /\ list[j] = mounted[J] /\ list[k] = mounted[K]
        BY <1>0, <1>1
      <3>2. J = K
        BY <1>0, <3>1
      <3> QED BY <1>0, <3>2
    <2>2. 1 \in 1 .. L - 1 /\ list[1] = Root
      BY <1>0, <1>1, <1>i
    <2> QED BY <1>0, <1>1, <2>1, <2>2 DEF Table
  <1>3. \A k \in 1 .. Len(list) : list[k] \in Mounts
    BY <1>1
  <1>4. mounted' = list
    BY <1>0 DEF TableBecomes
  <1>5. TableInv' /\ everMounted \subseteq everMounted' /\ uncovered' \subseteq uncovered
        /\ \A point \in Points : ledTo[point] \subseteq ledTo'[point]
    <2>1. TableInv
      BY DEF DiskCallInv
    <2>2. cursor' \in 0 .. Len(mounted')
      BY <1>0, <1>1, <1>4
    <2> QED BY <1>0, <1>2, <1>3, <2>1, <2>2, TableNotes DEF TableInv
  <1>6. \A x \in uncovered' : Unread(x) => Unread(x)'
    <2> SUFFICES ASSUME NEW x \in uncovered', NEW j \in cursor + 1 .. L, mounted[j] = x
                 PROVE  \E k \in cursor' + 1 .. L - 1 : list[k] = x
      BY <1>0, <1>1, <1>4 DEF Unread, L
    <2>1. PICK n \in 1 .. L - 1 : list[n] = x
      <3>1. Resolved(list, MountPoint[x]) = x
        <4>1. Resolved(mounted, MountPoint[x])' = x
          BY <1>5 DEF TableInv
        <4> QED BY <1>4, <4>1 DEF Resolved
      <3> QED BY <1>1, <1>2, <3>1, ResolvedIsMounted
    <2>2. j # i
      <3> DEFINE N == IF n < i THEN n ELSE n + 1
      <3>1. N \in 1 .. L /\ N # i /\ list[n] = mounted[N]
        BY <1>0, <1>1
      <3>2. j \in 1 .. L
        BY <1>0
      <3> QED BY <1>0, <2>1, <3>1, <3>2
    <2>3. CASE j < i
      <3>1. j \in cursor' + 1 .. L - 1 /\ j \in 1 .. L - 1
        BY <1>0, <2>3
      <3> QED BY <1>1, <2>3, <3>1
    <2>4. CASE j > i
      <3>1. j - 1 \in cursor' + 1 .. L - 1 /\ j - 1 \in 1 .. L - 1 /\ ~(j - 1 < i) /\ (j - 1) + 1 = j
        BY <1>0, <2>4
      <3>2. list[j - 1] = mounted[j]
        BY <1>1, <3>1
      <3> QED BY <3>1, <3>2
    <2> QED BY <1>0, <2>2, <2>3, <2>4
  <1>7. \A x \in everMounted : Unread(x)' => Unread(x)
    <2> SUFFICES ASSUME NEW x, NEW k \in cursor' + 1 .. L - 1, list[k] = x
                 PROVE  \E j \in cursor + 1 .. L : mounted[j] = x
      BY <1>0, <1>1, <1>4 DEF Unread, L
    <2>1. CASE k < i
      <3>1. k \in 1 .. L - 1 /\ k \in cursor + 1 .. L
        BY <1>0, <2>1
      <3> QED BY <1>1, <2>1, <3>1
    <2>2. CASE ~(k < i)
      <3>1. k \in 1 .. L - 1 /\ k + 1 \in cursor + 1 .. L
        BY <1>0, <2>2
      <3> QED BY <1>1, <2>2, <3>1
    <2> QED BY <2>1, <2>2
  <1> QED BY <1>5, <1>6, <1>7, TableKeeps

-----------------------------------------------------------------------------
(* The reader does not change the list. *)
LEMMA TableSame ==
    ASSUME TableInv, UNCHANGED <<mounted, everMounted, ledTo, uncovered>>,
           cursor' \in 0 .. Len(mounted)
    PROVE  TableInv'
  <1>1. \A point : Resolved(mounted, point)' = Resolved(mounted, point)
    BY DEF Resolved
  <1> QED BY <1>1 DEF TableInv, Table

(* A step of the reader without a row: nothing comes back that was passed, and
   no candidate is lost on the way. *)
LEMMA ReaderKeeps ==
    ASSUME DiskCallInv, TableInv', LineReadInv', Collecting, Collecting',
           UNCHANGED <<status, rows, everMounted, ledTo, uncovered>>,
           \A m : Ahead(m)' => Ahead(m),
           pc' = "space" => \A i \in 1 .. Len(rows) : rows[i].mount # mount',
           ~more' => \A m \in Candidates \ unmeasured' :
             Ahead(m) \/ (pc = "space" /\ m = mount) => Ahead(m)' \/ (pc' = "space" /\ m = mount'),
           unmeasured \subseteq unmeasured', more => more'
    PROVE  DiskCallInv'
  <1>1. MeasuredInv'
    <2>1. ASSUME NEW i \in 1 .. Len(rows) PROVE ~Ahead(rows[i].mount)'
      BY DEF DiskCallInv, MeasuredInv
    <2> QED BY <2>1 DEF DiskCallInv, MeasuredInv
  <1>2. OnTopInv'
    <2> SUFFICES ASSUME ~more', NEW m \in (uncovered \cap Candidates) \ unmeasured'
                 PROVE  Ahead(m)' \/ (pc' = "space" /\ m = mount') \/ HasRow(m)'
      BY DEF OnTopInv, DiskCallInv, OrderedInv, Collecting
    <2>1. Ahead(m) \/ (pc = "space" /\ m = mount) \/ HasRow(m)
      BY DEF DiskCallInv, OnTopInv
    <2>2. HasRow(m) => HasRow(m)'
      BY DEF HasRow
    <2> QED BY <2>1, <2>2
  <1>3. OrderedInv'
    BY DEF DiskCallInv, OrderedInv, Collecting
  <1> QED BY <1>1, <1>2, <1>3 DEF DiskCallInv

(* Opening the list reads none of it. *)
LEMMA OpenedKeeps ==
    ASSUME DiskCallInv, MountinfoOpened
    PROVE  DiskCallInv'
  <1>0. pc = "start" /\ pc' = "lines" /\ UNCHANGED <<status, rows, more, diskVars>>
    BY DEF MountinfoOpened, At, Goto
  <1>1. \A m : Ahead(m)' <=> Ahead(m)
    BY <1>0 DEF Ahead, Unread, diskVars
  <1>2. TableInv'
    BY <1>0, TableSame DEF DiskCallInv, TableInv, diskVars
  <1>3. LineReadInv'
    <2>1. \A m : Unread(m)' <=> Unread(m)
      BY <1>0 DEF Unread, diskVars
    <2> QED BY <1>0, <2>1 DEF DiskCallInv, LineReadInv, diskVars
  <1>4. Collecting /\ Collecting'
    BY <1>0 DEF Collecting
  <1> QED BY <1>0, <1>1, <1>2, <1>3, <1>4, ReaderKeeps DEF diskVars

(* The lines the stream reads ahead are the ones that come next. *)
LEMMA ReadLinesKeeps ==
    ASSUME DiskCallInv, ReadLines
    PROVE  DiskCallInv'
  <1> DEFINE L == Len(mounted)
  <1>0. /\ pc = "lines" /\ lines = <<>> /\ cursor < L
        /\ UNCHANGED <<pc, status, rows, more, mounted, everMounted, ledTo, uncovered, mount, unmeasured>>
    BY DEF ReadLines, At, callVars
  <1>t. /\ mounted \in Seq(Mounts) /\ L \in Nat /\ cursor \in 0 .. L
        /\ \A i, j \in 1 .. L : mounted[i] = mounted[j] => i = j
        /\ \A i \in 1 .. L : mounted[i] \in everMounted
    BY DEF DiskCallInv, TableInv, Table
  <1>1. PICK last \in cursor + 1 .. L : lines' = SubSeq(mounted, cursor + 1, last) /\ cursor' = last
    BY DEF ReadLines
  <1>2. /\ lines' \in Seq(Mounts) /\ Len(lines') = last - cursor
        /\ \A k \in 1 .. last - cursor : lines'[k] = mounted[cursor + k]
    <2>1. lines' \in Seq(Mounts) /\ Len(lines') = last - cursor
      BY <1>t, <1>1
    <2>2. ASSUME NEW k \in 1 .. last - cursor PROVE lines'[k] = mounted[cursor + k]
      <3>1. lines'[k] = mounted[(cursor + 1) + k - 1]
        BY <1>t, <1>1, <2>1
      <3>2. (cursor + 1) + k - 1 = cursor + k
        BY <1>t, <1>1
      <3> QED BY <3>1, <3>2
    <2> QED BY <2>1, <2>2
  <1> HIDE DEF L
  <1>3. ASSUME NEW m, Ahead(m)' PROVE Ahead(m)
    <2>1. CASE Unread(m)'
      <3>1. PICK j \in last + 1 .. L : mounted[j] = m
        BY <1>0, <1>1, <2>1 DEF Unread, L
      <3>2. j \in cursor + 1 .. L
        BY <1>t, <1>1
      <3> QED BY <3>1, <3>2 DEF Ahead, Unread, L
    <2>2. CASE \E i \in 1 .. Len(lines') : lines'[i] = m
      <3>1. PICK i \in 1 .. last - cursor : lines'[i] = m
        BY <1>2, <2>2
      <3>2. cursor + i \in cursor + 1 .. L
        BY <1>t, <1>1
      <3> QED BY <1>2, <3>1, <3>2 DEF Ahead, Unread, L
    <2> QED BY <1>3, <2>1, <2>2 DEF Ahead
  <1>4. ASSUME NEW m, Ahead(m) PROVE Ahead(m)'
    <2>1. PICK j \in cursor + 1 .. L : mounted[j] = m
      BY <1>0, <1>4 DEF Ahead, Unread, L
    <2>2. CASE j <= last
      <3>1. j - cursor \in 1 .. last - cursor /\ cursor + (j - cursor) = j
        BY <1>t, <1>1, <2>2
      <3>2. lines'[j - cursor] = m
        BY <1>2, <2>1, <3>1
      <3> QED BY <1>2, <3>1, <3>2 DEF Ahead
    <2>3. CASE j > last
      <3>1. j \in last + 1 .. L
        BY <1>t, <1>1, <2>3
      <3> QED BY <1>0, <1>1, <2>1, <3>1 DEF Ahead, Unread, L
    <2> QED BY <1>t, <1>1, <2>2, <2>3
  <1>5. TableInv'
    <2>1. cursor' \in 0 .. L
      BY <1>t, <1>1
    <2> QED BY <1>0, <2>1, TableSame DEF DiskCallInv, L
  <1>6. LineReadInv'
    <2>1. ASSUME NEW k \in 1 .. last - cursor
          PROVE  lines'[k] \in everMounted /\ ~Unread(lines[k])'
      <3>1. cursor + k \in 1 .. L /\ cursor + k <= last
        BY <1>t, <1>1
      <3>2. \A j \in last + 1 .. L : j \in 1 .. L /\ j # cursor + k
        BY <1>t, <1>1, <3>1
      <3>3. \A j \in last + 1 .. L : mounted[j] # lines'[k]
        BY <1>t, <1>2, <3>1, <3>2
      <3> QED BY <1>0, <1>1, <1>2, <1>t, <3>1, <3>3 DEF Unread, L
    <2>2. ASSUME NEW i \in 1 .. last - cursor, NEW j \in 1 .. last - cursor, lines'[i] = lines'[j]
          PROVE  i = j
      <3>1. cursor + i \in 1 .. L /\ cursor + j \in 1 .. L
        BY <1>t, <1>1
      <3>2. cursor + i = cursor + j
        BY <1>t, <1>2, <2>2, <3>1
      <3> QED BY <1>t, <1>1, <3>2
    <2> QED BY <1>0, <1>2, <2>1, <2>2 DEF DiskCallInv, LineReadInv
  <1>7. Collecting /\ Collecting'
    BY <1>0 DEF Collecting
  <1> QED BY <1>0, <1>3, <1>4, <1>5, <1>6, <1>7, ReaderKeeps

(* A line that is taken is a candidate to measure, or is passed over. *)
LEMMA TakeLineKeeps ==
    ASSUME DiskCallInv, TakeLine
    PROVE  DiskCallInv'
  <1>0. /\ pc = "lines" /\ lines # <<>> /\ mount' = Head(lines) /\ lines' = Tail(lines)
        /\ pc' = (IF mount' \in Candidates THEN "space" ELSE "lines")
        /\ UNCHANGED <<status, rows, more, mounted, cursor, everMounted, ledTo, uncovered, unmeasured>>
    BY DEF TakeLine, At, Goto, tableVars, is_disk_usage_mount_candidate
  <1> DEFINE N == Len(lines)
  <1>t. /\ lines \in Seq(Mounts) /\ N \in Nat /\ N > 0
        /\ \A i \in 1 .. N : lines[i] \in everMounted /\ ~Unread(lines[i])
        /\ \A i, j \in 1 .. N : lines[i] = lines[j] => i = j
    BY <1>0 DEF DiskCallInv, LineReadInv
  <1>1. /\ lines' \in Seq(Mounts) /\ Len(lines') = N - 1 /\ mount' = lines[1] /\ mount' \in Mounts
        /\ \A k \in 1 .. N - 1 : lines'[k] = lines[k + 1]
    BY <1>0, <1>t
  <1> HIDE DEF N
  <1>u. \A m : Unread(m)' <=> Unread(m)
    BY <1>0 DEF Unread
  <1>2. ASSUME NEW m, Ahead(m)' PROVE Ahead(m)
    <2>1. CASE \E i \in 1 .. N - 1 : lines'[i] = m
      <3>1. PICK i \in 1 .. N - 1 : lines'[i] = m
        BY <2>1
      <3>2. i + 1 \in 1 .. N /\ lines[i + 1] = m
        BY <1>t, <1>1, <3>1
      <3> QED BY <3>2 DEF Ahead, N
    <2> QED BY <1>1, <1>2, <1>u, <2>1 DEF Ahead
  <1>3. ASSUME NEW m, Ahead(m), m # mount' PROVE Ahead(m)'
    <2>1. CASE \E i \in 1 .. N : lines[i] = m
      <3>1. PICK i \in 1 .. N : lines[i] = m
        BY <2>1
      <3>2. i # 1
        BY <1>1, <1>3, <3>1
      <3>3. i - 1 \in 1 .. N - 1 /\ (i - 1) + 1 = i
        BY <1>t, <3>2
      <3>4. lines'[i - 1] = m
        BY <1>1, <3>1, <3>3
      <3> QED BY <1>1, <3>3, <3>4 DEF Ahead
    <2> QED BY <1>3, <1>u, <2>1 DEF Ahead, N
  <1>4. 1 \in 1 .. N /\ Ahead(mount') /\ ~Ahead(mount)'
    <2>1. 1 \in 1 .. N
      BY <1>t
    <2>2. Ahead(mount')
      BY <1>1, <2>1 DEF Ahead, N
    <2>3. ~Unread(mount)'
      BY <1>1, <1>t, <1>u, <2>1
    <2>4. ASSUME NEW k \in 1 .. N - 1 PROVE lines'[k] # mount'
      <3>1. k + 1 \in 1 .. N /\ k + 1 # 1
        BY <1>t
      <3> QED BY <1>1, <1>t, <2>1, <3>1
    <2> QED BY <1>1, <2>1, <2>2, <2>3, <2>4 DEF Ahead
  <1>5. TableInv'
    BY <1>0, TableSame DEF DiskCallInv, TableInv
  <1>6. LineReadInv'
    <2>1. ASSUME NEW k \in 1 .. N - 1
          PROVE  lines'[k] \in everMounted /\ ~Unread(lines[k])'
      <3>1. k + 1 \in 1 .. N
        BY <1>t
      <3> QED BY <1>1, <1>t, <1>u, <3>1
    <2>2. ASSUME NEW i \in 1 .. N - 1, NEW j \in 1 .. N - 1, lines'[i] = lines'[j]
          PROVE  i = j
      <3>1. i + 1 \in 1 .. N /\ j + 1 \in 1 .. N
        BY <1>t
      <3>2. i + 1 = j + 1
        BY <1>t, <1>1, <2>2, <3>1
      <3> QED BY <1>t, <3>2
    <2>3. pc' = "space" => mount' \in everMounted \cap Candidates
      BY <1>0, <1>1, <1>4, <1>t
    <2> QED BY <1>0, <1>1, <1>4, <2>1, <2>2, <2>3 DEF LineReadInv
  <1>7. Collecting /\ Collecting'
    BY <1>0 DEF Collecting
  <1>8. \A i \in 1 .. Len(rows) : rows[i].mount # mount'
    BY <1>4, <1>7 DEF DiskCallInv, MeasuredInv
  <1>9. \A m \in Candidates : Ahead(m) => Ahead(m)' \/ (pc' = "space" /\ m = mount')
    BY <1>0, <1>3
  <1> QED BY <1>0, <1>2, <1>5, <1>6, <1>7, <1>8, <1>9, ReaderKeeps

(* A mount that cannot be measured is passed over, and so is one for which there is
   no room: then the report is marked. *)
LEMMA PassedKeeps ==
    ASSUME DiskCallInv, pc = "space", pc' = "lines",
           UNCHANGED <<status, rows, tableVars, lines, mount>>,
           unmeasured \subseteq unmeasured', more => more', more' \/ mount \in unmeasured'
    PROVE  DiskCallInv'
  <1>u. \A m : Unread(m)' <=> Unread(m)
    BY DEF Unread, tableVars
  <1>1. \A m : Ahead(m)' <=> Ahead(m)
    BY <1>u DEF Ahead
  <1>2. TableInv'
    BY TableSame DEF DiskCallInv, TableInv, tableVars
  <1>3. LineReadInv'
    BY <1>u DEF DiskCallInv, LineReadInv, tableVars
  <1>4. Collecting /\ Collecting'
    BY DEF Collecting
  <1> QED BY <1>1, <1>2, <1>3, <1>4, ReaderKeeps DEF tableVars

(* A mount is measured as what its mount point leads to now, which is the mount
   itself if it has been on top all the time. *)
LEMMA MeasureKeeps ==
    ASSUME DiskCallInv, pc = "space", UNCHANGED diskVars, NEW S, rows \in Seq(S),
           AddRow(DiskRow(mount, Resolved(mounted, MountPoint[mount])), "lines")
    PROVE  DiskCallInv'
  <1> DEFINE L == Len(rows)
             row == DiskRow(mount, Resolved(mounted, MountPoint[mount]))
  <1>0. /\ pc' = "lines" /\ rows' = Append(rows, row) /\ UNCHANGED <<status, more, diskVars>>
    BY DEF AddRow
  <1>r. /\ row.mount = mount /\ row.measured = Resolved(mounted, MountPoint[mount])
        /\ row.used_percent = used_percent(Space[row.measured])
    BY DEF DiskRow
  <1>a. /\ L \in Nat /\ Len(rows') = L + 1
        /\ \A i \in 1 .. L : rows'[i] = rows[i]
        /\ rows'[L + 1] = row
    BY <1>0, AppendRow
  <1> HIDE DEF L, row
  <1>u. \A m : Unread(m)' <=> Unread(m)
    BY <1>0 DEF Unread, diskVars
  <1>h. \A m : Ahead(m)' <=> Ahead(m)
    BY <1>0, <1>u DEF Ahead, diskVars
  <1>m. /\ mount \in everMounted \cap Candidates /\ ~Ahead(mount)
        /\ \A i \in 1 .. L : ~Ahead(rows[i].mount) /\ rows[i].mount # mount
    BY DEF DiskCallInv, LineReadInv, MeasuredInv, Collecting, L
  <1>p. /\ row.measured \in ledTo[MountPoint[mount]]
        /\ mount \in uncovered => row.measured = mount
    <2>1. MountPoint[mount] \in Points
      BY <1>m DEF DiskCallInv, TableInv, Points
    <2> QED BY <1>r, <2>1 DEF DiskCallInv, TableInv
  <1>2. TableInv'
    BY <1>0, TableSame DEF DiskCallInv, TableInv, diskVars
  <1>3. LineReadInv'
    BY <1>0, <1>u DEF DiskCallInv, LineReadInv, diskVars
  <1>4. MeasuredInv'
    <2>1. ASSUME NEW i \in 1 .. L + 1
          PROVE  /\ rows'[i].mount \in Candidates \cap everMounted
                 /\ rows'[i].measured \in ledTo[MountPoint[rows'[i].mount]]
                 /\ rows'[i].used_percent = used_percent(Space[rows'[i].measured])
                 /\ rows'[i].mount \in uncovered => rows'[i].measured = rows'[i].mount
                 /\ ~Ahead(rows'[i].mount)
      <3>1. CASE i \in 1 .. L
        <4>1. rows'[i] = rows[i]
          BY <1>a, <3>1
        <4> QED BY <1>m, <3>1, <4>1 DEF DiskCallInv, MeasuredInv, L
      <3>2. CASE i = L + 1
        BY <1>a, <1>m, <1>p, <1>r, <3>2
      <3> QED BY <1>a, <3>1, <3>2
    <2>2. ASSUME NEW i \in 1 .. L + 1, NEW j \in 1 .. L + 1, rows'[i].mount = rows'[j].mount
          PROVE  i = j
      <3>1. CASE i \in 1 .. L /\ j \in 1 .. L
        BY <1>a, <2>2, <3>1 DEF DiskCallInv, MeasuredInv, L
      <3>2. CASE i = L + 1 /\ j \in 1 .. L
        BY <1>a, <1>m, <1>r, <2>2, <3>2
      <3>3. CASE j = L + 1 /\ i \in 1 .. L
        BY <1>a, <1>m, <1>r, <2>2, <3>3
      <3> QED BY <1>a, <3>1, <3>2, <3>3
    <2>3. ASSUME NEW i \in 1 .. L + 1 PROVE ~Ahead(rows[i].mount)'
      BY <1>h, <2>1
    <2> QED BY <1>0, <1>a, <2>1, <2>2, <2>3 DEF MeasuredInv, diskVars
  <1>5. OnTopInv'
    <2> SUFFICES ASSUME ~more, NEW m \in (uncovered \cap Candidates) \ unmeasured
                 PROVE  Ahead(m)' \/ \E i \in 1 .. L + 1 : rows'[i].mount = m
      BY <1>0, <1>a DEF OnTopInv, DiskCallInv, OrderedInv, Collecting, HasRow, diskVars
    <2>1. Ahead(m) \/ m = mount \/ \E i \in 1 .. L : rows[i].mount = m
      BY DEF DiskCallInv, OnTopInv, Collecting, HasRow, L
    <2>2. CASE m = mount
      <3>1. L + 1 \in 1 .. L + 1
        BY <1>a
      <3> QED BY <1>a, <1>r, <2>2, <3>1
    <2>3. CASE \E i \in 1 .. L : rows[i].mount = m
      <3>1. PICK i \in 1 .. L : rows[i].mount = m
        BY <2>3
      <3>2. i \in 1 .. L + 1 /\ rows'[i].mount = m
        BY <1>a, <3>1
      <3> QED BY <3>2
    <2> QED BY <1>h, <2>1, <2>2, <2>3
  <1>6. OrderedInv'
    BY <1>0 DEF DiskCallInv, OrderedInv, Collecting
  <1> QED BY <1>2, <1>3, <1>4, <1>5, <1>6 DEF DiskCallInv

(* Sorting moves the rows, and neither adds nor loses one. *)
LEMMA SortKeeps ==
    ASSUME DiskCallInv, DiskReturns, NEW S, rows \in Seq(S)
    PROVE  DiskCallInv'
  <1> DEFINE L == Len(rows)
  <1>0. /\ pc = "lines" /\ lines = <<>> /\ cursor = Len(mounted) /\ UNCHANGED diskVars
        /\ \E rs \in Orders(rows) : Return(rs, Caption(rs))
    BY DEF DiskReturns, At
  <1>1. PICK rs \in Orders(rows) : Return(rs, Caption(rs))
    BY <1>0
  <1>2. pc' = "format" /\ rows' = rs /\ UNCHANGED <<status, more>>
    BY <1>1 DEF Return
  <1>3. PICK p \in Bijection(1 .. L, 1 .. L) : rs = [i \in 1 .. L |-> rows[p[i]]]
    BY DEF Orders
  <1>4. \A i \in 1 .. L : i > 1 => MountPoint[rs[i - 1].mount] <= MountPoint[rs[i].mount]
    BY DEF Orders
  <1>5. /\ p \in [1 .. L -> 1 .. L]
        /\ \A i, j \in 1 .. L : p[i] = p[j] => i = j
        /\ \A k \in 1 .. L : \E i \in 1 .. L : p[i] = k
    BY <1>3 DEF Bijection, Injection, Surjection, IsInjective
  <1>6. /\ L \in Nat /\ Len(rs) = L
        /\ \A i \in 1 .. L : p[i] \in 1 .. L /\ rs[i] = rows[p[i]]
    <2>1. L \in Nat
      OBVIOUS
    <2> HIDE DEF L
    <2>2. Len(rs) = L
      BY <1>3, <2>1
    <2> QED BY <1>3, <1>5, <2>1, <2>2
  <1> HIDE DEF L
  <1>7. TableInv'
    BY <1>0, TableSame DEF DiskCallInv, TableInv, diskVars
  <1>8. LineReadInv'
    <2>1. \A m : Unread(m)' <=> Unread(m)
      BY <1>0 DEF Unread, diskVars
    <2> QED BY <1>0, <1>2, <2>1 DEF DiskCallInv, LineReadInv, diskVars
  <1>9. ASSUME NEW i \in 1 .. L
        PROVE  /\ rs[i].mount \in Candidates \cap everMounted
               /\ rs[i].measured \in ledTo[MountPoint[rs[i].mount]]
               /\ rs[i].used_percent = used_percent(Space[rs[i].measured])
               /\ rs[i].mount \in uncovered => rs[i].measured = rs[i].mount
    <2>1. p[i] \in 1 .. L /\ rs[i] = rows[p[i]]
      BY <1>6
    <2> QED BY <2>1 DEF DiskCallInv, MeasuredInv, L
  <1>10. MeasuredInv'
    <2>1. ASSUME NEW i \in 1 .. L, NEW j \in 1 .. L, rs[i].mount = rs[j].mount
          PROVE  i = j
      <3>1. p[i] \in 1 .. L /\ p[j] \in 1 .. L /\ rows[p[i]].mount = rows[p[j]].mount
        BY <1>6, <2>1
      <3>2. p[i] = p[j]
        BY <3>1 DEF DiskCallInv, MeasuredInv, L
      <3> QED BY <1>5, <3>2
    <2>2. ~Collecting'
      BY <1>2 DEF Collecting
    <2> QED BY <1>0, <1>2, <1>6, <1>9, <2>1, <2>2 DEF MeasuredInv, diskVars
  <1>11. OnTopInv'
    <2> SUFFICES ASSUME ~more, NEW m \in (uncovered \cap Candidates) \ unmeasured
                 PROVE  \E i \in 1 .. L : rs[i].mount = m
      BY <1>0, <1>2, <1>6 DEF OnTopInv, Collecting, HasRow, diskVars
    <2>1. ~Ahead(m)
      <3>1. cursor \in Int /\ cursor = Len(mounted) /\ lines = <<>>
        BY <1>0 DEF DiskCallInv, TableInv
      <3>2. cursor + 1 .. Len(mounted) = {} /\ 1 .. Len(lines) = {}
        BY <3>1
      <3> QED BY <3>2 DEF Ahead, Unread
    <2>2. \E k \in 1 .. L : rows[k].mount = m
      BY <1>0, <2>1 DEF DiskCallInv, OnTopInv, Collecting, HasRow, L
    <2>3. PICK k \in 1 .. L : rows[k].mount = m
      BY <2>2
    <2>4. PICK i \in 1 .. L : p[i] = k
      BY <1>5
    <2> QED BY <1>6, <2>3, <2>4
  <1>12. OrderedInv'
    <2> DEFINE f == [i \in 1 .. L |-> MountPoint[rs[i].mount]]
    <2>1. \A i \in 1 .. L : MountPoint[rs[i].mount] \in Nat
      <3>1. \A i \in 1 .. L : rs[i].mount \in Mounts
        BY <1>9 DEF DiskCallInv, TableInv
      <3> QED BY <3>1, DiskAssumption
    <2>2. f \in [1 .. L -> Nat]
      BY <2>1
    <2>3. \A i \in 1 .. L : i > 1 => f[i - 1] <= f[i]
      <3> SUFFICES ASSUME NEW i \in 1 .. L, i > 1 PROVE f[i - 1] <= f[i]
        OBVIOUS
      <3>1. i - 1 \in 1 .. L
        BY <1>6
      <3> QED BY <1>4, <3>1
    <2>4. \A i, j \in 1 .. L : j < i => f[j] <= f[i]
      <3> HIDE DEF f
      <3> QED BY <1>6, <2>2, <2>3, SortedThroughout
    <2>5. \A i, j \in 1 .. L : j < i => MountPoint[rs[j].mount] <= MountPoint[rs[i].mount]
      BY <2>4
    <2>6. status' # "ok"
      BY <1>0, <1>2 DEF DiskCallInv, OrderedInv
    <2> QED BY <1>2, <1>6, <2>5, <2>6 DEF OrderedInv
  <1> QED BY <1>7, <1>8, <1>10, <1>11, <1>12 DEF DiskCallInv

(* Giving up, formatting and standing still. *)
LEMMA DiskFrame ==
    ASSUME DiskCallInv, UNCHANGED <<rows, more, diskVars>>,
           \/ pc' = pc /\ status' = status
           \/ pc' = "done" /\ status' = "error"
           \/ pc = "format" /\ pc' = "done" /\ status' = "ok"
    PROVE  DiskCallInv'
  <1>u. \A m : Unread(m)' <=> Unread(m)
    BY DEF Unread, diskVars
  <1>h. \A m : Ahead(m)' <=> Ahead(m)
    BY <1>u DEF Ahead, diskVars
  <1>r. \A m : HasRow(m)' <=> HasRow(m)
    BY DEF HasRow
  <1>1. TableInv'
    BY TableSame DEF DiskCallInv, TableInv, diskVars
  <1>2. LineReadInv'
    BY <1>u, <1>h DEF DiskCallInv, LineReadInv, diskVars
  <1>3. MeasuredInv'
    <2>1. Collecting' => Collecting /\ pc' = pc
      BY DEF Collecting
    <2>2. ASSUME NEW i \in 1 .. Len(rows), ~Ahead(rows[i].mount) PROVE ~Ahead(rows[i].mount)'
      BY <1>h, <2>2
    <2> QED BY <2>1, <2>2 DEF DiskCallInv, MeasuredInv, diskVars
  <1>4. OnTopInv'
    BY <1>h, <1>r DEF DiskCallInv, OnTopInv, diskVars, Collecting
  <1>5. OrderedInv'
    BY DEF DiskCallInv, OrderedInv, Collecting
  <1> QED BY <1>1, <1>2, <1>3, <1>4, <1>5 DEF DiskCallInv

(* Every step of disk.usage, and of the system under it. *)
LEMMA DiskStepKeeps ==
    ASSUME LinesInv, DiskInv, [SNext]_sVars
    PROVE  DiskInv'
  <1>n. Disk \notin DirectoryTools
    BY DEF Network, Power, Hardware, Disk, DirectoryTools
  <1>r. PICK S : rows \in Seq(S)
    BY DEF LinesInv
  <1>t. tool' = tool
    <2>1. CASE NetworkStep \/ PowerStep \/ HardwareStep
      BY <2>1 DEF NetworkStep, NetworkUnavailable, NetworkExists, CollectAddresses, CollectRoutes,
           NetworkOpenFails, NetworkReturns, NetworkRow,
           PowerStep, PowerUnavailable, PowerExists, PowerOpenFails, PowerReturns,
           HardwareStep, HardwareUnavailable, ReadScalars, DrmExists, NoGpus, ExistsThrows,
           HardwareReturns, DirectoryStep, ListDrmEntry, NextCard, DeviceExists,
           DirectoryLoop, OpenDirectory, ListEntry, ListEnd, ListThrows, NextName, ReadFirst,
           ReadRow, AddRow, Admit, Return, Goto, Failure, callVars
    <2>2. CASE DiskStep \/ FormatLine \/ FormatDone \/ SystemChanges \/ UNCHANGED sVars
      BY <2>2 DEF DiskStep, MountinfoUnavailable, MountinfoOpened, ReadLines, TakeLine, SpaceFails,
           MeasureSpace, DiskReturns, AddRow, Admit, Return, Goto, Failure, callVars, FormatLine,
           FormatDone, SystemChanges, DirectoryChanges, TableChanges, Changing, sVars
    <2> QED BY <2>1, <2>2 DEF SNext
  <1> SUFFICES ASSUME tool = Disk PROVE DiskCallInv'
    BY <1>t DEF DiskInv
  <1>0. DiskCallInv
    BY DEF DiskInv
  <1>1. CASE UNCHANGED sVars
    BY <1>0, <1>1, DiskFrame DEF sVars, callVars
  <1>2. ~NetworkStep /\ ~PowerStep /\ ~HardwareStep
    BY DEF NetworkStep, NetworkUnavailable, NetworkExists, CollectAddresses, CollectRoutes,
           NetworkOpenFails, NetworkReturns, NetworkRow,
           PowerStep, PowerUnavailable, PowerExists, PowerOpenFails, PowerReturns,
           HardwareStep, HardwareUnavailable, ReadScalars, DrmExists, NoGpus, ExistsThrows,
           HardwareReturns, DirectoryStep, ListDrmEntry, NextCard, DeviceExists,
           DirectoryLoop, OpenDirectory, ListEntry, ListEnd, ListThrows, NextName, ReadFirst,
           ReadRow, NoMoreNames, At, Network, Power, Hardware, Disk
  <1>3. CASE DiskStep
    <2>1. CASE MountinfoUnavailable
      BY <1>0, <2>1, DiskFrame DEF MountinfoUnavailable, Failure
    <2>2. CASE MountinfoOpened
      BY <1>0, <2>2, OpenedKeeps
    <2>3. CASE ReadLines
      BY <1>0, <2>3, ReadLinesKeeps
    <2>4. CASE TakeLine
      BY <1>0, <2>4, TakeLineKeeps
    <2>5. CASE SpaceFails
      BY <1>0, <2>5, PassedKeeps DEF SpaceFails, At, Goto
    <2>6. CASE MeasureSpace
      <3>1. CASE Len(rows) < kMaxDiskUsageRows
        BY <1>0, <1>r, <2>6, <3>1, MeasureKeeps DEF MeasureSpace, At
      <3>2. CASE ~(Len(rows) < kMaxDiskUsageRows)
        <4>1. Admit(kMaxDiskUsageRows, "lines", "lines") /\ pc = "space" /\ UNCHANGED diskVars
          BY <2>6, <3>2 DEF MeasureSpace, At
        <4>2. Len(rows) >= kMaxDiskUsageRows
          BY <1>r, <3>2, DiskAssumption
        <4>3. more' /\ pc' = "lines" /\ UNCHANGED <<status, rows>>
          BY <4>1, <4>2 DEF Admit
        <4> QED BY <1>0, <4>1, <4>3, PassedKeeps DEF diskVars, tableVars
      <3> QED BY <3>1, <3>2
    <2>7. CASE DiskReturns
      BY <1>0, <1>r, <2>7, SortKeeps
    <2> QED BY <1>3, <2>1, <2>2, <2>3, <2>4, <2>5, <2>6, <2>7 DEF DiskStep
  <1>4. CASE (FormatLine \/ FormatDone) /\ UNCHANGED <<dirVars, netVars, hwVars, diskVars>>
    BY <1>0, <1>4, DiskFrame DEF FormatLine, FormatDone
  <1>5. CASE SystemChanges
    <2>1. TableChanges
      BY <1>5, <1>n DEF SystemChanges
    <2>2. Collecting /\ UNCHANGED <<callVars, lines, mount, unmeasured>>
      BY <1>0, <2>1 DEF TableChanges, Changing, DiskCallInv, OrderedInv
    <2>3. CASE \E m \in Mounts : Mount(m)
      BY <1>0, <2>2, <2>3, MountKeeps
    <2>4. CASE \E i \in 1 .. Len(mounted) : Unmount(i)
      BY <1>0, <2>2, <2>4, UnmountKeeps
    <2> QED BY <2>1, <2>3, <2>4 DEF TableChanges
  <1> QED BY <1>1, <1>2, <1>3, <1>4, <1>5 DEF SNext

(* The first list of mounts begins with the root and repeats none. *)
LEMMA DiskInitInv == SInit => DiskInv
  <1> SUFFICES ASSUME SInit, tool = Disk PROVE DiskCallInv
    BY DEF DiskInv
  <1>1. /\ DiskInit /\ pc = "start" /\ status = "none" /\ rows = <<>> /\ more = FALSE
    BY DEF SInit, RInit
  <1>2. PICK ms \in SUBSET (Mounts \ {Root}) : mounted \in TablesOf(ms)
    BY <1>1 DEF DiskInit
  <1>3. PICK s \in SetToSeqs(ms) : mounted = <<Root>> \o s
    BY <1>2 DEF TablesOf
  <1> DEFINE N == Cardinality(ms)
  <1>4. N \in Nat
    BY FS_Subset, FS_CardinalityType, DiskAssumption
  <1>5. s \in [1 .. N -> ms] /\ \A i, j \in 1 .. N : i # j => s[i] # s[j]
    BY <1>3 DEF SetToSeqs
  <1> HIDE DEF N
  <1>6. s \in Seq(Mounts) /\ Len(s) = N
    BY <1>4, <1>5
  <1>7. /\ mounted \in Seq(Mounts) /\ Len(mounted) = N + 1 /\ mounted[1] = Root
        /\ \A i \in 2 .. N + 1 : mounted[i] = s[i - 1]
    <2>1. <<Root>> \in Seq(Mounts) /\ Len(<<Root>>) = 1 /\ <<Root>>[1] = Root
      BY DiskAssumption
    <2>2. mounted \in Seq(Mounts) /\ Len(mounted) = 1 + N
      BY <1>3, <1>6, <2>1
    <2>3. mounted[1] = Root
      BY <1>3, <1>4, <1>6, <2>1
    <2>4. ASSUME NEW i \in 2 .. N + 1 PROVE mounted[i] = s[i - 1]
      BY <1>3, <1>4, <1>6, <2>1
    <2> QED BY <1>4, <2>2, <2>3, <2>4
  <1>8. Table(mounted)
    <2>1. ASSUME NEW i \in 1 .. N + 1, NEW j \in 1 .. N + 1, mounted[i] = mounted[j] PROVE i = j
      <3>1. ASSUME NEW k \in 2 .. N + 1 PROVE k - 1 \in 1 .. N /\ mounted[k] # Root
        BY <1>4, <1>5, <1>7
      <3>2. CASE i = 1 /\ j \in 2 .. N + 1
        BY <1>7, <2>1, <3>1, <3>2
      <3>3. CASE j = 1 /\ i \in 2 .. N + 1
        BY <1>7, <2>1, <3>1, <3>3
      <3>4. CASE i \in 2 .. N + 1 /\ j \in 2 .. N + 1
        <4>1. s[i - 1] = s[j - 1] /\ i - 1 \in 1 .. N /\ j - 1 \in 1 .. N
          BY <1>7, <2>1, <3>1, <3>4
        <4>2. i - 1 = j - 1
          BY <1>5, <4>1
        <4> QED BY <1>4, <4>2
      <3> QED BY <1>4, <3>2, <3>3, <3>4
    <2> QED BY <1>4, <1>7, <2>1 DEF Table
  <1>9. /\ cursor = 0 /\ lines = <<>> /\ mount = Root /\ unmeasured = {}
        /\ everMounted = Range(mounted) /\ uncovered = Tops(mounted)
        /\ ledTo = [point \in Points |-> {Resolved(mounted, point)}]
    BY <1>1 DEF DiskInit
  <1>10. everMounted = {mounted[i] : i \in 1 .. Len(mounted)}
    BY <1>7, <1>9 DEF Range
  <1>11. \A point \in Points : Resolved(mounted, point) \in Mounts
    BY <1>7, <1>8, ResolvedIsMounted
  <1>12. TableInv
    <2>1. \A m \in uncovered : m \in Mounts /\ Resolved(mounted, MountPoint[m]) = m
      BY <1>8, <1>9, TopsAreTops
    <2>2. ledTo \in [Points -> SUBSET Mounts]
      BY <1>9, <1>11
    <2>3. cursor \in 0 .. Len(mounted)
      BY <1>4, <1>7, <1>9
    <2>4. everMounted \subseteq Mounts /\ \A i \in 1 .. Len(mounted) : mounted[i] \in everMounted
      BY <1>7, <1>10
    <2> QED BY <1>8, <1>9, <2>1, <2>2, <2>3, <2>4 DEF TableInv
  <1>13. \A m \in uncovered : Ahead(m)
    <2> SUFFICES ASSUME NEW m \in uncovered PROVE \E j \in 1 .. Len(mounted) : mounted[j] = m
      BY <1>9 DEF Ahead, Unread
    <2> QED BY <1>8, <1>12, ResolvedIsMounted DEF TableInv
  <1>14. LineReadInv
    BY <1>1, <1>9, DiskAssumption DEF LineReadInv
  <1>15. MeasuredInv /\ OnTopInv /\ OrderedInv
    BY <1>1, <1>13 DEF MeasuredInv, OnTopInv, OrderedInv, Collecting
  <1> QED BY <1>12, <1>14, <1>15 DEF DiskCallInv

(* The invariant says of the rows what the property says. *)
LEMMA DiskRowsTrue == DiskInv => DiskRowsWereTrue
  <1> SUFFICES ASSUME DiskCallInv, status = "ok", NEW i \in 1 .. Len(rows)
               PROVE  /\ rows[i].mount \in Candidates \cap everMounted
                      /\ rows[i].measured \in ledTo[MountPoint[rows[i].mount]]
                      /\ \A j \in 1 .. i - 1 :
                           /\ rows[j].mount # rows[i].mount
                           /\ MountPoint[rows[j].mount] <= MountPoint[rows[i].mount]
                      /\ rows[i].used_percent = 100
                           <=> /\ Space[rows[i].measured].capacity > 0
                               /\ Space[rows[i].measured].available = 0
    BY DEF DiskInv, DiskRowsWereTrue
  <1>1. /\ rows[i].mount \in Candidates \cap everMounted
        /\ rows[i].measured \in ledTo[MountPoint[rows[i].mount]]
        /\ rows[i].used_percent = used_percent(Space[rows[i].measured])
    BY DEF DiskCallInv, MeasuredInv
  <1>2. \A j \in 1 .. i - 1 : j \in 1 .. Len(rows) /\ j < i /\ j # i
    OBVIOUS
  <1>3. \A j \in 1 .. i - 1 : /\ rows[j].mount # rows[i].mount
                             /\ MountPoint[rows[j].mount] <= MountPoint[rows[i].mount]
    BY <1>2 DEF DiskCallInv, MeasuredInv, OrderedInv
  <1>4. Space[rows[i].measured] \in [capacity : Nat, available : Nat]
    <2>1. rows[i].measured \in Mounts
      <3>1. MountPoint[rows[i].mount] \in Points
        BY <1>1 DEF DiskCallInv, TableInv, Points
      <3> QED BY <1>1, <3>1 DEF DiskCallInv, TableInv
    <2> QED BY <2>1, DiskAssumption
  <1> QED BY <1>1, <1>3, <1>4, FullIsFull

(* And of the mounts that stay on top. *)
LEMMA SteadyMounts == DiskInv => SteadyMountIsReported
  <1> SUFFICES ASSUME DiskCallInv, status = "ok", ~more,
                      NEW m \in (uncovered \cap Candidates) \ unmeasured
               PROVE  \E i \in 1 .. Len(rows) : rows[i].mount = m /\ rows[i].measured = m
    BY DEF DiskInv, SteadyMountIsReported
  <1>1. PICK i \in 1 .. Len(rows) : rows[i].mount = m
    BY DEF DiskCallInv, OnTopInv, HasRow
  <1>2. rows[i].measured = m
    BY <1>1 DEF DiskCallInv, MeasuredInv
  <1> QED BY <1>1, <1>2

-----------------------------------------------------------------------------
(* Whatever is mounted and unmounted while disk.usage reads the list of mounts and
   measures them one by one, each mount has at most one row, with the numbers of a
   file system its mount point led to during the call, and only a full one is
   shown as full. *)
THEOREM ReportedMountsWereTrue ==
    ASSUME Wording
    PROVE  SSpec => []DiskRowsWereTrue
  <1>1. (ReportInv /\ DiskInv) /\ [SNext]_sVars => (ReportInv /\ DiskInv)'
    BY ReportStep, DiskStepKeeps DEF ReportInv
  <1> QED BY <1>1, ReportInit, DiskInitInv, DiskRowsTrue, PTL DEF SSpec

(* And a mount that is on top throughout the call, and can be measured, has its
   row, unless the report says it is cut. *)
THEOREM SteadyMountsAreReported ==
    ASSUME Wording
    PROVE  SSpec => []SteadyMountIsReported
  <1>1. (ReportInv /\ DiskInv) /\ [SNext]_sVars => (ReportInv /\ DiskInv)'
    BY ReportStep, DiskStepKeeps DEF ReportInv
  <1> QED BY <1>1, ReportInit, DiskInitInv, SteadyMounts, PTL DEF SSpec

-----------------------------------------------------------------------------
(* What stands before the rows of the tool's report, and all of its lines. *)
Lead == IF tool = Hardware THEN Before(rows) ELSE Caption(rows)

All == Lines(Lead, rows, more)

TextsOf(all) == [i \in 1 .. Len(all) |-> all[i].text]

Beginning(all, k) == IF k = 0 THEN <<>> ELSE Joined(TextsOf(all))[k]

(* The formatter has appended the first k lines, and has the others before it unless
   it has given up after a cut. *)
Formatted(all, k) ==
    /\ given = Beginning(all, k)
    /\ \/ todo = <<>> /\ truncated
       \/ Len(todo) = Len(all) - k /\ \A i \in 1 .. Len(todo) : todo[i] = all[k + i]

(* The formatter is given nothing before the rows are returned, and ends with all
   lines done or the rest given up. *)
FormInv ==
    /\ status = "ok" => pc = "done" /\ todo = <<>>
    /\ pc \notin {"format", "done"} => given = <<>>
    /\ pc = "format" \/ status = "ok" => \E k \in 0 .. Len(All) : Formatted(All, k)

(* The texts of lines are sequences of texts; the beginnings of their join grow line
   by line, and the last is all of it. *)
LEMMA BeginningGrows ==
    ASSUME NEW all \in Seq(Line), NEW k \in 0 .. Len(all)
    PROVE  /\ k < Len(all) => Beginning(all, k + 1) = Beginning(all, k) \o all[k + 1].text
           /\ Beginning(all, k) \in Seq(Byte)
  <1> DEFINE T == TextsOf(all)
  <1>1. T \in Seq(Seq(Byte)) /\ Len(T) = Len(all) /\ \A i \in 1 .. Len(all) : T[i] = all[i].text
    <2>1. Len(all) \in Nat /\ all \in [1 .. Len(all) -> Line]
      OBVIOUS
    <2>2. \A i \in 1 .. Len(all) : all[i].text \in Seq(Byte)
      BY <2>1 DEF Line
    <2>3. T \in [1 .. Len(all) -> Seq(Byte)]
      BY <2>2 DEF TextsOf
    <2> QED BY <2>1, <2>3 DEF TextsOf
  <1> HIDE DEF T
  <1>2. \A n \in 0 .. Len(all) : Beginning(all, n) = JoinOf(T, n)
    BY DEF Beginning, JoinOf, T
  <1>3. k \in 0 .. Len(T) /\ (k < Len(all) => k + 1 \in 0 .. Len(all))
    BY <1>1
  <1>4. /\ k < Len(T) => JoinOf(T, k + 1) = JoinOf(T, k) \o T[k + 1]
        /\ JoinOf(T, k) \in Seq(Byte)
    BY <1>1, <1>3, JoinGrows
  <1>5. Beginning(all, k) = JoinOf(T, k)
        /\ (k < Len(all) => Beginning(all, k + 1) = JoinOf(T, k + 1))
    BY <1>2, <1>3
  <1>6. k < Len(all) => k + 1 \in 1 .. Len(all) /\ T[k + 1] = all[k + 1].text
    BY <1>1
  <1> QED BY <1>1, <1>4, <1>5, <1>6

(* A beginning is no longer than the whole. *)
LEMMA BeginningIsShorter ==
    ASSUME NEW all \in Seq(Line), NEW k \in 0 .. Len(all)
    PROVE  Len(Beginning(all, k)) <= Len(Beginning(all, Len(all)))
  <1> DEFINE N == Len(all)
             Good == {n \in Nat : n <= N => Len(Beginning(all, N - n)) <= Len(Beginning(all, N))}
  <1>0. N \in Nat
    OBVIOUS
  <1>1. \A n \in 0 .. N : Beginning(all, n) \in Seq(Byte)
    BY BeginningGrows
  <1>2. 0 \in Good
    <2>1. N - 0 = N /\ N \in 0 .. N
      BY <1>0
    <2>2. Len(Beginning(all, N)) \in Nat
      BY <1>1, <2>1
    <2> QED BY <2>1, <2>2
  <1>3. ASSUME NEW n \in Nat, n \in Good PROVE n + 1 \in Good
    <2> SUFFICES ASSUME n + 1 <= N PROVE Len(Beginning(all, N - (n + 1))) <= Len(Beginning(all, N))
      OBVIOUS
    <2> DEFINE j == N - (n + 1)
    <2>1. j \in 0 .. N /\ j < N /\ j + 1 = N - n /\ j + 1 \in 1 .. N /\ j + 1 \in 0 .. N /\ N \in 0 .. N
      BY <1>0
    <2> HIDE DEF j
    <2>2. Beginning(all, j + 1) = Beginning(all, j) \o all[j + 1].text
      BY <2>1, BeginningGrows
    <2>3. Beginning(all, j) \in Seq(Byte) /\ Beginning(all, j + 1) \in Seq(Byte) /\ Beginning(all, N) \in Seq(Byte)
      BY <1>1, <2>1
    <2>4. all[j + 1].text \in Seq(Byte)
      <3>1. all[j + 1] \in Line
        BY <2>1
      <3> QED BY <3>1 DEF Line
    <2>5. Len(Beginning(all, j)) <= Len(Beginning(all, j + 1))
      <3> DEFINE a == Beginning(all, j)
                 b == all[j + 1].text
      <3>1. a \in Seq(Byte) /\ b \in Seq(Byte) /\ Beginning(all, j + 1) = a \o b
        BY <2>2, <2>3, <2>4
      <3> HIDE DEF a, b
      <3>2. Len(a) <= Len(a \o b)
        BY <3>1
      <3> QED BY <3>1, <3>2 DEF a
    <2>6. Len(Beginning(all, j + 1)) <= Len(Beginning(all, N))
      BY <1>3, <2>1
    <2>7. Len(Beginning(all, j)) \in Nat /\ Len(Beginning(all, j + 1)) \in Nat /\ Len(Beginning(all, N)) \in Nat
      BY <2>3
    <2>8. Len(Beginning(all, j)) <= Len(Beginning(all, N))
      BY <2>5, <2>6, <2>7
    <2> QED BY <2>8 DEF j
  <1>4. Nat \subseteq Good
    <2> HIDE DEF Good
    <2> QED BY <1>2, <1>3, SetInduction
  <1>5. N - k \in Nat /\ N - k <= N /\ N - (N - k) = k
    BY <1>0
  <1> QED BY <1>4, <1>5

(* The lines of the report are lines. *)
LEMMA AllTyped ==
    ASSUME Wording, LinesInv
    PROVE  All \in Seq(Line)
  <1>1. PICK S : rows \in Seq(S)
    BY DEF LinesInv
  <1>2. Before(rows) \in Seq(Line) /\ Caption(rows) \in Seq(Line)
    BY BeforeTyped
  <1>3. Lead \in Seq(Line)
    BY <1>2 DEF Lead
  <1> QED BY <1>1, <1>3, LinesTyped DEF All

(* A step that leaves the formatter and its input alone. *)
LEMMA FormFrame ==
    ASSUME FormInv, UNCHANGED <<tool, pc, status, rows, more, todo, cpu, given, truncated>>
    PROVE  FormInv'
  <1>1. All' = All
    BY DEF All, Lead, Lines, Before, Caption
  <1>2. ASSUME NEW all, NEW k PROVE Formatted(all, k)' <=> Formatted(all, k)
    BY DEF Formatted
  <1> QED BY <1>1, <1>2 DEF FormInv, Formatted

(* A provider at work. *)
LEMMA WorkKeeps ==
    ASSUME FormInv, pc \notin {"format", "done"}, pc' # "format",
           given' = given, status' = status \/ status' = "error"
    PROVE  FormInv'
  BY DEF FormInv

(* The loops over a directory are such work. *)
LEMMA LoopWorks ==
    ASSUME NEW t, NEW cap, DirectoryLoop(t, cap)
    PROVE  /\ pc \notin {"format", "done"} /\ pc' # "format" /\ given' = given
           /\ status' = status \/ status' = "error"
  BY DEF DirectoryLoop, OpenDirectory, ListEntry, ListEnd, ListThrows, NextName, Admit, ReadFirst,
         Goto, Failure, At, vars, callVars

(* And so is reading a row. *)
LEMMA RowWorks ==
    ASSUME NEW t, NEW extra, ReadRow(t, extra)
    PROVE  /\ pc \notin {"format", "done"} /\ pc' # "format" /\ given' = given
           /\ status' = status
  BY DEF ReadRow, AddRow, At, vars

(* A provider that returns hands all the lines to the formatter. *)
LEMMA ReturnForms ==
    ASSUME FormInv, LinesInv', pc \notin {"format", "done"}, pc' = "format", given' = given,
           status' = status, todo' = All'
    PROVE  FormInv'
  <1>1. All' \in Seq(Line) /\ given' = <<>> /\ status' # "ok"
    BY DEF FormInv, LinesInv
  <1>2. 0 \in 0 .. Len(All') /\ Len(All') - 0 = Len(All') /\ \A i \in 1 .. Len(All') : 0 + i = i
    BY <1>1
  <1>3. Formatted(All, 0)'
    BY <1>1, <1>2 DEF Formatted, Beginning
  <1>4. (\E k \in 0 .. Len(All) : Formatted(All, k))'
    BY <1>2, <1>3
  <1> QED BY <1>1, <1>4 DEF FormInv

(* Appending a line appends the next one. *)
LEMMA LineForms ==
    ASSUME ReportInv, Wording, FormInv, FormatLine, UNCHANGED cpu
    PROVE  FormInv'
  <1>1. All' = All
    BY DEF FormatLine, All, Lead, Lines, Before, Caption
  <1>2. All \in Seq(Line) /\ todo \in Seq(Line) /\ todo # <<>> /\ pc = "format" /\ pc' = "format"
        /\ status' = status /\ status # "ok"
    BY AllTyped DEF ReportInv, LinesInv, FormatLine, FormInv
  <1>3. PICK k \in 0 .. Len(All) : Formatted(All, k)
    BY <1>2 DEF FormInv
  <1>4. Len(todo) = Len(All) - k /\ \A i \in 1 .. Len(todo) : todo[i] = All[k + i]
    BY <1>2, <1>3 DEF Formatted
  <1> DEFINE all == All
  <1>5. all \in Seq(Line) /\ all' = all
    BY <1>1, <1>2
  <1> HIDE DEF all
  <1>6. /\ k \in Nat /\ k < Len(all) /\ k + 1 \in 0 .. Len(all) /\ k \in 0 .. Len(all)
        /\ Len(todo) = Len(all) - k /\ Len(todo) \in Nat /\ Len(todo) >= 1
        /\ \A i \in 1 .. Len(todo) : todo[i] = all[k + i]
    <2>1. Len(todo) \in Nat /\ Len(todo) # 0
      BY <1>2
    <2> QED BY <2>1, <1>3, <1>4, <1>5 DEF all
  <1>7. Head(todo) = all[k + 1]
    BY <1>2, <1>6
  <1>8. given' = Beginning(all, k + 1)
    <2>1. given' = given \o Head(todo).text
      BY DEF FormatLine, AppendText
    <2>2. given = Beginning(all, k)
      BY <1>3 DEF Formatted, all
    <2>3. Beginning(all, k + 1) = Beginning(all, k) \o all[k + 1].text
      BY <1>5, <1>6, BeginningGrows
    <2> QED BY <1>7, <2>1, <2>2, <2>3
  <1>9. (todo' = <<>> /\ truncated') \/ todo' = Tail(todo)
    BY DEF FormatLine
  <1>10. \/ todo' = <<>> /\ truncated'
         \/ Len(todo') = Len(all) - (k + 1) /\ \A i \in 1 .. Len(todo') : todo'[i] = all[(k + 1) + i]
    <2>1. CASE todo' = Tail(todo)
      <3>1. Len(Tail(todo)) = Len(todo) - 1 /\ \A i \in 1 .. Len(todo) - 1 : Tail(todo)[i] = todo[i + 1]
        BY <1>2
      <3>2. Len(todo) - 1 = Len(all) - (k + 1)
        BY <1>6
      <3>3. ASSUME NEW i \in 1 .. Len(todo) - 1 PROVE Tail(todo)[i] = all[(k + 1) + i]
        <4>1. i + 1 \in 1 .. Len(todo) /\ k + (i + 1) = (k + 1) + i
          BY <1>6
        <4> QED BY <1>6, <3>1, <4>1
      <3> QED BY <2>1, <3>1, <3>2, <3>3
    <2> QED BY <1>9, <2>1
  <1>11. Formatted(All, k + 1)'
    BY <1>5, <1>8, <1>10 DEF Formatted, all
  <1>12. (\E j \in 0 .. Len(All) : Formatted(All, j))'
    <2>1. k + 1 \in 0 .. Len(All')
      BY <1>5, <1>6 DEF all
    <2> QED BY <1>11, <2>1
  <1> QED BY <1>2, <1>12 DEF FormInv

(* The formatter ends with the lines done. *)
LEMMA DoneForms ==
    ASSUME FormInv, FormatDone, UNCHANGED cpu
    PROVE  FormInv'
  <1>1. All' = All
    BY DEF FormatDone, All, Lead, Lines, Before, Caption
  <1>2. PICK k \in 0 .. Len(All) : Formatted(All, k)
    BY DEF FormatDone, FormInv
  <1>3. Formatted(All, k)'
    BY <1>1, <1>2 DEF FormatDone, Formatted, vars
  <1>4. (\E j \in 0 .. Len(All) : Formatted(All, j))'
    BY <1>1, <1>3
  <1> QED BY <1>4 DEF FormatDone, FormInv

(* Every step of a call keeps the formatter in step with the lines. *)
LEMMA FormStep ==
    ASSUME ReportInv, Wording, FormInv, [SNext]_sVars
    PROVE  FormInv'
  <1>0. LinesInv'
    BY ReportStep DEF ReportInv
  <1>1. CASE UNCHANGED sVars
    BY <1>1, FormFrame DEF sVars, callVars, vars, hwVars
  <1>2. CASE NetworkStep /\ UNCHANGED <<hwVars, diskVars>>
    <2>1. CASE NetworkReturns
      <3>1. todo' = All' /\ pc = "next" /\ pc' = "format" /\ given' = given /\ status' = status
        BY <2>1 DEF NetworkReturns, NoMoreNames, At, Return, vars, All, Lead, Network, Hardware
      <3> QED BY <1>0, <3>1, ReturnForms
    <2>2. CASE NetworkUnavailable \/ NetworkExists \/ CollectAddresses \/ CollectRoutes \/ NetworkOpenFails
      <3>1. /\ pc \notin {"format", "done"} /\ pc' # "format" /\ given' = given
            /\ status' = status \/ status' = "error"
        BY <2>2 DEF NetworkUnavailable, NetworkExists, CollectAddresses, CollectRoutes,
                    NetworkOpenFails, Failure, Goto, At, vars
      <3> QED BY <3>1, WorkKeeps
    <2>3. CASE DirectoryLoop(Network, kMaxNetworkRows) \/ NetworkRow
      <3>1. /\ pc \notin {"format", "done"} /\ pc' # "format" /\ given' = given
            /\ status' = status \/ status' = "error"
        BY <2>3, LoopWorks, RowWorks DEF NetworkRow
      <3> QED BY <3>1, WorkKeeps
    <2> QED BY <1>2, <2>1, <2>2, <2>3 DEF NetworkStep
  <1>3. CASE PowerStep /\ UNCHANGED <<netVars, hwVars, diskVars>>
    <2>1. CASE PowerReturns
      <3>1. todo' = All' /\ pc = "next" /\ pc' = "format" /\ given' = given /\ status' = status
        BY <2>1 DEF PowerReturns, NoMoreNames, At, Return, vars, All, Lead, Power, Hardware
      <3> QED BY <1>0, <3>1, ReturnForms
    <2>2. CASE PowerUnavailable \/ PowerExists \/ PowerOpenFails
      <3>1. /\ pc \notin {"format", "done"} /\ pc' # "format" /\ given' = given
            /\ status' = status \/ status' = "error"
        BY <2>2 DEF PowerUnavailable, PowerExists, PowerOpenFails, Failure, Goto, At, vars
      <3> QED BY <3>1, WorkKeeps
    <2>3. CASE DirectoryLoop(Power, kMaxPowerRows) \/ ReadRow(Power, <<>>)
      <3>1. /\ pc \notin {"format", "done"} /\ pc' # "format" /\ given' = given
            /\ status' = status \/ status' = "error"
        BY <2>3, LoopWorks, RowWorks
      <3> QED BY <3>1, WorkKeeps
    <2> QED BY <1>3, <2>1, <2>2, <2>3 DEF PowerStep
  <1>4. CASE HardwareStep /\ UNCHANGED <<netVars, diskVars>>
    <2>1. CASE HardwareReturns
      <3>1. todo' = All' /\ pc = "next" /\ pc' = "format" /\ given' = given /\ status' = status
        BY <2>1 DEF HardwareReturns, NoMoreNames, At, Return, vars, hwVars, All, Lead, Before
      <3> QED BY <1>0, <3>1, ReturnForms
    <2>2. CASE NoGpus
      <3>1. todo' = All' /\ pc \in {"drm", "open"} /\ pc' = "format" /\ given' = given /\ status' = status
        BY <2>2 DEF NoGpus, Return, vars, All, Lead, Before
      <3> QED BY <1>0, <3>1, ReturnForms
    <2>3. CASE \/ HardwareUnavailable \/ ReadScalars \/ DrmExists \/ ExistsThrows \/ DirectoryStep
               \/ ListDrmEntry \/ NextCard \/ DeviceExists
      <3>1. /\ pc \notin {"format", "done"} /\ pc' # "format" /\ given' = given
            /\ status' = status \/ status' = "error"
        <4>1. CASE HardwareUnavailable \/ ReadScalars \/ DrmExists \/ ExistsThrows
          BY <4>1 DEF HardwareUnavailable, ReadScalars, DrmExists, ExistsThrows, Failure, Goto, At, vars
        <4>2. CASE DirectoryStep
          BY <4>2 DEF DirectoryStep, OpenDirectory, ListEnd, ListThrows, Failure, Goto, At, vars
        <4>3. CASE ListDrmEntry \/ NextCard \/ DeviceExists
          BY <4>3 DEF ListDrmEntry, NextCard, NextName, DeviceExists, Admit, Goto, At, vars, callVars
        <4> QED BY <2>3, <4>1, <4>2, <4>3
      <3> QED BY <3>1, WorkKeeps
    <2>4. CASE ReadFirst(Hardware) \/ ReadRow(Hardware, <<>>)
      <3>1. /\ pc \notin {"format", "done"} /\ pc' # "format" /\ given' = given
            /\ status' = status \/ status' = "error"
        BY <2>4, RowWorks DEF ReadFirst, Goto, At, vars
      <3> QED BY <3>1, WorkKeeps
    <2> QED BY <1>4, <2>1, <2>2, <2>3, <2>4 DEF HardwareStep
  <1>5. CASE DiskStep /\ UNCHANGED <<dirVars, netVars, hwVars>>
    <2>1. CASE DiskReturns
      <3>1. PICK rs \in Orders(rows) : Return(rs, Caption(rs))
        BY <2>1 DEF DiskReturns
      <3>2. todo' = All' /\ pc = "lines" /\ pc' = "format" /\ given' = given /\ status' = status
        BY <2>1, <3>1 DEF DiskReturns, At, Return, vars, All, Lead, Disk, Hardware
      <3> QED BY <1>0, <3>2, ReturnForms
    <2>2. CASE MountinfoUnavailable \/ MountinfoOpened \/ ReadLines \/ TakeLine \/ SpaceFails \/ MeasureSpace
      <3>1. /\ pc \notin {"format", "done"} /\ pc' # "format" /\ given' = given
            /\ status' = status \/ status' = "error"
        BY <2>2 DEF MountinfoUnavailable, MountinfoOpened, ReadLines, TakeLine, SpaceFails, MeasureSpace,
                    AddRow, Admit, callVars, Failure, Goto, At, vars
      <3> QED BY <3>1, WorkKeeps
    <2> QED BY <1>5, <2>1, <2>2 DEF DiskStep
  <1>6. CASE (FormatLine \/ FormatDone) /\ UNCHANGED <<dirVars, netVars, hwVars, diskVars>>
    BY <1>6, LineForms, DoneForms DEF hwVars
  <1>7. CASE SystemChanges
    <2>1. UNCHANGED <<callVars, vars>> /\ UNCHANGED hwVars
      BY <1>7 DEF SystemChanges, DirectoryChanges, TableChanges, Changing
    <2> QED BY <2>1, FormFrame DEF callVars, vars, hwVars
  <1> QED BY <1>1, <1>2, <1>3, <1>4, <1>5, <1>6, <1>7 DEF SNext

(* A call starts with nothing given to the body. *)
LEMMA FormInit == SInit => FormInv
  BY DEF SInit, RInit, Init, FormInv

(* All the lines together are the whole text, when there are no more rows. *)
LEMMA WholeIsAll ==
    ASSUME ReportInv, Wording, ~more
    PROVE  WholeText = Beginning(All, Len(All))
  <1>0. All \in Seq(Line)
    BY AllTyped DEF ReportInv
  <1>1. All = Lines(Lead, rows, FALSE)
    BY DEF All, Lines
  <1>2. WholeText = FlattenSeq(TextsOf(All))
    BY <1>1 DEF WholeText, Lead, TextsOf
  <1>3. Len(TextsOf(All)) = Len(All)
    <2>1. Len(All) \in Nat
      BY <1>0
    <2> QED BY <2>1 DEF TextsOf
  <1>4. CASE Len(All) = 0
    BY <1>2, <1>3, <1>4 DEF FlattenSeq, Beginning
  <1>5. CASE Len(All) # 0
    BY <1>2, <1>3, <1>5, FlattenIsJoined DEF Beginning
  <1> QED BY <1>4, <1>5

(* When there are more rows the last line is the marker. *)
LEMMA MarkIsLast ==
    ASSUME ReportInv, Wording, more
    PROVE  Len(All) # 0 /\ All[Len(All)].text = Marker
  <1>1. PICK S : rows \in Seq(S)
    BY DEF ReportInv, LinesInv
  <1>2. Before(rows) \in Seq(Line) /\ Caption(rows) \in Seq(Line)
    BY BeforeTyped
  <1>3. Lead \in Seq(Line)
    BY <1>2 DEF Lead
  <1> DEFINE m == [i \in 1 .. Len(rows) |-> [text |-> RowText(rows[i]), row |-> TRUE]]
             p == Lead \o m
  <1>6. m \in Seq(Line)
    <2>1. Len(rows) \in Nat
      BY <1>1
    <2>2. \A i \in 1 .. Len(rows) : [text |-> RowText(rows[i]), row |-> TRUE] \in Line
      BY DEF Wording, Line
    <2>3. m \in [1 .. Len(rows) -> Line]
      BY <2>2
    <2> QED BY <2>1, <2>3
  <1>7. All = p \o <<Always(Marker)>>
    BY DEF All, Lines
  <1>8. p \in Seq(Line)
    <2> HIDE DEF m
    <2> QED BY <1>3, <1>6
  <1>9. Always(Marker).text = Marker
    BY DEF Always
  <1> HIDE DEF p
  <1>10. Len(All) = Len(p) + 1 /\ All[Len(p) + 1] = Always(Marker)
    BY <1>7, <1>8
  <1> QED BY <1>8, <1>9, <1>10

(* A text that ends with the marker. *)
LEMMA EndsWithMark ==
    ASSUME NEW a \in Seq(Byte)
    PROVE  SubSeq(a \o Marker, Len(a \o Marker) - Len(Marker) + 1, Len(a \o Marker)) = Marker
  <1>1. Marker \in Seq(Byte)
    BY BodyAssumption
  <1>2. a \o Marker \in Seq(Byte) /\ Len(a \o Marker) = Len(a) + Len(Marker)
    BY <1>1
  <1>3. Len(a) \in Nat /\ Len(Marker) \in Nat
    BY <1>1
  <1> DEFINE b == a \o Marker
             c == SubSeq(b, Len(a) + 1, Len(a) + Len(Marker))
  <1>4. b \in Seq(Byte) /\ Len(b) = Len(a) + Len(Marker)
    BY <1>2
  <1>5. \A i \in 1 .. Len(Marker) : b[Len(a) + i] = Marker[i]
    BY <1>1
  <1> HIDE DEF b
  <1>6. Len(c) = Len(Marker) /\ \A i \in 1 .. Len(Marker) : c[i] = b[Len(a) + i]
    BY <1>3, <1>4
  <1>7. c \in Seq(Byte)
    BY <1>3, <1>4
  <1>8. c = Marker
    <2> HIDE DEF c
    <2> QED BY <1>1, <1>5, <1>6, <1>7
  <1>9. Len(b) - Len(Marker) + 1 = Len(a) + 1
    BY <1>3, <1>4
  <1>10. SubSeq(b, Len(b) - Len(Marker) + 1, Len(b)) = Marker
    BY <1>4, <1>8, <1>9
  <1> QED BY <1>10 DEF b

(* What the formatter has done when it ends. *)
LEMMA MarksTrue ==
    ASSUME ReportInv, Wording, FormInv
    PROVE  MarkIsTrue
  <1> SUFFICES ASSUME status = "ok"
               PROVE  IF more \/ Len(WholeText) > MaxBody
                      THEN SubSeq(body, Len(body) - Len(Marker) + 1, Len(body)) = Marker
                      ELSE body = WholeText
    BY DEF MarkIsTrue
  <1> DEFINE Ends == SubSeq(body, Len(body) - Len(Marker) + 1, Len(body)) = Marker
             all == All
  <1>1. all \in Seq(Line)
    BY AllTyped DEF ReportInv
  <1>2. PICK k \in 0 .. Len(all) : Formatted(all, k)
    BY DEF FormInv
  <1> HIDE DEF all
  <1>3. Len(all) \in Nat /\ Len(all) \in 0 .. Len(all)
    BY <1>1
  <1>4. given = Beginning(all, k) /\ given \in Seq(Byte) /\ Beginning(all, Len(all)) \in Seq(Byte)
    BY <1>1, <1>2, <1>3, BeginningGrows DEF Formatted
  <1>5. Len(given) <= Len(Beginning(all, Len(all)))
    BY <1>1, <1>2, <1>4, BeginningIsShorter
  <1>6. todo = <<>>
    BY DEF FormInv
  <1>7. truncated \/ k = Len(all)
    <2>1. CASE Len(todo) = Len(all) - k
      BY <1>3, <1>6, <2>1
    <2> QED BY <1>2, <2>1 DEF Formatted
  <1>8. MaxBody \in Nat /\ Len(Marker) \in Nat /\ Len(Marker) <= MaxBody /\ Marker \in Seq(Byte)
    BY BodyAssumption
  <1>9. body \in Seq(Byte) /\ Len(body) <= MaxBody
    BY DEF ReportInv, IInv, TypeOK, BodyIsBounded
  <1>10. ASSUME truncated PROVE Ends /\ Len(Beginning(all, Len(all))) > MaxBody
    <2>1. Len(given) > MaxBody /\ body = SubSeq(given, 1, MaxBody - Len(Marker)) \o Marker
      BY <1>10 DEF ReportInv, IInv, BodyIsFaithful
    <2>2. MaxBody - Len(Marker) \in Nat /\ MaxBody - Len(Marker) <= Len(given)
      BY <1>4, <1>8, <2>1
    <2>3. SubSeq(given, 1, MaxBody - Len(Marker)) \in Seq(Byte)
      BY <1>4, <2>2
    <2>4. Ends
      BY <2>1, <2>3, EndsWithMark
    <2>5. Len(given) \in Nat /\ Len(Beginning(all, Len(all))) \in Nat
      BY <1>4
    <2>6. Len(Beginning(all, Len(all))) > MaxBody
      <3> HIDE DEF Ends
      <3> QED BY <1>5, <1>8, <2>1, <2>5
    <2> HIDE DEF Ends
    <2> QED BY <2>4, <2>6
  <1>11. ASSUME ~truncated PROVE body = Beginning(all, Len(all))
    <2>1. body = given
      BY <1>11 DEF ReportInv, IInv, BodyIsFaithful
    <2> QED BY <1>4, <1>7, <1>11, <2>1
  <1>12. CASE more
    <2>1. CASE truncated
      BY <1>10, <1>12, <2>1
    <2>2. CASE ~truncated
      <3>1. Len(all) # 0 /\ all[Len(all)].text = Marker
        BY <1>12, MarkIsLast DEF all
      <3>2. Len(all) - 1 \in 0 .. Len(all) /\ Len(all) - 1 < Len(all) /\ (Len(all) - 1) + 1 = Len(all)
        BY <1>3, <3>1
      <3> DEFINE a == Beginning(all, Len(all) - 1)
      <3>3. a \in Seq(Byte) /\ Beginning(all, (Len(all) - 1) + 1) = a \o all[(Len(all) - 1) + 1].text
        BY <1>1, <3>2, BeginningGrows
      <3>4. body = a \o Marker
        BY <1>11, <2>2, <3>1, <3>2, <3>3
      <3> HIDE DEF a
      <3>5. Ends
        BY <3>3, <3>4, EndsWithMark
      <3> QED BY <1>12, <3>5
    <2> QED BY <2>1, <2>2
  <1>13. CASE ~more
    <2>1. WholeText = Beginning(all, Len(all))
      BY <1>13, WholeIsAll DEF all
    <2>2. CASE truncated
      BY <1>10, <2>1, <2>2
    <2>3. CASE ~truncated
      <3>1. body = WholeText
        BY <1>11, <2>1, <2>3
      <3>2. ~(Len(WholeText) > MaxBody)
        <4>1. Len(body) \in Nat
          BY <1>9
        <4> QED BY <1>8, <1>9, <3>1, <4>1
      <3> QED BY <1>13, <3>1, <3>2
    <2> QED BY <2>2, <2>3
  <1> QED BY <1>12, <1>13

(* A report of the four tools ends with the mark exactly when something is missing
   from it, and otherwise says everything. *)
THEOREM MarksAreTrue ==
    ASSUME Wording
    PROVE  SSpec => []MarkIsTrue
  <1>1. ReportInv /\ FormInv /\ [SNext]_sVars => ReportInv' /\ FormInv'
    BY ReportStep, FormStep
  <1>2. ReportInv /\ FormInv => MarkIsTrue
    BY MarksTrue
  <1> QED BY <1>1, <1>2, ReportInit, FormInit, PTL DEF SSpec

-----------------------------------------------------------------------------
(* The recursion behind collect_interface_addresses, over sets of places in the list. *)
Visit ==
    LET iter[s \in SUBSET (DOMAIN ifaddrs)] ==
          IF s = {} THEN addresses
          ELSE AddAddress(iter[s \ {Max(s)}], ifaddrs[Max(s)])
    IN  iter

(* It is the fold. *)
LEMMA CollectIsVisit == collect_interface_addresses = Visit[DOMAIN ifaddrs]
  BY DEF collect_interface_addresses, FoldLeft, MapThenFoldSet, Visit

(* The recursion has a solution. *)
LEMMA VisitDef ==
    ASSUME NEW B, ifaddrs \in Seq(B)
    PROVE  Visit = [s \in SUBSET (1 .. Len(ifaddrs)) |->
                      IF s = {} THEN addresses
                      ELSE AddAddress(Visit[s \ {Max(s)}], ifaddrs[Max(s)])]
  <1> DEFINE Sol(f, n) == f = [s \in SUBSET (1 .. n) |->
                                 IF s = {} THEN addresses
                                 ELSE AddAddress(f[s \ {Max(s)}], ifaddrs[Max(s)])]
             S == {n \in Nat : \E f : Sol(f, n)}
  <1>1. 0 \in S
    <2> DEFINE f == [s \in SUBSET (1 .. 0) |-> addresses]
    <2>1. \A s \in SUBSET (1 .. 0) : s = {}
      OBVIOUS
    <2>2. Sol(f, 0)
      BY <2>1
    <2> HIDE DEF Sol, f
    <2>3. \E g : Sol(g, 0)
      BY <2>2
    <2> QED BY <2>3
  <1>2. ASSUME NEW n \in Nat, n \in S PROVE n + 1 \in S
    <2>1. PICK f : Sol(f, n)
      BY <1>2
    <2> DEFINE g == [s \in SUBSET (1 .. n + 1) |->
                       IF n + 1 \in s THEN AddAddress(f[s \ {n + 1}], ifaddrs[n + 1]) ELSE f[s]]
               h == [s \in SUBSET (1 .. n + 1) |->
                       IF s = {} THEN addresses ELSE AddAddress(g[s \ {Max(s)}], ifaddrs[Max(s)])]
    <2>2. ASSUME NEW s \in SUBSET (1 .. n + 1) PROVE g[s] = h[s]
      <3> DEFINE t == s \ {Max(s)}
      <3>1. /\ n + 1 \in s => Max(s) = n + 1 /\ t \in SUBSET (1 .. n)
            /\ n + 1 \notin s => s \in SUBSET (1 .. n) /\ t \in SUBSET (1 .. n)
            /\ n + 1 \notin t
        BY GreatestPlace
      <3>2. t \in SUBSET (1 .. n + 1)
        OBVIOUS
      <3>3. g[t] = f[t]
        <4> HIDE DEF t
        <4> QED BY <3>1, <3>2
      <3>4. h[s] = IF s = {} THEN addresses ELSE AddAddress(f[t], ifaddrs[Max(s)])
        BY <3>3
      <3>5. CASE n + 1 \in s
        <4>1. g[s] = AddAddress(f[s \ {n + 1}], ifaddrs[n + 1])
          BY <3>5
        <4>2. s # {} /\ Max(s) = n + 1 /\ t = s \ {n + 1}
          BY <3>1, <3>5
        <4> HIDE DEF t, g, h, Max
        <4> QED BY <3>4, <4>1, <4>2
      <3>6. CASE n + 1 \notin s
        <4>1. g[s] = f[s]
          BY <3>6
        <4>2. s \in SUBSET (1 .. n)
          BY <3>1, <3>6
        <4>3. f[s] = IF s = {} THEN addresses ELSE AddAddress(f[t], ifaddrs[Max(s)])
          BY <2>1, <4>2
        <4> HIDE DEF t, g, h, Max
        <4> QED BY <3>4, <4>1, <4>3
      <3> QED BY <3>5, <3>6
    <2>3. Sol(g, n + 1)
      <3>1. g = [s \in SUBSET (1 .. n + 1) |-> g[s]]
        OBVIOUS
      <3>2. h = [s \in SUBSET (1 .. n + 1) |-> h[s]]
        OBVIOUS
      <3>3. g = h
        <4> HIDE DEF g, h
        <4> QED BY <2>2, <3>1, <3>2
      <3> HIDE DEF g
      <3> QED BY <3>3, Zenon
    <2>4. n + 1 \in Nat
      OBVIOUS
    <2>5. \E x : Sol(x, n + 1)
      <3> HIDE DEF Sol, g
      <3> QED BY <2>3
    <2> QED BY <2>4, <2>5
  <1>3. Len(ifaddrs) \in S
    <2>1. Len(ifaddrs) \in Nat
      OBVIOUS
    <2> HIDE DEF S
    <2> QED BY <1>1, <1>2, <2>1, SetInduction
  <1>4. DOMAIN ifaddrs = 1 .. Len(ifaddrs)
    OBVIOUS
  <1>5. Visit = CHOOSE f : Sol(f, Len(ifaddrs))
    BY <1>4 DEF Visit
  <1>6. Sol(Visit, Len(ifaddrs))
    <2> HIDE DEF Sol
    <2> QED BY <1>3, <1>5
  <1> QED BY <1>6

(* The addresses found in the first k entries. *)
Visited(k) == Visit[1 .. k]

(* They grow entry by entry, and are all there are with the last. *)
LEMMA VisitedGrows ==
    ASSUME NEW B, ifaddrs \in Seq(B)
    PROVE  /\ Visited(0) = addresses
           /\ \A k \in Nat : k < Len(ifaddrs) => Visited(k + 1) = AddAddress(Visited(k), ifaddrs[k + 1])
           /\ collect_interface_addresses = Visited(Len(ifaddrs))
  <1> DEFINE V == Visit
             W == [s \in SUBSET (1 .. Len(ifaddrs)) |->
                      IF s = {} THEN addresses ELSE AddAddress(V[s \ {Max(s)}], ifaddrs[Max(s)])]
  <1>1. V = W
    BY VisitDef
  <1>2. Len(ifaddrs) \in Nat /\ DOMAIN ifaddrs = 1 .. Len(ifaddrs)
    OBVIOUS
  <1> HIDE DEF V
  <1>3. \A s \in SUBSET (1 .. Len(ifaddrs)) :
          W[s] = IF s = {} THEN addresses ELSE AddAddress(V[s \ {Max(s)}], ifaddrs[Max(s)])
    OBVIOUS
  <1> HIDE DEF W
  <1>4. V[1 .. 0] = addresses
    <2>1. 1 .. 0 = {} /\ 1 .. 0 \in SUBSET (1 .. Len(ifaddrs))
      OBVIOUS
    <2> QED BY <1>1, <1>3, <2>1
  <1>5. ASSUME NEW k \in Nat, k < Len(ifaddrs)
        PROVE  V[1 .. k + 1] = AddAddress(V[1 .. k], ifaddrs[k + 1])
    <2> DEFINE s == 1 .. k + 1
    <2>1. s \in SUBSET (1 .. Len(ifaddrs)) /\ s # {} /\ s \in SUBSET (1 .. k + 1) /\ k + 1 \in s
      <3>1. \A i \in 1 .. k + 1 : i \in 1 .. Len(ifaddrs)
        BY <1>2, <1>5
      <3>2. k + 1 \in 1 .. k + 1
        OBVIOUS
      <3> QED BY <3>1, <3>2
    <2>2. s \ {k + 1} = 1 .. k
      OBVIOUS
    <2> HIDE DEF s
    <2>3. Max(s) = k + 1
      BY <2>1, GreatestPlace
    <2>4. V[s] = AddAddress(V[s \ {Max(s)}], ifaddrs[Max(s)])
      BY <1>1, <1>3, <2>1
    <2>5. V[s] = AddAddress(V[1 .. k], ifaddrs[k + 1])
      BY <2>2, <2>3, <2>4
    <2> QED BY <2>5 DEF s
  <1>6. collect_interface_addresses = V[1 .. Len(ifaddrs)]
    BY <1>2, CollectIsVisit DEF V
  <1> QED BY <1>4, <1>5, <1>6 DEF V, Visited

-----------------------------------------------------------------------------
(* The addresses of an interface among the first k entries. *)
HostsIn(k, n, f) ==
    {ifaddrs[i].host : i \in {j \in 1 .. k : /\ ifaddrs[j].name = n /\ ifaddrs[j].family = f
                                             /\ ifaddrs[j].host # NoHost}}

(* A list of addresses that tells the truth: each once, none that is not there, and
   all that are unless the list is full. *)
Honest(list, hosts) ==
    /\ list \in Seq(STRING) /\ Len(list) <= kMaxAddressesPerFamily
    /\ \A i, j \in 1 .. Len(list) : list[i] = list[j] => i = j
    /\ \A i \in 1 .. Len(list) : list[i] \in hosts
    /\ Len(list) = kMaxAddressesPerFamily \/ \A h \in hosts : \E i \in 1 .. Len(list) : list[i] = h

Found == [Names -> [{"ipv4", "ipv6"} -> Seq(STRING)]]

(* Adding an address keeps a list honest. *)
LEMMA AddKeepsHonest ==
    ASSUME NEW hosts, NEW list, Honest(list, hosts), NEW h \in STRING
    PROVE  Honest(add_bounded_unique(list, h), IF h = NoHost THEN hosts ELSE hosts \cup {h})
  <1>0. kMaxAddressesPerFamily \in Nat
    BY NetworkAssumption
  <1>1. list \in Seq(STRING) /\ Len(list) \in Nat
    BY DEF Honest
  <1>2. CASE h = NoHost
    BY <1>2 DEF add_bounded_unique
  <1>3. CASE h # NoHost /\ Len(list) >= kMaxAddressesPerFamily
    <2>1. add_bounded_unique(list, h) = list
      BY <1>3 DEF add_bounded_unique
    <2>2. Len(list) = kMaxAddressesPerFamily
      BY <1>0, <1>1, <1>3 DEF Honest
    <2>3. Honest(list, hosts \cup {h})
      BY <2>2 DEF Honest
    <2> QED BY <1>3, <2>1, <2>3
  <1>4. CASE h # NoHost /\ \E i \in 1 .. Len(list) : list[i] = h
    <2>1. add_bounded_unique(list, h) = list
      BY <1>4 DEF add_bounded_unique
    <2>2. Honest(list, hosts \cup {h})
      BY <1>4 DEF Honest
    <2> QED BY <1>4, <2>1, <2>2
  <1>5. CASE /\ h # NoHost /\ ~(Len(list) >= kMaxAddressesPerFamily)
             /\ ~\E i \in 1 .. Len(list) : list[i] = h
    <2> DEFINE new == Append(list, h)
    <2>1. add_bounded_unique(list, h) = new
      BY <1>5 DEF add_bounded_unique
    <2>2. /\ new \in Seq(STRING) /\ Len(new) = Len(list) + 1 /\ new[Len(list) + 1] = h
          /\ \A i \in 1 .. Len(list) : new[i] = list[i]
      <3>0. list \in Seq(STRING)
        BY <1>1
      <3>1. new \in Seq(STRING)
        BY <3>0, AppendTyped, ZenonT(30)
      <3>2. /\ Len(list) \in Nat /\ Len(Append(list, h)) = Len(list) + 1
            /\ \A i \in 1 .. Len(list) : Append(list, h)[i] = list[i]
            /\ Append(list, h)[Len(list) + 1] = h
        BY <3>0, AppendRow, ZenonT(30)
      <3> QED BY <3>1, <3>2, ZenonT(30)
    <2> HIDE DEF new
    <2>3. Len(new) <= kMaxAddressesPerFamily
      BY <1>0, <1>1, <1>5, <2>2
    <2>4. \A i \in 1 .. Len(new) : i \in 1 .. Len(list) \/ i = Len(list) + 1
      BY <1>1, <2>2
    <2>5. \A i, j \in 1 .. Len(new) : new[i] = new[j] => i = j
      <3> SUFFICES ASSUME NEW i \in 1 .. Len(new), NEW j \in 1 .. Len(new), new[i] = new[j]
                   PROVE  i = j
        OBVIOUS
      <3>1. CASE i \in 1 .. Len(list) /\ j \in 1 .. Len(list)
        BY <2>2, <3>1 DEF Honest
      <3>2. CASE i = Len(list) + 1 \/ j = Len(list) + 1
        <4>1. new[i] = h /\ new[j] = h
          BY <2>2, <3>2
        <4>2. \A l \in 1 .. Len(list) : new[l] # h
          BY <1>5, <2>2
        <4> QED BY <2>4, <4>1, <4>2
      <3> QED BY <2>4, <3>1, <3>2
    <2>6. \A i \in 1 .. Len(new) : new[i] \in hosts \cup {h}
      BY <2>2, <2>4 DEF Honest
    <2>7. \A g \in hosts \cup {h} : \E i \in 1 .. Len(new) : new[i] = g
      <3> SUFFICES ASSUME NEW g \in hosts \cup {h} PROVE \E i \in 1 .. Len(new) : new[i] = g
        OBVIOUS
      <3>1. CASE g = h
        <4>1. Len(list) + 1 \in 1 .. Len(new)
          BY <1>1, <2>2
        <4> QED BY <2>2, <3>1, <4>1
      <3>2. CASE g # h
        <4>1. Len(list) # kMaxAddressesPerFamily
          BY <1>0, <1>1, <1>5
        <4>2. PICK i \in 1 .. Len(list) : list[i] = g
          BY <3>2, <4>1 DEF Honest
        <4>3. i \in 1 .. Len(new)
          BY <1>1, <2>2
        <4> QED BY <2>2, <4>2, <4>3
      <3> QED BY <3>1, <3>2
    <2>8. Honest(new, hosts \cup {h})
      BY <2>2, <2>3, <2>5, <2>6, <2>7 DEF Honest
    <2> QED BY <1>5, <2>1, <2>8
  <1> QED BY <1>2, <1>3, <1>4, <1>5

(* Each entry adds its address to those of its interface. *)
LEMMA HostsGrow ==
    ASSUME NEW k \in Nat, NEW n, NEW f
    PROVE  LET a == ifaddrs[k + 1]
           IN  HostsIn(k + 1, n, f) =
                 HostsIn(k, n, f) \cup
                   (IF a.name = n /\ a.family = f /\ a.host # NoHost THEN {a.host} ELSE {})
  <1> DEFINE M(i) == ifaddrs[i].name = n /\ ifaddrs[i].family = f /\ ifaddrs[i].host # NoHost
  <1>1. \A i : i \in 1 .. k + 1 <=> i \in 1 .. k \/ i = k + 1
    OBVIOUS
  <1>2. \A h : h \in HostsIn(k, n, f) <=> \E i \in 1 .. k : M(i) /\ h = ifaddrs[i].host
    BY DEF HostsIn
  <1>3. \A h : h \in HostsIn(k + 1, n, f) <=> \E i \in 1 .. k + 1 : M(i) /\ h = ifaddrs[i].host
    BY DEF HostsIn
  <1>4. \A h : h \in HostsIn(k + 1, n, f) <=>
                 h \in HostsIn(k, n, f) \/ (M(k + 1) /\ h = ifaddrs[k + 1].host)
    <2> HIDE DEF M
    <2> QED BY <1>1, <1>2, <1>3
  <1>5. CASE M(k + 1)
    BY <1>4, <1>5
  <1>6. CASE ~M(k + 1)
    BY <1>4, <1>6
  <1> QED BY <1>5, <1>6

(* So what is collected of an interface that is there is honest. *)
LEMMA VisitedHonest ==
    ASSUME ifaddrs \in Ifaddrs, addresses = [n \in Names |-> None]
    PROVE  \A n \in present \cap Names, f \in {"ipv4", "ipv6"} :
             Honest(collect_interface_addresses[n][f], HostsIn(Len(ifaddrs), n, f))
  <1> DEFINE E == [name : Names, family : {"ipv4", "ipv6", "other"}, host : STRING]
             P(k) == /\ Visited(k) \in Found
                     /\ \A n \in present \cap Names, f \in {"ipv4", "ipv6"} :
                          Honest(Visited(k)[n][f], HostsIn(k, n, f))
             S == {k \in Nat : k <= Len(ifaddrs) => P(k)}
  <1>1. ifaddrs \in Seq(E)
    BY NetworkAssumption
  <1>2. /\ Visited(0) = addresses
        /\ \A k \in Nat : k < Len(ifaddrs) => Visited(k + 1) = AddAddress(Visited(k), ifaddrs[k + 1])
        /\ collect_interface_addresses = Visited(Len(ifaddrs))
    BY <1>1, VisitedGrows
  <1>3. P(0)
    <2>1. addresses \in Found /\ \A n \in Names, f \in {"ipv4", "ipv6"} : addresses[n][f] = <<>>
      BY DEF Found, None
    <2>2. \A n, f : HostsIn(0, n, f) = {}
      BY DEF HostsIn
    <2>3. Honest(<<>>, {})
      BY NetworkAssumption DEF Honest
    <2> QED BY <1>2, <2>1, <2>2, <2>3
  <1>4. ASSUME NEW k \in Nat, k < Len(ifaddrs), P(k) PROVE P(k + 1)
    <2> DEFINE V == Visited(k)
               W == Visited(k + 1)
               a == ifaddrs[k + 1]
    <2>1. W = AddAddress(V, a) /\ V \in Found
      BY <1>2, <1>4
    <2>2. a \in E
      <3>1. k + 1 \in 1 .. Len(ifaddrs)
        BY <1>1, <1>4
      <3> HIDE DEF E
      <3> QED BY <1>1, <3>1
    <2>3. \A n \in present \cap Names, f \in {"ipv4", "ipv6"} : Honest(V[n][f], HostsIn(k, n, f))
      BY <1>4
    <2>4. \A n, f : HostsIn(k + 1, n, f) = HostsIn(k, n, f) \cup
                   (IF a.name = n /\ a.family = f /\ a.host # NoHost THEN {a.host} ELSE {})
      BY HostsGrow
    <2> HIDE DEF V, W, a
    <2>5. CASE a.family = "other" \/ a.name \notin present
      <3>1. W = V
        BY <2>1, <2>5 DEF AddAddress
      <3>2. \A n \in present \cap Names, f \in {"ipv4", "ipv6"} : HostsIn(k + 1, n, f) = HostsIn(k, n, f)
        BY <2>4, <2>5
      <3>3. /\ W \in Found
            /\ \A n \in present \cap Names, f \in {"ipv4", "ipv6"} : Honest(W[n][f], HostsIn(k + 1, n, f))
        BY <2>1, <2>3, <3>1, <3>2
      <3> QED BY <3>3 DEF W
    <2>6. CASE ~(a.family = "other" \/ a.name \notin present)
      <3>1. W = [V EXCEPT ![a.name][a.family] = add_bounded_unique(V[a.name][a.family], a.host)]
        BY <2>1, <2>6 DEF AddAddress
      <3>2. a.name \in present \cap Names /\ a.family \in {"ipv4", "ipv6"} /\ a.host \in STRING
        BY <2>2, <2>6
      <3> DEFINE new == add_bounded_unique(V[a.name][a.family], a.host)
      <3>3. Honest(new, IF a.host = NoHost THEN HostsIn(k, a.name, a.family)
                        ELSE HostsIn(k, a.name, a.family) \cup {a.host})
        BY <2>3, <3>2, AddKeepsHonest
      <3>4. new \in Seq(STRING)
        BY <3>3 DEF Honest
      <3>5. W = [V EXCEPT ![a.name][a.family] = new]
        BY <3>1
      <3> HIDE DEF new
      <3>6. W \in Found
        BY <2>1, <3>2, <3>4, <3>5 DEF Found
      <3>7. ASSUME NEW n \in present \cap Names, NEW f \in {"ipv4", "ipv6"}
            PROVE  Honest(W[n][f], HostsIn(k + 1, n, f))
        <4>1. CASE n = a.name /\ f = a.family
          <5>1. W[n][f] = new
            BY <2>1, <3>2, <3>5, <4>1 DEF Found
          <5>2. HostsIn(k + 1, n, f) = IF a.host = NoHost THEN HostsIn(k, a.name, a.family)
                                       ELSE HostsIn(k, a.name, a.family) \cup {a.host}
            <6>1. CASE a.host = NoHost
              BY <2>4, <4>1, <6>1
            <6>2. CASE a.host # NoHost
              BY <2>4, <4>1, <6>2
            <6> QED BY <6>1, <6>2
          <5> QED BY <3>3, <5>1, <5>2
        <4>2. CASE ~(n = a.name /\ f = a.family)
          <5>1. W[n][f] = V[n][f]
            BY <2>1, <3>2, <3>5, <4>2 DEF Found
          <5>2. HostsIn(k + 1, n, f) = HostsIn(k, n, f)
            BY <2>4, <4>2
          <5> QED BY <2>3, <5>1, <5>2
        <4> QED BY <4>1, <4>2
      <3> QED BY <3>6, <3>7 DEF W
    <2> QED BY <2>5, <2>6
  <1>5. Len(ifaddrs) \in Nat
    BY <1>1
  <1>6. 0 \in S
    <2> HIDE DEF P
    <2> QED BY <1>3
  <1>7. ASSUME NEW k \in Nat, k \in S PROVE k + 1 \in S
    <2>1. k + 1 <= Len(ifaddrs) => k <= Len(ifaddrs) /\ k < Len(ifaddrs)
      BY <1>5
    <2> HIDE DEF P
    <2> QED BY <1>4, <1>7, <2>1
  <1>8. P(Len(ifaddrs))
    <2>1. Nat \subseteq S
      <3> HIDE DEF S
      <3> QED BY <1>6, <1>7, SetInduction
    <2> HIDE DEF P
    <2> QED BY <1>5, <2>1
  <1> QED BY <1>2, <1>8

-----------------------------------------------------------------------------
(* What a row shows besides the attributes. *)
Extra(n) ==
    [ipv4 |-> format_network_address_list(addresses[n]["ipv4"]),
     ipv6 |-> format_network_address_list(addresses[n]["ipv6"]),
     default_route |-> n \in default_routes]

(* The enrichment of a call: what was collected before the listing is true of the
   interfaces that stay. *)
SourceInv ==
    /\ ifaddrs \in Ifaddrs /\ routeLines \in RouteTables
    /\ pc \in {"start", "addresses", "routes"} => "routes" \notin enriched
    /\ pc \in {"start", "addresses"} => "addresses" \notin enriched
    /\ "addresses" \notin enriched => addresses = [n \in Names |-> None]
    /\ "addresses" \in enriched =>
         \A n \in stayed, f \in {"ipv4", "ipv6"} : Honest(addresses[n][f], HostsIn(Len(ifaddrs), n, f))
    /\ "routes" \notin enriched => default_routes = {}
    /\ "routes" \in enriched =>
         \A n \in stayed : n \in default_routes <=>
           [name |-> n, default |-> TRUE, up |-> TRUE] \in Range(routeLines)

(* The rows show what was collected. *)
EnrichedInv == \A i \in 1 .. Len(rows) : rows[i].extra = Extra(rows[i].name)

NetInv == tool = Network => SourceInv /\ EnrichedInv

(* The interface's addresses are finitely many. *)
LEMMA HostsFinite ==
    ASSUME NEW B, ifaddrs \in Seq(B), NEW n, NEW f
    PROVE  HostsIn(Len(ifaddrs), n, f) = HostsOf(n, f) /\ IsFiniteSet(HostsOf(n, f))
  <1>1. Len(ifaddrs) \in Nat /\ DOMAIN ifaddrs = 1 .. Len(ifaddrs)
    OBVIOUS
  <1> DEFINE J == {j \in 1 .. Len(ifaddrs) : /\ ifaddrs[j].name = n /\ ifaddrs[j].family = f
                                             /\ ifaddrs[j].host # NoHost}
             H == HostsIn(Len(ifaddrs), n, f)
             g == [j \in J |-> ifaddrs[j].host]
  <1>2. H = HostsOf(n, f)
    BY <1>1 DEF HostsIn, HostsOf, Range
  <1>3. H = {ifaddrs[j].host : j \in J}
    BY DEF HostsIn
  <1>4. IsFiniteSet(J)
    <2>1. IsFiniteSet(1 .. Len(ifaddrs))
      BY <1>1, FS_Interval
    <2>2. J \in SUBSET (1 .. Len(ifaddrs))
      OBVIOUS
    <2> HIDE DEF J
    <2> QED BY <2>1, <2>2, FS_Subset
  <1>5. g \in Surjection(J, H)
    <2> HIDE DEF J, H
    <2> QED BY <1>3 DEF Surjection
  <1>6. IsFiniteSet(H)
    <2> HIDE DEF J, H, g
    <2> QED BY <1>4, <1>5, FS_Surjection
  <1> QED BY <1>2, <1>6

(* An honest list shows all there are, or as many as it may. *)
LEMMA HonestShows ==
    ASSUME NEW list, NEW hosts, Honest(list, hosts), IsFiniteSet(hosts)
    PROVE  /\ format_network_address_list(list).hosts = list
           /\ IsInjective(list) /\ Range(list) \subseteq hosts
           /\ IF Cardinality(hosts) <= kMaxAddressesPerFamily
              THEN Range(list) = hosts ELSE Len(list) = kMaxAddressesPerFamily
  <1>0. kMaxAddressesPerFamily \in Nat
    BY NetworkAssumption
  <1>1. list \in Seq(STRING) /\ Len(list) \in Nat /\ DOMAIN list = 1 .. Len(list)
    BY DEF Honest
  <1>2. format_network_address_list(list).hosts = list
    <2>1. Min({Len(list), kMaxAddressesPerFamily}) = Len(list)
      BY <1>0, <1>1, LeastOfTwo DEF Honest
    <2>2. SubSeq(list, 1, Len(list)) = list
      BY <1>1, WholeSubSeq, ZenonT(30)
    <2> QED BY <2>1, <2>2 DEF format_network_address_list
  <1>3. IsInjective(list) /\ Range(list) \subseteq hosts
    BY <1>1 DEF Honest, IsInjective, Range
  <1>4. IsFiniteSet(Range(list)) /\ Cardinality(Range(list)) = Len(list)
    <2>1. list \in Surjection(1 .. Len(list), Range(list))
      <3>1. list \in [1 .. Len(list) -> Range(list)]
        BY <1>1 DEF Range
      <3>2. \A r \in Range(list) : \E i \in 1 .. Len(list) : list[i] = r
        BY <1>1 DEF Range
      <3> QED BY <3>1, <3>2 DEF Surjection
    <2>2. list \in Injection(1 .. Len(list), Range(list))
      BY <1>1, <1>3, <2>1 DEF Surjection, Injection, IsInjective
    <2>3. IsFiniteSet(1 .. Len(list)) /\ Cardinality(1 .. Len(list)) = Len(list)
      <3>1. 1 \in Int /\ Len(list) \in Int /\ (1 > Len(list) => Len(list) = 0) /\ Len(list) - 1 + 1 = Len(list)
        BY <1>1
      <3>2. /\ IsFiniteSet(1 .. Len(list))
            /\ Cardinality(1 .. Len(list)) = IF 1 > Len(list) THEN 0 ELSE Len(list) - 1 + 1
        BY <3>1, FS_Interval
      <3> QED BY <3>1, <3>2
    <2> QED BY <2>1, <2>2, <2>3, FS_Surjection
  <1>5. Cardinality(hosts) \in Nat
    BY FS_CardinalityType
  <1>6. Cardinality(Range(list)) <= Cardinality(hosts) /\ (Cardinality(hosts) = Cardinality(Range(list)) => hosts = Range(list))
    BY <1>3, FS_Subset
  <1>7. CASE Len(list) = kMaxAddressesPerFamily
    BY <1>0, <1>1, <1>2, <1>3, <1>4, <1>5, <1>6, <1>7
  <1>8. CASE Len(list) # kMaxAddressesPerFamily
    <2>1. Range(list) = hosts
      <3>1. \A h \in hosts : \E i \in 1 .. Len(list) : list[i] = h
        BY <1>8 DEF Honest
      <3> QED BY <1>1, <1>3, <3>1 DEF Range
    <2>2. Len(list) <= kMaxAddressesPerFamily
      BY DEF Honest
    <2> QED BY <1>0, <1>1, <1>2, <1>3, <1>4, <2>1, <2>2
  <1> QED BY <1>7, <1>8

(* What leaves the sources and the rows alone keeps the enrichment; fewer
   interfaces may stay. *)
LEMMA NetFrame ==
    ASSUME NetInv, tool' = tool, UNCHANGED netVars, rows' = rows, stayed' \subseteq stayed,
           pc' = pc \/ pc' \notin {"start", "addresses", "routes"} \/ (pc = "start" /\ pc' = "addresses")
    PROVE  NetInv'
  <1> SUFFICES ASSUME tool = Network PROVE (SourceInv /\ EnrichedInv)'
    BY DEF NetInv
  <1>1. SourceInv /\ EnrichedInv
    BY DEF NetInv
  <1>2. UNCHANGED <<ifaddrs, routeLines, addresses, default_routes, enriched>>
    BY DEF netVars
  <1>3. \A k, n, f : HostsIn(k, n, f)' = HostsIn(k, n, f)
    BY <1>2 DEF HostsIn
  <1>4. \A list, hosts : Honest(list, hosts)' <=> Honest(list, hosts)
    BY DEF Honest
  <1>5. (\A n \in stayed, f \in {"ipv4", "ipv6"} : Honest(addresses[n][f], HostsIn(Len(ifaddrs), n, f)))'
        <=> \A n \in stayed', f \in {"ipv4", "ipv6"} : Honest(addresses[n][f], HostsIn(Len(ifaddrs), n, f))
    BY <1>2 DEF Honest, HostsIn
  <1>6. SourceInv'
    BY <1>1, <1>2, <1>5 DEF SourceInv
  <1>7. EnrichedInv'
    BY <1>1, <1>2 DEF EnrichedInv, Extra, format_network_address_list
  <1> QED BY <1>6, <1>7

(* Collecting the addresses. *)
LEMMA AddressesKeep ==
    ASSUME NetInv, DirInv, CollectAddresses
    PROVE  NetInv'
  <1>0. tool = Network /\ tool' = tool /\ pc = "addresses" /\ pc' = "routes"
    BY DEF CollectAddresses, At, Goto
  <1>1. SourceInv /\ EnrichedInv /\ CallInv
    BY <1>0 DEF NetInv, DirInv, DirectoryTools
  <1>2. UNCHANGED <<ifaddrs, routeLines, default_routes, stayed, rows>>
    BY DEF CollectAddresses, Goto, dirVars, deviceVars
  <1>3. rows = <<>>
    BY <1>0, <1>1 DEF CallInv, PlaceInv, Early
  <1>4. EnrichedInv'
    BY <1>2, <1>3 DEF EnrichedInv
  <1>5. CASE addresses' = collect_interface_addresses /\ enriched' = enriched \cup {"addresses"}
    <2>1. \A n \in stayed, f \in {"ipv4", "ipv6"} :
            Honest(collect_interface_addresses[n][f], HostsIn(Len(ifaddrs), n, f))
      <3>1. stayed \subseteq present \cap Names
        BY <1>1 DEF CallInv, DeviceInv
      <3>2. ifaddrs \in Ifaddrs /\ addresses = [n \in Names |-> None]
        BY <1>0, <1>1 DEF SourceInv
      <3> QED BY <3>1, <3>2, VisitedHonest
    <2>2. (\A n \in stayed, f \in {"ipv4", "ipv6"} : Honest(addresses[n][f], HostsIn(Len(ifaddrs), n, f)))'
      <3>1. ASSUME NEW n, NEW f PROVE HostsIn(Len(ifaddrs), n, f)' = HostsIn(Len(ifaddrs), n, f)
        BY <1>2 DEF HostsIn
      <3>2. ASSUME NEW n \in stayed, NEW f \in {"ipv4", "ipv6"}
            PROVE  Honest(addresses[n][f], HostsIn(Len(ifaddrs), n, f))'
        <4> DEFINE list == collect_interface_addresses[n][f]
                   hosts == HostsIn(Len(ifaddrs), n, f)
        <4>1. Honest(list, hosts)
          BY <2>1
        <4>2. addresses'[n][f] = list /\ HostsIn(Len(ifaddrs), n, f)' = hosts
          BY <1>5, <3>1
        <4> HIDE DEF list, hosts
        <4> QED BY <4>1, <4>2 DEF Honest
      <3> QED BY <1>2, <3>2
    <2>3. SourceInv'
      BY <1>0, <1>1, <1>2, <1>5, <2>2 DEF SourceInv
    <2> QED BY <1>4, <2>3 DEF NetInv
  <1>6. CASE UNCHANGED <<addresses, enriched>>
    <2>1. SourceInv'
      BY <1>0, <1>1, <1>2, <1>6 DEF SourceInv
    <2> QED BY <1>4, <2>1 DEF NetInv
  <1> QED BY <1>5, <1>6 DEF CollectAddresses

(* Collecting the default routes. *)
LEMMA RoutesKeep ==
    ASSUME NetInv, DirInv, CollectRoutes
    PROVE  NetInv'
  <1>0. tool = Network /\ tool' = tool /\ pc = "routes" /\ pc' = "open"
    BY DEF CollectRoutes, At, Goto
  <1>1. SourceInv /\ EnrichedInv /\ CallInv
    BY <1>0 DEF NetInv, DirInv, DirectoryTools
  <1>2. UNCHANGED <<ifaddrs, routeLines, addresses, stayed, rows>>
    BY DEF CollectRoutes, Goto, dirVars, deviceVars
  <1>3. rows = <<>>
    BY <1>0, <1>1 DEF CallInv, PlaceInv, Early
  <1>4. EnrichedInv'
    BY <1>2, <1>3 DEF EnrichedInv
  <1>5. (\A n \in stayed, f \in {"ipv4", "ipv6"} : Honest(addresses[n][f], HostsIn(Len(ifaddrs), n, f)))'
        <=> \A n \in stayed, f \in {"ipv4", "ipv6"} : Honest(addresses[n][f], HostsIn(Len(ifaddrs), n, f))
    BY <1>2 DEF Honest, HostsIn
  <1>6. CASE /\ default_routes' = collect_default_route_interfaces
             /\ enriched' = enriched \cup {"routes"}
    <2>1. ASSUME NEW n \in stayed
          PROVE  n \in collect_default_route_interfaces <=>
                   [name |-> n, default |-> TRUE, up |-> TRUE] \in Range(routeLines)
      <3>1. n \in present
        BY <1>1 DEF CallInv, DeviceInv
      <3>2. \A l \in Range(routeLines) : l \in [name : Names, default : BOOLEAN, up : BOOLEAN]
        <4>1. routeLines \in Seq([name : Names, default : BOOLEAN, up : BOOLEAN])
          BY <1>1, NetworkAssumption DEF SourceInv
        <4> QED BY <4>1, RangeTyped
      <3>3. \A l \in Range(routeLines) :
              l.name = n /\ IsDefaultRoute(l) <=> l = [name |-> n, default |-> TRUE, up |-> TRUE]
        BY <3>2 DEF IsDefaultRoute
      <3>4. n \in collect_default_route_interfaces <=>
              \E l \in Range(routeLines) : l.name = n /\ IsDefaultRoute(l)
        BY <3>1 DEF collect_default_route_interfaces
      <3> QED BY <3>3, <3>4
    <2>2. SourceInv'
      BY <1>0, <1>1, <1>2, <1>5, <1>6, <2>1 DEF SourceInv
    <2> QED BY <1>4, <2>2 DEF NetInv
  <1>7. CASE UNCHANGED <<default_routes, enriched>>
    <2>1. SourceInv'
      BY <1>0, <1>1, <1>2, <1>5, <1>7 DEF SourceInv
    <2> QED BY <1>4, <2>1 DEF NetInv
  <1> QED BY <1>6, <1>7 DEF CollectRoutes

(* A row is shown with what was collected of its interface. *)
LEMMA NetworkRowKeeps ==
    ASSUME NetInv, LinesInv, NetworkRow, UNCHANGED netVars
    PROVE  NetInv'
  <1>0. /\ tool = Network /\ tool' = tool /\ pc = "second" /\ pc' = "next"
        /\ rows' = Append(rows, Row(Extra(reading)))
    BY DEF NetworkRow, ReadRow, AddRow, At, Extra
  <1>1. SourceInv /\ EnrichedInv
    BY <1>0 DEF NetInv
  <1>2. UNCHANGED <<ifaddrs, routeLines, addresses, default_routes, enriched, stayed>>
    BY DEF netVars, NetworkRow, ReadRow, dirVars, deviceVars
  <1>3. (\A n \in stayed, f \in {"ipv4", "ipv6"} : Honest(addresses[n][f], HostsIn(Len(ifaddrs), n, f)))'
        <=> \A n \in stayed, f \in {"ipv4", "ipv6"} : Honest(addresses[n][f], HostsIn(Len(ifaddrs), n, f))
    BY <1>2 DEF Honest, HostsIn
  <1>4. SourceInv'
    BY <1>0, <1>1, <1>2, <1>3 DEF SourceInv
  <1>5. PICK S : rows \in Seq(S)
    BY DEF LinesInv
  <1>6. ASSUME NEW n PROVE Extra(n)' = Extra(n)
    BY <1>2 DEF Extra, format_network_address_list
  <1> DEFINE r == Row(Extra(reading))
  <1>7. r.extra = Extra(r.name)
    BY DEF Row
  <1> HIDE DEF r
  <1>8. /\ Len(rows) \in Nat /\ Len(rows') = Len(rows) + 1
        /\ \A i \in 1 .. Len(rows) : rows'[i] = rows[i]
        /\ rows'[Len(rows) + 1] = r
    BY <1>0, <1>5, AppendRow DEF r
  <1>9. ASSUME NEW i \in 1 .. Len(rows') PROVE rows'[i].extra = Extra(rows'[i].name)
    <2>1. CASE i \in 1 .. Len(rows)
      BY <1>1, <1>8, <2>1 DEF EnrichedInv
    <2>2. CASE i = Len(rows) + 1
      BY <1>7, <1>8, <2>2
    <2> QED BY <1>8, <2>1, <2>2
  <1>10. EnrichedInv'
    BY <1>6, <1>9 DEF EnrichedInv, Extra
  <1> QED BY <1>4, <1>10 DEF NetInv

(* A call is of one tool from beginning to end, and takes the steps of that tool. *)
LEMMA StepOfTool ==
    /\ NetworkStep => tool = Network
    /\ PowerStep => tool = Power
    /\ HardwareStep => tool = Hardware
    /\ DiskStep => tool = Disk
  <1>1. NetworkStep => tool = Network
    BY DEF NetworkStep, NetworkUnavailable, NetworkExists, CollectAddresses, CollectRoutes,
       NetworkOpenFails, NetworkReturns, NoMoreNames, DirectoryLoop, NetworkRow, ReadRow,
       OpenDirectory, ListEntry, ListEnd, ListThrows, NextName, ReadFirst, At
  <1>2. PowerStep => tool = Power
    BY DEF PowerStep, PowerUnavailable, PowerExists, PowerOpenFails, PowerReturns, NoMoreNames,
       DirectoryLoop, ReadRow, OpenDirectory, ListEntry, ListEnd, ListThrows, NextName, ReadFirst, At
  <1>3. HardwareStep => tool = Hardware
    BY DEF HardwareStep, HardwareUnavailable, ReadScalars, DrmExists, NoGpus, ExistsThrows,
       HardwareReturns, NoMoreNames, DirectoryStep, ListDrmEntry, NextCard, DeviceExists, ReadRow,
       OpenDirectory, ListEnd, ListThrows, NextName, ReadFirst, At
  <1>4. DiskStep => tool = Disk
    BY DEF DiskStep, MountinfoUnavailable, MountinfoOpened, ReadLines, TakeLine, SpaceFails,
       MeasureSpace, DiskReturns, At
  <1> QED BY <1>1, <1>2, <1>3, <1>4

(* No step changes the tool. *)
LEMMA ToolKept ==
    ASSUME [SNext]_sVars
    PROVE  tool' = tool
  <1>1. NetworkStep => tool' = tool
    BY DEF NetworkStep, NetworkUnavailable, NetworkExists, CollectAddresses, CollectRoutes,
       NetworkOpenFails, NetworkReturns, DirectoryLoop, NetworkRow, ReadRow, AddRow, Admit, Return,
       OpenDirectory, ListEntry, ListEnd, ListThrows, NextName, ReadFirst, Goto, Failure, callVars
  <1>2. PowerStep => tool' = tool
    BY DEF PowerStep, PowerUnavailable, PowerExists, PowerOpenFails, PowerReturns, AddRow, Admit, Return,
       DirectoryLoop, ReadRow, OpenDirectory, ListEntry, ListEnd, ListThrows, NextName, ReadFirst,
       Goto, Failure, callVars
  <1>3. HardwareStep => tool' = tool
    BY DEF HardwareStep, HardwareUnavailable, ReadScalars, DrmExists, NoGpus, ExistsThrows,
       HardwareReturns, DirectoryStep, ListDrmEntry, NextCard, DeviceExists, ReadRow, AddRow, Admit,
       Return, OpenDirectory, ListEnd, ListThrows, NextName, ReadFirst, Goto, Failure, callVars
  <1>4. DiskStep => tool' = tool
    BY DEF DiskStep, MountinfoUnavailable, MountinfoOpened, ReadLines, TakeLine, SpaceFails,
       MeasureSpace, DiskReturns, AddRow, Admit, Return, Goto, Failure, callVars
  <1>5. FormatLine \/ FormatDone \/ SystemChanges \/ UNCHANGED sVars => tool' = tool
    BY DEF FormatLine, FormatDone, SystemChanges, DirectoryChanges, TableChanges, Changing, callVars, sVars
  <1> QED BY <1>1, <1>2, <1>3, <1>4, <1>5 DEF SNext

(* Every step of a call keeps the enrichment. *)
LEMMA NetStepKeeps ==
    ASSUME LinesInv, DirInv, NetInv, [SNext]_sVars
    PROVE  NetInv'
  <1>0. tool' = tool
    BY ToolKept
  <1>1. CASE tool # Network
    BY <1>0, <1>1 DEF NetInv
  <1>2. CASE tool = Network
    <2>n. Network # Power /\ Network # Hardware /\ Network # Disk
      BY DEF Network, Power, Hardware, Disk
    <2>1. CASE UNCHANGED sVars
      BY <1>0, <2>1, NetFrame DEF sVars, callVars, dirVars, deviceVars
    <2>2. CASE NetworkStep
      <3>1. CASE NetworkUnavailable \/ NetworkExists \/ NetworkOpenFails \/ NetworkReturns
        BY <1>0, <3>1, NetFrame DEF NetworkUnavailable, NetworkExists, NetworkOpenFails, NetworkReturns,
             Failure, Goto, Return, At, dirVars, deviceVars
      <3>2. CASE CollectAddresses
        BY <3>2, AddressesKeep
      <3>3. CASE CollectRoutes
        BY <3>3, RoutesKeep
      <3>4. CASE DirectoryLoop(Network, kMaxNetworkRows) /\ UNCHANGED netVars
        <4>1. /\ rows' = rows /\ stayed' = stayed
              /\ pc' = pc \/ pc' \notin {"start", "addresses", "routes"}
          BY <3>4 DEF DirectoryLoop, OpenDirectory, ListEntry, ListEnd, ListThrows, NextName, Admit,
               ReadFirst, Goto, Failure, callVars, dirVars, deviceVars
        <4> QED BY <1>0, <3>4, <4>1, NetFrame
      <3>5. CASE NetworkRow /\ UNCHANGED netVars
        BY <3>5, NetworkRowKeeps
      <3> QED BY <2>2, <3>1, <3>2, <3>3, <3>4, <3>5 DEF NetworkStep
    <2>3. CASE (FormatLine \/ FormatDone) /\ UNCHANGED <<dirVars, netVars, hwVars, diskVars>>
      BY <1>0, <2>3, NetFrame DEF FormatLine, FormatDone, dirVars, deviceVars
    <2>4. CASE SystemChanges
      <3>1. DirectoryChanges /\ UNCHANGED netVars
        BY <1>2, <2>n, <2>4 DEF SystemChanges
      <3>2. stayed' \subseteq stayed
        BY <3>1 DEF DirectoryChanges, Vanish, Appear, Alter
      <3> QED BY <1>0, <3>1, <3>2, NetFrame DEF DirectoryChanges, Changing, callVars
    <2>5. CASE PowerStep \/ HardwareStep \/ DiskStep
      BY <1>2, <2>n, <2>5, StepOfTool
    <2> QED BY <2>1, <2>2, <2>3, <2>4, <2>5 DEF SNext
  <1> QED BY <1>1, <1>2

(* A call starts with nothing collected. *)
LEMMA NetInitInv == SInit => NetInv
  <1> SUFFICES ASSUME SInit, tool = Network PROVE SourceInv /\ EnrichedInv
    BY DEF NetInv
  <1>1. NInit /\ pc = "start" /\ rows = <<>>
    BY DEF SInit, RInit
  <1> QED BY <1>1 DEF NInit, SourceInv, EnrichedInv

(* The invariant says of the rows what the property says. *)
LEMMA RowsEnriched ==
    ASSUME LinesInv, DirInv, NetInv
    PROVE  RowsAreEnriched
  <1> SUFFICES ASSUME tool = Network, status = "ok", NEW r \in Range(rows), r.name \in stayed
               PROVE  /\ r.extra.default_route <=>
                           /\ "routes" \in enriched
                           /\ [name |-> r.name, default |-> TRUE, up |-> TRUE] \in Range(routeLines)
                      /\ \A f \in {"ipv4", "ipv6"} :
                           LET shown == r.extra[f].hosts
                               hosts == HostsOf(r.name, f)
                           IN  IF "addresses" \in enriched
                               THEN /\ IsInjective(shown) /\ Range(shown) \subseteq hosts
                                    /\ IF Cardinality(hosts) <= kMaxAddressesPerFamily
                                       THEN Range(shown) = hosts
                                       ELSE Len(shown) = kMaxAddressesPerFamily
                               ELSE shown = <<>>
    BY DEF RowsAreEnriched
  <1>1. SourceInv /\ EnrichedInv
    BY DEF NetInv
  <1>2. r.extra = Extra(r.name)
    <2>1. PICK S : rows \in Seq(S)
      BY DEF LinesInv
    <2>2. DOMAIN rows = 1 .. Len(rows)
      BY <2>1
    <2>3. PICK i \in 1 .. Len(rows) : r = rows[i]
      BY <2>2 DEF Range
    <2> QED BY <1>1, <2>3 DEF EnrichedInv
  <1> DEFINE n == r.name
  <1>3. r.extra.default_route = (n \in default_routes)
    BY <1>2 DEF Extra
  <1>4. /\ r.extra["ipv4"] = format_network_address_list(addresses[n]["ipv4"])
        /\ r.extra["ipv6"] = format_network_address_list(addresses[n]["ipv6"])
    BY <1>2 DEF Extra
  <1>5. n \in default_routes <=> /\ "routes" \in enriched
                                 /\ [name |-> n, default |-> TRUE, up |-> TRUE] \in Range(routeLines)
    BY <1>1 DEF SourceInv
  <1>6. ASSUME NEW f \in {"ipv4", "ipv6"}
        PROVE  LET shown == r.extra[f].hosts
                   hosts == HostsOf(n, f)
               IN  IF "addresses" \in enriched
                   THEN /\ IsInjective(shown) /\ Range(shown) \subseteq hosts
                        /\ IF Cardinality(hosts) <= kMaxAddressesPerFamily
                           THEN Range(shown) = hosts
                           ELSE Len(shown) = kMaxAddressesPerFamily
                   ELSE shown = <<>>
    <2> DEFINE list == addresses[n][f]
               hosts == HostsOf(n, f)
    <2>1. r.extra[f] = format_network_address_list(list)
      BY <1>4
    <2>2. CASE "addresses" \in enriched
      <3>1. Honest(list, HostsIn(Len(ifaddrs), n, f))
        BY <1>1, <2>2 DEF SourceInv
      <3>2. HostsIn(Len(ifaddrs), n, f) = hosts /\ IsFiniteSet(hosts)
        <4>1. ifaddrs \in Seq([name : Names, family : {"ipv4", "ipv6", "other"}, host : STRING])
          BY <1>1, NetworkAssumption DEF SourceInv
        <4> QED BY <4>1, HostsFinite
      <3> HIDE DEF list, hosts, n
      <3>3. Honest(list, hosts)
        BY <3>1, <3>2
      <3>4. /\ format_network_address_list(list).hosts = list
            /\ IsInjective(list) /\ Range(list) \subseteq hosts
            /\ IF Cardinality(hosts) <= kMaxAddressesPerFamily
               THEN Range(list) = hosts ELSE Len(list) = kMaxAddressesPerFamily
        BY <3>2, <3>3, HonestShows
      <3>5. r.extra[f].hosts = list
        BY <2>1, <3>4
      <3> QED BY <2>2, <3>4, <3>5 DEF hosts
    <2>3. CASE "addresses" \notin enriched
      <3>1. n \in Names
        BY DEF DirInv, DirectoryTools, CallInv, DeviceInv
      <3>2. list = <<>>
        BY <1>1, <2>3, <3>1 DEF SourceInv, None
      <3>3. format_network_address_list(<<>>).hosts = <<>>
        <4>1. Min({0, kMaxAddressesPerFamily}) = 0
          BY NetworkAssumption, LeastOfTwo
        <4> QED BY <4>1 DEF format_network_address_list
      <3>4. r.extra[f].hosts = <<>>
        BY <2>1, <3>2, <3>3
      <3> QED BY <2>3, <3>4
    <2> QED BY <2>2, <2>3
  <1> QED BY <1>3, <1>5, <1>6

(* In the report of network.summary the interfaces that stay have the routes and the
   addresses they really have, each list complete or full. *)
THEOREM EnrichmentIsTrue ==
    ASSUME Wording
    PROVE  SSpec => []RowsAreEnriched
  <1>1. ReportInv /\ DirInv /\ NetInv /\ [SNext]_sVars => ReportInv' /\ DirInv' /\ NetInv'
    BY ReportStep, DirStep, NetStepKeeps DEF ReportInv
  <1>2. ReportInv /\ DirInv /\ NetInv => RowsAreEnriched
    BY RowsEnriched DEF ReportInv
  <1> QED BY <1>1, <1>2, ReportInit, DirInit, NetInitInv, PTL DEF SSpec

-----------------------------------------------------------------------------
(* The function behind ParseLines: the parser's state after each of the lines. *)
After(ls) ==
    LET after[n \in 0 .. Len(ls)] ==
          IF n = 0 THEN [summary |-> NoSummary, block |-> NoBlock]
          ELSE ParseLine(after[n - 1], ls[n])
    IN  after

(* It is the loop. *)
LEMMA ParseIsAfter ==
    ASSUME NEW ls
    PROVE  ParseLines(ls) = After(ls)[Len(ls)]
  BY DEF ParseLines, After

(* The recursion has a solution, and so goes line by line. *)
LEMMA AfterDef ==
    ASSUME NEW ls, Len(ls) \in Nat
    PROVE  After(ls) = [n \in 0 .. Len(ls) |->
                             IF n = 0 THEN [summary |-> NoSummary, block |-> NoBlock]
                             ELSE ParseLine(After(ls)[n - 1], ls[n])]
  <1> DEFINE Start == [summary |-> NoSummary, block |-> NoBlock]
             Sol(f, n) == f = [i \in 0 .. n |->
                                 IF i = 0 THEN Start ELSE ParseLine(f[i - 1], ls[i])]
             S == {n \in Nat : \E f : Sol(f, n)}
  <1>5. After(ls) = CHOOSE f : Sol(f, Len(ls))
    BY DEF After
  <1> HIDE DEF Start
  <1>1. 0 \in S
    <2> DEFINE f == [i \in 0 .. 0 |-> Start]
    <2>1. f = [i \in 0 .. 0 |-> IF i = 0 THEN Start ELSE ParseLine(f[i - 1], ls[i])]
      OBVIOUS
    <2> HIDE DEF f
    <2> QED BY <2>1
  <1>2. ASSUME NEW n \in Nat, n \in S PROVE n + 1 \in S
    <2>1. PICK f : Sol(f, n)
      BY <1>2
    <2> DEFINE last == ParseLine(f[n], ls[n + 1])
               g == [i \in 0 .. n + 1 |-> IF i = n + 1 THEN last ELSE f[i]]
               h == [i \in 0 .. n + 1 |-> IF i = 0 THEN Start ELSE ParseLine(g[i - 1], ls[i])]
    <2>2. ASSUME NEW i \in 0 .. n + 1 PROVE g[i] = h[i]
      <3>0. h[i] = IF i = 0 THEN Start ELSE ParseLine(g[i - 1], ls[i])
        OBVIOUS
      <3>1. CASE i = n + 1
        <4>1. i # 0 /\ i - 1 = n /\ n \in 0 .. n + 1 /\ n # n + 1
          BY <3>1
        <4>2. g[i] = last
          BY <3>1
        <4>3. g[i - 1] = f[n]
          BY <4>1
        <4> HIDE DEF g, h
        <4> QED BY <3>0, <3>1, <4>1, <4>2, <4>3
      <3>2. CASE i # n + 1
        <4>1. i \in 0 .. n /\ g[i] = f[i]
          BY <3>2
        <4>2. f[i] = IF i = 0 THEN Start ELSE ParseLine(f[i - 1], ls[i])
          BY <2>1, <4>1
        <4>3. i # 0 => g[i - 1] = f[i - 1]
          BY <4>1
        <4> HIDE DEF g, h
        <4> QED BY <3>0, <4>1, <4>2, <4>3
      <3> QED BY <3>1, <3>2
    <2>3. Sol(g, n + 1)
      <3>1. g = [i \in 0 .. n + 1 |-> g[i]]
        OBVIOUS
      <3>2. h = [i \in 0 .. n + 1 |-> h[i]]
        OBVIOUS
      <3>3. g = h
        <4> HIDE DEF g, h
        <4> QED BY <2>2, <3>1, <3>2
      <3> HIDE DEF g
      <3> QED BY <3>3, Zenon
    <2>4. n + 1 \in Nat
      OBVIOUS
    <2>5. \E x : Sol(x, n + 1)
      <3> HIDE DEF Sol, g
      <3> QED BY <2>3
    <2> QED BY <2>4, <2>5
  <1>3. Len(ls) \in S
    <2> HIDE DEF S
    <2> QED BY <1>1, <1>2, SetInduction
  <1>6. Sol(After(ls), Len(ls))
    <2> HIDE DEF Sol
    <2> QED BY <1>3, <1>5
  <1> QED BY <1>6 DEF Start

(* What the parser's state is before the first line and after the next one. *)
LEMMA AfterGrows ==
    ASSUME NEW ls, Len(ls) \in Nat
    PROVE  /\ After(ls)[0] = [summary |-> NoSummary, block |-> NoBlock]
           /\ \A n \in 1 .. Len(ls) : After(ls)[n] = ParseLine(After(ls)[n - 1], ls[n])
  <1> DEFINE F == After(ls)
             Start == [summary |-> NoSummary, block |-> NoBlock]
             G == [n \in 0 .. Len(ls) |-> IF n = 0 THEN Start ELSE ParseLine(F[n - 1], ls[n])]
  <1>1. F = G
    BY AfterDef
  <1> HIDE DEF F, Start
  <1>2. G[0] = Start
    OBVIOUS
  <1>3. \A n \in 1 .. Len(ls) : G[n] = ParseLine(F[n - 1], ls[n])
    OBVIOUS
  <1> HIDE DEF G
  <1>4. F[0] = Start /\ \A n \in 1 .. Len(ls) : F[n] = ParseLine(F[n - 1], ls[n])
    BY <1>1, <1>2, <1>3
  <1> QED BY <1>4 DEF F, Start

-----------------------------------------------------------------------------
(* Sequences that were joined stay in place when more are joined to them. *)
LEMMA JoinedStay ==
    ASSUME NEW B, NEW s \in Seq(Seq(B)), NEW k \in 0 .. Len(s)
    PROVE  /\ Len(JoinOf(s, k)) <= Len(FlattenSeq(s))
           /\ \A p \in 1 .. Len(JoinOf(s, k)) : FlattenSeq(s)[p] = JoinOf(s, k)[p]
  <1> DEFINE Stays(n) == /\ Len(JoinOf(s, k)) <= Len(JoinOf(s, n))
                         /\ \A p \in 1 .. Len(JoinOf(s, k)) : JoinOf(s, n)[p] = JoinOf(s, k)[p]
             Good == {n \in Nat : k + n <= Len(s) => Stays(k + n)}
  <1>0. Len(s) \in Nat /\ k \in Nat /\ JoinOf(s, k) \in Seq(B)
    BY JoinGrows
  <1>1. 0 \in Good
    <2>1. k + 0 = k /\ Len(JoinOf(s, k)) \in Nat
      BY <1>0
    <2> QED BY <2>1
  <1>2. ASSUME NEW n \in Nat, n \in Good PROVE n + 1 \in Good
    <2> SUFFICES ASSUME k + (n + 1) <= Len(s) PROVE Stays(k + (n + 1))
      OBVIOUS
    <2> DEFINE m == k + n
               a == JoinOf(s, k)
               b == JoinOf(s, m)
               c == s[m + 1]
    <2>1. m \in 0 .. Len(s) /\ m < Len(s) /\ k + (n + 1) = m + 1 /\ m + 1 \in 1 .. Len(s)
      BY <1>0
    <2>2. Stays(m)
      BY <1>0, <1>2, <2>1
    <2> HIDE DEF m
    <2>3. JoinOf(s, m + 1) = b \o c /\ b \in Seq(B) /\ c \in Seq(B)
      BY <2>1, JoinGrows
    <2>4. Len(a) <= Len(b) /\ \A p \in 1 .. Len(a) : b[p] = a[p]
      BY <2>2
    <2>5. a \in Seq(B)
      BY <1>0
    <2> HIDE DEF a, b, c
    <2>6. Len(b \o c) = Len(b) + Len(c) /\ \A p \in 1 .. Len(b) : (b \o c)[p] = b[p]
      BY <2>3
    <2>7. Len(a) \in Nat /\ Len(b) \in Nat /\ Len(c) \in Nat
      BY <2>3, <2>5
    <2>8. Len(a) <= Len(b \o c) /\ \A p \in 1 .. Len(a) : (b \o c)[p] = a[p]
      <3>1. \A p \in 1 .. Len(a) : p \in 1 .. Len(b)
        BY <2>4, <2>7
      <3> QED BY <2>4, <2>6, <2>7, <3>1
    <2> QED BY <2>1, <2>3, <2>8 DEF a
  <1>3. Len(s) - k \in Good
    <2>1. Len(s) - k \in Nat
      BY <1>0
    <2> HIDE DEF Good
    <2> QED BY <1>1, <1>2, <2>1, SetInduction
  <1>4. k + (Len(s) - k) = Len(s) /\ Len(s) \in 0 .. Len(s)
    BY <1>0
  <1>5. JoinOf(s, Len(s)) = FlattenSeq(s)
    BY <1>4, JoinGrows
  <1>6. Stays(Len(s))
    BY <1>0, <1>3, <1>4
  <1> QED BY <1>5, <1>6

-----------------------------------------------------------------------------
(* Processors and lines, and the blocks the kernel writes. *)
Cpu == [socket : Nat, core : Nat]

InfoLine ==
    [key : {"processor", "physical id", "core id", "cpu cores", "blank"}, value : Nat]

Blocks(m) == [i \in 1 .. Len(m.cpus) |-> Block(m, m.cpus[i])]

CoreNumber(m, c) == Cardinality(CoresOf(m, c.socket))

(* What is assumed of a machine. *)
LEMMA MachineTyped ==
    ASSUME NEW m \in Machines
    PROVE  /\ m.style \in {"full", "no core id", "cores only", "plain"}
           /\ m.cpus \in Seq(Cpu) /\ Len(m.cpus) \in Nat /\ Len(m.cpus) > 0
           /\ \A i \in 1 .. Len(m.cpus) :
                /\ m.cpus[i] \in Cpu /\ m.cpus[i].socket \in Nat /\ m.cpus[i].core \in Nat
           /\ m.style = "cores only" =>
                \A i \in 1 .. Len(m.cpus) : m.cpus[i].socket = m.cpus[1].socket
  <1>1. m.cpus \in Seq(Cpu) /\ m.cpus # <<>>
    BY HardwareAssumption DEF Cpu
  <1>2. Len(m.cpus) \in Nat /\ Len(m.cpus) > 0
    BY <1>1
  <1>3. \A i \in 1 .. Len(m.cpus) : m.cpus[i] \in Cpu
    BY <1>1
  <1> QED BY <1>1, <1>2, <1>3, HardwareAssumption DEF Cpu

(* A socket has finitely many cores, and one with a processor has one. *)
LEMMA CoresTyped ==
    ASSUME NEW m \in Machines, NEW x
    PROVE  /\ IsFiniteSet(CoresOf(m, x)) /\ Cardinality(CoresOf(m, x)) \in Nat
           /\ \A i \in 1 .. Len(m.cpus) :
                m.cpus[i].socket = x => Cardinality(CoresOf(m, x)) > 0
  <1> DEFINE N == Len(m.cpus)
             J == {j \in 1 .. N : m.cpus[j].socket = x}
             T == CoresOf(m, x)
             f == [j \in J |-> m.cpus[j].core]
  <1>1. N \in Nat
    BY MachineTyped
  <1>2. IsFiniteSet(J)
    <2>1. IsFiniteSet(1 .. N)
      BY <1>1, FS_Interval
    <2>2. J \in SUBSET (1 .. N)
      OBVIOUS
    <2> HIDE DEF J
    <2> QED BY <2>1, <2>2, FS_Subset
  <1>3. f \in Surjection(J, T)
    BY DEF CoresOf, Surjection
  <1>4. IsFiniteSet(T)
    <2> HIDE DEF J, T, f
    <2> QED BY <1>2, <1>3, FS_Surjection
  <1>5. Cardinality(T) \in Nat /\ (Cardinality(T) = 0 <=> T = {})
    <2> HIDE DEF T
    <2> QED BY <1>4, FS_CardinalityType, FS_EmptySet
  <1>6. ASSUME NEW i \in 1 .. N, m.cpus[i].socket = x PROVE Cardinality(T) > 0
    <2>1. m.cpus[i].core \in T
      BY <1>6 DEF CoresOf
    <2> HIDE DEF T
    <2> QED BY <1>5, <2>1
  <1> QED BY <1>4, <1>5, <1>6

(* The length of a sequence, and what stands at a place of it. *)
Long(s, n) == n \in Nat /\ Len(s) = n

Holds(s, i, x) == i \in 1 .. Len(s) /\ s[i] = x

(* A sequence with one more member. *)
LEMMA JoinOne ==
    ASSUME NEW S, NEW s \in Seq(S), NEW x \in S, NEW n \in Nat, Long(s, n)
    PROVE  /\ s \o <<x>> \in Seq(S) /\ Long(s \o <<x>>, n + 1)
           /\ Holds(s \o <<x>>, n + 1, x)
           /\ \A i, y : Holds(s, i, y) => Holds(s \o <<x>>, i, y)
  <1> DEFINE t == <<x>>
  <1>1. t \in Seq(S)
    OBVIOUS
  <1>2. Long(t, 1) /\ t[1] = x
    BY DEF Long
  <1> HIDE DEF t
  <1>c. /\ s \o t \in Seq(S) /\ Len(s \o t) = Len(s) + Len(t) /\ Len(s) \in Nat /\ Len(t) \in Nat
        /\ \A i \in 1 .. Len(t) : (s \o t)[Len(s) + i] = t[i]
    BY <1>1
  <1>3. s \o t \in Seq(S) /\ Len(s \o t) = n + 1 /\ Len(s) = n
    BY <1>2, <1>c DEF Long
  <1>4. (s \o t)[n + 1] = t[1]
    <2>1. 1 \in 1 .. Len(t)
      BY <1>2 DEF Long
    <2> QED BY <1>3, <1>c, <2>1
  <1>5. \A i \in 1 .. Len(s) : (s \o t)[i] = s[i]
    BY <1>1
  <1>6. Holds(s \o t, n + 1, x)
    BY <1>2, <1>3, <1>4 DEF Holds
  <1>7. ASSUME NEW i, NEW y, Holds(s, i, y) PROVE Holds(s \o t, i, y)
    <2>1. i \in 1 .. Len(s) /\ s[i] = y
      BY <1>7 DEF Holds
    <2>2. i \in 1 .. Len(s \o t)
      BY <1>3, <2>1
    <2> QED BY <1>5, <2>1, <2>2 DEF Holds
  <1>8. Long(s \o t, n + 1)
    BY <1>3 DEF Long
  <1> QED BY <1>3, <1>6, <1>7, <1>8 DEF t

(* The fields of a block, in each style. *)
IsBlock(b, m, c) ==
    /\ b \in Seq(InfoLine)
    /\ Holds(b, 1, Field("processor", 0))
    /\ m.style \in {"full", "no core id"} => Holds(b, 2, Field("physical id", c.socket))
    /\ m.style = "full" =>
         /\ Long(b, 5) /\ Holds(b, 3, Field("core id", c.core))
         /\ Holds(b, 4, Field("cpu cores", CoreNumber(m, c))) /\ Holds(b, 5, Field("blank", 0))
    /\ m.style = "no core id" =>
         /\ Long(b, 4) /\ Holds(b, 3, Field("cpu cores", CoreNumber(m, c)))
         /\ Holds(b, 4, Field("blank", 0))
    /\ m.style = "cores only" =>
         /\ Long(b, 3) /\ Holds(b, 2, Field("cpu cores", CoreNumber(m, c)))
         /\ Holds(b, 3, Field("blank", 0))
    /\ m.style = "plain" => Long(b, 2) /\ Holds(b, 2, Field("blank", 0))

(* A block of any machine is one. *)
LEMMA BlockIs ==
    ASSUME NEW m \in Machines, NEW c \in Cpu
    PROVE  IsBlock(Block(m, c), m, c)
  <1> DEFINE processor == Field("processor", 0)
             physical  == Field("physical id", c.socket)
             core      == Field("core id", c.core)
             cores     == Field("cpu cores", CoreNumber(m, c))
             blank     == Field("blank", 0)
             style     == m.style
             s1 == <<processor>>
             s2 == s1 \o (IF style \in {"full", "no core id"} THEN <<physical>> ELSE <<>>)
             s3 == s2 \o (IF style = "full" THEN <<core>> ELSE <<>>)
             s4 == s3 \o (IF style = "plain" THEN <<>> ELSE <<cores>>)
             s5 == s4 \o <<blank>>
  <1>0. style \in {"full", "no core id", "cores only", "plain"}
    BY MachineTyped
  <1>1. Block(m, c) = s5
    BY DEF Block, CoreNumber
  <1>2. /\ processor \in InfoLine /\ physical \in InfoLine /\ core \in InfoLine /\ cores \in InfoLine
        /\ blank \in InfoLine
    <2>1. CoreNumber(m, c) \in Nat
      BY CoresTyped DEF CoreNumber
    <2>2. c.socket \in Nat /\ c.core \in Nat
      BY DEF Cpu
    <2>3. ASSUME NEW v \in Nat
          PROVE  /\ Field("processor", v) \in InfoLine /\ Field("physical id", v) \in InfoLine
                 /\ Field("core id", v) \in InfoLine /\ Field("cpu cores", v) \in InfoLine
                 /\ Field("blank", v) \in InfoLine
      BY DEF Field, InfoLine
    <2> HIDE DEF CoreNumber
    <2> QED BY <2>1, <2>2, <2>3
  <1> HIDE DEF processor, physical, core, cores, blank, style
  <1>3. s1 \in Seq(InfoLine) /\ Long(s1, 1) /\ Holds(s1, 1, processor)
    BY <1>2 DEF Holds, Long
  <1> HIDE DEF s1
  <1>n. ASSUME NEW s \in Seq(InfoLine) PROVE s \o <<>> = s
    OBVIOUS
  <1>4. /\ s2 \in Seq(InfoLine) /\ Holds(s2, 1, processor)
        /\ style \in {"full", "no core id"} => Long(s2, 2) /\ Holds(s2, 2, physical)
        /\ style \notin {"full", "no core id"} => Long(s2, 1)
    <2>1. CASE style \in {"full", "no core id"}
      <3>1. s2 = s1 \o <<physical>>
        BY <2>1
      <3> HIDE DEF s2
      <3>2. /\ s2 \in Seq(InfoLine) /\ Long(s2, 1 + 1) /\ Holds(s2, 1 + 1, physical)
            /\ \A i, y : Holds(s1, i, y) => Holds(s2, i, y)
        BY <1>2, <1>3, <3>1, JoinOne
      <3>l. Long(s2, 2) /\ Holds(s2, 2, physical)
        BY <3>2
      <3> QED BY <1>3, <2>1, <3>2, <3>l, Zenon
    <2>2. CASE style \notin {"full", "no core id"}
      <3>1. s2 = s1
        BY <1>3, <1>n, <2>2
      <3> QED BY <1>3, <2>2, <3>1
    <2> QED BY <2>1, <2>2
  <1> HIDE DEF s2
  <1>5. /\ s3 \in Seq(InfoLine) /\ Holds(s3, 1, processor)
        /\ style \in {"full", "no core id"} => Holds(s3, 2, physical)
        /\ style = "full" => Long(s3, 3) /\ Holds(s3, 3, core)
        /\ style = "no core id" => Long(s3, 2)
        /\ style \notin {"full", "no core id"} => Long(s3, 1)
    <2>1. CASE style = "full"
      <3>1. s3 = s2 \o <<core>>
        BY <2>1
      <3> HIDE DEF s3
      <3>2. /\ s3 \in Seq(InfoLine) /\ Long(s3, 2 + 1) /\ Holds(s3, 2 + 1, core)
            /\ \A i, y : Holds(s2, i, y) => Holds(s3, i, y)
        BY <1>2, <1>4, <2>1, <3>1, JoinOne
      <3>l. Long(s3, 3) /\ Holds(s3, 3, core)
        BY <3>2
      <3> QED BY <1>4, <2>1, <3>2, <3>l, Zenon
    <2>2. CASE style # "full"
      <3>1. s3 = s2
        BY <1>4, <1>n, <2>2
      <3> QED BY <1>4, <2>2, <3>1
    <2> QED BY <2>1, <2>2
  <1> HIDE DEF s3
  <1>6. /\ s4 \in Seq(InfoLine) /\ Holds(s4, 1, processor)
        /\ style \in {"full", "no core id"} => Holds(s4, 2, physical)
        /\ style = "full" => Long(s4, 4) /\ Holds(s4, 3, core) /\ Holds(s4, 4, cores)
        /\ style = "no core id" => Long(s4, 3) /\ Holds(s4, 3, cores)
        /\ style = "cores only" => Long(s4, 2) /\ Holds(s4, 2, cores)
        /\ style = "plain" => Long(s4, 1)
    <2>1. CASE style # "plain"
      <3>1. s4 = s3 \o <<cores>>
        BY <2>1
      <3> HIDE DEF s4
      <3>2. ASSUME NEW n \in Nat, Long(s3, n)
            PROVE  /\ s4 \in Seq(InfoLine) /\ Long(s4, n + 1) /\ Holds(s4, n + 1, cores)
                   /\ \A i, y : Holds(s3, i, y) => Holds(s4, i, y)
        BY <1>2, <1>5, <3>1, <3>2, JoinOne
      <3>3. CASE style = "full"
        <4>1. /\ s4 \in Seq(InfoLine) /\ Long(s4, 3 + 1) /\ Holds(s4, 3 + 1, cores)
              /\ \A i, y : Holds(s3, i, y) => Holds(s4, i, y)
          BY <1>5, <3>2, <3>3
        <4>l. Long(s4, 4) /\ Holds(s4, 4, cores)
          BY <4>1
        <4> QED BY <1>5, <3>3, <4>1, <4>l, Zenon
      <3>4. CASE style = "no core id"
        <4>1. /\ s4 \in Seq(InfoLine) /\ Long(s4, 2 + 1) /\ Holds(s4, 2 + 1, cores)
              /\ \A i, y : Holds(s3, i, y) => Holds(s4, i, y)
          BY <1>5, <3>2, <3>4
        <4>l. Long(s4, 3) /\ Holds(s4, 3, cores)
          BY <4>1
        <4> QED BY <1>5, <3>4, <4>1, <4>l, Zenon
      <3>5. CASE style = "cores only"
        <4>1. /\ s4 \in Seq(InfoLine) /\ Long(s4, 1 + 1) /\ Holds(s4, 1 + 1, cores)
              /\ \A i, y : Holds(s3, i, y) => Holds(s4, i, y)
          BY <1>5, <3>2, <3>5
        <4>l. Long(s4, 2) /\ Holds(s4, 2, cores)
          BY <4>1
        <4> QED BY <1>5, <3>5, <4>1, <4>l, Zenon
      <3> QED BY <1>0, <2>1, <3>3, <3>4, <3>5
    <2>2. CASE style = "plain"
      <3>1. s4 = s3
        BY <1>5, <1>n, <2>2
      <3> QED BY <1>5, <2>2, <3>1
    <2> QED BY <2>1, <2>2
  <1> HIDE DEF s4
  <1>7. ASSUME NEW n \in Nat, Long(s4, n)
        PROVE  /\ s5 \in Seq(InfoLine) /\ Long(s5, n + 1) /\ Holds(s5, n + 1, blank)
               /\ \A i, y : Holds(s4, i, y) => Holds(s5, i, y)
    BY <1>2, <1>6, <1>7, JoinOne
  <1> HIDE DEF s5
  <1>8. IsBlock(s5, m, c)
    <2> USE DEF IsBlock, processor, physical, core, cores, blank, style
    <2>1. CASE style = "full"
      <3>1. /\ s5 \in Seq(InfoLine) /\ Long(s5, 4 + 1) /\ Holds(s5, 4 + 1, blank)
            /\ \A i, y : Holds(s4, i, y) => Holds(s5, i, y)
        BY <1>6, <1>7, <2>1
      <3>l. Long(s5, 5) /\ Holds(s5, 5, blank)
        BY <3>1
      <3> QED BY <1>6, <2>1, <3>1, <3>l, Zenon
    <2>2. CASE style = "no core id"
      <3>1. /\ s5 \in Seq(InfoLine) /\ Long(s5, 3 + 1) /\ Holds(s5, 3 + 1, blank)
            /\ \A i, y : Holds(s4, i, y) => Holds(s5, i, y)
        BY <1>6, <1>7, <2>2
      <3>l. Long(s5, 4) /\ Holds(s5, 4, blank)
        BY <3>1
      <3> QED BY <1>6, <2>2, <3>1, <3>l, Zenon
    <2>3. CASE style = "cores only"
      <3>1. /\ s5 \in Seq(InfoLine) /\ Long(s5, 2 + 1) /\ Holds(s5, 2 + 1, blank)
            /\ \A i, y : Holds(s4, i, y) => Holds(s5, i, y)
        BY <1>6, <1>7, <2>3
      <3>l. Long(s5, 3) /\ Holds(s5, 3, blank)
        BY <3>1
      <3> QED BY <1>6, <2>3, <3>1, <3>l, Zenon
    <2>4. CASE style = "plain"
      <3>1. /\ s5 \in Seq(InfoLine) /\ Long(s5, 1 + 1) /\ Holds(s5, 1 + 1, blank)
            /\ \A i, y : Holds(s4, i, y) => Holds(s5, i, y)
        BY <1>6, <1>7, <2>4
      <3>l. Long(s5, 2) /\ Holds(s5, 2, blank)
        BY <3>1
      <3> QED BY <1>6, <2>4, <3>1, <3>l, Zenon
    <2> QED BY <1>0, <2>1, <2>2, <2>3, <2>4
  <1> QED BY <1>1, <1>8

(* How many lines a block has, and how many there are before the block i + 1. *)
LinesPer(m) ==
    IF m.style = "full" THEN 5 ELSE IF m.style = "no core id" THEN 4
    ELSE IF m.style = "cores only" THEN 3 ELSE 2

LinesBefore(m, i) == Len(JoinOf(Blocks(m), i))

(* The file is blocks of one length. *)
LEMMA BlocksTyped ==
    ASSUME NEW m \in Machines
    PROVE  /\ Blocks(m) \in Seq(Seq(InfoLine)) /\ Len(Blocks(m)) = Len(m.cpus)
           /\ \A i \in 1 .. Len(m.cpus) :
                /\ Blocks(m)[i] = Block(m, m.cpus[i]) /\ Block(m, m.cpus[i]) \in Seq(InfoLine)
                /\ Long(Block(m, m.cpus[i]), LinesPer(m))
           /\ LinesPer(m) \in 2 .. 5
           /\ CpuInfo(m) = FlattenSeq(Blocks(m))
  <1>1. \A i \in 1 .. Len(m.cpus) : m.cpus[i] \in Cpu
    BY MachineTyped
  <1>2. /\ Len(m.cpus) \in Nat
        /\ m.style \in {"full", "no core id", "cores only", "plain"}
    BY MachineTyped
  <1>3. ASSUME NEW i \in 1 .. Len(m.cpus)
        PROVE  Block(m, m.cpus[i]) \in Seq(InfoLine) /\ Long(Block(m, m.cpus[i]), LinesPer(m))
    <2>1. IsBlock(Block(m, m.cpus[i]), m, m.cpus[i])
      BY <1>1, BlockIs
    <2> QED BY <1>2, <2>1, Zenon DEF IsBlock, LinesPer
  <1> DEFINE B == Blocks(m)
             C == Seq(InfoLine)
             n == Len(m.cpus)
  <1>4. B = [i \in 1 .. n |-> Block(m, m.cpus[i])]
    BY DEF Blocks
  <1>5. B \in Seq(C) /\ Len(B) = n /\ \A i \in 1 .. n : B[i] = Block(m, m.cpus[i])
    <2>1. n \in Nat /\ \A i \in 1 .. n : Block(m, m.cpus[i]) \in C
      BY <1>2, <1>3
    <2> HIDE DEF B, C, n
    <2> QED BY <1>4, <2>1
  <1>6. LinesPer(m) \in 2 .. 5
    <2>1. LinesPer(m) \in {2, 3, 4, 5}
      BY Zenon DEF LinesPer
    <2> QED BY <2>1
  <1>7. CpuInfo(m) = FlattenSeq(Blocks(m))
    BY DEF CpuInfo, Blocks
  <1> QED BY <1>3, <1>5, <1>6, <1>7

(* Where the lines of a block are in the file. *)
LEMMA LineAt ==
    ASSUME NEW m \in Machines, NEW i \in Nat, i < Len(m.cpus)
    PROVE  /\ LinesBefore(m, i) \in Nat
           /\ LinesBefore(m, i + 1) = LinesBefore(m, i) + LinesPer(m)
           /\ LinesBefore(m, i + 1) <= Len(CpuInfo(m))
           /\ \A j \in 1 .. LinesPer(m) :
                CpuInfo(m)[LinesBefore(m, i) + j] = Block(m, m.cpus[i + 1])[j]
  <1> DEFINE B == Blocks(m)
             n == Len(m.cpus)
             L == LinesPer(m)
             a == JoinOf(B, i)
             b == Block(m, m.cpus[i + 1])
             t == CpuInfo(m)
  <1>1. n \in Nat /\ i + 1 \in 1 .. n /\ i \in 0 .. n /\ i + 1 \in 0 .. n
    <2>1. n \in Nat /\ i < n
      BY MachineTyped
    <2> HIDE DEF n
    <2> QED BY <2>1
  <1>2. B \in Seq(Seq(InfoLine)) /\ Len(B) = n /\ B[i + 1] = b /\ b \in Seq(InfoLine) /\ Long(b, L)
    BY <1>1, BlocksTyped
  <1>3. t = FlattenSeq(B) /\ L \in 2 .. 5
    BY BlocksTyped
  <1> HIDE DEF B, n, L, b, t
  <1>4. a \in Seq(InfoLine) /\ JoinOf(B, i + 1) = a \o b
    <2>1. i < Len(B) /\ i \in 0 .. Len(B)
      BY <1>1, <1>2 DEF n
    <2> QED BY <1>2, <2>1, JoinGrows
  <1>5. /\ Len(a \o b) <= Len(t)
        /\ \A p \in 1 .. Len(a \o b) : t[p] = (a \o b)[p]
    BY <1>1, <1>2, <1>3, <1>4, JoinedStay
  <1>6. LinesBefore(m, i) = Len(a) /\ LinesBefore(m, i + 1) = Len(a \o b)
    BY <1>4 DEF LinesBefore, B
  <1> HIDE DEF a
  <1>7. /\ Len(a) \in Nat /\ Len(a \o b) = Len(a) + Len(b)
        /\ \A j \in 1 .. Len(b) : (a \o b)[Len(a) + j] = b[j]
    BY <1>2, <1>4
  <1>8. Len(b) = L
    BY <1>2 DEF Long
  <1>9. ASSUME NEW j \in 1 .. L PROVE t[Len(a) + j] = b[j]
    <2>1. Len(a) + j \in 1 .. Len(a \o b) /\ j \in 1 .. Len(b)
      BY <1>3, <1>7, <1>8
    <2>2. t[Len(a) + j] = (a \o b)[Len(a) + j]
      BY <1>5, <2>1
    <2>3. (a \o b)[Len(a) + j] = b[j]
      BY <1>7, <2>1
    <2> QED BY <2>2, <2>3
  <1> QED BY <1>5, <1>6, <1>7, <1>8, <1>9 DEF L, b, t

-----------------------------------------------------------------------------
(* What the parser knows of the block it is in. *)
BlockWith(h, p, c, n) == [has_processor |-> h, physical_id |-> p, core_id |-> c, cpu_cores |-> n]

NoId == -1

Seen(p, c, n) == BlockWith(TRUE, p, c, n)

State(s, b) == [summary |-> s, block |-> b]

(* What a line of each kind does. *)
Kinds(s, p, c, n, v) ==
    LET st == State(s, Seen(p, c, n))
    IN  /\ ParseLine(State(s, NoBlock), Field("processor", v)) = State(s, Seen(NoId, NoId, 0))
        /\ ParseLine(st, Field("physical id", v)) = State(s, Seen(v, c, n))
        /\ ParseLine(st, Field("core id", v)) = State(s, Seen(p, v, n))
        /\ ParseLine(st, Field("cpu cores", v)) = State(s, Seen(p, c, v))
        /\ ParseLine(st, Field("blank", v)) = State(finalize_cpu_block(s, Seen(p, c, n)), NoBlock)

(* What each kind of line does to the state. *)
LEMMA LineKinds ==
    ASSUME NEW s, NEW p, NEW c, NEW n, NEW v
    PROVE  Kinds(s, p, c, n, v)
  <1> DEFINE b == Seen(p, c, n)
             st == State(s, b)
  <1>b. ASSUME NEW h, NEW x
        PROVE  /\ [BlockWith(h, p, c, n) EXCEPT !.has_processor = x] = BlockWith(x, p, c, n)
               /\ [BlockWith(h, p, c, n) EXCEPT !.physical_id = x] = BlockWith(h, x, c, n)
               /\ [BlockWith(h, p, c, n) EXCEPT !.core_id = x] = BlockWith(h, p, x, n)
               /\ [BlockWith(h, p, c, n) EXCEPT !.cpu_cores = x] = BlockWith(h, p, c, x)
    BY DEF BlockWith
  <1>c. ASSUME NEW h, NEW x
        PROVE  [BlockWith(h, NoId, NoId, 0) EXCEPT !.has_processor = x] = BlockWith(x, NoId, NoId, 0)
    BY DEF BlockWith
  <1>d. NoBlock = BlockWith(FALSE, NoId, NoId, 0)
    BY DEF NoBlock, BlockWith, NoId
  <1>e. /\ [NoBlock EXCEPT !.has_processor = TRUE] = Seen(NoId, NoId, 0)
        /\ [b EXCEPT !.physical_id = v] = Seen(v, c, n)
        /\ [b EXCEPT !.core_id = v] = Seen(p, v, n)
        /\ [b EXCEPT !.cpu_cores = v] = Seen(p, c, v)
    BY <1>b, <1>c, <1>d, Zenon DEF Seen
  <1> HIDE DEF b
  <1>s. ASSUME NEW z, NEW w
        PROVE  /\ State(s, z).summary = s /\ State(s, z).block = z
               /\ [State(s, z) EXCEPT !.block = w] = State(s, w)
    BY DEF State
  <1>1. ParseLine(State(s, NoBlock), Field("processor", v)) = State(s, Seen(NoId, NoId, 0))
    <2> DEFINE z == State(s, NoBlock)
    <2>1. ParseLine(z, Field("processor", v)) = [z EXCEPT !.block.has_processor = TRUE]
      BY DEF ParseLine, Field
    <2>2. [z EXCEPT !.block.has_processor = TRUE] =
            [z EXCEPT !.block = [z.block EXCEPT !.has_processor = TRUE]]
      BY Zenon
    <2> QED BY <1>e, <1>s, <2>1, <2>2, Zenon
  <1>2. ParseLine(st, Field("physical id", v)) = State(s, Seen(v, c, n))
    <2>1. ParseLine(st, Field("physical id", v)) = [st EXCEPT !.block.physical_id = v]
      BY DEF ParseLine, Field
    <2>2. [st EXCEPT !.block.physical_id = v] = State(s, [b EXCEPT !.physical_id = v])
      BY DEF State
    <2> QED BY <1>e, <2>1, <2>2
  <1>3. ParseLine(st, Field("core id", v)) = State(s, Seen(p, v, n))
    <2>1. ParseLine(st, Field("core id", v)) = [st EXCEPT !.block.core_id = v]
      BY DEF ParseLine, Field
    <2>2. [st EXCEPT !.block.core_id = v] = State(s, [b EXCEPT !.core_id = v])
      BY DEF State
    <2> QED BY <1>e, <2>1, <2>2
  <1>4. ParseLine(st, Field("cpu cores", v)) = State(s, Seen(p, c, v))
    <2>1. ParseLine(st, Field("cpu cores", v)) = [st EXCEPT !.block.cpu_cores = v]
      BY DEF ParseLine, Field
    <2>2. [st EXCEPT !.block.cpu_cores = v] = State(s, [b EXCEPT !.cpu_cores = v])
      BY DEF State
    <2> QED BY <1>e, <2>1, <2>2
  <1>5. ParseLine(st, Field("blank", v)) = State(finalize_cpu_block(s, b), NoBlock)
    <2>1. ParseLine(st, Field("blank", v)) =
            [summary |-> finalize_cpu_block(st.summary, st.block), block |-> NoBlock]
      BY DEF ParseLine, Field
    <2> QED BY <1>s, <2>1 DEF State
  <1> QED BY <1>1, <1>2, <1>3, <1>4, <1>5 DEF b, Kinds

(* The block of a processor after its first j lines. *)
Part(m, c, j) ==
    IF j = 0 THEN NoBlock
    ELSE Seen(IF j # 1 /\ m.style \in {"full", "no core id"} THEN c.socket ELSE NoId,
              IF j \notin {1, 2} /\ m.style = "full" THEN c.core ELSE NoId,
              IF \/ j = 4
                 \/ j = 3 /\ m.style = "no core id"
                 \/ j = 2 /\ m.style = "cores only"
              THEN CoreNumber(m, c) ELSE 0)

(* Which fields these lines have given, in each style. *)
LEMMA PartIs ==
    ASSUME NEW m, NEW c
    PROVE  /\ Part(m, c, 0) = NoBlock
           /\ Part(m, c, 1) = Seen(NoId, NoId, 0)
           /\ m.style = "full" =>
                /\ Part(m, c, 2) = Seen(c.socket, NoId, 0)
                /\ Part(m, c, 3) = Seen(c.socket, c.core, 0)
                /\ Part(m, c, 4) = Seen(c.socket, c.core, CoreNumber(m, c))
           /\ m.style = "no core id" =>
                /\ Part(m, c, 2) = Seen(c.socket, NoId, 0)
                /\ Part(m, c, 3) = Seen(c.socket, NoId, CoreNumber(m, c))
           /\ m.style = "cores only" => Part(m, c, 2) = Seen(NoId, NoId, CoreNumber(m, c))
  <1>1. Part(m, c, 0) = NoBlock /\ Part(m, c, 1) = Seen(NoId, NoId, 0)
    BY DEF Part
  <1>2. ASSUME m.style = "full"
        PROVE  /\ Part(m, c, 2) = Seen(c.socket, NoId, 0)
               /\ Part(m, c, 3) = Seen(c.socket, c.core, 0)
               /\ Part(m, c, 4) = Seen(c.socket, c.core, CoreNumber(m, c))
    BY <1>2 DEF Part
  <1>3. ASSUME m.style = "no core id"
        PROVE  /\ Part(m, c, 2) = Seen(c.socket, NoId, 0)
               /\ Part(m, c, 3) = Seen(c.socket, NoId, CoreNumber(m, c))
    <2>1. m.style # "full" /\ m.style # "cores only" /\ m.style \in {"full", "no core id"}
      BY <1>3
    <2>2. 2 # 0 /\ 2 # 1 /\ 2 # 4 /\ 2 # 3 /\ 3 # 0 /\ 3 # 1 /\ 3 # 4 /\ 3 # 2
      OBVIOUS
    <2> QED BY <1>3, <2>1, <2>2, Zenon DEF Part
  <1>4. ASSUME m.style = "cores only" PROVE Part(m, c, 2) = Seen(NoId, NoId, CoreNumber(m, c))
    <2>1. m.style # "full" /\ m.style \notin {"full", "no core id"}
      BY <1>4
    <2>2. 2 # 0 /\ 2 # 1 /\ 2 # 4 /\ 2 # 3
      OBVIOUS
    <2> QED BY <1>4, <2>1, <2>2, Zenon DEF Part
  <1> QED BY <1>1, <1>2, <1>3, <1>4

(* The last line of a block ends it; each of the others adds to it. *)
Reads(m, c, s, j) ==
    LET st == ParseLine(State(s, Part(m, c, j)), Block(m, c)[j + 1])
    IN  /\ j + 1 < LinesPer(m) => st = State(s, Part(m, c, j + 1))
        /\ j + 1 = LinesPer(m) => st = State(finalize_cpu_block(s, Part(m, c, j)), NoBlock)

(* So it is for every line of every block. *)
LEMMA BlockLines ==
    ASSUME NEW m \in Machines, NEW c \in Cpu, NEW s, NEW j \in Nat, j < LinesPer(m)
    PROVE  Reads(m, c, s, j)
  <1> DEFINE b == Block(m, c)
             b1 == b[1]
             b2 == b[2]
             b3 == b[3]
             b4 == b[4]
             b5 == b[5]
             To(i, line, n) == ParseLine(State(s, Part(m, c, i)), line) = State(s, Part(m, c, n))
             Ends(i, line) ==
               ParseLine(State(s, Part(m, c, i)), line) =
                 State(finalize_cpu_block(s, Part(m, c, i)), NoBlock)
  <1>0. IsBlock(b, m, c) /\ m.style \in {"full", "no core id", "cores only", "plain"}
    BY BlockIs, MachineTyped
  <1>p. Part(m, c, 0) = NoBlock /\ Part(m, c, 1) = Seen(NoId, NoId, 0)
    BY PartIs
  <1>1. To(0, b1, 1)
    <2>1. b1 = Field("processor", 0)
      BY <1>0 DEF IsBlock, Holds
    <2> HIDE DEF b1
    <2>2. Kinds(s, NoId, NoId, 0, 0)
      BY LineKinds
    <2> QED BY <1>p, <2>1, <2>2 DEF Kinds
  <1>2. CASE m.style = "full"
    <2>p. /\ Part(m, c, 2) = Seen(c.socket, NoId, 0)
          /\ Part(m, c, 3) = Seen(c.socket, c.core, 0)
          /\ Part(m, c, 4) = Seen(c.socket, c.core, CoreNumber(m, c))
      BY <1>2, PartIs
    <2>1. /\ b2 = Field("physical id", c.socket) /\ b3 = Field("core id", c.core)
          /\ b4 = Field("cpu cores", CoreNumber(m, c)) /\ b5 = Field("blank", 0)
      BY <1>0, <1>2, Zenon DEF IsBlock, Holds
    <2> HIDE DEF b1, b2, b3, b4, b5
    <2>2. To(1, b2, 2)
      <3>1. Kinds(s, NoId, NoId, 0, c.socket)
        BY LineKinds
      <3> QED BY <1>p, <2>p, <2>1, <3>1 DEF Kinds
    <2>3. To(2, b3, 3)
      <3>1. Kinds(s, c.socket, NoId, 0, c.core)
        BY LineKinds
      <3> QED BY <1>p, <2>p, <2>1, <3>1 DEF Kinds
    <2>4. To(3, b4, 4)
      <3>1. Kinds(s, c.socket, c.core, 0, CoreNumber(m, c))
        BY LineKinds
      <3> QED BY <1>p, <2>p, <2>1, <3>1 DEF Kinds
    <2>5. Ends(4, b5)
      <3>1. Kinds(s, c.socket, c.core, CoreNumber(m, c), 0)
        BY LineKinds
      <3> QED BY <1>p, <2>p, <2>1, <3>1 DEF Kinds
    <2>6. LinesPer(m) = 5
      BY <1>2, Zenon DEF LinesPer
    <2>7. j \in {0, 1, 2, 3, 4}
      BY <2>6
    <2> HIDE DEF To, Ends
    <2>8. CASE j = 0
      <3>1. j + 1 = 1 /\ j + 1 # LinesPer(m)
        BY <2>6, <2>8
      <3> QED BY <1>1, <2>8, <3>1, Zenon DEF Reads, To, b1
    <2>9. CASE j = 1
      <3>1. j + 1 = 2 /\ j + 1 # LinesPer(m)
        BY <2>6, <2>9
      <3> QED BY <2>2, <2>9, <3>1, Zenon DEF Reads, To, b2
    <2>10. CASE j = 2
      <3>1. j + 1 = 3 /\ j + 1 # LinesPer(m)
        BY <2>6, <2>10
      <3> QED BY <2>3, <2>10, <3>1, Zenon DEF Reads, To, b3
    <2>11. CASE j = 3
      <3>1. j + 1 = 4 /\ j + 1 # LinesPer(m)
        BY <2>6, <2>11
      <3> QED BY <2>4, <2>11, <3>1, Zenon DEF Reads, To, b4
    <2>12. CASE j = 4
      <3>1. j + 1 = 5 /\ ~(j + 1 < LinesPer(m))
        BY <2>6, <2>12
      <3> QED BY <2>5, <2>12, <3>1, Zenon DEF Reads, Ends, b5
    <2> QED BY <2>7, <2>8, <2>9, <2>10, <2>11, <2>12
  <1>3. CASE m.style = "no core id"
    <2>p. /\ Part(m, c, 2) = Seen(c.socket, NoId, 0)
          /\ Part(m, c, 3) = Seen(c.socket, NoId, CoreNumber(m, c))
      BY <1>3, PartIs
    <2>1. /\ b2 = Field("physical id", c.socket) /\ b3 = Field("cpu cores", CoreNumber(m, c))
          /\ b4 = Field("blank", 0)
      BY <1>0, <1>3, Zenon DEF IsBlock, Holds
    <2> HIDE DEF b1, b2, b3, b4
    <2>2. To(1, b2, 2)
      <3>1. Kinds(s, NoId, NoId, 0, c.socket)
        BY LineKinds
      <3> QED BY <1>p, <2>p, <2>1, <3>1 DEF Kinds
    <2>3. To(2, b3, 3)
      <3>1. Kinds(s, c.socket, NoId, 0, CoreNumber(m, c))
        BY LineKinds
      <3> QED BY <1>p, <2>p, <2>1, <3>1 DEF Kinds
    <2>4. Ends(3, b4)
      <3>1. Kinds(s, c.socket, NoId, CoreNumber(m, c), 0)
        BY LineKinds
      <3> QED BY <1>p, <2>p, <2>1, <3>1 DEF Kinds
    <2>5. LinesPer(m) = 4
      <3>1. m.style # "full"
        BY <1>3
      <3> QED BY <1>3, <3>1, Zenon DEF LinesPer
    <2>6. j \in {0, 1, 2, 3}
      BY <2>5
    <2> HIDE DEF To, Ends
    <2>7. CASE j = 0
      <3>1. j + 1 = 1 /\ j + 1 # LinesPer(m)
        BY <2>5, <2>7
      <3> QED BY <1>1, <2>7, <3>1, Zenon DEF Reads, To, b1
    <2>8. CASE j = 1
      <3>1. j + 1 = 2 /\ j + 1 # LinesPer(m)
        BY <2>5, <2>8
      <3> QED BY <2>2, <2>8, <3>1, Zenon DEF Reads, To, b2
    <2>9. CASE j = 2
      <3>1. j + 1 = 3 /\ j + 1 # LinesPer(m)
        BY <2>5, <2>9
      <3> QED BY <2>3, <2>9, <3>1, Zenon DEF Reads, To, b3
    <2>10. CASE j = 3
      <3>1. j + 1 = 4 /\ ~(j + 1 < LinesPer(m))
        BY <2>5, <2>10
      <3> QED BY <2>4, <2>10, <3>1, Zenon DEF Reads, Ends, b4
    <2> QED BY <2>6, <2>7, <2>8, <2>9, <2>10
  <1>4. CASE m.style = "cores only"
    <2>p. Part(m, c, 2) = Seen(NoId, NoId, CoreNumber(m, c))
      BY <1>4, PartIs
    <2>1. b2 = Field("cpu cores", CoreNumber(m, c)) /\ b3 = Field("blank", 0)
      BY <1>0, <1>4, Zenon DEF IsBlock, Holds
    <2> HIDE DEF b1, b2, b3
    <2>2. To(1, b2, 2)
      <3>1. Kinds(s, NoId, NoId, 0, CoreNumber(m, c))
        BY LineKinds
      <3> QED BY <1>p, <2>p, <2>1, <3>1 DEF Kinds
    <2>3. Ends(2, b3)
      <3>1. Kinds(s, NoId, NoId, CoreNumber(m, c), 0)
        BY LineKinds
      <3> QED BY <1>p, <2>p, <2>1, <3>1 DEF Kinds
    <2>4. LinesPer(m) = 3
      <3>1. m.style # "full" /\ m.style # "no core id"
        BY <1>4
      <3> QED BY <1>4, <3>1, Zenon DEF LinesPer
    <2>5. j \in {0, 1, 2}
      BY <2>4
    <2> HIDE DEF To, Ends
    <2>6. CASE j = 0
      <3>1. j + 1 = 1 /\ j + 1 # LinesPer(m)
        BY <2>4, <2>6
      <3> QED BY <1>1, <2>6, <3>1, Zenon DEF Reads, To, b1
    <2>7. CASE j = 1
      <3>1. j + 1 = 2 /\ j + 1 # LinesPer(m)
        BY <2>4, <2>7
      <3> QED BY <2>2, <2>7, <3>1, Zenon DEF Reads, To, b2
    <2>8. CASE j = 2
      <3>1. j + 1 = 3 /\ ~(j + 1 < LinesPer(m))
        BY <2>4, <2>8
      <3> QED BY <2>3, <2>8, <3>1, Zenon DEF Reads, Ends, b3
    <2> QED BY <2>5, <2>6, <2>7, <2>8
  <1>5. CASE m.style = "plain"
    <2>1. b2 = Field("blank", 0)
      BY <1>0, <1>5, Zenon DEF IsBlock, Holds
    <2> HIDE DEF b1, b2
    <2>2. Ends(1, b2)
      <3>1. Kinds(s, NoId, NoId, 0, 0)
        BY LineKinds
      <3> QED BY <1>p, <2>1, <3>1 DEF Kinds
    <2>3. LinesPer(m) = 2
      <3>1. m.style # "full" /\ m.style # "no core id" /\ m.style # "cores only"
        BY <1>5
      <3> QED BY <3>1, Zenon DEF LinesPer
    <2>4. j \in {0, 1}
      BY <2>3
    <2> HIDE DEF To, Ends
    <2>5. CASE j = 0
      <3>1. j + 1 = 1 /\ j + 1 # LinesPer(m)
        BY <2>3, <2>5
      <3> QED BY <1>1, <2>5, <3>1, Zenon DEF Reads, To, b1
    <2>6. CASE j = 1
      <3>1. j + 1 = 2 /\ ~(j + 1 < LinesPer(m))
        BY <2>3, <2>6
      <3> QED BY <2>2, <2>6, <3>1, Zenon DEF Reads, Ends, b2
    <2> QED BY <2>4, <2>5, <2>6
  <1> QED BY <1>0, <1>2, <1>3, <1>4, <1>5

-----------------------------------------------------------------------------
(* The greatest of two numbers. *)
LEMMA GreatestOfTwo ==
    ASSUME NEW a \in Nat, NEW b \in Nat
    PROVE  Max({a, b}) = IF a <= b THEN b ELSE a
  <1>1. \E x \in {a, b} : \A y \in {a, b} : x >= y
    OBVIOUS
  <1>2. Max({a, b}) \in {a, b} /\ \A y \in {a, b} : Max({a, b}) >= y
    BY <1>1 DEF Max
  <1> QED BY <1>2

(* What finalize_cpu_block makes of a block that has a processor. *)
Finalized(t, s, p, c, n) ==
    /\ t.logical_processors = s.logical_processors + 1
    /\ t.fallback_cores = IF s.fallback_cores <= n THEN n ELSE s.fallback_cores
    /\ t.physical_core_ids =
         IF p # NoId /\ c # NoId THEN s.physical_core_ids \cup {<<p, c>>} ELSE s.physical_core_ids
    /\ ~(p # NoId /\ c = NoId /\ n > 0) => t.socket_core_counts = s.socket_core_counts
    /\ p # NoId /\ c = NoId /\ n > 0 =>
         /\ DOMAIN t.socket_core_counts = DOMAIN s.socket_core_counts \cup {p}
         /\ \A x \in DOMAIN s.socket_core_counts :
              x # p => t.socket_core_counts[x] = s.socket_core_counts[x]
         /\ p \in DOMAIN s.socket_core_counts /\ s.socket_core_counts[p] = n =>
              t.socket_core_counts[p] = n
         /\ p \notin DOMAIN s.socket_core_counts => t.socket_core_counts[p] = n

(* So finalize_cpu_block does, whatever the block says. *)
LEMMA Finalizes ==
    ASSUME NEW s, s.fallback_cores \in Nat, NEW p, NEW c, NEW n \in Nat
    PROVE  Finalized(finalize_cpu_block(s, Seen(p, c, n)), s, p, c, n)
  <1> DEFINE b      == Seen(p, c, n)
             counts == s.socket_core_counts
             before == IF p \in DOMAIN counts THEN counts[p] ELSE 0
             max    == Max({before, n})
             grown  == [k \in DOMAIN counts \cup {p} |-> IF k = p THEN max ELSE counts[k]]
             t      == finalize_cpu_block(s, b)
  <1>1. b.has_processor
    BY Zenon DEF Seen, BlockWith
  <1>2. b.physical_id = p /\ b.core_id = c /\ b.cpu_cores = n
    BY DEF Seen, BlockWith
  <1> HIDE DEF b
  <1>3. t = [logical_processors |-> s.logical_processors + 1,
             fallback_cores |-> Max({s.fallback_cores, n}),
             physical_core_ids |->
               IF p # NoId /\ c # NoId
               THEN s.physical_core_ids \cup {<<p, c>>} ELSE s.physical_core_ids,
             socket_core_counts |-> IF p # NoId /\ c = NoId /\ n > 0 THEN grown ELSE counts]
    BY <1>1, <1>2, Zenon DEF finalize_cpu_block, NoId
  <1> HIDE DEF t
  <1>4. /\ t.logical_processors = s.logical_processors + 1
        /\ t.fallback_cores = Max({s.fallback_cores, n})
        /\ t.physical_core_ids =
             IF p # NoId /\ c # NoId
             THEN s.physical_core_ids \cup {<<p, c>>} ELSE s.physical_core_ids
        /\ t.socket_core_counts = IF p # NoId /\ c = NoId /\ n > 0 THEN grown ELSE counts
    <2> HIDE DEF grown, counts
    <2> QED BY <1>3, Zenon
  <1>5. Max({s.fallback_cores, n}) = IF s.fallback_cores <= n THEN n ELSE s.fallback_cores
    BY GreatestOfTwo
  <1>6. /\ DOMAIN grown = DOMAIN counts \cup {p}
        /\ \A x \in DOMAIN counts : x # p => grown[x] = counts[x]
        /\ grown[p] = max
    <2> HIDE DEF max, counts
    <2> QED OBVIOUS
  <1>7. /\ p \in DOMAIN counts /\ counts[p] = n => max = n
        /\ p \notin DOMAIN counts => max = n
    <2>1. Max({n, n}) = n /\ Max({0, n}) = n
      BY GreatestOfTwo
    <2>2. /\ p \in DOMAIN counts /\ counts[p] = n => before = n
          /\ p \notin DOMAIN counts => before = 0
      <3> HIDE DEF counts
      <3> QED OBVIOUS
    <2> HIDE DEF before
    <2> QED BY <2>1, <2>2
  <1> HIDE DEF grown, max
  <1>8. t.fallback_cores = IF s.fallback_cores <= n THEN n ELSE s.fallback_cores
    BY <1>4, <1>5
  <1>9. ~(p # NoId /\ c = NoId /\ n > 0) => t.socket_core_counts = counts
    BY <1>4, Zenon
  <1>10. p # NoId /\ c = NoId /\ n > 0 => t.socket_core_counts = grown
    BY <1>4, Zenon
  <1>11. p # NoId /\ c = NoId /\ n > 0 =>
           /\ DOMAIN t.socket_core_counts = DOMAIN counts \cup {p}
           /\ \A x \in DOMAIN counts : x # p => t.socket_core_counts[x] = counts[x]
           /\ p \in DOMAIN counts /\ counts[p] = n => t.socket_core_counts[p] = n
           /\ p \notin DOMAIN counts => t.socket_core_counts[p] = n
    <2> HIDE DEF counts
    <2> QED BY <1>6, <1>7, <1>10
  <1>12. /\ t.logical_processors = s.logical_processors + 1
         /\ t.physical_core_ids =
              IF p # NoId /\ c # NoId
              THEN s.physical_core_ids \cup {<<p, c>>} ELSE s.physical_core_ids
    BY <1>4, Zenon
  <1>13. Finalized(t, s, p, c, n)
    BY <1>8, <1>9, <1>11, <1>12, Zenon DEF Finalized
  <1> QED BY <1>13, Zenon DEF t, b

-----------------------------------------------------------------------------
(* What a summary holds: a count of processors, a number of cores to fall back to,
   the cores that were told apart, and the sockets whose number of cores is known. *)
Is(s, l, f, I, D, m) ==
    /\ s.logical_processors = l
    /\ s.fallback_cores = f
    /\ s.physical_core_ids = I
    /\ DOMAIN s.socket_core_counts = D
    /\ \A x \in D : s.socket_core_counts[x] = Cardinality(CoresOf(m, x))

(* The end of a block, whatever was told of the processor. *)
Ended(s, p, c, n, l, f, I, D, m) ==
    Is(finalize_cpu_block(s, Seen(p, c, n)), l + 1,
       IF f <= n THEN n ELSE f,
       IF p # NoId /\ c # NoId THEN I \cup {<<p, c>>} ELSE I,
       IF p # NoId /\ c = NoId /\ n > 0 THEN D \cup {p} ELSE D, m)

(* So it is if the block says the right number of cores. *)
LEMMA BlockEnds ==
    ASSUME NEW m, NEW s, NEW l, NEW f \in Nat, NEW I, NEW D, Is(s, l, f, I, D, m),
           NEW p, NEW c, NEW n \in Nat, p # NoId /\ n > 0 => n = Cardinality(CoresOf(m, p))
    PROVE  Ended(s, p, c, n, l, f, I, D, m)
  <1> DEFINE t == finalize_cpu_block(s, Seen(p, c, n))
             counted == p # NoId /\ c = NoId /\ n > 0
             C(x) == Cardinality(CoresOf(m, x))
             S == s.socket_core_counts
             T == t.socket_core_counts
  <1>1. Finalized(t, s, p, c, n)
    BY Finalizes DEF Is
  <1>2. /\ s.logical_processors = l /\ s.fallback_cores = f /\ s.physical_core_ids = I
        /\ DOMAIN S = D /\ \A x \in D : S[x] = C(x)
    BY DEF Is
  <1> HIDE DEF t
  <1>3. /\ t.logical_processors = l + 1
        /\ t.fallback_cores = IF f <= n THEN n ELSE f
        /\ t.physical_core_ids = IF p # NoId /\ c # NoId THEN I \cup {<<p, c>>} ELSE I
    BY <1>1, <1>2, Zenon DEF Finalized
  <1>4. /\ ~counted => T = S
        /\ counted =>
             /\ DOMAIN T = DOMAIN S \cup {p}
             /\ \A x \in DOMAIN S : x # p => T[x] = S[x]
             /\ p \in DOMAIN S /\ S[p] = n => T[p] = n
             /\ p \notin DOMAIN S => T[p] = n
    BY <1>1, Zenon DEF Finalized
  <1>5. counted => n = C(p)
    BY Zenon
  <1> HIDE DEF S, T, C, counted
  <1>6. DOMAIN T = IF counted THEN D \cup {p} ELSE D
    BY <1>2, <1>4
  <1>7. \A x \in DOMAIN T : T[x] = C(x)
    BY <1>2, <1>4, <1>5, <1>6
  <1>8. /\ DOMAIN T = IF counted THEN D \cup {p} ELSE D
        /\ \A x \in (IF counted THEN D \cup {p} ELSE D) : T[x] = C(x)
    BY <1>6, <1>7
  <1>9. Is(t, l + 1, IF f <= n THEN n ELSE f,
           IF p # NoId /\ c # NoId THEN I \cup {<<p, c>>} ELSE I,
           IF counted THEN D \cup {p} ELSE D, m)
    BY <1>3, <1>8, Zenon DEF Is, C, T
  <1> QED BY <1>9, Zenon DEF Ended, t, counted

(* What the end of the text makes of a block of which j lines were read. *)
Cut(m, c, j, s, l, f, I, D) ==
    LET t == finalize_cpu_block(s, Part(m, c, j))
        n == CoreNumber(m, c)
        most == IF f <= n THEN n ELSE f
    IN  /\ m.style = "full" =>
             \E g \in Nat : \/ j < 3 /\ g = f /\ Is(t, l + 1, g, I, D, m)
                            \/ j >= 3 /\ Is(t, l + 1, g, I \cup {<<c.socket, c.core>>}, D, m)
        /\ m.style = "no core id" =>
             \E g \in Nat : \/ j < 3 /\ g = f /\ Is(t, l + 1, g, I, D, m)
                            \/ j = 3 /\ Is(t, l + 1, g, I, D \cup {c.socket}, m)
        /\ m.style = "cores only" =>
             \/ j = 1 /\ Is(t, l + 1, f, I, D, m)
             \/ j = 2 /\ Is(t, l + 1, most, I, D, m)
        /\ m.style = "plain" => Is(t, l + 1, f, I, D, m)

(* So it is wherever in the block the text ends. *)
LEMMA BlockIsCut ==
    ASSUME NEW m \in Machines, NEW c \in Cpu, NEW s, NEW l, NEW f \in Nat, NEW I, NEW D,
           Is(s, l, f, I, D, m), CoreNumber(m, c) > 0,
           NEW j \in Nat, j > 0, j < LinesPer(m)
    PROVE  Cut(m, c, j, s, l, f, I, D)
  <1> DEFINE n == CoreNumber(m, c)
             p == c.socket
             x == c.core
             End(b) == finalize_cpu_block(s, b)
             most == IF f <= n THEN n ELSE f
             pair == <<p, x>>
  <1>0. p \in Nat /\ x \in Nat /\ n \in Nat /\ most \in Nat /\ n = Cardinality(CoresOf(m, p))
    BY CoresTyped DEF Cpu, CoreNumber
  <1>1. p # NoId /\ x # NoId
    BY <1>0 DEF NoId
  <1>2. (IF f <= 0 THEN 0 ELSE f) = f
    OBVIOUS
  <1> HIDE DEF n, p, x, most
  <1>3. ~(0 > 0)
    OBVIOUS
  <1>4. Is(End(Seen(NoId, NoId, 0)), l + 1, f, I, D, m)
    <2>1. Ended(s, NoId, NoId, 0, l, f, I, D, m)
      BY BlockEnds
    <2> QED BY <1>2, <2>1, Zenon DEF Ended
  <1>5. Is(End(Seen(p, NoId, 0)), l + 1, f, I, D, m)
    <2>1. Ended(s, p, NoId, 0, l, f, I, D, m)
      BY BlockEnds
    <2> QED BY <1>2, <1>3, <2>1, Zenon DEF Ended
  <1>6. Is(End(Seen(p, x, 0)), l + 1, f, I \cup {pair}, D, m)
    <2>1. Ended(s, p, x, 0, l, f, I, D, m)
      BY BlockEnds
    <2> QED BY <1>1, <1>2, <1>3, <2>1, Zenon DEF Ended
  <1>7. Is(End(Seen(p, x, n)), l + 1, most, I \cup {pair}, D, m)
    <2>1. Ended(s, p, x, n, l, f, I, D, m)
      BY <1>0, BlockEnds
    <2> QED BY <1>1, <2>1, Zenon DEF Ended, most
  <1>8. Is(End(Seen(p, NoId, n)), l + 1, most, I, D \cup {p}, m)
    <2>1. Ended(s, p, NoId, n, l, f, I, D, m)
      BY <1>0, BlockEnds
    <2>2. n > 0
      BY DEF n
    <2> QED BY <1>1, <2>1, <2>2, Zenon DEF Ended, most
  <1>9. Is(End(Seen(NoId, NoId, n)), l + 1, most, I, D, m)
    <2>1. Ended(s, NoId, NoId, n, l, f, I, D, m)
      BY <1>0, BlockEnds
    <2> QED BY <2>1, Zenon DEF Ended, most
  <1>s. m.style \in {"full", "no core id", "cores only", "plain"}
    BY MachineTyped
  <1>t. Part(m, c, 1) = Seen(NoId, NoId, 0)
    BY PartIs
  <1>10. CASE m.style = "full"
    <2>1. j \in {1, 2, 3, 4}
      <3>1. LinesPer(m) = 5
        BY <1>10, Zenon DEF LinesPer
      <3> QED BY <3>1
    <2>2. /\ Part(m, c, 2) = Seen(p, NoId, 0) /\ Part(m, c, 3) = Seen(p, x, 0)
          /\ Part(m, c, 4) = Seen(p, x, n)
      BY <1>10, PartIs, Zenon DEF n, p, x
    <2>3. 1 < 3 /\ 2 < 3 /\ 3 >= 3 /\ 4 >= 3
      OBVIOUS
    <2> DEFINE t == finalize_cpu_block(s, Part(m, c, j))
    <2>4. \E g \in Nat : \/ j < 3 /\ g = f /\ Is(t, l + 1, g, I, D, m)
                         \/ j >= 3 /\ Is(t, l + 1, g, I \cup {pair}, D, m)
      <3>1. CASE j = 1
        BY <1>4, <1>t, <2>3, <3>1, Zenon
      <3>2. CASE j = 2
        BY <1>5, <2>2, <2>3, <3>2, Zenon
      <3>3. CASE j = 3
        BY <1>6, <2>2, <2>3, <3>3, Zenon
      <3>4. CASE j = 4
        BY <1>0, <1>7, <2>2, <2>3, <3>4, Zenon
      <3> QED BY <2>1, <3>1, <3>2, <3>3, <3>4, Zenon
    <2>5. m.style # "no core id" /\ m.style # "cores only" /\ m.style # "plain"
      BY <1>10
    <2> QED BY <2>4, <2>5, Zenon DEF Cut, p, x
  <1>11. CASE m.style = "no core id"
    <2>0. m.style # "full" /\ m.style # "cores only" /\ m.style # "plain"
      BY <1>11
    <2>1. j \in {1, 2, 3}
      <3>1. LinesPer(m) = 4
        BY <1>11, <2>0, Zenon DEF LinesPer
      <3> QED BY <3>1
    <2>2. Part(m, c, 2) = Seen(p, NoId, 0) /\ Part(m, c, 3) = Seen(p, NoId, n)
      BY <1>11, PartIs, Zenon DEF n, p, x
    <2>3. 1 < 3 /\ 2 < 3
      OBVIOUS
    <2> DEFINE t == finalize_cpu_block(s, Part(m, c, j))
    <2>4. \E g \in Nat : \/ j < 3 /\ g = f /\ Is(t, l + 1, g, I, D, m)
                         \/ j = 3 /\ Is(t, l + 1, g, I, D \cup {p}, m)
      <3>1. CASE j = 1
        BY <1>4, <1>t, <2>3, <3>1, Zenon
      <3>2. CASE j = 2
        BY <1>5, <2>2, <2>3, <3>2, Zenon
      <3>3. CASE j = 3
        BY <1>0, <1>8, <2>2, <2>3, <3>3, Zenon
      <3> QED BY <2>1, <3>1, <3>2, <3>3, Zenon
    <2> QED BY <2>0, <2>4, Zenon DEF Cut, p
  <1>12. CASE m.style = "cores only"
    <2>0. m.style # "full" /\ m.style # "no core id" /\ m.style # "plain"
      BY <1>12
    <2>1. j \in {1, 2}
      <3>1. LinesPer(m) = 3
        BY <1>12, <2>0, Zenon DEF LinesPer
      <3> QED BY <3>1
    <2>2. Part(m, c, 2) = Seen(NoId, NoId, n)
      BY <1>12, PartIs, Zenon DEF n
    <2>3. CASE j = 1
      BY <1>4, <1>t, <2>0, <2>3, Zenon DEF Cut
    <2>4. CASE j = 2
      BY <1>9, <2>0, <2>2, <2>4, Zenon DEF Cut, most, n
    <2> QED BY <2>1, <2>3, <2>4, Zenon
  <1>13. CASE m.style = "plain"
    <2>0. m.style # "full" /\ m.style # "no core id" /\ m.style # "cores only"
      BY <1>13
    <2>1. j = 1
      <3>1. LinesPer(m) = 2
        BY <1>13, <2>0, Zenon DEF LinesPer
      <3> QED BY <3>1
    <2> QED BY <1>4, <1>t, <2>0, <2>1, Zenon DEF Cut
  <1> QED BY <1>s, <1>10, <1>11, <1>12, <1>13, Zenon

-----------------------------------------------------------------------------
(* The cores and the sockets of the first i processors. *)
Pairs(m, i) == {<<m.cpus[k].socket, m.cpus[k].core>> : k \in 1 .. i}

Sockets(m, i) == {m.cpus[k].socket : k \in 1 .. i}

(* They grow with the number of processors. *)
LEMMA PairsGrow ==
    ASSUME NEW m, NEW i \in Nat
    PROVE  /\ Pairs(m, 0) = {} /\ Sockets(m, 0) = {}
           /\ i > 0 => Pairs(m, i) # {} /\ Sockets(m, i) # {}
           /\ Pairs(m, i + 1) = Pairs(m, i) \cup {<<m.cpus[i + 1].socket, m.cpus[i + 1].core>>}
           /\ Sockets(m, i + 1) = Sockets(m, i) \cup {m.cpus[i + 1].socket}
           /\ \A n \in Nat : i <= n =>
                Pairs(m, i) \subseteq Pairs(m, n) /\ Sockets(m, i) \subseteq Sockets(m, n)
  <1>1. 1 .. 0 = {} /\ (1 .. i + 1) = (1 .. i) \cup {i + 1} /\ (i > 0 => 1 \in 1 .. i)
    OBVIOUS
  <1>2. \A n \in Nat : i <= n => 1 .. i \subseteq 1 .. n
    OBVIOUS
  <1>3. Pairs(m, 0) = {} /\ Sockets(m, 0) = {}
    BY <1>1 DEF Pairs, Sockets
  <1>4. i > 0 => Pairs(m, i) # {} /\ Sockets(m, i) # {}
    BY <1>1, Zenon DEF Pairs, Sockets
  <1>5. Pairs(m, i + 1) = Pairs(m, i) \cup {<<m.cpus[i + 1].socket, m.cpus[i + 1].core>>}
    BY <1>1, Zenon DEF Pairs
  <1>6. Sockets(m, i + 1) = Sockets(m, i) \cup {m.cpus[i + 1].socket}
    BY <1>1, Zenon DEF Sockets
  <1>7. \A n \in Nat : i <= n =>
          Pairs(m, i) \subseteq Pairs(m, n) /\ Sockets(m, i) \subseteq Sockets(m, n)
    BY <1>2, Zenon DEF Pairs, Sockets
  <1> QED BY <1>3, <1>4, <1>5, <1>6, <1>7

(* The number of cores to fall back to after i whole blocks. *)
Falls(m, i, f) ==
    /\ i = 0 \/ m.style = "plain" => f = 0
    /\ i # 0 /\ m.style = "cores only" => f = CoreNumber(m, m.cpus[1])

(* The summary after i whole blocks. *)
SummaryOf(s, m, i) ==
    \E f \in Nat :
        /\ Falls(m, i, f)
        /\ Is(s, i, f, IF m.style = "full" THEN Pairs(m, i) ELSE {},
              IF m.style = "no core id" THEN Sockets(m, i) ELSE {}, m)

(* The loop starts with the summary of no block. *)
LEMMA NoBlocks ==
    ASSUME NEW m
    PROVE  SummaryOf(NoSummary, m, 0)
  <1>1. /\ NoSummary.logical_processors = 0 /\ NoSummary.fallback_cores = 0
        /\ NoSummary.physical_core_ids = {} /\ NoSummary.socket_core_counts = <<>>
    BY DEF NoSummary
  <1>2. DOMAIN <<>> = {}
    OBVIOUS
  <1>3. Is(NoSummary, 0, 0, {}, {}, m)
    BY <1>1, <1>2, Zenon DEF Is
  <1>4. Pairs(m, 0) = {} /\ Sockets(m, 0) = {}
    BY PairsGrow
  <1>5. Falls(m, 0, 0) /\ 0 \in Nat
    BY DEF Falls
  <1> QED BY <1>3, <1>4, <1>5, Zenon DEF SummaryOf

(* A machine of which no package is named has one, so each of its processors says
   the same number of cores. *)
LEMMA OnePackage ==
    ASSUME NEW m \in Machines, m.style = "cores only", NEW i \in 1 .. Len(m.cpus)
    PROVE  CoreNumber(m, m.cpus[i]) = CoreNumber(m, m.cpus[1])
  BY MachineTyped DEF CoreNumber

(* One more whole block. *)
LEMMA BlockIsAdded ==
    ASSUME NEW m \in Machines, NEW s, NEW i \in Nat, i < Len(m.cpus), SummaryOf(s, m, i)
    PROVE  SummaryOf(finalize_cpu_block(s, Part(m, m.cpus[i + 1], LinesPer(m) - 1)), m, i + 1)
  <1> DEFINE c == m.cpus[i + 1]
             j == LinesPer(m) - 1
             t == finalize_cpu_block(s, Part(m, c, j))
             I == IF m.style = "full" THEN Pairs(m, i) ELSE {}
             D == IF m.style = "no core id" THEN Sockets(m, i) ELSE {}
             n == CoreNumber(m, c)
  <1>1. PICK f \in Nat : Falls(m, i, f) /\ Is(s, i, f, I, D, m)
    BY DEF SummaryOf
  <1>2. i + 1 \in 1 .. Len(m.cpus) /\ i + 1 # 0
    <2>1. Len(m.cpus) \in Nat
      BY MachineTyped
    <2> QED BY <2>1
  <1>3. c \in Cpu /\ n \in Nat /\ n > 0
    BY <1>2, MachineTyped, CoresTyped DEF CoreNumber
  <1>s. m.style \in {"full", "no core id", "cores only", "plain"}
    BY MachineTyped
  <1>p. /\ Pairs(m, i + 1) = Pairs(m, i) \cup {<<c.socket, c.core>>}
        /\ Sockets(m, i + 1) = Sockets(m, i) \cup {c.socket}
    BY PairsGrow
  <1>j. /\ LinesPer(m) \in Nat /\ j \in Nat /\ j > 0 /\ j < LinesPer(m)
        /\ m.style = "full" => j = 4
        /\ m.style = "no core id" => j = 3
        /\ m.style = "cores only" => j = 2
    <2>1. LinesPer(m) \in {2, 3, 4, 5}
      BY Zenon DEF LinesPer
    <2>2. m.style = "full" => LinesPer(m) = 5
      BY Zenon DEF LinesPer
    <2>3. m.style = "no core id" => LinesPer(m) = 4
      BY DEF LinesPer
    <2>4. m.style = "cores only" => LinesPer(m) = 3
      BY DEF LinesPer
    <2>5. LinesPer(m) \in Nat /\ j \in Nat /\ j > 0 /\ j < LinesPer(m)
      BY <2>1
    <2>6. 5 - 1 = 4 /\ 4 - 1 = 3 /\ 3 - 1 = 2
      OBVIOUS
    <2> QED BY <2>2, <2>3, <2>4, <2>5, <2>6, Zenon
  <1> HIDE DEF j, I, D
  <1>k. ~(4 < 3) /\ ~(3 < 3) /\ 2 # 1
    OBVIOUS
  <1>4. Cut(m, c, j, s, i, f, I, D)
    BY <1>1, <1>3, <1>j, BlockIsCut DEF n
  <1> HIDE DEF n
  <1>5. CASE m.style = "full"
    <2>1. m.style # "no core id" /\ m.style # "cores only" /\ m.style # "plain"
      BY <1>5
    <2>2. I = Pairs(m, i) /\ D = {}
      BY <1>5, <2>1, Zenon DEF I, D
    <2>3. ~(j < 3)
      BY <1>5, <1>j, <1>k, Zenon
    <2>4. PICK g \in Nat : Is(t, i + 1, g, I \cup {<<c.socket, c.core>>}, D, m)
      BY <1>4, <1>5, <2>3, Zenon DEF Cut
    <2>5. Falls(m, i + 1, g)
      BY <1>2, <2>1, Zenon DEF Falls
    <2> HIDE DEF t, c
    <2>6. SummaryOf(t, m, i + 1)
      BY <1>5, <1>p, <2>1, <2>2, <2>4, <2>5, Zenon DEF SummaryOf
    <2> QED BY <2>6, Zenon DEF t, c, j
  <1>6. CASE m.style = "no core id"
    <2>1. m.style # "full" /\ m.style # "cores only" /\ m.style # "plain"
      BY <1>6
    <2>2. I = {} /\ D = Sockets(m, i)
      BY <1>6, <2>1, Zenon DEF I, D
    <2>3. ~(j < 3)
      BY <1>6, <1>j, <1>k, Zenon
    <2>4. PICK g \in Nat : Is(t, i + 1, g, I, D \cup {c.socket}, m)
      BY <1>4, <1>6, <2>3, Zenon DEF Cut
    <2>5. Falls(m, i + 1, g)
      BY <1>2, <2>1, Zenon DEF Falls
    <2> HIDE DEF t, c
    <2>6. SummaryOf(t, m, i + 1)
      BY <1>6, <1>p, <2>1, <2>2, <2>4, <2>5, Zenon DEF SummaryOf
    <2> QED BY <2>6, Zenon DEF t, c, j
  <1>7. CASE m.style = "cores only"
    <2>1. m.style # "full" /\ m.style # "no core id" /\ m.style # "plain"
      BY <1>7
    <2>2. I = {} /\ D = {}
      BY <2>1, Zenon DEF I, D
    <2>3. j # 1
      BY <1>7, <1>j, <1>k, Zenon
    <2> DEFINE g == IF f <= n THEN n ELSE f
    <2>4. Is(t, i + 1, g, I, D, m)
      BY <1>4, <1>7, <2>3, Zenon DEF Cut, n
    <2>5. g = n /\ n = CoreNumber(m, m.cpus[1])
      <3>1. n = CoreNumber(m, m.cpus[1])
        BY <1>2, <1>7, OnePackage DEF n
      <3>2. f = 0 \/ f = n
        BY <1>1, <1>7, <3>1, Zenon DEF Falls
      <3> QED BY <1>3, <3>1, <3>2
    <2> HIDE DEF t, c, g
    <2>6. Falls(m, i + 1, g)
      BY <1>2, <2>1, <2>5, Zenon DEF Falls
    <2>7. SummaryOf(t, m, i + 1)
      BY <1>3, <2>1, <2>2, <2>4, <2>5, <2>6, Zenon DEF SummaryOf
    <2> QED BY <2>7, Zenon DEF t, c, j
  <1>8. CASE m.style = "plain"
    <2>1. m.style # "full" /\ m.style # "no core id" /\ m.style # "cores only"
      BY <1>8
    <2>2. I = {} /\ D = {}
      BY <2>1, Zenon DEF I, D
    <2>3. Is(t, i + 1, f, I, D, m)
      BY <1>4, <1>8, Zenon DEF Cut
    <2>4. Falls(m, i + 1, f)
      BY <1>1, <1>8, <2>1, Zenon DEF Falls
    <2> HIDE DEF t, c
    <2>5. SummaryOf(t, m, i + 1)
      BY <2>1, <2>2, <2>3, <2>4, Zenon DEF SummaryOf
    <2> QED BY <2>5, Zenon DEF t, c, j
  <1> QED BY <1>s, <1>5, <1>6, <1>7, <1>8, Zenon

(* What a summary of a text that was cut may hold: cores and sockets of the
   machine, or the number of cores of its only package, or nothing but the count of
   processors. *)
Within(s, m) ==
    \E l \in 1 .. Len(m.cpus), f \in Nat, I \in SUBSET Pairs(m, Len(m.cpus)),
       D \in SUBSET Sockets(m, Len(m.cpus)) :
        /\ Is(s, l, f, I, D, m)
        /\ \/ m.style = "full" /\ I # {} /\ D = {}
           \/ m.style = "no core id" /\ I = {} /\ D # {}
           \/ m.style = "cores only" /\ I = {} /\ D = {} /\ f = CoreNumber(m, m.cpus[1])
           \/ I = {} /\ D = {} /\ f = 0 /\ (m.style = "plain" \/ l = 1)

(* A text that ends behind a block is summarised within the machine, *)
LEMMA WholeIsWithin ==
    ASSUME NEW m \in Machines, NEW s, NEW i \in 1 .. Len(m.cpus), SummaryOf(s, m, i)
    PROVE  Within(s, m)
  <1> DEFINE N == Len(m.cpus)
             I == IF m.style = "full" THEN Pairs(m, i) ELSE {}
             D == IF m.style = "no core id" THEN Sockets(m, i) ELSE {}
  <1>1. PICK f \in Nat : Falls(m, i, f) /\ Is(s, i, f, I, D, m)
    BY DEF SummaryOf
  <1>n. N \in Nat
    BY MachineTyped
  <1>2. m.style \in {"full", "no core id", "cores only", "plain"}
    BY MachineTyped
  <1>3. i \in Nat /\ i > 0 /\ i <= N /\ i # 0
    BY <1>n
  <1>4. /\ Pairs(m, i) # {} /\ Sockets(m, i) # {}
        /\ Pairs(m, i) \subseteq Pairs(m, N) /\ Sockets(m, i) \subseteq Sockets(m, N)
    BY <1>n, <1>3, PairsGrow
  <1>5. I \in SUBSET Pairs(m, N) /\ D \in SUBSET Sockets(m, N)
    <2> HIDE DEF N
    <2> QED BY <1>4
  <1>6. \/ m.style = "full" /\ I # {} /\ D = {}
        \/ m.style = "no core id" /\ I = {} /\ D # {}
        \/ m.style = "cores only" /\ I = {} /\ D = {} /\ f = CoreNumber(m, m.cpus[1])
        \/ I = {} /\ D = {} /\ f = 0 /\ (m.style = "plain" \/ i = 1)
    <2> HIDE DEF N
    <2>1. CASE m.style = "full"
      <3>1. m.style # "no core id"
        BY <2>1
      <3> QED BY <1>4, <2>1, <3>1, Zenon
    <2>2. CASE m.style = "no core id"
      <3>1. m.style # "full"
        BY <2>2
      <3> QED BY <1>4, <2>2, <3>1, Zenon
    <2>3. CASE m.style = "cores only"
      <3>1. m.style # "full" /\ m.style # "no core id"
        BY <2>3
      <3> QED BY <1>1, <1>3, <2>3, <3>1, Zenon DEF Falls
    <2>4. CASE m.style = "plain"
      <3>1. m.style # "full" /\ m.style # "no core id"
        BY <2>4
      <3> QED BY <1>1, <2>4, <3>1, Zenon DEF Falls
    <2> QED BY <1>2, <2>1, <2>2, <2>3, <2>4, Zenon
  <1> HIDE DEF I, D
  <1> QED BY <1>1, <1>5, <1>6, Zenon DEF Within

(* and so is one that ends in the middle of a block. *)
LEMMA CutIsWithin ==
    ASSUME NEW m \in Machines, NEW s, NEW i \in Nat, i < Len(m.cpus), SummaryOf(s, m, i),
           NEW j \in Nat, j > 0, j < LinesPer(m)
    PROVE  Within(finalize_cpu_block(s, Part(m, m.cpus[i + 1], j)), m)
  <1> DEFINE N == Len(m.cpus)
             c == m.cpus[i + 1]
             t == finalize_cpu_block(s, Part(m, c, j))
             I == IF m.style = "full" THEN Pairs(m, i) ELSE {}
             D == IF m.style = "no core id" THEN Sockets(m, i) ELSE {}
             n == CoreNumber(m, c)
             P == Pairs(m, N)
             S == Sockets(m, N)
             l == i + 1
             pair == <<c.socket, c.core>>
  <1>1. PICK f \in Nat : Falls(m, i, f) /\ Is(s, i, f, I, D, m)
    BY DEF SummaryOf
  <1>n. N \in Nat
    BY MachineTyped
  <1>2. m.style \in {"full", "no core id", "cores only", "plain"}
    BY MachineTyped
  <1>3. l \in 1 .. N /\ i <= N /\ l <= N /\ l \in Nat /\ (i # 0 => i > 0) /\ (i = 0 => l = 1)
    BY <1>n
  <1>4. c \in Cpu /\ n \in Nat /\ n > 0
    BY <1>3, MachineTyped, CoresTyped DEF CoreNumber
  <1>5. Cut(m, c, j, s, i, f, I, D)
    BY <1>1, <1>4, BlockIsCut DEF n
  <1>6. /\ i # 0 => Pairs(m, i) # {} /\ Sockets(m, i) # {}
        /\ i = 0 => Pairs(m, i) = {} /\ Sockets(m, i) = {}
        /\ Pairs(m, l) = Pairs(m, i) \cup {pair}
        /\ Sockets(m, l) = Sockets(m, i) \cup {c.socket}
    <2> HIDE DEF N
    <2> QED BY <1>3, PairsGrow
  <1>7. /\ Pairs(m, i) \in SUBSET P /\ Sockets(m, i) \in SUBSET S
        /\ Pairs(m, l) \in SUBSET P /\ Sockets(m, l) \in SUBSET S
        /\ {} \in SUBSET P /\ {} \in SUBSET S
    <2> HIDE DEF N, l
    <2> QED BY <1>n, <1>3, PairsGrow
  <1> DEFINE Good(g, E, H) ==
               /\ g \in Nat /\ E \in SUBSET P /\ H \in SUBSET S
               /\ Is(t, l, g, E, H, m)
               /\ \/ m.style = "full" /\ E # {} /\ H = {}
                  \/ m.style = "no core id" /\ E = {} /\ H # {}
                  \/ m.style = "cores only" /\ E = {} /\ H = {} /\ g = CoreNumber(m, m.cpus[1])
                  \/ E = {} /\ H = {} /\ g = 0 /\ (m.style = "plain" \/ l = 1)
  <1>8. ASSUME NEW g, NEW E, NEW H, Good(g, E, H) PROVE Within(t, m)
    <2> HIDE DEF t, l
    <2> QED BY <1>3, <1>8, Zenon DEF Within
  <1>9. i = 0 => f = 0
    BY <1>1, Zenon DEF Falls
  <1> HIDE DEF P, S, N, n, t
  <1>10. CASE m.style = "full"
    <2>1. m.style # "no core id" /\ m.style # "cores only" /\ m.style # "plain"
      BY <1>10
    <2>2. I = Pairs(m, i) /\ D = {}
      BY <1>10, <2>1, Zenon
    <2> HIDE DEF I, D
    <2>3. PICK g \in Nat : \/ j < 3 /\ g = f /\ Is(t, l, g, I, D, m)
                           \/ j >= 3 /\ Is(t, l, g, I \cup {pair}, D, m)
      BY <1>5, <1>10, Zenon DEF Cut, t
    <2> HIDE DEF c, l
    <2>4. CASE g = f /\ Is(t, l, g, I, D, m)
      <3>1. Good(g, I, D)
        <4>1. CASE i = 0
          BY <1>3, <1>6, <1>7, <1>9, <2>2, <2>4, <4>1, Zenon
        <4>2. CASE i # 0
          BY <1>6, <1>7, <1>10, <2>2, <2>4, <4>2, Zenon
        <4> QED BY <4>1, <4>2, Zenon
      <3> HIDE DEF Good
      <3> QED BY <1>8, <3>1, Zenon DEF t, c
    <2>5. CASE Is(t, l, g, I \cup {pair}, D, m)
      <3>0. I \cup {pair} = Pairs(m, l) /\ I \cup {pair} # {}
        BY <1>6, <2>2, Zenon
      <3>1. Good(g, I \cup {pair}, D)
        BY <1>7, <1>10, <2>2, <2>5, <3>0, Zenon
      <3> HIDE DEF Good
      <3> QED BY <1>8, <3>1, Zenon DEF t, c
    <2> QED BY <2>3, <2>4, <2>5, Zenon
  <1>11. CASE m.style = "no core id"
    <2>1. m.style # "full" /\ m.style # "cores only" /\ m.style # "plain"
      BY <1>11
    <2>2. I = {} /\ D = Sockets(m, i)
      BY <1>11, <2>1, Zenon
    <2> HIDE DEF I, D
    <2>3. PICK g \in Nat : \/ j < 3 /\ g = f /\ Is(t, l, g, I, D, m)
                           \/ j = 3 /\ Is(t, l, g, I, D \cup {c.socket}, m)
      BY <1>5, <1>11, Zenon DEF Cut, t
    <2> HIDE DEF c, l
    <2>4. CASE g = f /\ Is(t, l, g, I, D, m)
      <3>1. Good(g, I, D)
        <4>1. CASE i = 0
          BY <1>3, <1>6, <1>7, <1>9, <2>2, <2>4, <4>1, Zenon
        <4>2. CASE i # 0
          BY <1>6, <1>7, <1>11, <2>2, <2>4, <4>2, Zenon
        <4> QED BY <4>1, <4>2, Zenon
      <3> HIDE DEF Good
      <3> QED BY <1>8, <3>1, Zenon DEF t, c
    <2>5. CASE Is(t, l, g, I, D \cup {c.socket}, m)
      <3>0. D \cup {c.socket} = Sockets(m, l) /\ D \cup {c.socket} # {}
        BY <1>6, <2>2, Zenon
      <3>1. Good(g, I, D \cup {c.socket})
        BY <1>7, <1>11, <2>2, <2>5, <3>0, Zenon
      <3> HIDE DEF Good
      <3> QED BY <1>8, <3>1, Zenon DEF t, c
    <2> QED BY <2>3, <2>4, <2>5, Zenon
  <1>12. CASE m.style = "cores only"
    <2>1. m.style # "full" /\ m.style # "no core id" /\ m.style # "plain"
      BY <1>12
    <2>2. I = {} /\ D = {}
      BY <2>1, Zenon
    <2>3. n = CoreNumber(m, m.cpus[1])
      BY <1>3, <1>12, OnePackage DEF n, N
    <2>4. (f = 0 /\ i = 0) \/ f = n
      BY <1>1, <1>12, <2>3, Zenon DEF Falls
    <2> HIDE DEF I, D
    <2>5. \/ Is(t, l, f, I, D, m)
          \/ Is(t, l, IF f <= n THEN n ELSE f, I, D, m)
      BY <1>5, <1>12, Zenon DEF Cut, t, n
    <2>6. (IF f <= n THEN n ELSE f) = n
      BY <1>4, <2>4
    <2> HIDE DEF c, l
    <2>7. Good(f, I, D) \/ Good(n, I, D)
      BY <1>3, <1>4, <1>7, <1>12, <2>2, <2>3, <2>4, <2>5, <2>6, Zenon
    <2> HIDE DEF Good
    <2> QED BY <1>8, <2>7, Zenon DEF t, c
  <1>13. CASE m.style = "plain"
    <2>1. m.style # "full" /\ m.style # "no core id" /\ m.style # "cores only"
      BY <1>13
    <2>2. I = {} /\ D = {}
      BY <2>1, Zenon
    <2> HIDE DEF I, D
    <2>3. Is(t, l, f, I, D, m)
      BY <1>5, <1>13, Zenon DEF Cut, t
    <2>4. f = 0
      BY <1>1, <1>13, Zenon DEF Falls
    <2> HIDE DEF c, l
    <2>5. Good(f, I, D)
      BY <1>7, <1>13, <2>2, <2>3, <2>4, Zenon
    <2> HIDE DEF Good
    <2> QED BY <1>8, <2>5, Zenon DEF t, c
  <1> QED BY <1>2, <1>10, <1>11, <1>12, <1>13, Zenon

-----------------------------------------------------------------------------
(* The lines that are parsed: all of them, or as many as are read. *)
LEMMA FileLines ==
    ASSUME NEW m \in Machines
    PROVE  LET t == truncate_hardware_input(CpuInfo(m))
           IN  /\ Len(t) \in Nat /\ Len(t) > 0 /\ Len(t) <= LinesBefore(m, Len(m.cpus))
               /\ \A k \in 1 .. Len(t) : t[k] = CpuInfo(m)[k]
               /\ Len(CpuInfo(m)) = LinesBefore(m, Len(m.cpus)) /\ Len(CpuInfo(m)) \in Nat
               /\ Len(CpuInfo(m)) <= kMaxHardwareInputBytes => Len(t) = Len(CpuInfo(m))
               /\ LinesBefore(m, 0) = 0
  <1> DEFINE B == Blocks(m)
             N == Len(m.cpus)
             f == CpuInfo(m)
             K == kMaxHardwareInputBytes
             n == Min({Len(f), K})
             t == truncate_hardware_input(f)
  <1>1. N \in Nat /\ N > 0
    BY MachineTyped
  <1>2. B \in Seq(Seq(InfoLine)) /\ Len(B) = N /\ f = FlattenSeq(B) /\ LinesPer(m) \in 2 .. 5
    BY BlocksTyped
  <1> HIDE DEF B, f
  <1>3. JoinOf(B, 0) = <<>> /\ JoinOf(B, N) = f /\ f \in Seq(InfoLine)
    <2>1. N \in 0 .. Len(B) /\ 0 \in 0 .. Len(B)
      BY <1>1, <1>2
    <2> HIDE DEF N
    <2>2. JoinOf(B, 0) = <<>>
      BY DEF JoinOf
    <2>3. JoinOf(B, N) \in Seq(InfoLine) /\ JoinOf(B, N) = FlattenSeq(B)
      BY <1>2, <2>1, JoinGrows
    <2> QED BY <1>2, <2>2, <2>3
  <1>4. LinesBefore(m, 0) = 0 /\ LinesBefore(m, N) = Len(f)
    BY <1>3 DEF LinesBefore, B
  <1>5. Len(f) \in Nat /\ Len(f) > 0
    <2>1. 0 < N
      BY <1>1
    <2>2. /\ LinesBefore(m, 0) \in Nat /\ LinesBefore(m, 0 + 1) = LinesBefore(m, 0) + LinesPer(m)
          /\ LinesBefore(m, 0 + 1) <= Len(f)
      BY <2>1, LineAt DEF f
    <2>3. Len(f) \in Nat
      BY <1>3
    <2> QED BY <1>2, <2>2, <2>3
  <1>6. K \in Nat /\ K > 0
    <2>1. K \in Nat \ {0}
      BY HardwareAssumption, Zenon
    <2> QED BY <2>1
  <1> HIDE DEF N
  <1>7. n \in Nat /\ n > 0 /\ n <= Len(f) /\ (Len(f) <= K => n = Len(f))
    <2> HIDE DEF K
    <2>1. CASE Len(f) <= K
      BY <1>5, <1>6, <2>1, LeastOfTwo
    <2>2. CASE K <= Len(f)
      <3>1. {Len(f), K} = {K, Len(f)}
        OBVIOUS
      <3>2. n = K
        BY <1>5, <1>6, <2>2, <3>1, LeastOfTwo
      <3> QED BY <1>5, <1>6, <2>2, <3>2
    <2> QED BY <1>5, <1>6, <2>1, <2>2
  <1>8. t = SubSeq(f, 1, n)
    BY DEF truncate_hardware_input
  <1> HIDE DEF n, t
  <1>9. Len(t) = n /\ \A k \in 1 .. n : t[k] = f[k]
    BY <1>3, <1>7, <1>8
  <1>10. /\ Len(t) \in Nat /\ Len(t) > 0 /\ Len(t) <= LinesBefore(m, N)
         /\ \A k \in 1 .. Len(t) : t[k] = f[k]
         /\ Len(f) = LinesBefore(m, N) /\ Len(f) \in Nat
         /\ Len(f) <= K => Len(t) = Len(f)
         /\ LinesBefore(m, 0) = 0
    BY <1>4, <1>5, <1>7, <1>9
  <1> QED BY <1>10 DEF t, f, N

(* After k lines the parser is at a line of a block: it has the summary of the
   blocks before and the part of the block it has read. *)
InBlock(m, t, k) ==
    \E i \in 0 .. Len(m.cpus), j \in 0 .. LinesPer(m) - 1 : \E s :
        /\ k = LinesBefore(m, i) + j
        /\ i = Len(m.cpus) => j = 0
        /\ After(t)[k] = State(s, Part(m, m.cpus[i + 1], j))
        /\ SummaryOf(s, m, i)

(* The parser is there after any number of the lines. *)
LEMMA Reading ==
    ASSUME NEW m \in Machines, NEW k \in Nat,
           k <= Len(truncate_hardware_input(CpuInfo(m)))
    PROVE  InBlock(m, truncate_hardware_input(CpuInfo(m)), k)
  <1> DEFINE t == truncate_hardware_input(CpuInfo(m))
             f == CpuInfo(m)
             N == Len(m.cpus)
             L == LinesPer(m)
             Preceding(i) == LinesBefore(m, i)
             Good == {n \in Nat : n <= Len(t) => InBlock(m, t, n)}
  <1>1. /\ Len(t) \in Nat /\ Len(t) <= Preceding(N) /\ \A n \in 1 .. Len(t) : t[n] = f[n]
        /\ Preceding(0) = 0 /\ Preceding(N) \in Nat
    BY FileLines
  <1>2. N \in Nat /\ N > 0
    BY MachineTyped
  <1>3. L \in 2 .. 5
    BY BlocksTyped
  <1>4. /\ After(t)[0] = State(NoSummary, NoBlock)
        /\ \A n \in 1 .. Len(t) : After(t)[n] = ParseLine(After(t)[n - 1], t[n])
    BY <1>1, AfterGrows DEF State
  <1>p. \A c : Part(m, c, 0) = NoBlock
    BY DEF Part
  <1> HIDE DEF t, f, N, L
  <1>w. ASSUME NEW n, NEW i \in 0 .. N, NEW j \in 0 .. L - 1, NEW s,
               n = Preceding(i) + j, i = N => j = 0,
               After(t)[n] = State(s, Part(m, m.cpus[i + 1], j)), SummaryOf(s, m, i)
        PROVE  InBlock(m, t, n)
    BY <1>w, Zenon DEF InBlock, N, L
  <1>5. 0 \in Good
    <2>1. InBlock(m, t, 0)
      <3>1. 0 \in 0 .. N /\ 0 \in 0 .. L - 1 /\ 0 = Preceding(0) + 0
        BY <1>1, <1>2, <1>3
      <3>2. SummaryOf(NoSummary, m, 0)
        BY NoBlocks
      <3>3. After(t)[0] = State(NoSummary, Part(m, m.cpus[0 + 1], 0))
        BY <1>4, <1>p, Zenon
      <3> QED BY <1>w, <3>1, <3>2, <3>3, Zenon
    <2> QED BY <2>1
  <1>6. ASSUME NEW n \in Nat, n \in Good PROVE n + 1 \in Good
    <2> SUFFICES ASSUME n + 1 <= Len(t) PROVE InBlock(m, t, n + 1)
      OBVIOUS
    <2>1. InBlock(m, t, n)
      BY <1>1, <1>6
    <2>2. PICK i \in 0 .. N, j \in 0 .. L - 1 : \E s :
            /\ n = Preceding(i) + j
            /\ i = N => j = 0
            /\ After(t)[n] = State(s, Part(m, m.cpus[i + 1], j))
            /\ SummaryOf(s, m, i)
      BY <2>1, Zenon DEF InBlock, N, L
    <2>3. PICK s :
            /\ n = Preceding(i) + j
            /\ i = N => j = 0
            /\ After(t)[n] = State(s, Part(m, m.cpus[i + 1], j))
            /\ SummaryOf(s, m, i)
      BY <2>2, Zenon
    <2> DEFINE c == m.cpus[i + 1]
               u == finalize_cpu_block(s, Part(m, c, j))
    <2>4. i \in Nat /\ j \in Nat /\ j < L /\ i < N
      <3>1. n = Preceding(i) + j /\ (i = N => j = 0)
        BY <2>3
      <3>2. i # N
        <4> SUFFICES ASSUME i = N PROVE FALSE
          OBVIOUS
        <4>1. n = Preceding(N) + 0
          BY <3>1, Zenon
        <4> QED BY <1>1, <4>1
      <3> QED BY <1>2, <1>3, <3>2
    <2>5. /\ Preceding(i) \in Nat /\ Preceding(i + 1) = Preceding(i) + L
          /\ \A x \in 1 .. L : f[Preceding(i) + x] = Block(m, c)[x]
      BY <2>4, LineAt DEF N, L, f
    <2>6. c \in Cpu /\ i + 1 \in 1 .. N
      <3>1. i + 1 \in 1 .. N
        BY <1>2, <2>4
      <3> QED BY <3>1, MachineTyped DEF N
    <2>7. Reads(m, c, s, j)
      BY <2>4, <2>6, BlockLines DEF L
    <2>8. n + 1 \in 1 .. Len(t) /\ (n + 1) - 1 = n /\ n + 1 = Preceding(i) + (j + 1) /\ j + 1 \in 1 .. L
      <3>1. n = Preceding(i) + j
        BY <2>3
      <3> QED BY <1>1, <1>3, <2>4, <2>5, <3>1
    <2>9. After(t)[n + 1] = ParseLine(State(s, Part(m, c, j)), Block(m, c)[j + 1])
      <3>1. t[n + 1] = Block(m, c)[j + 1]
        <4>1. t[n + 1] = f[n + 1]
          BY <1>1, <2>8, Zenon
        <4>2. f[Preceding(i) + (j + 1)] = Block(m, c)[j + 1]
          BY <2>5, <2>8, Zenon
        <4>3. n + 1 = Preceding(i) + (j + 1)
          BY <2>8, Zenon
        <4> QED BY <4>1, <4>2, <4>3, Zenon
      <3>2. After(t)[n + 1] = ParseLine(After(t)[n], t[n + 1])
        BY <1>4, <2>8, Zenon
      <3>3. After(t)[n] = State(s, Part(m, c, j))
        BY <2>3, Zenon
      <3> QED BY <3>1, <3>2, <3>3, Zenon
    <2>10. CASE j + 1 < L
      <3>1. After(t)[n + 1] = State(s, Part(m, c, j + 1))
        BY <2>7, <2>9, <2>10, Zenon DEF Reads, L
      <3>2. j + 1 \in 0 .. L - 1 /\ i # N
        BY <1>3, <2>4, <2>10
      <3>3. SummaryOf(s, m, i)
        BY <2>3, Zenon
      <3> QED BY <1>w, <2>8, <3>1, <3>2, <3>3, Zenon
    <2>11. CASE j + 1 = L
      <3>1. After(t)[n + 1] = State(u, NoBlock)
        BY <2>7, <2>9, <2>11, Zenon DEF Reads, L
      <3>2. After(t)[n + 1] = State(u, Part(m, m.cpus[(i + 1) + 1], 0))
        BY <1>p, <3>1, Zenon
      <3>3. j = L - 1
        BY <1>3, <2>4, <2>11
      <3>4. SummaryOf(u, m, i + 1)
        <4>1. SummaryOf(s, m, i)
          BY <2>3, Zenon
        <4> QED BY <2>4, <3>3, <4>1, BlockIsAdded DEF N, L
      <3>5. n + 1 = Preceding(i + 1) + 0 /\ i + 1 \in 0 .. N /\ 0 \in 0 .. L - 1
        BY <1>3, <2>5, <2>6, <2>8, <2>11
      <3> QED BY <1>w, <3>2, <3>4, <3>5, Zenon
    <2> QED BY <1>3, <2>4, <2>10, <2>11
  <1>7. k \in Good
    <2> HIDE DEF Good
    <2> QED BY <1>5, <1>6, SetInduction
  <1> QED BY <1>7 DEF t

(* The summary that is made of the text, after its last block is ended. *)
Parsed(m) ==
    LET last == ParseLines(truncate_hardware_input(CpuInfo(m)))
    IN  finalize_cpu_block(last.summary, last.block)

(* It is within the machine, and that of all processors if the text is whole. *)
LEMMA ParsedIsWithin ==
    ASSUME NEW m \in Machines
    PROVE  /\ Within(Parsed(m), m)
           /\ Len(CpuInfo(m)) <= kMaxHardwareInputBytes => SummaryOf(Parsed(m), m, Len(m.cpus))
  <1> DEFINE t == truncate_hardware_input(CpuInfo(m))
             N == Len(m.cpus)
             L == LinesPer(m)
             F == Len(CpuInfo(m))
             k == Len(t)
             Preceding(i) == LinesBefore(m, i)
  <1>1. /\ k \in Nat /\ k > 0 /\ F = Preceding(N) /\ F \in Nat /\ Preceding(0) = 0
        /\ F <= kMaxHardwareInputBytes => k = F
    BY FileLines
  <1>2. N \in Nat /\ N > 0
    BY MachineTyped
  <1>3. L \in 2 .. 5
    BY BlocksTyped
  <1>4. InBlock(m, t, k)
    <2>1. k <= k
      BY <1>1
    <2> QED BY <1>1, <2>1, Reading
  <1>5. ParseLines(t) = After(t)[k]
    BY ParseIsAfter
  <1> HIDE DEF t, N, L, F, k
  <1>6. PICK i \in 0 .. N, j \in 0 .. L - 1 : \E s :
          /\ k = Preceding(i) + j
          /\ i = N => j = 0
          /\ After(t)[k] = State(s, Part(m, m.cpus[i + 1], j))
          /\ SummaryOf(s, m, i)
    BY <1>4, Zenon DEF InBlock, N, L
  <1>7. PICK s :
          /\ k = Preceding(i) + j
          /\ i = N => j = 0
          /\ After(t)[k] = State(s, Part(m, m.cpus[i + 1], j))
          /\ SummaryOf(s, m, i)
    BY <1>6, Zenon
  <1> DEFINE b == Part(m, m.cpus[i + 1], j)
  <1>8. Parsed(m) = finalize_cpu_block(s, b)
    <2>1. ParseLines(t) = State(s, b)
      BY <1>5, <1>7, Zenon
    <2> HIDE DEF b
    <2>2. State(s, b).summary = s /\ State(s, b).block = b
      BY DEF State
    <2> QED BY <2>1, <2>2, Zenon DEF Parsed, t
  <1>9. i \in Nat /\ j \in Nat /\ j < L /\ (i < N \/ i = N)
    BY <1>2, <1>3
  <1>10. CASE j = 0
    <2>1. b = NoBlock
      BY <1>10, Zenon DEF Part
    <2>2. ~NoBlock.has_processor
      BY DEF NoBlock
    <2>3. Parsed(m) = s
      BY <1>8, <2>1, <2>2, Zenon DEF finalize_cpu_block
    <2>4. i # 0
      <3> SUFFICES ASSUME i = 0 PROVE FALSE
        OBVIOUS
      <3>1. k = Preceding(0) + 0
        BY <1>7, <1>10, Zenon
      <3> QED BY <1>1, <3>1
    <2>5. i \in 1 .. N
      BY <1>2, <2>4
    <2>6. SummaryOf(s, m, i)
      BY <1>7, Zenon
    <2>7. Within(s, m)
      BY <2>5, <2>6, WholeIsWithin DEF N
    <2>8. F <= kMaxHardwareInputBytes => i = N
      <3> SUFFICES ASSUME k = F, i < N PROVE FALSE
        BY <1>1, <1>9
      <3>1. /\ Preceding(i) \in Nat /\ Preceding(i + 1) = Preceding(i) + L /\ Preceding(i + 1) <= F
        BY <1>9, LineAt DEF N, L, F
      <3>2. F = Preceding(i) + 0
        BY <1>7, <1>10, Zenon
      <3> QED BY <1>1, <1>3, <3>1, <3>2
    <2> QED BY <2>3, <2>6, <2>7, <2>8, Zenon DEF N, F
  <1>11. CASE j # 0
    <2>1. j > 0 /\ i < N
      <3>1. i # N
        BY <1>7, <1>11, Zenon
      <3> QED BY <1>9, <1>11, <3>1
    <2>2. SummaryOf(s, m, i)
      BY <1>7, Zenon
    <2>3. Within(Parsed(m), m)
      <3>1. Within(finalize_cpu_block(s, b), m)
        BY <1>9, <2>1, <2>2, CutIsWithin DEF N, L
      <3> QED BY <1>8, <3>1, Zenon
    <2>4. ~(F <= kMaxHardwareInputBytes)
      <3> SUFFICES ASSUME k = F PROVE FALSE
        BY <1>1
      <3>1. /\ Preceding(i) \in Nat /\ Preceding(i + 1) = Preceding(i) + L /\ Preceding(i + 1) <= F
        BY <1>9, <2>1, LineAt DEF N, L, F
      <3>2. F = Preceding(i) + j
        BY <1>7, Zenon
      <3> QED BY <1>1, <1>3, <1>9, <3>1, <3>2
    <2> QED BY <2>3, <2>4, Zenon DEF F
  <1> QED BY <1>10, <1>11

-----------------------------------------------------------------------------
(* The function behind a sum over a function: the sum over each part of its domain. *)
SumBy(f) ==
    LET iter[s \in SUBSET DOMAIN f] ==
          IF s = {} THEN 0
          ELSE LET x == CHOOSE y \in s : TRUE IN f[x] + iter[s \ {x}]
    IN  iter

Total(f) == FoldFunction(+, 0, f)

(* It is what the fold returns for the whole domain. *)
LEMMA TotalIsSumBy ==
    ASSUME NEW f
    PROVE  Total(f) = SumBy(f)[DOMAIN f]
  BY DEF Total, FoldFunction, FoldFunctionOnSet, MapThenFoldSet, SumBy

(* G goes by the recursion of a sum over a finite domain. *)
GoesBy(G, f, D) ==
    /\ D = DOMAIN f /\ IsFiniteSet(D) /\ G = [s \in SUBSET D |-> G[s]] /\ G[{}] = 0
    /\ \A s \in SUBSET D : s # {} =>
         G[s] = f[CHOOSE y \in s : TRUE] + G[s \ {CHOOSE y \in s : TRUE}]

(* Such a function gives the sum over the domain. *)
LEMMA SumIs ==
    ASSUME NEW f, NEW D, NEW G, GoesBy(G, f, D)
    PROVE  Total(f) = G[D]
  <1> DEFINE c(s) == CHOOSE y \in s : TRUE
             Sol(g) == g = [s \in SUBSET D |-> IF s = {} THEN 0 ELSE f[c(s)] + g[s \ {c(s)}]]
             h == SumBy(f)
  <1>g. /\ D = DOMAIN f /\ IsFiniteSet(D) /\ G = [s \in SUBSET D |-> G[s]] /\ G[{}] = 0
        /\ \A s \in SUBSET D : s # {} => G[s] = f[c(s)] + G[s \ {c(s)}]
    BY DEF GoesBy
  <1>1. h = CHOOSE g : Sol(g)
    BY <1>g DEF SumBy
  <1> HIDE DEF c
  <1>2. Sol(G)
    <2> DEFINE H == [s \in SUBSET D |-> IF s = {} THEN 0 ELSE f[c(s)] + G[s \ {c(s)}]]
    <2>1. \A s \in SUBSET D : G[s] = H[s]
      BY <1>g
    <2>2. H = [s \in SUBSET D |-> H[s]]
      OBVIOUS
    <2>3. G = H
      <3> HIDE DEF H
      <3> QED BY <1>g, <2>1, <2>2
    <2> QED BY <2>3, Zenon
  <1>3. Sol(h)
    <2> HIDE DEF Sol, h
    <2> QED BY <1>1, <1>2
  <1>4. \A s \in SUBSET D : h[s] = IF s = {} THEN 0 ELSE f[c(s)] + h[s \ {c(s)}]
    <2> HIDE DEF h
    <2> DEFINE H == [s \in SUBSET D |-> IF s = {} THEN 0 ELSE f[c(s)] + h[s \ {c(s)}]]
    <2>1. h = H
      BY <1>3, Zenon
    <2>2. \A s \in SUBSET D : H[s] = IF s = {} THEN 0 ELSE f[c(s)] + h[s \ {c(s)}]
      OBVIOUS
    <2> HIDE DEF H
    <2> QED BY <2>1, <2>2, Zenon
  <1> HIDE DEF h, Sol
  <1>5. \A s \in SUBSET D : s # {} => G[s] = f[c(s)] + G[s \ {c(s)}] /\ c(s) \in s
    BY <1>g DEF c
  <1>6. \A s \in SUBSET D : IsFiniteSet(s) /\ Cardinality(s) \in Nat
    BY <1>g, FS_Subset, FS_CardinalityType
  <1> DEFINE Good == {n \in Nat : \A s \in SUBSET D : Cardinality(s) = n => h[s] = G[s]}
  <1>7. 0 \in Good
    <2>1. ASSUME NEW s \in SUBSET D, Cardinality(s) = 0 PROVE h[s] = G[s]
      <3>1. s = {}
        BY <1>6, <2>1, FS_EmptySet
      <3> QED BY <1>4, <1>g, <3>1
    <2> QED BY <2>1
  <1>8. ASSUME NEW n \in Nat, n \in Good PROVE n + 1 \in Good
    <2>1. ASSUME NEW s \in SUBSET D, Cardinality(s) = n + 1 PROVE h[s] = G[s]
      <3> DEFINE r == s \ {c(s)}
      <3>1. s # {}
        <4>1. n + 1 # 0
          OBVIOUS
        <4> QED BY <2>1, <4>1, FS_EmptySet, Zenon
      <3>2. c(s) \in s /\ r \in SUBSET D
        BY <1>5, <3>1
      <3>3. Cardinality(r) = Cardinality(s) - 1
        BY <1>6, <3>2, FS_RemoveElement
      <3>4. Cardinality(r) = n
        BY <2>1, <3>3
      <3> HIDE DEF r
      <3>5. h[r] = G[r]
        BY <1>8, <3>2, <3>4
      <3>6. h[s] = f[c(s)] + h[r]
        BY <1>4, <3>1, Zenon DEF r
      <3>7. G[s] = f[c(s)] + G[r]
        BY <1>5, <3>1, Zenon DEF r
      <3> QED BY <3>5, <3>6, <3>7, Zenon
    <2>2. n + 1 \in Nat
      OBVIOUS
    <2> QED BY <2>1, <2>2
  <1>9. \A n \in Nat : n \in Good
    <2> HIDE DEF Good
    <2> QED BY <1>7, <1>8, SetInduction
  <1>10. h[D] = G[D]
    BY <1>6, <1>9
  <1> QED BY <1>10, <1>g, TotalIsSumBy DEF h

(* The processors of some sockets, each core of them once. *)
OfSockets(m, D) == {r \in Range(m.cpus) : r.socket \in D}

(* Cores are as many as pairs of identifiers, and those of one socket as its numbers. *)
LEMMA CountSockets ==
    ASSUME NEW m \in Machines
    PROVE  /\ IsFiniteSet(Range(m.cpus)) /\ Cardinality(Range(m.cpus)) \in Nat
           /\ Cardinality(Range(m.cpus)) > 0
           /\ Cardinality(Pairs(m, Len(m.cpus))) = Cardinality(Range(m.cpus))
           /\ IsFiniteSet(Pairs(m, Len(m.cpus)))
           /\ \A x : Cardinality(OfSockets(m, {x})) = Cardinality(CoresOf(m, x))
  <1> DEFINE N == Len(m.cpus)
             R == Range(m.cpus)
             P == Pairs(m, N)
  <1>1. N \in Nat /\ N > 0 /\ m.cpus \in Seq(Cpu)
    BY MachineTyped
  <1>2. R = {m.cpus[i] : i \in 1 .. N}
    BY <1>1 DEF Range
  <1>3. \A i \in 1 .. N : m.cpus[i] \in Cpu
    BY MachineTyped
  <1>4. R \subseteq Cpu
    BY <1>2, <1>3
  <1>5. IsFiniteSet(R) /\ Cardinality(R) \in Nat /\ Cardinality(R) > 0
    <2> DEFINE f == [i \in 1 .. N |-> m.cpus[i]]
    <2>1. f \in Surjection(1 .. N, R)
      <3> HIDE DEF N, R
      <3> QED BY <1>2 DEF Surjection
    <2>2. IsFiniteSet(1 .. N)
      BY <1>1, FS_Interval
    <2>3. IsFiniteSet(R)
      <3> HIDE DEF N, R, f
      <3> QED BY <2>1, <2>2, FS_Surjection
    <2>4. R # {}
      <3>1. 1 \in 1 .. N
        BY <1>1
      <3> HIDE DEF N
      <3> QED BY <1>2, <3>1
    <2>5. Cardinality(R) \in Nat /\ Cardinality(R) # 0
      <3> HIDE DEF R
      <3> QED BY <2>3, <2>4, FS_CardinalityType, FS_EmptySet
    <2> QED BY <2>3, <2>5
  <1> DEFINE pair(r) == <<r.socket, r.core>>
  <1>6. ASSUME NEW a \in Cpu, NEW b \in Cpu, a.socket = b.socket, a.core = b.core PROVE a = b
    BY <1>6 DEF Cpu
  <1>7. Cardinality(P) = Cardinality(R) /\ IsFiniteSet(P)
    <2> DEFINE f == [r \in R |-> pair(r)]
    <2>1. P = {pair(r) : r \in R}
      <3> HIDE DEF N, R
      <3> QED BY <1>2, Zenon DEF Pairs
    <2>2. f \in [R -> P] /\ \A y \in P : \E x \in R : f[x] = y
      <3> HIDE DEF R, P
      <3> QED BY <2>1
    <2>3. \A a, b \in R : f[a] = f[b] => a = b
      <3> SUFFICES ASSUME NEW a \in R, NEW b \in R, f[a] = f[b] PROVE a = b
        OBVIOUS
      <3>1. pair(a) = pair(b)
        BY DEF R
      <3>2. a.socket = b.socket /\ a.core = b.core
        BY <3>1
      <3> QED BY <1>4, <1>6, <3>2
    <2> HIDE DEF R, P, f
    <2>4. f \in Bijection(R, P)
      BY <2>2, <2>3 DEF Bijection, Injection, Surjection, IsInjective
    <2>5. ExistsBijection(R, P)
      BY <2>4 DEF ExistsBijection
    <2> QED BY <1>5, <2>5, FS_Bijection
  <1>8. ASSUME NEW x PROVE Cardinality(OfSockets(m, {x})) = Cardinality(CoresOf(m, x))
    <2> DEFINE S == OfSockets(m, {x})
               T == CoresOf(m, x)
               f == [r \in S |-> r.core]
    <2>1. T = {r.core : r \in S}
      <3>1. S = {r \in R : r.socket = x}
        BY DEF OfSockets
      <3> HIDE DEF N, R, S
      <3>2. T = {m.cpus[i].core : i \in {j \in 1 .. N : m.cpus[j].socket = x}}
        BY DEF CoresOf, N
      <3>3. ASSUME NEW y \in T PROVE \E r \in S : y = r.core
        <4>1. PICK i \in 1 .. N : m.cpus[i].socket = x /\ y = m.cpus[i].core
          BY <3>2, <3>3
        <4>2. m.cpus[i] \in S
          BY <1>2, <3>1, <4>1
        <4> QED BY <4>1, <4>2
      <3>4. ASSUME NEW r \in S PROVE r.core \in T
        <4>1. r \in R /\ r.socket = x
          BY <3>1
        <4>2. PICK i \in 1 .. N : r = m.cpus[i]
          BY <1>2, <4>1
        <4> QED BY <3>2, <4>1, <4>2
      <3> HIDE DEF T
      <3> QED BY <3>3, <3>4
    <2>2. f \in [S -> T] /\ \A y \in T : \E r \in S : f[r] = y
      <3> HIDE DEF S, T
      <3> QED BY <2>1
    <2>3. S \in SUBSET R /\ \A r \in S : r.socket = x
      BY DEF OfSockets
    <2>4. \A a, b \in S : f[a] = f[b] => a = b
      <3> SUFFICES ASSUME NEW a \in S, NEW b \in S, f[a] = f[b] PROVE a = b
        OBVIOUS
      <3> HIDE DEF S
      <3>1. a.core = b.core
        OBVIOUS
      <3>2. a.socket = b.socket
        BY <2>3
      <3> QED BY <1>4, <1>6, <2>3, <3>1, <3>2
    <2> HIDE DEF R, S, T, f
    <2>5. f \in Bijection(S, T)
      BY <2>2, <2>4 DEF Bijection, Injection, Surjection, IsInjective
    <2>6. ExistsBijection(S, T)
      BY <2>5 DEF ExistsBijection
    <2>7. IsFiniteSet(S)
      BY <1>5, <2>3, FS_Subset
    <2> QED BY <2>6, <2>7, FS_Bijection DEF S, T
  <1> QED BY <1>5, <1>7, <1>8

(* The sum of the numbers of cores of some sockets. *)
LEMMA SumOfCores ==
    ASSUME NEW m \in Machines, NEW f, NEW D, DOMAIN f = D, IsFiniteSet(D),
           \A x \in D : f[x] = Cardinality(CoresOf(m, x))
    PROVE  Total(f) = Cardinality(OfSockets(m, D))
  <1> DEFINE R == Range(m.cpus)
             O(s) == OfSockets(m, s)
             G == [s \in SUBSET D |-> Cardinality(O(s))]
             c(s) == CHOOSE y \in s : TRUE
  <1>1. IsFiniteSet(R) /\ \A x : Cardinality(O({x})) = Cardinality(CoresOf(m, x))
    BY CountSockets
  <1>2. ASSUME NEW s PROVE IsFiniteSet(O(s)) /\ Cardinality(O(s)) \in Nat
    <2>1. O(s) \in SUBSET R
      BY DEF OfSockets
    <2> HIDE DEF R, O
    <2> QED BY <1>1, <2>1, FS_Subset, FS_CardinalityType
  <1>3. G[{}] = 0
    <2>1. O({}) = {}
      BY DEF OfSockets
    <2> HIDE DEF O
    <2> QED BY <2>1, FS_EmptySet
  <1>4. ASSUME NEW s \in SUBSET D, s # {} PROVE G[s] = f[c(s)] + G[s \ {c(s)}]
    <2> DEFINE x == c(s)
               u == s \ {x}
    <2>1. x \in s
      BY <1>4
    <2> HIDE DEF x
    <2>2. O(s) = O({x}) \cup O(u) /\ O({x}) \cap O(u) = {}
      BY <2>1 DEF OfSockets
    <2>3. f[x] = Cardinality(O({x})) /\ u \in SUBSET D
      BY <1>1, <2>1
    <2> HIDE DEF O, u
    <2>4. Cardinality(O(s)) = Cardinality(O({x})) + Cardinality(O(u)) - Cardinality({})
      <3>1. Cardinality(O({x}) \cup O(u)) =
              Cardinality(O({x})) + Cardinality(O(u)) - Cardinality(O({x}) \cap O(u))
        BY <1>2, FS_Union
      <3> QED BY <2>2, <3>1, Zenon
    <2>5. Cardinality({}) = 0
      BY FS_EmptySet
    <2>6. Cardinality(O(s)) = Cardinality(O({x})) + Cardinality(O(u))
      BY <1>2, <2>4, <2>5
    <2>7. G[s] = Cardinality(O(s)) /\ G[u] = Cardinality(O(u))
      BY <2>3
    <2>8. G[s] = f[x] + G[u]
      BY <2>3, <2>6, <2>7, Zenon
    <2> QED BY <2>8 DEF x, u
  <1>5. DOMAIN G = SUBSET D /\ G = [s \in SUBSET D |-> G[s]] /\ G[D] = Cardinality(O(D))
    OBVIOUS
  <1> HIDE DEF G, O
  <1>6. Total(f) = G[D]
    <2>1. GoesBy(G, f, D)
      BY <1>3, <1>4, <1>5 DEF GoesBy
    <2> QED BY <2>1, SumIs
  <1> QED BY <1>5, <1>6 DEF O

(* What the cores of a summary are counted by. *)
Counted(s, l, f, I, D, m) ==
    CountCores(s) =
        IF I # {} THEN Cardinality(I) ELSE IF D # {} THEN Cardinality(OfSockets(m, D))
        ELSE IF f > 0 THEN f ELSE l

(* So CountCores counts, since the sum over the sockets is the number of their cores. *)
LEMMA CoresAreCounted ==
    ASSUME NEW m \in Machines, NEW s, NEW l, NEW f, NEW I,
           NEW D \in SUBSET Sockets(m, Len(m.cpus)), Is(s, l, f, I, D, m)
    PROVE  Counted(s, l, f, I, D, m)
  <1> DEFINE N == Len(m.cpus)
             S == Sockets(m, N)
             counts == s.socket_core_counts
  <1>1. N \in Nat
    BY MachineTyped
  <1>2. IsFiniteSet(S)
    <2> DEFINE g == [i \in 1 .. N |-> m.cpus[i].socket]
    <2>1. g \in Surjection(1 .. N, S)
      <3> HIDE DEF N
      <3> QED BY DEF Surjection, Sockets
    <2>2. IsFiniteSet(1 .. N)
      BY <1>1, FS_Interval
    <2> HIDE DEF N, S, g
    <2> QED BY <2>1, <2>2, FS_Surjection
  <1>3. IsFiniteSet(D)
    <2> HIDE DEF S
    <2>1. D \in SUBSET S
      BY DEF S
    <2> QED BY <1>2, <2>1, FS_Subset
  <1>4. /\ s.logical_processors = l /\ s.fallback_cores = f /\ s.physical_core_ids = I
        /\ DOMAIN counts = D /\ \A x \in D : counts[x] = Cardinality(CoresOf(m, x))
    BY DEF Is
  <1> HIDE DEF counts
  <1>5. Total(counts) = Cardinality(OfSockets(m, D))
    BY <1>3, <1>4, SumOfCores
  <1>6. CountCores(s) =
          IF s.physical_core_ids # {} THEN Cardinality(s.physical_core_ids)
          ELSE IF DOMAIN counts # {} THEN Total(counts)
          ELSE IF s.fallback_cores > 0 THEN s.fallback_cores ELSE s.logical_processors
    BY DEF CountCores, Total, counts
  <1> QED BY <1>4, <1>5, <1>6, Zenon DEF Counted

(* The cores of a machine, and of all of its sockets. *)
LEMMA AllCores ==
    ASSUME NEW m \in Machines
    PROVE  /\ OfSockets(m, Sockets(m, Len(m.cpus))) = Range(m.cpus)
           /\ m.style = "cores only" =>
                CoreNumber(m, m.cpus[1]) = Cardinality(Range(m.cpus))
  <1> DEFINE N == Len(m.cpus)
             R == Range(m.cpus)
             x == m.cpus[1].socket
  <1>1. N \in Nat /\ N > 0 /\ m.cpus \in Seq(Cpu)
    BY MachineTyped
  <1>2. R = {m.cpus[i] : i \in 1 .. N}
    BY <1>1 DEF Range
  <1>3. OfSockets(m, Sockets(m, N)) = R
    <2> DEFINE S == Sockets(m, N)
    <2>1. \A r \in R : r.socket \in S
      <3> HIDE DEF N, R
      <3> QED BY <1>2 DEF Sockets
    <2>2. OfSockets(m, S) = {r \in R : r.socket \in S}
      BY DEF OfSockets
    <2> HIDE DEF R, S
    <2> QED BY <2>1, <2>2 DEF S
  <1>4. ASSUME m.style = "cores only" PROVE CoreNumber(m, m.cpus[1]) = Cardinality(R)
    <2>1. \A i \in 1 .. N : m.cpus[i].socket = x
      BY <1>4, MachineTyped
    <2>2. \A r \in R : r.socket \in {x}
      <3> HIDE DEF N, R, x
      <3> QED BY <1>2, <2>1
    <2>3. OfSockets(m, {x}) = {r \in R : r.socket \in {x}}
      BY DEF OfSockets
    <2>4. OfSockets(m, {x}) = R
      <3> HIDE DEF R, x
      <3> QED BY <2>2, <2>3
    <2>5. Cardinality(OfSockets(m, {x})) = Cardinality(CoresOf(m, x))
      BY CountSockets
    <2> QED BY <2>4, <2>5 DEF CoreNumber
  <1> QED BY <1>3, <1>4

(* What is counted of a summary within the machine is within its cores. *)
LEMMA CountIsWithin ==
    ASSUME NEW m \in Machines, NEW s, Within(s, m)
    PROVE  s.logical_processors \in 1 .. Processors(m) /\ CountCores(s) \in 1 .. Cores(m)
  <1> DEFINE N == Len(m.cpus)
             R == Range(m.cpus)
             P == Pairs(m, N)
             S == Sockets(m, N)
  <1>0. N \in Nat /\ N > 0 /\ m.cpus \in Seq(Cpu)
    BY MachineTyped
  <1>1. PICK l \in 1 .. N, f \in Nat, I \in SUBSET P, D \in SUBSET S :
          /\ Is(s, l, f, I, D, m)
          /\ \/ m.style = "full" /\ I # {} /\ D = {}
             \/ m.style = "no core id" /\ I = {} /\ D # {}
             \/ m.style = "cores only" /\ I = {} /\ D = {} /\ f = CoreNumber(m, m.cpus[1])
             \/ I = {} /\ D = {} /\ f = 0 /\ (m.style = "plain" \/ l = 1)
    BY Zenon DEF Within
  <1>2. Counted(s, l, f, I, D, m)
    BY <1>1, CoresAreCounted
  <1>3. /\ IsFiniteSet(R) /\ Cardinality(R) \in Nat /\ Cardinality(R) > 0
        /\ Cardinality(P) = Cardinality(R) /\ IsFiniteSet(P)
    BY CountSockets
  <1>4. /\ m.style # "plain" => Cores(m) = Cardinality(R)
        /\ m.style = "plain" => Cores(m) = N
    BY Zenon DEF Cores, Processors
  <1>5. Cores(m) \in Nat /\ Cores(m) > 0
    BY <1>0, <1>3, <1>4, Zenon
  <1>6. s.logical_processors \in 1 .. Processors(m)
    BY <1>1, Zenon DEF Is, Processors
  <1>7. CASE m.style = "full" /\ I # {}
    <2>1. CountCores(s) = Cardinality(I)
      BY <1>2, <1>7, Zenon DEF Counted
    <2>2. Cores(m) = Cardinality(R)
      <3>1. m.style # "plain"
        BY <1>7
      <3> QED BY <1>4, <3>1, Zenon
    <2> HIDE DEF P, R
    <2>3. IsFiniteSet(I) /\ Cardinality(I) <= Cardinality(P)
      BY <1>3, FS_Subset
    <2>4. Cardinality(I) \in Nat /\ Cardinality(I) # 0
      BY <1>7, <2>3, FS_CardinalityType, FS_EmptySet
    <2>5. Cardinality(P) = Cardinality(R) /\ Cardinality(R) \in Nat
      BY <1>3
    <2>6. Cardinality(I) \in 1 .. Cardinality(R)
      BY <2>3, <2>4, <2>5
    <2> QED BY <1>6, <2>1, <2>2, <2>6, Zenon
  <1>8. CASE m.style = "no core id" /\ I = {} /\ D # {}
    <2> DEFINE O == OfSockets(m, D)
    <2>1. CountCores(s) = Cardinality(O)
      BY <1>2, <1>8, Zenon DEF Counted
    <2>2. Cores(m) = Cardinality(R)
      <3>1. m.style # "plain"
        BY <1>8
      <3> QED BY <1>4, <3>1, Zenon
    <2>3. O \in SUBSET R
      BY DEF OfSockets
    <2>4. O # {}
      <3>1. PICK x : x \in D
        BY <1>8
      <3>2. PICK i \in 1 .. N : x = m.cpus[i].socket
        BY <3>1 DEF Sockets
      <3>3. m.cpus[i] \in R
        BY <1>0 DEF Range
      <3>4. m.cpus[i] \in O
        BY <3>1, <3>2, <3>3 DEF OfSockets
      <3> QED BY <3>4
    <2> HIDE DEF O, R
    <2>5. IsFiniteSet(O) /\ Cardinality(O) <= Cardinality(R)
      BY <1>3, <2>3, FS_Subset
    <2>6. Cardinality(O) \in Nat /\ Cardinality(O) # 0
      BY <2>4, <2>5, FS_CardinalityType, FS_EmptySet
    <2>7. Cardinality(O) \in 1 .. Cardinality(R)
      BY <1>3, <2>5, <2>6
    <2> QED BY <1>6, <2>1, <2>2, <2>7, Zenon
  <1>9. CASE m.style = "cores only" /\ I = {} /\ D = {} /\ f = CoreNumber(m, m.cpus[1])
    <2>1. f = Cardinality(R)
      BY <1>9, AllCores, Zenon
    <2>2. Cores(m) = Cardinality(R)
      <3>1. m.style # "plain"
        BY <1>9
      <3> QED BY <1>4, <3>1, Zenon
    <2> HIDE DEF R
    <2>3. f > 0
      BY <1>3, <2>1
    <2>4. CountCores(s) = f
      BY <1>2, <1>9, <2>3, Zenon DEF Counted
    <2>5. f \in 1 .. Cardinality(R)
      BY <1>3, <2>1, <2>3
    <2> QED BY <1>6, <2>2, <2>4, <2>5, Zenon
  <1>10. CASE I = {} /\ D = {} /\ f = 0 /\ (m.style = "plain" \/ l = 1)
    <2>1. ~(0 > 0)
      OBVIOUS
    <2>2. CountCores(s) = l
      BY <1>2, <1>10, <2>1, Zenon DEF Counted
    <2>3. 1 \in 1 .. Cores(m)
      BY <1>5
    <2>4. l \in 1 .. Cores(m)
      BY <1>1, <1>4, <1>10, <2>3, Zenon
    <2> QED BY <1>6, <2>2, <2>4, Zenon
  <1> QED BY <1>1, <1>7, <1>8, <1>9, <1>10, Zenon

(* What is counted of the summary of all processors is what the machine has. *)
LEMMA ExactCount ==
    ASSUME NEW m \in Machines, NEW s, SummaryOf(s, m, Len(m.cpus))
    PROVE  s.logical_processors = Processors(m) /\ CountCores(s) = Cores(m)
  <1> DEFINE N == Len(m.cpus)
             R == Range(m.cpus)
             P == Pairs(m, N)
             S == Sockets(m, N)
             I == IF m.style = "full" THEN P ELSE {}
             D == IF m.style = "no core id" THEN S ELSE {}
  <1>1. PICK f \in Nat : Falls(m, N, f) /\ Is(s, N, f, I, D, m)
    BY DEF SummaryOf
  <1>0. N \in Nat /\ N > 0 /\ N # 0
    <2>1. N \in Nat /\ N > 0
      BY MachineTyped
    <2> QED BY <2>1
  <1>s. m.style \in {"full", "no core id", "cores only", "plain"}
    BY MachineTyped
  <1>2. Counted(s, N, f, I, D, m)
    <2>1. D \in SUBSET S
      BY Zenon
    <2> HIDE DEF I, D
    <2> QED BY <1>1, <2>1, CoresAreCounted
  <1>3. Cardinality(R) \in Nat /\ Cardinality(R) > 0 /\ Cardinality(P) = Cardinality(R)
    BY CountSockets
  <1>4. P # {} /\ S # {}
    BY <1>0, PairsGrow
  <1>5. /\ m.style # "plain" => Cores(m) = Cardinality(R)
        /\ m.style = "plain" => Cores(m) = N
    BY Zenon DEF Cores, Processors
  <1>6. s.logical_processors = Processors(m)
    BY <1>1, Zenon DEF Is, Processors
  <1> HIDE DEF R, P, S, N
  <1>7. CASE m.style = "full"
    <2>1. m.style # "plain"
      BY <1>7
    <2> QED BY <1>2, <1>3, <1>4, <1>5, <1>6, <1>7, <2>1, Zenon DEF Counted
  <1>8. CASE m.style = "no core id"
    <2>1. m.style # "plain" /\ m.style # "full"
      BY <1>8
    <2>2. Cardinality(OfSockets(m, S)) = Cardinality(R)
      BY AllCores DEF S, R, N
    <2> QED BY <1>2, <1>4, <1>5, <1>6, <1>8, <2>1, <2>2, Zenon DEF Counted
  <1>9. CASE m.style = "cores only"
    <2>1. m.style # "plain" /\ m.style # "full" /\ m.style # "no core id"
      BY <1>9
    <2>2. f = Cardinality(R)
      <3>1. f = CoreNumber(m, m.cpus[1])
        BY <1>0, <1>1, <1>9, Zenon DEF Falls
      <3> QED BY <1>9, <3>1, AllCores, Zenon DEF R
    <2>3. f > 0
      BY <1>3, <2>2
    <2> QED BY <1>2, <1>5, <1>6, <2>1, <2>2, <2>3, Zenon DEF Counted
  <1>10. CASE m.style = "plain"
    <2>1. m.style # "full" /\ m.style # "no core id"
      BY <1>10
    <2>2. f = 0 /\ ~(0 > 0)
      <3>1. f = 0
        BY <1>1, <1>10, Zenon DEF Falls
      <3> QED BY <3>1
    <2> QED BY <1>2, <1>5, <1>6, <1>10, <2>1, <2>2, Zenon DEF Counted
  <1> QED BY <1>s, <1>7, <1>8, <1>9, <1>10, Zenon

(* What hardware.summary counts of a machine whose /proc/cpuinfo it could read. *)
CountsHold(c, m) ==
    /\ c.logical_processors \in 1 .. Processors(m)
    /\ c.physical_cores \in 1 .. Cores(m)
    /\ Len(CpuInfo(m)) <= kMaxHardwareInputBytes =>
         c = [logical_processors |-> Processors(m), physical_cores |-> Cores(m)]

(* It does, of every machine. *)
LEMMA ReadCountsHold ==
    ASSUME NEW m \in Machines
    PROVE  CountsHold(parse_cpuinfo_summary(truncate_hardware_input(CpuInfo(m))), m)
  <1> DEFINE s == Parsed(m)
             c == parse_cpuinfo_summary(truncate_hardware_input(CpuInfo(m)))
  <1>1. c = [logical_processors |-> s.logical_processors, physical_cores |-> CountCores(s)]
    BY DEF parse_cpuinfo_summary, Parsed
  <1>2. /\ Within(s, m)
        /\ Len(CpuInfo(m)) <= kMaxHardwareInputBytes => SummaryOf(s, m, Len(m.cpus))
    BY ParsedIsWithin
  <1> HIDE DEF s, c
  <1>3. s.logical_processors \in 1 .. Processors(m) /\ CountCores(s) \in 1 .. Cores(m)
    BY <1>2, CountIsWithin
  <1>4. Len(CpuInfo(m)) <= kMaxHardwareInputBytes =>
          s.logical_processors = Processors(m) /\ CountCores(s) = Cores(m)
    BY <1>2, ExactCount
  <1>5. c.logical_processors = s.logical_processors /\ c.physical_cores = CountCores(s)
    BY <1>1
  <1>6. CountsHold(c, m)
    BY <1>1, <1>3, <1>4, <1>5, Zenon DEF CountsHold
  <1> QED BY <1>6 DEF c

-----------------------------------------------------------------------------
(* What a call of hardware.summary knows of the machine from the reading of
   /proc/cpuinfo on. *)
CountInv ==
    tool = Hardware =>
        /\ machine \in Machines
        /\ pc = "start" => status = "none"
        /\ pc \notin {"start", "done"} \/ status = "ok" =>
             "cpuinfo" \in failed \/ CountsHold(cpu, machine)

(* A step that leaves the counts alone keeps that. *)
LEMMA CountFrame ==
    ASSUME CountInv, tool' = tool, machine' = machine, cpu' = cpu, failed \subseteq failed',
           pc' # "start", \/ pc \notin {"start", "done"}
                          \/ pc' = "done" /\ status' = "error"
                          \/ pc' = pc /\ status' = status
    PROVE  CountInv'
  <1>1. CountsHold(cpu, machine) => CountsHold(cpu, machine)'
    BY DEF CountsHold, Processors, Cores, CpuInfo, Block, CoresOf, Field
  <1> QED BY <1>1 DEF CountInv

(* Every step of a call keeps what is known of the counts. *)
LEMMA CountStep ==
    ASSUME CountInv, [SNext]_sVars
    PROVE  CountInv'
  <1>0. tool' = tool
    BY ToolKept
  <1>1. CASE tool # Hardware
    BY <1>0, <1>1 DEF CountInv
  <1>2. CASE tool = Hardware
    <2>n. Hardware # Power /\ Hardware # Network /\ Hardware # Disk
      BY DEF Network, Power, Hardware, Disk
    <2>1. CASE UNCHANGED <<tool, pc, status, hwVars>>
      <3>1. UNCHANGED <<tool, pc, status, machine, cpu, failed>>
        BY <2>1 DEF hwVars
      <3>2. CountsHold(cpu, machine) => CountsHold(cpu, machine)'
        BY <3>1 DEF CountsHold, Processors, Cores, CpuInfo, Block, CoresOf, Field
      <3> QED BY <3>1, <3>2 DEF CountInv
    <2>2. CASE HardwareStep
      <3>1. CASE HardwareUnavailable
        BY <1>0, <3>1, CountFrame DEF HardwareUnavailable, Failure, hwVars
      <3>2. CASE ReadScalars
        <4>1. machine' = machine /\ pc' = "drm" /\ status' = status /\ pc = "start"
          BY <3>2 DEF ReadScalars, At, Goto
        <4>2. machine \in Machines /\ status = "none"
          BY <1>2, <4>1 DEF CountInv
        <4>3. "cpuinfo" \in failed' \/ CountsHold(cpu, machine)'
          <5> DEFINE c == parse_cpuinfo_summary(truncate_hardware_input(CpuInfo(machine)))
          <5>1. CASE failed' = {"cpuinfo"}
            BY <5>1
          <5>2. CASE cpu' = c
            <6>1. CountsHold(c, machine)
              BY <4>2, ReadCountsHold
            <6> HIDE DEF c
            <6> QED BY <4>1, <5>2, <6>1
                 DEF CountsHold, Processors, Cores, CpuInfo, Block, CoresOf, Field
          <5> QED BY <3>2, <5>1, <5>2 DEF ReadScalars
        <4> QED BY <4>1, <4>2, <4>3 DEF CountInv
      <3>3. CASE DrmExists \/ HardwareReturns
        BY <1>0, <3>3, CountFrame
           DEF DrmExists, HardwareReturns, NoMoreNames, At, Goto, Return, hwVars
      <3>4. CASE NoGpus
        BY <1>0, <3>4, CountFrame DEF NoGpus, Return
      <3>5. CASE ExistsThrows
        BY <1>0, <3>5, CountFrame DEF ExistsThrows, Failure, hwVars
      <3>6. CASE /\ \/ DirectoryStep \/ ListDrmEntry \/ NextCard \/ DeviceExists
                    \/ ReadFirst(Hardware) \/ ReadRow(Hardware, <<>>)
                 /\ UNCHANGED hwVars
        <4>1. pc' # "start" /\ pc \notin {"start", "done"}
          BY <3>6 DEF DirectoryStep, ListDrmEntry, NextCard, DeviceExists, ReadRow, AddRow, Admit,
             OpenDirectory, ListEnd, ListThrows, NextName, ReadFirst, Goto, Failure, callVars, At
        <4> QED BY <1>0, <3>6, <4>1, CountFrame DEF hwVars
      <3> QED BY <2>2, <3>1, <3>2, <3>3, <3>4, <3>5, <3>6 DEF HardwareStep
    <2>3. CASE (FormatLine \/ FormatDone) /\ UNCHANGED hwVars
      BY <1>0, <2>3, CountFrame DEF FormatLine, FormatDone, hwVars
    <2>4. CASE SystemChanges
      <3>1. UNCHANGED <<tool, pc, status, hwVars>>
        BY <1>2, <2>n, <2>4 DEF SystemChanges, DirectoryChanges, Changing, callVars
      <3> QED BY <2>1, <3>1
    <2>5. CASE PowerStep \/ NetworkStep \/ DiskStep
      BY <1>2, <2>n, <2>5, StepOfTool
    <2>6. CASE UNCHANGED sVars
      <3>1. UNCHANGED <<tool, pc, status, hwVars>>
        BY <2>6 DEF sVars, callVars
      <3> QED BY <2>1, <3>1
    <2> QED BY <2>2, <2>3, <2>4, <2>5, <2>6 DEF SNext
  <1> QED BY <1>1, <1>2

(* A call starts before anything is counted. *)
LEMMA CountInit == SInit => CountInv
  <1> SUFFICES ASSUME SInit, tool = Hardware PROVE CountInv
    BY DEF CountInv
  <1>1. HInit /\ pc = "start" /\ status = "none"
    BY DEF SInit, RInit
  <1> QED BY <1>1 DEF HInit, CountInv

(* However the kernel of a machine tells its cores apart, and wherever the text of
   /proc/cpuinfo is cut, hardware.summary counts no more processors or cores than
   the machine has, and exactly those if the text is whole. *)
THEOREM CountsAreTrue == SSpec => []CountsAreHonest
  <1>1. CountInv => CountsAreHonest
    BY DEF CountInv, CountsAreHonest, CountsHold
  <1> QED BY <1>1, CountInit, CountStep, PTL DEF SSpec

=============================================================================
