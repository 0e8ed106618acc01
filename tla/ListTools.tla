----------------------------- MODULE ListTools -----------------------------
(***************************************************************************)
(* The tools that answer with a list of rows: services.failed,             *)
(* services.enabled and systemd.units.list (src/tools/systemd_tool.cpp),   *)
(* packages.list and packages.recent_changes (src/tools/package_tool.cpp), *)
(* journal.query on the journal and on a fixture                           *)
(* (src/tools/journal_tool.cpp). Each collects rows up to a cap, some sort *)
(* them, and they are put into a bounded body. The operators say what a    *)
(* call returns; the specification runs one call on every input.           *)
(*                                                                         *)
(* A row is the text it is formatted as, after redaction, with the fields  *)
(* the tools decide on. Counts and captions are texts as well.             *)
(***************************************************************************)
EXTENDS EvidenceBody, SequencesExt

CONSTANTS
    Units,           \* entries of a reply of the service manager
    Packages,        \* lines of the output of rpm
    Changes,         \* lines of a package log
    Entries,         \* entries of the journal, or lines of its fixture
    CountText(_),    \* the line with the number of rows
    NoneText,        \* the line that says there are none
    SkippedText(_),  \* the line with the number of invalid lines
    kMaxFailedServices, kMaxEnabledServices, kMaxUnits,
    kMaxPackageListRows, kMaxCollectedChanges, kMaxPackageChanges, kMaxEntries,
    MaxReply,        \* bound on the length of a reply or a log
    MaxLogs          \* the number of logs looked at

ASSUME RowsAssumption ==
    /\ Units \subseteq [text : Seq(Byte), service : BOOLEAN,
                        active_state : {"failed", "other"},
                        unit_file_state : {"enabled", "enabled-runtime", "other"}]
    /\ Packages \subseteq [text : Seq(Byte), key : Nat, parses : BOOLEAN]
    /\ Changes \subseteq [text : Seq(Byte), timestamp : Nat, parses : BOOLEAN]
    /\ Entries \subseteq [text : Seq(Byte), of_unit : BOOLEAN, valid : BOOLEAN]
    /\ {MaxReply, MaxLogs, kMaxEntries, kMaxFailedServices, kMaxEnabledServices, kMaxUnits,
        kMaxPackageListRows, kMaxCollectedChanges, kMaxPackageChanges} \subseteq Nat
    /\ kMaxPackageChanges <= kMaxCollectedChanges

-----------------------------------------------------------------------------
(* A body with the flag its formatter keeps. *)
Empty == [body |-> <<>>, truncated |-> FALSE]

Add(f, text) ==
    [body |-> append_bounded(f.body, text),
     truncated |-> f.truncated \/ ~Fits(f.body, text)]

AddRows(f, rows) ==
    LET after[i \in 0 .. Len(rows)] ==
          IF i = 0 THEN f
          ELSE IF after[i - 1].truncated THEN after[i - 1] ELSE Add(after[i - 1], rows[i].text)
    IN  after[Len(rows)]

(* Mutant: the rows beyond the cap are passed over in silence. *)
AddMore_Silent(f, has_more_rows) == f.body

(* A formatter returns as soon as a row of it is cut; the rows left out by the
   cap are marked in the same way. *)
AddMore(f, has_more_rows) ==
    IF has_more_rows /\ ~f.truncated THEN Add(f, Marker).body ELSE f.body

Caption(rows) ==
    LET counted == Add(Empty, CountText(Len(rows)))
    IN  IF rows = <<>> THEN Add(counted, NoneText) ELSE counted

format_systemd_units_list_body(rows, has_more_rows) ==
    AddMore(AddRows(Empty, rows), has_more_rows)

format_failed_services_body(rows, has_more_rows) ==
    AddMore(AddRows(Caption(rows), rows), has_more_rows)

format_enabled_services_body(rows, has_more_rows) ==
    AddMore(AddRows(Caption(rows), rows), has_more_rows)

format_package_list_body(rows, has_more_rows) ==
    AddMore(AddRows(Caption(rows), rows), has_more_rows)

format_package_recent_changes_body(rows, has_more_rows) ==
    AddMore(AddRows(Caption(rows), rows), has_more_rows)

-----------------------------------------------------------------------------
(* The loop of each tool over what it is given, and the rows of it that match: it
   keeps them until the cap is reached, and then notes that there are more. *)
Matching(rows, wanted) ==
    LET kept[i \in 0 .. Len(rows)] ==
          IF i = 0 THEN <<>>
          ELSE IF rows[i] \in wanted THEN Append(kept[i - 1], rows[i]) ELSE kept[i - 1]
    IN  kept[Len(rows)]

First(rows, n) == SubSeq(rows, 1, IF Len(rows) < n THEN Len(rows) ELSE n)

Collect(rows, cap) == [rows |-> First(rows, cap), more |-> Len(rows) > cap]

Failure == [status |-> "error", rows |-> <<>>, body |-> <<>>]

Success(rows, b) == [status |-> "ok", rows |-> rows, body |-> b]

(* std::ranges::sort is not stable: any order of equals is possible. *)
Reorderings(rows) ==
    {[i \in 1 .. Len(rows) |-> rows[p[i]]] : p \in SetToSeqs(1 .. Len(rows))}

(* Where a call on the system bus may fail: connecting, calling, entering the
   list, reading an entry, the end of the list. Nothing collected is kept. *)
BusFailures(reply) ==
    {"none", "open", "call", "enter", "end"} \cup (IF reply = <<>> THEN {} ELSE {"entry"})

FailedServices == {u \in Units : u.service /\ u.active_state = "failed"}

FailedServicesTool_call(reply, fails) ==
    IF fails # "none" THEN {Failure}
    ELSE LET c == Collect(Matching(reply, FailedServices), kMaxFailedServices)
         IN  {Success(c.rows, format_failed_services_body(c.rows, c.more))}

EnabledServices ==
    {u \in Units : u.service /\ u.unit_file_state \in {"enabled", "enabled-runtime"}}

EnabledServicesTool_call(reply, fails) ==
    IF fails # "none" THEN {Failure}
    ELSE LET c == Collect(Matching(reply, EnabledServices), kMaxEnabledServices)
         IN  {Success(c.rows, format_enabled_services_body(c.rows, c.more))}

SystemdUnitsTool_call(reply, fails) ==
    IF fails # "none" THEN {Failure}
    ELSE LET c == Collect(reply, kMaxUnits)
         IN  {Success(c.rows, format_systemd_units_list_body(c.rows, c.more))}

(* parse_rpm_package_list_line and parse_package_change_log_line, by outcome. *)
Parsed == {line \in Packages \cup Changes : line.parses}

SortedByKey(rows) ==
    {q \in Reorderings(rows) : \A i \in 1 .. Len(q) - 1 : q[i].key <= q[i + 1].key}

(* run_fixed_command failed, or its whole output. *)
PackageListTool_call(output, fails) ==
    IF fails # "none" THEN {Failure}
    ELSE LET c == Collect(Matching(output, Parsed), kMaxPackageListRows)
         IN  {Success(q, format_package_list_body(q, c.more)) : q \in SortedByKey(c.rows)}

NewestFirst(rows) ==
    {q \in Reorderings(rows) : \A i \in 1 .. Len(q) - 1 : q[i].timestamp >= q[i + 1].timestamp}

(* The lines of the logs that are regular files and can be opened, in the order
   of log_paths_: the newest log first, each from its oldest line. *)
ReadableLines(logs) ==
    FlattenSeq([i \in 1 .. Len(logs) |->
                  IF logs[i].access = "readable" THEN logs[i].lines ELSE <<>>])

(* is_regular_file throws when it cannot tell, which call_tool makes an error;
   a log that is not there is passed over, but not all of them. *)
NoLogs(logs) ==
    \/ \E i \in 1 .. Len(logs) : logs[i].access = "throws"
    \/ \A i \in 1 .. Len(logs) : logs[i].access = "absent"

(* Mutant: the rows are cut before they are sorted. *)
PackageRecentChangesTool_call_CutFirst(logs) ==
    IF NoLogs(logs) THEN {Failure}
    ELSE LET c == Collect(Matching(ReadableLines(logs), Parsed), kMaxCollectedChanges)
             kept == First(c.rows, kMaxPackageChanges)
             more == c.more \/ Len(c.rows) > kMaxPackageChanges
         IN  {Success(q, format_package_recent_changes_body(q, more))
                : q \in NewestFirst(kept)}

PackageRecentChangesTool_call(logs) ==
    IF NoLogs(logs) THEN {Failure}
    ELSE LET c == Collect(Matching(ReadableLines(logs), Parsed), kMaxCollectedChanges)
             more == c.more \/ Len(c.rows) > kMaxPackageChanges
             Shown(q) == First(q, kMaxPackageChanges)
         IN  {Success(Shown(q), format_package_recent_changes_body(Shown(q), more))
                : q \in NewestFirst(c.rows)}

(* The journal, newest entry first, through a match on the unit. Going back to
   an earlier entry may fail where the entries read so far end; a loop that has
   left before, for the cap or the size, does not notice. *)
OfUnit == {e \in Entries : e.of_unit}

LiveJournalTool_call(journal, fails) ==
    LET rows  == Matching(journal, OfUnit)
        c     == Collect(rows, kMaxEntries)
        f     == AddRows(Empty, c.rows)
        toEnd == ~c.more /\ ~f.truncated
    IN  IF fails \in {"unit", "open", "match", "seek"} \/ (fails = "read" /\ toEnd)
        THEN {Failure}
        ELSE {Success(c.rows, AddMore(f, c.more))}

(* The fixture in the order of its lines. The lines that are no JSON object are
   counted, and the count told, when the loop came to the end of the file. *)
Invalid == {e \in Entries : ~e.valid}

ValidOfUnit == {e \in Entries : e.valid /\ e.of_unit}

JournalFixtureTool_call(file, fails) ==
    LET rows    == Matching(file, ValidOfUnit)
        c       == Collect(rows, kMaxEntries)
        f       == AddRows(Empty, c.rows)
        skipped == Len(Matching(file, Invalid))
    IN  IF fails \in {"unit", "open"} THEN {Failure}
        ELSE IF skipped > 0 /\ ~c.more /\ ~f.truncated
        THEN {Success(c.rows, Add(f, SkippedText(skipped)).body)}
        ELSE {Success(c.rows, AddMore(f, c.more))}

-----------------------------------------------------------------------------
VARIABLES
    tool,        \* the tool that is called
    input,       \* what the system answers it
    response     \* its response

vars == <<tool, input, response>>

Pending == [status |-> "none", rows |-> <<>>, body |-> <<>>]

Logs ==
    [access : {"readable"}, lines : BoundedSeq(Changes, MaxReply)]
      \cup [access : {"absent", "throws"}, lines : {<<>>}]

Inputs(t) ==
    CASE t = "packages.list" -> BoundedSeq(Packages, MaxReply)
      [] t = "packages.recent_changes" -> TupleOf(Logs, MaxLogs)
      [] t \in {"journal", "fixture"} -> BoundedSeq(Entries, MaxReply)
      [] OTHER -> BoundedSeq(Units, MaxReply)

Init ==
    /\ tool \in {"services.failed", "services.enabled", "systemd.units.list",
                 "packages.list", "packages.recent_changes", "journal", "fixture"}
    /\ input \in Inputs(tool)
    /\ response = Pending

CallSystemd(t, Responses(_, _)) ==
    /\ tool = t /\ response = Pending
    /\ \E fails \in BusFailures(input) : response' \in Responses(input, fails)
    /\ UNCHANGED <<tool, input>>

CallPackageList ==
    /\ tool = "packages.list" /\ response = Pending
    /\ \E fails \in {"none", "command"} : response' \in PackageListTool_call(input, fails)
    /\ UNCHANGED <<tool, input>>

CallRecentChanges ==
    /\ tool = "packages.recent_changes" /\ response = Pending
    /\ response' \in PackageRecentChangesTool_call(input)
    /\ UNCHANGED <<tool, input>>

CallJournal ==
    /\ tool = "journal" /\ response = Pending
    /\ \E fails \in {"none", "unit", "open", "match", "seek", "read"} :
         response' \in LiveJournalTool_call(input, fails)
    /\ UNCHANGED <<tool, input>>

CallFixture ==
    /\ tool = "fixture" /\ response = Pending
    /\ \E fails \in {"none", "unit", "open"} : response' \in JournalFixtureTool_call(input, fails)
    /\ UNCHANGED <<tool, input>>

Next ==
    \/ CallSystemd("services.failed", FailedServicesTool_call)
    \/ CallSystemd("services.enabled", EnabledServicesTool_call)
    \/ CallSystemd("systemd.units.list", SystemdUnitsTool_call)
    \/ CallPackageList
    \/ CallRecentChanges
    \/ CallJournal
    \/ CallFixture

Spec == Init /\ [][Next]_vars

-----------------------------------------------------------------------------
(* Every row the system has to offer, and the text that would show them. *)
AllRows(t, in) ==
    CASE t = "services.failed" -> Matching(in, FailedServices)
      [] t = "services.enabled" -> Matching(in, EnabledServices)
      [] t = "systemd.units.list" -> in
      [] t = "packages.list" -> Matching(in, Parsed)
      [] t = "packages.recent_changes" -> Matching(ReadableLines(in), Parsed)
      [] t = "journal" -> Matching(in, OfUnit)
      [] t = "fixture" -> Matching(in, ValidOfUnit)

RowCap(t) ==
    CASE t = "services.failed" -> kMaxFailedServices
      [] t = "services.enabled" -> kMaxEnabledServices
      [] t = "systemd.units.list" -> kMaxUnits
      [] t = "packages.list" -> kMaxPackageListRows
      [] t = "packages.recent_changes" -> kMaxPackageChanges
      [] t \in {"journal", "fixture"} -> kMaxEntries

Texts(rows) == FlattenSeq([i \in 1 .. Len(rows) |-> rows[i].text])

WholeText(t, in, rows) ==
    IF t \in {"systemd.units.list", "journal"} THEN Texts(rows)
    ELSE IF t = "fixture"
    THEN LET skipped == Len(Matching(in, Invalid))
         IN  Texts(rows) \o (IF skipped = 0 THEN <<>> ELSE SkippedText(skipped))
    ELSE CountText(Len(rows)) \o (IF rows = <<>> THEN NoneText ELSE Texts(rows))

SameRows(a, b) ==
    /\ Len(a) = Len(b)
    /\ \A r \in Range(a) \cup Range(b) :
         Cardinality({i \in 1 .. Len(a) : a[i] = r}) = Cardinality({i \in 1 .. Len(b) : b[i] = r})

(* What a body says of the rows all, of which it shows rows, for which whole would
   be the text. *)
IsHonest(body, whole, rows, all, cap) ==
    IF IsSuffix(Marker, body)
    THEN /\ IsPrefix(SubSeq(body, 1, Len(body) - Len(Marker)), whole)
         /\ Len(all) > cap \/ Len(whole) > MaxBody
    ELSE body = whole /\ SameRows(rows, all)

(* A report that succeeds tells what it is worth: without the marker it holds
   every row there is, counted; with it, it is a beginning of the report and
   something really was left out, for the cap or for the size. *)
ReportTellsTheTruth ==
    response.status = "ok" =>
      IsHonest(response.body, WholeText(tool, input, response.rows), response.rows,
               AllRows(tool, input), RowCap(tool))

(* PROGRESS.md, "stores at most 100 recent package-change rows": no change that
   is left out is newer than one that is shown. *)
NewestAreShown ==
    tool = "packages.recent_changes" /\ response.status = "ok" =>
      \A e \in Range(AllRows(tool, input)) \ Range(response.rows), r \in Range(response.rows) :
        r.timestamp >= e.timestamp

(* The same for logs that hold no more changes than the tool collects. *)
NewestAreShownOfFew == Len(AllRows(tool, input)) <= kMaxCollectedChanges => NewestAreShown
=============================================================================
