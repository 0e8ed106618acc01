# kasli-os: a TLA+ verification project

Kasli answers questions about a Linux machine from read-only evidence. `kasli`
is a command-line client; `kaslid` is a per-user daemon that takes one request
after the other over a Unix socket, runs at most one tool for it, asks a local
language model where the request says so, and writes an audit log. This
directory holds TLA+ modules for the parts of that code which have state,
concurrency or failure, the TLC configurations that check them on small
instances, and proofs for TLAPS. Source paths below are relative to the
repository's root (`src/ipc/...`, `include/kasli/...`, `tests/...`);
`PROJECT.json` maps every definition to its lines.

## 1. Inventory

| component | source | state | operations |
|---|---|---|---|
| Unix socket server | `src/ipc/unix_socket.cpp` | listening descriptor, the path in the file system, one client descriptor | constructor (exists, probe, remove, bind, chmod, listen), `accept_one`, destructor |
| kaslid main loop | `src/kaslid/main.cpp` | `--once`, exit code | construct the server, accept until told to stop, `handle_request` |
| Session service | `src/session/session_service.cpp` | none of its own | `call_tool`, `ask_with_tool` |
| Policy broker | `src/policy/policy_broker.cpp` | the registered policies | `decide` |
| Tool registry | `src/tools/tool_registry.cpp` | tools by name, fixed after start | `register_tool`, `find`, `policies` |
| Audit log | `src/audit/audit_log.cpp` | a file of JSON lines | `append` |
| Daemon autostart | `src/app/daemon_autostart.cpp` | polls so far | request, start, poll, request again |
| systemd user unit | `packaging/systemd/user/kaslid.service` | its process | start, restart on failure |
| Package command runner | `src/tools/package_tool.cpp` | a child, a pipe, a deadline | `run_fixed_command` |
| Evidence bodies | `append_bounded` in each tool | a bounded text and a flag | `append_bounded` |
| List tools | `systemd_tool.cpp`, `package_tool.cpp`, `journal_tool.cpp` | rows of one call | collect, filter, sort, cap, format |
| Status and diagnosis | `systemd_tool.cpp`, `service_diagnose_tool.cpp` | what one call has read | look up, read properties, query the journal, diagnose |
| One connection | `src/ipc/unix_socket.cpp` | what either end has sent, read and buffered | `read_line`, `write_line`, `accept_one`, `request_over_unix_socket` |
| Directory tools | `network_tool.cpp`, `power_tool.cpp`, `hardware_tool.cpp` | the names and rows of one call | list a directory of `/sys/class`, sort, read each device's files, cap, format; collect addresses and routes; parse `/proc/cpuinfo` |
| disk.usage | `disk_tool.cpp` | the rows of one call | read mountinfo line by line, measure each mount point, sort, cap, format |
| system.info | `system_info_tool.cpp` | none | read two files |
| Model providers | `src/model/*` | none | one HTTP exchange, configuration, prompt |
| Core types, JSON, redaction, line protocol | `src/core/*`, `src/ipc/*` | none | encode, decode, mask |

How they interact. `kasli` connects to the path; if nobody listens there, and
the socket is the default one, it asks systemd to start the unit and polls.
Any number of daemons may be started on the same path: by systemd, again by
systemd after a failure, by hand, with `--once`. They share the path and
nothing else, and every one of them probes it, removes it, binds it and removes
it again by *name*. Inside a daemon everything is one thread: `accept_one`
reads a line and calls `handle_request`, which calls the session service, which
asks the broker, runs the tool, and appends to the audit log at every step; any
of these may throw, and the catch clauses append to the same log.
`service.diagnose` calls two other tools and reads their text.

What is hard here:

- several processes between the system calls on one path, with a signal, an
  error or a full queue at any of them;
- a crash that leaves a path, or half an audit record, to the next start;
- retries of a request that may have been delivered, and time-outs that race an
  answer;
- an exception at every append, inside and outside of `try` blocks;
- a child process whose exit, output, helpers and deadline race each other;
- caps, bounds and cut texts that are read by another tool;
- properties, attributes and mounts read one by one from a system that changes
  meanwhile;
- lines that arrive in pieces, from a peer that may stop at any of them, while
  the others wait.

What makes each component correct:

| component | properties |
|---|---|
| socket, main loop | owner-only before it can be reached; one daemon per path; a client never waits on a connection nobody holds; starts and connected clients come to an end |
| one connection | the handler is called with whole first lines only; what the server counts as served is answered, but for a client whose time was over by then; an error is true, also at the limit of a line; both ends return whatever the other does |
| session, policy, audit | only registered read-only tools run, at most once; the model is consulted at most once, after the evidence is on record, and one outcome of it is recorded at most; success is reported only when it is on record; the log is in order and its losses are bounded; every request is done with |
| autostart | a request is delivered at most once; a run ends; one start is enough |
| command runner | a success is the whole output of a command that exited with 0; an error is true; no zombie or descriptor stays; it returns |
| evidence bodies | within the bound, and a true beginning of what was given |
| list tools | a list says whether something is missing; the newest changes are the ones shown |
| diagnosis | it is the one of the values that were read, each of which was so during the call |
| directory tools, disk | what a row shows was so during the call; what did not change meanwhile is shown; what is left out is marked; the counts of processors are right or too low |

The hazards, each at its line, are in `PROJECT.json`.

## 2. Modules

    SocketLifecycle      <- Autostart                       (kasli, systemd and the daemons)
                         <= Exchange                        (one connection in detail)
    AuditedGateway       <= Session
    FixedCommand
    EvidenceBody         <- ListTools, ServiceDiagnose, BoundedBody
    BoundedBody          <- RowReport
    RowReport            <- ClassDirectory, DiskUsage
    ClassDirectory       <- NetworkSummary, PowerStatus, HardwareSummary
    these three and DiskUsage <- SystemTools

`<-` is EXTENDS, `<=` a refinement through INSTANCE. The proofs about a module M
are in `M_proofs` (Autostart, which has those about SocketLifecycle too, Session,
FixedCommand, Exchange, ListTools, ServiceDiagnose, SystemTools); DataLemmas holds the facts about numbers, sequences,
loops and `append_bounded` that the proofs about the tools share.
Each component has an `MC*` module, which TLC runs.

**SocketLifecycle** - processes of `kaslid` over one path. A process runs once,
so it stands for the inode it binds as well; `path` says what the path names.
`pc[p]` is where it is between system calls: `exists`, `probe`, `remove`
(`reject_active_socket_or_remove_stale`), `bind`, `chmod`
(`restrict_socket_path`), `listen`, then `accept` and `handle` (`accept_one` in
main's loop), then `close` and `unlink` (the destructor), or `cleanup` (the
catch clause of the constructor). `Cleanup` and `Unlink` may fail to remove the
path, as the code ignores that error. `Kill` is a signal at any time; main has
no handler, so no destructor runs. A connection is queued (`backlog`, one more
than the argument of `listen`, as the kernel does), handled, and answered or
hung up; the probe of another start is such a connection. An exchange succeeds
(`Reply`) or throws (`AcceptOneThrows`); Exchange shows it in detail.
`overlapped` is a history variable: whether a constructor or destructor ever ran
during another one. `AcceptFails` is listed for `--once` only: without it main
logs the error and tries again, which changes nothing.

**Exchange** - one connection, byte by byte. `script[e]` is all that an end
means to send, `sent[e]` of it is in or through the kernel's queue, of which the
peer has taken `taken[e]`; a queue holds `Capacity`. The server is `accept_one`
(`accept`, `prepare`, `uid`, `read`, `handle`, `write`); its peer is `kasli`
running `request_over_unix_socket`, or any other program, which sends one of
`Scripts`, reads and closes as it likes. `write_line` checks its argument and
`write_all` sends in pieces of any size; `read_line` takes up to `Buffer` bytes
and looks for the newline, drops what follows it, and counts against the limit
(`ReadsLine`, `ReadsSome`, `ReadsTooMuch`). Each call may time out when it would
block, and each program may be killed. A call that ends, by `return` or by an
exception, leaves its socket open until the destructor of its `FileDescriptor`
runs: `Ends` and `Close` are two steps, and the other end may still send in
between. That a reset connection is an error of
another name than its end is left out. A substitution maps an exchange to the
steps `Accept`, `Reply`, `AcceptOneThrows`, `ClientTimeout` and `Kill` of
SocketLifecycle (`ServedAsBefore`).

**Autostart** extends it with `request_with_optional_user_service_start` and
`request_after_start`: each client is one run of `kasli` (`cli`, `polls`), each
attempt is SocketLifecycle's `Connect`. systemd is external and modelled from
the unit file: `start` does nothing while the unit's process runs and returns
once it is forked (`Type=simple`); a process that failed is replaced
(`Restart=on-failure`). Unit processes are a finite supply, so a restart that
finds none left is systemd's start limit.

**Session** - `handle_request`, `call_tool`, `ask_with_tool`, `decide` and
`append` as one sequential program with a `pc`. Every append has three
outcomes besides success: nothing written, a record cut short, everything
written and the close failed. `log` is the file by lines; a record appended to
a cut one is glued to it, since `append` does not look at how the file ends.
`Drop` is a response that cannot be delivered, or a daemon killed in the middle
of a request and started again (a kill in the middle of an append is a cut
record followed by `Drop`). A tool's result is ok or error, a model's an answer
or an exception. The registry does not change after start: constants
`Registered` and `ReadOnly`.

**AuditedGateway** is the abstract specification of that: what a client, a user
reading the log, and the model may rely on, without a program counter, a file
or a way to fail. `ran` and `consulted` count, for each request, how often its
tool was executed and the model was given its evidence; `Run` and `Consult` take
them from 0 to 1 and there is no other step, so a second execution in Session is
no step of AuditedGateway. A consultation has one outcome on record at most,
`model.response` or `model.error`. Which of the two is true of the model is not
promised: when the append of `model.response` fails, the catch clause around it
records `model.error` for a model that has answered
(`src/session/session_service.cpp:196`). Session is shown to implement it
(`KeepsPromise`); the variables of the same name map to themselves.

**FixedCommand** - `run_fixed_command`: pipe, fork, the loop of read, `waitpid`
with `WNOHANG` and the clock, the way out through kill, close and the blocking
`waitpid`. Beside it the child, which writes, closes its output, exits, or
leaves a helper with the writing end; and the deadline. Output is counted.
`ignored`: SIGCHLD inherited as ignored, in which case the kernel reaps.
EINTR is left out.

**EvidenceBody** - `append_bounded`, of which each tool has a copy, and
`append_all`, a formatter that calls it for one line after the other.
**BoundedBody** - a formatter that keeps calling it.

**RowReport** - the frame of the tools that look at the live system: a provider
collects rows up to a cap (`Admit`, `AddRow`), returns them (`Return`) or fails
(`Failure`), and a formatter appends caption, rows and mark to a bounded body
(`FormatLine`), where the rows end with the first that is cut.
**ClassDirectory** - a directory under `/sys/class` whose devices appear, vanish
and change (at most `MaxChanges` times in a call) between the steps of a loop
that lists the names, sorts them and reads each device's files. Two attributes,
read in steps of their own, stand for the two to seven of a tool. History
variables note what was there, what stayed, and what each file has held.
**NetworkSummary**, **PowerStatus**, **HardwareSummary** - the three tools on top
of it: the addresses and default routes network.summary takes first and joins by
name; the cards hardware.summary keeps, and `parse_cpuinfo_summary` on what the
kernel writes for a machine in each of four styles (with identifiers of socket
and core, without the second, with a count only, without any), cut at
`kMaxHardwareInputBytes`, which counts lines here.
**DiskUsage** - mountinfo as a list that mounts and unmounts change while it is
read, in pieces as large as the stream's buffer takes, and `space`, which
measures what the path leads to by then. Mount points do not nest.
**SystemTools** - one call of any of the four, with the changes of the system.

**ListTools** - one call of `services.failed`, `services.enabled`,
`systemd.units.list`, `packages.list`, `packages.recent_changes` and
`journal.query` (journal and fixture), as operators from a reply, an output or
a set of logs to the response. A row is its text after formatting and redaction
with the fields the tool decides on; errors end a call where the code returns.

**ServiceDiagnose** - `service.diagnose` and the `systemd.unit.status` it calls.
Each property is read in a step of its own while the unit moves; what was read
becomes a text of tokens in a bounded body; the diagnosis is made from that
text and put into another bounded body. Three of the eleven properties stand
for all: one ahead of the two that decide (a description that may be long), the
two, and one behind.

## 3. Runs

| run | instance | shows |
|---|---|---|
| `autostart_cli` | one run of `kasli`, two unit processes, one daemon by hand with `--once`, one poll, backlog 1 | `ReachableIsOwnerOnly`, `SerialStartsShareNothing`, `WaitingIsHeld` through every interleaving of starts, exits, errors and signals; `SentAtMostOnce`; `DaemonsAsBefore`: the composition is a SocketLifecycle; `CliFinishes`; `StartSettles` and `WaitingClientHears` |
| `exchange` | lines of at most four bytes, queues of two, a buffer of three; payloads of zero to five bytes and one with a newline; seven other peers | `HandlerGetsTheLine`, `AnswerIsWhole`, `ServedOrRaced`, `ErrorsAreTrue`; `ServedAsBefore` (refinement); `ServerMovesOn` and `KasliReturns` |
| `autostart_on_demand` | three runs of `kasli` (one with `--socket`), two unit processes, no mishap | `StartLeadsToServer`: after a start a daemon listens, whatever the path named before |
| `session_handler` | two requests, one read-only tool, one that is not, one unknown | `KeepsPromise` (refinement), `LossIsBounded`, `LogInOrder`, `EveryRequestSettles` |
| `system_tools` | three devices, caps of two (one GPU), two changes in a call, five machines, five file systems at three mount points, bodies of 9 | `RowsWereTrue`, `StayingIsReported`, `RowsAreEnriched`, `CountsAreHonest`, `DiskRowsWereTrue`, `SteadyMountIsReported`, `MarkIsTrue`, `BodyIsBounded`, `BodyIsFaithful` |
| `fixed_command` | pipe 3, buffer 2, limit 4, up to six units of output | `OkIsWhole`, `ErrorsAreTrue`, `ReturnLeavesNothing`, `CommandReturns` |
| `list_tools` | replies of up to three rows, two logs, caps of two (three collected), body 6 | `ReportTellsTheTruth`, `NewestAreShownOfFew` |
| `diagnose` | four unit states, names up to 2, descriptions up to 8, bodies of 16 and 22 tokens | `DiagnosisWasTrue`, `SteadyUnitIsDiagnosed` |

`ServedOrRaced` is as much as the two ends can agree on. When `accept_one`
returns normally, kasli has the answer, finds it in its queue or was killed, or
its read had timed out with the socket still open, so that the last `send` of
the server succeeded: a request that was served and that its user is told has
failed. That time was over before the server's call ended (`left`); no other
error of kasli, and no later time-out, goes with a request that was served.

`DiagnosisWasTrue` gives the diagnosis for every place at which the status text
may be cut: `Left` says from the lengths alone whether the state and the result
are whole, run into the marker or are gone, and `Verdict` what is to be said of
the two. That the two held at the same moment is not said, and is not so: they
are read in two calls.

Four more runs are expected to fail; each is a finding in `PROJECT.json`:

- `socket_one_shot`: README.md's one-shot checks start the next daemon as soon
  as the client of the one before has its answer. That daemon can probe the
  path after the first has closed its descriptor and before it has removed the
  path: it takes it for stale, binds it anew, and the destructor of the first
  then removes the new one. Nothing goes wrong but the order.
- `session_unrecorded`: the tool runs, the append of `tool.call` throws, and the
  client is answered by the catch clause; no `tool.call` record exists.
- `session_unreadable`: after a record that was cut short, the next append
  returns and its record is on the same line.
- `list_tools_oldest`: `packages.recent_changes` collects its first 2000 rows
  in the order of the files and sorts those; a log lists its newest rows last,
  so a newer change is left out while an older one is shown.

Further observations follow from the same models and have no run of their own.
A start that probes between another one's `bind` and `listen` is refused
the connection and removes a path about to be served (the same violation of
`ListenerIsReachable`, seen with any two daemons). A unit process that lost its
path that way is running to systemd, so `systemctl start` succeeds and the path
stays missing. And a `Result` property that cannot be read becomes
"unavailable", which the diagnosis counts as a bad result, and so does one that
runs into the marker (`Verdict` says so). When the listing of `/sys/class/drm` or a test for a
`device` directory throws, hardware.summary as a whole is an error, although the
design asks for the lines that could be read (`ListThrows`, `ExistsThrows`);
hardware.summary counts at most the processors in the first 64 KiB of
`/proc/cpuinfo`; the ",truncated" of an address list cannot occur, since
`add_bounded_unique` has stopped at the same limit (`marked` is never true); and
disk.usage shows a mount that another one covers with the numbers of the other
(`DiskRowsWereTrue` speaks of what the mount point led to).

Why the bounds are enough. Races on the path involve two processes, and a third
that meets what the two have left (a path that lost its inode, a probe in a
queue); each process has fewer than ten steps. In the session, requests share
only the file, and the file passes on only its last line, so two requests show
every way in which one affects the next. In Exchange a line is longer than the
queue and the buffer, so that it takes several writes and reads, and payloads
are below, at and above the limit; connections of one server follow each other
and share nothing, which SocketLifecycle shows. In SystemTools a row takes two
reads, so that two changes are one before and one between or behind them, or a
device that goes and comes back; the third device exceeds the cap. In
FixedCommand the buffer is smaller
than the pipe, the pipe smaller than the limit and the limit smaller than the
output, so that reads are short, writers block and the limit is met, exceeded
and missed by one. In the list tools every cap can be met, exceeded and missed,
and the body can be cut in each part of the text. The sizes of `diagnose` were
chosen so that each of the two texts is cut before, in and after the lines that
decide. The proofs below remove the bounds where there is one.

`MaxCalls`, `MaxChanges`, `MaxWritten`, `MaxReply`, `MaxLogs`, `MaxName` and
`MaxDescription` are bounds of the models; `Backlog`, `MaxPolls`, `Buffer`,
`Max`, `MaxBody`, `MaxOutput` and the `kMax` constants are constants of the code
with smaller values; `PipeSize` and `Capacity` are the kernel's. Runs say
`CHECK_DEADLOCK FALSE`, as each instance has finitely many processes or calls
and ends when they have. `StartLeadsToServer` is checked without mishaps; what
becomes of a unit that runs and has lost its path is seen in `autostart_cli`,
where `CliFinishes` has the run of `kasli` end and `SentAtMostOnce` has it
deliver nothing when it reports a failed start.

**Fairness.** Weak fairness only, of programs that can take a step: the daemon
(`AFairness`: constructor, accept loop and destructor), `kasli`, the handler
(`WF_vars(Handle)`), the
parent in FixedCommand, and its clock; in Exchange each end's own code, its clock
included, as `set_socket_timeouts` has every blocked call return, but not the
handler, so that `KasliReturns` holds against one that hangs. Nothing makes a signal, an error, a
start, a restart, a client, a time-out or a step of a child happen:
`CommandReturns` assumes nothing of the child, `ServerMovesOn` nothing of the
peer, `WaitingClientHears` nothing of the client's own time-out. A client that connects and sends no line is given up after the five seconds of
`set_socket_timeouts`, which is `AcceptOneThrows`.
That a handler comes to its end is in part an assumption: the model client and
the package commands have time-outs of their own, but `std::filesystem::space`
(`src/tools/disk_tool.cpp:201`) and reads of files have none, and on a mount
whose server is gone they may block for as long as it is. `EveryRequestSettles`
assumes that the file system answers, and so do `WaitingClientHears` and the
others that rest on the accept loop of SocketLifecycle, where handling a request
is one step. `ServerMovesOn` makes the exception explicit and `KasliReturns`
does not need the assumption.

Every property has a mutant in `PROJECT.json`: a plausible slip in one
definition, kept next to it under a name with an underscore, which breaks the
property.

## 4. Proofs

All are for every value of the constants, from the named `ASSUME`s: disjoint
finite-or-not sets of processes and clients, `Backlog \in Nat`, `ReadOnly`
within `Registered`, a marker no longer than the body, positive sizes of pipe
and buffer, finitely many mounts, no more changes shown than collected, a
marker that fits both texts of the diagnosis. A machine has a processor, and one whose
kernel names no package has one package (`HardwareAssumption`): of two packages
that are not named the fallback of `parse_cpuinfo_summary` would count the cores
of one. TLC evaluates these assumptions on every run.

- `Autostart_proofs`, of SocketLifecycle: `TypeCorrect`. `OwnerOnly` from `OwnerOnlyInv`: a
  path never names a process that has not bound, and a process the path still
  names behind its `chmod` is restricted. The second is needed since `chmod`
  goes by name and may have hit another inode: then the path no longer names
  this one, and never will again. `SerialStarts` from `SerialInv`: without
  overlap at most one process is in its constructor or destructor, one past its
  probe has no server beside it, and one past its bind is what the path names.
  `Held` from `HeldInv`: besides `WaitingIsHeld` itself, a process
  that is not in its handler has no connection accepted, so that its destructor
  has only the queue to close.
- `Autostart_proofs`, of Autostart: `CompositionRefines`, that each step of the composition
  is a step of SocketLifecycle or a stutter; so the three invariants carry over
  without another induction (`CompositionKeeps`), and with the type of kasli's
  own state give `CompositionTyped`. `AtMostOnce` from an invariant that ties
  `sent` to what the client has seen: before a retry nothing was sent.
- `Session_proofs`: `TypeCorrect`; `HandlerInvariant`, what `call_tool` and
  `ask_with_tool` have established at each of their steps; from it
  `SessionKeepsPromise`, the refinement of AuditedGateway: initial states map to
  initial states, each action to an action or a stutter. It needs the counts
  (a request that is executed has count 0 before, one that is consulted too) and
  `OutcomeInvariant`: until the handler gets to record an outcome of the model
  there is none on record (`NoOutcome`), so that the one it records is the only
  one. `FileInOrder`
  (`LogInOrder`) from `OrderInv`: the file holds nothing of a request that has
  not arrived, and nothing of the active one above `NextRank`, the rank of what
  the handler may write next. `LossBounded` (`LossIsBounded`) from `LossInv`:
  every record cut short has cost at most one event, and one still at the end of
  the file has cost none yet, so that it may cost the next.
- `SystemTools_proofs`, of the four tools that look at the live system while it
  changes. The one hypothesis, `Wording`, is in the statements: what the tools
  format rows and captions to is text.
  - `Bounded` and `Faithful`, of the formatter of BoundedBody alone; they are
    inductive only together. `ReportsAreBounded` and `ReportsAreFaithful`, the
    same of the four tools' reports: a provider's step adds a row at most and
    leaves the body alone (`Collects`), what it returns are lines of text, and
    each is appended by a step of BoundedBody.
  - `ReportedRowsWereTrue` and `StayingDevicesAreReported`, of the tools that
    read a class directory, from `CallInv`: what is recorded of each device
    (`DeviceInv`), that rows are left out only when there is no room (`PlaceInv`),
    that the names listed are of devices that were there (`ListInv`), that each
    row holds what could be read of such a device during the call (`RowInv`),
    that what is still to come sorts after the rows (`SortInv`), and that a device
    that stays is still to come to, being read, reported or beyond the cap
    (`StayInv`).
  - `ReportedMountsWereTrue` and `SteadyMountsAreReported`, of `disk.usage`, from
    `DiskCallInv`: the histories are about the table of mounts (`TableInv`); no
    line of it is read twice, however it changes under the reader
    (`LineReadInv`); a row shows the space of a mount its path led to, of its own
    mount when that was never covered (`MeasuredInv`); a mount that stays on top
    is still to come, being measured or in a row (`OnTopInv`); `OrderedInv` is on
    the final sort.
  - `MarksAreTrue` (`MarkIsTrue`) from `FormInv`: the formatter has appended the
    first lines of the report and no others; what a sequence of texts joins to is
    in DataLemmas.
  - `EnrichmentIsTrue` (`RowsAreEnriched`) from `NetInv`: each of the lists that
    `network.summary` merges says of an interface only what was so when it was
    read; the fold of `collect_interface_addresses` is unrolled entry by entry.
  - `CountsAreTrue` (`CountsAreHonest`) from `CountInv`: once `/proc/cpuinfo` is
    read, the counts are those of the machine or too low. The work is in the
    parser. After any number of lines it has the summary of the blocks before
    (`SummaryOf`) and the part of the block it is in (`Part`, `InBlock`), by
    induction over the lines; the end of the text, wherever it is, leaves a
    summary that is `Within` the machine: cores of it, or sockets of it with
    their numbers of cores, or the number of its only package, or nothing but the
    count of processors. What is counted from such a summary is then compared
    with the set of cores: pairs of identifiers correspond to cores, and the sum
    over sockets is the number of their cores, as the function that gives this
    number goes by the recursion of the fold (`SumIs`, `SumOfCores`).
- `ServiceDiagnose_proofs`: `DiagnosisIsTrue` (`DiagnosisWasTrue`) and
  `SteadyIsDiagnosed` (`SteadyUnitIsDiagnosed`), for any sizes of the two texts.
  The invariant says of a call what it has read so far (`ReadsAreSeen`), that the
  body of `systemd.unit.status` is made of these values (`StatusIsOfReads`) and
  that the answer is made of that body (`AnswerIsOfStatus`). A body is all of its
  lines, or the longest beginning that leaves room for the marker and the marker
  (`AllIsFaithful`). A value that is read back from all lines is the one that was
  written (`SaidIsRead`); from a cut text it is that, or runs into the marker, or
  is empty, as the place of the cut has it (`CutValue`, `StatusTextIs`). So the
  diagnosis is the `Verdict` on what is left (`DiagnosisIsVerdict`). Its line is
  the last, and no longer than the marker: it is told as it was made or not at
  all (`ToldIsMade`).
- `DataLemmas`: induction over sets of numbers from the principle of the least
  number (`LeastNumber`, `SetInduction`), since the library's theorems with an
  operator as parameter cannot be used; the last and the greatest place of a
  sequence, sorted sequences; `JoinGrows`, the concatenation of texts one by one;
  `Rounds`, that a loop written as a recursive function has a solution; and what
  `append_bounded` does: the first call that does not fit, calls after a cut, and
  from these `AppendIsFaithful`.
- `ListTools_proofs`: `ReportsTellTheTruth` (`ReportTellsTheTruth`) and
  `NewestChangesAreShown` (`NewestAreShownOfFew`). A call is one step, so the
  invariant only says what a call may be given; the work is in the operators. The
  loops have solutions (`MatchingTyped`, `AddRowsKeeps`), a formatter's body is
  faithful to the captions and texts it was given (`CountedForm`, `BareForm`), an
  unstable sort neither loses nor doubles a row (`Reordered`, by way of bijections
  of places), and each tool is one lemma on top of these. Two hypotheses are in
  the statement of the first: captions are text (`Wording`), and no line that a
  report may end with ends as the marker does or is an end of it
  (`MarkerIsKnown`). The second is a limit of the format, not of the proof: a
  last row whose text ends in `truncated=true` cannot be told from the marker.
  The instance TLC runs meets both.
- `Exchange_proofs`: `TypeCorrect`, for which `Unsent` is needed (the server has
  sent nothing when its handler gives it something to send). `WholeLines` from
  `LineInv`: while `read_line` reads, its data are exactly what was taken from
  the peer and hold no newline, so that a line that ends is the peer's first; a
  lemma on pieces of a sequence carries this over a read of any size.
  `ExchangeInvariant` adds what the two ends know of each other (`PairInv`: how
  each end's state follows from its outcome, what the request and the response
  are and how much of them was sent), what an answer holds (`AnswerInv`), and when
  kasli's call ended (`LeftInv`: one that is over while the server's is not is
  seen to have left, and with its request sent in full it can only have failed
  in its read); with these the three properties are inductive
  (`MutualInv`). From it `WholeAnswers` (`AnswerIsWhole`), `ServedOnBothSides`
  (`ServedOrRaced`) and `HonestErrors` (`ErrorsAreTrue`). `LifecycleIsRefined` (`ServedAsBefore`): each step of the
  exchange is a step of SocketLifecycle or a stutter; `ServerSeen` and
  `ClientSeen` say what a step of each end is under the mapping, `StepServes` puts
  them together.
- `FixedCommand_proofs`: the invariant says that output is conserved until a
  read is refused (`Conserved`), that the local variables are true of the child
  and the pipe and stay so (`Informed`), and what each place is about to return
  (`Decided`). From it `SuccessIsWhole`, `TrueErrors`, `LeavesNothing`.

Only model-checked:

- all liveness, as fairness and ENABLED are beyond this prover: `CliFinishes`,
  `StartSettles`, `StartLeadsToServer`, `WaitingClientHears`,
  `EveryRequestSettles`, `CommandReturns`, `ServerMovesOn`, `KasliReturns`.

## 5. Not modelled

- `system.info`: two files copied into a text, without a cap or a bound. (An
  empty `/etc/os-release` sets the stream's fail bit, so that what is written
  after it is lost.)
- Redaction, JSON, prompts and the HTTP exchange of the model providers: work on
  characters, in a library. That encoding may throw is in Session, and a model's
  answer or exception is.
- The precedence of the model configuration: a sequence of assignments.
- The mutex of `AuditLog`: the daemon has one thread.
- The reuse of a process id that was reaped before `kill`.
- EINTR, everywhere: the loops around the calls try again.
- An error of a stream in a loop of `getline` (`src/tools/package_tool.cpp:473`,
  the logs of `packages.recent_changes`): the code takes it for the end of the
  file and says nothing, and ListTools has no such error.
- Options of the command line, default paths, build files.

## 6. Plan

1. Done: SocketLifecycle, Session with AuditedGateway, Autostart, FixedCommand,
   the evidence bodies, the list tools, the diagnosis; Exchange as a refinement
   of SocketLifecycle; the tools that look at the live system; the proofs above.
2. Done: the rest of Exchange, with its refinement; `LossIsBounded` and
   `LogInOrder`; the rows, the mark and the enrichment of the system tools, for
   any number of devices, mounts and changes; ListTools.
3. Done: `DiagnosisWasTrue` and `SteadyUnitIsDiagnosed` for every size of the two
   texts; `CountsAreHonest` for every machine and limit. With these each safety
   property that a run expects to hold is a theorem.
