----------------------------- MODULE DiskUsage -----------------------------
(***************************************************************************)
(* disk.usage (src/tools/disk_tool.cpp): the lines of                      *)
(* /proc/self/mountinfo, each measured with std::filesystem::space, which  *)
(* takes the mount point as a path and so measures what that path leads to *)
(* by then: the topmost file system mounted there, or, when nothing is     *)
(* mounted there any more, the root file system.                           *)
(*                                                                         *)
(* Mount points are numbers, in the order they sort in; none lies below    *)
(* another, except that all lie below the root's.                          *)
(***************************************************************************)
EXTENDS RowReport, SequencesExt

CONSTANTS
    Mounts,          \* file systems that can be mounted
    Root,            \* the one that is always mounted, at a point of its own
    MountPoint,      \* where each is mounted
    Candidates,      \* the ones is_disk_usage_mount_candidate keeps
    Space,           \* the size of each, and what is available of it
    kMaxDiskUsageRows

ASSUME DiskAssumption ==
    /\ IsFiniteSet(Mounts) /\ Root \in Mounts /\ Candidates \subseteq Mounts
    /\ MountPoint \in [Mounts -> Nat]
    /\ \A m \in Mounts \ {Root} : MountPoint[m] # MountPoint[Root]
    /\ Space \in [Mounts -> [capacity : Nat, available : Nat]]
    /\ kMaxDiskUsageRows \in Nat

VARIABLES
    mounted,         \* the kernel's list of mounts, in the order it shows them
    cursor,          \* how many of them have been read
    lines,           \* the lines that are read but not looked at yet
    mount,           \* the mount of the line that is being looked at
    everMounted,     \* history: what was mounted during the call
    ledTo,           \* history: what each mount point has led to so far
    uncovered,       \* history: what its mount point has led to throughout
    unmeasured       \* history: the mounts that could not be measured

readerVars == <<cursor, lines, mount, unmeasured>>
tableVars  == <<mounted, cursor, everMounted, ledTo, uncovered>>
diskVars   == <<mounted, cursor, lines, mount, everMounted, ledTo, uncovered, unmeasured>>

(* What the path of a mount point leads to while the list of mounts is list. *)
Resolved(list, point) ==
    LET there == {i \in 1 .. Len(list) : MountPoint[list[i]] = point}
    IN  IF there = {} THEN Root ELSE list[Max(there)]

Points == {MountPoint[m] : m \in Mounts}

Tops(list) == {Resolved(list, point) : point \in Points}

TablesOf(ms) == {<<Root>> \o s : s \in SetToSeqs(ms)}

DiskInit ==
    /\ mounted \in UNION {TablesOf(ms) : ms \in SUBSET (Mounts \ {Root})}
    /\ cursor = 0 /\ lines = <<>> /\ mount = Root /\ unmeasured = {}
    /\ everMounted = Range(mounted) /\ uncovered = Tops(mounted)
    /\ ledTo = [point \in Points |-> {Resolved(mounted, point)}]

DiskIdle ==
    /\ mounted = <<Root>>
    /\ cursor = 0 /\ lines = <<>> /\ mount = Root /\ unmeasured = {}
    /\ everMounted = {Root} /\ uncovered = {Root}
    /\ ledTo = [point \in Points |-> {Root}]

-----------------------------------------------------------------------------
(* File systems are mounted and unmounted: what a mount point leads to changes. *)
TableBecomes(list) ==
    /\ mounted' = list
    /\ everMounted' = everMounted \cup Range(list)
    /\ ledTo' = [point \in Points |-> ledTo[point] \cup {Resolved(list, point)}]
    /\ uncovered' = uncovered \cap Tops(list)

(* A mount goes to the end of the list. One that comes back is another mount. *)
Mount(m) ==
    /\ m \notin everMounted
    /\ TableBecomes(Append(mounted, m))
    /\ UNCHANGED cursor

(* Unmounting before the reader's place in the list moves the place with it. *)
Unmount(i) ==
    /\ mounted[i] # Root /\ Resolved(mounted, MountPoint[mounted[i]]) = mounted[i]
    /\ TableBecomes(RemoveAt(mounted, i))
    /\ cursor' = IF i <= cursor THEN cursor - 1 ELSE cursor

TableChanges ==
    /\ Changing
    /\ (\E m \in Mounts : Mount(m)) \/ (\E i \in 1 .. Len(mounted) : Unmount(i))
    /\ UNCHANGED <<lines, mount, unmeasured>>

-----------------------------------------------------------------------------
Disk == "disk.usage"

MountinfoUnavailable == At(Disk, "start") /\ Failure /\ UNCHANGED diskVars

MountinfoOpened == At(Disk, "start") /\ Goto("lines") /\ UNCHANGED diskVars

(* The stream reads ahead: as many of the following lines as its buffer takes. *)
ReadLines ==
    /\ At(Disk, "lines") /\ lines = <<>> /\ cursor < Len(mounted)
    /\ \E last \in cursor + 1 .. Len(mounted) :
         lines' = SubSeq(mounted, cursor + 1, last) /\ cursor' = last
    /\ UNCHANGED <<callVars, vars, changes, mounted, everMounted, ledTo, uncovered,
                   mount, unmeasured>>

is_disk_usage_mount_candidate(m) == m \in Candidates

(* The next line, unless it does not parse or is no candidate. *)
TakeLine ==
    /\ At(Disk, "lines") /\ lines # <<>>
    /\ mount' = Head(lines) /\ lines' = Tail(lines)
    /\ Goto(IF is_disk_usage_mount_candidate(mount') THEN "space" ELSE "lines")
    /\ UNCHANGED <<tableVars, unmeasured>>

(* Mutant: the percentage is rounded up. *)
used_percent_RoundedUp(s) ==
    IF s.capacity = 0 \/ s.available >= s.capacity THEN 0
    ELSE ((s.capacity - s.available) * 100 + s.capacity - 1) \div s.capacity

used_percent(s) ==
    IF s.capacity = 0 \/ s.available >= s.capacity THEN 0
    ELSE ((s.capacity - s.available) * 100) \div s.capacity

DiskRow(m, measured) ==
    [mount |-> m, measured |-> measured, used_percent |-> used_percent(Space[measured])]

(* Mutant: the rows end with the first mount that cannot be measured. *)
SpaceFails_Stops ==
    /\ At(Disk, "space")
    /\ unmeasured' = unmeasured \cup {mount}
    /\ Return(rows, Caption(rows))
    /\ UNCHANGED <<tableVars, lines, mount>>

(* A mount that cannot be measured has no row, and is not noted either. *)
SpaceFails ==
    /\ At(Disk, "space")
    /\ unmeasured' = unmeasured \cup {mount}
    /\ Goto("lines")
    /\ UNCHANGED <<tableVars, lines, mount>>

MeasureSpace ==
    /\ At(Disk, "space")
    /\ IF Len(rows) < kMaxDiskUsageRows
       THEN AddRow(DiskRow(mount, Resolved(mounted, MountPoint[mount])), "lines")
       ELSE Admit(kMaxDiskUsageRows, "lines", "lines")
    /\ UNCHANGED diskVars

(* std::ranges::sort: by mount point, in any order where mount points are equal. *)
Orders(rs) ==
    LET places == 1 .. Len(rs)
    IN  {o \in {[i \in places |-> rs[p[i]]] : p \in Bijection(places, places)} :
           \A i \in places : i > 1 => MountPoint[o[i - 1].mount] <= MountPoint[o[i].mount]}

DiskReturns ==
    /\ At(Disk, "lines") /\ lines = <<>> /\ cursor = Len(mounted)
    /\ \E rs \in Orders(rows) : Return(rs, Caption(rs))
    /\ UNCHANGED diskVars

DiskStep ==
    \/ MountinfoUnavailable \/ MountinfoOpened \/ ReadLines \/ TakeLine
    \/ SpaceFails \/ MeasureSpace \/ DiskReturns

-----------------------------------------------------------------------------
(* Each row is of another mount, a candidate that was mounted at some time during
   the call, in the order of the mount points; its numbers are of a file system the
   mount point led to at some time during the call; and 100 percent are shown for
   a full file system only. *)
DiskRowsWereTrue ==
    tool = Disk /\ status = "ok" =>
      \A i \in 1 .. Len(rows) :
        LET r == rows[i] IN
        /\ r.mount \in Candidates \cap everMounted
        /\ r.measured \in ledTo[MountPoint[r.mount]]
        /\ \A j \in 1 .. i - 1 : /\ rows[j].mount # r.mount
                                 /\ MountPoint[rows[j].mount] <= MountPoint[r.mount]
        /\ r.used_percent = 100
             <=> Space[r.measured].capacity > 0 /\ Space[r.measured].available = 0

(* A candidate that its mount point led to throughout the call, and that could be
   measured, has a row with its own numbers, unless the report is marked as cut. *)
SteadyMountIsReported ==
    tool = Disk /\ status = "ok" /\ ~more =>
      \A m \in (uncovered \cap Candidates) \ unmeasured :
        \E i \in 1 .. Len(rows) : rows[i].mount = m /\ rows[i].measured = m
=============================================================================
