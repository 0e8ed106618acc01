-------------------------- MODULE HardwareSummary --------------------------
(***************************************************************************)
(* hardware.summary (src/tools/hardware_tool.cpp): the counts of           *)
(* processors and cores parsed from /proc/cpuinfo, and a row for each GPU  *)
(* under /sys/class/drm. The other lines of the report (architecture,      *)
(* names, memory, DMI identity) are texts that are appended as they are.   *)
(*                                                                         *)
(* /proc/cpuinfo is a sequence of lines; kMaxHardwareInputBytes counts     *)
(* lines here, as the input is cut after a whole line.                     *)
(***************************************************************************)
EXTENDS ClassDirectory, SequencesExt

CONSTANTS
    Machines,        \* processors, as [style, cpus : Seq of [socket, core]]
    CardNames,       \* the names for which is_drm_card_name holds
    WithDevice,      \* the ones that have a device directory
    ScalarText,      \* the lines of the report before the counts of processors
    CpuText(_),      \* the lines with the counts
    kMaxHardwareInputBytes, kMaxGpuRows

(* A machine has a processor, and one whose kernel names no package has only one. *)
ASSUME HardwareAssumption ==
    /\ WithDevice \subseteq CardNames /\ CardNames \subseteq Names
    /\ kMaxHardwareInputBytes \in Nat \ {0} /\ kMaxGpuRows \in Nat
    /\ \A m \in Machines :
         /\ m.style \in {"full", "no core id", "cores only", "plain"}
         /\ m.cpus \in Seq([socket : Nat, core : Nat]) /\ m.cpus # <<>>
         /\ m.style = "cores only" =>
              \A i \in 1 .. Len(m.cpus) : m.cpus[i].socket = m.cpus[1].socket

VARIABLES
    machine,         \* the processors of the machine
    cpu,             \* what parse_cpuinfo_summary returned
    failed           \* history: "cpuinfo" and "drm" if they could not be read

hwVars == <<machine, cpu, failed>>

NoCounts == [logical_processors |-> 0, physical_cores |-> 0]

HIdle == machine = [style |-> "plain", cpus |-> <<>>] /\ cpu = NoCounts /\ failed = {}

HInit == machine \in Machines /\ cpu = NoCounts /\ failed = {}

-----------------------------------------------------------------------------
(* What the kernel writes: a block for each processor, with the identifiers the
   architecture has. *)
CoresOf(m, socket) ==
    {m.cpus[i].core : i \in {j \in 1 .. Len(m.cpus) : m.cpus[j].socket = socket}}

Field(key, value) == [key |-> key, value |-> value]

Block(m, c) ==
    <<Field("processor", 0)>>
      \o (IF m.style \in {"full", "no core id"} THEN <<Field("physical id", c.socket)>> ELSE <<>>)
      \o (IF m.style = "full" THEN <<Field("core id", c.core)>> ELSE <<>>)
      \o (IF m.style = "plain" THEN <<>>
          ELSE <<Field("cpu cores", Cardinality(CoresOf(m, c.socket)))>>)
      \o <<Field("blank", 0)>>

CpuInfo(m) == FlattenSeq([i \in 1 .. Len(m.cpus) |-> Block(m, m.cpus[i])])

(* read_file_contents and truncate_hardware_input. *)
truncate_hardware_input(lines) ==
    SubSeq(lines, 1, Min({Len(lines), kMaxHardwareInputBytes}))

(* The state of parse_cpuinfo_summary's loop. An identifier that is not given is
   the empty string in the code and -1 here. *)
NoBlock == [has_processor |-> FALSE, physical_id |-> -1, core_id |-> -1, cpu_cores |-> 0]

NoSummary ==
    [logical_processors |-> 0, fallback_cores |-> 0, physical_core_ids |-> {},
     socket_core_counts |-> <<>>]

(* Mutant: cores are told apart by their number in the socket. *)
finalize_cpu_block_CoreOnly(s, b) ==
    IF ~b.has_processor THEN s
    ELSE [s EXCEPT !.logical_processors = @ + 1,
                   !.physical_core_ids = @ \cup {b.core_id}]

finalize_cpu_block(s, b) ==
    IF ~b.has_processor THEN s
    ELSE LET known  == b.physical_id # -1
             counts == s.socket_core_counts
             before == IF b.physical_id \in DOMAIN counts THEN counts[b.physical_id] ELSE 0
             max    == Max({before, b.cpu_cores})
         IN  [logical_processors |-> s.logical_processors + 1,
              fallback_cores |-> Max({s.fallback_cores, b.cpu_cores}),
              physical_core_ids |->
                IF known /\ b.core_id # -1
                THEN s.physical_core_ids \cup {<<b.physical_id, b.core_id>>}
                ELSE s.physical_core_ids,
              socket_core_counts |->
                IF known /\ b.core_id = -1 /\ b.cpu_cores > 0
                THEN [k \in DOMAIN counts \cup {b.physical_id} |->
                        IF k = b.physical_id THEN max ELSE counts[k]]
                ELSE counts]

ParseLine(state, line) ==
    CASE line.key = "blank" ->
           [summary |-> finalize_cpu_block(state.summary, state.block), block |-> NoBlock]
      [] line.key = "processor"   -> [state EXCEPT !.block.has_processor = TRUE]
      [] line.key = "physical id" -> [state EXCEPT !.block.physical_id = line.value]
      [] line.key = "core id"     -> [state EXCEPT !.block.core_id = line.value]
      [] line.key = "cpu cores"   -> [state EXCEPT !.block.cpu_cores = line.value]

(* The loop: its state after the last line. *)
ParseLines(lines) ==
    LET after[n \in 0 .. Len(lines)] ==
          IF n = 0 THEN [summary |-> NoSummary, block |-> NoBlock]
          ELSE ParseLine(after[n - 1], lines[n])
    IN  after[Len(lines)]

CountCores(s) ==
    IF s.physical_core_ids # {} THEN Cardinality(s.physical_core_ids)
    ELSE IF DOMAIN s.socket_core_counts # {}
    THEN FoldFunction(+, 0, s.socket_core_counts)
    ELSE IF s.fallback_cores > 0 THEN s.fallback_cores ELSE s.logical_processors

parse_cpuinfo_summary(lines) ==
    LET last == ParseLines(lines)
        s    == finalize_cpu_block(last.summary, last.block)
    IN  [logical_processors |-> s.logical_processors, physical_cores |-> CountCores(s)]

-----------------------------------------------------------------------------
Hardware == "hardware.summary"

HardwareUnavailable == At(Hardware, "start") /\ Failure /\ UNCHANGED <<dirVars, hwVars>>

(* uname, /proc/cpuinfo, /proc/meminfo and the DMI files. A cpuinfo that cannot
   be opened reads as empty. *)
ReadScalars ==
    /\ At(Hardware, "start")
    /\ Goto("drm")
    /\ \/ /\ cpu' = parse_cpuinfo_summary(truncate_hardware_input(CpuInfo(machine)))
          /\ UNCHANGED failed
       \/ cpu' = parse_cpuinfo_summary(<<>>) /\ failed' = {"cpuinfo"}
    /\ UNCHANGED <<dirVars, machine>>

(* The report: the scalars, the number of GPUs, their rows. *)
Before(rs) == <<Always(ScalarText), Always(CpuText(cpu)), Always(CountText(Len(rs)))>>

DrmExists == At(Hardware, "drm") /\ Goto("open") /\ UNCHANGED <<dirVars, hwVars>>

(* Without the directory, or with one that cannot be opened, there are no GPUs. *)
NoGpus ==
    /\ pc \in {"drm", "open"} /\ tool = Hardware
    /\ Return(<<>>, Before(<<>>))
    /\ failed' = failed \cup {"drm"}
    /\ UNCHANGED <<dirVars, machine, cpu>>

(* exists throws when it cannot tell, and the scalars are lost with it. *)
ExistsThrows ==
    /\ tool = Hardware /\ pc \in {"drm", "device"}
    /\ Failure
    /\ UNCHANGED <<dirVars, hwVars>>

DirectoryStep == OpenDirectory(Hardware) \/ ListEnd(Hardware) \/ ListThrows(Hardware)

(* Only the entries named like cards are kept. *)
ListDrmEntry ==
    /\ At(Hardware, "list")
    /\ \E n \in due \cup (present \ listed) :
         /\ due' = due \ {n}
         /\ listed' = IF n \in CardNames THEN listed \cup {n} ELSE listed
    /\ UNCHANGED <<callVars, vars, changes, reading, first, deviceVars>>

NextCard == NextName(Hardware) /\ Goto("device")

DeviceExists ==
    /\ At(Hardware, "device")
    /\ IF reading \in present \cap WithDevice
       THEN Admit(kMaxGpuRows, "first", "next") ELSE Goto("next")
    /\ UNCHANGED dirVars

HardwareReturns ==
    NoMoreNames(Hardware) /\ Return(rows, Before(rows)) /\ UNCHANGED <<dirVars, hwVars>>

HardwareStep ==
    \/ HardwareUnavailable \/ ReadScalars \/ DrmExists \/ NoGpus \/ ExistsThrows
    \/ HardwareReturns
    \/ /\ \/ DirectoryStep \/ ListDrmEntry \/ NextCard \/ DeviceExists
          \/ ReadFirst(Hardware) \/ ReadRow(Hardware, <<>>)
       /\ UNCHANGED hwVars

-----------------------------------------------------------------------------
Processors(m) == Len(m.cpus)

Cores(m) ==
    IF m.style = "plain" THEN Processors(m) ELSE Cardinality(Range(m.cpus))

(* The counts of a /proc/cpuinfo that could be read are those of the machine when
   the file is within the limit, however the architecture tells the cores apart,
   and never more than those when it is cut. *)
CountsAreHonest ==
    tool = Hardware /\ status = "ok" /\ "cpuinfo" \notin failed =>
        /\ cpu.logical_processors \in 1 .. Processors(machine)
        /\ cpu.physical_cores \in 1 .. Cores(machine)
        /\ Len(CpuInfo(machine)) <= kMaxHardwareInputBytes =>
             cpu = [logical_processors |-> Processors(machine),
                    physical_cores |-> Cores(machine)]
=============================================================================
