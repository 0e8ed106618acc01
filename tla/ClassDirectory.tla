--------------------------- MODULE ClassDirectory ---------------------------
(***************************************************************************)
(* A directory of devices under /sys/class and the loops that read it: the *)
(* names are listed, sorted, and then each device's attributes are read    *)
(* from files that may be gone by then (src/tools/network_tool.cpp,        *)
(* power_tool.cpp, and the GPU rows of hardware_tool.cpp).                 *)
(*                                                                         *)
(* Names are numbers, in the order they sort in. Two attributes, read one  *)
(* after the other, stand for the many a tool reads.                       *)
(***************************************************************************)
EXTENDS RowReport

CONSTANTS
    Names,           \* names of devices
    Contents,        \* what an attribute's file may hold
    Empty,           \* a file of blanks
    Unknown          \* "unknown", also the "0" of a counter

ASSUME DirectoryAssumption == Names \subseteq Nat /\ Empty \in Contents /\ Unknown \notin Contents

VARIABLES
    present,         \* the devices that are there
    content,         \* what the files of each hold
    due,             \* the entries the iteration has still to come to
    listed,          \* the names it has come to
    reading,         \* the name whose row is being read
    first,           \* its first attribute
    ever,            \* history: the devices that were there during the call
    stayed,          \* history: the ones that were there throughout,
    steady,          \* history: and that kept their attributes
    was              \* history: what reading a device's file has yielded so far

loopVars   == <<due, listed, reading, first>>
deviceVars == <<present, content, ever, stayed, steady, was>>
dirVars    == <<loopVars, deviceVars>>

NoName == -1

(* read_text_file: the first line without the blanks around it, or the fallback
   when there is no file or nothing in it. *)
Text(c) == IF c = Empty THEN Unknown ELSE c

read_text_file(n) == IF n \in present THEN Text(content[n]) ELSE Unknown

DInit ==
    /\ present \in SUBSET Names
    /\ \E c \in [present -> Contents] : content = [n \in Names |-> IF n \in present THEN c[n] ELSE Empty]
    /\ due = {} /\ listed = {} /\ reading = NoName /\ first = Unknown
    /\ ever = present /\ stayed = present /\ steady = present
    /\ was = [n \in Names |-> {read_text_file(n)}]

(* The directory is empty and out of use. *)
DIdle ==
    /\ present = {} /\ content = [n \in Names |-> Empty]
    /\ due = {} /\ listed = {} /\ reading = NoName /\ first = Unknown
    /\ ever = {} /\ stayed = {} /\ steady = {}
    /\ was = [n \in Names |-> {Unknown}]

-----------------------------------------------------------------------------
(* Devices come, go and change. *)
Vanish(n) ==
    /\ n \in present
    /\ present' = present \ {n} /\ due' = due \ {n}
    /\ stayed' = stayed \ {n} /\ steady' = steady \ {n}
    /\ content' = [content EXCEPT ![n] = Empty]
    /\ was' = [was EXCEPT ![n] = @ \cup {Unknown}]
    /\ UNCHANGED <<ever, listed, reading, first>>

Appear(n, c) ==
    /\ n \notin present
    /\ present' = present \cup {n} /\ ever' = ever \cup {n}
    /\ content' = [content EXCEPT ![n] = c]
    /\ was' = [was EXCEPT ![n] = @ \cup {Text(c)}]
    /\ UNCHANGED <<stayed, steady, loopVars>>

Alter(n, c) ==
    /\ n \in present /\ c # content[n]
    /\ content' = [content EXCEPT ![n] = c]
    /\ steady' = steady \ {n}
    /\ was' = [was EXCEPT ![n] = @ \cup {Text(c)}]
    /\ UNCHANGED <<present, ever, stayed, loopVars>>

DirectoryChanges ==
    /\ Changing
    /\ \E n \in Names : Vanish(n) \/ \E c \in Contents : Appear(n, c) \/ Alter(n, c)

-----------------------------------------------------------------------------
(* directory_iterator: opening it, then one entry after the other. What is there
   from the opening on is come to, what appears later may be. *)
OpenDirectory(t) ==
    /\ At(t, "open")
    /\ due' = present
    /\ Goto("list")
    /\ UNCHANGED <<listed, reading, first, deviceVars>>

ListEntry(t) ==
    /\ At(t, "list")
    /\ \E n \in present \ listed :
         /\ listed' = listed \cup {n}
         /\ due' = due \ {n}
    /\ UNCHANGED <<callVars, vars, changes, reading, first, deviceVars>>

ListEnd(t) ==
    /\ At(t, "list") /\ due = {}
    /\ Goto("next")
    /\ UNCHANGED dirVars

(* Advancing the iterator throws when it fails. *)
ListThrows(t) == At(t, "list") /\ Failure /\ UNCHANGED dirVars

(* The loop over the sorted names. *)
IsNext(n) == n \in listed /\ \A m \in listed : n <= m

NextName(t) ==
    /\ At(t, "next")
    /\ \E n \in listed : IsNext(n) /\ listed' = listed \ {n} /\ reading' = n
    /\ UNCHANGED <<due, first, deviceVars>>

NoMoreNames(t) == At(t, "next") /\ listed = {}

ReadFirst(t) ==
    /\ At(t, "first")
    /\ first' = read_text_file(reading)
    /\ Goto("second")
    /\ UNCHANGED <<due, listed, reading, deviceVars>>

Row(extra) ==
    [name |-> reading, first |-> first, second |-> read_text_file(reading), extra |-> extra]

(* Mutant: a device with an attribute that cannot be read has no row. *)
ReadRow_OnlyIfKnown(t, extra) ==
    /\ At(t, "second")
    /\ IF read_text_file(reading) # Unknown THEN AddRow(Row(extra), "next") ELSE Goto("next")
    /\ UNCHANGED dirVars

(* Mutant: an attribute that cannot be read keeps the value of the row before. *)
ReadRow_Stale(t, extra) ==
    /\ At(t, "second")
    /\ AddRow([Row(extra) EXCEPT !.second =
                 IF @ = Unknown /\ rows # <<>> THEN rows[Len(rows)].second ELSE @], "next")
    /\ UNCHANGED dirVars

ReadRow(t, extra) ==
    /\ At(t, "second")
    /\ AddRow(Row(extra), "next")
    /\ UNCHANGED dirVars

(* The loops of the tools that have a row for each name. *)
DirectoryLoop(t, cap) ==
    \/ OpenDirectory(t) \/ ListEntry(t) \/ ListEnd(t) \/ ListThrows(t)
    \/ NextName(t) /\ Admit(cap, "first", "next")
    \/ ReadFirst(t)
=============================================================================
