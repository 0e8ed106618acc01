----------------------------- MODULE RowReport -----------------------------
(***************************************************************************)
(* The frame the tools that look at the live system share: a provider      *)
(* collects rows, up to a cap, and a formatter puts them into a bounded    *)
(* body: src/tools/network_tool.cpp, power_tool.cpp, disk_tool.cpp and     *)
(* hardware_tool.cpp. A provider works row by row while the system changes *)
(* under it; the formatter works on what the provider returned.            *)
(***************************************************************************)
EXTENDS BoundedBody

CONSTANTS
    CountText(_),    \* the line with the number of rows
    NoneText,        \* the line that says there are none
    RowText(_),      \* the line of a row
    MaxChanges       \* bound on the changes of the system during a call

ASSUME ChangesAssumption == MaxChanges \in Nat

VARIABLES
    tool,            \* the tool that is called
    pc,              \* where the call is
    status,          \* what it returns
    rows, more,      \* rows and has_more_rows of the provider's result
    todo,            \* what the formatter has still to append
    changes          \* how often the system has changed during the call

callVars == <<tool, pc, status, rows, more, todo>>

RInit(t) ==
    /\ Init
    /\ tool = t /\ pc = "start" /\ status = "none"
    /\ rows = <<>> /\ more = FALSE /\ todo = <<>>
    /\ changes = 0

-----------------------------------------------------------------------------
At(t, label) == tool = t /\ pc = label

(* A step of the provider that neither fails nor finds a row. *)
Goto(label) ==
    /\ pc' = label
    /\ UNCHANGED <<tool, status, rows, more, todo, vars, changes>>

(* The provider's result says so, or an exception reaches call_tool: either way
   the response is an error, without evidence. *)
Failure ==
    /\ pc' = "done" /\ status' = "error"
    /\ UNCHANGED <<tool, rows, more, todo, vars, changes>>

(* A row is kept up to the cap; beyond it, it is only noted that there are more. *)
Admit(cap, label, otherwise) ==
    /\ pc' = IF Len(rows) < cap THEN label ELSE otherwise
    /\ more' = (more \/ Len(rows) >= cap)
    /\ UNCHANGED <<tool, status, rows, todo, vars, changes>>

AddRow(row, label) ==
    /\ rows' = Append(rows, row)
    /\ pc' = label
    /\ UNCHANGED <<tool, status, more, todo, vars, changes>>

(* The lines of the body: what stands before the rows is always appended, the
   rows until one of them is cut. *)
Always(text) == [text |-> text, row |-> FALSE]

(* Mutant: that there are more rows is forgotten. *)
Lines_NoMark(before, rs, has_more_rows) ==
    before \o [i \in 1 .. Len(rs) |-> [text |-> RowText(rs[i]), row |-> TRUE]]

Lines(before, rs, has_more_rows) ==
    before
      \o [i \in 1 .. Len(rs) |-> [text |-> RowText(rs[i]), row |-> TRUE]]
      \o (IF has_more_rows THEN <<Always(Marker)>> ELSE <<>>)

Caption(rs) ==
    <<Always(CountText(Len(rs)))>> \o (IF rs = <<>> THEN <<Always(NoneText)>> ELSE <<>>)

(* The provider returns its rows, in this order. *)
Return(rs, before) ==
    /\ pc' = "format" /\ rows' = rs
    /\ todo' = Lines(before, rs, more)
    /\ UNCHANGED <<tool, status, more, vars, changes>>

FormatLine ==
    /\ pc = "format" /\ todo # <<>>
    /\ AppendText(Head(todo).text)
    /\ todo' = IF Head(todo).row /\ truncated' THEN <<>> ELSE Tail(todo)
    /\ UNCHANGED <<tool, pc, status, rows, more, changes>>

FormatDone ==
    /\ pc = "format" /\ todo = <<>>
    /\ pc' = "done" /\ status' = "ok"
    /\ UNCHANGED <<tool, rows, more, todo, vars, changes>>

(* The system changes, during the work of a provider, in some way. *)
Changing ==
    /\ pc \notin {"format", "done"}
    /\ changes < MaxChanges /\ changes' = changes + 1
    /\ UNCHANGED <<callVars, vars>>
=============================================================================
