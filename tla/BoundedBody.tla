---------------------------- MODULE BoundedBody ----------------------------
(***************************************************************************)
(* A formatter that keeps calling append_bounded, whether or not an        *)
(* earlier call has cut the body, as format_systemd_unit_status_body does  *)
(* (src/tools/systemd_tool.cpp).                                           *)
(***************************************************************************)
EXTENDS EvidenceBody

CONSTANTS
    Texts,       \* the texts a formatter may append
    MaxCalls     \* bound on the number of calls, for model checking

ASSUME CallsAssumption == Texts \subseteq Seq(Byte) /\ MaxCalls \in Nat

VARIABLES
    body,        \* the body under construction
    truncated,   \* the flag the calls share
    given,       \* history: everything the formatter wanted to append
    calls        \* history: the number of calls

vars == <<body, truncated, given, calls>>

TypeOK ==
    /\ body \in Seq(Byte) /\ given \in Seq(Byte)
    /\ truncated \in BOOLEAN
    /\ calls \in 0 .. MaxCalls

Init == body = <<>> /\ given = <<>> /\ truncated = FALSE /\ calls = 0

AppendText(text) ==
    /\ calls < MaxCalls
    /\ body' = append_bounded(body, text)
    /\ truncated' = (truncated \/ ~Fits(body, text))
    /\ given' = given \o text
    /\ calls' = calls + 1

Next == \E text \in Texts : AppendText(text)

Spec == Init /\ [][Next]_vars

-----------------------------------------------------------------------------
(* The body never exceeds its bound. *)
BodyIsBounded == Len(body) <= MaxBody

(* A body that was not truncated is everything it was given; one that was is
   the longest beginning of it that leaves room for the marker, and the marker,
   however many calls came after. *)
BodyIsFaithful ==
    IF truncated
    THEN /\ Len(given) > MaxBody
         /\ body = SubSeq(given, 1, MaxBody - Len(Marker)) \o Marker
    ELSE body = given
=============================================================================
