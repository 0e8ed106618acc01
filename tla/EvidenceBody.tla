---------------------------- MODULE EvidenceBody ----------------------------
(***************************************************************************)
(* append_bounded, the function every tool builds its evidence body with:  *)
(* src/tools/systemd_tool.cpp, with a copy in each other tool.             *)
(***************************************************************************)
EXTENDS Integers, Sequences

CONSTANTS
    Byte,        \* the characters of a text
    MaxBody,     \* kMaxBodyBytes
    Marker       \* "truncated=true\n"

ASSUME BodyAssumption ==
    /\ Marker \in Seq(Byte)
    /\ MaxBody \in Nat /\ Len(Marker) <= MaxBody

Fits(b, text) == Len(b) + Len(text) <= MaxBody

Remaining(b) == MaxBody - Len(b)

(* Mutant: no room is made for the marker. *)
append_bounded_NoResize(b, text) ==
    IF Fits(b, text) THEN b \o text
    ELSE IF Remaining(b) > Len(Marker)
         THEN b \o SubSeq(text, 1, Remaining(b) - Len(Marker)) \o Marker
         ELSE b \o Marker

(* Mutant: one character less than fits. *)
append_bounded_OffByOne(b, text) ==
    IF Fits(b, text) THEN b \o text
    ELSE IF Remaining(b) > Len(Marker)
         THEN b \o SubSeq(text, 1, Remaining(b) - Len(Marker) - 1) \o Marker
         ELSE SubSeq(b, 1, MaxBody - Len(Marker)) \o Marker

(* What the function leaves in the body: the marker always fits, and makes room
   for itself at the cost of the text or of what stood in the body. *)
append_bounded(b, text) ==
    IF Fits(b, text) THEN b \o text
    ELSE IF Remaining(b) > Len(Marker)
         THEN b \o SubSeq(text, 1, Remaining(b) - Len(Marker)) \o Marker
         ELSE SubSeq(b, 1, MaxBody - Len(Marker)) \o Marker

(* A text for each of the lines, one after the other, also after the body was cut. *)
append_all(lines) ==
    LET body[i \in 0 .. Len(lines)] ==
          IF i = 0 THEN <<>> ELSE append_bounded(body[i - 1], lines[i])
    IN  body[Len(lines)]
=============================================================================
