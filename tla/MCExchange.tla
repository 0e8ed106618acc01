----------------------------- MODULE MCExchange -----------------------------
(* Exchange with lines of at most four bytes over queues of two and a buffer of
   three, so that a line takes several reads and writes and a payload is below,
   at or above the limit, or holds a newline itself. *)
EXTENDS Exchange

MCNewline == "\n"

MCByte == {"a", "b", MCNewline}

Line == <<"a", "b", "b", "a", "b">>

MCPayloads == {SubSeq(Line, 1, n) : n \in 0 .. 5} \cup {<<"a", MCNewline>>}

MCScripts ==
    {SubSeq(Line, 1, n) : n \in {0, 3, 5}}
      \cup {SubSeq(Line, 1, n) \o <<MCNewline, "a">> : n \in {0, 4, 5}}
      \cup {<<"a", MCNewline, "b", MCNewline>>}
=============================================================================
