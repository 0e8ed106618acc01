---------------------------- MODULE MCListTools ----------------------------
(* ListTools on replies of up to three rows over a body of six characters, so
   that two long rows do not fit and three rows are beyond every cap. *)
EXTENDS ListTools

MCMarker == <<"t", "\n">>

MCByte == {"t", "\n", "0", "1", "2", "n", "s", "a", "b", "c", "d", "e", "x"}

MCCountText(n) == <<CASE n = 0 -> "0" [] n = 1 -> "1" [] OTHER -> "2">>

MCNoneText == <<"n">>

MCSkippedText(n) == <<"s", IF n = 1 THEN "1" ELSE "2">>

MCUnit(text, service, active, file) ==
    [text |-> text, service |-> service, active_state |-> active, unit_file_state |-> file]

MCUnits ==
    { MCUnit(<<"a">>, TRUE, "failed", "enabled"),
      MCUnit(<<"b", "x", "x">>, TRUE, "failed", "other"),
      MCUnit(<<"c", "x", "x">>, TRUE, "other", "enabled-runtime"),
      MCUnit(<<"d">>, FALSE, "failed", "enabled"),
      MCUnit(<<"e">>, TRUE, "other", "other") }

MCPackages ==
    { [text |-> <<"a">>, key |-> 1, parses |-> TRUE],
      [text |-> <<"b", "x", "x">>, key |-> 2, parses |-> TRUE],
      [text |-> <<"c", "x", "x">>, key |-> 2, parses |-> TRUE],
      [text |-> <<"d">>, key |-> 0, parses |-> FALSE] }

MCChanges ==
    { [text |-> <<"a">>, timestamp |-> 1, parses |-> TRUE],
      [text |-> <<"b", "x", "x">>, timestamp |-> 2, parses |-> TRUE],
      [text |-> <<"c">>, timestamp |-> 3, parses |-> TRUE],
      [text |-> <<"d">>, timestamp |-> 4, parses |-> FALSE] }

MCEntries ==
    { [text |-> <<"a">>, of_unit |-> TRUE, valid |-> TRUE],
      [text |-> <<"b", "x", "x">>, of_unit |-> TRUE, valid |-> TRUE],
      [text |-> <<"c">>, of_unit |-> FALSE, valid |-> TRUE],
      [text |-> <<"d">>, of_unit |-> FALSE, valid |-> FALSE] }
=============================================================================
