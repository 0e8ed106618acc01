--------------------------- MODULE MCSystemTools ---------------------------
(* SystemTools with three devices of which two fit the rows, with two changes of
   the system during a call, machines of up to three processors, four file
   systems at three mount points, and bodies that are cut in the last row. *)
EXTENDS SystemTools

MCMarker == <<"t", "\n">>

MCByte == {"a", "b", "c", "t", "\n"}

MCCountText(n) == <<"c", "\n">>

MCNoneText == <<"a", "\n">>

(* A long row for what reads "up" or is over-full, a short one for the others. *)
Long(r) == IF "second" \in DOMAIN r THEN r.second = "up" ELSE r.used_percent = 100

MCRowText(r) == IF Long(r) THEN <<"b", "b", "b", "\n">> ELSE <<"b", "\n">>

MCScalarText == <<"a", "a">>

MCCpuText(counts) == <<"c", "\n">>

MCTexts ==
    {MCMarker, MCCountText(0), MCNoneText, MCScalarText, <<"b", "\n">>, <<"b", "b", "b", "\n">>}

Address(n, f, h) == [name |-> n, family |-> f, host |-> h]

MCIfaddrs ==
    {<<Address(1, "ipv4", "h1"), Address(1, "other", "h2"), Address(2, "ipv4", "h2"),
       Address(1, "ipv4", "h1"), Address(1, "ipv4", "h3"), Address(1, "ipv4", "h4"),
       Address(1, "ipv6", "none"), Address(2, "ipv6", "h5")>>}

MCRouteTables ==
    {<<[name |-> 1, default |-> TRUE, up |-> TRUE], [name |-> 2, default |-> TRUE, up |-> FALSE],
       [name |-> 3, default |-> FALSE, up |-> TRUE]>>}

Cpus(s) == [i \in 1 .. Len(s) |-> [socket |-> s[i][1], core |-> s[i][2]]]

(* Two sockets; the same with two cores in one of them; one socket. Of the full
   style the first is within the limit of the input, the second is cut. *)
MCMachines ==
    {[style |-> "full", cpus |-> Cpus(<<<<0, 0>>, <<1, 0>>>>)],
     [style |-> "full", cpus |-> Cpus(<<<<0, 0>>, <<1, 0>>, <<1, 1>>>>)],
     [style |-> "no core id", cpus |-> Cpus(<<<<0, 0>>, <<1, 0>>, <<1, 1>>>>)],
     [style |-> "cores only", cpus |-> Cpus(<<<<0, 0>>, <<0, 1>>, <<0, 1>>>>)],
     [style |-> "plain", cpus |-> Cpus(<<<<0, 0>>, <<0, 1>>>>)]}

MCMountPoint == [m \in Mounts |-> CASE m = "root" -> 1 [] m = "tmp" -> 0 [] OTHER -> 2]

MCSpace ==
    [m \in Mounts |-> CASE m = "root"  -> [capacity |-> 200, available |-> 1]
                        [] m = "empty" -> [capacity |-> 0, available |-> 0]
                        [] m = "quota" -> [capacity |-> 3, available |-> 4]
                        [] OTHER       -> [capacity |-> 3, available |-> 0]]
=============================================================================
