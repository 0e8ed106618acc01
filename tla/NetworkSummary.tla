--------------------------- MODULE NetworkSummary ---------------------------
(***************************************************************************)
(* network.summary (src/tools/network_tool.cpp): the interfaces under      *)
(* /sys/class/net, with the addresses getifaddrs knows and the default     *)
(* routes of /proc/net/route, both taken before the interfaces are listed. *)
(***************************************************************************)
EXTENDS ClassDirectory, SequencesExt

CONSTANTS
    Ifaddrs,                 \* the lists getifaddrs may return
    RouteTables,             \* the lines /proc/net/route may have
    NoHost,                  \* getnameinfo failed
    kMaxNetworkRows, kMaxAddressesPerFamily

ASSUME NetworkAssumption ==
    /\ Ifaddrs \subseteq Seq([name : Names, family : {"ipv4", "ipv6", "other"}, host : STRING])
    /\ RouteTables \subseteq Seq([name : Names, default : BOOLEAN, up : BOOLEAN])
    /\ kMaxNetworkRows \in Nat /\ kMaxAddressesPerFamily \in Nat

VARIABLES
    ifaddrs, routeLines,     \* what the kernel would answer
    addresses,               \* collect_interface_addresses
    default_routes,          \* collect_default_route_interfaces
    enriched                 \* history: which of the two succeeded

netVars == <<ifaddrs, routeLines, addresses, default_routes, enriched>>

None == [f \in {"ipv4", "ipv6"} |-> <<>>]

NIdle ==
    /\ ifaddrs = <<>> /\ routeLines = <<>>
    /\ addresses = [n \in Names |-> None] /\ default_routes = {} /\ enriched = {}

NInit ==
    /\ ifaddrs \in Ifaddrs /\ routeLines \in RouteTables
    /\ addresses = [n \in Names |-> None] /\ default_routes = {} /\ enriched = {}

-----------------------------------------------------------------------------
(* Mutant: the limit is one too low. *)
add_bounded_unique_OffByOne(values, value) ==
    IF \/ value = NoHost \/ Len(values) >= kMaxAddressesPerFamily - 1
       \/ \E i \in 1 .. Len(values) : values[i] = value
    THEN values ELSE Append(values, value)

add_bounded_unique(values, value) ==
    IF \/ value = NoHost \/ Len(values) >= kMaxAddressesPerFamily
       \/ \E i \in 1 .. Len(values) : values[i] = value
    THEN values ELSE Append(values, value)

AddAddress(found, a) ==
    IF a.family = "other" \/ a.name \notin present THEN found
    ELSE [found EXCEPT ![a.name][a.family] = add_bounded_unique(@, a.host)]

collect_interface_addresses == FoldLeft(AddAddress, addresses, ifaddrs)

(* parse_default_route_interface: destination and mask are 0 and the route is up. *)
IsDefaultRoute(line) == line.default /\ line.up

collect_default_route_interfaces ==
    {line.name : line \in {l \in Range(routeLines) : IsDefaultRoute(l) /\ l.name \in present}}

-----------------------------------------------------------------------------
Network == "network.summary"

(* exists says no, or throws. *)
NetworkUnavailable == At(Network, "start") /\ Failure /\ UNCHANGED <<dirVars, netVars>>

NetworkExists == At(Network, "start") /\ Goto("addresses") /\ UNCHANGED <<dirVars, netVars>>

(* When either of the two sources fails the rows go without it. *)
CollectAddresses ==
    /\ At(Network, "addresses")
    /\ Goto("routes")
    /\ \/ addresses' = collect_interface_addresses /\ enriched' = enriched \cup {"addresses"}
       \/ UNCHANGED <<addresses, enriched>>
    /\ UNCHANGED <<dirVars, ifaddrs, routeLines, default_routes>>

CollectRoutes ==
    /\ At(Network, "routes")
    /\ Goto("open")
    /\ \/ /\ default_routes' = collect_default_route_interfaces
          /\ enriched' = enriched \cup {"routes"}
       \/ UNCHANGED <<default_routes, enriched>>
    /\ UNCHANGED <<dirVars, ifaddrs, routeLines, addresses>>

NetworkOpenFails == At(Network, "open") /\ Failure /\ UNCHANGED <<dirVars, netVars>>

(* The addresses shown in a row, and whether ",truncated" follows them. *)
format_network_address_list(list) ==
    LET shown == Min({Len(list), kMaxAddressesPerFamily})
    IN  [hosts |-> SubSeq(list, 1, shown), marked |-> Len(list) > shown]

NetworkRow ==
    ReadRow(Network, [ipv4 |-> format_network_address_list(addresses[reading]["ipv4"]),
                      ipv6 |-> format_network_address_list(addresses[reading]["ipv6"]),
                      default_route |-> reading \in default_routes])

NetworkReturns ==
    NoMoreNames(Network) /\ Return(rows, Caption(rows)) /\ UNCHANGED <<dirVars, netVars>>

NetworkStep ==
    \/ NetworkUnavailable \/ NetworkExists \/ CollectAddresses \/ CollectRoutes
    \/ NetworkOpenFails \/ NetworkReturns
    \/ (DirectoryLoop(Network, kMaxNetworkRows) \/ NetworkRow) /\ UNCHANGED netVars

-----------------------------------------------------------------------------
(* The addresses of an interface, without repetitions. *)
HostsOf(n, f) ==
    {a.host : a \in {b \in Range(ifaddrs) : b.name = n /\ b.family = f /\ b.host # NoHost}}

(* In a row of an interface that was there throughout, the default route is told
   right, and so are the addresses: each once, none of another interface, all of
   them when there are no more than the limit. Only a source that failed as a
   whole leaves its part out, and then from every row. *)
RowsAreEnriched ==
    tool = Network /\ status = "ok" =>
      \A r \in Range(rows) : r.name \in stayed =>
        /\ r.extra.default_route <=>
             /\ "routes" \in enriched
             /\ [name |-> r.name, default |-> TRUE, up |-> TRUE] \in Range(routeLines)
        /\ \A f \in {"ipv4", "ipv6"} :
             LET shown == r.extra[f].hosts
                 hosts == HostsOf(r.name, f)
             IN  IF "addresses" \in enriched
                 THEN /\ IsInjective(shown) /\ Range(shown) \subseteq hosts
                      /\ IF Cardinality(hosts) <= kMaxAddressesPerFamily
                         THEN Range(shown) = hosts
                         ELSE Len(shown) = kMaxAddressesPerFamily
                 ELSE shown = <<>>
=============================================================================
