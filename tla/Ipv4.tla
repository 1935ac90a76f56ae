-------------------------------- MODULE Ipv4 --------------------------------
(***************************************************************************)
(* The prefix arithmetic of Python's ipaddress module for addresses of     *)
(* Width bits (32 in the program), and the eligibility check of            *)
(* xblp_common/validation.py written with it.                              *)
(***************************************************************************)
EXTENDS Integers, Sequences, FiniteSets

CONSTANT Width      \* bits of an address

ASSUME WidthAssumption == Width \in Nat \ {0}

Pow2[n \in Nat] == IF n = 0 THEN 1 ELSE 2 * Pow2[n - 1]

Address == 0 .. Pow2[Width] - 1

\* An (ip_address, cidr_prefix) pair; a network is a pair without host bits.
Pair == Address \X (0 .. Width)
Malformed == <<>>   \* a text that is not an IPv4 address and prefix

BlockSize(prefix) == Pow2[Width - prefix]

Network(pair) == <<pair[1] - (pair[1] % BlockSize(pair[2])), pair[2]>>

Networks4 == {Network(p) : p \in Pair}

First(net) == net[1]
Last(net) == net[1] + BlockSize(net[2]) - 1
Range4(net) == First(net) .. Last(net)

\* Mutant of Overlaps: an end point of the first network in the second.
OverlapsOneWay(a, b) == First(a) \in Range4(b) \/ Last(a) \in Range4(b)

\* IPv4Network.overlaps compares end points, never address by address.
Overlaps(a, b) == \/ First(a) \in Range4(b) \/ Last(a) \in Range4(b)
                  \/ First(b) \in Range4(a) \/ Last(b) \in Range4(a)

(***************************************************************************)
(* What a host can tell about itself: the reserved ranges, the allowlist   *)
(* file, the lines of /proc/net/route and the address of br0.              *)
(***************************************************************************)
NoAddress == -1     \* not detected: the check that needs it is skipped
BadText == -2       \* a gateway column that is no hexadecimal number

Route == [default : BOOLEAN, gateway : Address \cup {BadText}]

Host == [loopback : Networks4, private : SUBSET Networks4, linkLocal : Networks4,
         file : [loads : BOOLEAN, entries : SUBSET (Pair \cup {Malformed})],
         routes : Seq(Route), bridge : Address \cup {NoAddress}]

\* The least of a set of positions.
Earliest(ks) == CHOOSE k \in ks : \A j \in ks : k <= j

\* get_default_gateway: the first default route that has a gateway; a column
\* that does not parse ends the search.
Gateways(routes) == {k \in DOMAIN routes : routes[k].default /\ routes[k].gateway # 0}

DefaultGateway(routes) ==
    IF Gateways(routes) = {} THEN NoAddress
    ELSE LET found == routes[Earliest(Gateways(routes))].gateway
         IN  IF found = BadText THEN NoAddress ELSE found

\* load_xbl_allowlist and the loop over it: no file, or one that does not
\* load, is an empty list; an entry that does not parse is passed over.
Allowlist(file) ==
    IF file.loads THEN {Network(e) : e \in file.entries \ {Malformed}} ELSE {}

(***************************************************************************)
(* is_ip_blockable: the first refusal that applies, "ok" if none.          *)
(***************************************************************************)
Holds(net, address) == address # NoAddress /\ address \in Range4(net)

Refuses(reason, net, h) ==
    \/ reason = "loopback"   /\ Overlaps(net, h.loopback)
    \/ reason = "private"    /\ \E n \in h.private : Overlaps(net, n)
    \/ reason = "link-local" /\ Overlaps(net, h.linkLocal)
    \/ reason = "xbox-live"  /\ \E n \in Allowlist(h.file) : Overlaps(net, n)
    \/ reason = "gateway"    /\ Holds(net, DefaultGateway(h.routes))
    \/ reason = "bridge"     /\ Holds(net, h.bridge)

Reasons == <<"loopback", "private", "link-local", "xbox-live", "gateway", "bridge">>

Verdict(p, h) ==
    IF p = Malformed THEN "invalid"
    ELSE LET applies == {k \in DOMAIN Reasons : Refuses(Reasons[k], Network(p), h)}
         IN  IF applies = {} THEN "ok" ELSE Reasons[Earliest(applies)]

IsIpBlockable(p, h) == Verdict(p, h) = "ok"
=============================================================================
