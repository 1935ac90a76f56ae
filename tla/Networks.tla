------------------------------ MODULE Networks ------------------------------
(***************************************************************************)
(* IPv4 networks as the blocklist code uses them: every stored rule is an  *)
(* (ip_address, cidr_prefix) pair, several pairs may denote one network,   *)
(* and the kernel set holds networks, never pairs.  Nothing here depends   *)
(* on how a network is written down; Ipv4.tla gives the prefix arithmetic. *)
(***************************************************************************)
EXTENDS FiniteSets

CONSTANTS
    Addr,       \* the IPv4 addresses
    Entry,      \* the (ip_address, cidr_prefix) pairs a rule row may hold
    Net,        \* the networks
    NetworkOf,  \* the network of a pair: ipaddress.IPv4Network(.., strict=False)
    Cover       \* the addresses of a network

\* Networks are prefixes: two of them nest or are disjoint, and one range of
\* addresses is one network.
NetworkAssumption ==
    /\ IsFiniteSet(Addr)
    /\ NetworkOf \in [Entry -> Net]
    /\ Cover \in [Net -> SUBSET Addr]
    /\ \A n \in Net : Cover[n] # {}
    /\ \A m, n \in Net : Cover[m] = Cover[n] => m = n
    /\ \A m, n \in Net : \/ Cover[m] \subseteq Cover[n]
                         \/ Cover[n] \subseteq Cover[m]
                         \/ Cover[m] \cap Cover[n] = {}

ASSUME NetworkAssumption

Overlap(m, n) == Cover[m] \cap Cover[n] # {}

\* The addresses a set of networks matches.
Covered(nets) == UNION {Cover[n] : n \in nets}

\* No two elements overlap: what `flags interval` demands of a set.
Disjoint(nets) == \A m, n \in nets : Overlap(m, n) => m = n

\* The addresses the rules ask to block, whatever networks they come from.
Wanted(entries) == Covered({NetworkOf[e] : e \in entries})

\* Mutant of Collapse: the networks of the rules as they are.
NotCollapsed(entries) == {NetworkOf[e] : e \in entries}

\* ipaddress.collapse_addresses: the largest networks inside the union.
Collapse(entries) ==
    LET inside == {n \in Net : Cover[n] \subseteq Wanted(entries)}
    IN  {n \in inside : \A m \in inside : Cover[n] \subseteq Cover[m] => m = n}
=============================================================================
