----------------------------- MODULE Validation -----------------------------
(***************************************************************************)
(* The eligibility check at work: a pair somebody asks to block, the host  *)
(* it meets, and the answer is_ip_blockable gives.                         *)
(***************************************************************************)
EXTENDS Ipv4

CONSTANT Device     \* the hosts that are asked

ASSUME DeviceAssumption == Device \subseteq Host

VARIABLES asked, host, answer

CheckInit == asked \in Pair \cup {Malformed} /\ host \in Device /\ answer = "none"

Check ==
    /\ answer = "none" /\ answer' = Verdict(asked, host)
    /\ UNCHANGED <<asked, host>>

CheckSpec == CheckInit /\ [][Check]_<<asked, host, answer>>

\* The addresses that must stay reachable on a host, one by one.
Protected ==
    (UNION {Range4(n) : n \in {host.loopback, host.linkLocal} \cup host.private
                                \cup Allowlist(host.file)})
    \cup {a \in Address : a = host.bridge}
    \cup {a \in Address : \E k \in Gateways(host.routes) :
                             /\ host.routes[k].gateway = a
                             /\ \A j \in 1 .. k - 1 : j \notin Gateways(host.routes)}

\* A pair is accepted exactly when no address of its network is protected: host bits
\* in the address, a network wider than a reserved range and end points on a range's
\* border make no difference (is_ip_blockable compares networks by their ends).
AcceptedMeansNoProtectedAddress ==
    answer \notin {"none", "invalid"} =>
        (answer = "ok" <=> Range4(Network(asked)) \cap Protected = {})
=============================================================================
