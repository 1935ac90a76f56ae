---------------------------- MODULE MCBlocklist ----------------------------
(***************************************************************************)
(* Model checking of Blocklist over four addresses of two bits.  What the  *)
(* prefix arithmetic of Ipv4 gives is written out, for TLC would compute   *)
(* it again in every state, and compared with it once (MCAssumption).      *)
(***************************************************************************)
EXTENDS Blocklist, TLC

I == INSTANCE Ipv4 WITH Width <- 2

MCAddr == 0 .. 3
MCNet == {<<0, 0>>, <<0, 1>>, <<2, 1>>, <<0, 2>>, <<1, 2>>, <<2, 2>>, <<3, 2>>}
MCCover == [n \in MCNet |-> IF n[2] = 0 THEN {0, 1, 2, 3}
                            ELSE IF n[2] = 1 THEN {n[1], n[1] + 1} ELSE {n[1]}]

\* 0/32 and 1/31 (nested, one with a host bit set), and 2/31, which holds the gateway
\* 3 and is refused; a subscription may bring it, and with 1/31 it collapses to 0/0.
MCEntry == {<<0, 2>>, <<1, 1>>, <<2, 1>>}
MCNetworkOf == [e \in MCEntry |-> IF e = <<1, 1>> THEN <<0, 1>> ELSE e]

MCHost == [loopback |-> <<3, 2>>, private |-> {}, linkLocal |-> <<3, 2>>,
           file |-> [loads |-> FALSE, entries |-> {}],
           routes |-> <<[default |-> TRUE, gateway |-> 3]>>, bridge |-> I!NoAddress]
MCBlockable == {<<0, 2>>, <<1, 1>>}

\* A comment is copied and compared, nothing else.
CommentSymmetry == Permutations(Comment)

ASSUME MCAssumption ==
    /\ MCAddr = I!Address /\ MCNet = I!Networks4
    /\ \A n \in MCNet : MCCover[n] = I!Range4(n)
    /\ \A e \in MCEntry : MCNetworkOf[e] = I!Network(e)
    /\ MCBlockable = {e \in MCEntry : I!IsIpBlockable(e, MCHost)}
=============================================================================
