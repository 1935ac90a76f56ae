------------------------- MODULE MCBlocklistFaults -------------------------
(***************************************************************************)
(* Model checking of Blocklist with few entries and several faults: the    *)
(* null manager over a kernel set of an earlier start, a crash during the  *)
(* repair of a crash, interference between listing and applying.           *)
(***************************************************************************)
EXTENDS MCBlocklist

\* 0/32 inside 1/31: one broad rule, one narrow one, both accepted.
FaultEntry == MCBlockable
FaultNetworkOf == [e \in FaultEntry |-> IF e = <<1, 1>> THEN <<0, 1>> ELSE e]

ASSUME FaultAssumption == \A e \in FaultEntry : FaultNetworkOf[e] = MCNetworkOf[e]
=============================================================================
