---------------------------- MODULE MCValidation ----------------------------
(***************************************************************************)
(* The eligibility check over every pair of a 4-bit address space and the  *)
(* hosts below: each initial state is one request, its answer one step.    *)
(***************************************************************************)
EXTENDS Validation

Routes == { <<>>,
            <<[default |-> FALSE, gateway |-> 5]>>,
            <<[default |-> TRUE, gateway |-> 0], [default |-> TRUE, gateway |-> 5]>>,
            <<[default |-> TRUE, gateway |-> BadText], [default |-> TRUE, gateway |-> 5]>> }

\* The second file holds 8/30 written with a host bit, 14/32 and a bad entry.
Files == { [loads |-> FALSE, entries |-> {<<8, 1>>}],
           [loads |-> TRUE, entries |-> {<<9, 2>>, <<14, 4>>, Malformed}] }

\* 0/2 loopback, 4/32 and 12/31 private, 10/31 link local (prefixes of 32 bits).
Devices == [loopback : {<<0, 2>>}, private : {{<<4, 4>>, <<12, 3>>}}, linkLocal : {<<10, 3>>},
            file : Files, routes : Routes, bridge : {NoAddress, 7}]
=============================================================================
