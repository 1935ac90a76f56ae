---------------------------- MODULE MCPeerStream ----------------------------
(* Two streams are allowed and the pool has three connections: as in the code,   *)
(* where they are 10 and 15, the pool is larger than the cap and smaller than    *)
(* the requests that may arrive.                                                 *)
EXTENDS PeerStream

CONSTANTS c1, c2, c3, c4, c5

MCClient == {c1, c2, c3, c4, c5}
=============================================================================
