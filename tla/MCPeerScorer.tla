---------------------------- MODULE MCPeerScorer ----------------------------
(* One peer: the calls treat every peer alike and none reads another's state. *)
EXTENDS PeerScorer

CONSTANT p1

MCPeer == {p1}
=============================================================================
