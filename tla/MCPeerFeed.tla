----------------------------- MODULE MCPeerFeed -----------------------------
EXTENDS PeerFeed, TLC

CONSTANTS p1, p2

MCPeer == {p1, p2}
MCJump == {1, 3}
Symmetry == Permutations(MCPeer)
=============================================================================
