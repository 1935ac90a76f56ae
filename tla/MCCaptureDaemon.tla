-------------------------- MODULE MCCaptureDaemon --------------------------
EXTENDS CaptureDaemon

CONSTANTS p1, p2

MCPeer == {p1, p2}
=============================================================================
