------------------------------- MODULE MCBridge -------------------------------
(***************************************************************************)
(* Model checking of Bridge: a file of the operator that is in the         *)
(* bridge's way and one that is not.                                       *)
(***************************************************************************)
EXTENDS Bridge

MCFile == {"eth0.conf", "vpn.conf"}

MCConflicting == {"eth0.conf"}
=============================================================================
