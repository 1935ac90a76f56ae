---------------------------- MODULE HostReports ----------------------------
(***************************************************************************)
(* What the scorer promises the capture daemon, without its windows: each  *)
(* tracked peer is reported at most once, by a tick, and is forgotten as a *)
(* whole.  PeerScorer implements it, CaptureDaemon is built on it.         *)
(***************************************************************************)
EXTENDS Naturals

CONSTANT Peer

VARIABLES
    tracked,  \* the peers the scorer has a state for
    reported, \* those with already_reported
    fresh     \* the peers the last tick returned

vars == <<tracked, reported, fresh>>

Init == tracked = {} /\ reported = {} /\ fresh = {}

Observe(p) == tracked' = tracked \cup {p} /\ UNCHANGED <<reported, fresh>>

Tick(new) ==
    /\ new \subseteq tracked \ reported
    /\ reported' = reported \cup new /\ fresh' = new
    /\ UNCHANGED tracked

Forget(gone) ==
    /\ gone \subseteq tracked
    /\ tracked' = tracked \ gone /\ reported' = reported \ gone
    /\ UNCHANGED fresh

Next ==
    \/ \E p \in Peer : Observe(p)
    \/ \E S \in SUBSET Peer : Tick(S) \/ Forget(S)

Spec == Init /\ [][Next]_vars
=============================================================================
