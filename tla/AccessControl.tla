---------------------------- MODULE AccessControl ----------------------------
(***************************************************************************)
(* What signing in promises, without rows, cookies, clocks or processes.   *)
(* A request proves its session while that session is live, and is granted *)
(* at a later instant: for anything behind the forced password change,     *)
(* only once that change has been made.  A session that ends between the   *)
(* two does not stop the request; it stops every request after it.  A      *)
(* session that has ended stays ended; a new password ends every session   *)
(* but the one it came through.                                            *)
(***************************************************************************)
CONSTANTS Session, Request

VARIABLES
    live,       \* sessions a request may come through
    locked,     \* the first password has not been changed yet
    proved,     \* requests that have proved a live session: <<request, its session>>
    granted     \* requests let through: <<request, its session, behind the gate?>>

vars == <<live, locked, proved, granted>>

Init == live = {} /\ locked = TRUE /\ proved = {} /\ granted = {}

SignIn ==
    /\ \E s \in Session \ live : live' = live \cup {s}
    /\ UNCHANGED <<locked, proved, granted>>

Prove(r, s) ==
    /\ s \in live
    /\ \A x \in proved \cup granted : x[1] # r
    /\ proved' = proved \cup {<<r, s>>}
    /\ UNCHANGED <<live, locked, granted>>

Grant(p) ==
    /\ proved' = proved \ {p}
    /\ \E gated \in BOOLEAN :
         /\ gated => ~locked
         /\ granted' = granted \cup {<<p[1], p[2], gated>>}
    /\ UNCHANGED <<live, locked>>

\* A request that has proved its session is refused.
Refuse(p) ==
    /\ proved' = proved \ {p}
    /\ UNCHANGED <<live, locked, granted>>

\* A granted request ends, with an effect elsewhere or with none.
Finish(g) ==
    /\ granted' = granted \ {g}
    /\ UNCHANGED <<live, locked, proved>>

SignOut(g) ==
    /\ ~g[3] /\ granted' = granted \ {g}
    /\ live' = live \ {g[2]}
    /\ UNCHANGED <<locked, proved>>

ChangePassword(g) ==
    /\ ~g[3] /\ granted' = granted \ {g}
    /\ live' = live \cap {g[2]}
    /\ locked' = FALSE
    /\ UNCHANGED proved

Expire ==
    /\ live' \in SUBSET live
    /\ UNCHANGED <<locked, proved, granted>>

\* The service stops: no request survives it, every session does.
Restart == proved' = {} /\ granted' = {} /\ UNCHANGED <<live, locked>>

Next ==
    \/ SignIn \/ Expire \/ Restart
    \/ \E r \in Request, s \in Session : Prove(r, s)
    \/ \E p \in proved : Grant(p) \/ Refuse(p)
    \/ \E g \in granted : Finish(g) \/ SignOut(g) \/ ChangePassword(g)

Spec == Init /\ [][Next]_vars
=============================================================================
