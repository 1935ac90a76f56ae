--------------------------- MODULE MCAuthSessions ---------------------------
(***************************************************************************)
(* Model checking of AuthSessions: two requests in flight over three       *)
(* sessions, two of which may be revoked or forgotten at any time.         *)
(***************************************************************************)
EXTENDS AuthSessions, TLC

\* Ids, requests and the chosen passwords are interchangeable; the seed is not.
MCSymmetry ==
    Permutations(Session) \cup Permutations(Request) \cup Permutations(Password \ {Seed})
=============================================================================
