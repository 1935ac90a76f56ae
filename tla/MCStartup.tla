------------------------------ MODULE MCStartup ------------------------------
(***************************************************************************)
(* Model checking of Startup: three tables, the second and the third with  *)
(* an index, and faults anywhere in two start-ups.                         *)
(***************************************************************************)
EXTENDS Startup

MCSchema == <<"rules", "users", "ix_users", "sessions", "ix_sessions">>

MCOwner == [rules |-> "rules", users |-> "users", ix_users |-> "users",
            sessions |-> "sessions", ix_sessions |-> "sessions"]
=============================================================================
