---------------------------- MODULE AuthSessions ----------------------------
(***************************************************************************)
(* Sessions and the password of the one account: the users and sessions    *)
(* tables of state.db and the requests in flight.                          *)
(*                                                                         *)
(* A request takes four steps.  SessionMiddleware looks the cookie up and  *)
(* slides the session's expiry, on the event loop and without an await.    *)
(* The dependencies then run on a worker thread: current_user follows      *)
(* session.user, which reads the session's row again, expired by the       *)
(* middleware's commit, and then the user's, in two SELECTs that no        *)
(* transaction joins.  The handler runs on the event loop again, without   *)
(* an await, and works on the user object the dependency has loaded.       *)
(* Between the four any other request may be anywhere.                     *)
(***************************************************************************)
EXTENDS Integers

CONSTANTS
    Session,    \* session ids; one that no row and no request holds counts as new
    NoSession,  \* request.state.session is None
    Request,    \* bound: requests in flight at a time
    Password,   \* passwords, each standing for its argon2 hash
    Seed,       \* _DEFAULT_ADMIN_PASSWORD
    NoAccount,  \* the users table is empty
    Lifetime    \* settings.session_lifetime_days, in ticks of the clock

ASSUME AuthAssumption ==
    /\ NoSession \notin Session
    /\ Seed \in Password /\ NoAccount \notin Password
    /\ Lifetime \in Nat

VARIABLES
    up,         \* is xblp-api serving?
    hash,       \* users.password_hash of the account
    mustChange, \* users.must_change_password
    left,       \* table sessions: id -> expires_at - now, -1 once it has passed
    at,         \* request -> "none", "arrived", "found" or "ready" (see the actions)
    op,         \* request -> the endpoint
    sid,        \* request -> request.state.session
    loaded,     \* request -> must_change_password as the dependency has loaded it for me
    knows       \* history: session -> the password its owner has last proved or set

db    == <<hash, mustChange, left>>
calls == <<at, op, sid, loaded>>
vars  == <<up, db, calls, knows>>

\* login needs no session; gated is every endpoint that asks for
\* require_password_changed, all of rules, peers and status.
Op == {"login", "logout", "password", "me", "gated"}

Init ==
    /\ up = FALSE
    /\ hash = NoAccount /\ mustChange = TRUE
    /\ left = <<>> /\ knows = <<>>
    /\ at = [r \in Request |-> "none"] /\ op = [r \in Request |-> "me"]
    /\ sid = [r \in Request |-> NoSession] /\ loaded = [r \in Request |-> FALSE]

Rows == DOMAIN left

Live == {s \in Rows : left[s] >= 0}

Only(kept, f) == [s \in kept |-> f[s]]
Row(s, v, f) == [x \in DOMAIN f \cup {s} |-> IF x = s THEN v ELSE f[x]]

\* secrets.token_hex never gives an id twice.
Fresh == {s \in Session \ Rows : \A r \in Request : sid[r] # s}

Become(r, place, o, s, flag) ==
    /\ at' = [at EXCEPT ![r] = place] /\ op' = [op EXCEPT ![r] = o]
    /\ sid' = [sid EXCEPT ![r] = s] /\ loaded' = [loaded EXCEPT ![r] = flag]

\* The response is made; the request's ORM session is closed.
Respond(r) == Become(r, "none", "me", NoSession, FALSE)

-----------------------------------------------------------------------------
(* The middleware.                                                          *)

\* Mutant of Arrive: the lifetime is added to what is left of it.
ArriveAdds(r, o, s) ==
    /\ up /\ at[r] = "none"
    /\ IF s \in Live
       THEN left' = Row(s, left[s] + Lifetime, left) /\ Become(r, "arrived", o, s, FALSE)
       ELSE UNCHANGED left /\ Become(r, "arrived", o, NoSession, FALSE)
    /\ UNCHANGED <<up, hash, mustChange, knows>>

\* get_session and slide_session: a row whose time has passed is no session and is
\* left alone; a live one gets a full lifetime from now, committed.
Arrive(r, o, s) ==
    /\ up /\ at[r] = "none"
    /\ IF s \in Live
       THEN left' = Row(s, Lifetime, left) /\ Become(r, "arrived", o, s, FALSE)
       ELSE UNCHANGED left /\ Become(r, "arrived", o, NoSession, FALSE)
    /\ UNCHANGED <<up, hash, mustChange, knows>>

-----------------------------------------------------------------------------
(* The dependencies.                                                        *)

\* Mutant of RefreshSession: the session's row is not read again.
RefreshCached(r) ==
    /\ at[r] = "arrived" /\ op[r] # "login" /\ sid[r] # NoSession
    /\ Become(r, "found", op[r], sid[r], FALSE)
    /\ UNCHANGED <<up, db, knows>>

\* current_user has a session, and session.user finds its row.
RefreshSession(r) ==
    /\ at[r] = "arrived" /\ op[r] # "login" /\ sid[r] \in Rows
    /\ Become(r, "found", op[r], sid[r], FALSE)
    /\ UNCHANGED <<up, db, knows>>

\* session.user loads the user, whatever has become of the session's row by now;
\* require_password_changed reads the flag of a gated endpoint off it.
LoadUser(r) ==
    /\ at[r] = "found"
    /\ op[r] = "gated" => ~mustChange
    /\ Become(r, "ready", op[r], sid[r], op[r] = "me" /\ mustChange)
    /\ UNCHANGED <<up, db, knows>>

\* 401 without a session, ObjectDeletedError and a 500 if its row is gone when it is
\* read again, 403 before the forced password change.
Denied(r) ==
    /\ \/ at[r] = "arrived" /\ op[r] # "login" /\ sid[r] \notin Rows
       \/ at[r] = "found" /\ op[r] = "gated" /\ mustChange
    /\ Respond(r)
    /\ UNCHANGED <<up, db, knows>>

-----------------------------------------------------------------------------
(* The handlers.                                                            *)

\* The right password: a new session.
Login(r) ==
    /\ at[r] = "arrived" /\ op[r] = "login"
    /\ \E s \in Fresh : left' = Row(s, Lifetime, left) /\ knows' = Row(s, hash, knows)
    /\ Respond(r)
    /\ UNCHANGED <<up, hash, mustChange>>

\* revoke_session; a row that is gone already is no error.
Logout(r) ==
    /\ at[r] = "ready" /\ op[r] = "logout"
    /\ left' = Only(Rows \ {sid[r]}, left) /\ knows' = Only(Rows \ {sid[r]}, knows)
    /\ Respond(r)
    /\ UNCHANGED <<up, hash, mustChange>>

\* Mutant of ChangePassword: revoke_all_for_user is forgotten.
ChangeKeepsOthers(r, new) ==
    /\ at[r] = "ready" /\ op[r] = "password"
    /\ hash' = new /\ mustChange' = FALSE
    /\ UNCHANGED left
    /\ knows' = [s \in Rows |-> IF s = sid[r] THEN new ELSE knows[s]]
    /\ Respond(r)
    /\ UNCHANGED up

\* The old password fits the hash the dependency has loaded; that need not be the one in
\* the table any more, so it is no condition here.  Every session but the caller's is
\* revoked.
ChangePassword(r, new) ==
    /\ at[r] = "ready" /\ op[r] = "password"
    /\ hash' = new /\ mustChange' = FALSE
    /\ left' = Only(Rows \cap {sid[r]}, left)
    /\ knows' = [s \in Rows \cap {sid[r]} |-> new]
    /\ Respond(r)
    /\ UNCHANGED up

\* Everything that leaves these tables alone: me, a gated handler, a wrong password
\* (401 or 400), or a write lock the capture daemon holds too long (500).
Answer(r) ==
    /\ at[r] = "ready" \/ (at[r] = "arrived" /\ op[r] = "login")
    /\ Respond(r)
    /\ UNCHANGED <<up, db, knows>>

-----------------------------------------------------------------------------

\* _seed_admin: only an empty users table is given the default account.
Start ==
    /\ ~up /\ up' = TRUE
    /\ hash' = IF hash = NoAccount THEN Seed ELSE hash
    /\ UNCHANGED <<mustChange, left, calls, knows>>

\* The service stops or dies: requests in flight are lost, rows are not.
Stop ==
    /\ up /\ up' = FALSE
    /\ at' = [r \in Request |-> "none"] /\ op' = [r \in Request |-> "me"]
    /\ sid' = [r \in Request |-> NoSession] /\ loaded' = [r \in Request |-> FALSE]
    /\ UNCHANGED <<db, knows>>

\* Time passes; no request takes as long as a session lives.
Tick ==
    /\ \A r \in Request : at[r] # "none" /\ sid[r] \in Rows => left[sid[r]] > 0
    /\ left' = [s \in Rows |-> IF left[s] < 0 THEN -1 ELSE left[s] - 1]
    /\ UNCHANGED <<up, hash, mustChange, calls, knows>>

Next ==
    \/ Start \/ Stop \/ Tick
    \/ \E r \in Request, o \in Op, s \in Rows \cup {NoSession} : Arrive(r, o, s)
    \/ \E r \in Request : RefreshSession(r) \/ LoadUser(r) \/ Denied(r)
    \/ \E r \in Request : Login(r) \/ Logout(r) \/ Answer(r)
    \/ \E r \in Request, new \in Password : ChangePassword(r, new)

Spec == Init /\ [][Next]_vars

-----------------------------------------------------------------------------
(* Properties.                                                              *)

\* Every variable keeps its type; a request that is not under way holds nothing.
TypeOK ==
    /\ up \in BOOLEAN /\ hash \in Password \cup {NoAccount} /\ mustChange \in BOOLEAN
    /\ Rows \subseteq Session /\ left \in [Rows -> -1 .. Lifetime]
    /\ knows \in [Rows -> Password]
    /\ at \in [Request -> {"none", "arrived", "found", "ready"}]
    /\ op \in [Request -> Op] /\ sid \in [Request -> Session \cup {NoSession}]
    /\ loaded \in [Request -> BOOLEAN]

\* Whoever holds a session knows the password in force: a change of the password
\* ends every session that was opened with the old one, whatever logins, changes
\* and logouts are under way at that moment, and a restart changes nothing
\* (change_password and revoke_all_for_user in one commit, login reading the hash
\* and inserting the row without an await in between).
SessionsKnowPassword == \A s \in Rows : knows[s] = hash

Ready == {r \in Request : at[r] = "ready"}

\* What the request r has been granted, see AccessControl.
GrantOf(r) == <<r, sid[r], op[r] = "gated">>

Granted == {GrantOf(r) : r \in Ready}

\* Requests whose session's row has been found, and whose user is still to be loaded.
Found == {r \in Request : at[r] = "found"}

Proved == {<<r, sid[r]>> : r \in Found}

\* What a client may rely on, whatever the interleaving of the four steps: see
\* AccessControl.
Access == INSTANCE AccessControl WITH
    live    <- Live,
    locked  <- mustChange,
    proved  <- Proved,
    granted <- Granted

\* Requests are granted through sessions they have proved to be live only, nothing
\* behind the forced change before it, no session comes back and no restart brings the
\* default password back.
ImplementsAccess == Access!Spec
=============================================================================
