------------------------- MODULE AuthSessions_proofs -------------------------
(***************************************************************************)
(* Theorems about AuthSessions, and about WebUi on top of it, for every    *)
(* set of sessions, requests and passwords and every lifetime.             *)
(***************************************************************************)
EXTENDS WebUi, TLAPS

USE AuthAssumption DEF AuthAssumption

-----------------------------------------------------------------------------
(* The inductive invariant: with the types and SessionsKnowPassword, that   *)
(* only a service that is up has requests and then an account, and that a   *)
(* request under way holds a session that is live or gone, but not expired. *)

ServedByAccount ==
    /\ up => hash # NoAccount
    /\ ~up => \A r \in Request : at[r] = "none"

HeldIsLive == \A r \in Request : at[r] # "none" /\ sid[r] \in Rows => left[sid[r]] >= 0

IInv == TypeOK /\ SessionsKnowPassword /\ ServedByAccount /\ HeldIsLive

\* The steps that leave a request's place, and no more, changed.
RequestStep(r) ==
    \/ RefreshSession(r) \/ LoadUser(r) \/ Denied(r)
    \/ Login(r) \/ Logout(r) \/ Answer(r)

LEMMA InitInv == Init => IInv
<1> SUFFICES ASSUME Init
             PROVE  IInv
    OBVIOUS
<1>1. Rows = {} /\ left \in [Rows -> -1 .. Lifetime] /\ knows \in [Rows -> Password]
    BY DEF Init, Rows
<1>2. TypeOK
    BY <1>1 DEF Init, TypeOK, Op
<1> QED
    BY <1>1, <1>2 DEF Init, IInv, SessionsKnowPassword, ServedByAccount, HeldIsLive

LEMMA RowsOnly ==
    ASSUME NEW kept \in SUBSET Rows, TypeOK
    PROVE  /\ Only(kept, left) \in [kept -> -1 .. Lifetime]
           /\ DOMAIN Only(kept, left) = kept
           /\ \A s \in kept : Only(kept, left)[s] = left[s]
BY DEF Only, TypeOK

LEMMA RowSet ==
    ASSUME NEW s \in Session, NEW v \in -1 .. Lifetime, TypeOK, left' = Row(s, v, left)
    PROVE  /\ left' \in [Rows \cup {s} -> -1 .. Lifetime]
           /\ Rows' = Rows \cup {s}
           /\ left'[s] = v
           /\ \A x \in Rows \ {s} : left'[x] = left[x]
BY DEF Row, Rows, TypeOK

\* Where a request goes next changes no other request.
LEMMA BecomeType ==
    ASSUME TypeOK, NEW r \in Request, NEW place \in {"none", "arrived", "found", "ready"},
           NEW o \in Op, NEW s \in Session \cup {NoSession}, NEW flag \in BOOLEAN,
           Become(r, place, o, s, flag)
    PROVE  /\ at' \in [Request -> {"none", "arrived", "found", "ready"}]
           /\ op' \in [Request -> Op] /\ sid' \in [Request -> Session \cup {NoSession}]
           /\ loaded' \in [Request -> BOOLEAN]
           /\ at'[r] = place /\ op'[r] = o /\ sid'[r] = s
           /\ \A q \in Request \ {r} : at'[q] = at[q] /\ op'[q] = op[q] /\ sid'[q] = sid[q]
BY DEF Become, TypeOK

LEMMA RespondType ==
    ASSUME TypeOK, NEW r \in Request, Respond(r)
    PROVE  /\ at' \in [Request -> {"none", "arrived", "found", "ready"}]
           /\ op' \in [Request -> Op] /\ sid' \in [Request -> Session \cup {NoSession}]
           /\ loaded' \in [Request -> BOOLEAN]
           /\ at'[r] = "none"
           /\ \A q \in Request \ {r} : at'[q] = at[q] /\ op'[q] = op[q] /\ sid'[q] = sid[q]
BY BecomeType DEF Respond, Op

-----------------------------------------------------------------------------
(* One lemma per action that changes a table.                               *)

LEMMA ArriveInv ==
    ASSUME IInv, NEW r \in Request, NEW o \in Op, NEW s \in Rows \cup {NoSession},
           Arrive(r, o, s)
    PROVE  IInv'
<1>1. s \in Session \cup {NoSession} /\ up /\ UNCHANGED <<up, hash, mustChange, knows>>
    BY DEF Arrive, IInv, TypeOK
<1>2. CASE s \in Live
    <2>1. s \in Session /\ Lifetime \in -1 .. Lifetime /\ Rows \cup {s} = Rows
        BY <1>2 DEF Live, IInv, TypeOK
    <2>2. left' = Row(s, Lifetime, left) /\ Become(r, "arrived", o, s, FALSE)
        BY <1>2 DEF Arrive
    <2>3. /\ left' \in [Rows -> -1 .. Lifetime] /\ Rows' = Rows
          /\ left'[s] = Lifetime /\ \A x \in Rows \ {s} : left'[x] = left[x]
        <3>1. TypeOK
            BY DEF IInv
        <3>2. /\ left' \in [Rows \cup {s} -> -1 .. Lifetime] /\ Rows' = Rows \cup {s}
              /\ left'[s] = Lifetime /\ \A x \in Rows \ {s} : left'[x] = left[x]
            BY <2>1, <2>2, <3>1, RowSet
        <3> QED
            BY <2>1, <3>2
    <2>4. /\ at' \in [Request -> {"none", "arrived", "found", "ready"}]
          /\ op' \in [Request -> Op] /\ sid' \in [Request -> Session \cup {NoSession}]
          /\ loaded' \in [Request -> BOOLEAN]
          /\ sid'[r] = s
          /\ \A q \in Request \ {r} : at'[q] = at[q] /\ sid'[q] = sid[q]
        BY <1>1, <2>2, BecomeType DEF IInv
    <2>5. TypeOK'
        BY <1>1, <2>3, <2>4 DEF IInv, TypeOK
    <2>6. HeldIsLive'
        BY <2>1, <2>3, <2>4 DEF IInv, HeldIsLive
    <2> QED
        BY <1>1, <2>3, <2>5, <2>6 DEF IInv, SessionsKnowPassword, ServedByAccount
<1>3. CASE s \notin Live
    <2>1. /\ UNCHANGED left /\ Become(r, "arrived", o, NoSession, FALSE)
          /\ NoSession \in Session \cup {NoSession}
        BY <1>3 DEF Arrive
    <2>2. /\ at' \in [Request -> {"none", "arrived", "found", "ready"}]
          /\ op' \in [Request -> Op] /\ sid' \in [Request -> Session \cup {NoSession}]
          /\ loaded' \in [Request -> BOOLEAN]
          /\ sid'[r] = NoSession
          /\ \A q \in Request \ {r} : at'[q] = at[q] /\ sid'[q] = sid[q]
        BY <2>1, BecomeType DEF IInv
    <2>3. TypeOK'
        BY <1>1, <2>1, <2>2 DEF IInv, TypeOK, Rows
    <2>4. HeldIsLive'
        BY <2>1, <2>2 DEF IInv, HeldIsLive, Rows, TypeOK
    <2> QED
        BY <1>1, <2>1, <2>3, <2>4 DEF IInv, SessionsKnowPassword, ServedByAccount, Rows
<1> QED
    BY <1>2, <1>3

LEMMA LoginInv ==
    ASSUME IInv, NEW r \in Request, Login(r)
    PROVE  IInv'
<1>1. hash \in Password /\ up
    BY DEF IInv, TypeOK, ServedByAccount, Login
<1>2. PICK s \in Fresh : left' = Row(s, Lifetime, left) /\ knows' = Row(s, hash, knows)
    BY DEF Login
<1>3. s \in Session /\ s \notin Rows /\ Lifetime \in -1 .. Lifetime
    BY DEF Fresh
<1>4. /\ left' \in [Rows \cup {s} -> -1 .. Lifetime] /\ Rows' = Rows \cup {s}
      /\ \A x \in Rows : left'[x] = left[x]
    BY <1>2, <1>3, RowSet DEF IInv
<1>5. /\ knows' \in [Rows \cup {s} -> Password] /\ knows'[s] = hash
      /\ \A x \in Rows : knows'[x] = knows[x]
    BY <1>1, <1>2, <1>3 DEF Row, IInv, TypeOK
<1>6. /\ at' \in [Request -> {"none", "arrived", "found", "ready"}]
      /\ op' \in [Request -> Op] /\ sid' \in [Request -> Session \cup {NoSession}]
      /\ loaded' \in [Request -> BOOLEAN]
      /\ at'[r] = "none"
      /\ \A q \in Request \ {r} : at'[q] = at[q] /\ sid'[q] = sid[q]
    BY RespondType DEF Login, IInv
<1>7. TypeOK'
    BY <1>3, <1>4, <1>5, <1>6 DEF IInv, TypeOK, Login
<1>8. HeldIsLive'
    <2>1. \A q \in Request : sid[q] # s
        BY DEF Fresh
    <2> QED
        BY <1>4, <1>6, <2>1 DEF IInv, HeldIsLive
<1> QED
    BY <1>1, <1>4, <1>5, <1>7, <1>8
    DEF IInv, SessionsKnowPassword, ServedByAccount, Login

LEMMA LogoutInv ==
    ASSUME IInv, NEW r \in Request, Logout(r)
    PROVE  IInv'
<1> DEFINE kept == Rows \ {sid[r]}
<1>1. /\ left' \in [kept -> -1 .. Lifetime] /\ Rows' = kept
      /\ \A x \in kept : left'[x] = left[x]
    BY RowsOnly DEF Logout, IInv, Rows
<1>2. knows' \in [kept -> Password] /\ \A x \in kept : knows'[x] = knows[x]
    BY DEF Logout, Only, IInv, TypeOK
<1>3. /\ at' \in [Request -> {"none", "arrived", "found", "ready"}]
      /\ op' \in [Request -> Op] /\ sid' \in [Request -> Session \cup {NoSession}]
      /\ loaded' \in [Request -> BOOLEAN]
      /\ at'[r] = "none"
      /\ \A q \in Request \ {r} : at'[q] = at[q] /\ sid'[q] = sid[q]
    BY RespondType DEF Logout, IInv
<1>4. TypeOK'
    BY <1>1, <1>2, <1>3 DEF IInv, TypeOK, Logout
<1>5. HeldIsLive'
    BY <1>1, <1>3 DEF IInv, HeldIsLive
<1>6. up
    BY DEF IInv, ServedByAccount, Logout
<1> QED
    BY <1>1, <1>2, <1>4, <1>5, <1>6
    DEF IInv, SessionsKnowPassword, ServedByAccount, Logout

LEMMA ChangeInv ==
    ASSUME IInv, NEW r \in Request, NEW new \in Password, ChangePassword(r, new)
    PROVE  IInv'
<1> DEFINE kept == Rows \cap {sid[r]}
<1>1. /\ left' \in [kept -> -1 .. Lifetime] /\ Rows' = kept
      /\ \A x \in kept : left'[x] = left[x]
    BY RowsOnly DEF ChangePassword, IInv, Rows
<1>2. knows' \in [kept -> Password] /\ \A x \in kept : knows'[x] = new
    BY DEF ChangePassword
<1>3. /\ at' \in [Request -> {"none", "arrived", "found", "ready"}]
      /\ op' \in [Request -> Op] /\ sid' \in [Request -> Session \cup {NoSession}]
      /\ loaded' \in [Request -> BOOLEAN]
      /\ at'[r] = "none"
      /\ \A q \in Request \ {r} : at'[q] = at[q] /\ sid'[q] = sid[q]
    BY RespondType DEF ChangePassword, IInv
<1>4. TypeOK'
    BY <1>1, <1>2, <1>3 DEF IInv, TypeOK, ChangePassword
<1>5. HeldIsLive'
    BY <1>1, <1>3 DEF IInv, HeldIsLive
<1>6. up
    BY DEF IInv, ServedByAccount, ChangePassword
<1> QED
    BY <1>1, <1>2, <1>4, <1>5, <1>6
    DEF IInv, SessionsKnowPassword, ServedByAccount, ChangePassword

\* A request that goes on or ends, and leaves the tables alone.
LEMMA PassInv ==
    ASSUME IInv, NEW r \in Request,
           RefreshSession(r) \/ LoadUser(r) \/ Denied(r) \/ Answer(r)
    PROVE  IInv'
<1>1. up /\ UNCHANGED <<up, db, knows>>
    BY DEF RefreshSession, LoadUser, Denied, Answer, IInv, ServedByAccount
<1>2. PICK place \in {"none", "found", "ready"}, o \in Op, s \in Session \cup {NoSession},
           flag \in BOOLEAN :
         Become(r, place, o, s, flag) /\ (place # "none" => s = sid[r] /\ at[r] # "none")
    <2>1. op[r] \in Op /\ sid[r] \in Session \cup {NoSession}
          /\ (op[r] = "me" /\ mustChange) \in BOOLEAN
        BY DEF IInv, TypeOK
    <2>2. CASE RefreshSession(r)
        BY <2>1, <2>2 DEF RefreshSession
    <2>3. CASE LoadUser(r)
        BY <2>1, <2>3 DEF LoadUser
    <2>4. CASE Denied(r) \/ Answer(r)
        BY <2>4 DEF Denied, Answer, Respond, Op
    <2> QED
        BY <2>2, <2>3, <2>4
<1>3. /\ at' \in [Request -> {"none", "arrived", "found", "ready"}]
      /\ op' \in [Request -> Op] /\ sid' \in [Request -> Session \cup {NoSession}]
      /\ loaded' \in [Request -> BOOLEAN]
      /\ at'[r] = place /\ sid'[r] = s
      /\ \A q \in Request \ {r} : at'[q] = at[q] /\ sid'[q] = sid[q]
    BY <1>2, BecomeType DEF IInv
<1>4. TypeOK'
    BY <1>1, <1>3 DEF IInv, TypeOK, db, Rows
<1>5. HeldIsLive'
    BY <1>1, <1>2, <1>3 DEF IInv, HeldIsLive, Rows, db
<1> QED
    BY <1>1, <1>4, <1>5 DEF IInv, SessionsKnowPassword, ServedByAccount, Rows, db

\* The service comes and goes: an account is seeded only where no session can be.
LEMMA ServiceInv ==
    ASSUME IInv, Start \/ Stop
    PROVE  IInv'
<1>1. CASE Start
    <2>1. hash = NoAccount => Rows = {}
        BY DEF IInv, TypeOK, SessionsKnowPassword
    <2> QED
        BY <1>1, <2>1
        DEF Start, calls, IInv, TypeOK, SessionsKnowPassword, ServedByAccount, HeldIsLive, Rows
<1>2. CASE Stop
    BY <1>2 DEF Stop, db, IInv, TypeOK, Op, SessionsKnowPassword, ServedByAccount,
                HeldIsLive, Rows
<1> QED
    BY <1>1, <1>2

LEMMA TickInv ==
    ASSUME IInv, Tick
    PROVE  IInv'
<1>1. Rows' = Rows /\ \A s \in Rows : left'[s] = IF left[s] < 0 THEN -1 ELSE left[s] - 1
    BY DEF Tick, Rows
<1>2. left' \in [Rows -> -1 .. Lifetime]
    BY DEF Tick, IInv, TypeOK
<1>3. TypeOK'
    BY <1>1, <1>2 DEF Tick, calls, IInv, TypeOK
<1>4. HeldIsLive'
    BY <1>1, <1>2 DEF Tick, calls, IInv, TypeOK, HeldIsLive
<1> QED
    BY <1>1, <1>3, <1>4 DEF Tick, calls, IInv, SessionsKnowPassword, ServedByAccount

LEMMA NextInv == IInv /\ [Next]_vars => IInv'
<1> SUFFICES ASSUME IInv, [Next]_vars
             PROVE  IInv'
    OBVIOUS
<1>1. CASE UNCHANGED vars
    BY <1>1 DEF vars, db, calls, IInv, TypeOK, SessionsKnowPassword, ServedByAccount,
                HeldIsLive, Rows
<1>2. CASE Start \/ Stop \/ Tick
    BY <1>2, ServiceInv, TickInv
<1>3. CASE \E r \in Request, o \in Op, s \in Rows \cup {NoSession} : Arrive(r, o, s)
    BY <1>3, ArriveInv
<1>4. CASE \E r \in Request : RequestStep(r)
    BY <1>4, PassInv, LoginInv, LogoutInv DEF RequestStep
<1>5. CASE \E r \in Request, new \in Password : ChangePassword(r, new)
    BY <1>5, ChangeInv
<1> QED
    BY <1>1, <1>2, <1>3, <1>4, <1>5 DEF Next, RequestStep

\* What is true of every state of the accounts, sessions and requests.
THEOREM InvariantHolds == Spec => []IInv
BY InitInv, NextInv, PTL DEF Spec

\* The variables keep their types, for any number of sessions and requests.
THEOREM TypeCorrect == Spec => []TypeOK
BY InvariantHolds, PTL DEF IInv

\* A change of the password leaves no session to anybody who does not know the new one.
THEOREM KnowsPassword == Spec => []SessionsKnowPassword
BY InvariantHolds, PTL DEF IInv

-----------------------------------------------------------------------------
(* AuthSessions implements AccessControl: each step proves a session,       *)
(* grants a request, finishes one, or changes nothing of what a client may  *)
(* rely on.                                                                 *)

\* The abstract sessions depend on the rows alone.
LEMMA LiveStable ==
    ASSUME UNCHANGED left
    PROVE  Live' = Live
BY DEF Live, Rows

\* What was proved and granted stays, if requests do.
LEMMA CallsStable ==
    ASSUME UNCHANGED calls
    PROVE  Proved' = Proved /\ Granted' = Granted
BY DEF calls, Proved, Found, Granted, Ready, GrantOf

\* The step of one request, r, leaves alone what the others have proved ...
LEMMA ProvedStep ==
    ASSUME NEW r \in Request,
           \A q \in Request \ {r} : at'[q] = at[q] /\ sid'[q] = sid[q]
    PROVE  /\ r \notin Found /\ at'[r] # "found" => Proved' = Proved
           /\ r \notin Found /\ at'[r] = "found" => Proved' = Proved \cup {<<r, sid'[r]>>}
           /\ r \in Found /\ at'[r] # "found" => Proved' = Proved \ {<<r, sid[r]>>}
<1>1. Found' \ {r} = Found \ {r} /\ (r \in Found' <=> at'[r] = "found")
    BY DEF Found
<1>2. \A q \in Found \ {r} : sid'[q] = sid[q]
    BY DEF Found
<1>3. Proved' = {<<q, sid'[q]>> : q \in Found'} /\ Proved = {<<q, sid[q]>> : q \in Found}
    BY DEF Proved
<1> QED
    BY <1>1, <1>2, <1>3

\* ... and what they were granted.
LEMMA GrantedStep ==
    ASSUME NEW r \in Request,
           \A q \in Request \ {r} : at'[q] = at[q] /\ op'[q] = op[q] /\ sid'[q] = sid[q]
    PROVE  /\ r \notin Ready /\ at'[r] # "ready" => Granted' = Granted
           /\ r \notin Ready /\ at'[r] = "ready"
              => Granted' = Granted \cup {<<r, sid'[r], op'[r] = "gated">>}
           /\ r \in Ready /\ at'[r] # "ready" => Granted' = Granted \ {GrantOf(r)}
<1>1. Ready' \ {r} = Ready \ {r} /\ (r \in Ready' <=> at'[r] = "ready")
    BY DEF Ready
<1>2. \A q \in Ready \ {r} : GrantOf(q)' = GrantOf(q) /\ GrantOf(q) # GrantOf(r)
    BY DEF Ready, GrantOf
<1>3. Granted' = {GrantOf(q)' : q \in Ready'} /\ Granted = {GrantOf(q) : q \in Ready}
    BY DEF Granted
<1>4. GrantOf(r)' = <<r, sid'[r], op'[r] = "gated">>
    BY DEF GrantOf
<1> QED
    BY <1>1, <1>2, <1>3, <1>4

\* A request that ends takes what it was granted with it, and nothing else.
LEMMA GrantEnds ==
    ASSUME IInv, NEW r \in Request, Respond(r), at[r] = "ready"
    PROVE  /\ Granted' = Granted \ {GrantOf(r)} /\ GrantOf(r) \in Granted
           /\ Proved' = Proved
<1>1. /\ at'[r] = "none"
      /\ \A q \in Request \ {r} : at'[q] = at[q] /\ op'[q] = op[q] /\ sid'[q] = sid[q]
    BY RespondType DEF IInv
<1> QED
    BY <1>1, ProvedStep, GrantedStep DEF Ready, Found, Granted

\* A request that has proved nothing yet ends without a trace.
LEMMA NothingEnds ==
    ASSUME IInv, NEW r \in Request, Respond(r), at[r] = "arrived"
    PROVE  Granted' = Granted /\ Proved' = Proved
<1>1. /\ at'[r] = "none"
      /\ \A q \in Request \ {r} : at'[q] = at[q] /\ op'[q] = op[q] /\ sid'[q] = sid[q]
    BY RespondType DEF IInv
<1> QED
    BY <1>1, ProvedStep, GrantedStep DEF Ready, Found

LEMMA ArriveMaps ==
    ASSUME IInv, NEW r \in Request, NEW o \in Op, NEW s \in Rows \cup {NoSession},
           Arrive(r, o, s)
    PROVE  UNCHANGED Access!vars
<1>1. TypeOK /\ s \in Session \cup {NoSession} /\ NoSession \in Session \cup {NoSession}
    BY DEF IInv, TypeOK
<1>2. PICK held \in Session \cup {NoSession} : Become(r, "arrived", o, held, FALSE)
    BY <1>1 DEF Arrive
<1>3. /\ at'[r] = "arrived"
      /\ \A q \in Request \ {r} : at'[q] = at[q] /\ op'[q] = op[q] /\ sid'[q] = sid[q]
    BY <1>1, <1>2, BecomeType
<1>4. Granted' = Granted /\ Proved' = Proved
    BY <1>3, ProvedStep, GrantedStep DEF Ready, Found, Arrive
<1>5. Live' = Live
    <2>1. CASE s \in Live
        <3>1. s \in Session /\ Lifetime \in -1 .. Lifetime /\ s \in Rows /\ left[s] >= 0
            BY <1>1, <2>1 DEF Live, TypeOK
        <3>2. left' = Row(s, Lifetime, left)
            BY <2>1 DEF Arrive
        <3>3. /\ Rows' = Rows \cup {s} /\ left'[s] = Lifetime
              /\ \A x \in Rows \ {s} : left'[x] = left[x]
            BY <1>1, <3>1, <3>2, RowSet
        <3> QED
            BY <3>1, <3>3 DEF Live
    <2> QED
        BY <2>1, LiveStable DEF Arrive
<1> QED
    BY <1>4, <1>5 DEF Access!vars, Arrive

LEMMA RefreshMaps ==
    ASSUME IInv, NEW r \in Request, RefreshSession(r)
    PROVE  Access!Next
<1>1. Live' = Live /\ UNCHANGED mustChange
    BY LiveStable DEF RefreshSession, db
<1>2. sid[r] \in Live /\ sid[r] \in Session /\ op[r] \in Op /\ TypeOK
    BY DEF RefreshSession, Live, IInv, TypeOK, HeldIsLive
<1>3. /\ at'[r] = "found" /\ sid'[r] = sid[r]
      /\ \A q \in Request \ {r} : at'[q] = at[q] /\ op'[q] = op[q] /\ sid'[q] = sid[q]
    BY <1>2, BecomeType DEF RefreshSession
<1>4. Granted' = Granted /\ Proved' = Proved \cup {<<r, sid[r]>>}
    BY <1>3, ProvedStep, GrantedStep DEF Ready, Found, RefreshSession
<1>5. \A x \in Proved \cup Granted : x[1] # r
    BY DEF Proved, Found, Granted, Ready, GrantOf, RefreshSession
<1>6. Access!Prove(r, sid[r])
    BY <1>1, <1>2, <1>4, <1>5 DEF Access!Prove
<1> QED
    BY <1>2, <1>6 DEF Access!Next

LEMMA LoadMaps ==
    ASSUME IInv, NEW r \in Request, LoadUser(r)
    PROVE  Access!Next
<1> DEFINE p == <<r, sid[r]>>
           gated == op[r] = "gated"
<1>1. Live' = Live /\ UNCHANGED mustChange
    BY LiveStable DEF LoadUser, db
<1>2. op[r] \in Op /\ sid[r] \in Session \cup {NoSession} /\ TypeOK
      /\ (op[r] = "me" /\ mustChange) \in BOOLEAN
    BY DEF IInv, TypeOK
<1>3. /\ at'[r] = "ready" /\ op'[r] = op[r] /\ sid'[r] = sid[r]
      /\ \A q \in Request \ {r} : at'[q] = at[q] /\ op'[q] = op[q] /\ sid'[q] = sid[q]
    <2>1. Become(r, "ready", op[r], sid[r], op[r] = "me" /\ mustChange)
        BY DEF LoadUser
    <2> QED
        BY <1>2, <2>1, BecomeType
<1>4. Proved' = Proved \ {p} /\ p \in Proved
    BY <1>3, ProvedStep DEF Found, LoadUser, Proved
<1>5. Granted' = Granted \cup {<<p[1], p[2], gated>>} /\ gated \in BOOLEAN
    BY <1>3, GrantedStep DEF Ready, LoadUser
<1>6. gated => ~mustChange
    BY DEF LoadUser
<1>7. Access!Grant(p)
    BY <1>1, <1>4, <1>5, <1>6 DEF Access!Grant
<1> QED
    BY <1>4, <1>7 DEF Access!Next

LEMMA PassMaps ==
    ASSUME IInv, NEW r \in Request, Denied(r) \/ Answer(r)
    PROVE  Access!Next \/ UNCHANGED Access!vars
<1>1. Live' = Live /\ UNCHANGED mustChange
    BY LiveStable DEF Denied, Answer, db
<1>2. CASE Respond(r) /\ at[r] = "found"
    <2>1. /\ at'[r] = "none"
          /\ \A q \in Request \ {r} : at'[q] = at[q] /\ op'[q] = op[q] /\ sid'[q] = sid[q]
        BY <1>2, RespondType DEF IInv
    <2>2. /\ Proved' = Proved \ {<<r, sid[r]>>} /\ <<r, sid[r]>> \in Proved
          /\ Granted' = Granted
        BY <1>2, <2>1, ProvedStep, GrantedStep DEF Ready, Found, Proved
    <2>3. Access!Refuse(<<r, sid[r]>>)
        BY <1>1, <2>2 DEF Access!Refuse
    <2> QED
        BY <2>2, <2>3 DEF Access!Next
<1>3. CASE Respond(r) /\ at[r] = "ready"
    <2>1. /\ Granted' = Granted \ {GrantOf(r)} /\ GrantOf(r) \in Granted
          /\ Proved' = Proved
        BY <1>3, GrantEnds
    <2>2. Access!Finish(GrantOf(r))
        BY <1>1, <2>1 DEF Access!Finish
    <2> QED
        BY <2>1, <2>2 DEF Access!Next
<1>4. CASE Respond(r) /\ at[r] = "arrived"
    BY <1>1, <1>4, NothingEnds DEF Access!vars
<1> QED
    BY <1>2, <1>3, <1>4 DEF Denied, Answer

LEMMA LoginMaps ==
    ASSUME IInv, NEW r \in Request, Login(r)
    PROVE  Access!Next
<1>1. Granted' = Granted /\ Proved' = Proved
    BY NothingEnds DEF Login
<1>2. PICK s \in Fresh : left' = Row(s, Lifetime, left)
    BY DEF Login
<1>3. s \in Session /\ s \notin Rows /\ Lifetime \in -1 .. Lifetime /\ TypeOK
    BY DEF Fresh, IInv
<1>4. /\ Rows' = Rows \cup {s} /\ left'[s] = Lifetime
      /\ \A x \in Rows \ {s} : left'[x] = left[x]
    BY <1>2, <1>3, RowSet
<1>5. Live' = Live \cup {s} /\ s \notin Live
    BY <1>3, <1>4 DEF Live
<1>6. Access!SignIn
    BY <1>1, <1>3, <1>5 DEF Access!SignIn, Login
<1> QED
    BY <1>6 DEF Access!Next

LEMMA LogoutMaps ==
    ASSUME IInv, NEW r \in Request, Logout(r)
    PROVE  Access!Next
<1>1. /\ Granted' = Granted \ {GrantOf(r)} /\ GrantOf(r) \in Granted
      /\ Proved' = Proved
    BY GrantEnds DEF Logout
<1>2. Live' = Live \ {sid[r]}
    <2>1. left' = Only(Rows \ {sid[r]}, left) /\ TypeOK
        BY DEF Logout, IInv
    <2>2. /\ DOMAIN left' = Rows \ {sid[r]}
          /\ \A x \in Rows \ {sid[r]} : left'[x] = left[x]
        BY <2>1, RowsOnly
    <2> QED
        BY <2>2 DEF Live, Rows
<1>3. GrantOf(r)[2] = sid[r] /\ ~GrantOf(r)[3] /\ UNCHANGED mustChange
    BY DEF GrantOf, Logout
<1>4. Access!SignOut(GrantOf(r))
    BY <1>1, <1>2, <1>3 DEF Access!SignOut
<1> QED
    BY <1>1, <1>4 DEF Access!Next

LEMMA ChangeMaps ==
    ASSUME IInv, NEW r \in Request, NEW new \in Password, ChangePassword(r, new)
    PROVE  Access!Next
<1>1. /\ Granted' = Granted \ {GrantOf(r)} /\ GrantOf(r) \in Granted
      /\ Proved' = Proved
    BY GrantEnds DEF ChangePassword
<1>2. Live' = Live \cap {sid[r]}
    <2>1. left' = Only(Rows \cap {sid[r]}, left) /\ TypeOK
        BY DEF ChangePassword, IInv
    <2>2. /\ DOMAIN left' = Rows \cap {sid[r]}
          /\ \A x \in Rows \cap {sid[r]} : left'[x] = left[x]
        BY <2>1, RowsOnly
    <2> QED
        BY <2>2 DEF Live, Rows
<1>3. GrantOf(r)[2] = sid[r] /\ ~GrantOf(r)[3] /\ mustChange' = FALSE
    BY DEF GrantOf, ChangePassword
<1>4. Access!ChangePassword(GrantOf(r))
    BY <1>1, <1>2, <1>3 DEF Access!ChangePassword
<1> QED
    BY <1>1, <1>4 DEF Access!Next

LEMMA ServiceMaps ==
    ASSUME IInv, Start \/ Stop \/ Tick
    PROVE  Access!Next \/ UNCHANGED Access!vars
<1>1. CASE Start
    <2>1. Live' = Live /\ Proved' = Proved /\ Granted' = Granted /\ UNCHANGED mustChange
        BY <1>1, LiveStable, CallsStable DEF Start
    <2> QED
        BY <2>1 DEF Access!vars
<1>2. CASE Stop
    <2>1. Live' = Live /\ UNCHANGED mustChange
        BY <1>2, LiveStable DEF Stop, db
    <2>2. Proved' = {} /\ Granted' = {}
        BY <1>2 DEF Stop, Proved, Found, Granted, Ready
    <2> QED
        BY <2>1, <2>2 DEF Access!Restart, Access!Next
<1>3. CASE Tick
    <2>1. Proved' = Proved /\ Granted' = Granted /\ UNCHANGED mustChange
        BY <1>3, CallsStable DEF Tick
    <2>2. Live' \in SUBSET Live
        BY <1>3 DEF Tick, Live, Rows, IInv, TypeOK
    <2> QED
        BY <2>1, <2>2 DEF Access!Expire, Access!Next
<1> QED
    BY <1>1, <1>2, <1>3

\* Requests come through sessions they have proved to be live only, nothing comes behind
\* the forced password change before it, and no session that has ended comes back, in
\* whatever order the steps of middleware, dependencies and handlers run.
THEOREM AccessGranted == Spec => ImplementsAccess
<1>1. Init => Access!Init
    <2> SUFFICES ASSUME Init
                 PROVE  Access!Init
        OBVIOUS
    <2>1. Live = {}
        BY DEF Init, Live, Rows
    <2>2. Proved = {} /\ Granted = {}
        BY DEF Init, Proved, Found, Granted, Ready
    <2> QED
        BY <2>1, <2>2 DEF Init, Access!Init
<1>2. IInv /\ [Next]_vars => [Access!Next]_(Access!vars)
    <2> SUFFICES ASSUME IInv, [Next]_vars
                 PROVE  Access!Next \/ UNCHANGED Access!vars
        OBVIOUS
    <2>1. CASE UNCHANGED vars
        <3>1. Live' = Live /\ Proved' = Proved /\ Granted' = Granted /\ UNCHANGED mustChange
            BY <2>1, LiveStable, CallsStable DEF vars, db
        <3> QED
            BY <3>1 DEF Access!vars
    <2>2. CASE Start \/ Stop \/ Tick
        BY <2>2, ServiceMaps
    <2>3. CASE \E r \in Request, o \in Op, s \in Rows \cup {NoSession} : Arrive(r, o, s)
        BY <2>3, ArriveMaps
    <2>4. CASE \E r \in Request : RequestStep(r)
        BY <2>4, RefreshMaps, LoadMaps, PassMaps, LoginMaps, LogoutMaps DEF RequestStep
    <2>5. CASE \E r \in Request, new \in Password : ChangePassword(r, new)
        BY <2>5, ChangeMaps
    <2> QED
        BY <2>1, <2>2, <2>3, <2>4, <2>5 DEF Next, RequestStep
<1> QED
    BY <1>1, <1>2, InvariantHolds, PTL DEF Spec, ImplementsAccess, Access!Spec

-----------------------------------------------------------------------------
(* The web UI.  A browser asks nothing of the service that another client   *)
(* may not ask, so what is true of AuthSessions is true behind the UI.      *)

UiTyped == me \in Request \cup {NoRequest} /\ post \in Request \cup {NoRequest}

LEMMA SlotIsUnused ==
    ASSUME Unused # {}
    PROVE  Slot \in Request /\ at[Slot] = "none" /\ Slot # me /\ Slot # post
<1>1. Slot \in Unused
    BY DEF Slot
<1> QED
    BY <1>1 DEF Unused

\* A cookie that fits no row is taken as no cookie.
LEMMA CookieArrives ==
    ASSUME TypeOK, NEW r \in Request, NEW o \in Op, NEW c, Arrive(r, o, c)
    PROVE  \E s \in Rows \cup {NoSession} : Arrive(r, o, s)
<1>1. CASE c \in Rows
    BY <1>1
<1>2. CASE c \notin Rows
    <2>1. c \notin Live /\ NoSession \notin Live
        BY <1>2 DEF Live, TypeOK
    <2> QED
        BY <2>1 DEF Arrive
<1> QED
    BY <1>1, <1>2

LEMMA UiStepIsStep ==
    ASSUME TypeOK, UiTyped, [UiNext]_all
    PROVE  [Next]_vars
<1>1. ASSUME NEW r \in Request,
             \/ RequestStep(r)
             \/ \E new \in Password : ChangePassword(r, new)
      PROVE  Next
    BY <1>1 DEF Next, RequestStep
<1>2. ASSUME NEW r \in Request, NEW o \in Op, NEW c, Arrive(r, o, c)
      PROVE  Next
    BY <1>2, CookieArrives DEF Next
<1>3. CASE UNCHANGED all
    BY <1>3 DEF all
<1>4. CASE Refetch \/ Redirect \/ Reload \/ CookieEnds \/ \E f \in Form : Submit(f)
    BY <1>4 DEF Refetch, Redirect, Reload, CookieEnds, Submit
<1>5. CASE FetchMe \/ Send
    BY <1>2, <1>5, SlotIsUnused DEF FetchMe, Send, Form, Op
<1>6. CASE OtherArrives
    BY <1>2, <1>6, SlotIsUnused, UiAssumption DEF OtherArrives, UiAssumption
<1>7. CASE Identified \/ NotAuthenticated \/ FetchFails \/ Refused
    BY <1>1, <1>7 DEF Identified, NotAuthenticated, FetchFails, Refused, UiTyped, RequestStep
<1>8. CASE SignedIn \/ SignedOut \/ \E new \in Password : PasswordChanged(new)
    BY <1>1, <1>8 DEF SignedIn, SignedOut, PasswordChanged, UiTyped, RequestStep
<1>9. CASE \E r \in Request : Depend(r) \/ Other(r)
    BY <1>1, <1>9 DEF Depend, Other, RequestStep
<1>10. CASE Service \/ ServiceStops
    BY <1>10 DEF Service, ServiceStops, Next
<1> QED
    BY <1>3, <1>4, <1>5, <1>6, <1>7, <1>8, <1>9, <1>10 DEF UiNext, Answered

-----------------------------------------------------------------------------
(* Nobody is signed in after the logout: the fetches sent since then carry  *)
(* no cookie, those sent before it are forgotten.                           *)

ReadyHasSession == \A r \in Request : at[r] \in {"found", "ready"} => sid[r] # NoSession

NobodyReturns ==
    signedOut => jar = NoSession /\ data = "none" /\ (me # NoRequest => sid[me] = NoSession)

UiInv == UiTyped /\ ReadyHasSession /\ NobodyReturns

LEMMA UiInitInv == UiInit => IInv /\ UiInv
<1> SUFFICES ASSUME UiInit
             PROVE  IInv /\ UiInv
    OBVIOUS
<1>1. IInv
    BY InitInv DEF UiInit
<1>2. ReadyHasSession
    BY DEF UiInit, Init, ReadyHasSession
<1> QED
    BY <1>1, <1>2 DEF UiInit, UiInv, UiTyped, NobodyReturns

\* Only a request whose cookie fitted a row gets past the dependencies.
LEMMA ReadyStep ==
    ASSUME TypeOK, ReadyHasSession, [Next]_vars
    PROVE  ReadyHasSession'
<1>1. \A r \in Rows : r # NoSession
    BY DEF TypeOK
<1>2. ASSUME NEW r \in Request, NEW place, NEW o, NEW s, NEW flag, Become(r, place, o, s, flag),
             place \in {"found", "ready"} => s # NoSession
      PROVE  ReadyHasSession'
    BY <1>2 DEF Become, ReadyHasSession, TypeOK
<1>3. ASSUME NEW r \in Request, Respond(r)
      PROVE  ReadyHasSession'
    BY <1>2, <1>3 DEF Respond
<1>4. ASSUME NEW r \in Request, NEW o \in Op, NEW s \in Rows \cup {NoSession}, Arrive(r, o, s)
      PROVE  ReadyHasSession'
    BY <1>2, <1>4 DEF Arrive
<1>5. ASSUME NEW r \in Request, RefreshSession(r) \/ LoadUser(r)
      PROVE  ReadyHasSession'
    BY <1>1, <1>2, <1>5 DEF RefreshSession, LoadUser, ReadyHasSession
<1>6. CASE Start \/ Stop \/ Tick \/ UNCHANGED vars
    BY <1>6 DEF Start, Stop, Tick, vars, calls, ReadyHasSession
<1> QED
    BY <1>3, <1>4, <1>5, <1>6 DEF Next, Denied, Login, Logout, Answer, ChangePassword

\* A request holds one session until it is answered, whatever else happens.
LEMMA SidEnds ==
    ASSUME TypeOK, NEW q \in Request,
           \/ Start \/ Stop \/ Tick \/ UNCHANGED vars
           \/ \E r \in Request : RequestStep(r) \/ \E new \in Password : ChangePassword(r, new)
           \/ \E r \in Request \ {q} : \E o, c : Arrive(r, o, c)
    PROVE  sid'[q] \in {sid[q], NoSession}
<1>1. ASSUME NEW r \in Request, NEW place, NEW o, NEW s, NEW flag, Become(r, place, o, s, flag),
             r = q => s \in {sid[q], NoSession}
      PROVE  sid'[q] \in {sid[q], NoSession}
    BY <1>1 DEF Become, TypeOK
<1>2. ASSUME NEW r \in Request, Respond(r)
      PROVE  sid'[q] \in {sid[q], NoSession}
    BY <1>1, <1>2 DEF Respond
<1>3. ASSUME NEW r \in Request \ {q}, NEW o, NEW c, Arrive(r, o, c)
      PROVE  sid'[q] \in {sid[q], NoSession}
    BY <1>1, <1>3 DEF Arrive
<1>4. ASSUME NEW r \in Request, RefreshSession(r) \/ LoadUser(r)
      PROVE  sid'[q] \in {sid[q], NoSession}
    BY <1>1, <1>4 DEF RefreshSession, LoadUser
<1>5. CASE Start \/ Stop \/ Tick \/ UNCHANGED vars
    BY <1>5 DEF Start, Stop, Tick, vars, calls
<1> QED
    BY <1>2, <1>3, <1>4, <1>5
    DEF RequestStep, Denied, Login, Logout, Answer, ChangePassword

LEMMA UiStepInv ==
    ASSUME IInv, UiInv, [UiNext]_all
    PROVE  IInv' /\ UiInv'
<1>1. TypeOK /\ UiTyped /\ ReadyHasSession /\ NobodyReturns
    BY DEF IInv, UiInv
<1>2. [Next]_vars
    BY <1>1, UiStepIsStep
<1>3. IInv' /\ ReadyHasSession'
    BY <1>1, <1>2, NextInv, ReadyStep
<1>4. UiTyped'
    <2>1. Unused # {} => Slot \in Request
        BY SlotIsUnused
    <2> QED
        BY <1>1, <2>1
        DEF UiTyped, UiNext, Answered, all, ui, Refetch, Redirect, Reload, CookieEnds, Service,
            ServiceStops, FetchMe, Send, OtherArrives, Submit, Depend, Other, Identified,
            NotAuthenticated, FetchFails, Fetched, SignedIn, SignedOut, Refused,
            PasswordChanged, Invalidated, Forgotten
<1>5. NobodyReturns'
    <2>1. CASE SignedIn \/ SignedOut \/ \E new \in Password : PasswordChanged(new)
        BY <2>1 DEF SignedIn, SignedOut, PasswordChanged, Forgotten, NobodyReturns
    <2>2. CASE Identified
        BY <1>1, <2>2 DEF Identified, Fetched, NobodyReturns, ReadyHasSession, UiTyped
    <2>3. CASE NotAuthenticated \/ FetchFails \/ Reload
        BY <1>1, <2>3 DEF NotAuthenticated, FetchFails, Reload, Fetched, NobodyReturns
    <2>4. CASE FetchMe
        <3>1. ASSUME signedOut
              PROVE  sid'[Slot] = NoSession
            BY <1>1, <2>4, <3>1, SlotIsUnused
            DEF FetchMe, Arrive, Become, NobodyReturns, TypeOK, Live
        <3> QED
            BY <1>1, <2>4, <3>1 DEF FetchMe, NobodyReturns
    <2>5. ASSUME me' = me, UNCHANGED <<data, signedOut>>, jar' \in {jar, NoSession},
                 \/ Start \/ Stop \/ Tick \/ UNCHANGED vars
                 \/ \E r \in Request :
                        RequestStep(r) \/ \E new \in Password : ChangePassword(r, new)
                 \/ \E r \in Request \ {me} : \E o, c : Arrive(r, o, c)
          PROVE  NobodyReturns'
        <3>1. me # NoRequest => sid'[me] \in {sid[me], NoSession}
            BY <1>1, <2>5, SidEnds DEF UiTyped
        <3> QED
            BY <1>1, <2>5, <3>1 DEF NobodyReturns
    <2>6. CASE Refetch \/ Redirect \/ CookieEnds \/ (\E f \in Form : Submit(f)) \/ UNCHANGED all
        BY <2>5, <2>6 DEF Refetch, Redirect, CookieEnds, Submit, all, ui
    <2>7. CASE Service \/ ServiceStops
        BY <2>5, <2>7 DEF Service, ServiceStops, ui
    <2>8. CASE Send \/ OtherArrives
        BY <2>5, <2>8, SlotIsUnused DEF Send, OtherArrives, ui
    <2>9. CASE \E r \in Request : Depend(r) \/ Other(r)
        BY <2>5, <2>9 DEF Depend, Other, ui, RequestStep
    <2>10. CASE Refused
        <3>1. CASE form = "logout"
            BY <1>1, <2>10, <3>1 DEF Refused, Forgotten, NobodyReturns
        <3>2. CASE form # "logout"
            BY <1>1, <2>5, <2>10, <3>2 DEF Refused, RequestStep, UiTyped
        <3> QED
            BY <3>1, <3>2
    <2> QED
        BY <2>1, <2>2, <2>3, <2>4, <2>6, <2>7, <2>8, <2>9, <2>10 DEF UiNext, Answered
<1> QED
    BY <1>3, <1>4, <1>5 DEF UiInv

\* Behind the UI the service is the one that AuthSessions describes, with all that is
\* true of it.
THEOREM UiImplementsSpec == UiSpec => Spec
<1>1. UiInit => Init
    BY DEF UiInit
<1>2. IInv /\ UiInv /\ [UiNext]_all => [Next]_vars
    BY UiStepIsStep DEF IInv, UiInv
<1> QED
    BY <1>1, <1>2, UiInitInv, UiStepInv, PTL DEF UiSpec, Spec

\* After a logout that succeeded nobody is shown as signed in until somebody signs in,
\* whatever answers are still on their way.
THEOREM StaysOut == UiSpec => []LoggedOutStaysOut
<1>1. UiInv => LoggedOutStaysOut
    BY DEF UiInv, NobodyReturns, LoggedOutStaysOut
<1> QED
    BY <1>1, UiInitInv, UiStepInv, PTL DEF UiSpec
=============================================================================
