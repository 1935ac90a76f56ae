-------------------------------- MODULE WebUi --------------------------------
(***************************************************************************)
(* The web UI in one browser, on top of AuthSessions: the cached answer of *)
(* /api/auth/me, the page it leads to, and the three forms that change who *)
(* is signed in.  Every other client is a request of AuthSessions.         *)
(*                                                                         *)
(* TanStack Query and the router are modelled from how the UI uses them: a *)
(* failed refetch keeps the data, a component that mounts without data     *)
(* fetches, and invalidateQueries joins a fetch that runs already unless   *)
(* there is data.                                                          *)
(***************************************************************************)
EXTENDS AuthSessions

CONSTANTS
    NoRequest,  \* nothing is under way
    Elsewhere,  \* bound: the endpoints that other clients ask for
    MaxFaults   \* bound: lost connections, restarts of xblp-api, reloads of the page

ASSUME UiAssumption ==
    NoRequest \notin Request /\ Elsewhere \subseteq Op /\ MaxFaults \in Nat

VARIABLES
    jar,        \* the xblp_session cookie of the browser
    page,       \* "login", "change" (/change-password) or "home"
    data,       \* the cached identity: "none", "must" (change the password) or "free"
    query,      \* the fetch of it: "idle", "fetching", or "retrying" after one failure
    me,         \* the request that carries it
    form,       \* "idle", the form sent, or "settling" while onSuccess awaits the refetch
    post,       \* the request that carries the form
    next,       \* where onSuccess navigates to, "home" but for a login that must change
    signedOut,  \* history: the last form that succeeded was the logout
    faults      \* bounded by MaxFaults

ui   == <<jar, page, data, query, me, form, post, next, signedOut, faults>>
all  == <<vars, ui>>

Form == {"login", "logout", "password"}

UiInit ==
    /\ Init
    /\ jar = NoSession /\ page \in {"login", "home"} /\ data = "none"
    /\ query = "fetching" /\ me = NoRequest
    /\ form = "idle" /\ post = NoRequest /\ next = "home"
    /\ signedOut = FALSE /\ faults = 0

Unused == {r \in Request : at[r] = "none" /\ r \notin {me, post}}

\* Which of the unused places a request takes makes no difference.
Slot == CHOOSE r \in Unused : TRUE

Known(flag) == IF flag THEN "must" ELSE "free"
Place(d) == IF d = "must" THEN "change" ELSE "home"

\* isLoading of useAuth.
Loading == query # "idle" /\ data = "none"

Fault == faults < MaxFaults /\ faults' = faults + 1

\* Ids are given once, so a cookie never fits a later session.
OldCookieStaysOld == jar \in DOMAIN left' => jar \in Rows

-----------------------------------------------------------------------------
(* useAuth, RequireAuth and Login.                                          *)

\* Mutant of OnMount: retryOnMount is off.
OnMountIdle(p, d, q) == q

\* The query after page p is shown with the identity d: Login and RequireAuth each mount
\* a useAuth, which fetches if there is no data.
OnMount(p, d, q) ==
    IF d = "none" /\ q = "idle" /\ (p = "login") # (page = "login") THEN "fetching" ELSE q

\* The fetch has ended with this identity; a form that waits for it navigates now.
Fetched(d) ==
    /\ data' = d /\ me' = NoRequest
    /\ form' = IF form = "settling" THEN "idle" ELSE form
    /\ page' = IF form = "settling" THEN next ELSE page
    /\ query' = OnMount(page', d, "idle")
    /\ next' = "home" /\ UNCHANGED <<jar, post, signedOut>>

FetchMe ==
    /\ query # "idle" /\ me = NoRequest /\ Unused # {}
    /\ Arrive(Slot, "me", jar) /\ me' = Slot
    /\ UNCHANGED <<jar, page, data, query, form, post, next, signedOut, faults>>

Identified ==
    /\ me # NoRequest /\ at[me] = "ready" /\ Answer(me)
    /\ Fetched(Known(loaded[me])) /\ UNCHANGED faults

\* 401 is not retried; what was cached stays.
NotAuthenticated ==
    /\ me # NoRequest /\ sid[me] = NoSession /\ Denied(me)
    /\ Fetched(data) /\ UNCHANGED faults

\* A 500, a 502 or no answer: one more attempt.
FetchFails ==
    /\ query # "idle"
    /\ \/ me # NoRequest /\ sid[me] # NoSession /\ Denied(me) /\ UNCHANGED faults
       \/ me # NoRequest /\ at[me] = "none" /\ UNCHANGED <<vars, faults>>
       \/ Fault /\ UNCHANGED vars
    /\ IF query = "fetching"
       THEN query' = "retrying" /\ me' = NoRequest
            /\ UNCHANGED <<jar, page, data, form, post, next, signedOut>>
       ELSE Fetched(data)

\* The window gets the focus, or the network is back.
Refetch ==
    /\ query = "idle" /\ query' = "fetching"
    /\ UNCHANGED <<vars, jar, page, data, me, form, post, next, signedOut, faults>>

\* The effect of Login and the <Navigate> elements of RequireAuth.
Redirect ==
    /\ ~Loading
    /\ \/ page = "login" /\ data # "none" /\ page' = Place(data)
       \/ page # "login" /\ data = "none" /\ page' = "login"
       \/ page = "home" /\ data = "must" /\ page' = "change"
    /\ query' = OnMount(page', data, query)
    /\ UNCHANGED <<vars, jar, data, me, form, post, next, signedOut, faults>>

-----------------------------------------------------------------------------
(* The forms.                                                               *)

Submit(f) ==
    /\ form = "idle" /\ form' = f
    /\ \/ f = "login" /\ page = "login"
       \/ f = "password" /\ page = "change" /\ data # "none"
       \/ f = "logout" /\ page = "home" /\ data = "free"
    /\ UNCHANGED <<vars, jar, page, data, query, me, post, next, signedOut, faults>>

Send ==
    /\ form \in Form /\ post = NoRequest /\ Unused # {}
    /\ Arrive(Slot, form, jar) /\ post' = Slot
    /\ UNCHANGED <<jar, page, data, query, me, form, next, signedOut, faults>>

\* invalidateQueries: the fetch that runs is joined, or cancelled if there is data.
Invalidated(target) ==
    /\ form' = "settling" /\ post' = NoRequest /\ next' = target
    /\ IF Loading THEN UNCHANGED <<query, me>> ELSE query' = "fetching" /\ me' = NoRequest
    /\ UNCHANGED <<page, data, faults>>

SignedIn ==
    /\ form = "login" /\ post # NoRequest /\ Login(post)
    /\ jar' \in DOMAIN left' \ Rows /\ OldCookieStaysOld
    /\ signedOut' = FALSE
    /\ Invalidated(Place(Known(mustChange)))

PasswordChanged(new) ==
    /\ form = "password" /\ post # NoRequest /\ ChangePassword(post, new)
    /\ signedOut' = FALSE
    /\ Invalidated("home") /\ UNCHANGED jar

\* Mutant of Forgotten: removeQueries is left out, and the fetch that runs goes on.
ForgottenLater ==
    /\ form' = "idle" /\ post' = NoRequest
    /\ page' = "login" /\ data' = "none"
    /\ IF query = "idle" THEN query' = "fetching" ELSE UNCHANGED query
    /\ UNCHANGED <<me, next>>

\* onSettled of the logout: the query is removed with the fetch it may be in, and Login
\* mounts a new one.
Forgotten ==
    /\ form' = "idle" /\ post' = NoRequest
    /\ page' = "login" /\ data' = "none" /\ query' = "fetching" /\ me' = NoRequest
    /\ UNCHANGED next

SignedOut ==
    /\ form = "logout" /\ post # NoRequest /\ Logout(post)
    /\ jar' = NoSession /\ signedOut' = TRUE
    /\ Forgotten /\ UNCHANGED faults

\* The server says no, has gone, or is not heard: whatever it has done or does with the
\* request, the form shows an error, and a logout is settled all the same.
Refused ==
    /\ form \in Form
    /\ \/ post # NoRequest /\ (Answer(post) \/ Denied(post)) /\ UNCHANGED faults
       \/ post # NoRequest /\ at[post] = "none" /\ UNCHANGED <<vars, faults>>
       \/ Fault /\ UNCHANGED vars
    /\ IF form = "logout"
       THEN Forgotten
       ELSE form' = "idle" /\ post' = NoRequest /\ UNCHANGED <<page, data, query, me, next>>
    /\ UNCHANGED <<jar, signedOut>>

-----------------------------------------------------------------------------
(* The browser, the service and everybody else.                             *)

Reload ==
    /\ Fault
    /\ data' = "none" /\ query' = "fetching" /\ me' = NoRequest
    /\ form' = "idle" /\ post' = NoRequest /\ next' = "home"
    /\ UNCHANGED <<vars, jar, page, signedOut>>

\* Max-Age, which login sets and nothing renews.
CookieEnds ==
    /\ jar # NoSession /\ jar' = NoSession
    /\ UNCHANGED <<vars, page, data, query, me, form, post, next, signedOut, faults>>

\* A request of another client, or one that this browser no longer waits for.
Other(r) ==
    /\ r \notin {me, post}
    /\ \/ RefreshSession(r) \/ LoadUser(r) \/ Denied(r)
       \/ Login(r) \/ Logout(r) \/ Answer(r)
       \/ \E new \in Password : ChangePassword(r, new)
    /\ OldCookieStaysOld /\ UNCHANGED ui

OtherArrives ==
    /\ Unused # {}
    /\ \E o \in Elsewhere, s \in Rows \cup {NoSession} : Arrive(Slot, o, s)
    /\ UNCHANGED ui

Depend(r) == r \in {me, post} /\ (RefreshSession(r) \/ LoadUser(r)) /\ UNCHANGED ui

Service == (Start \/ Tick) /\ UNCHANGED ui

ServiceStops ==
    /\ Fault /\ Stop
    /\ UNCHANGED <<jar, page, data, query, me, form, post, next, signedOut>>

Answered ==
    \/ Identified \/ NotAuthenticated \/ FetchFails
    \/ SignedIn \/ SignedOut \/ Refused \/ \E new \in Password : PasswordChanged(new)

UiNext ==
    \/ Answered \/ Refetch \/ Redirect \/ Reload \/ CookieEnds \/ Service \/ ServiceStops
    \/ FetchMe \/ Send \/ OtherArrives
    \/ \E f \in Form : Submit(f)
    \/ \E r \in Request : Depend(r) \/ Other(r)

\* Requests are sent and answered, React renders, systemd restarts the service; what the
\* user does and other clients ask for is open.
UiFairness ==
    /\ WF_all(Start /\ UNCHANGED ui) /\ WF_all(Redirect)
    /\ SF_all(FetchMe)
    /\ \A r \in Request : WF_all(Other(r)) /\ WF_all(Depend(r))
    /\ WF_all(Identified \/ NotAuthenticated \/ FetchFails)

UiSpec == UiInit /\ [][UiNext]_all /\ UiFairness

-----------------------------------------------------------------------------
(* Properties.                                                              *)

\* After a logout that succeeded nobody is shown as signed in until somebody signs in,
\* though an answer given before it may still be on its way (Layout.tsx, onSettled).
LoggedOutStaysOut == signedOut => data = "none"

\* A login that succeeded gets in: the answer to a fetch sent before the cookie, failed
\* refetches and redirects in between do not leave the user at the form, while the
\* session lives (Login.tsx, RequireAuth.tsx, useAuth.ts).
LoginGetsIn ==
    form = "settling" /\ jar \in Live ~> (data # "none" /\ page # "login") \/ jar \notin Live
=============================================================================
