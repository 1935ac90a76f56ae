----------------------------- MODULE PeerStream -----------------------------
(***************************************************************************)
(* GET /api/v1/peers/stream: the SSE connections, the counter that caps    *)
(* them, and the connections to state.db that a request holds.             *)
(*                                                                         *)
(* One event loop runs every handler and every generator; a dependency     *)
(* runs on a worker thread.  The ORM session that SessionMiddleware opens  *)
(* for a request is closed when the response has ended, and from the       *)
(* moment a dependency reads session.user through it, it has a connection  *)
(* checked out of the engine's pool.  The pool makes whoever finds it      *)
(* empty wait: a worker thread, or the event loop and with it everybody.   *)
(***************************************************************************)
EXTENDS Naturals, FiniteSets

CONSTANTS
    Client,
    MaxClients, \* _MAX_SSE_CLIENTS
    PoolSize    \* connections the engine hands out: pool_size + max_overflow

ASSUME StreamAssumption ==
    /\ IsFiniteSet(Client)
    /\ MaxClients \in Nat \ {0} /\ PoolSize \in Nat \ {0}

VARIABLES
    at,     \* client -> where its request is
    count,  \* app.state.sse_client_count
    waiter  \* the client for whose request the event loop waits for a connection, or Nobody

vars == <<at, count, waiter>>

CONSTANT Nobody

ASSUME NobodyAssumption == Nobody \notin Client

\* none       no request
\* arriving   the middleware waits for a connection, and the event loop with it
\* arrived    past the middleware, its dependencies queued for a thread
\* ready      dependencies done, the handler queued on the event loop
\* accepted   under the cap: the response is made, its generator not yet entered
\* streaming  inside the generator, counted
\* abandoned  the client is gone, the suspended generator not yet closed
Place == {"none", "arriving", "arrived", "ready", "accepted", "streaming", "abandoned"}

In(place) == {c \in Client : at[c] = place}

\* The requests whose ORM session has a connection.
Holding == In("ready") \cup In("accepted") \cup In("streaming")

Free == Cardinality(Holding) < PoolSize

\* The event loop runs something other than a wait.
Running == waiter = Nobody

Init == at = [c \in Client |-> "none"] /\ count = 0 /\ waiter = Nobody

Move(c, place) == at' = [at EXCEPT ![c] = place]

-----------------------------------------------------------------------------

\* The middleware finds the session, commits, and lets its connection go.
Arrive(c) ==
    /\ Running /\ at[c] = "none" /\ Free
    /\ Move(c, "arrived") /\ UNCHANGED <<count, waiter>>

ArriveWaits(c) ==
    /\ Running /\ at[c] = "none" /\ ~Free
    /\ Move(c, "arriving") /\ waiter' = c /\ UNCHANGED count

\* session.user is loaded on a worker thread, event loop or no event loop.
Authenticate(c) ==
    /\ at[c] = "arrived" /\ Free
    /\ Move(c, "ready") /\ UNCHANGED <<count, waiter>>

\* No connection within pool_timeout: the dependency raises, the answer is a 500.
AuthenticateTimesOut(c) ==
    /\ at[c] = "arrived" /\ ~Free
    /\ Move(c, "none") /\ UNCHANGED <<count, waiter>>

\* stream_peers: the cap is compared with the counter, which the generator raises.
Accept(c) ==
    /\ Running /\ at[c] = "ready" /\ count < MaxClients
    /\ Move(c, "accepted") /\ UNCHANGED <<count, waiter>>

\* Mutant of Refuse: the request waits until a stream ends.
RefuseLater(c) ==
    /\ Running /\ at[c] = "ready" /\ count >= MaxClients
    /\ UNCHANGED vars

Refuse(c) ==
    /\ Running /\ at[c] = "ready" /\ count >= MaxClients
    /\ Move(c, "none") /\ UNCHANGED <<count, waiter>>

\* Any other endpoint: the handler answers and the session is closed.
AnswerOther(c) ==
    /\ Running /\ at[c] = "ready"
    /\ Move(c, "none") /\ UNCHANGED <<count, waiter>>

\* The response task enters _generate().
Enter(c) ==
    /\ Running /\ at[c] = "accepted"
    /\ Move(c, "streaming") /\ count' = count + 1
    /\ UNCHANGED waiter

\* One tick is a fresh ORM session, one query and one event; the connection it takes
\* is back before the yield.  The query blocks the event loop if the pool is empty.
EmitWaits(c) ==
    /\ Running /\ at[c] = "streaming" /\ ~Free
    /\ waiter' = c /\ UNCHANGED <<at, count>>

\* Mutant of WaitEnds: a stream that fails is not counted out.
WaitEndsUncounted ==
    /\ ~Running
    /\ Move(waiter, "none") /\ waiter' = Nobody
    /\ UNCHANGED count

\* pool_timeout: TimeoutError ends the request, a stream through its finally block.
\* Nothing gives a connection back while the event loop waits: every request that
\* holds one needs the event loop to let it go.
WaitEnds ==
    /\ ~Running
    /\ Move(waiter, "none") /\ waiter' = Nobody
    /\ count' = IF at[waiter] = "streaming" THEN count - 1 ELSE count

\* Mutant of LeaveEarly: the decrement belongs to the response, not to the generator.
LeaveEarlyCounted(c) ==
    /\ Running /\ at[c] = "accepted"
    /\ Move(c, "none") /\ count' = count - 1 /\ UNCHANGED waiter

\* The client leaves before the generator is entered: nothing was counted.
LeaveEarly(c) ==
    /\ Running /\ at[c] = "accepted"
    /\ Move(c, "none") /\ UNCHANGED <<count, waiter>>

\* The cancellation reaches the generator in its sleep: finally runs at once.
Leave(c) ==
    /\ Running /\ at[c] = "streaming"
    /\ Move(c, "none") /\ count' = count - 1
    /\ UNCHANGED waiter

\* It reaches the response's send instead: the generator is closed later.
Abandon(c) ==
    /\ Running /\ at[c] = "streaming"
    /\ Move(c, "abandoned") /\ UNCHANGED <<count, waiter>>

\* GeneratorExit, from the event loop's hook for abandoned generators.
Close(c) ==
    /\ Running /\ at[c] = "abandoned"
    /\ Move(c, "none") /\ count' = count - 1
    /\ UNCHANGED waiter

EventLoop(c) == Accept(c) \/ Refuse(c) \/ Enter(c) \/ Close(c)

Next ==
    \/ \E c \in Client :
         \/ Arrive(c) \/ ArriveWaits(c) \/ Authenticate(c) \/ AuthenticateTimesOut(c)
         \/ EventLoop(c) \/ AnswerOther(c)
         \/ EmitWaits(c) \/ LeaveEarly(c) \/ Leave(c) \/ Abandon(c)
    \/ WaitEnds

\* The event loop is a queue: what is ready runs after finitely many others.  A
\* wait for the pool ends, and a thread gets its turn.
Fairness ==
    /\ \A c \in Client : SF_vars(EventLoop(c))
    /\ \A c \in Client : WF_vars(Authenticate(c) \/ AuthenticateTimesOut(c))
    /\ WF_vars(WaitEnds)

Spec == Init /\ [][Next]_vars /\ Fairness

-----------------------------------------------------------------------------
(* Properties.                                                              *)

\* Every variable keeps its type.
TypeOK ==
    /\ at \in [Client -> Place] /\ count \in Nat
    /\ waiter \in Client \cup {Nobody}

\* The counter never leaks and never goes below the truth: it is the number of
\* generators that run or wait to be closed, whichever way each of them ends (the
\* client in a sleep or in a send, a pool timeout, before its first step).
CountIsExact == count = Cardinality(In("streaming") \cup In("abandoned"))

\* Every request is answered: neither the pool nor an event loop that waits for it
\* holds a client up for ever, although the connections the loop waits for may all
\* be held by requests that wait for the loop.
EveryRequestAnswered ==
    \A c \in Client :
        (at[c] \in {"arriving", "arrived", "ready"}) ~> (at[c] \in {"none", "streaming"})

\* peers.py, in _generate: a stream "does not hold a connection between yields
\* (prevents pool starvation at high concurrency)", so when the event loop waits for
\* the pool, the requests that are not yet streams hold all of it.
StreamsLeavePool ==
    waiter # Nobody => Cardinality(In("ready") \cup In("accepted")) >= PoolSize
=============================================================================
