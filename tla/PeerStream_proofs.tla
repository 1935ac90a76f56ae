-------------------------- MODULE PeerStream_proofs --------------------------
(***************************************************************************)
(* Theorems about PeerStream for any number of clients, any cap and any    *)
(* size of the pool.                                                       *)
(***************************************************************************)
EXTENDS PeerStream, FiniteSetTheorems, TLAPS

USE StreamAssumption, NobodyAssumption DEF StreamAssumption, NobodyAssumption

-----------------------------------------------------------------------------
(* The inductive invariant: besides the types and the count, that the event *)
(* loop waits for the connection of a request in the middleware or of a     *)
(* stream, and stays with it.                                               *)

Counted == In("streaming") \cup In("abandoned")

WaitsFor == waiter # Nobody => at[waiter] \in {"arriving", "streaming"}

IInv == TypeOK /\ CountIsExact /\ WaitsFor

\* The generators that count are those of finitely many clients.
LEMMA CountedFinite == IsFiniteSet(Counted) /\ Cardinality(Counted) \in Nat
<1>1. Counted \in SUBSET Client
    BY DEF Counted, In
<1> QED
    BY <1>1, FS_Subset, FS_CardinalityType

LEMMA MoveAt ==
    ASSUME TypeOK, NEW c \in Client, NEW place \in Place, Move(c, place)
    PROVE  /\ at' \in [Client -> Place] /\ at'[c] = place
           /\ \A d \in Client \ {c} : at'[d] = at[d]
BY DEF Move, TypeOK

\* A request that neither was nor becomes a generator leaves the count.
LEMMA Uncounted ==
    ASSUME TypeOK, CountIsExact, NEW c \in Client, NEW place \in Place, Move(c, place),
           (at[c] \in {"streaming", "abandoned"}) = (place \in {"streaming", "abandoned"}),
           count' = count
    PROVE  CountIsExact'
<1>1. at'[c] = place /\ \A d \in Client \ {c} : at'[d] = at[d]
    BY MoveAt
<1>2. Counted' = Counted
    BY <1>1 DEF Counted, In
<1> QED
    BY <1>2 DEF CountIsExact, Counted

\* A generator is counted when it is entered.
LEMMA CountedIn ==
    ASSUME TypeOK, CountIsExact, NEW c \in Client, Move(c, "streaming"),
           at[c] \notin {"streaming", "abandoned"}, count' = count + 1
    PROVE  CountIsExact' /\ count' \in Nat
<1>1. at'[c] = "streaming" /\ \A d \in Client \ {c} : at'[d] = at[d]
    BY MoveAt DEF Place
<1>2. Counted' = Counted \cup {c} /\ c \notin Counted
    BY <1>1 DEF Counted, In
<1>3. Cardinality(Counted') = Cardinality(Counted) + 1
    BY <1>2, CountedFinite, FS_AddElement
<1> QED
    BY <1>3, CountedFinite DEF CountIsExact, Counted

\* However it ends, it is counted out once.
LEMMA CountedOut ==
    ASSUME TypeOK, CountIsExact, NEW c \in Client, Move(c, "none"),
           at[c] \in {"streaming", "abandoned"}, count' = count - 1
    PROVE  CountIsExact' /\ count' \in Nat
<1>1. at'[c] = "none" /\ \A d \in Client \ {c} : at'[d] = at[d]
    BY MoveAt DEF Place
<1>2. Counted' = Counted \ {c} /\ c \in Counted
    BY <1>1 DEF Counted, In
<1>3. Cardinality(Counted') = Cardinality(Counted) - 1
    BY <1>2, CountedFinite, FS_RemoveElement
<1>4. Cardinality(Counted) # 0
    BY <1>2, CountedFinite, FS_EmptySet
<1> QED
    BY <1>3, <1>4, CountedFinite DEF CountIsExact, Counted

-----------------------------------------------------------------------------

LEMMA InitInv == Init => IInv
<1> SUFFICES ASSUME Init
             PROVE  IInv
    OBVIOUS
<1>1. Counted = {}
    BY DEF Init, Counted, In
<1>2. CountIsExact
    BY <1>1, FS_EmptySet DEF Init, CountIsExact, Counted
<1> QED
    BY <1>2 DEF Init, IInv, TypeOK, WaitsFor, Place

\* The steps of one request.
LEMMA ClientInv ==
    ASSUME IInv, NEW c \in Client,
           \/ Arrive(c) \/ ArriveWaits(c) \/ Authenticate(c) \/ AuthenticateTimesOut(c)
           \/ EventLoop(c) \/ AnswerOther(c)
           \/ EmitWaits(c) \/ LeaveEarly(c) \/ Leave(c) \/ Abandon(c)
    PROVE  IInv'
<1> TypeOK /\ CountIsExact /\ WaitsFor
    BY DEF IInv
<1>1. ASSUME NEW place \in Place, Move(c, place),
             (at[c] \in {"streaming", "abandoned"}) = (place \in {"streaming", "abandoned"}),
             UNCHANGED count,
             \/ waiter' = c /\ place = "arriving"
             \/ UNCHANGED waiter /\ (Running \/ at[c] = "arrived")
      PROVE  IInv'
    <2>1. /\ at' \in [Client -> Place] /\ at'[c] = place
          /\ \A d \in Client \ {c} : at'[d] = at[d]
        BY <1>1, MoveAt
    <2>2. CountIsExact'
        BY <1>1, Uncounted
    <2> QED
        BY <1>1, <2>1, <2>2 DEF IInv, TypeOK, WaitsFor, Running
<1>2. CASE Arrive(c) \/ AuthenticateTimesOut(c) \/ Refuse(c) \/ AnswerOther(c) \/ LeaveEarly(c)
    BY <1>1, <1>2
    DEF Arrive, AuthenticateTimesOut, Refuse, AnswerOther, LeaveEarly, Place
<1>3. CASE ArriveWaits(c) \/ Authenticate(c) \/ Accept(c) \/ Abandon(c)
    BY <1>1, <1>3 DEF ArriveWaits, Authenticate, Accept, Abandon, Place
<1>4. CASE Enter(c)
    <2>1. CountIsExact' /\ count' \in Nat
        BY <1>4, CountedIn DEF Enter
    <2>2. at' \in [Client -> Place]
        BY <1>4, MoveAt DEF Enter, Place
    <2> QED
        BY <1>4, <2>1, <2>2 DEF Enter, Running, IInv, TypeOK, WaitsFor
<1>5. CASE Leave(c) \/ Close(c)
    <2>1. Running /\ Move(c, "none") /\ count' = count - 1 /\ UNCHANGED waiter
          /\ at[c] \in {"streaming", "abandoned"}
        BY <1>5 DEF Leave, Close
    <2>2. CountIsExact' /\ count' \in Nat
        BY <2>1, CountedOut
    <2>3. at' \in [Client -> Place]
        BY <2>1, MoveAt DEF Place
    <2> QED
        BY <2>1, <2>2, <2>3 DEF Running, IInv, TypeOK, WaitsFor
<1>6. CASE EmitWaits(c)
    BY <1>6 DEF EmitWaits, IInv, TypeOK, CountIsExact, WaitsFor, In
<1> QED
    BY <1>2, <1>3, <1>4, <1>5, <1>6 DEF EventLoop

\* A wait for the pool that ends takes its request with it.
LEMMA WaitEndsInv ==
    ASSUME IInv, WaitEnds
    PROVE  IInv'
<1>1. /\ TypeOK /\ CountIsExact /\ waiter \in Client /\ Move(waiter, "none")
      /\ at[waiter] \in {"arriving", "streaming"} /\ waiter' = Nobody
    BY DEF IInv, TypeOK, WaitsFor, WaitEnds, Running
<1>2. at' \in [Client -> Place]
    BY <1>1, MoveAt DEF Place
<1>3. CASE at[waiter] = "streaming"
    <2>1. CountIsExact' /\ count' \in Nat
        BY <1>1, <1>3, CountedOut DEF WaitEnds
    <2> QED
        BY <1>1, <1>2, <2>1 DEF IInv, TypeOK, WaitsFor
<1>4. CASE at[waiter] = "arriving"
    <2>1. count' = count
        BY <1>4 DEF WaitEnds
    <2>2. CountIsExact'
        BY <1>1, <1>4, <2>1, Uncounted DEF Place
    <2> QED
        BY <1>1, <1>2, <2>1, <2>2 DEF IInv, TypeOK, WaitsFor
<1> QED
    BY <1>1, <1>3, <1>4

\* What holds of the requests, the counter and the event loop in every state.
THEOREM InvariantHolds == Spec => []IInv
<1>1. IInv /\ [Next]_vars => IInv'
    <2> SUFFICES ASSUME IInv, [Next]_vars
                 PROVE  IInv'
        OBVIOUS
    <2>1. CASE UNCHANGED vars
        BY <2>1 DEF vars, IInv, TypeOK, CountIsExact, WaitsFor, In
    <2> QED
        BY <2>1, ClientInv, WaitEndsInv DEF Next
<1> QED
    BY InitInv, <1>1, PTL DEF Spec

\* The variables keep their types, for any number of clients.
THEOREM TypeCorrect == Spec => []TypeOK
BY InvariantHolds, PTL DEF IInv

\* The counter of streams is exact, whichever way each of them ends and whatever the
\* event loop waits for meanwhile.
THEOREM CountExact == Spec => []CountIsExact
BY InvariantHolds, PTL DEF IInv

-----------------------------------------------------------------------------
(* The pool.  A wait of the event loop is a wait for itself: it begins when *)
(* the pool is empty, and until it ends nobody gives a connection back.     *)

\* No more connections are out than the pool has.
PoolBound == Cardinality(Holding) <= PoolSize

\* While the event loop waits for a connection, all of them are out.
WaitsInVain == waiter # Nobody => Cardinality(Holding) = PoolSize

LEMMA HoldingFinite == IsFiniteSet(Holding) /\ Cardinality(Holding) \in Nat
<1>1. Holding \in SUBSET Client
    BY DEF Holding, In
<1> QED
    BY <1>1, FS_Subset, FS_CardinalityType

\* A step of the event loop that lets a request go on or end takes no connection.
LEMMA PoolKept ==
    ASSUME PoolBound, Holding' \subseteq Holding, waiter' = Nobody
    PROVE  PoolBound' /\ WaitsInVain'
<1>1. Cardinality(Holding') <= Cardinality(Holding) /\ Cardinality(Holding') \in Nat
    BY HoldingFinite, FS_Subset, FS_CardinalityType
<1> QED
    BY <1>1, HoldingFinite DEF PoolBound, WaitsInVain

\* A step that leaves every connection where it is, and waits only for want of one.
LEMMA PoolSame ==
    ASSUME PoolBound, WaitsInVain, Holding' = Holding, UNCHANGED waiter \/ ~Free
    PROVE  PoolBound' /\ WaitsInVain'
BY HoldingFinite DEF PoolBound, WaitsInVain, Free

\* A worker thread takes one, which the pool has only if the event loop does not wait.
LEMMA PoolTaken ==
    ASSUME TypeOK, PoolBound, WaitsInVain, NEW c \in Client, Authenticate(c)
    PROVE  PoolBound' /\ WaitsInVain'
<1>1. at'[c] = "ready" /\ \A d \in Client \ {c} : at'[d] = at[d]
    BY MoveAt DEF Authenticate, Place
<1>2. Holding' = Holding \cup {c} /\ c \notin Holding
    BY <1>1 DEF Authenticate, Holding, In
<1>3. Cardinality(Holding') = Cardinality(Holding) + 1
    BY <1>2, HoldingFinite, FS_AddElement
<1>4. Cardinality(Holding) < PoolSize /\ UNCHANGED waiter
    BY DEF Authenticate, Free
<1>5. waiter = Nobody
    BY <1>4, HoldingFinite DEF WaitsInVain
<1> QED
    BY <1>3, <1>4, <1>5, HoldingFinite DEF PoolBound, WaitsInVain

LEMMA PoolStep ==
    ASSUME IInv, PoolBound, WaitsInVain, [Next]_vars
    PROVE  PoolBound' /\ WaitsInVain'
<1> TypeOK /\ WaitsFor
    BY DEF IInv
<1>1. ASSUME NEW c \in Client, NEW place \in Place, Move(c, place),
             place \in {"ready", "accepted", "streaming"} => c \in Holding
      PROVE  Holding' \subseteq Holding
    BY <1>1, MoveAt DEF Holding, In
<1>2. ASSUME NEW c \in Client, NEW place \in Place, Move(c, place),
             place \notin {"ready", "accepted", "streaming"}, c \notin Holding
      PROVE  Holding' = Holding
    BY <1>2, MoveAt DEF Holding, In
<1>3. CASE UNCHANGED vars
    BY <1>3, PoolSame DEF vars, Holding, In
<1>4. ASSUME NEW c \in Client, Arrive(c) \/ ArriveWaits(c) \/ AuthenticateTimesOut(c)
      PROVE  PoolBound' /\ WaitsInVain'
    <2>1. Holding' = Holding
        BY <1>2, <1>4 DEF Arrive, ArriveWaits, AuthenticateTimesOut, Place, Holding, In
    <2>2. UNCHANGED waiter \/ ~Free
        BY <1>4 DEF Arrive, ArriveWaits, AuthenticateTimesOut
    <2> QED
        BY <2>1, <2>2, PoolSame
<1>5. ASSUME NEW c \in Client, Authenticate(c)
      PROVE  PoolBound' /\ WaitsInVain'
    BY <1>5, PoolTaken
<1>6. ASSUME NEW c \in Client, EmitWaits(c)
      PROVE  PoolBound' /\ WaitsInVain'
    BY <1>6, PoolSame DEF EmitWaits, Holding, In
<1>7. ASSUME NEW c \in Client,
             \/ EventLoop(c) \/ AnswerOther(c) \/ LeaveEarly(c) \/ Leave(c) \/ Abandon(c)
      PROVE  PoolBound' /\ WaitsInVain'
    <2>1. PICK place \in Place :
              /\ Move(c, place) /\ waiter' = Nobody
              /\ place \in {"ready", "accepted", "streaming"} => c \in Holding
        BY <1>7
        DEF EventLoop, Accept, Refuse, Enter, Close, AnswerOther, LeaveEarly, Leave, Abandon,
            Running, Place, Holding, In
    <2> QED
        BY <2>1, <1>1, PoolKept
<1>8. CASE WaitEnds
    <2>1. waiter \in Client /\ Move(waiter, "none") /\ waiter' = Nobody
        BY <1>8 DEF WaitEnds, Running, TypeOK
    <2>2. Holding' \subseteq Holding
        BY <2>1, <1>1 DEF Place
    <2> QED
        BY <2>1, <2>2, PoolKept
<1> QED
    BY <1>3, <1>4, <1>5, <1>6, <1>7, <1>8 DEF Next

\* Requests never hold more connections than the pool has; and once the event loop has
\* begun to wait for one, all are out until it gives up: no such wait is ever served, for
\* each of the requests that hold one needs the event loop to let it go.
THEOREM LoopWaitsInVain == Spec => [](PoolBound /\ WaitsInVain)
<1>1. Init => PoolBound /\ WaitsInVain
    <2> SUFFICES ASSUME Init
                 PROVE  PoolBound /\ WaitsInVain
        OBVIOUS
    <2>1. Holding = {} /\ waiter = Nobody
        BY DEF Init, Holding, In
    <2> QED
        BY <2>1, FS_EmptySet DEF PoolBound, WaitsInVain
<1> QED
    BY <1>1, PoolStep, InvariantHolds, PTL DEF Spec
=============================================================================
