--------------------------- MODULE PeerFeed_proofs ---------------------------
(***************************************************************************)
(* Theorems about PeerFeed for every set of peers, every retention,        *)
(* threshold and clock setting.                                            *)
(***************************************************************************)
EXTENDS PeerFeed, WellFoundedInduction, TLAPS

USE FeedAssumption DEF FeedAssumption

-----------------------------------------------------------------------------
(* The newest time of a table that has one.                                 *)

\* Times are natural numbers up to a bound, so some time is the latest.
LEMMA LatestExists ==
    ASSUME NEW T \in SUBSET Time, T # {}
    PROVE  \E x \in T : \A y \in T : x >= y
<1> DEFINE Left == {MaxTime - t : t \in T}
<1>1. \A t \in T : t \in Int /\ MaxTime - t \in Nat
    <2> SUFFICES ASSUME NEW t \in T
                 PROVE  t \in Int /\ MaxTime - t \in Nat
        OBVIOUS
    <2>1. t \in 0 .. MaxTime
        BY DEF Time
    <2> QED
        BY <2>1
<1>2. Left \in SUBSET Nat /\ Left # {}
    BY <1>1
<1>3. PICK m \in Left : \A n \in Left : <<n, m>> \notin OpToRel(<, Nat)
    <2> HIDE DEF Left
    <2> QED
        BY <1>2, NatLessThanWellFounded, WFMin
<1>4. ASSUME NEW n \in Left
      PROVE  m <= n
    <2>1. n \in Nat /\ m \in Nat
        BY <1>2
    <2>2. ~(n < m)
        BY <1>3, <2>1 DEF OpToRel
    <2> QED
        BY <2>1, <2>2
<1>5. PICK x \in T : m = MaxTime - x
    OBVIOUS
<1>6. ASSUME NEW y \in T
      PROVE  x >= y
    <2>1. MaxTime - x <= MaxTime - y
        BY <1>4, <1>5
    <2> QED
        BY <1>1, <2>1
<1> QED
    BY <1>6

LEMMA NewestIs ==
    ASSUME TypeOK
    PROVE  /\ Newest = None => DOMAIN batches = {}
           /\ Newest # None => Newest \in DOMAIN batches
<1>1. CASE DOMAIN batches = {}
    BY <1>1 DEF Newest
<1>2. CASE DOMAIN batches # {}
    <2>1. \E x \in DOMAIN batches : \A y \in DOMAIN batches : x >= y
        BY <1>2, LatestExists DEF TypeOK
    <2>2. Newest \in DOMAIN batches
        BY <1>2, <2>1 DEF Newest, Max
    <2> QED
        BY <2>2 DEF TypeOK, Time, None
<1> QED
    BY <1>1, <1>2

-----------------------------------------------------------------------------
(* The inductive invariant.                                                 *)

\* No batch is stamped later than the clock stood when rows were last stored, so none
\* is from now: the clock has gone on since, or the daemon has waited since its start.
Stamped ==
    /\ \A t \in DOMAIN batches : stored # None /\ t <= stored + ahead
    /\ stored <= snapped
    /\ flushed.at <= Wall

\* The time a reader holds has its rows, or the latest flush has expired it.
ReaderSees ==
    reading => /\ newest \in Time
               /\ newest \in DOMAIN batches \/ newest < flushed.at - Retention

IInv == TypeOK /\ RetentionHolds /\ Stamped /\ ReaderSees

LEMMA InitInv == Init => IInv
<1> SUFFICES ASSUME Init
             PROVE  IInv
    OBVIOUS
<1>1. DOMAIN batches = {} /\ batches \in [DOMAIN batches -> (SUBSET Peer) \ {{}}]
    BY DEF Init
<1>2. flushed \in Answer /\ answer \in Answer /\ flushed.at = None
    BY DEF Init, Answer
<1>3. /\ mono \in Time /\ ahead \in Nat /\ Wall \in Time /\ snapped \in 0 .. mono
      /\ newest \in Time \cup {None} /\ stored \in (0 .. mono) \cup {None}
      /\ faults \in 0 .. MaxFaults
    BY DEF Init, Wall, Time, None
<1>4. up \in BOOLEAN /\ reading \in BOOLEAN /\ tracked \subseteq Peer
    BY Zenon DEF Init
<1>5. TypeOK
    BY <1>1, <1>2, <1>3, <1>4 DEF TypeOK
<1> QED
    BY <1>1, <1>2, <1>5 DEF Init, IInv, RetentionHolds, Stamped, ReaderSees, Wall, None

\* What a flush leaves in the table.
LEMMA FlushedIs ==
    ASSUME IInv, Flush
    PROVE  /\ batches' \in [DOMAIN batches' -> (SUBSET Peer) \ {{}}]
           /\ DOMAIN batches' \subseteq Time
           /\ \A t \in DOMAIN batches' :
                /\ t >= Wall - Retention
                /\ t \in DOMAIN batches \/ (t = Wall /\ tracked # {})
           /\ \A t \in DOMAIN batches : t >= Wall - Retention => t \in DOMAIN batches'
<1> DEFINE dom == Fresh(Wall) \cup (IF tracked = {} THEN {} ELSE {Wall})
<1>1. batches' = [t \in dom |-> IF t = Wall THEN tracked ELSE batches[t]]
    BY DEF Flush, Flushed
<1>2. /\ Wall \in Time /\ mono \in Nat /\ ahead \in Nat /\ snapped \in Nat
      /\ stored \in Nat \cup {None}
      /\ DOMAIN batches \subseteq Time /\ tracked \subseteq Peer
      /\ batches \in [DOMAIN batches -> (SUBSET Peer) \ {{}}]
    BY DEF IInv, TypeOK, Time
<1>3. \A t \in DOMAIN batches : t < Wall
    BY <1>2 DEF IInv, Stamped, Flush, Wall, None, Time
<1>4. Fresh(Wall) = {t \in DOMAIN batches : t >= Wall - Retention}
    BY DEF Fresh
<1>5. \A t \in dom : (IF t = Wall THEN tracked ELSE batches[t]) \in (SUBSET Peer) \ {{}}
    <2> SUFFICES ASSUME NEW t \in dom
                 PROVE  (IF t = Wall THEN tracked ELSE batches[t]) \in (SUBSET Peer) \ {{}}
        OBVIOUS
    <2>1. CASE t = Wall
        <3>1. t \notin Fresh(Wall)
            BY <1>2, <1>3, <1>4, <2>1 DEF Time
        <3> QED
            BY <1>2, <2>1, <3>1
    <2>2. CASE t # Wall
        BY <1>2, <1>4, <2>2
    <2> QED
        BY <2>1, <2>2
<1>6. Wall >= Wall - Retention
    BY <1>2 DEF Time
<1> QED
    BY <1>1, <1>2, <1>4, <1>5, <1>6

LEMMA FlushInv ==
    ASSUME IInv, Flush
    PROVE  IInv'
<1>1. /\ Wall \in Time /\ mono \in Nat /\ ahead \in Nat /\ snapped \in 0 .. mono
      /\ stored \in (0 .. mono) \cup {None} /\ tracked \subseteq Peer
      /\ flushed.at \in Time \cup {None} /\ flushed.at <= Wall
    <2>1. flushed \in Answer
        BY DEF IInv, TypeOK
    <2>2. flushed.at \in Time \cup {None}
        BY <2>1 DEF Answer
    <2>3. /\ Wall \in Time /\ ahead \in Nat /\ snapped \in 0 .. mono
          /\ stored \in (0 .. mono) \cup {None} /\ tracked \subseteq Peer /\ flushed.at <= Wall
        BY DEF IInv, TypeOK, Stamped
    <2>4. mono \in Nat
        BY DEF IInv, TypeOK, Time
    <2> QED
        BY <2>2, <2>3, <2>4
<1>2. /\ UNCHANGED <<mono, ahead, up, tracked, reader, faults>>
      /\ snapped' = mono /\ flushed' = [at |-> Wall, peers |-> tracked]
      /\ stored' = IF tracked = {} THEN stored ELSE mono
      /\ Wall' = Wall
    BY DEF Flush, Wall
<1>3. TypeOK'
    <2>1. flushed' \in Answer
        BY <1>1, <1>2 DEF Answer
    <2> QED
        BY <1>1, <1>2, <2>1, FlushedIs DEF IInv, TypeOK, reader, Time
<1>4. RetentionHolds'
    BY <1>2, FlushedIs DEF RetentionHolds
<1>5. Stamped'
    <2>1. \A t \in DOMAIN batches' : stored' # None /\ t <= stored' + ahead'
        <3> SUFFICES ASSUME NEW t \in DOMAIN batches'
                     PROVE  stored' # None /\ t <= stored' + ahead'
            OBVIOUS
        <3>1. CASE t \in DOMAIN batches
            <4>1. stored # None /\ t <= stored + ahead /\ t \in Int
                BY <3>1 DEF IInv, Stamped, TypeOK, Time
            <4> QED
                BY <1>1, <1>2, <4>1 DEF None
        <3>2. CASE t = Wall /\ tracked # {}
            BY <1>1, <1>2, <3>2 DEF None, Wall
        <3> QED
            BY <3>1, <3>2, FlushedIs
    <2> QED
        BY <1>1, <1>2, <2>1 DEF Stamped, None, Time
<1>6. ReaderSees'
    <2> SUFFICES ASSUME reading
                 PROVE  /\ newest \in Time
                        /\ newest \in DOMAIN batches' \/ newest < Wall - Retention
        BY <1>2 DEF ReaderSees, reader
    <2>1. newest \in Time /\ (newest \in DOMAIN batches \/ newest < flushed.at - Retention)
        BY DEF IInv, ReaderSees
    <2> QED
        BY <1>1, <2>1, FlushedIs DEF Time, None
<1> QED
    BY <1>3, <1>4, <1>5, <1>6 DEF IInv

\* A part of a time is a time, and a sum is not before the sum of earlier parts.
LEMMA PartOfTime == \A m, a \in Nat : m + a \in Time => m \in Time
BY DEF Time

LEMMA SumsGrow == \A m, n, a, b \in Nat : m >= n /\ a >= b => n + b <= m + a
OBVIOUS

\* A step that leaves the table and its readers alone: clocks that do not go back and a
\* daemon that notes a time up to now as its last snapshot.
LEMMA ClocksInv ==
    ASSUME IInv, UNCHANGED <<batches, reader, history>>,
           mono' \in Nat, mono' >= mono, ahead' \in Nat, ahead' >= ahead, Wall' \in Time,
           snapped' \in snapped .. mono', up' \in BOOLEAN, tracked' \subseteq Peer,
           faults' \in 0 .. MaxFaults
    PROVE  IInv'
<1>1. /\ mono \in Nat /\ ahead \in Nat /\ snapped \in 0 .. mono
      /\ stored \in (0 .. mono) \cup {None} /\ stored <= snapped
      /\ Wall \in Time /\ flushed.at <= Wall
      /\ \A t \in DOMAIN batches : t \in Nat /\ stored # None /\ t <= stored + ahead
    BY DEF IInv, TypeOK, Stamped, Time
<1>2. flushed.at \in Time \cup {None}
    <2>1. flushed \in Answer
        BY DEF IInv, TypeOK
    <2> QED
        BY <2>1 DEF Answer
<1>3. mono' \in Time
    <2>1. mono' + ahead' \in Time
        BY DEF Wall
    <2> QED
        BY <2>1, PartOfTime
<1>4. TypeOK'
    <2>1. stored' \in (0 .. mono') \cup {None} /\ snapped' \in 0 .. mono'
        BY <1>1 DEF history
    <2> QED
        BY <1>3, <2>1 DEF IInv, TypeOK, reader, history
<1>5. Stamped'
    <2>1. stored' = stored /\ flushed' = flushed /\ batches' = batches
        BY DEF history
    <2>2. \A t \in DOMAIN batches' : stored' # None /\ t <= stored' + ahead'
        BY <1>1, <2>1 DEF None
    <2>3. stored' <= snapped'
        BY <1>1, <2>1 DEF None
    <2>4. Wall <= Wall'
        <3>1. mono + ahead <= mono' + ahead'
            BY <1>1, SumsGrow
        <3> QED
            BY <3>1 DEF Wall
    <2>5. flushed'.at <= Wall'
        BY <1>1, <1>2, <2>1, <2>4 DEF None, Time
    <2> QED
        BY <2>2, <2>3, <2>5 DEF Stamped
<1>6. RetentionHolds' /\ ReaderSees'
    BY DEF IInv, RetentionHolds, ReaderSees, reader, history
<1> QED
    BY <1>4, <1>5, <1>6 DEF IInv

\* Time passing and the daemon's other steps.
LEMMA OtherInv ==
    ASSUME IInv,
           \/ Elapse \/ DaemonStart \/ DaemonEnds
           \/ \E d \in Jump : ClockStep(d)
           \/ \E now \in SUBSET Peer : Track(now)
    PROVE  IInv'
<1>1. /\ Wall \in Time /\ mono \in Nat /\ ahead \in Nat /\ snapped \in 0 .. mono
      /\ tracked \subseteq Peer /\ faults \in 0 .. MaxFaults
    BY DEF IInv, TypeOK, Time
<1>2. UNCHANGED <<batches, reader, history>> /\ up' \in BOOLEAN
    <2>1. UNCHANGED <<batches, reader, history>>
        BY DEF Elapse, DaemonStart, DaemonEnds, ClockStep, Track, daemon
    <2>2. up' \in {up, TRUE, FALSE}
        BY DEF Elapse, DaemonStart, DaemonEnds, ClockStep, Track, daemon
    <2>3. up' \in BOOLEAN
        BY <2>2 DEF IInv, TypeOK
    <2> QED
        BY <2>1, <2>3
<1>3. CASE Elapse
    <2>1. Wall < MaxTime /\ mono' = mono + 1 /\ UNCHANGED <<ahead, tracked, snapped, faults>>
        BY <1>3 DEF Elapse, daemon
    <2>2. Wall' = Wall + 1
        BY <1>1, <2>1 DEF Wall
    <2>3. Wall' \in Time
        BY <1>1, <2>1, <2>2 DEF Time
    <2> QED
        BY <1>1, <1>2, <2>1, <2>3, ClocksInv
<1>4. ASSUME NEW d \in Jump, ClockStep(d)
      PROVE  IInv'
    <2>1. /\ Wall + d <= MaxTime /\ ahead' = ahead + d /\ d \in Nat
          /\ UNCHANGED <<mono, tracked, snapped>>
        BY <1>4 DEF ClockStep, daemon
    <2>2. faults' \in 0 .. MaxFaults
        BY <1>1, <1>4 DEF ClockStep, Fault
    <2>3. Wall' = Wall + d
        BY <1>1, <2>1 DEF Wall
    <2>4. Wall' \in Time
        BY <1>1, <2>1, <2>3 DEF Time
    <2> QED
        BY <1>1, <1>2, <2>1, <2>2, <2>4, ClocksInv
<1>5. CASE DaemonStart
    <2>1. tracked' = {} /\ snapped' = mono /\ UNCHANGED <<mono, ahead, faults>>
        BY <1>5 DEF DaemonStart
    <2> QED
        BY <1>1, <1>2, <2>1, ClocksInv DEF Wall
<1>6. CASE DaemonEnds
    <2>1. tracked' = {} /\ UNCHANGED <<mono, ahead, snapped>>
        BY <1>6 DEF DaemonEnds
    <2>2. faults' \in 0 .. MaxFaults
        BY <1>1, <1>6 DEF DaemonEnds, Fault
    <2> QED
        BY <1>1, <1>2, <2>1, <2>2, ClocksInv DEF Wall
<1>7. ASSUME NEW now \in SUBSET Peer, Track(now)
      PROVE  IInv'
    <2>1. tracked' \subseteq Peer /\ UNCHANGED <<mono, ahead, snapped, faults>>
        BY <1>7 DEF Track
    <2> QED
        BY <1>1, <1>2, <2>1, ClocksInv DEF Wall
<1> QED
    BY <1>3, <1>4, <1>5, <1>6, <1>7

\* The two statements of a read.
LEMMA ReadInv ==
    ASSUME IInv, ReadNewest \/ ReadRows
    PROVE  IInv'
<1>1. UNCHANGED <<mono, ahead, daemon, history, faults>> /\ Wall' = Wall
    BY DEF ReadNewest, ReadRows, Wall
<1>2. RetentionHolds' /\ Stamped'
    BY <1>1 DEF IInv, RetentionHolds, Stamped, daemon, history
<1>3. CASE ReadNewest
    <2>1. /\ newest' = Newest
          /\ \/ Newest = None /\ answer' = [at |-> None, peers |-> {}] /\ UNCHANGED reading
             \/ Newest # None /\ reading' = TRUE /\ UNCHANGED answer
          /\ ~reading
        BY <1>3 DEF ReadNewest
    <2>2. Newest # None => Newest \in DOMAIN batches /\ Newest \in Time
        BY NewestIs DEF IInv, TypeOK
    <2>3. newest' \in Time \cup {None}
        BY <2>1, <2>2
    <2>4. answer' \in Answer
        <3>1. [at |-> None, peers |-> {}] \in Answer
            BY DEF Answer
        <3> QED
            BY <2>1, <3>1 DEF IInv, TypeOK
    <2>5. reading' \in BOOLEAN
        BY <2>1, Zenon DEF IInv, TypeOK
    <2>6. TypeOK'
        BY <1>1, <2>3, <2>4, <2>5 DEF IInv, TypeOK, daemon, history
    <2>7. ReaderSees'
        BY <1>1, <2>1, <2>2 DEF ReaderSees, daemon
    <2> QED
        BY <1>2, <2>6, <2>7 DEF IInv
<1>4. CASE ReadRows
    <2>1. answer' \in Answer /\ reading' = FALSE /\ newest' = None
        BY <1>4 DEF ReadRows, Answer, IInv, TypeOK
    <2>2. TypeOK'
        BY <1>1, <2>1 DEF IInv, TypeOK, daemon, history
    <2>3. ReaderSees'
        BY <2>1 DEF ReaderSees
    <2> QED
        BY <1>2, <2>2, <2>3 DEF IInv
<1> QED
    BY <1>3, <1>4

\* What holds of the table, its clocks and its readers in every state.
THEOREM InvariantHolds == Spec => []IInv
<1>1. IInv /\ [Next]_vars => IInv'
    <2> SUFFICES ASSUME IInv, [Next]_vars
                 PROVE  IInv'
        OBVIOUS
    <2>1. CASE UNCHANGED vars
        BY <2>1 DEF vars, daemon, reader, history, IInv, TypeOK, RetentionHolds, Stamped,
                    ReaderSees, Wall
    <2> QED
        BY <2>1, FlushInv, OtherInv, ReadInv DEF Next
<1> QED
    BY InitInv, <1>1, PTL DEF Spec

\* The variables keep their types.
THEOREM TypeCorrect == Spec => []TypeOK
BY InvariantHolds, PTL DEF IInv

\* No flush leaves anything older than the retention, the ones without rows included.
THEOREM RetentionKept == Spec => []RetentionHolds
BY InvariantHolds, PTL DEF IInv

\* "active" means that rows were stored within the threshold of true time, however far
\* and often the wall clock is set forward.
THEOREM ActiveRecent == Spec => []ActiveIsRecent
<1>1. IInv => ActiveIsRecent
    <2> SUFFICES ASSUME IInv, CaptureStatus = "active"
                 PROVE  stored # None /\ mono - stored <= Threshold
        BY DEF ActiveIsRecent
    <2>1. Newest # None /\ Wall - Newest <= Threshold
        BY DEF CaptureStatus
    <2>2. Newest \in DOMAIN batches
        BY <2>1, NewestIs DEF IInv
    <2>3. stored # None /\ Newest <= stored + ahead /\ Newest \in Int
        BY <2>2 DEF IInv, Stamped, TypeOK, Time
    <2> QED
        <3>1. mono \in Int /\ ahead \in Int /\ Threshold \in Int
            BY DEF IInv, TypeOK, Time
        <3>2. stored \in Int
            BY <2>3 DEF IInv, TypeOK, None
        <3> QED
            BY <2>1, <2>3, <3>1, <3>2 DEF Wall
<1> QED
    BY <1>1, InvariantHolds, PTL

\* An answer that names a time and lacks its rows is about a batch that the retention
\* has removed between the two statements, never about a recent one.
THEOREM TornExpired == Spec => TornOnlyWhenExpired
<1> DEFINE Torn ==
        \A t \in Time :
            answer'.at = t /\ answer' # answer /\ answer'.peers = {}
                => t < flushed.at - Retention
<1>1. IInv /\ [Next]_vars => [Torn]_vars
    <2> SUFFICES ASSUME IInv, Next, NEW t \in Time,
                        answer'.at = t, answer' # answer, answer'.peers = {}
                 PROVE  t < flushed.at - Retention
        OBVIOUS
    <2>1. CASE ReadRows
        <3>1. /\ reading /\ t = newest
              /\ (IF newest \in DOMAIN batches THEN batches[newest] ELSE {}) = {}
            BY <2>1 DEF ReadRows
        <3>2. newest \notin DOMAIN batches
            BY <3>1 DEF IInv, TypeOK
        <3> QED
            BY <3>1, <3>2 DEF IInv, ReaderSees
    <2>2. CASE ReadNewest
        <3>1. answer' = [at |-> None, peers |-> {}]
            BY <2>2 DEF ReadNewest
        <3> QED
            BY <3>1 DEF None, Time
    <2> QED
        BY <2>1, <2>2
        DEF Next, Elapse, ClockStep, DaemonStart, DaemonEnds, Track, Flush, reader
<1> QED
    BY <1>1, InvariantHolds, PTL DEF Spec, TornOnlyWhenExpired
=============================================================================
