------------------------- MODULE PeerScorer_proofs -------------------------
(***************************************************************************)
(* Theorems about PeerScorer for every profile, every set of peers and     *)
(* every order and timing of the calls.                                    *)
(***************************************************************************)
EXTENDS PeerScorer, FiniteSetTheorems, SequenceTheorems, TLAPS

USE ScorerAssumption DEF ScorerAssumption

-----------------------------------------------------------------------------
(* The bounded deque.                                                       *)

\* Count is a number, zero when no verdict is True, and full only when the deque is
\* full and every verdict is True.
LEMMA CountOfDeque ==
    ASSUME NEW q \in Seq(BOOLEAN), Len(q) <= MinWindows
    PROVE  /\ Count(q) \in 0 .. MinWindows
           /\ Count(q) = 0 <=> \A k \in 1 .. Len(q) : ~q[k]
           /\ Count(q) = MinWindows
                <=> Len(q) = MinWindows /\ \A k \in 1 .. Len(q) : q[k]
<1> DEFINE T == {k \in DOMAIN q : q[k]}
<1>1. Len(q) \in Nat /\ DOMAIN q = 1 .. Len(q)
    OBVIOUS
<1>2. IsFiniteSet(1 .. Len(q)) /\ Cardinality(1 .. Len(q)) = Len(q)
    <2>1. 1 \in Int /\ Len(q) \in Int
        BY <1>1
    <2>2. /\ IsFiniteSet(1 .. Len(q))
          /\ Cardinality(1 .. Len(q)) = IF 1 > Len(q) THEN 0 ELSE Len(q) - 1 + 1
        BY <2>1, FS_Interval, Zenon
    <2> QED BY <1>1, <2>2
<1>3. T \in SUBSET (1 .. Len(q))
    BY <1>1
<1>4. /\ IsFiniteSet(T) /\ Cardinality(T) <= Len(q)
      /\ Cardinality(T) = Len(q) => T = 1 .. Len(q)
    BY <1>2, <1>3, FS_Subset
<1>5. Cardinality(T) \in Nat
    BY <1>4, FS_CardinalityType
<1>6. Cardinality(T) = 0 <=> T = {}
    BY <1>4, FS_EmptySet
<1>7. Count(q) = Cardinality(T)
    BY DEF Count
<1>8. T = {} <=> \A k \in 1 .. Len(q) : ~q[k]
    BY <1>1, Zenon
<1>9. T = 1 .. Len(q) <=> \A k \in 1 .. Len(q) : q[k]
    BY <1>1, Zenon
<1>10. Count(q) = MinWindows <=> Len(q) = MinWindows /\ T = 1 .. Len(q)
    <2> HIDE DEF T
    <2>1. T = 1 .. Len(q) => Cardinality(T) = Len(q)
        BY <1>2
    <2>2. Count(q) = MinWindows <=> Len(q) = MinWindows /\ Cardinality(T) = Len(q)
        <3>1. Cardinality(T) \in Nat /\ Cardinality(T) <= Len(q) /\ Len(q) \in Nat
            BY <1>1, <1>4, <1>5
        <3> QED BY <1>7, <3>1
    <2> QED BY <1>4, <2>1, <2>2, Zenon
<1>11. Count(q) \in 0 .. MinWindows
    BY <1>1, <1>4, <1>5, <1>7
<1> QED
    BY <1>6, <1>7, <1>8, <1>9, <1>10, <1>11, Zenon

\* A push keeps the deque bounded, puts the verdict at its end and moves the others
\* down when it was full.
LEMMA PushOnDeque ==
    ASSUME NEW q \in Seq(BOOLEAN), Len(q) <= MinWindows, NEW ok \in BOOLEAN
    PROVE  /\ Push(q, ok) \in Seq(BOOLEAN)
           /\ Len(Push(q, ok)) = IF Len(q) < MinWindows THEN Len(q) + 1 ELSE MinWindows
           /\ Push(q, ok)[Len(Push(q, ok))] = ok
           /\ \A k \in 1 .. Len(Push(q, ok)) - 1 :
                Push(q, ok)[k] = q[k + (Len(q) + 1 - Len(Push(q, ok)))]
<1> DEFINE longer == Append(q, ok)
<1>1. /\ longer \in Seq(BOOLEAN) /\ longer # << >> /\ Len(longer) = Len(q) + 1
      /\ \A k \in 1 .. Len(q) : longer[k] = q[k]
      /\ longer[Len(q) + 1] = ok
    BY AppendProperties
<1>2. Len(q) \in Nat
    OBVIOUS
<1> HIDE DEF longer
<1>3. Push(q, ok) = IF Len(longer) > MinWindows THEN Tail(longer) ELSE longer
    BY DEF Push, longer
<1>4. /\ Tail(longer) \in Seq(BOOLEAN) /\ Len(Tail(longer)) = Len(longer) - 1
      /\ \A k \in 1 .. Len(Tail(longer)) : Tail(longer)[k] = longer[k + 1]
    BY <1>1, HeadTailProperties
<1>5. CASE Len(q) < MinWindows
    <2>1. Push(q, ok) = longer
        BY <1>1, <1>2, <1>3, <1>5
    <2> QED BY <1>1, <1>2, <1>5, <2>1
<1>6. CASE Len(q) = MinWindows
    <2>1. Push(q, ok) = Tail(longer)
        BY <1>1, <1>2, <1>3, <1>6
    <2>2. Len(Push(q, ok)) = MinWindows
        BY <1>1, <1>2, <1>4, <1>6, <2>1
    <2>3. \A k \in 1 .. MinWindows : Push(q, ok)[k] = longer[k + 1]
        BY <1>4, <2>1, <2>2
    <2> QED BY <1>1, <1>2, <1>4, <1>6, <2>1, <2>2, <2>3
<1> QED
    BY <1>2, <1>5, <1>6

\* What trimming drops is a prefix, all of it older than the window.
LEMMA TrimIsSuffix ==
    ASSUME NEW packets \in Seq(Time), NEW from \in Int
    PROVE  /\ Trim(packets, from) \in Seq(Time)
           /\ \E d \in 0 .. Len(packets) :
                /\ Len(Trim(packets, from)) = Len(packets) - d
                /\ \A k \in 1 .. Len(packets) - d : Trim(packets, from)[k] = packets[k + d]
                /\ \A j \in 1 .. d : packets[j] < from
<1> DEFINE L   == Len(packets)
           old == {k \in DOMAIN packets : \A j \in 1 .. k : packets[j] < from}
           d   == Cardinality(old)
<1>1. L \in Nat /\ DOMAIN packets = 1 .. L
    OBVIOUS
<1>2. IsFiniteSet(1 .. L) /\ old \in SUBSET (1 .. L)
    BY <1>1, FS_Interval
<1>3. IsFiniteSet(old) /\ d \in Nat
    BY <1>2, FS_Subset, FS_CardinalityType
<1>4. IsFiniteSet(1 .. d) /\ Cardinality(1 .. d) = d
    <2>1. 1 \in Int /\ d \in Int
        BY <1>3
    <2>2. /\ IsFiniteSet(1 .. d)
          /\ Cardinality(1 .. d) = IF 1 > d THEN 0 ELSE d - 1 + 1
        BY <2>1, FS_Interval, Zenon
    <2> QED BY <1>3, <2>2
<1>5. old \subseteq 1 .. d
    <2> SUFFICES ASSUME NEW k \in old PROVE k \in 1 .. d
        OBVIOUS
    <2>1. k \in 1 .. L /\ \A i \in 1 .. k : i \in old
        BY <1>1
    <2>2. 1 .. k \in SUBSET old
        BY <2>1
    <2>3. IsFiniteSet(1 .. k) /\ Cardinality(1 .. k) = k
        <3>1. 1 \in Int /\ k \in Int /\ k >= 1
            BY <1>1, <2>1
        <3>2. /\ IsFiniteSet(1 .. k)
              /\ Cardinality(1 .. k) = IF 1 > k THEN 0 ELSE k - 1 + 1
            BY <3>1, FS_Interval, Zenon
        <3> QED BY <3>1, <3>2
    <2>4. Cardinality(1 .. k) <= d
        BY <1>3, <2>2, FS_Subset
    <2> QED BY <1>1, <1>3, <2>1, <2>3, <2>4
<1>6. old = 1 .. d
    BY <1>4, <1>5, FS_Subset
<1>7. d \in 0 .. L
    <2>1. d <= Cardinality(1 .. L)
        BY <1>2, FS_Subset
    <2>2. Cardinality(1 .. L) = L
        <3>1. 1 \in Int /\ L \in Int
            BY <1>1
        <3>2. Cardinality(1 .. L) = IF 1 > L THEN 0 ELSE L - 1 + 1
            BY <3>1, FS_Interval, Zenon
        <3> QED BY <1>1, <3>2
    <2> QED BY <1>1, <1>3, <2>1, <2>2
<1>8. \A j \in 1 .. d : packets[j] < from
    <2> SUFFICES ASSUME NEW j \in 1 .. d PROVE packets[j] < from
        OBVIOUS
    <2>1. j \in old /\ j \in 1 .. j
        BY <1>3, <1>6
    <2> QED BY <2>1
<1>9. Trim(packets, from) = SubSeq(packets, d + 1, L)
    BY DEF Trim
<1> HIDE DEF d, old
<1>10. \A i \in d + 1 .. L : packets[i] \in Time
    BY <1>1, <1>7
<1>11. d + 1 \in Int /\ L \in Int
    BY <1>1, <1>3
<1>12. /\ Trim(packets, from) \in Seq(Time)
       /\ Len(Trim(packets, from)) = IF d + 1 <= L THEN L - (d + 1) + 1 ELSE 0
       /\ \A i \in 1 .. L - (d + 1) + 1 : Trim(packets, from)[i] = packets[d + 1 + i - 1]
    BY <1>9, <1>10, <1>11, SubSeqProperties
<1>13. Len(Trim(packets, from)) = L - d
    <2>1. L \in Nat /\ d \in Nat /\ d <= L
        BY <1>1, <1>7
    <2>2. CASE d + 1 <= L
        BY <1>12, <2>1, <2>2
    <2>3. CASE d = L
        <3>1. ~(d + 1 <= L) /\ L - d = 0
            BY <2>1, <2>3
        <3> QED BY <1>12, <3>1
    <2> QED BY <2>1, <2>2, <2>3
<1>14. \A k \in 1 .. L - d : Trim(packets, from)[k] = packets[k + d]
    <2> SUFFICES ASSUME NEW k \in 1 .. L - d
                 PROVE  Trim(packets, from)[k] = packets[k + d]
        OBVIOUS
    <2>1. k \in 1 .. L - (d + 1) + 1 /\ d + 1 + k - 1 = k + d
        BY <1>1, <1>7
    <2> QED BY <1>12, <2>1
<1> QED
    BY <1>7, <1>8, <1>12, <1>13, <1>14

\* A window counts the same in a sequence and in a suffix that lacks only elements
\* older than the window.
LEMMA SuffixCount ==
    ASSUME NEW all \in Seq(Time), NEW rest \in Seq(Time), NEW now \in Int,
           NEW d \in 0 .. Len(all),
           Len(rest) = Len(all) - d,
           \A k \in 1 .. Len(rest) : rest[k] = all[k + d],
           \A j \in 1 .. d : all[j] < now - Window
    PROVE  InWindow(rest, now) = InWindow(all, now)
<1> DEFINE A == {k \in DOMAIN all : all[k] >= now - Window}
           R == {k \in DOMAIN rest : rest[k] >= now - Window}
           shift == [k \in R |-> k + d]
<1>1. /\ Len(all) \in Nat /\ DOMAIN all = 1 .. Len(all)
      /\ DOMAIN rest = 1 .. Len(rest) /\ Len(rest) \in Nat /\ d \in Nat
    OBVIOUS
<1>2. \A k \in R : k \in 1 .. Len(rest) /\ k + d \in A
    <2> SUFFICES ASSUME NEW k \in R PROVE k \in 1 .. Len(rest) /\ k + d \in A
        OBVIOUS
    <2>1. k \in 1 .. Len(rest) /\ rest[k] >= now - Window /\ rest[k] = all[k + d]
        BY <1>1
    <2>2. k + d \in 1 .. Len(all)
        BY <1>1, <2>1
    <2> QED BY <1>1, <2>1, <2>2
<1>3. \A i \in A : \E k \in R : k + d = i
    <2> SUFFICES ASSUME NEW i \in A PROVE \E k \in R : k + d = i
        OBVIOUS
    <2>1. i \in 1 .. Len(all) /\ all[i] >= now - Window /\ all[i] \in Int
        BY <1>1 DEF Time
    <2>2. i \notin 1 .. d
        BY <2>1
    <2>3. i - d \in 1 .. Len(rest) /\ i - d + d = i
        BY <1>1, <2>1, <2>2
    <2>4. i - d \in R
        BY <1>1, <2>1, <2>3
    <2> QED BY <2>3, <2>4
<1>4. shift \in Bijection(R, A)
    <2>1. shift \in [R -> A]
        BY <1>2
    <2>2. \A k, l \in R : shift[k] = shift[l] => k = l
        BY <1>1, <1>2
    <2>3. \A i \in A : \E k \in R : shift[k] = i
        BY <1>3
    <2> QED BY <2>1, <2>2, <2>3 DEF Bijection, Injection, Surjection, IsInjective
<1>5. IsFiniteSet(R) /\ IsFiniteSet(A)
    <2>1. R \in SUBSET (1 .. Len(rest)) /\ A \in SUBSET (1 .. Len(all))
        BY <1>1
    <2>2. IsFiniteSet(1 .. Len(rest)) /\ IsFiniteSet(1 .. Len(all))
        BY <1>1, FS_Interval
    <2> QED BY <2>1, <2>2, FS_Subset
<1>6. Cardinality(R) = Cardinality(A)
    <2> HIDE DEF R, A, shift
    <2> QED BY <1>4, <1>5, FS_Bijection DEF ExistsBijection
<1> QED
    BY <1>6 DEF InWindow

-----------------------------------------------------------------------------
(* One peer's state through each operation.                                 *)

TickRecord == [at : Time, ok : BOOLEAN]

\* The deque holds the verdicts of the latest ticks, and the report is that of the
\* whole log.
Windowed(quals, reported, log) ==
    /\ Len(quals) = IF Len(log) < MinWindows THEN Len(log) ELSE MinWindows
    /\ \A k \in 1 .. Len(quals) : quals[k] = log[k + (Len(log) - Len(quals))].ok
    /\ reported <=> \E k \in DOMAIN log : RunEndsAt(log, k)

\* The deque of packets is what is left of all of them after trims up to a time.
Suffix(packets, all, upto) ==
    \E d \in 0 .. Len(all) :
        /\ Len(packets) = Len(all) - d
        /\ \A k \in 1 .. Len(packets) : packets[k] = all[k + d]
        /\ \A j \in 1 .. d : all[j] < upto - Window

SinceSet(state) ==
    state.since # Never <=> \E k \in DOMAIN state.quals : state.quals[k]

\* The state observe() creates.
LEMMA NewPeerType ==
    ASSUME NEW time \in Time
    PROVE  /\ NewPeer(time) \in PeerState
           /\ NewPeer(time).quals = << >> /\ NewPeer(time).packets = << >>
           /\ NewPeer(time).reported = FALSE /\ NewPeer(time).since = Never
BY DEF NewPeer, PeerState

\* What a packet makes of a peer's state, field by field.
LEMMA NotedType ==
    ASSUME NEW state \in PeerState, NEW time \in Time
    PROVE  /\ Noted(state, time) \in PeerState
           /\ Noted(state, time).packets = Append(state.packets, time)
           /\ Noted(state, time).quals = state.quals
           /\ Noted(state, time).since = state.since
           /\ Noted(state, time).reported = state.reported
<1> DEFINE longer == Append(state.packets, time)
           latest == IF time > state.lastSeen THEN time ELSE state.lastSeen
<1>1. longer \in Seq(Time) /\ latest \in Time
    BY DEF PeerState
<1>2. Noted(state, time) = [state EXCEPT !.packets = longer, !.lastSeen = latest]
    BY DEF Noted
<1> HIDE DEF longer, latest
<1>3. /\ Noted(state, time) \in PeerState
      /\ Noted(state, time).packets = longer
      /\ Noted(state, time).quals = state.quals
      /\ Noted(state, time).since = state.since
      /\ Noted(state, time).reported = state.reported
    BY <1>1, <1>2 DEF PeerState
<1> QED
    BY <1>3 DEF longer

\* What a prune makes of a peer's state, field by field.
LEMMA TrimmedType ==
    ASSUME NEW state \in PeerState, NEW from \in Int
    PROVE  /\ Trimmed(state, from) \in PeerState
           /\ Trimmed(state, from).packets = Trim(state.packets, from)
           /\ Trimmed(state, from).quals = state.quals
           /\ Trimmed(state, from).since = state.since
           /\ Trimmed(state, from).reported = state.reported
<1>1. Trim(state.packets, from) \in Seq(Time)
    BY TrimIsSuffix DEF PeerState
<1> QED
    BY <1>1 DEF Trimmed, PeerState

\* What a tick makes of a peer's state, field by field.
LEMMA TickedType ==
    ASSUME NEW state \in PeerState, Len(state.quals) <= MinWindows, NEW now \in Time
    PROVE  LET ok == Qualifies(state.packets, now)
               q  == Push(state.quals, ok)
           IN  /\ Ticked(state, now) \in PeerState
               /\ Ticked(state, now).packets = state.packets
               /\ Ticked(state, now).quals = q
               /\ Ticked(state, now).since = Since(state, q, ok, now)
               /\ Ticked(state, now).reported
                    = (state.reported \/ Count(q) = MinWindows)
<1> DEFINE ok == Qualifies(state.packets, now)
           q  == Push(state.quals, ok)
<1>1. ok \in BOOLEAN
    BY DEF Qualifies
<1>2. state.quals \in Seq(BOOLEAN) /\ state.since \in Time \cup {Never}
      /\ state.reported \in BOOLEAN
    BY DEF PeerState
<1>3. q \in Seq(BOOLEAN)
    BY <1>1, <1>2, PushOnDeque
<1>4. Since(state, q, ok, now) \in Time \cup {Never}
    BY <1>2 DEF Since
<1>5. (state.reported \/ Count(q) = MinWindows) \in BOOLEAN
    OBVIOUS
<1>6. Ticked(state, now)
        = [state EXCEPT !.quals = q,
                        !.since = Since(state, q, ok, now),
                        !.reported = (state.reported \/ Count(q) = MinWindows)]
    BY DEF Ticked
<1> HIDE DEF ok, q
<1> DEFINE r == (state.reported \/ Count(q) = MinWindows)
<1> HIDE DEF r
<1>8. r \in BOOLEAN
    BY <1>5 DEF r
<1>9. Ticked(state, now)
        = [state EXCEPT !.quals = q, !.since = Since(state, q, ok, now), !.reported = r]
    BY <1>6 DEF r
<1>10. /\ Ticked(state, now) \in PeerState
       /\ Ticked(state, now).packets = state.packets
       /\ Ticked(state, now).quals = q
       /\ Ticked(state, now).since = Since(state, q, ok, now)
       /\ Ticked(state, now).reported = r
    BY <1>3, <1>4, <1>8, <1>9 DEF PeerState
<1> QED
    BY <1>10 DEF ok, q, r

\* A tick sets qualified_since with the first True and clears it with the last.
LEMMA TickKeepsSince ==
    ASSUME NEW state \in PeerState, Len(state.quals) <= MinWindows, NEW now \in Time,
           SinceSet(state)
    PROVE  SinceSet(Ticked(state, now))
<1> DEFINE ok == Qualifies(state.packets, now)
           q  == Push(state.quals, ok)
<1>1. ok \in BOOLEAN
    BY DEF Qualifies
<1>2. state.quals \in Seq(BOOLEAN) /\ state.since \in Time \cup {Never}
    BY DEF PeerState
<1>3. /\ Ticked(state, now).quals = q
      /\ Ticked(state, now).since = Since(state, q, ok, now)
    BY TickedType
<1> HIDE DEF ok
<1>4. /\ q \in Seq(BOOLEAN)
      /\ Len(q) = IF Len(state.quals) < MinWindows THEN Len(state.quals) + 1 ELSE MinWindows
      /\ q[Len(q)] = ok
      /\ \A k \in 1 .. Len(q) - 1 : q[k] = state.quals[k + (Len(state.quals) + 1 - Len(q))]
    BY <1>1, <1>2, PushOnDeque
<1> HIDE DEF q
<1>5. /\ DOMAIN q = 1 .. Len(q)
      /\ DOMAIN state.quals = 1 .. Len(state.quals)
      /\ Len(q) \in Nat /\ Len(q) >= 1 /\ Len(q) <= MinWindows
    BY <1>2, <1>4
<1> DEFINE L == Len(q)
           M == Len(state.quals)
<1>11. /\ L \in Nat /\ M \in Nat /\ M <= MinWindows
       /\ L = IF M < MinWindows THEN M + 1 ELSE MinWindows
    BY <1>2, <1>4
<1> HIDE DEF L, M
<1>6. Count(q) = 0 <=> \A k \in 1 .. Len(q) : ~q[k]
    BY <1>4, <1>5, CountOfDeque
<1>7. now # Never
    BY DEF Time, Never
<1>8. CASE ok
    <2>1. \E k \in DOMAIN q : q[k]
        <3>1. Len(q) \in DOMAIN q /\ q[Len(q)]
            BY <1>4, <1>5, <1>8
        <3> QED BY <3>1
    <2>2. Count(q) # 0
        BY <1>5, <1>6, <2>1
    <2>3. Since(state, q, ok, now) # Never
        BY <1>7, <1>8, <2>2 DEF Since
    <2> QED BY <1>3, <2>1, <2>3 DEF SinceSet
<1>9. CASE ~ok /\ Count(q) = 0
    <2>1. Since(state, q, ok, now) = Never
        BY <1>9 DEF Since
    <2> QED BY <1>3, <1>5, <1>6, <1>9, <2>1 DEF SinceSet
<1>10. CASE ~ok /\ Count(q) # 0
    <2>1. PICK k \in 1 .. Len(q) : q[k]
        BY <1>6, <1>10
    <2>2. k \in 1 .. Len(q) - 1
        <3>1. k # Len(q)
            BY <1>4, <1>10, <2>1, Zenon
        <3>2. k \in 1 .. L /\ k # L
            BY <2>1, <3>1 DEF L
        <3>3. k \in 1 .. L - 1
            BY <1>11, <3>2
        <3> QED BY <3>3 DEF L
    <2>3. k + (Len(state.quals) + 1 - Len(q)) \in DOMAIN state.quals
        <3>1. k \in 1 .. L - 1
            BY <2>2 DEF L
        <3>2. k + (M + 1 - L) \in 1 .. M
            BY <1>11, <3>1
        <3> QED BY <1>5, <3>2 DEF L, M
    <2>4. \E i \in DOMAIN state.quals : state.quals[i]
        BY <1>4, <2>1, <2>2, <2>3
    <2>5. Since(state, q, ok, now) = state.since
        BY <1>10 DEF Since
    <2>6. k \in DOMAIN q
        BY <1>5
    <2> QED BY <1>3, <2>1, <2>4, <2>5, <2>6 DEF SinceSet
<1> QED
    BY <1>8, <1>9, <1>10

\* RunEndsAt, unfolded.
LEMMA RunEnds ==
    ASSUME NEW log, NEW k
    PROVE  RunEndsAt(log, k)
             <=> k >= MinWindows /\ \A j \in k - MinWindows + 1 .. k : log[j].ok
BY DEF RunEndsAt

\* A tick keeps the deque the tail of the log and the report that of the whole log.
LEMMA TickKeepsWindowed ==
    ASSUME NEW quals \in Seq(BOOLEAN), Len(quals) <= MinWindows,
           NEW reported \in BOOLEAN, NEW log \in Seq(TickRecord),
           NEW record \in TickRecord, Windowed(quals, reported, log)
    PROVE  Windowed(Push(quals, record.ok),
                    reported \/ Count(Push(quals, record.ok)) = MinWindows,
                    Append(log, record))
<1> DEFINE q   == Push(quals, record.ok)
           new == Append(log, record)
           M   == Len(quals)
           L   == Len(q)
           N   == Len(log)
<1>1. record.ok \in BOOLEAN
    BY DEF TickRecord
<1>2. /\ q \in Seq(BOOLEAN)
      /\ L = IF M < MinWindows THEN M + 1 ELSE MinWindows
      /\ q[L] = record.ok
      /\ \A k \in 1 .. L - 1 : q[k] = quals[k + (M + 1 - L)]
    BY <1>1, PushOnDeque
<1>3. /\ new \in Seq(TickRecord) /\ Len(new) = N + 1
      /\ \A k \in 1 .. N : new[k] = log[k]
      /\ new[N + 1] = record
    BY AppendProperties
<1>4. /\ M = IF N < MinWindows THEN N ELSE MinWindows
      /\ \A k \in 1 .. M : quals[k] = log[k + (N - M)].ok
      /\ reported <=> \E k \in DOMAIN log : RunEndsAt(log, k)
    BY DEF Windowed
<1>5. /\ DOMAIN new = 1 .. N + 1 /\ DOMAIN log = 1 .. N
      /\ M \in Nat /\ N \in Nat /\ L \in Nat
    BY <1>2, <1>3
<1>6. L <= MinWindows
    BY <1>2, <1>5
<1>7. Count(q) = MinWindows <=> L = MinWindows /\ \A k \in 1 .. L : q[k]
    BY <1>2, <1>6, CountOfDeque
<1> HIDE DEF q, new, M, L, N
<1>14. M \in Nat /\ N \in Nat /\ L \in Nat
    BY <1>5
<1>15. /\ L = IF M < MinWindows THEN M + 1 ELSE MinWindows
       /\ M = IF N < MinWindows THEN N ELSE MinWindows
    BY <1>2, <1>4
<1>8. L = IF N + 1 < MinWindows THEN N + 1 ELSE MinWindows
    BY <1>14, <1>15
<1>9. \A k \in 1 .. L : q[k] = new[k + ((N + 1) - L)].ok
    <2> SUFFICES ASSUME NEW k \in 1 .. L PROVE q[k] = new[k + ((N + 1) - L)].ok
        OBVIOUS
    <2>1. CASE k = L
        <3>1. k + ((N + 1) - L) = N + 1
            BY <1>5, <2>1
        <3> QED BY <1>2, <1>3, <2>1, <3>1
    <2>2. CASE k # L
        <3>1. k \in 1 .. L - 1
            BY <1>5, <2>2
        <3>2. /\ k + (M + 1 - L) \in 1 .. M
              /\ k + (M + 1 - L) + (N - M) = k + ((N + 1) - L)
              /\ k + ((N + 1) - L) \in 1 .. N
            BY <1>14, <1>15, <3>1
        <3>3. q[k] = quals[k + (M + 1 - L)]
            BY <1>2, <3>1
        <3>4. quals[k + (M + 1 - L)] = log[k + ((N + 1) - L)].ok
            BY <1>4, <3>2
        <3> QED BY <1>3, <3>2, <3>3, <3>4
    <2> QED BY <2>1, <2>2
<1>10. Count(q) = MinWindows <=> RunEndsAt(new, N + 1)
    <2>1. L = MinWindows <=> N + 1 >= MinWindows
        BY <1>5, <1>8
    <2>2. ASSUME L = MinWindows
          PROVE  (\A k \in 1 .. L : q[k])
                   <=> (\A j \in (N + 1) - MinWindows + 1 .. N + 1 : new[j].ok)
        <3>1. ASSUME \A k \in 1 .. L : q[k], NEW j \in (N + 1) - MinWindows + 1 .. N + 1
              PROVE  new[j].ok
            <4>1. j - ((N + 1) - L) \in 1 .. L /\ j - ((N + 1) - L) + ((N + 1) - L) = j
                BY <1>5, <2>2
            <4>2. q[j - ((N + 1) - L)] = new[j].ok
                BY <1>9, <4>1
            <4>3. q[j - ((N + 1) - L)]
                BY <3>1, <4>1
            <4> QED BY <4>2, <4>3
        <3>2. ASSUME \A j \in (N + 1) - MinWindows + 1 .. N + 1 : new[j].ok, NEW k \in 1 .. L
              PROVE  q[k]
            <4>1. k + ((N + 1) - L) \in (N + 1) - MinWindows + 1 .. N + 1
                BY <1>5, <2>2
            <4>2. new[k + ((N + 1) - L)].ok
                BY <3>2, <4>1
            <4> QED BY <1>9, <4>2
        <3> QED BY <3>1, <3>2
    <2>3. RunEndsAt(new, N + 1) <=> /\ N + 1 >= MinWindows
                                    /\ \A j \in (N + 1) - MinWindows + 1 .. N + 1 : new[j].ok
        BY RunEnds, Zenon
    <2> QED BY <1>7, <2>1, <2>2, <2>3, Zenon
<1>11. \A k \in 1 .. N : RunEndsAt(new, k) <=> RunEndsAt(log, k)
    <2> SUFFICES ASSUME NEW k \in 1 .. N, k >= MinWindows
                 PROVE  \A j \in k - MinWindows + 1 .. k : new[j] = log[j]
        BY DEF RunEndsAt
    <2>1. \A j \in k - MinWindows + 1 .. k : j \in 1 .. N
        BY <1>5
    <2> QED BY <1>3, <2>1
<1>12. (reported \/ Count(q) = MinWindows) <=> \E k \in DOMAIN new : RunEndsAt(new, k)
    <2>1. \A k : k \in DOMAIN new <=> k \in 1 .. N \/ k = N + 1
        BY <1>5
    <2> QED BY <1>4, <1>5, <1>10, <1>11, <2>1, Zenon
<1>13. Windowed(q, reported \/ Count(q) = MinWindows, new)
    <2>1. Len(new) = N + 1 /\ Len(q) = L
        BY <1>3 DEF L
    <2>2. Len(q) = IF Len(new) < MinWindows THEN Len(new) ELSE MinWindows
        BY <1>8, <2>1
    <2>3. \A k \in 1 .. Len(q) : q[k] = new[k + (Len(new) - Len(q))].ok
        <3> SUFFICES ASSUME NEW k \in 1 .. Len(q)
                     PROVE  q[k] = new[k + (Len(new) - Len(q))].ok
            OBVIOUS
        <3>1. k \in 1 .. L
            BY <2>1
        <3>2. q[k] = new[k + ((N + 1) - L)].ok
            BY <1>9, <3>1
        <3> QED BY <2>1, <3>2
    <2> QED BY <1>12, <2>2, <2>3, Zenon DEF Windowed
<1> QED
    BY <1>13 DEF q, new

-----------------------------------------------------------------------------
(* The deque of packets.                                                    *)

\* The time trims are known up to may grow.
LEMMA SuffixGrows ==
    ASSUME NEW packets \in Seq(Time), NEW all \in Seq(Time),
           NEW a \in Int, NEW b \in Int, a <= b, Suffix(packets, all, a)
    PROVE  Suffix(packets, all, b)
<1>1. PICK d \in 0 .. Len(all) :
        /\ Len(packets) = Len(all) - d
        /\ \A k \in 1 .. Len(packets) : packets[k] = all[k + d]
        /\ \A j \in 1 .. d : all[j] < a - Window
    BY DEF Suffix
<1>2. \A j \in 1 .. d : all[j] < b - Window
    <2> SUFFICES ASSUME NEW j \in 1 .. d PROVE all[j] < b - Window
        OBVIOUS
    <2>1. j \in 1 .. Len(all)
        OBVIOUS
    <2>2. all[j] \in Int
        BY <2>1 DEF Time
    <2> QED BY <1>1, <2>2
<1> QED
    BY <1>1, <1>2 DEF Suffix

\* A packet is appended to the deque and to the history alike.
LEMMA SuffixObserved ==
    ASSUME NEW packets \in Seq(Time), NEW all \in Seq(Time), NEW upto \in Int,
           NEW time \in Time, Suffix(packets, all, upto)
    PROVE  Suffix(Append(packets, time), Append(all, time), upto)
<1>1. PICK d \in 0 .. Len(all) :
        /\ Len(packets) = Len(all) - d
        /\ \A k \in 1 .. Len(packets) : packets[k] = all[k + d]
        /\ \A j \in 1 .. d : all[j] < upto - Window
    BY DEF Suffix
<1> DEFINE P == Append(packets, time)
           A == Append(all, time)
<1>2. /\ Len(P) = Len(packets) + 1 /\ P[Len(packets) + 1] = time
      /\ \A k \in 1 .. Len(packets) : P[k] = packets[k]
    BY AppendProperties
<1>3. /\ Len(A) = Len(all) + 1 /\ A[Len(all) + 1] = time
      /\ \A k \in 1 .. Len(all) : A[k] = all[k]
    BY AppendProperties
<1>4. Len(packets) \in Nat /\ Len(all) \in Nat /\ d \in Nat
    OBVIOUS
<1> HIDE DEF P, A
<1>5. d \in 0 .. Len(A) /\ Len(P) = Len(A) - d
    BY <1>1, <1>2, <1>3, <1>4
<1>6. \A k \in 1 .. Len(P) : P[k] = A[k + d]
    <2> SUFFICES ASSUME NEW k \in 1 .. Len(P) PROVE P[k] = A[k + d]
        OBVIOUS
    <2>1. CASE k \in 1 .. Len(packets)
        <3>1. k + d \in 1 .. Len(all)
            BY <1>1, <1>4, <2>1
        <3> QED BY <1>1, <1>2, <1>3, <2>1, <3>1
    <2>2. CASE k = Len(packets) + 1
        <3>1. k + d = Len(all) + 1
            BY <1>1, <1>4, <2>2
        <3> QED BY <1>2, <1>3, <2>2, <3>1
    <2> QED BY <1>2, <1>4, <2>1, <2>2
<1>7. \A j \in 1 .. d : A[j] < upto - Window
    BY <1>1, <1>3, <1>4
<1> QED
    BY <1>5, <1>6, <1>7 DEF Suffix, P, A

\* A prune at a time no later than the latest known keeps the suffix.
LEMMA SuffixTrimmed ==
    ASSUME NEW packets \in Seq(Time), NEW all \in Seq(Time), NEW upto \in Int,
           NEW now \in Int, now <= upto, Suffix(packets, all, upto)
    PROVE  Suffix(Trim(packets, now - Window), all, upto)
<1>1. PICK d \in 0 .. Len(all) :
        /\ Len(packets) = Len(all) - d
        /\ \A k \in 1 .. Len(packets) : packets[k] = all[k + d]
        /\ \A j \in 1 .. d : all[j] < upto - Window
    BY DEF Suffix
<1> DEFINE T == Trim(packets, now - Window)
<1>7. now - Window \in Int
    OBVIOUS
<1>2. PICK e \in 0 .. Len(packets) :
        /\ Len(T) = Len(packets) - e
        /\ \A k \in 1 .. Len(packets) - e : T[k] = packets[k + e]
        /\ \A j \in 1 .. e : packets[j] < now - Window
    BY <1>7, TrimIsSuffix
<1>3. Len(packets) \in Nat /\ Len(all) \in Nat /\ d \in Nat /\ e \in Nat
    OBVIOUS
<1> HIDE DEF T
<1>4. d + e \in 0 .. Len(all) /\ Len(T) = Len(all) - (d + e)
    BY <1>1, <1>2, <1>3
<1>5. \A k \in 1 .. Len(T) : T[k] = all[k + (d + e)]
    <2> SUFFICES ASSUME NEW k \in 1 .. Len(T) PROVE T[k] = all[k + (d + e)]
        OBVIOUS
    <2>1. k \in 1 .. Len(packets) - e /\ k + e \in 1 .. Len(packets) /\ k + e + d = k + (d + e)
        BY <1>2, <1>3
    <2> QED BY <1>1, <1>2, <2>1
<1>6. \A j \in 1 .. d + e : all[j] < upto - Window
    <2> SUFFICES ASSUME NEW j \in 1 .. d + e PROVE all[j] < upto - Window
        OBVIOUS
    <2>1. CASE j \in 1 .. d
        BY <1>1, <2>1
    <2>2. CASE j \notin 1 .. d
        <3>1. j - d \in 1 .. e /\ j - d \in 1 .. Len(packets) /\ j - d + d = j
            BY <1>3, <2>2
        <3>2. packets[j - d] = all[j] /\ packets[j - d] < now - Window
            BY <1>1, <1>2, <3>1
        <3>3. packets[j - d] \in Int
            BY <3>1 DEF Time
        <3> QED BY <3>2, <3>3
    <2> QED BY <2>1, <2>2
<1> QED
    BY <1>4, <1>5, <1>6 DEF Suffix, T

-----------------------------------------------------------------------------
(* One peer: the invariant, and that every operation keeps it.              *)

PeerInv(state, all, log, upto) ==
    /\ state \in PeerState /\ Len(state.quals) <= MinWindows
    /\ all \in Seq(Time) /\ log \in Seq(TickRecord)
    /\ SinceSet(state)
    /\ Windowed(state.quals, state.reported, log)
    /\ Suffix(state.packets, all, upto)

\* A peer that is new has the invariant, with nothing observed and no tick.
LEMMA NewPeerInv ==
    ASSUME NEW time \in Time, NEW upto \in Int
    PROVE  PeerInv(NewPeer(time), << >>, << >>, upto)
<1>1. Len(<< >>) = 0 /\ DOMAIN << >> = {}
    OBVIOUS
<1>2. Windowed(<< >>, FALSE, << >>)
    BY <1>1 DEF Windowed
<1>3. Suffix(<< >>, << >>, upto)
    BY <1>1 DEF Suffix
<1>4. SinceSet(NewPeer(time))
    BY <1>1, NewPeerType DEF SinceSet
<1>5. /\ Windowed(NewPeer(time).quals, NewPeer(time).reported, << >>)
      /\ Suffix(NewPeer(time).packets, << >>, upto)
    BY <1>2, <1>3, NewPeerType, Zenon
<1>6. /\ NewPeer(time) \in PeerState /\ Len(NewPeer(time).quals) <= MinWindows
      /\ << >> \in Seq(Time) /\ << >> \in Seq(TickRecord)
    <2>1. Len(NewPeer(time).quals) = 0
        BY <1>1, NewPeerType
    <2>2. Len(NewPeer(time).quals) <= MinWindows
        BY <2>1
    <2>3. << >> \in Seq(Time) /\ << >> \in Seq(TickRecord)
        OBVIOUS
    <2> QED BY <2>2, <2>3, NewPeerType, Zenon
<1> QED
    BY <1>4, <1>5, <1>6, Zenon DEF PeerInv

\* observe() keeps a peer's invariant.
LEMMA NotedInv ==
    ASSUME NEW state, NEW all, NEW log, NEW upto \in Int, NEW time \in Time,
           PeerInv(state, all, log, upto)
    PROVE  PeerInv(Noted(state, time), Append(all, time), log, upto)
<1>1. state \in PeerState /\ all \in Seq(Time) /\ state.packets \in Seq(Time)
    BY DEF PeerInv, PeerState
<1>2. Suffix(Append(state.packets, time), Append(all, time), upto)
    BY <1>1, SuffixObserved DEF PeerInv
<1>3. SinceSet(Noted(state, time))
    BY <1>1, NotedType DEF PeerInv, SinceSet
<1>4. Append(all, time) \in Seq(Time)
    BY <1>1
<1>5. /\ Noted(state, time) \in PeerState
      /\ Noted(state, time).packets = Append(state.packets, time)
      /\ Noted(state, time).quals = state.quals
      /\ Noted(state, time).reported = state.reported
    BY <1>1, NotedType
<1> QED
    BY <1>2, <1>3, <1>4, <1>5, Zenon DEF PeerInv

\* tick() keeps a peer's invariant.
LEMMA TickedInv ==
    ASSUME NEW state, NEW all, NEW log, NEW upto \in Int, NEW now \in Time,
           PeerInv(state, all, log, upto)
    PROVE  PeerInv(Ticked(state, now), all,
                   Append(log, [at |-> now, ok |-> Qualifies(state.packets, now)]), upto)
<1> DEFINE ok     == Qualifies(state.packets, now)
           record == [at |-> now, ok |-> ok]
           q      == Push(state.quals, ok)
<1>1. /\ state \in PeerState /\ Len(state.quals) <= MinWindows
      /\ state.quals \in Seq(BOOLEAN) /\ state.reported \in BOOLEAN
      /\ log \in Seq(TickRecord) /\ all \in Seq(Time)
    BY DEF PeerInv, PeerState
<1>2. ok \in BOOLEAN
    BY DEF Qualifies
<1>3. record \in TickRecord /\ record.ok = ok
    BY <1>2 DEF TickRecord
<1>4. Windowed(state.quals, state.reported, log) /\ SinceSet(state)
      /\ Suffix(state.packets, all, upto)
    BY DEF PeerInv
<1>5. /\ Ticked(state, now) \in PeerState
      /\ Ticked(state, now).packets = state.packets
      /\ Ticked(state, now).quals = q
      /\ Ticked(state, now).reported = (state.reported \/ Count(q) = MinWindows)
    BY <1>1, TickedType
<1>6. SinceSet(Ticked(state, now))
    BY <1>1, <1>4, TickKeepsSince
<1>7. q \in Seq(BOOLEAN) /\ Len(q) <= MinWindows
    <2>1. /\ q \in Seq(BOOLEAN)
          /\ Len(q) = IF Len(state.quals) < MinWindows THEN Len(state.quals) + 1
                      ELSE MinWindows
        BY <1>1, <1>2, PushOnDeque
    <2> QED BY <1>1, <2>1
<1> HIDE DEF ok, record
<1>8. Windowed(Push(state.quals, record.ok),
               state.reported \/ Count(Push(state.quals, record.ok)) = MinWindows,
               Append(log, record))
    BY <1>1, <1>3, <1>4, TickKeepsWindowed
<1>9. Windowed(q, state.reported \/ Count(q) = MinWindows, Append(log, record))
    BY <1>3, <1>8
<1> HIDE DEF q
<1>10. Windowed(Ticked(state, now).quals, Ticked(state, now).reported, Append(log, record))
    BY <1>5, <1>9, Zenon
<1>11. Append(log, record) \in Seq(TickRecord)
    BY <1>1, <1>3
<1>12. PeerInv(Ticked(state, now), all, Append(log, record), upto)
    BY <1>1, <1>4, <1>5, <1>6, <1>7, <1>10, <1>11, Zenon DEF PeerInv
<1> QED
    BY <1>12 DEF record, ok

\* prune() keeps the invariant of a peer it does not forget.
LEMMA TrimmedInv ==
    ASSUME NEW state, NEW all, NEW log, NEW upto \in Int, NEW now \in Int,
           PeerInv(state, all, log, upto)
    PROVE  PeerInv(Trimmed(state, now - Window), all, log, IF now > upto THEN now ELSE upto)
<1> DEFINE next == IF now > upto THEN now ELSE upto
<1>1. /\ state \in PeerState /\ state.packets \in Seq(Time) /\ all \in Seq(Time)
      /\ now - Window \in Int
    BY DEF PeerInv, PeerState
<1>2. next \in Int /\ now <= next /\ upto <= next
    OBVIOUS
<1> HIDE DEF next
<1>3. Suffix(state.packets, all, next)
    BY <1>1, <1>2, SuffixGrows DEF PeerInv
<1>4. Suffix(Trim(state.packets, now - Window), all, next)
    BY <1>1, <1>2, <1>3, SuffixTrimmed
<1>5. SinceSet(Trimmed(state, now - Window))
    BY <1>1, TrimmedType DEF PeerInv, SinceSet
<1>6. PeerInv(Trimmed(state, now - Window), all, log, next)
    BY <1>1, <1>4, <1>5, TrimmedType DEF PeerInv
<1> QED
    BY <1>6 DEF next

-----------------------------------------------------------------------------
(* The invariant of the whole scorer.                                       *)

Globals ==
    /\ Tracked \subseteq Peer /\ peers = [p \in Tracked |-> peers[p]]
    /\ lastTick \in Time \cup {Never} /\ pruned \in Time \cup {Never}
    /\ detected \subseteq [peer : Peer, duration : Int]
    /\ seen = [p \in Tracked |-> seen[p]] /\ ticks = [p \in Tracked |-> ticks[p]]

IInv ==
    /\ Globals
    /\ \A p \in Tracked : PeerInv(peers[p], seen[p], ticks[p], pruned)

\* A new scorer tracks nobody.
LEMMA InvInit ==
    ASSUME Init
    PROVE  IInv
BY DEF Init, IInv, Globals, Tracked, Time

\* observe() touches one peer.
LEMMA ObserveKeepsInv ==
    ASSUME IInv, NEW p \in Peer, NEW time \in Time, Observe(p, time)
    PROVE  IInv'
<1> DEFINE state == Old(peers, p, NewPeer(time))
           all   == Old(seen, p, << >>)
           log   == Old(ticks, p, << >>)
<1>1. /\ DOMAIN seen = Tracked /\ DOMAIN ticks = Tracked /\ pruned \in Int
    BY DEF IInv, Globals, Time, Never
<1>2. PeerInv(state, all, log, pruned)
    <2>1. CASE p \in Tracked
        BY <1>1, <2>1 DEF IInv, Old, Tracked
    <2>2. CASE p \notin Tracked
        BY <1>1, <2>2, NewPeerInv DEF Old, Tracked
    <2> QED BY <2>1, <2>2
<1>3. PeerInv(Noted(state, time), Append(all, time), log, pruned)
    BY <1>1, <1>2, NotedInv
<1>4. /\ peers' = With(peers, p, Noted(state, time))
      /\ seen' = With(seen, p, Append(all, time))
      /\ ticks' = With(ticks, p, log)
      /\ lastTick' = lastTick /\ detected' = detected /\ pruned' = pruned
    BY DEF Observe
<1> HIDE DEF state, all, log
<1>5. /\ Tracked' = Tracked \cup {p}
      /\ peers'[p] = Noted(state, time) /\ seen'[p] = Append(all, time) /\ ticks'[p] = log
      /\ \A q \in Tracked \ {p} :
           peers'[q] = peers[q] /\ seen'[q] = seen[q] /\ ticks'[q] = ticks[q]
    BY <1>1, <1>4 DEF With, Tracked
<1>6. Globals'
    <2>1. /\ peers' = [q \in Tracked' |-> peers'[q]]
          /\ seen' = [q \in Tracked' |-> seen'[q]]
          /\ ticks' = [q \in Tracked' |-> ticks'[q]]
        BY <1>1, <1>4 DEF With, Tracked
    <2> QED BY <1>4, <1>5, <2>1 DEF IInv, Globals
<1>7. ASSUME NEW q \in Tracked' PROVE PeerInv(peers'[q], seen'[q], ticks'[q], pruned')
    <2>1. CASE q = p
        BY <1>3, <1>4, <1>5, <2>1
    <2>2. CASE q # p
        BY <1>4, <1>5, <1>7, <2>2 DEF IInv
    <2> QED BY <2>1, <2>2
<1> QED
    BY <1>6, <1>7 DEF IInv

\* tick() touches every peer.
LEMMA TickKeepsInv ==
    ASSUME IInv, NEW now \in Time, Tick(now)
    PROVE  IInv'
<1>1. /\ DOMAIN seen = Tracked /\ DOMAIN ticks = Tracked /\ pruned \in Int
      /\ Tracked \subseteq Peer
    BY DEF IInv, Globals, Time, Never
<1>2. /\ peers' = [p \in Tracked |-> Ticked(peers[p], now)]
      /\ ticks' = [p \in Tracked |->
                     Append(ticks[p], [at |-> now, ok |-> Qualifies(peers[p].packets, now)])]
      /\ seen' = seen /\ pruned' = pruned /\ lastTick' = now
    BY DEF Tick
<1>3. Tracked' = Tracked
    BY <1>2 DEF Tracked
<1>4. ASSUME NEW p \in Tracked
      PROVE  PeerInv(Ticked(peers[p], now), seen[p],
                     Append(ticks[p], [at |-> now, ok |-> Qualifies(peers[p].packets, now)]),
                     pruned)
    <2>1. PeerInv(peers[p], seen[p], ticks[p], pruned)
        BY DEF IInv
    <2> QED BY <1>1, <2>1, TickedInv
<1>5. ASSUME NEW p \in Tracked PROVE Duration(p, now) \in Int
    <2>1. Ticked(peers[p], now) \in PeerState
        BY <1>4 DEF PeerInv
    <2>2. Ticked(peers[p], now).since \in Time \cup {Never}
        BY <2>1 DEF PeerState
    <2> QED BY <2>2 DEF Duration, Time, Never
<1>6. detected' \subseteq [peer : Peer, duration : Int]
    BY <1>1, <1>5 DEF Tick
<1>7. Globals'
    BY <1>2, <1>3, <1>6 DEF IInv, Globals
<1>8. ASSUME NEW p \in Tracked' PROVE PeerInv(peers'[p], seen'[p], ticks'[p], pruned')
    BY <1>2, <1>3, <1>4
<1> QED
    BY <1>7, <1>8 DEF IInv

\* prune() forgets some peers and trims the others.
LEMMA PruneKeepsInv ==
    ASSUME IInv, NEW now \in Time, Prune(now)
    PROVE  IInv'
<1>1. /\ DOMAIN seen = Tracked /\ DOMAIN ticks = Tracked /\ pruned \in Int
      /\ now \in Int /\ pruned \in Time \cup {Never}
    BY DEF IInv, Globals, Time, Never
<1>2. Kept(now) \subseteq Tracked
    BY DEF Kept
<1>3. /\ peers' = [p \in Kept(now) |-> Trimmed(peers[p], now - Window)]
      /\ seen' = [p \in Kept(now) |-> seen[p]]
      /\ ticks' = [p \in Kept(now) |-> ticks[p]]
      /\ pruned' = IF now > pruned THEN now ELSE pruned
      /\ lastTick' = lastTick /\ detected' = detected
    BY <1>1, <1>2 DEF Prune, Only
<1>4. Tracked' = Kept(now)
    BY <1>3 DEF Tracked
<1>5. pruned' \in Time \cup {Never}
    BY <1>1, <1>3
<1>6. Globals'
    BY <1>2, <1>3, <1>4, <1>5 DEF IInv, Globals
<1>7. ASSUME NEW p \in Tracked' PROVE PeerInv(peers'[p], seen'[p], ticks'[p], pruned')
    <2>1. PeerInv(peers[p], seen[p], ticks[p], pruned)
        BY <1>2, <1>4 DEF IInv
    <2>2. PeerInv(Trimmed(peers[p], now - Window), seen[p], ticks[p],
                  IF now > pruned THEN now ELSE pruned)
        BY <1>1, <2>1, TrimmedInv
    <2> QED BY <1>3, <1>4, <2>2
<1> QED
    BY <1>6, <1>7 DEF IInv

\* Every step keeps the invariant.
LEMMA InvStep ==
    ASSUME IInv, [Next]_vars
    PROVE  IInv'
<1>1. ASSUME NEW p \in Peer, NEW time \in Time, Observe(p, time) PROVE IInv'
    BY <1>1, ObserveKeepsInv
<1>2. ASSUME NEW now \in Time, Tick(now) PROVE IInv'
    BY <1>2, TickKeepsInv
<1>3. ASSUME NEW now \in Time, Prune(now) PROVE IInv'
    BY <1>3, PruneKeepsInv
<1>4. ASSUME NEW now \in Time, TickAgain(now) PROVE IInv'
    BY <1>4 DEF TickAgain, history, IInv, Globals, Tracked
<1>5. CASE UNCHANGED vars
    BY <1>5 DEF vars, scorer, history, IInv, Globals, Tracked
<1> QED
    BY <1>1, <1>2, <1>3, <1>4, <1>5 DEF Next

\* The invariant of the scorer: of every tracked peer the deques are the ends of
\* what was observed and decided.
THEOREM InvariantHolds == Spec => []IInv
<1>1. Init => IInv
    BY InvInit
<1>2. IInv /\ [Next]_vars => IInv'
    BY InvStep
<1> QED
    BY <1>1, <1>2, PTL DEF Spec

\* Type correctness of scorer.py's state, the length of the deque included.
THEOREM ScorerTypeCorrect == Spec => []TypeOK
<1>1. IInv => TypeOK
    BY DEF IInv, Globals, PeerInv, TypeOK, TickRecord
<1> QED
    BY <1>1, InvariantHolds, PTL

\* The assertion of tick() never fails, whatever the order and the times of the
\* calls: qualified_since is set exactly while a True is left in the deque.
THEOREM AssertionHolds == Spec => []SinceMeansQualifying
<1>1. IInv => SinceMeansQualifying
    BY DEF IInv, PeerInv, SinceMeansQualifying, SinceSet
<1> QED
    BY <1>1, InvariantHolds, PTL

\* tick() reports a peer exactly when min_consecutive_windows successive ticks found
\* its rate, for every profile.
THEOREM ReportsCorrect == Spec => []ReportsAreEarned
<1>1. IInv => ReportsAreEarned
    BY DEF IInv, PeerInv, Windowed, ReportsAreEarned
<1> QED
    BY <1>1, InvariantHolds, PTL

\* The trimming of prune() is invisible to every later window.
THEOREM WindowsExact == Spec => []WindowCountExact
<1>1. ASSUME IInv, NEW p \in Tracked, NEW now \in Time, now >= pruned
      PROVE  InWindow(peers[p].packets, now) = InWindow(seen[p], now)
    <2>1. /\ peers[p].packets \in Seq(Time) /\ seen[p] \in Seq(Time)
          /\ Suffix(peers[p].packets, seen[p], pruned)
        BY <1>1 DEF IInv, PeerInv, PeerState
    <2>2. pruned \in Int /\ now \in Int /\ pruned <= now
        BY <1>1 DEF IInv, Globals, Time, Never
    <2>3. Suffix(peers[p].packets, seen[p], now)
        BY <2>1, <2>2, SuffixGrows
    <2> QED BY <2>1, <2>2, <2>3, SuffixCount DEF Suffix
<1>2. IInv => WindowCountExact
    BY <1>1 DEF WindowCountExact
<1> QED
    BY <1>2, InvariantHolds, PTL

\* A host the live view flags is one that tick() has reported.
THEOREM FlaggedCorrect == Spec => []FlaggedIsReported
<1>1. ASSUME IInv, NEW p \in Tracked, Count(peers[p].quals) >= MinWindows
      PROVE  peers[p].reported
    <2> DEFINE q   == peers[p].quals
               log == ticks[p]
    <2>1. /\ q \in Seq(BOOLEAN) /\ Len(q) <= MinWindows /\ log \in Seq(TickRecord)
          /\ Windowed(q, peers[p].reported, log)
        BY <1>1 DEF IInv, PeerInv, PeerState
    <2> HIDE DEF q, log
    <2>2. Len(q) = MinWindows /\ \A k \in 1 .. Len(q) : q[k]
        <3>1. Count(q) \in 0 .. MinWindows /\ Count(q) >= MinWindows
            BY <1>1, <2>1, CountOfDeque DEF q
        <3>2. Count(q) = MinWindows
            BY <3>1
        <3> QED BY <2>1, <3>2, CountOfDeque
    <2>3. /\ Len(log) \in Nat /\ Len(log) >= MinWindows /\ DOMAIN log = 1 .. Len(log)
          /\ \A k \in 1 .. MinWindows : log[k + (Len(log) - MinWindows)].ok
        <3>1. Len(q) = IF Len(log) < MinWindows THEN Len(log) ELSE MinWindows
            BY <2>1 DEF Windowed
        <3>2. Len(log) \in Nat /\ DOMAIN log = 1 .. Len(log)
            BY <2>1
        <3>3. Len(log) >= MinWindows
            BY <2>2, <3>1, <3>2
        <3> QED BY <2>1, <2>2, <3>2, <3>3 DEF Windowed
    <2>4. ASSUME NEW j \in Len(log) - MinWindows + 1 .. Len(log) PROVE log[j].ok
        <3>1. j - (Len(log) - MinWindows) \in 1 .. MinWindows
              /\ j - (Len(log) - MinWindows) + (Len(log) - MinWindows) = j
            BY <2>3
        <3> QED BY <2>3, <3>1
    <2>5. RunEndsAt(log, Len(log)) /\ Len(log) \in DOMAIN log
        BY <2>3, <2>4 DEF RunEndsAt
    <2> QED BY <2>1, <2>5 DEF Windowed
<1>2. IInv => FlaggedIsReported
    BY <1>1 DEF FlaggedIsReported, Flagged
<1> QED
    BY <1>2, InvariantHolds, PTL

-----------------------------------------------------------------------------
(* PeerScorer implements HostReports.                                       *)

\* observe() tracks a peer and reports none.
LEMMA ObserveReports ==
    ASSUME IInv, NEW p \in Peer, NEW time \in Time, Observe(p, time)
    PROVE  Reports!Next
<1> DEFINE state == Old(peers, p, NewPeer(time))
<1>1. ASSUME NEW q \in Tracked PROVE peers[q] \in PeerState
    BY DEF IInv, PeerInv
<1>2. /\ state \in PeerState
      /\ p \in Tracked => state = peers[p]
      /\ p \notin Tracked => state.reported = FALSE
    BY <1>1, NewPeerType DEF Old, Tracked
<1>3. /\ peers' = With(peers, p, Noted(state, time)) /\ detected' = detected
    BY DEF Observe
<1> HIDE DEF state
<1>4. /\ Tracked' = Tracked \cup {p}
      /\ peers'[p].reported = state.reported
      /\ \A q \in Tracked \ {p} : peers'[q] = peers[q]
    BY <1>2, <1>3, NotedType DEF With, Tracked
<1>5. {q \in Tracked' : peers'[q].reported} = {q \in Tracked : peers[q].reported}
    <2>1. ASSUME NEW q
          PROVE  q \in Tracked' /\ peers'[q].reported <=> q \in Tracked /\ peers[q].reported
        <3>1. CASE q = p
            BY <1>2, <1>4, <3>1
        <3>2. CASE q # p
            BY <1>4, <3>2
        <3> QED BY <3>1, <3>2
    <2> QED BY <2>1, Zenon
<1> QED
    BY <1>3, <1>4, <1>5 DEF Reports!Next, Reports!Observe

\* tick() reports peers that are tracked and not reported yet.
LEMMA TickReports ==
    ASSUME IInv, NEW now \in Time, Tick(now)
    PROVE  Reports!Next
<1> DEFINE new == {p \in Tracked : Crossed(p, now)}
<1>1. /\ peers' = [p \in Tracked |-> Ticked(peers[p], now)]
      /\ detected' = {[peer |-> p, duration |-> Duration(p, now)] : p \in new}
    BY DEF Tick
<1>2. Tracked' = Tracked /\ \A p \in Tracked : peers'[p] = Ticked(peers[p], now)
    BY <1>1 DEF Tracked
<1>3. ASSUME NEW p \in Tracked
      PROVE  /\ Ticked(peers[p], now).reported \in BOOLEAN
             /\ peers[p].reported => Ticked(peers[p], now).reported
    <2>1. peers[p] \in PeerState /\ Len(peers[p].quals) <= MinWindows
        BY DEF IInv, PeerInv
    <2>2. Ticked(peers[p], now) \in PeerState
          /\ Ticked(peers[p], now).reported
               = (peers[p].reported \/ Count(Push(peers[p].quals,
                                         Qualifies(peers[p].packets, now))) = MinWindows)
        BY <2>1, TickedType
    <2>3. Ticked(peers[p], now).reported \in BOOLEAN
        BY <2>2 DEF PeerState
    <2> QED BY <2>2, <2>3, Zenon
<1>4. new \in SUBSET Peer /\ new \subseteq Tracked \ {p \in Tracked : peers[p].reported}
    BY DEF Crossed, IInv, Globals
<1>5. {p \in Tracked' : peers'[p].reported} = {p \in Tracked : peers[p].reported} \cup new
    <2>1. ASSUME NEW p
          PROVE  p \in Tracked' /\ peers'[p].reported
                   <=> (p \in Tracked /\ peers[p].reported) \/ p \in new
        BY <1>2, <1>3, Zenon DEF Crossed
    <2> QED BY <2>1, Zenon
<1> HIDE DEF new
<1>6. {d.peer : d \in detected'} = new
    <2>1. ASSUME NEW d \in detected' PROVE d.peer \in new
        BY <1>1, <2>1
    <2>2. ASSUME NEW p \in new PROVE \E d \in detected' : d.peer = p
        <3>1. [peer |-> p, duration |-> Duration(p, now)] \in detected'
            BY <1>1
        <3> QED BY <3>1
    <2> QED BY <2>1, <2>2
<1> QED
    BY <1>2, <1>4, <1>5, <1>6 DEF Reports!Next, Reports!Tick

\* A tick that comes again reports nobody.
LEMMA TickAgainReports ==
    ASSUME NEW now \in Time, TickAgain(now)
    PROVE  Reports!Next
BY DEF TickAgain, Tracked, Reports!Next, Reports!Tick

\* prune() forgets peers together with their reports.
LEMMA PruneReports ==
    ASSUME IInv, NEW now \in Time, Prune(now)
    PROVE  Reports!Next
<1> DEFINE gone == Tracked \ Kept(now)
<1>1. /\ peers' = [p \in Kept(now) |-> Trimmed(peers[p], now - Window)]
      /\ detected' = detected
    BY DEF Prune
<1>2. Kept(now) \subseteq Tracked
    BY DEF Kept
<1>3. Tracked' = Tracked \ gone /\ Tracked' = Kept(now)
    BY <1>1, <1>2 DEF Tracked
<1>4. ASSUME NEW p \in Kept(now) PROVE peers'[p].reported = peers[p].reported
    <2>1. peers[p] \in PeerState
        BY <1>2 DEF IInv, PeerInv
    <2>2. now - Window \in Int
        BY DEF Time
    <2> QED BY <1>1, <2>1, <2>2, TrimmedType
<1>5. {p \in Tracked' : peers'[p].reported} = {p \in Tracked : peers[p].reported} \ gone
    BY <1>2, <1>3, <1>4
<1>6. gone \in SUBSET Peer
    BY DEF IInv, Globals
<1>7. gone \subseteq Tracked
    OBVIOUS
<1> HIDE DEF gone
<1> QED
    BY <1>1, <1>3, <1>5, <1>6, <1>7 DEF Reports!Next, Reports!Forget

\* The scorer keeps the contract the daemon is built on, whatever its profile: a
\* peer is reported once while it is tracked, and only by a tick.
THEOREM ReportsImplemented == Spec => ImplementsReports
<1>1. Init => Reports!Init
    BY DEF Init, Tracked, Reports!Init
<1>2. IInv /\ [Next]_vars => [Reports!Next]_(Reports!vars)
    <2> SUFFICES ASSUME IInv, [Next]_vars
                 PROVE  Reports!Next \/ UNCHANGED Reports!vars
        OBVIOUS
    <2>1. ASSUME NEW p \in Peer, NEW time \in Time, Observe(p, time) PROVE Reports!Next
        BY <2>1, ObserveReports
    <2>2. ASSUME NEW now \in Time, Tick(now) PROVE Reports!Next
        BY <2>2, TickReports
    <2>3. ASSUME NEW now \in Time, TickAgain(now) PROVE Reports!Next
        BY <2>3, TickAgainReports
    <2>4. ASSUME NEW now \in Time, Prune(now) PROVE Reports!Next
        BY <2>4, PruneReports
    <2>5. CASE UNCHANGED vars
        BY <2>5 DEF vars, scorer, Reports!vars, Tracked
    <2> QED BY <2>1, <2>2, <2>3, <2>4, <2>5 DEF Next
<1> QED
    BY <1>1, <1>2, InvariantHolds, PTL DEF Spec, ImplementsReports, Reports!Spec

-----------------------------------------------------------------------------
(* The duration of a report.                                                *)

\* qualified_since is no later than the latest tick, nor than any tick whose True is
\* still in the deque.
Covers(quals, since, log, last) ==
    /\ since <= last
    /\ \A k \in 1 .. Len(quals) :
         quals[k] => since <= log[k + (Len(log) - Len(quals))].at

CoversAll == \A p \in Tracked : Covers(peers[p].quals, peers[p].since, ticks[p], lastTick)

\* A tick keeps qualified_since early enough for what is left in the deque.
LEMMA TickCovers ==
    ASSUME NEW state, NEW all, NEW log, NEW upto \in Int, NEW now \in Time, NEW last \in Int,
           last < now, PeerInv(state, all, log, upto),
           Covers(state.quals, state.since, log, last)
    PROVE  Covers(Ticked(state, now).quals, Ticked(state, now).since,
                  Append(log, [at |-> now, ok |-> Qualifies(state.packets, now)]), now)
<1> DEFINE ok     == Qualifies(state.packets, now)
           record == [at |-> now, ok |-> ok]
           new    == Append(log, record)
           quals  == state.quals
           q      == Push(quals, ok)
           since  == Since(state, q, ok, now)
           M      == Len(quals)
           L      == Len(q)
           N      == Len(log)
<1>1. /\ state \in PeerState /\ Len(quals) <= MinWindows /\ quals \in Seq(BOOLEAN)
      /\ log \in Seq(TickRecord) /\ state.since \in Time \cup {Never}
      /\ SinceSet(state) /\ ok \in BOOLEAN
    BY DEF PeerInv, PeerState, Qualifies
<1>2. Ticked(state, now).quals = q /\ Ticked(state, now).since = since
    BY <1>1, TickedType
<1>3. /\ q \in Seq(BOOLEAN)
      /\ L = IF M < MinWindows THEN M + 1 ELSE MinWindows
      /\ \A k \in 1 .. L - 1 : q[k] = quals[k + (M + 1 - L)]
    BY <1>1, PushOnDeque
<1>4. record \in TickRecord /\ record.at = now
    BY <1>1 DEF TickRecord
<1>5. Len(new) = N + 1 /\ new[N + 1] = record /\ \A k \in 1 .. N : new[k] = log[k]
    BY <1>1, <1>4, AppendProperties
<1>6. M = IF N < MinWindows THEN N ELSE MinWindows
    BY DEF PeerInv, Windowed
<1>7. /\ state.since <= last
      /\ \A k \in 1 .. M : quals[k] => state.since <= log[k + (N - M)].at
    BY DEF Covers
<1>8. L <= MinWindows /\ M \in Nat /\ L \in Nat /\ N \in Nat
    BY <1>1, <1>3
<1>9. Count(q) = 0 <=> \A k \in 1 .. L : ~q[k]
    BY <1>3, <1>8, CountOfDeque
<1>10. state.since # Never <=> \E k \in 1 .. M : quals[k]
    <2>1. DOMAIN quals = 1 .. M
        BY <1>1
    <2> QED BY <1>1, <2>1, Zenon DEF SinceSet
<1>11. since <= now
    BY <1>1, <1>7 DEF Since, Time, Never
<1> HIDE DEF ok, record, new, quals, q, M, L, N
<1>12. ASSUME NEW k \in 1 .. L, q[k]
       PROVE  since <= new[k + ((N + 1) - L)].at
    <2>1. CASE k = L
        <3>1. k + ((N + 1) - L) = N + 1
            BY <1>8, <2>1
        <3> QED BY <1>4, <1>5, <1>11, <3>1
    <2>2. CASE k # L
        <3> DEFINE i == k + (M + 1 - L)
        <3>1. k \in 1 .. L - 1
            BY <1>8, <2>2
        <3>2. (L = IF M < MinWindows THEN M + 1 ELSE MinWindows)
              /\ M \in Nat /\ L \in Nat /\ N \in Nat
            BY <1>3, <1>8
        <3>3. i \in 1 .. M /\ i + (N - M) = k + ((N + 1) - L) /\ i + (N - M) \in 1 .. N
            BY <1>6, <3>1, <3>2
        <3>4. quals[i]
            BY <1>3, <1>12, <3>1
        <3>5. state.since # Never /\ state.since <= log[i + (N - M)].at
            BY <1>7, <1>10, <3>3, <3>4
        <3>6. Count(q) # 0
            BY <1>9, <1>12
        <3>7. since = state.since
            BY <3>5, <3>6 DEF Since
        <3>8. log[i + (N - M)] = new[k + ((N + 1) - L)]
            BY <1>5, <3>3
        <3> QED BY <3>5, <3>7, <3>8
    <2> QED BY <2>1, <2>2
<1>13. Covers(q, since, new, now)
    <2> HIDE DEF since
    <2>1. \A k \in 1 .. Len(q) : q[k] => since <= new[k + (Len(new) - Len(q))].at
        BY <1>5, <1>12 DEF L
    <2> QED BY <1>11, <2>1 DEF Covers
<1>14. Covers(Ticked(state, now).quals, Ticked(state, now).since, new, now)
    BY <1>2, <1>13 DEF q, ok, quals
<1> QED
    BY <1>14 DEF new, record, ok

\* A new scorer has no duration to cover.
LEMMA CoversInit ==
    ASSUME Init
    PROVE  CoversAll
BY DEF Init, CoversAll, Tracked

\* Every step keeps qualified_since early enough.
LEMMA CoversStep ==
    ASSUME IInv, CoversAll, [Next]_vars
    PROVE  CoversAll'
<1>1. lastTick \in Int /\ pruned \in Int /\ lastTick >= Never /\ lastTick \in Time \cup {Never}
    BY DEF IInv, Globals, Time, Never
<1>2. ASSUME NEW p \in Peer, NEW time \in Time, Observe(p, time) PROVE CoversAll'
    <2> DEFINE state == Old(peers, p, NewPeer(time))
               log   == Old(ticks, p, << >>)
    <2>1. state \in PeerState
        BY NewPeerType DEF Old, IInv, PeerInv, Tracked
    <2>2. Covers(state.quals, state.since, log, lastTick)
        <3>1. CASE p \in Tracked
            BY <3>1 DEF CoversAll, Old, Tracked, IInv, Globals
        <3>2. CASE p \notin Tracked
            <4>1. state.quals = << >> /\ state.since = Never
                BY <3>2, NewPeerType DEF Old, Tracked
            <4>2. Len(<< >>) = 0
                OBVIOUS
            <4> QED BY <1>1, <4>1, <4>2 DEF Covers
        <3> QED BY <3>1, <3>2
    <2>3. /\ Noted(state, time).quals = state.quals
          /\ Noted(state, time).since = state.since
        BY <2>1, NotedType
    <2>4. /\ peers' = With(peers, p, Noted(state, time))
          /\ ticks' = With(ticks, p, log) /\ lastTick' = lastTick
        BY <1>2 DEF Observe
    <2>5. DOMAIN ticks = Tracked
        BY DEF IInv, Globals
    <2> HIDE DEF state, log
    <2>6. /\ Tracked' = Tracked \cup {p}
          /\ peers'[p] = Noted(state, time) /\ ticks'[p] = log
          /\ \A r \in Tracked \ {p} : peers'[r] = peers[r] /\ ticks'[r] = ticks[r]
        BY <2>4, <2>5 DEF With, Tracked
    <2>7. ASSUME NEW r \in Tracked'
          PROVE  Covers(peers'[r].quals, peers'[r].since, ticks'[r], lastTick')
        <3>1. CASE r = p
            BY <2>2, <2>3, <2>4, <2>6, <3>1
        <3>2. CASE r # p
            BY <2>4, <2>6, <2>7, <3>2 DEF CoversAll
        <3> QED BY <3>1, <3>2
    <2> QED BY <2>7 DEF CoversAll
<1>3. ASSUME NEW now \in Time, Tick(now) PROVE CoversAll'
    <2>1. lastTick < now /\ lastTick' = now
        BY <1>1, <1>3 DEF Tick, Advances, Time, Never
    <2>2. /\ peers' = [p \in Tracked |-> Ticked(peers[p], now)]
          /\ ticks' = [p \in Tracked |->
               Append(ticks[p], [at |-> now, ok |-> Qualifies(peers[p].packets, now)])]
        BY <1>3 DEF Tick
    <2>3. Tracked' = Tracked
        BY <2>2 DEF Tracked
    <2>4. ASSUME NEW p \in Tracked
          PROVE  Covers(Ticked(peers[p], now).quals, Ticked(peers[p], now).since,
                        Append(ticks[p],
                               [at |-> now, ok |-> Qualifies(peers[p].packets, now)]), now)
        <3>1. /\ PeerInv(peers[p], seen[p], ticks[p], pruned)
              /\ Covers(peers[p].quals, peers[p].since, ticks[p], lastTick)
            BY DEF IInv, CoversAll
        <3> QED BY <1>1, <2>1, <3>1, TickCovers
    <2> QED BY <2>1, <2>2, <2>3, <2>4 DEF CoversAll
<1>4. ASSUME NEW now \in Time, Prune(now) PROVE CoversAll'
    <2>1. Kept(now) \subseteq Tracked /\ DOMAIN ticks = Tracked /\ now - Window \in Int
        BY DEF Kept, IInv, Globals, Time
    <2>2. /\ peers' = [p \in Kept(now) |-> Trimmed(peers[p], now - Window)]
          /\ ticks' = [p \in Kept(now) |-> ticks[p]] /\ lastTick' = lastTick
        BY <1>4, <2>1 DEF Prune, Only
    <2>3. Tracked' = Kept(now)
        BY <2>2 DEF Tracked
    <2>4. ASSUME NEW p \in Kept(now)
          PROVE  /\ peers'[p].quals = peers[p].quals /\ peers'[p].since = peers[p].since
                 /\ ticks'[p] = ticks[p]
        <3>1. peers[p] \in PeerState
            BY <2>1 DEF IInv, PeerInv
        <3> QED BY <2>1, <2>2, <3>1, TrimmedType
    <2> QED BY <2>1, <2>2, <2>3, <2>4 DEF CoversAll
<1>5. ASSUME NEW now \in Time, TickAgain(now) PROVE CoversAll'
    BY <1>5 DEF TickAgain, history, CoversAll, Tracked
<1>6. CASE UNCHANGED vars
    BY <1>6 DEF vars, scorer, history, CoversAll, Tracked
<1> QED
    BY <1>2, <1>3, <1>4, <1>5, <1>6 DEF Next

\* duration_seconds reaches back at least to the first tick of the run that is
\* reported, for every profile and every time of the calls.
THEOREM DurationCorrect == Spec => DurationCoversRun
<1> DEFINE Covered ==
        \A d \in detected' \ detected :
          LET log == ticks'[d.peer]
          IN  d.duration >= lastTick' - log[Len(log) - MinWindows + 1].at
<1>1. ASSUME IInv, CoversAll, CoversAll', IInv', NEW now \in Time, Tick(now),
             NEW d \in detected'
      PROVE  d.duration >= lastTick'
                             - ticks'[d.peer][Len(ticks'[d.peer]) - MinWindows + 1].at
    <2>1. PICK p \in Tracked : Crossed(p, now) /\ d = [peer |-> p, duration |-> Duration(p, now)]
        BY <1>1 DEF Tick
    <2>2. lastTick' = now /\ peers'[p] = Ticked(peers[p], now) /\ p \in Tracked'
        BY <1>1, <2>1 DEF Tick, Tracked
    <2> DEFINE q     == peers'[p].quals
               since == peers'[p].since
               log   == ticks'[p]
    <2>3. /\ q \in Seq(BOOLEAN) /\ Len(q) <= MinWindows /\ log \in Seq(TickRecord)
          /\ Len(q) = (IF Len(log) < MinWindows THEN Len(log) ELSE MinWindows)
          /\ since \in Int
        <3>1. PeerInv(peers'[p], seen'[p], log, pruned')
            BY <1>1, <2>2 DEF IInv
        <3>2. peers'[p] \in PeerState
            BY <3>1 DEF PeerInv
        <3>3. since \in Int
            BY <3>2 DEF PeerState, Time, Never
        <3> QED BY <3>1, <3>2, <3>3 DEF PeerInv, PeerState, Windowed
    <2>4. Count(q) = MinWindows
        <3>1. PeerInv(peers[p], seen[p], ticks[p], pruned)
            BY <1>1, <2>1 DEF IInv
        <3>2. peers[p] \in PeerState /\ Len(peers[p].quals) <= MinWindows
            BY <3>1 DEF PeerInv
        <3>3. /\ Ticked(peers[p], now).quals
                   = Push(peers[p].quals, Qualifies(peers[p].packets, now))
              /\ Ticked(peers[p], now).reported
                   = (peers[p].reported
                      \/ Count(Push(peers[p].quals,
                                    Qualifies(peers[p].packets, now))) = MinWindows)
            BY <1>1, <3>2, TickedType
        <3> QED BY <2>1, <2>2, <3>3 DEF Crossed
    <2>5. Covers(q, since, log, now)
        BY <1>1, <2>2 DEF CoversAll
    <2>6. d.peer = p /\ d.duration = now - since
        BY <2>1, <2>2 DEF Duration
    <2> HIDE DEF q, since, log
    <2>7. Len(q) = MinWindows /\ q[1]
        <3>1. Len(q) = MinWindows /\ \A k \in 1 .. Len(q) : q[k]
            BY <2>3, <2>4, CountOfDeque
        <3> QED BY <3>1
    <2>8. since <= log[1 + (Len(log) - Len(q))].at
        BY <2>5, <2>7 DEF Covers
    <2>9. /\ Len(log) \in Nat /\ Len(log) >= MinWindows
          /\ 1 + (Len(log) - Len(q)) = Len(log) - MinWindows + 1
        <3>1. Len(log) \in Nat
            BY <2>3
        <3>2. Len(q) = MinWindows
              /\ Len(q) = (IF Len(log) < MinWindows THEN Len(log) ELSE MinWindows)
            BY <2>3, <2>7
        <3> QED BY <3>1, <3>2
    <2>10. Len(log) - MinWindows + 1 \in 1 .. Len(log)
        BY <2>9
    <2>11. log[Len(log) - MinWindows + 1] \in TickRecord
        BY <2>3, <2>10
    <2>12. log[Len(log) - MinWindows + 1].at \in Int
        BY <2>11 DEF TickRecord, Time
    <2>13. now - since >= now - log[Len(log) - MinWindows + 1].at
        <3>1. since <= log[Len(log) - MinWindows + 1].at
            BY <2>8, <2>9
        <3>2. since \in Int /\ now \in Int
            BY <2>3 DEF Time
        <3> QED BY <2>12, <3>1, <3>2
    <2> QED BY <2>2, <2>6, <2>13 DEF log
<1>2. IInv /\ IInv' /\ CoversAll /\ CoversAll' /\ [Next]_vars => [Covered]_vars
    <2> SUFFICES ASSUME IInv, IInv', CoversAll, CoversAll', Next
                 PROVE  Covered
        OBVIOUS
    <2>1. ASSUME NEW now \in Time, Tick(now) PROVE Covered
        BY <1>1, <2>1
    <2>2. ASSUME detected' \subseteq detected PROVE Covered
        BY <2>2
    <2>3. ASSUME NEW p \in Peer, NEW time \in Time, Observe(p, time) PROVE Covered
        BY <2>2, <2>3 DEF Observe
    <2>4. ASSUME NEW now \in Time, TickAgain(now) \/ Prune(now) PROVE Covered
        BY <2>2, <2>4 DEF TickAgain, Prune
    <2> HIDE DEF Covered
    <2> QED BY <2>1, <2>3, <2>4 DEF Next
<1>3. Init => IInv /\ CoversAll
    BY InvInit, CoversInit
<1>4. IInv /\ CoversAll /\ [Next]_vars => IInv' /\ CoversAll'
    BY InvStep, CoversStep
<1> HIDE DEF Covered
<1>5. Spec => [][Covered]_vars
    BY <1>2, <1>3, <1>4, PTL DEF Spec
<1> QED
    BY <1>5 DEF DurationCoversRun, Covered
=============================================================================
