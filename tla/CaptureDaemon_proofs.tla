------------------------- MODULE CaptureDaemon_proofs -------------------------
(***************************************************************************)
(* Theorems about CaptureDaemon for every set of peers, every length of    *)
(* the queue and any number of faults.                                     *)
(***************************************************************************)
EXTENDS CaptureDaemon, TLAPS

USE CaptureAssumption DEF CaptureAssumption

-----------------------------------------------------------------------------
(* The inductive invariant.                                                 *)

\* Peers whose present appearance is still to be recorded, if it ever is.
Waiting == (tracked \ reported) \cup todo

NothingLeft == pc # "record" => todo = {}

Alive == \A p \in tracked : life[p] >= 1

NoRowAhead == \A k \in DOMAIN hosts : hosts[k].life <= life[hosts[k].peer]

NotYet == \A p \in Waiting : ~IsRecorded(This(p))

IInv ==
    /\ TypeOK /\ NothingLeft /\ Alive /\ NoRowAhead /\ NotYet
    /\ ReportedIsRecorded /\ FlaggedIsRecorded /\ OneRowPerAppearance

LEMMA InitInv == Init => IInv
<1> SUFFICES ASSUME Init
             PROVE  IInv
    OBVIOUS
<1>1. /\ tracked = {} /\ reported = {} /\ fresh = {} /\ todo = {} /\ hosts = <<>> /\ batch = {}
      /\ life = [p \in Peer |-> 0]
    BY DEF Init, Scorer!Init
<1>2. DOMAIN hosts = {}
    BY <1>1
<1>3. TypeOK
    <2>1. queue \in Seq(Peer) /\ Len(queue) <= MaxQueue /\ faults \in 0 .. MaxFaults
        BY DEF Init
    <2>2. shutdown \in BOOLEAN /\ sniffing \in BOOLEAN
        BY DEF Init
    <2>3. pc = "down"
        BY DEF Init
    <2>4. hosts \in Seq(Appearance) /\ life \in [Peer -> 0 .. MaxLife]
        BY <1>1
    <2> QED
        BY <1>1, <2>1, <2>2, <2>3, <2>4 DEF TypeOK
<1> QED
    BY <1>1, <1>2, <1>3
    DEF IInv, NothingLeft, Alive, NoRowAhead, NotYet, Waiting, ReportedIsRecorded,
        FlaggedIsRecorded, OneRowPerAppearance

\* The appearance of a tracked peer.
LEMMA ThisIs ==
    ASSUME IInv, NEW p \in tracked
    PROVE  p \in Peer /\ This(p) \in Appearance
<1>1. p \in Peer /\ life[p] \in 0 .. MaxLife /\ life[p] >= 1
    BY DEF IInv, TypeOK, Alive
<1> QED
    BY <1>1 DEF This, Appearance

\* A row of the live view.
LEMMA RowType ==
    ASSUME NEW R, NEW r \in R, NEW S, NEW p
    PROVE  [row |-> r, flagged |-> p \in S] \in [row : R, flagged : BOOLEAN]
BY SMT

-----------------------------------------------------------------------------
(* The types, step by step.                                                 *)

LEMMA TypeStep ==
    ASSUME IInv, [Next]_vars
    PROVE  TypeOK'
<1> DEFINE Place == {"down", "loop", "tick", "record", "snapshot", "prune", "stopped"}
<1>1. /\ pc \in Place /\ shutdown \in BOOLEAN /\ sniffing \in BOOLEAN
      /\ queue \in Seq(Peer) /\ Len(queue) <= MaxQueue
      /\ tracked \subseteq Peer /\ reported \subseteq tracked /\ fresh \subseteq Peer
      /\ todo \subseteq reported /\ hosts \in Seq(Appearance)
      /\ batch \subseteq [row : Appearance, flagged : BOOLEAN]
      /\ life \in [Peer -> 0 .. MaxLife] /\ faults \in 0 .. MaxFaults
    BY DEF IInv, TypeOK
<1>2. Forgotten => /\ shutdown' \in BOOLEAN /\ sniffing' \in BOOLEAN
                   /\ queue' \in Seq(Peer) /\ Len(queue') <= MaxQueue
                   /\ tracked' = {} /\ reported' = {} /\ fresh' = {} /\ todo' = {}
    <2> SUFFICES ASSUME Forgotten
                 PROVE  /\ shutdown' \in BOOLEAN /\ sniffing' \in BOOLEAN
                        /\ queue' \in Seq(Peer) /\ Len(queue') <= MaxQueue
                        /\ tracked' = {} /\ reported' = {} /\ fresh' = {} /\ todo' = {}
        OBVIOUS
    <2>1. shutdown' \in BOOLEAN /\ sniffing' \in BOOLEAN
        BY Zenon DEF Forgotten
    <2>2. /\ queue' \in Seq(Peer) /\ Len(queue') <= MaxQueue
          /\ tracked' = {} /\ reported' = {} /\ fresh' = {} /\ todo' = {}
        BY DEF Forgotten
    <2> QED
        BY <2>1, <2>2
<1>3. Fault => faults' \in 0 .. MaxFaults
    BY <1>1 DEF Fault
<1>4. queue # <<>> => /\ Head(queue) \in Peer /\ Tail(queue) \in Seq(Peer)
                      /\ Len(Tail(queue)) <= MaxQueue
    BY <1>1
<1>5. CASE Start \/ OperatorStart \/ Signal \/ Recorded \/ UNCHANGED vars
    <2>1. pc' \in Place
        BY <1>1, <1>5 DEF Start, OperatorStart, Signal, Recorded, vars
    <2>2. shutdown' \in BOOLEAN /\ sniffing' \in BOOLEAN
        BY <1>1, <1>5 DEF Start, OperatorStart, Signal, Recorded, vars
    <2>3. faults' \in 0 .. MaxFaults
        BY <1>1, <1>3, <1>5 DEF Start, OperatorStart, Signal, Recorded, vars
    <2>4. UNCHANGED <<queue, scorer, todo, database, life>>
        BY <1>5 DEF Start, OperatorStart, Signal, Recorded, vars
    <2> QED
        BY <1>1, <2>1, <2>2, <2>3, <2>4 DEF TypeOK, scorer, database
<1>6. ASSUME NEW p \in Peer, Packet(p)
      PROVE  TypeOK'
    <2>1. queue' \in Seq(Peer) /\ Len(queue') <= MaxQueue
        BY <1>1, <1>6 DEF Packet
    <2> QED
        BY <1>1, <1>6, <2>1 DEF Packet, TypeOK, scorer, database
<1>7. CASE SnifferDies
    <2>1. sniffing' \in BOOLEAN /\ faults' \in 0 .. MaxFaults
        BY <1>3, <1>7 DEF SnifferDies
    <2> QED
        BY <1>1, <1>7, <2>1 DEF SnifferDies, TypeOK, scorer, database
<1>8. CASE Finish \/ DatabaseLocked \/ Crash
    <2>1. Forgotten /\ pc' \in Place /\ UNCHANGED <<database, life>> /\ faults' \in 0 .. MaxFaults
        BY <1>1, <1>3, <1>8 DEF Finish, DatabaseLocked, Crash
    <2> QED
        BY <1>1, <1>2, <2>1 DEF TypeOK, database
<1>9. CASE Ignore
    BY <1>1, <1>4, <1>9 DEF Ignore, TypeOK, scorer, database
<1>10. CASE Observe
    <2> DEFINE p == Head(queue)
    <2>1. /\ queue # <<>> /\ p \in Peer /\ pc' = "tick" /\ queue' = Tail(queue)
          /\ p \notin tracked => life[p] < MaxLife
          /\ tracked' = tracked \cup {p} /\ UNCHANGED <<reported, fresh, todo, database, faults>>
          /\ life' = [life EXCEPT ![p] = IF p \in tracked THEN @ ELSE @ + 1]
        BY <1>4, <1>10 DEF Observe, Scorer!Observe
    <2>2. UNCHANGED <<shutdown, sniffing>>
        BY <1>10 DEF Observe
    <2>3. life' \in [Peer -> 0 .. MaxLife]
        BY <1>1, <2>1
    <2> QED
        BY <1>1, <1>4, <2>1, <2>2, <2>3 DEF TypeOK, database
<1>11. CASE Tick
    BY <1>1, <1>11 DEF Tick, Scorer!Tick, TypeOK, database
<1>12. ASSUME NEW p \in Peer, Record(p)
       PROVE  TypeOK'
    <2>1. This(p) \in Appearance
        BY <1>1, <1>12, ThisIs DEF Record
    <2>2. hosts' \in Seq(Appearance)
        BY <1>1, <1>12, <2>1 DEF Record
    <2> QED
        BY <1>1, <1>12, <2>2 DEF Record, TypeOK, scorer
<1>13. CASE Snapshot
    <2>1. batch' \subseteq [row : Appearance, flagged : BOOLEAN]
        <3>1. ASSUME NEW flagged
              PROVE  {[row |-> This(p), flagged |-> p \in flagged] : p \in tracked}
                        \subseteq [row : Appearance, flagged : BOOLEAN]
            <4> SUFFICES ASSUME NEW p \in tracked
                         PROVE  [row |-> This(p), flagged |-> p \in flagged]
                                    \in [row : Appearance, flagged : BOOLEAN]
                OBVIOUS
            <4>1. This(p) \in Appearance
                BY ThisIs
            <4> QED
                BY <4>1, RowType
        <3> QED
            BY <1>1, <1>13, <3>1 DEF Snapshot
    <2> QED
        BY <1>1, <1>13, <2>1 DEF Snapshot, TypeOK, scorer
<1>14. CASE Prune
    <2>1. todo = {}
        BY <1>14 DEF Prune, IInv, NothingLeft
    <2> QED
        BY <1>1, <1>14, <2>1 DEF Prune, Scorer!Forget, TypeOK, database
<1> QED
    BY <1>5, <1>6, <1>7, <1>8, <1>9, <1>10, <1>11, <1>12, <1>13, <1>14 DEF Next, Loop

-----------------------------------------------------------------------------
(* The tables and what the process believes of them.                        *)

\* A step that leaves the tables alone, lets no peer appear, and claims no recording
\* that had not been claimed.
LEMMA NoRowsStep ==
    ASSUME IInv, TypeOK', UNCHANGED <<database, life>>, NothingLeft',
           tracked' \subseteq tracked, Waiting' \subseteq Waiting,
           reported' \ todo' \subseteq reported \ todo
    PROVE  IInv'
<1>1. hosts' = hosts /\ batch' = batch /\ life' = life
    BY DEF database
<1>2. \A a : IsRecorded(a)' <=> IsRecorded(a)
    BY <1>1 DEF IsRecorded
<1>3. \A p : This(p)' = This(p)
    BY <1>1 DEF This
<1>4. Alive' /\ NoRowAhead' /\ OneRowPerAppearance'
    BY <1>1 DEF IInv, Alive, NoRowAhead, OneRowPerAppearance
<1>5. NotYet' /\ ReportedIsRecorded' /\ FlaggedIsRecorded'
    BY <1>1 DEF IInv, NotYet, ReportedIsRecorded, FlaggedIsRecorded, IsRecorded, This
<1> QED
    BY <1>4, <1>5 DEF IInv

LEMMA QuietSteps ==
    ASSUME IInv,
           \/ Start \/ Finish \/ Ignore \/ Tick \/ Recorded \/ Prune
           \/ (\E p \in Peer : Packet(p))
           \/ SnifferDies \/ DatabaseLocked \/ Crash \/ Signal \/ OperatorStart
           \/ UNCHANGED vars
    PROVE  IInv'
<1>1. TypeOK' /\ todo \subseteq reported /\ reported \subseteq tracked
    BY TypeStep DEF Next, Loop, IInv, TypeOK
<1>2. CASE Start \/ Ignore \/ Recorded \/ (\E p \in Peer : Packet(p)) \/ SnifferDies
           \/ Signal \/ OperatorStart \/ UNCHANGED vars
    <2>1. UNCHANGED <<scorer, todo, database, life>>
        BY <1>2 DEF Start, Ignore, Recorded, Packet, SnifferDies, Signal, OperatorStart, vars
    <2>2. NothingLeft'
        BY <1>2 DEF Start, Ignore, Recorded, Packet, SnifferDies, Signal, OperatorStart, vars,
                    IInv, NothingLeft
    <2> QED
        BY <1>1, <2>1, <2>2, NoRowsStep DEF scorer, Waiting
<1>3. CASE Finish \/ DatabaseLocked \/ Crash
    <2>1. UNCHANGED <<database, life>> /\ tracked' = {} /\ reported' = {} /\ todo' = {}
        BY <1>3 DEF Finish, DatabaseLocked, Crash, Forgotten
    <2> QED
        BY <1>1, <2>1, NoRowsStep DEF Waiting, NothingLeft
<1>4. CASE Tick
    <2>1. todo = {}
        BY <1>4 DEF Tick, IInv, NothingLeft
    <2>2. PICK new \in SUBSET (tracked \ reported) :
              /\ reported' = reported \cup new /\ todo' = new /\ tracked' = tracked
              /\ pc' = "record" /\ UNCHANGED <<database, life>>
        BY <1>4 DEF Tick, Scorer!Tick
    <2> QED
        BY <1>1, <2>1, <2>2, NoRowsStep DEF Waiting, NothingLeft
<1>5. CASE Prune
    <2>1. todo = {} /\ todo' = {}
        BY <1>5 DEF Prune, IInv, NothingLeft
    <2>2. PICK gone \in SUBSET tracked :
              /\ tracked' = tracked \ gone /\ reported' = reported \ gone
              /\ UNCHANGED <<database, life>>
        BY <1>5 DEF Prune, Scorer!Forget
    <2> QED
        BY <1>1, <2>1, <2>2, NoRowsStep DEF Waiting, NothingLeft
<1> QED
    BY <1>2, <1>3, <1>4, <1>5

\* A packet of a peer that is not tracked begins an appearance that has no row.
LEMMA ObserveInv ==
    ASSUME IInv, Observe
    PROVE  IInv'
<1> DEFINE p == Head(queue)
<1>1. /\ tracked' = tracked \cup {p} /\ UNCHANGED <<reported, todo, database>>
      /\ life' = [life EXCEPT ![p] = IF p \in tracked THEN @ ELSE @ + 1]
      /\ pc = "loop" /\ queue # <<>>
    BY DEF Observe, Scorer!Observe
<1>2. p \in Peer /\ life \in [Peer -> 0 .. MaxLife] /\ tracked \subseteq Peer
    BY <1>1 DEF IInv, TypeOK
<1>3. TypeOK'
    BY TypeStep DEF Next, Loop
<1>4. todo = {} /\ NothingLeft'
    BY <1>1 DEF IInv, NothingLeft
<1>5. /\ p \in tracked => life' = life
      /\ p \notin tracked => life'[p] = life[p] + 1
      /\ \A q \in Peer \ {p} : life'[q] = life[q]
      /\ \A q \in Peer : life'[q] >= life[q]
    BY <1>1, <1>2
<1>6. hosts' = hosts /\ batch' = batch
    BY <1>1 DEF database
<1>7. \A k \in DOMAIN hosts : hosts[k] \in Appearance
    BY DEF IInv, TypeOK
<1>8. Alive'
    <2> SUFFICES ASSUME NEW q \in tracked'
                 PROVE  life'[q] >= 1
        BY DEF Alive
    <2>1. CASE q \in tracked
        BY <1>2, <1>5, <2>1 DEF IInv, Alive
    <2>2. CASE q \notin tracked
        BY <1>1, <1>2, <1>5, <2>2
    <2> QED
        BY <2>1, <2>2
<1>9. NoRowAhead'
    <2> SUFFICES ASSUME NEW k \in DOMAIN hosts
                 PROVE  hosts[k].life <= life'[hosts[k].peer]
        BY <1>6 DEF NoRowAhead
    <2>1. hosts[k].peer \in Peer /\ hosts[k].life \in Nat
        BY <1>7 DEF Appearance
    <2>2. life'[hosts[k].peer] >= life[hosts[k].peer] /\ life'[hosts[k].peer] \in Nat
        BY <1>3, <1>5, <2>1 DEF TypeOK
    <2> QED
        BY <1>2, <2>1, <2>2 DEF IInv, NoRowAhead
<1>10. \A q \in Peer : q # p \/ p \in tracked => This(q)' = This(q)
    BY <1>5 DEF This
<1>11. NotYet'
    <2> SUFFICES ASSUME NEW q \in tracked' \ reported
                 PROVE  ~IsRecorded(This(q))'
        BY <1>1, <1>4 DEF NotYet, Waiting
    <2>1. CASE q \in tracked
        <3>1. This(q)' = This(q) /\ ~IsRecorded(This(q))
            BY <1>2, <1>10, <2>1 DEF IInv, NotYet, Waiting
        <3> QED
            BY <1>6, <3>1 DEF IsRecorded
    <2>2. CASE q \notin tracked
        <3>1. q = p /\ life'[p] = life[p] + 1
            BY <1>1, <1>5, <2>2
        <3>2. ASSUME NEW k \in DOMAIN hosts, hosts[k] = This(q)'
              PROVE  FALSE
            <4>1. hosts[k].peer = p /\ hosts[k].life = life[p] + 1
                BY <3>1, <3>2 DEF This
            <4>2. hosts[k].life <= life[p]
                BY <4>1 DEF IInv, NoRowAhead
            <4> QED
                BY <1>2, <4>1, <4>2
        <3> QED
            BY <1>6, <3>2 DEF IsRecorded
    <2> QED
        BY <2>1, <2>2
<1>12. ReportedIsRecorded'
    <2>1. \A q \in reported : q \in tracked /\ q \in Peer
        BY <1>2 DEF IInv, TypeOK
    <2> QED
        BY <1>1, <1>4, <1>6, <1>10, <2>1 DEF IInv, ReportedIsRecorded, IsRecorded
<1>13. FlaggedIsRecorded' /\ OneRowPerAppearance'
    BY <1>6 DEF IInv, FlaggedIsRecorded, OneRowPerAppearance, IsRecorded
<1> QED
    BY <1>3, <1>4, <1>8, <1>9, <1>11, <1>12, <1>13 DEF IInv

\* A row is added for an appearance that had none.
LEMMA RecordInv ==
    ASSUME IInv, NEW p \in Peer, Record(p)
    PROVE  IInv'
<1>1. /\ pc = "record" /\ p \in todo /\ hosts' = Append(hosts, This(p)) /\ todo' = todo \ {p}
      /\ UNCHANGED <<pc, tracked, reported, batch, life>>
    BY DEF Record, scorer
<1>2. todo \subseteq reported /\ reported \subseteq tracked /\ tracked \subseteq Peer
    BY DEF IInv, TypeOK
<1>3. hosts \in Seq(Appearance) /\ This(p) \in Appearance /\ life \in [Peer -> 0 .. MaxLife]
    BY <1>1, <1>2, ThisIs DEF IInv, TypeOK
<1>4. /\ DOMAIN hosts = 1 .. Len(hosts) /\ Len(hosts) \in Nat
      /\ DOMAIN hosts' = 1 .. Len(hosts) + 1
      /\ \A k \in DOMAIN hosts : hosts'[k] = hosts[k]
      /\ hosts'[Len(hosts) + 1] = This(p)
    BY <1>1, <1>3
<1>5. \A a : IsRecorded(a)' <=> (IsRecorded(a) \/ a = This(p))
    BY <1>4 DEF IsRecorded
<1>6. \A q : This(q)' = This(q)
    BY <1>1 DEF This
<1>7. ~IsRecorded(This(p))
    BY <1>1 DEF IInv, NotYet, Waiting
<1>8. TypeOK'
    BY TypeStep DEF Next, Loop
<1>9. NothingLeft' /\ Alive'
    BY <1>1 DEF IInv, NothingLeft, Alive
<1>10. NoRowAhead'
    <2> SUFFICES ASSUME NEW k \in DOMAIN hosts'
                 PROVE  hosts'[k].life <= life[hosts'[k].peer]
        BY <1>1 DEF NoRowAhead
    <2>1. CASE k \in DOMAIN hosts
        BY <1>4, <2>1 DEF IInv, NoRowAhead
    <2>2. CASE k = Len(hosts) + 1
        BY <1>3, <1>4, <2>2 DEF This
    <2> QED
        BY <1>4, <2>1, <2>2
<1>11. NotYet'
    <2> SUFFICES ASSUME NEW q \in Waiting'
                 PROVE  ~IsRecorded(This(q))'
        BY DEF NotYet
    <2>. SUFFICES ~IsRecorded(This(q)) /\ This(q) # This(p)
        BY <1>4, <1>6 DEF IsRecorded
    <2>1. q \in Waiting /\ q # p
        BY <1>1, <1>2 DEF Waiting
    <2> QED
        BY <2>1 DEF IInv, NotYet, This
<1>12. ReportedIsRecorded' /\ FlaggedIsRecorded'
    BY <1>1, <1>5, <1>6 DEF IInv, ReportedIsRecorded, FlaggedIsRecorded, IsRecorded, This
<1>13. OneRowPerAppearance'
    <2> SUFFICES ASSUME NEW j \in DOMAIN hosts', NEW k \in DOMAIN hosts', hosts'[j] = hosts'[k]
                 PROVE  j = k
        BY DEF OneRowPerAppearance
    <2>1. CASE j \in DOMAIN hosts /\ k \in DOMAIN hosts
        BY <1>4, <2>1 DEF IInv, OneRowPerAppearance
    <2>2. CASE j \notin DOMAIN hosts \/ k \notin DOMAIN hosts
        BY <1>4, <1>7, <2>2 DEF IsRecorded
    <2> QED
        BY <2>1, <2>2
<1> QED
    BY <1>8, <1>9, <1>10, <1>11, <1>12, <1>13 DEF IInv

\* Rows of the live view flag only what has been reported, with nothing left to record.
LEMMA SnapshotInv ==
    ASSUME IInv, Snapshot
    PROVE  IInv'
<1>1. pc = "snapshot" /\ pc' = "prune" /\ UNCHANGED <<tracked, reported, todo, hosts, life>>
    BY DEF Snapshot, scorer
<1>2. \A b \in batch' : b.flagged => IsRecorded(b.row)
    <2>1. CASE batch' = batch
        BY <2>1 DEF IInv, FlaggedIsRecorded
    <2>2. ASSUME NEW flagged \in SUBSET reported,
                 batch' = {[row |-> This(p), flagged |-> p \in flagged] : p \in tracked}
          PROVE  \A b \in batch' : b.flagged => IsRecorded(b.row)
        <3> SUFFICES ASSUME NEW b \in batch', b.flagged
                     PROVE  IsRecorded(b.row)
            OBVIOUS
        <3>1. PICK p \in tracked : b = [row |-> This(p), flagged |-> p \in flagged]
            BY <2>2
        <3>2. b.row = This(p) /\ (b.flagged = (p \in flagged))
            BY <3>1, Zenon
        <3>3. p \in reported /\ todo = {}
            BY <1>1, <2>2, <3>2 DEF IInv, NothingLeft
        <3> QED
            BY <3>2, <3>3 DEF IInv, ReportedIsRecorded
    <2> QED
        BY <2>1, <2>2 DEF Snapshot
<1>3. \A a : IsRecorded(a)' <=> IsRecorded(a)
    BY <1>1 DEF IsRecorded
<1>4. TypeOK'
    BY TypeStep DEF Next, Loop
<1>5. NothingLeft' /\ Alive' /\ NoRowAhead' /\ OneRowPerAppearance'
    BY <1>1 DEF IInv, NothingLeft, Alive, NoRowAhead, OneRowPerAppearance
<1>6. NotYet' /\ ReportedIsRecorded'
    BY <1>1 DEF IInv, NotYet, Waiting, ReportedIsRecorded, IsRecorded, This
<1>7. FlaggedIsRecorded'
    BY <1>1, <1>2 DEF FlaggedIsRecorded, IsRecorded
<1> QED
    BY <1>4, <1>5, <1>6, <1>7 DEF IInv

-----------------------------------------------------------------------------
(* The theorems.                                                            *)

\* What holds of the scorer and its tables through any crashes and failed inserts.
THEOREM InvariantHolds == Spec => []IInv
<1>1. IInv /\ [Next]_vars => IInv'
    BY QuietSteps, ObserveInv, RecordInv, SnapshotInv DEF Next, Loop
<1> QED
    BY InitInv, <1>1, PTL DEF Spec

\* The variables keep their types.
THEOREM TypeCorrect == Spec => []TypeOK
BY InvariantHolds, PTL DEF IInv

\* What the process believes it has reported is in the database, but for what it is
\* recording just now.
THEOREM ReportedRecorded == Spec => []ReportedIsRecorded
BY InvariantHolds, PTL DEF IInv

\* A peer that the live view flags has its row in detected_hosts, in every state of the
\* two tables that a reader can see.
THEOREM FlaggedRecorded == Spec => []FlaggedIsRecorded
BY InvariantHolds, PTL DEF IInv

\* No appearance of a peer is recorded twice.
THEOREM OneRowEach == Spec => []OneRowPerAppearance
BY InvariantHolds, PTL DEF IInv
=============================================================================
