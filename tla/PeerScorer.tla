----------------------------- MODULE PeerScorer -----------------------------
(***************************************************************************)
(* xblp_capture/scorer.py: the rolling windows that decide which peer is   *)
(* reported as the host of a game.                                         *)
(*                                                                         *)
(* The scorer has no clock.  A packet carries the time of its capture, a   *)
(* tick or a prune the time its caller read, and nothing orders them: the  *)
(* packets wait in a queue and the wall clock can be set.  Every time of   *)
(* Time is therefore allowed in every call.                                *)
(***************************************************************************)
EXTENDS Integers, Sequences, FiniteSets

CONSTANTS
    Peer,
    Window,     \* detection.window_seconds
    MinPackets, \* the least packet count in a window with pps >= detection.min_pps
    MinWindows, \* detection.min_consecutive_windows
    Retention,  \* prune's retention_seconds
    MaxTime,    \* bound: times are 0 .. MaxTime
    MaxPackets  \* bound: packets of one peer while it is tracked

ASSUME ScorerAssumption ==
    /\ Window \in Nat \ {0} /\ MinPackets \in Nat \ {0}
    /\ MinWindows \in Nat \ {0} /\ Retention \in Nat
    /\ MaxTime \in Nat /\ MaxPackets \in Nat

VARIABLES
    peers,    \* _peers: peer -> its _PeerState
    lastTick, \* _last_tick_at
    detected, \* the hosts the last tick returned, with their duration
    seen,     \* history: every packet time of a tracked peer, never trimmed
    ticks,    \* history: the ticks of a tracked peer and their verdicts
    pruned    \* history: the latest time a prune was given

scorer  == <<peers, lastTick, detected>>
history == <<seen, ticks, pruned>>
vars    == <<scorer, history>>

Time  == 0 .. MaxTime
Never == -1     \* None

PeerState == [packets  : Seq(Time),    \* arrival order
              quals    : Seq(BOOLEAN), \* recent_qualifications
              lastSeen : Time,
              since    : Time \cup {Never},
              reported : BOOLEAN]

Tracked == DOMAIN peers

\* Packets at or after the start of the window that ends now.
InWindow(packets, now) ==
    Cardinality({k \in DOMAIN packets : packets[k] >= now - Window})

Qualifies(packets, now) == InWindow(packets, now) >= MinPackets

\* sum(recent_qualifications)
Count(quals) == Cardinality({k \in DOMAIN quals : quals[k]})

\* Mutant of Push: a deque one longer than min_consecutive_windows.
PushTooLong(quals, ok) ==
    LET longer == Append(quals, ok)
    IN  IF Len(longer) > MinWindows + 1 THEN Tail(longer) ELSE longer

\* Append to a deque of maxlen min_consecutive_windows.
Push(quals, ok) ==
    LET longer == Append(quals, ok)
    IN  IF Len(longer) > MinWindows THEN Tail(longer) ELSE longer

\* Mutant of Trim: the packet at the start of the window goes too.
TrimOneMore(packets, from) ==
    LET old == {k \in DOMAIN packets : \A j \in 1 .. k : packets[j] <= from}
    IN  SubSeq(packets, Cardinality(old) + 1, Len(packets))

\* popleft while the head is older than the window.
Trim(packets, from) ==
    LET old == {k \in DOMAIN packets : \A j \in 1 .. k : packets[j] < from}
    IN  SubSeq(packets, Cardinality(old) + 1, Len(packets))

Init ==
    /\ peers = <<>> /\ lastTick = Never /\ detected = {}
    /\ seen = <<>> /\ ticks = <<>> /\ pruned = Never

-----------------------------------------------------------------------------

NewPeer(time) ==
    [packets |-> <<>>, quals |-> <<>>, lastSeen |-> time, since |-> Never,
     reported |-> FALSE]

With(f, p, value) == [q \in DOMAIN f \cup {p} |-> IF q = p THEN value ELSE f[q]]
Only(f, S) == [q \in DOMAIN f \cap S |-> f[q]]
Old(f, p, new) == IF p \in DOMAIN f THEN f[p] ELSE new

Noted(state, time) ==
    [state EXCEPT !.packets = Append(state.packets, time),
                  !.lastSeen = IF time > state.lastSeen THEN time ELSE state.lastSeen]

\* A packet between the Xbox and p that passes the transport, port and allowlist
\* filters; any other leaves no trace.
Observe(p, time) ==
    /\ Len(Old(seen, p, <<>>)) < MaxPackets
    /\ peers' = With(peers, p, Noted(Old(peers, p, NewPeer(time)), time))
    /\ seen'  = With(seen, p, Append(Old(seen, p, <<>>), time))
    /\ ticks' = With(ticks, p, Old(ticks, p, <<>>))
    /\ UNCHANGED <<lastTick, detected, pruned>>

\* Mutant of Since: one failed window ends the activity.
SinceReset(state, quals, ok, now) ==
    IF ok /\ state.since = Never THEN now
    ELSE IF ~ok THEN Never ELSE state.since

\* Mutant of Since: every qualifying tick starts the activity anew.
SinceRefreshed(state, quals, ok, now) ==
    IF ok THEN now ELSE IF Count(quals) = 0 THEN Never ELSE state.since

\* The windows of one peer after a tick: the verdict, the start of the activity,
\* the report.
Since(state, quals, ok, now) ==
    IF ok /\ state.since = Never THEN now
    ELSE IF Count(quals) = 0 THEN Never ELSE state.since

\* Mutant of Ticked: the report is decided before the new verdict is pushed.
TickedLate(state, now) ==
    LET ok    == Qualifies(state.packets, now)
        quals == Push(state.quals, ok)
    IN  [state EXCEPT !.quals = quals,
                      !.since = Since(state, quals, ok, now),
                      !.reported = state.reported \/ Count(state.quals) = MinWindows]

Ticked(state, now) ==
    LET ok    == Qualifies(state.packets, now)
        quals == Push(state.quals, ok)
    IN  [state EXCEPT !.quals = quals,
                      !.since = Since(state, quals, ok, now),
                      !.reported = state.reported \/ Count(quals) = MinWindows]

Duration(p, now) == now - Ticked(peers[p], now).since

\* Mutant of Crossed: already_reported is not asked.
CrossedAgain(p, now) == Ticked(peers[p], now).reported

Crossed(p, now) == Ticked(peers[p], now).reported /\ ~peers[p].reported

Advances(now) == lastTick = Never \/ now > lastTick

Tick(now) ==
    /\ Advances(now)
    /\ lastTick' = now
    /\ peers' = [p \in Tracked |-> Ticked(peers[p], now)]
    /\ detected' = {[peer |-> p, duration |-> Duration(p, now)] :
                      p \in {q \in Tracked : Crossed(q, now)}}
    /\ ticks' = [p \in Tracked |->
                   Append(ticks[p], [at |-> now, ok |-> Qualifies(peers[p].packets, now)])]
    /\ UNCHANGED <<seen, pruned>>

\* The same or an earlier now: nothing new.
TickAgain(now) ==
    /\ ~Advances(now)
    /\ detected' = {}
    /\ UNCHANGED <<peers, lastTick, history>>

Kept(now) == {p \in Tracked : peers[p].lastSeen >= now - Retention}

Trimmed(state, from) == [state EXCEPT !.packets = Trim(state.packets, from)]

Prune(now) ==
    /\ peers' = [p \in Kept(now) |-> Trimmed(peers[p], now - Window)]
    /\ seen' = Only(seen, Kept(now)) /\ ticks' = Only(ticks, Kept(now))
    /\ pruned' = IF now > pruned THEN now ELSE pruned
    /\ UNCHANGED <<lastTick, detected>>

Next ==
    \/ \E p \in Peer, time \in Time : Observe(p, time)
    \/ \E now \in Time : Tick(now) \/ TickAgain(now) \/ Prune(now)

Spec == Init /\ [][Next]_vars

-----------------------------------------------------------------------------
(* Properties.                                                              *)

\* Every attribute keeps its type; the verdicts never outgrow the deque.
TypeOK ==
    /\ Tracked \subseteq Peer /\ peers \in [Tracked -> PeerState]
    /\ \A p \in Tracked : Len(peers[p].quals) <= MinWindows
    /\ lastTick \in Time \cup {Never} /\ pruned \in Time \cup {Never}
    /\ detected \subseteq [peer : Peer, duration : Int]
    /\ seen \in [Tracked -> Seq(Time)]
    /\ ticks \in [Tracked -> Seq([at : Time, ok : BOOLEAN])]

\* The assertion in tick(), and more: qualified_since is set exactly while one of
\* the verdicts still in the deque is True, in every order of the calls.
SinceMeansQualifying ==
    \A p \in Tracked :
        peers[p].since # Never <=> \E k \in DOMAIN peers[p].quals : peers[p].quals[k]

\* MinWindows ticks in a row, the last of them the k-th, found the rate.
RunEndsAt(log, k) ==
    k >= MinWindows /\ \A j \in k - MinWindows + 1 .. k : log[j].ok

\* A peer is reported exactly when, since it is tracked, min_consecutive_windows
\* successive ticks have all found the rate: one miss in between starts the count
\* again, and the evictions of the deque lose no run and make up none.
ReportsAreEarned ==
    \A p \in Tracked :
        peers[p].reported <=> \E k \in DOMAIN ticks[p] : RunEndsAt(ticks[p], k)

\* The window count is that of all packets ever seen: what prune trims from the
\* deque can never be missed by a window that ends at or after that prune, though
\* packets arrive late and out of order.
WindowCountExact ==
    \A p \in Tracked, now \in Time :
        now >= pruned => InWindow(peers[p].packets, now) = InWindow(seen[p], now)

\* snapshot_stats: what the live view flags.
Flagged(p, now) ==
    Qualifies(peers[p].packets, now) /\ Count(peers[p].quals) >= MinWindows

\* Two outputs agree: a peer the live view flags is one that tick() has reported,
\* whatever happened between the tick and the snapshot.
FlaggedIsReported ==
    \A p \in Tracked, now \in Time : Flagged(p, now) => peers[p].reported

\* duration_seconds covers the run that is reported: it reaches back at least to
\* the first of the last min_consecutive_windows ticks.
DurationCoversRun ==
    [][\A d \in detected' \ detected :
         LET log == ticks'[d.peer]
         IN  d.duration >= lastTick' - log[Len(log) - MinWindows + 1].at]_vars

\* What the rest of the daemon may rely on, whatever the windows decide.
Reports == INSTANCE HostReports WITH
    tracked  <- Tracked,
    reported <- {p \in Tracked : peers[p].reported},
    fresh    <- {d.peer : d \in detected}

\* The scorer keeps that contract: see HostReports.
ImplementsReports == Reports!Spec
=============================================================================
