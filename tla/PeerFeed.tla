------------------------------ MODULE PeerFeed ------------------------------
(***************************************************************************)
(* The table peer_snapshots between its writer, the capture daemon, and    *)
(* its readers, GET /peers, the SSE stream and GET /status of the API.     *)
(*                                                                         *)
(* Two processes share the table through SQLite.  The daemon writes a      *)
(* batch in one transaction; the API reads the newest time in one          *)
(* statement and the rows of that time in another, with no transaction     *)
(* around them.  Rows are stamped with the wall clock, which NTP may set   *)
(* forward; the daemon paces itself by the monotonic clock.                *)
(***************************************************************************)
EXTENDS Integers, FiniteSetsExt

CONSTANTS
    Peer,
    Retention, \* _SNAPSHOT_RETENTION_SECONDS
    Threshold, \* _CAPTURE_ACTIVE_THRESHOLD_SECONDS
    Jump,      \* how far the wall clock may be set forward
    MaxTime,   \* bound: the wall clock
    MaxFaults  \* bound: ends of the daemon and settings of the clock

ASSUME FeedAssumption ==
    /\ Retention \in Nat /\ Threshold \in Nat /\ Jump \subseteq Nat
    /\ MaxTime \in Nat /\ MaxFaults \in Nat

VARIABLES
    mono,     \* the monotonic clock, in seconds
    ahead,    \* how far the wall clock has been set forward
    up,       \* is the capture daemon in its loop?
    tracked,  \* the peers its scorer tracks
    snapped,  \* last_snapshot
    batches,  \* peer_snapshots: captured_at -> the peers with a row
    reading,  \* has the API the newest time and not yet the rows?
    newest,   \* the newest time it read
    answer,   \* the last PeersResponse
    flushed,  \* history: wall time of the last flush and the peers it was given
    stored,   \* history: monotonic time of the last batch with rows
    faults

daemon  == <<up, tracked, snapped, batches>>
reader  == <<reading, newest, answer>>
history == <<flushed, stored>>
vars    == <<mono, ahead, daemon, reader, history, faults>>

None  == -1
Wall  == mono + ahead
Time  == 0 .. MaxTime

Init ==
    /\ mono = 0 /\ ahead = 0
    /\ up = FALSE /\ tracked = {} /\ snapped = 0 /\ batches = <<>>
    /\ reading = FALSE /\ newest = None /\ answer = [at |-> None, peers |-> {}]
    /\ flushed = [at |-> None, peers |-> {}] /\ stored = None
    /\ faults = 0

Fault == faults < MaxFaults /\ faults' = faults + 1

-----------------------------------------------------------------------------
(* Time, and the daemon around its flush.                                   *)

Elapse ==
    /\ Wall < MaxTime /\ mono' = mono + 1
    /\ UNCHANGED <<ahead, daemon, reader, history, faults>>

ClockStep(d) ==
    /\ Wall + d <= MaxTime /\ Fault
    /\ ahead' = ahead + d
    /\ UNCHANGED <<mono, daemon, reader, history>>

DaemonStart ==
    /\ ~up /\ up' = TRUE
    /\ tracked' = {} /\ snapped' = mono
    /\ UNCHANGED <<mono, ahead, batches, reader, history, faults>>

DaemonEnds ==
    /\ up /\ Fault /\ up' = FALSE /\ tracked' = {}
    /\ UNCHANGED <<mono, ahead, snapped, batches, reader, history>>

\* Packets and prunes change what the scorer tracks (HostReports).
Track(now) ==
    /\ up /\ tracked' = now /\ now # tracked
    /\ UNCHANGED <<mono, ahead, up, snapped, batches, reader, history, faults>>

-----------------------------------------------------------------------------
(* flush_peer_snapshots, one transaction.                                   *)

Fresh(now) == {t \in DOMAIN batches : t >= now - Retention}

\* Mutants of Flushed: a batch without rows; without rows nothing is pruned; only
\* the newest batch is kept.
FlushedEmpty(rows, now) ==
    [t \in Fresh(now) \cup {now} |-> IF t = now THEN rows ELSE batches[t]]

FlushedUnlessEmpty(rows, now) ==
    IF rows = {} THEN batches
    ELSE [t \in Fresh(now) \cup {now} |-> IF t = now THEN rows ELSE batches[t]]

FlushedNewestOnly(rows, now) ==
    IF rows = {} THEN batches ELSE [t \in {now} |-> rows]

\* The rows of the batch are added, those past the retention deleted.  No row, no
\* trace of the time of the flush.
Flushed(rows, now) ==
    [t \in Fresh(now) \cup (IF rows = {} THEN {} ELSE {now}) |->
        IF t = now THEN rows ELSE batches[t]]

\* A packet arrived and the snapshot is due; the timestamp has microseconds, so no
\* two batches share one.
Flush ==
    /\ up /\ mono - snapped >= 1
    /\ batches' = Flushed(tracked, Wall)
    /\ snapped' = mono
    /\ flushed' = [at |-> Wall, peers |-> tracked]
    /\ stored' = IF tracked = {} THEN stored ELSE mono
    /\ UNCHANGED <<mono, ahead, up, tracked, reader, faults>>

-----------------------------------------------------------------------------
(* The API: _query_latest_snapshot and _capture_status.                     *)

Newest == IF DOMAIN batches = {} THEN None ELSE Max(DOMAIN batches)

ReadNewest ==
    /\ ~reading
    /\ newest' = Newest
    /\ IF Newest = None
       THEN answer' = [at |-> None, peers |-> {}] /\ UNCHANGED reading
       ELSE reading' = TRUE /\ UNCHANGED answer
    /\ UNCHANGED <<mono, ahead, daemon, history, faults>>

ReadRows ==
    /\ reading /\ reading' = FALSE
    /\ answer' = [at    |-> newest,
                  peers |-> IF newest \in DOMAIN batches THEN batches[newest] ELSE {}]
    /\ newest' = None
    /\ UNCHANGED <<mono, ahead, daemon, history, faults>>

\* Mutant of CaptureStatus: the wrong one of the two constants.
CaptureStatusRetained ==
    IF Newest = None THEN "missing"
    ELSE IF Wall - Newest <= Retention THEN "active" ELSE "stale"

\* The answer of GET /status to whoever asks now.
CaptureStatus ==
    IF Newest = None THEN "missing"
    ELSE IF Wall - Newest <= Threshold THEN "active" ELSE "stale"

Next ==
    \/ Elapse \/ (\E d \in Jump : ClockStep(d))
    \/ DaemonStart \/ DaemonEnds \/ (\E now \in SUBSET Peer : Track(now)) \/ Flush
    \/ ReadNewest \/ ReadRows

Spec == Init /\ [][Next]_vars

-----------------------------------------------------------------------------
(* Properties.                                                              *)

Answer == [at : Time \cup {None}, peers : SUBSET Peer]

\* Every variable keeps its type.
TypeOK ==
    /\ mono \in Time /\ ahead \in Nat /\ Wall \in Time
    /\ up \in BOOLEAN /\ tracked \subseteq Peer /\ snapped \in 0 .. mono
    /\ DOMAIN batches \subseteq Time
    /\ batches \in [DOMAIN batches -> (SUBSET Peer) \ {{}}]
    /\ reading \in BOOLEAN /\ newest \in Time \cup {None}
    /\ answer \in Answer /\ flushed \in Answer
    /\ stored \in (0 .. mono) \cup {None}
    /\ faults \in 0 .. MaxFaults

\* The two statements of a read are torn apart by a flush only when the batch they
\* were about has outlived the retention: no answer names a recent batch and lacks
\* its rows, whatever the daemon commits between the statements.
TornOnlyWhenExpired ==
    [][\A t \in Time :
         answer'.at = t /\ answer' # answer /\ answer'.peers = {}
           => t < flushed.at - Retention]_vars

\* The table stays bounded: after every flush, the ones without rows included, it
\* holds nothing older than the retention, through restarts and clock settings.
RetentionHolds ==
    flushed.at # None => \A t \in DOMAIN batches : t >= flushed.at - Retention

\* "active" is not said of a daemon that has stored nothing for longer than the
\* threshold of true time, although ages are taken from a clock that is set.
ActiveIsRecent ==
    CaptureStatus = "active" => stored # None /\ mono - stored <= Threshold
=============================================================================
