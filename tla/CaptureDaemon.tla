--------------------------- MODULE CaptureDaemon ---------------------------
(***************************************************************************)
(* xblp_capture: the sniffer thread, the main loop and the rows it leaves  *)
(* in state.db.  The scorer lives in memory only; every row is a           *)
(* transaction of its own; an exception anywhere in the loop ends the      *)
(* process, and systemd starts a new one that knows nothing.               *)
(*                                                                         *)
(* The loop's body runs only when a packet arrives.  Which of its timers   *)
(* is due then is left open: any of them may or may not be.                *)
(***************************************************************************)
EXTENDS Naturals, Sequences, FiniteSets

CONSTANTS
    Peer,
    MaxQueue,  \* bound: packets waiting in the sniffer's queue
    MaxLife,   \* bound: appearances of one peer
    MaxFaults  \* bound: database errors, crashes, kills and stops

ASSUME CaptureAssumption ==
    MaxQueue \in Nat /\ MaxLife \in Nat /\ MaxFaults \in Nat

VARIABLES
    pc,       \* where the process is
    shutdown, \* the flag the signal handler sets
    sniffing, \* is the AsyncSniffer thread alive?
    queue,    \* packet_queue
    tracked, reported, fresh,   \* the scorer, as HostReports has it
    todo,     \* detected hosts the loop has not recorded yet
    hosts,    \* table detected_hosts, oldest first
    batch,    \* the latest rows of table peer_snapshots
    life,     \* history: how often each peer has come to be tracked
    faults

scorer   == <<tracked, reported, fresh>>
database == <<hosts, batch>>
vars     == <<pc, shutdown, sniffing, queue, scorer, todo, database, life, faults>>

Scorer == INSTANCE HostReports

Appearance == [peer : Peer, life : 1 .. MaxLife]
This(p) == [peer |-> p, life |-> life[p]]

Init ==
    /\ pc = "down" /\ shutdown = FALSE /\ sniffing = FALSE
    /\ queue = <<>> /\ Scorer!Init /\ todo = {}
    /\ hosts = <<>> /\ batch = {}
    /\ life = [p \in Peer |-> 0] /\ faults = 0

\* The memory of a process that is gone.
Forgotten ==
    /\ shutdown' = FALSE /\ sniffing' = FALSE /\ queue' = <<>>
    /\ tracked' = {} /\ reported' = {} /\ fresh' = {} /\ todo' = {}

Fault == faults < MaxFaults /\ faults' = faults + 1

-----------------------------------------------------------------------------
(* Start: the tables, the active profile, the sniffer.                      *)

Start ==
    /\ pc = "down"
    /\ pc' = "loop" /\ sniffing' = TRUE
    /\ UNCHANGED <<shutdown, queue, scorer, todo, database, life, faults>>

\* The sniffer's thread.
Packet(p) ==
    /\ sniffing /\ Len(queue) < MaxQueue
    /\ queue' = Append(queue, p)
    /\ UNCHANGED <<pc, shutdown, sniffing, scorer, todo, database, life, faults>>

\* The interface goes away: the thread ends, the loop waits on.
SnifferDies ==
    /\ sniffing /\ Fault
    /\ sniffing' = FALSE
    /\ UNCHANGED <<pc, shutdown, queue, scorer, todo, database, life>>

-----------------------------------------------------------------------------
(* The body of the loop, for one packet.                                    *)

\* The flag is looked at when a packet arrives, and only then.
Finish ==
    /\ pc = "loop" /\ queue # <<>> /\ shutdown
    /\ pc' = "stopped" /\ Forgotten
    /\ UNCHANGED <<database, life, faults>>

Observe ==
    /\ pc = "loop" /\ queue # <<>> /\ ~shutdown
    /\ LET p == Head(queue)
       IN  /\ p \notin tracked => life[p] < MaxLife
           /\ Scorer!Observe(p)
           /\ life' = [life EXCEPT ![p] = IF p \in tracked THEN @ ELSE @ + 1]
    /\ queue' = Tail(queue)
    /\ pc' = "tick"
    /\ UNCHANGED <<shutdown, sniffing, todo, database, faults>>

\* A packet that the scorer's filters drop still drives the timers.
Ignore ==
    /\ pc = "loop" /\ queue # <<>> /\ ~shutdown
    /\ queue' = Tail(queue)
    /\ pc' = "tick"
    /\ UNCHANGED <<shutdown, sniffing, scorer, todo, database, life, faults>>

\* What a tick returns is to be recorded; one that is not due returns nothing.
Tick ==
    /\ pc = "tick"
    /\ \E new \in SUBSET (tracked \ reported) : Scorer!Tick(new) /\ todo' = new
    /\ pc' = "record"
    /\ UNCHANGED <<shutdown, sniffing, queue, database, life, faults>>

\* Mutant of Record: an insert that may have been committed is tried again.
RecordRetried(p) ==
    /\ pc = "record" /\ p \in todo
    /\ hosts' = Append(hosts, This(p))
    /\ todo' \in {todo, todo \ {p}}
    /\ UNCHANGED <<pc, shutdown, sniffing, queue, scorer, batch, life, faults>>

\* record_detected_host commits one row.
Record(p) ==
    /\ pc = "record" /\ p \in todo
    /\ hosts' = Append(hosts, This(p))
    /\ todo' = todo \ {p}
    /\ UNCHANGED <<pc, shutdown, sniffing, queue, scorer, batch, life, faults>>

Recorded ==
    /\ pc = "record" /\ todo = {}
    /\ pc' = "snapshot"
    /\ UNCHANGED <<shutdown, sniffing, queue, scorer, todo, database, life, faults>>

\* flush_peer_snapshots, if it is due: one transaction, a row for each tracked
\* peer.  Nobody but a reported peer is flagged (PeerScorer!FlaggedIsReported).
\* Without a peer no row is written and the latest batch stays what it was.
Snapshot ==
    /\ pc = "snapshot"
    /\ \/ UNCHANGED batch
       \/ \E flagged \in SUBSET reported :
            batch' = IF tracked = {} THEN batch
                     ELSE {[row |-> This(p), flagged |-> p \in flagged] : p \in tracked}
    /\ pc' = "prune"
    /\ UNCHANGED <<shutdown, sniffing, queue, scorer, todo, hosts, life, faults>>

\* Mutant of Prune: stale peers go, but not from what the scorer has reported.
PruneHalf ==
    /\ pc = "prune"
    /\ \E gone \in SUBSET tracked : tracked' = tracked \ gone
    /\ pc' = "loop"
    /\ UNCHANGED <<shutdown, sniffing, queue, reported, fresh, todo, database, life, faults>>

Prune ==
    /\ pc = "prune"
    /\ \E gone \in SUBSET tracked : Scorer!Forget(gone)
    /\ pc' = "loop"
    /\ UNCHANGED <<shutdown, sniffing, queue, todo, database, life, faults>>

-----------------------------------------------------------------------------
(* The end of the process.                                                  *)

\* Mutant of DatabaseLocked: the loop logs the error and goes on.
ErrorSwallowed ==
    /\ pc \in {"record", "snapshot"} /\ Fault
    /\ todo' = {} /\ pc' = "prune"
    /\ UNCHANGED <<shutdown, sniffing, queue, scorer, database, life>>

\* The API holds the write lock past the busy timeout: the insert or the commit
\* raises, nothing of that transaction is kept, the process ends.
DatabaseLocked ==
    /\ pc \in {"record", "snapshot"} /\ Fault
    /\ pc' = "down" /\ Forgotten
    /\ UNCHANGED <<database, life>>

\* Any other end of the process, SIGKILL included.
Crash ==
    /\ pc \notin {"down", "stopped"} /\ Fault
    /\ pc' = "down" /\ Forgotten
    /\ UNCHANGED <<database, life>>

\* SIGTERM or SIGINT sets the flag and nothing else.
Signal ==
    /\ pc \notin {"down", "stopped"} /\ ~shutdown /\ Fault
    /\ shutdown' = TRUE
    /\ UNCHANGED <<pc, sniffing, queue, scorer, todo, database, life>>

\* systemd restarts a failed process only; one that finished, the operator.
OperatorStart ==
    /\ pc = "stopped" /\ pc' = "down"
    /\ UNCHANGED <<shutdown, sniffing, queue, scorer, todo, database, life, faults>>

Loop == Finish \/ Observe \/ Ignore \/ Tick \/ (\E p \in Peer : Record(p))
        \/ Recorded \/ Snapshot \/ Prune

Next ==
    \/ Start \/ Loop
    \/ \E p \in Peer : Packet(p)
    \/ SnifferDies \/ DatabaseLocked \/ Crash \/ Signal \/ OperatorStart

\* The loop runs on and systemd restarts what failed.  No packet has to arrive,
\* nobody has to start a stopped daemon.
Fairness == WF_vars(Loop) /\ WF_vars(Start)

Spec == Init /\ [][Next]_vars /\ Fairness

-----------------------------------------------------------------------------
(* Properties.                                                              *)

\* Every variable keeps its type.
TypeOK ==
    /\ pc \in {"down", "loop", "tick", "record", "snapshot", "prune", "stopped"}
    /\ shutdown \in BOOLEAN /\ sniffing \in BOOLEAN
    /\ queue \in Seq(Peer) /\ Len(queue) <= MaxQueue
    /\ tracked \subseteq Peer /\ reported \subseteq tracked /\ fresh \subseteq Peer
    /\ todo \subseteq reported
    /\ hosts \in Seq(Appearance)
    /\ batch \subseteq [row : Appearance, flagged : BOOLEAN]
    /\ life \in [Peer -> 0 .. MaxLife] /\ faults \in 0 .. MaxFaults

IsRecorded(a) == \E k \in DOMAIN hosts : hosts[k] = a

\* What the process believes it has reported is in the database, but for the hosts
\* it is recording just now: an insert that fails half-way through a tick must not
\* leave a peer that is marked as reported and never recorded again.
ReportedIsRecorded == \A p \in reported \ todo : IsRecorded(This(p))

\* A peer that the live view flags has its row in detected_hosts, in every state
\* of the two tables a reader can see, after crashes too.
FlaggedIsRecorded == \A b \in batch : b.flagged => IsRecorded(b.row)

\* A peer is recorded once for each time it comes to be tracked: a second row means
\* it was pruned, or the daemon was restarted, in between.
OneRowPerAppearance ==
    \A j, k \in DOMAIN hosts : hosts[j] = hosts[k] => j = k

\* A host that a tick detects reaches the database, unless the process dies first.
DetectedIsRecorded ==
    \A p \in Peer : (p \in todo) ~> (IsRecorded(This(p)) \/ pc = "down")
=============================================================================
