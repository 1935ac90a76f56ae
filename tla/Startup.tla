------------------------------- MODULE Startup -------------------------------
(***************************************************************************)
(* xblp-api and xblp-capture from boot to service, over one state          *)
(* directory: state.db, cert.pem and key.pem.                              *)
(*                                                                         *)
(* Both daemons bring the schema up to date, neither waits for the other,  *)
(* and each may end at any step.  pysqlite opens a transaction for INSERT  *)
(* only, so every CREATE is on disk at once; create_all has looked for all *)
(* tables before it creates the first.                                     *)
(***************************************************************************)
EXTENDS Naturals, Sequences

CONSTANTS
    Schema,     \* the CREATE statements of Base.metadata, by what they create, in order
    Owner,      \* what a statement creates -> the table it belongs to, itself if a table
    Users,      \* the users table
    MaxFaults   \* bound: crashes, power cuts, files lost, locks held too long

Object == {Schema[i] : i \in DOMAIN Schema}
Table  == {o \in Object : Owner[o] = o}
Daemon == {"api", "capture"}

ASSUME StartupAssumption ==
    /\ Owner \in [Object -> Object] /\ \A o \in Object : Owner[Owner[o]] = Owner[o]
    /\ Users \in Table /\ MaxFaults \in Nat

VARIABLES
    schema,     \* tables and indexes of state.db
    leftover,   \* is _xblp_write_probe in state.db?
    admin,      \* does users have a row?
    cert, key,  \* the generated pair the file belongs to, 0 if there is no file
    made,       \* the pair xblp-api has in memory
    lost,       \* history: the files removed since a pair was last written whole
    at,         \* daemon -> what it does next; "down" and "up" at the ends
    todo,       \* daemon -> numbers of the statements that create_all has still to run
    faults      \* bounded by MaxFaults

files  == <<cert, key, made, lost>>
db     == <<schema, leftover, admin>>
vars   == <<db, files, at, todo, faults>>

Init ==
    /\ schema = {} /\ leftover = FALSE /\ admin = FALSE
    /\ cert = 0 /\ key = 0 /\ made = 0 /\ lost = {}
    /\ at = [d \in Daemon |-> "down"] /\ todo = [d \in Daemon |-> {}]
    /\ faults = 0

Goto(d, place) == at' = [at EXCEPT ![d] = place]

\* The process ends, with what it had in memory.
Exit(d) ==
    /\ Goto(d, "down") /\ todo' = [todo EXCEPT ![d] = {}]
    /\ made' = IF d = "api" THEN 0 ELSE made

\* The pair that generate_self_signed_cert makes is none that is on disk.
NewPair == CHOOSE n \in 1 .. 3 : n \notin {cert, key}

-----------------------------------------------------------------------------
(* systemd starts the daemons at boot and again after a failure.            *)

Spawn(d) ==
    /\ at[d] = "down"
    /\ Goto(d, IF d = "api" THEN "files" ELSE "check")
    /\ UNCHANGED <<db, files, todo, faults>>

-----------------------------------------------------------------------------
(* xblp-api: the state directory.                                           *)

\* Mutant of EnsureCert: one file is taken for both.
EnsureEither ==
    /\ at["api"] = "files"
    /\ Goto("api", IF cert # 0 \/ key # 0 THEN "probe" ELSE "cert")
    /\ UNCHANGED <<db, files, todo, faults>>

\* ensure_cert_exists: both files are there, or both are made anew.
EnsureCert ==
    /\ at["api"] = "files"
    /\ Goto("api", IF cert # 0 /\ key # 0 THEN "probe" ELSE "cert")
    /\ UNCHANGED <<db, files, todo, faults>>

\* Each file is replaced by one rename.  Until the second, the key that belongs to the
\* certificate on disk is in memory only.
WriteCert ==
    /\ at["api"] = "cert" /\ Goto("api", "key")
    /\ made' = NewPair /\ cert' = made'
    /\ UNCHANGED <<db, key, lost, todo, faults>>

WriteKey ==
    /\ at["api"] = "key" /\ Goto("api", "probe")
    /\ key' = made /\ made' = 0
    /\ lost' = IF cert = made THEN {} ELSE lost
    /\ UNCHANGED <<db, cert, todo, faults>>

-----------------------------------------------------------------------------
(* xblp-api: is state.db writable?                                          *)

\* Mutant of ProbeCreate: CREATE TABLE without IF NOT EXISTS.
ProbeCreateAnew ==
    /\ at["api"] = "probe"
    /\ IF leftover THEN Exit("api") ELSE Goto("api", "drop") /\ UNCHANGED <<made, todo>>
    /\ leftover' = TRUE
    /\ UNCHANGED <<schema, admin, cert, key, lost, faults>>

ProbeCreate ==
    /\ at["api"] = "probe" /\ Goto("api", "drop")
    /\ leftover' = TRUE
    /\ UNCHANGED <<schema, admin, files, todo, faults>>

\* INSERT and DROP are one transaction.
ProbeDrop ==
    /\ at["api"] = "drop" /\ Goto("api", "check")
    /\ leftover' = FALSE
    /\ UNCHANGED <<schema, admin, files, todo, faults>>

-----------------------------------------------------------------------------
(* Both: create_tables.                                                     *)

Created(d) == IF d = "api" THEN "seed" ELSE "profile"

FindMissing(d) ==
    /\ at[d] = "check" /\ Goto(d, "create")
    /\ todo' = [todo EXCEPT ![d] = {i \in DOMAIN Schema : Owner[Schema[i]] \notin schema}]
    /\ UNCHANGED <<db, files, faults>>

\* Statement i is the one to run now.
IsNext(d, i) == i \in todo[d] /\ \A j \in todo[d] : i <= j

\* Mutant of CreateNext: what the other daemon has created ends the work without an error.
CreateNextOrSkip(d) ==
    /\ at[d] = "create"
    /\ \/ /\ todo[d] = {} \/ \E i \in todo[d] : IsNext(d, i) /\ Schema[i] \in schema
          /\ Goto(d, Created(d)) /\ todo' = [todo EXCEPT ![d] = {}] /\ UNCHANGED schema
       \/ \E i \in todo[d] :
            /\ IsNext(d, i) /\ Schema[i] \notin schema
            /\ schema' = schema \cup {Schema[i]}
            /\ todo' = [todo EXCEPT ![d] = @ \ {i}] /\ UNCHANGED at
    /\ UNCHANGED <<leftover, admin, files, faults>>

\* The next statement; the daemon ends with "already exists" if the other one has
\* created it since.
CreateNext(d) ==
    /\ at[d] = "create"
    /\ \/ todo[d] = {} /\ Goto(d, Created(d)) /\ UNCHANGED <<schema, todo, made>>
       \/ \E i \in todo[d] :
            IsNext(d, i) /\ Schema[i] \in schema /\ Exit(d) /\ UNCHANGED schema
       \/ \E i \in todo[d] :
            /\ IsNext(d, i) /\ Schema[i] \notin schema
            /\ schema' = schema \cup {Schema[i]}
            /\ todo' = [todo EXCEPT ![d] = @ \ {i}] /\ UNCHANGED <<at, made>>
    /\ UNCHANGED <<leftover, admin, cert, key, lost, faults>>

\* _seed_admin; then the first reconcile (module Blocklist) and service.
SeedAdmin ==
    /\ at["api"] = "seed" /\ Goto("api", "up")
    /\ admin' = TRUE
    /\ UNCHANGED <<schema, leftover, files, todo, faults>>

\* write_active_profile; then the sniffer (module CaptureDaemon).
WriteProfile ==
    /\ at["capture"] = "profile" /\ Goto("capture", "up")
    /\ UNCHANGED <<db, files, todo, faults>>

-----------------------------------------------------------------------------
(* What goes wrong.                                                         *)

Fault == faults < MaxFaults /\ faults' = faults + 1

\* The process dies, or a statement waits too long for the other daemon's write lock:
\* the probe reports "not writable" and exits with 1, the others raise.
Die(d) ==
    /\ Fault /\ at[d] # "down" /\ Exit(d)
    /\ UNCHANGED <<db, cert, key, lost>>

PowerCut ==
    /\ Fault
    /\ at' = [d \in Daemon |-> "down"] /\ todo' = [d \in Daemon |-> {}]
    /\ made' = 0
    /\ UNCHANGED <<db, cert, key, lost>>

LoseFile ==
    /\ Fault
    /\ \/ cert # 0 /\ cert' = 0 /\ lost' = lost \union {"cert"} /\ UNCHANGED key
       \/ key # 0 /\ key' = 0 /\ lost' = lost \union {"key"} /\ UNCHANGED cert
    /\ UNCHANGED <<db, made, at, todo>>

ApiStep == EnsureCert \/ WriteCert \/ WriteKey \/ ProbeCreate \/ ProbeDrop \/ SeedAdmin

Next ==
    \/ ApiStep \/ WriteProfile
    \/ \E d \in Daemon : Spawn(d) \/ FindMissing(d) \/ CreateNext(d) \/ Die(d)
    \/ PowerCut \/ LoseFile

\* systemd restarts what has failed and a running process gets on.
Fairness ==
    /\ WF_vars(ApiStep) /\ WF_vars(WriteProfile)
    /\ \A d \in Daemon : WF_vars(Spawn(d)) /\ WF_vars(FindMissing(d) \/ CreateNext(d))

Spec == Init /\ [][Next]_vars /\ Fairness

-----------------------------------------------------------------------------
(* Properties.                                                              *)

\* A daemon that serves finds every table, and the API somebody to sign in, however
\* often and wherever the two start-ups have interrupted each other or been cut off
\* (create_all, _seed_admin).
ServingIsComplete ==
    /\ \A d \in Daemon : at[d] = "up" => Table \subseteq schema
    /\ at["api"] = "up" => admin

\* A key lies beside its own certificate or beside none, wherever the two writes are cut
\* off and also when the key was removed; and past ensure_cert_exists both files are
\* there, but for what was removed since.  Nothing is promised once the certificate was
\* removed: a crash after the new one is in place leaves it beside the old key, and
\* ensure_cert_exists takes the two for a pair for good (tls.py, the two exists()).
PairIsUsable ==
    /\ "cert" \notin lost => key \in {0, cert}
    /\ lost = {} /\ at["api"] \notin {"down", "files", "cert", "key"} => key # 0

\* After the last fault both daemons come up, though each may end the other's start-up
\* with "already exists", and stay up.
BothComeUp == <>[](\A d \in Daemon : at[d] = "up")
=============================================================================
