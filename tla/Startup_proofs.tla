---------------------------- MODULE Startup_proofs ----------------------------
(***************************************************************************)
(* Theorems about Startup for every schema and any number of faults.       *)
(***************************************************************************)
EXTENDS Startup, TLAPS

USE StartupAssumption DEF StartupAssumption

-----------------------------------------------------------------------------
(* The inductive invariant, one conjunct for each thing that a start-up     *)
(* hands from one step to the next.                                         *)

Place == {"down", "files", "cert", "key", "probe", "drop", "check", "create",
          "seed", "profile", "up"}

Pair == 0 .. 3

TypeInv ==
    /\ at \in [Daemon -> Place] /\ todo \in [Daemon -> SUBSET DOMAIN Schema]
    /\ cert \in Pair /\ key \in Pair /\ made \in Pair
    /\ lost \in SUBSET {"cert", "key"} /\ admin \in BOOLEAN

\* While a daemon creates, what is not there is still on its list; once it is done,
\* everything is there.
SchemaInv ==
    \A d \in Daemon :
        /\ at[d] = "create" => \A t \in Table \ schema : \E i \in todo[d] : Schema[i] = t
        /\ at[d] \in {"seed", "profile", "up"} => Table \subseteq schema

AdminInv == at["api"] = "up" => admin

Past == {"probe", "drop", "check", "create", "seed", "profile", "up"}

\* Unless the certificate was removed: a key is never on disk before its certificate, and
\* there is no key while a new pair is written.  Unless a file was removed, both are there
\* past ensure_cert_exists.
PairInv ==
    /\ at["api"] = "key" => made # 0 /\ (cert = made \/ "cert" \in lost)
    /\ "cert" \notin lost => key \in {0, cert}
    /\ "cert" \notin lost /\ at["api"] \in {"cert", "key"} => key = 0
    /\ lost = {} /\ at["api"] \in Past => cert # 0 /\ key # 0

IInv == TypeInv /\ SchemaInv /\ AdminInv /\ PairInv

-----------------------------------------------------------------------------

LEMMA InitInv == Init => IInv
<1> SUFFICES ASSUME Init
             PROVE  IInv
    OBVIOUS
<1>1. TypeInv
    <2>1. at \in [Daemon -> Place]
        BY DEF Init, Place
    <2>2. todo \in [Daemon -> SUBSET DOMAIN Schema]
        BY DEF Init
    <2>3. cert \in Pair /\ key \in Pair /\ made \in Pair
        BY DEF Init, Pair
    <2>4. lost \in SUBSET {"cert", "key"} /\ admin \in BOOLEAN
        BY DEF Init
    <2> QED
        BY <2>1, <2>2, <2>3, <2>4 DEF TypeInv
<1>2. \A d \in Daemon : at[d] = "down"
    BY DEF Init
<1>3. SchemaInv /\ AdminInv
    BY <1>2 DEF SchemaInv, AdminInv, Daemon
<1>4. PairInv
    BY <1>2 DEF Init, PairInv, Past, Daemon
<1> QED
    BY <1>1, <1>3, <1>4 DEF IInv

LEMMA GotoAt ==
    ASSUME TypeInv, NEW d \in Daemon, NEW place \in Place, Goto(d, place)
    PROVE  /\ at' \in [Daemon -> Place] /\ at'[d] = place
           /\ \A e \in Daemon \ {d} : at'[e] = at[e]
BY DEF Goto, TypeInv

LEMMA ExitAt ==
    ASSUME TypeInv, NEW d \in Daemon, Exit(d)
    PROVE  /\ at' \in [Daemon -> Place] /\ at'[d] = "down"
           /\ \A e \in Daemon \ {d} : at'[e] = at[e]
           /\ todo' \in [Daemon -> SUBSET DOMAIN Schema]
           /\ \A e \in Daemon \ {d} : todo'[e] = todo[e]
           /\ made' \in Pair /\ (d # "api" => made' = made)
BY DEF Exit, Goto, TypeInv, Place, Pair

\* There is always a number that is on neither file.
LEMMA NewPairIsNew ==
    ASSUME TypeInv
    PROVE  NewPair \in 1 .. 3 /\ NewPair \notin {cert, key}
<1>1. \E n \in 1 .. 3 : n \notin {cert, key}
    BY DEF TypeInv, Pair
<1> QED
    BY <1>1 DEF NewPair

\* What a daemon does to the tables leaves the rest of the invariant alone.
LEMMA SpawnInv ==
    ASSUME IInv, NEW d \in Daemon, Spawn(d)
    PROVE  IInv'
<1>1. PICK place \in {"files", "check"} :
        Goto(d, place) /\ (d = "api" => place = "files")
    BY DEF Spawn, Daemon
<1>2. /\ at' \in [Daemon -> Place] /\ at'[d] = place
      /\ \A e \in Daemon \ {d} : at'[e] = at[e]
    BY <1>1, GotoAt DEF IInv, Place
<1>3. UNCHANGED <<schema, admin, cert, key, made, lost, todo>>
    BY DEF Spawn, db, files
<1> QED
    BY <1>1, <1>2, <1>3 DEF IInv, TypeInv, SchemaInv, AdminInv, PairInv, Past, Daemon

LEMMA FindMissingInv ==
    ASSUME IInv, NEW d \in Daemon, FindMissing(d)
    PROVE  IInv'
<1>1. /\ at' \in [Daemon -> Place] /\ at'[d] = "create" /\ at[d] = "check"
      /\ \A e \in Daemon \ {d} : at'[e] = at[e]
    BY GotoAt DEF FindMissing, IInv, Place
<1>2. UNCHANGED <<schema, admin, cert, key, made, lost>>
    BY DEF FindMissing, db, files
<1>3. /\ todo' \in [Daemon -> SUBSET DOMAIN Schema]
      /\ todo'[d] = {i \in DOMAIN Schema : Owner[Schema[i]] \notin schema}
      /\ \A e \in Daemon \ {d} : todo'[e] = todo[e]
    BY DEF FindMissing, IInv, TypeInv
<1>4. \A t \in Table \ schema : \E i \in todo'[d] : Schema[i] = t
    BY <1>3 DEF Table, Object
<1> QED
    BY <1>1, <1>2, <1>3, <1>4 DEF IInv, TypeInv, SchemaInv, AdminInv, PairInv, Past, Daemon

LEMMA CreateNextInv ==
    ASSUME IInv, NEW d \in Daemon, CreateNext(d)
    PROVE  IInv'
<1>1. UNCHANGED <<admin, cert, key, lost>> /\ at[d] = "create"
    BY DEF CreateNext
<1>2. CASE todo[d] = {} /\ Goto(d, Created(d)) /\ UNCHANGED <<schema, todo, made>>
    <2>1. /\ at' \in [Daemon -> Place] /\ at'[d] = Created(d)
          /\ \A e \in Daemon \ {d} : at'[e] = at[e]
          /\ Created(d) \in {"seed", "profile"}
        BY <1>2, GotoAt DEF IInv, Place, Created
    <2>2. Table \subseteq schema
        BY <1>1, <1>2 DEF IInv, SchemaInv
    <2> QED
        BY <1>1, <1>2, <2>1, <2>2
        DEF IInv, TypeInv, SchemaInv, AdminInv, PairInv, Past, Daemon
<1>3. CASE Exit(d) /\ UNCHANGED schema
    <2>1. /\ at' \in [Daemon -> Place] /\ at'[d] = "down"
          /\ \A e \in Daemon \ {d} : at'[e] = at[e]
          /\ todo' \in [Daemon -> SUBSET DOMAIN Schema]
          /\ \A e \in Daemon \ {d} : todo'[e] = todo[e]
          /\ made' \in Pair /\ (d # "api" => made' = made)
        BY <1>3, ExitAt DEF IInv
    <2> QED
        BY <1>1, <1>3, <2>1 DEF IInv, TypeInv, SchemaInv, AdminInv, PairInv, Past, Daemon
<1>4. ASSUME NEW i \in todo[d], schema' = schema \cup {Schema[i]},
             todo' = [todo EXCEPT ![d] = @ \ {i}], UNCHANGED <<at, made>>
      PROVE  IInv'
    <2>1. /\ todo' \in [Daemon -> SUBSET DOMAIN Schema] /\ todo'[d] = todo[d] \ {i}
          /\ \A e \in Daemon \ {d} : todo'[e] = todo[e]
        BY <1>4 DEF IInv, TypeInv
    <2>2. \A e \in Daemon : at[e] = "create" =>
            \A t \in Table \ schema' : \E j \in todo'[e] : Schema[j] = t
        BY <1>4, <2>1 DEF IInv, SchemaInv
    <2> QED
        BY <1>1, <1>4, <2>1, <2>2 DEF IInv, TypeInv, SchemaInv, AdminInv, PairInv
<1> QED
    BY <1>2, <1>3, <1>4 DEF CreateNext

\* The two files, in the order in which they are replaced.
LEMMA FilesInv ==
    ASSUME IInv, EnsureCert \/ WriteCert \/ WriteKey
    PROVE  IInv'
<1> "api" \in Daemon
    BY DEF Daemon
<1>1. UNCHANGED <<schema, admin, todo>>
    BY DEF EnsureCert, WriteCert, WriteKey, db, files
<1>2. PICK place \in {"cert", "key", "probe"} : Goto("api", place)
    BY DEF EnsureCert, WriteCert, WriteKey
<1>3. /\ at' \in [Daemon -> Place] /\ at'["api"] = place
      /\ \A e \in Daemon \ {"api"} : at'[e] = at[e]
    BY <1>2, GotoAt DEF IInv, Place
<1>4. SchemaInv' /\ AdminInv'
    BY <1>1, <1>3 DEF IInv, SchemaInv, AdminInv
<1>5. CASE EnsureCert
    <2>1. UNCHANGED <<cert, key, made, lost>> /\ at["api"] = "files"
        BY <1>5 DEF EnsureCert, files
    <2>2. place = IF cert # 0 /\ key # 0 THEN "probe" ELSE "cert"
        BY <1>3, <1>5, <2>1 DEF EnsureCert, Goto, IInv, TypeInv
    <2> QED
        BY <1>1, <1>3, <1>4, <2>1, <2>2 DEF IInv, TypeInv, PairInv, Past
<1>6. CASE WriteCert
    <2>1. /\ UNCHANGED <<key, lost>> /\ at["api"] = "cert"
          /\ made' = NewPair /\ cert' = made'
        BY <1>6 DEF WriteCert
    <2>2. place = "key"
        BY <1>3, <1>6 DEF WriteCert, Goto, IInv, TypeInv
    <2> QED
        BY <1>1, <1>3, <1>4, <2>1, <2>2, NewPairIsNew DEF IInv, TypeInv, PairInv, Past, Pair
<1>7. CASE WriteKey
    <2>1. /\ UNCHANGED cert /\ at["api"] = "key"
          /\ key' = made /\ made' = 0 /\ lost' = IF cert = made THEN {} ELSE lost
        BY <1>7 DEF WriteKey
    <2>2. place = "probe"
        BY <1>3, <1>7 DEF WriteKey, Goto, IInv, TypeInv
    <2> QED
        BY <1>1, <1>3, <1>4, <2>1, <2>2 DEF IInv, TypeInv, PairInv, Past, Pair
<1> QED
    BY <1>5, <1>6, <1>7

\* The steps that change neither a file nor a table of the schema.
LEMMA OtherInv ==
    ASSUME IInv, ProbeCreate \/ ProbeDrop \/ SeedAdmin \/ WriteProfile
    PROVE  IInv'
<1> "api" \in Daemon /\ "capture" \in Daemon
    BY DEF Daemon
<1>1. UNCHANGED <<schema, cert, key, made, lost, todo>> /\ admin' \in {admin, TRUE}
    BY DEF ProbeCreate, ProbeDrop, SeedAdmin, WriteProfile, db, files
<1>2. CASE WriteProfile
    <2>1. /\ at' \in [Daemon -> Place] /\ at'["capture"] = "up" /\ at["capture"] = "profile"
          /\ at'["api"] = at["api"]
        BY <1>2, GotoAt DEF WriteProfile, IInv, Place, Daemon
    <2> QED
        BY <1>1, <2>1 DEF IInv, TypeInv, SchemaInv, AdminInv, PairInv, Past, Daemon
<1>3. CASE SeedAdmin
    <2>1. /\ at' \in [Daemon -> Place] /\ at'["api"] = "up" /\ at["api"] = "seed"
          /\ at'["capture"] = at["capture"] /\ admin'
        BY <1>3, GotoAt DEF SeedAdmin, IInv, Place, Daemon
    <2> QED
        BY <1>1, <2>1 DEF IInv, TypeInv, SchemaInv, AdminInv, PairInv, Past, Daemon
<1>4. CASE ProbeCreate \/ ProbeDrop
    <2>1. /\ at' \in [Daemon -> Place] /\ at'["api"] \in {"drop", "check"}
          /\ at["api"] \in {"probe", "drop"} /\ at'["capture"] = at["capture"]
        BY <1>4, GotoAt DEF ProbeCreate, ProbeDrop, IInv, Place, Daemon
    <2> QED
        BY <1>1, <2>1 DEF IInv, TypeInv, SchemaInv, AdminInv, PairInv, Past, Daemon
<1> QED
    BY <1>2, <1>3, <1>4

LEMMA FaultInv ==
    ASSUME IInv, PowerCut \/ LoseFile \/ \E d \in Daemon : Die(d)
    PROVE  IInv'
<1>1. CASE PowerCut
    BY <1>1 DEF PowerCut, db, IInv, TypeInv, SchemaInv, AdminInv, PairInv, Place, Pair, Past,
                Daemon
<1>2. CASE LoseFile
    <2>1. UNCHANGED <<schema, admin, made, at, todo>>
        BY <1>2 DEF LoseFile, db
    <2>2. \/ cert' = 0 /\ key' = key /\ lost' = lost \union {"cert"}
          \/ cert' = cert /\ key' = 0 /\ lost' = lost \union {"key"}
        BY <1>2 DEF LoseFile
    <2>3. TypeInv'
        <3>1. cert' \in Pair /\ key' \in Pair
            BY <2>2 DEF IInv, TypeInv, Pair
        <3>2. lost' \in SUBSET {"cert", "key"}
            BY <2>2 DEF IInv, TypeInv
        <3> QED
            BY <2>1, <3>1, <3>2 DEF IInv, TypeInv
    <2>4. SchemaInv' /\ AdminInv'
        BY <2>1 DEF IInv, SchemaInv, AdminInv
    <2>5. PairInv'
        <3>1. lost' # {} /\ ("cert" \notin lost' => cert' = cert /\ "cert" \notin lost)
            BY <2>2
        <3>2. key' \in {0, key}
            BY <2>2
        <3>3. at["api"] = "key" => made # 0 /\ (cert' = made \/ "cert" \in lost')
            BY <2>2 DEF IInv, PairInv
        <3> QED
            BY <2>1, <3>1, <3>2, <3>3 DEF IInv, PairInv
    <2> QED
        BY <2>3, <2>4, <2>5 DEF IInv
<1>3. ASSUME NEW d \in Daemon, Die(d)
      PROVE  IInv'
    <2>1. Exit(d) /\ UNCHANGED <<schema, admin, cert, key, lost>>
        BY <1>3 DEF Die, db
    <2>2. /\ at' \in [Daemon -> Place] /\ at'[d] = "down"
          /\ \A e \in Daemon \ {d} : at'[e] = at[e]
          /\ todo' \in [Daemon -> SUBSET DOMAIN Schema]
          /\ \A e \in Daemon \ {d} : todo'[e] = todo[e]
          /\ made' \in Pair /\ (d # "api" => made' = made)
        BY <2>1, ExitAt DEF IInv
    <2> QED
        BY <2>1, <2>2 DEF IInv, TypeInv, SchemaInv, AdminInv, PairInv, Past, Daemon
<1> QED
    BY <1>1, <1>2, <1>3

\* What holds of files, tables and processes in every state of two start-ups.
THEOREM InvariantHolds == Spec => []IInv
<1>1. IInv /\ [Next]_vars => IInv'
    <2> SUFFICES ASSUME IInv, [Next]_vars
                 PROVE  IInv'
        OBVIOUS
    <2>1. CASE UNCHANGED vars
        BY <2>1 DEF vars, db, files, IInv, TypeInv, SchemaInv, AdminInv, PairInv
    <2>2. CASE ApiStep \/ WriteProfile
        BY <2>2, FilesInv, OtherInv DEF ApiStep
    <2>3. CASE \E d \in Daemon : Spawn(d) \/ FindMissing(d) \/ CreateNext(d)
        BY <2>3, SpawnInv, FindMissingInv, CreateNextInv
    <2>4. CASE PowerCut \/ LoseFile \/ \E d \in Daemon : Die(d)
        BY <2>4, FaultInv
    <2> QED
        BY <2>1, <2>2, <2>3, <2>4 DEF Next
<1> QED
    BY InitInv, <1>1, PTL DEF Spec

\* Whoever serves finds every table, and the API an account, whatever the schema and
\* wherever the two start-ups have met or been cut off.
THEOREM ServesComplete == Spec => []ServingIsComplete
<1>1. IInv => ServingIsComplete
    BY DEF IInv, SchemaInv, AdminInv, ServingIsComplete
<1> QED
    BY <1>1, InvariantHolds, PTL

\* Until somebody removes the certificate, the key on disk is that of the certificate,
\* after any number of crashes between the two renames, and the next start completes it.
THEOREM PairUsable == Spec => []PairIsUsable
<1>1. IInv => PairIsUsable
    <2> SUFFICES ASSUME IInv
                 PROVE  PairIsUsable
        OBVIOUS
    <2>1. at["api"] \notin {"down", "files", "cert", "key"} => at["api"] \in Past
        BY DEF IInv, TypeInv, Place, Past, Daemon
    <2> QED
        BY <2>1 DEF IInv, PairInv, PairIsUsable
<1> QED
    BY <1>1, InvariantHolds, PTL
=============================================================================
