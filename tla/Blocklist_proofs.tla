-------------------------- MODULE Blocklist_proofs --------------------------
(***************************************************************************)
(* Theorems about Networks and Blocklist for every set of entries,         *)
(* networks and subscriptions and every bound, and about Validation for    *)
(* addresses of every width and every host.                                *)
(***************************************************************************)
EXTENDS Blocklist, Validation, FiniteSetTheorems, WellFoundedInduction, TLAPS

-----------------------------------------------------------------------------
(* What collapsing does, for any set of networks that nest or are disjoint: *)
(* the result has no overlap and matches the same addresses.                *)

\* A collapsed set is one the kernel takes: no two of its elements overlap.
THEOREM CollapseDisjoint ==
    ASSUME NEW E \in SUBSET Entry
    PROVE  Disjoint(Collapse(E))
<1> SUFFICES ASSUME NEW m \in Collapse(E), NEW n \in Collapse(E), Overlap(m, n)
             PROVE  m = n
    BY DEF Disjoint
<1>1. m \in Net /\ n \in Net
    BY DEF Collapse
<1>2. Cover[m] \subseteq Cover[n] \/ Cover[n] \subseteq Cover[m]
    BY <1>1, NetworkAssumption DEF NetworkAssumption, Overlap
<1>3. CASE Cover[m] \subseteq Cover[n]
    BY <1>3 DEF Collapse
<1>4. CASE Cover[n] \subseteq Cover[m]
    BY <1>4 DEF Collapse
<1> QED
    BY <1>2, <1>3, <1>4

\* Every network inside a finite union of addresses lies in a largest one.
LEMMA LargestNetwork ==
    ASSUME NEW U, NEW n \in Net, Cover[n] \subseteq U
    PROVE  \E k \in Net : /\ Cover[k] \subseteq U
                          /\ Cover[n] \subseteq Cover[k]
                          /\ \A m \in Net :
                                 Cover[m] \subseteq U /\ Cover[k] \subseteq Cover[m] => m = k
<1> DEFINE Above == {k \in Net : Cover[k] \subseteq U /\ Cover[n] \subseteq Cover[k]}
           Rest(k) == Addr \ Cover[k]
           T == {Rest(k) : k \in Above}
<1>1. IsWellFoundedOn(StrictSubsetOrdering(Addr), FiniteSubsetsOf(Addr))
    BY FS_StrictSubsetOrderingWellFounded
<1>2. T \subseteq FiniteSubsetsOf(Addr)
    <2>1. FiniteSubsetsOf(Addr) = SUBSET Addr
        BY FS_FiniteSubsetsOfFinite, NetworkAssumption DEF NetworkAssumption
    <2> QED
        BY <2>1
<1>3. T # {}
    OBVIOUS
<1>4. PICK x \in T : \A y \in T : ~ (<<y, x>> \in StrictSubsetOrdering(Addr))
    <2> HIDE DEF T
    <2> QED
        BY <1>1, <1>2, <1>3, WFMin
<1>5. PICK k \in Above : x = Rest(k)
    OBVIOUS
<1>6. ASSUME NEW m \in Net, Cover[m] \subseteq U, Cover[k] \subseteq Cover[m]
      PROVE  m = k
    <2>1. m \in Above
        BY <1>6
    <2>2. Rest(m) \in T /\ Rest(m) \in SUBSET Addr /\ x \in SUBSET Addr
        BY <2>1, <1>5
    <2>3. ~ (Rest(m) \subseteq x /\ Rest(m) # x)
        BY <2>2, <1>4 DEF StrictSubsetOrdering
    <2>4. Rest(m) = Rest(k)
        BY <2>3, <1>5, <1>6
    <2>5. Cover[m] \subseteq Addr /\ Cover[k] \subseteq Addr
        BY NetworkAssumption DEF NetworkAssumption
    <2>6. Cover[m] = Cover[k]
        BY <2>4, <2>5
    <2> QED
        BY <2>6, NetworkAssumption DEF NetworkAssumption
<1> QED
    BY <1>6

\* Collapsing neither adds an address to what the rules block nor loses one.
THEOREM CollapseCovers ==
    ASSUME NEW E \in SUBSET Entry
    PROVE  Covered(Collapse(E)) = Wanted(E)
<1>1. Covered(Collapse(E)) \subseteq Wanted(E)
    BY DEF Covered, Collapse
<1>2. ASSUME NEW a \in Wanted(E)
      PROVE  a \in Covered(Collapse(E))
    <2>1. PICK e \in E : a \in Cover[NetworkOf[e]]
        BY DEF Wanted, Covered
    <2>2. NetworkOf[e] \in Net /\ Cover[NetworkOf[e]] \subseteq Wanted(E)
        BY NetworkAssumption DEF NetworkAssumption, Wanted, Covered
    <2>3. PICK k \in Net : /\ Cover[k] \subseteq Wanted(E)
                           /\ Cover[NetworkOf[e]] \subseteq Cover[k]
                           /\ \A m \in Net :
                                  Cover[m] \subseteq Wanted(E) /\ Cover[k] \subseteq Cover[m] => m = k
        BY <2>2, LargestNetwork
    <2>4. k \in Collapse(E)
        BY <2>3 DEF Collapse
    <2> QED
        BY <2>1, <2>3, <2>4 DEF Covered
<1> QED
    BY <1>1, <1>2

USE NetworkAssumption, BlocklistAssumption DEF NetworkAssumption, BlocklistAssumption

-----------------------------------------------------------------------------
(* Type correctness: one step per kind of action.                           *)

\* A freshly given id is an id no row has.
LEMMA FreshIdIsFree ==
    ASSUME NEW i \in FreshId
    PROVE  i \in Id /\ i \notin DOMAIN rules
BY DEF FreshId, Id

LEMMA EditedType ==
    ASSUME NEW row \in Row, NEW comment \in Comment
    PROVE  Edited(row, comment) \in Row
BY DEF Edited, Row

LEMMA DetachedType ==
    ASSUME NEW row \in Row
    PROVE  Detached(row) \in Row
BY DEF Detached, Row, Source

LEMMA WithType ==
    ASSUME TypeOK, NEW i \in Id, NEW row \in Row, rules' = With(i, row)
    PROVE  DOMAIN rules' \subseteq Id /\ rules' \in [DOMAIN rules' -> Row]
BY DEF TypeOK, With

LEMMA LogType ==
    ASSUME TypeOK, NEW event \in EventType, NEW i \in Id, NEW row \in Row,
           Log(event, i, row)
    PROVE  audit' \in Seq([event : EventType, id : Id, entry : Entry])
<1>1. [event |-> event, id |-> i, entry |-> row.entry]
        \in [event : EventType, id : Id, entry : Entry]
    BY DEF Row
<1> QED
    BY <1>1 DEF Log, TypeOK

\* Every step of a handler keeps the types.
LEMMA HandlerType ==
    ASSUME TypeOK, Handler
    PROVE  TypeOK'
<1>1. ASSUME NEW status \in {200, 204, 403, 404, 409, 422, 500}, Reject(status)
      PROVE  TypeOK'
    BY <1>1 DEF TypeOK, Reject, db, kernel
<1>2. CASE DatabaseLocked
    BY <1>1, <1>2 DEF DatabaseLocked
<1>3. ASSUME NEW i \in Id, NotFound(i) \/ NotLocal(i)
      PROVE  TypeOK'
    BY <1>1, <1>3 DEF NotFound, NotLocal
<1>4. ASSUME NEW entry \in Entry, CreateRejected(entry)
      PROVE  TypeOK'
    BY <1>1, <1>4 DEF CreateRejected
<1>5. ASSUME NEW entry \in Entry, NEW comment \in Comment, CreateRule(entry, comment)
      PROVE  TypeOK'
    <2> DEFINE row == [entry |-> entry, source |-> "local", sub |-> NoSub,
                       comment |-> comment]
    <2>1. row \in Row
        BY DEF Row, Source
    <2>2. PICK i \in FreshId : rules' = With(i, row) /\ Log("rule_added", i, row)
        BY <1>5 DEF CreateRule
    <2>3. DOMAIN rules' \subseteq Id /\ rules' \in [DOMAIN rules' -> Row]
        BY <2>1, <2>2, FreshIdIsFree, WithType
    <2>4. audit' \in Seq([event : EventType, id : Id, entry : Entry])
        BY <2>1, <2>2, FreshIdIsFree, LogType DEF EventType
    <2> QED
        BY <1>5, <2>3, <2>4 DEF CreateRule, CommitThenReconcile, TypeOK, kernel
<1>6. ASSUME NEW i \in Id, NEW comment \in Comment, UpdateRule(i, comment)
      PROVE  TypeOK'
    <2>1. CASE rules[i].comment = comment
        BY <1>1, <1>6, <2>1 DEF UpdateRule
    <2>2. CASE rules[i].comment # comment
        <3>1. rules[i] \in Row /\ i \in DOMAIN rules
            BY <1>6 DEF UpdateRule, TypeOK
        <3>2. DOMAIN rules' \subseteq Id /\ rules' \in [DOMAIN rules' -> Row]
            BY <1>6, <2>2, <3>1, EditedType, WithType DEF UpdateRule
        <3>3. audit' \in Seq([event : EventType, id : Id, entry : Entry])
            BY <1>6, <2>2, <3>1, LogType DEF UpdateRule, EventType
        <3> QED
            BY <1>6, <2>2, <3>2, <3>3 DEF UpdateRule, CommitThenAnswer, TypeOK, kernel
    <2> QED
        BY <2>1, <2>2
<1>7. ASSUME NEW i \in Id, DeleteRule(i)
      PROVE  TypeOK'
    <2>1. rules[i] \in Row
        BY <1>7 DEF DeleteRule, TypeOK
    <2>2. DOMAIN rules' \subseteq Id /\ rules' \in [DOMAIN rules' -> Row]
        BY <1>7 DEF DeleteRule, Without, TypeOK
    <2>3. audit' \in Seq([event : EventType, id : Id, entry : Entry])
        BY <1>7, <2>1, LogType DEF DeleteRule, EventType
    <2> QED
        BY <1>7, <2>2, <2>3 DEF DeleteRule, CommitThenReconcile, TypeOK, kernel
<1>8. ASSUME NEW i \in Id, PromoteRule(i)
      PROVE  TypeOK'
    <2>1. CASE rules[i].source = "local" \/ TakenLocally(rules[i].entry)
        BY <1>1, <1>8, <2>1 DEF PromoteRule
    <2>2. CASE ~(rules[i].source = "local" \/ TakenLocally(rules[i].entry))
        <3>1. rules[i] \in Row /\ i \in DOMAIN rules
            BY <1>8 DEF PromoteRule, TypeOK
        <3>2. DOMAIN rules' \subseteq Id /\ rules' \in [DOMAIN rules' -> Row]
            BY <1>8, <2>2, <3>1, DetachedType, WithType DEF PromoteRule
        <3>3. audit' \in Seq([event : EventType, id : Id, entry : Entry])
            BY <1>8, <2>2, <3>1, LogType DEF PromoteRule, EventType
        <3> QED
            BY <1>8, <2>2, <3>2, <3>3 DEF PromoteRule, CommitThenAnswer, TypeOK, kernel
    <2> QED
        BY <2>1, <2>2
<1> QED
    BY <1>2, <1>3, <1>4, <1>5, <1>6, <1>7, <1>8 DEF Handler

\* Every step of the reconciler keeps the types.
LEMMA ReconcilerType ==
    ASSUME TypeOK, Reconciler
    PROVE  TypeOK'
<1>1. Desired \subseteq Net
    BY DEF Desired, Collapse
<1>2. CASE ReconcileList
    <2>1. table' \in BOOLEAN /\ disturbed' \in BOOLEAN
        BY <1>2, Zenon DEF ReconcileList, TypeOK, db, kernel
    <2>2. listed' \subseteq Net
        BY <1>2, Zenon DEF ReconcileList, TypeOK
    <2>3. pc' = "apply" /\ UNCHANGED <<rules, audit, table, blocklist, mgr, req, resp, faults>>
        BY <1>2 DEF ReconcileList, db, kernel
    <2> QED
        BY <2>1, <2>2, <2>3 DEF TypeOK
<1>3. CASE ReconcileApply
    BY <1>1, <1>3 DEF ReconcileApply, Finish, Success, ToAdd, ToRemove, TypeOK, db
<1>4. CASE ReconcileRefused
    BY <1>4 DEF ReconcileRefused, Abort, TypeOK, db, kernel
<1> QED
    BY <1>2, <1>3, <1>4 DEF Reconciler

\* Every step of the service manager and the environment keeps the types.
LEMMA EnvironmentType ==
    ASSUME TypeOK, ServiceStart \/ Bootstrap \/ Environment
    PROVE  TypeOK'
<1>1. CASE ServiceStart
    BY <1>1 DEF ServiceStart, TypeOK, db, kernel
<1>2. CASE Bootstrap
    <2>1. table' \in BOOLEAN /\ disturbed' \in BOOLEAN
        BY <1>2, Zenon DEF Bootstrap, TypeOK, db
    <2> QED
        BY <1>2, <2>1 DEF Bootstrap, TypeOK, db
<1>3. CASE BootstrapFails
    BY <1>3 DEF BootstrapFails, Fault, TypeOK, db, kernel
<1>4. CASE NftFails
    BY <1>4 DEF NftFails, Fault, Abort, TypeOK, db, kernel
<1>5. CASE Crash
    BY <1>5 DEF Crash, Stop, Fault, TypeOK, db, kernel
<1>6. CASE HostReboot
    <2>1. table' \in BOOLEAN /\ disturbed' \in BOOLEAN
        BY <1>6, Zenon DEF HostReboot, Stop, Fault, TypeOK, db
    <2> QED
        BY <1>6, <2>1 DEF HostReboot, Stop, Fault, TypeOK, db
<1>7. CASE FlushRuleset
    <2>1. table' \in BOOLEAN /\ disturbed' \in BOOLEAN
        BY <1>7, Zenon DEF FlushRuleset, Fault, TypeOK, db, api
    <2> QED
        BY <1>7, <2>1 DEF FlushRuleset, Fault, TypeOK, db, api
<1>8. ASSUME NEW net \in Net, ForeignEdit(net)
      PROVE  TypeOK'
    BY <1>8 DEF ForeignEdit, Fault, TypeOK, db, api
<1>9. ASSUME NEW sub \in Sub, NEW entry \in Entry, NEW comment \in Comment,
             SubscriptionSync(sub, entry, comment)
      PROVE  TypeOK'
    <2> DEFINE row == [entry |-> entry, source |-> sub, sub |-> sub, comment |-> comment]
    <2>1. row \in Row
        BY DEF Row, Source
    <2>2. PICK i \in FreshId : rules' = With(i, row)
        BY <1>9 DEF SubscriptionSync
    <2>3. DOMAIN rules' \subseteq Id /\ rules' \in [DOMAIN rules' -> Row]
        BY <2>1, <2>2, FreshIdIsFree, WithType
    <2> QED
        BY <1>9, <2>3 DEF SubscriptionSync, TypeOK, kernel, api
<1>10. ASSUME NEW sub \in Sub, Unsubscribe(sub)
       PROVE  TypeOK'
    <2>1. DOMAIN rules' \subseteq Id /\ rules' \in [DOMAIN rules' -> Row]
        BY <1>10 DEF Unsubscribe, TypeOK
    <2> QED
        BY <1>10, <2>1 DEF Unsubscribe, TypeOK, kernel, api
<1> QED
    BY <1>1, <1>2, <1>3, <1>4, <1>5, <1>6, <1>7, <1>8, <1>9, <1>10 DEF Environment

\* Every reachable state is well typed, whatever the handlers are asked to do and
\* whatever fails.
THEOREM TypeCorrect == Spec => []TypeOK
<1>1. Init => TypeOK
    <2> SUFFICES ASSUME Init PROVE TypeOK
        OBVIOUS
    <2>1. table \in BOOLEAN /\ disturbed \in BOOLEAN
        BY Zenon DEF Init
    <2>2. rules = <<>> /\ DOMAIN rules = {} /\ rules \in [{} -> Row]
        BY DEF Init
    <2> QED
        BY <2>1, <2>2 DEF Init, TypeOK
<1>2. TypeOK /\ [Next]_vars => TypeOK'
    <2> SUFFICES ASSUME TypeOK, [Next]_vars
                 PROVE  TypeOK'
        OBVIOUS
    <2>1. CASE UNCHANGED vars
        BY <2>1 DEF TypeOK, vars, db, kernel, api
    <2> QED
        BY <2>1, HandlerType, ReconcilerType, EnvironmentType DEF Next
<1> QED
    BY <1>1, <1>2, PTL DEF Spec

-----------------------------------------------------------------------------
(* The projection.  NoSilentDivergence is not inductive: what a completed   *)
(* reconcile leaves depends on what the list before it has seen.            *)

KernelInv ==
    /\ Disjoint(blocklist) /\ Disjoint(listed)
    /\ table \/ blocklist = {}
    /\ pc \in {"down", "boot"} => mgr = "none"
    /\ mgr # "nft" => disturbed
    /\ pc = "apply" /\ ~disturbed => table /\ blocklist = listed
    /\ NoSilentDivergence

LEMMA DesiredFacts ==
    ASSUME TypeOK
    PROVE  /\ Entries \in SUBSET Entry
           /\ Desired \subseteq Net
           /\ Disjoint(Desired)
           /\ Covered(Desired) = Wanted(Entries)
<1>1. Entries \in SUBSET Entry
    BY DEF TypeOK, Entries, Row
<1>2. Desired \subseteq Net
    BY DEF Desired, Collapse
<1> QED
    BY <1>1, <1>2, CollapseDisjoint, CollapseCovers DEF Desired

\* What the reconciler would do depends on the rules and its listing alone.
LEMMA DesiredStable ==
    ASSUME rules' = rules
    PROVE  Desired' = Desired /\ Entries' = Entries /\ Wanted(Entries)' = Wanted(Entries)
BY DEF Desired, Entries, Collapse, Wanted, Covered

\* Detaching or editing a row leaves every entry where it is.
LEMMA SameEntries ==
    ASSUME TypeOK, NEW i \in DOMAIN rules, NEW row, row.entry = rules[i].entry,
           rules' = With(i, row)
    PROVE  Entries' = Entries
<1>1. DOMAIN rules' = DOMAIN rules
    BY DEF With
<1>2. \A j \in DOMAIN rules : rules'[j].entry = rules[j].entry
    BY DEF With
<1> QED
    BY <1>1, <1>2 DEF Entries

LEMMA HandlerKernel ==
    ASSUME TypeOK, KernelInv, Handler
    PROVE  KernelInv'
<1> USE DEF KernelInv, NoSilentDivergence, Disjoint, Overlap
<1>1. ASSUME NEW status, Reject(status)
      PROVE  KernelInv'
    BY <1>1, DesiredStable DEF Reject, db, kernel
<1>2. CASE DatabaseLocked
    BY <1>1, <1>2 DEF DatabaseLocked
<1>3. ASSUME NEW i \in Id, NotFound(i) \/ NotLocal(i)
      PROVE  KernelInv'
    BY <1>1, <1>3 DEF NotFound, NotLocal
<1>4. ASSUME NEW entry \in Entry, CreateRejected(entry)
      PROVE  KernelInv'
    BY <1>1, <1>4 DEF CreateRejected
<1>5. ASSUME NEW op, CommitThenReconcile(op)
      PROVE  KernelInv'
    BY <1>5 DEF CommitThenReconcile, kernel
<1>6. ASSUME NEW entry \in Entry, NEW comment \in Comment, CreateRule(entry, comment)
      PROVE  KernelInv'
    BY <1>5, <1>6 DEF CreateRule
<1>7. ASSUME NEW i \in Id, DeleteRule(i)
      PROVE  KernelInv'
    BY <1>5, <1>7 DEF DeleteRule
<1>8. ASSUME NEW status, CommitThenAnswer(status), Entries' = Entries
      PROVE  KernelInv'
    <2>1. Desired' = Desired
        BY <1>8 DEF Desired, Collapse, Wanted, Covered
    <2> QED
        BY <1>8, <2>1 DEF CommitThenAnswer, kernel
<1>9. ASSUME NEW i \in Id, NEW comment \in Comment, UpdateRule(i, comment)
      PROVE  KernelInv'
    <2>1. CASE rules[i].comment = comment
        BY <1>1, <1>9, <2>1 DEF UpdateRule
    <2>2. CASE rules[i].comment # comment
        <3>1. i \in DOMAIN rules /\ rules[i] \in Row /\ rules' = With(i, Edited(rules[i], comment))
            BY <1>9, <2>2 DEF UpdateRule, TypeOK
        <3>2. Edited(rules[i], comment).entry = rules[i].entry
            BY <3>1 DEF Edited, Row
        <3>3. Entries' = Entries
            BY <3>1, <3>2, SameEntries
        <3> QED
            BY <1>8, <1>9, <2>2, <3>3 DEF UpdateRule
    <2> QED
        BY <2>1, <2>2
<1>10. ASSUME NEW i \in Id, PromoteRule(i)
       PROVE  KernelInv'
    <2>1. CASE rules[i].source = "local" \/ TakenLocally(rules[i].entry)
        BY <1>1, <1>10, <2>1 DEF PromoteRule
    <2>2. CASE ~(rules[i].source = "local" \/ TakenLocally(rules[i].entry))
        <3>1. i \in DOMAIN rules /\ rules[i] \in Row /\ rules' = With(i, Detached(rules[i]))
            BY <1>10, <2>2 DEF PromoteRule, TypeOK
        <3>2. Detached(rules[i]).entry = rules[i].entry
            BY <3>1 DEF Detached, Row
        <3>3. Entries' = Entries
            BY <3>1, <3>2, SameEntries
        <3> QED
            BY <1>8, <1>10, <2>2, <3>3 DEF PromoteRule
    <2> QED
        BY <2>1, <2>2
<1> QED
    BY <1>2, <1>3, <1>4, <1>6, <1>7, <1>9, <1>10 DEF Handler

\* A listing taken by NftManager is the kernel set of that moment.
LEMMA ListKernel ==
    ASSUME KernelInv, ReconcileList
    PROVE  KernelInv'
<1>1. CASE mgr = "nft"
    BY <1>1 DEF ReconcileList, KernelInv, NoSilentDivergence, Disjoint, Overlap, kernel
<1>2. CASE mgr # "nft"
    BY <1>2 DEF ReconcileList, KernelInv, NoSilentDivergence, Disjoint, Overlap, kernel
<1> QED
    BY <1>1, <1>2

\* An undisturbed reconcile leaves exactly the collapsed rules.
LEMMA ApplyKernel ==
    ASSUME TypeOK, KernelInv, ReconcileApply
    PROVE  KernelInv'
<1>1. Desired' = Desired
    BY DesiredStable DEF ReconcileApply, db
<1>2. Disjoint(blocklist')
    BY DEF ReconcileApply, Accepted, KernelInv
<1>3. Disjoint(listed')
    BY DEF ReconcileApply, Finish, Disjoint
<1>4. table' \/ blocklist' = {}
    BY DEF ReconcileApply, Accepted, KernelInv
<1>5. pc' = "up" /\ mgr' = mgr /\ disturbed' = disturbed /\ table' = table
    BY DEF ReconcileApply, Finish
<1>6. ASSUME ~disturbed
      PROVE  table /\ blocklist' = Desired
    <2>1. mgr = "nft" /\ table /\ blocklist = listed
        BY <1>6 DEF KernelInv, ReconcileApply
    <2>2. CASE ToAdd \cup ToRemove = {}
        BY <2>1, <2>2 DEF ReconcileApply, ToAdd, ToRemove
    <2>3. CASE ToAdd \cup ToRemove # {}
        BY <2>1, <2>3 DEF ReconcileApply, ToAdd, ToRemove
    <2> QED
        BY <2>1, <2>2, <2>3
<1> QED
    BY <1>1, <1>2, <1>3, <1>4, <1>5, <1>6 DEF KernelInv, NoSilentDivergence

\* A failed reconcile changes nothing in the kernel and is remembered.
LEMMA AbortKernel ==
    ASSUME KernelInv, Abort, disturbed', UNCHANGED kernel
    PROVE  KernelInv'
BY DEF Abort, KernelInv, NoSilentDivergence, Disjoint, Overlap, kernel

LEMMA EnvironmentKernel ==
    ASSUME KernelInv, ServiceStart \/ Bootstrap \/ Environment
    PROVE  KernelInv'
<1> USE DEF KernelInv, NoSilentDivergence, Disjoint, Overlap
<1>1. CASE ServiceStart
    BY <1>1 DEF ServiceStart, kernel
<1>2. CASE Bootstrap
    BY <1>2 DEF Bootstrap
<1>3. CASE BootstrapFails
    BY <1>3 DEF BootstrapFails, Fault, kernel
<1>4. CASE NftFails
    BY <1>4, AbortKernel DEF NftFails, Fault
<1>5. CASE Crash
    BY <1>5 DEF Crash, Stop, Fault, kernel
<1>6. CASE HostReboot
    BY <1>6 DEF HostReboot, Stop, Fault
<1>7. CASE FlushRuleset
    BY <1>7 DEF FlushRuleset, Fault, api
<1>8. ASSUME NEW net \in Net, ForeignEdit(net)
      PROVE  KernelInv'
    BY <1>8 DEF ForeignEdit, Fault, api
<1>9. ASSUME NEW sub \in Sub, NEW entry \in Entry, NEW comment \in Comment,
             SubscriptionSync(sub, entry, comment)
      PROVE  KernelInv'
    BY <1>9 DEF SubscriptionSync, Ready, kernel, api
<1>10. ASSUME NEW sub \in Sub, Unsubscribe(sub)
       PROVE  KernelInv'
    BY <1>10 DEF Unsubscribe, Ready, kernel, api
<1> QED
    BY <1>1, <1>2, <1>3, <1>4, <1>5, <1>6, <1>7, <1>8, <1>9, <1>10 DEF Environment

LEMMA KernelStep == TypeOK /\ KernelInv /\ [Next]_vars => KernelInv'
<1> SUFFICES ASSUME TypeOK, KernelInv, [Next]_vars
             PROVE  KernelInv'
    OBVIOUS
<1>1. CASE UNCHANGED vars
    BY <1>1, DesiredStable
    DEF KernelInv, NoSilentDivergence, Disjoint, Overlap, vars, db, kernel, api
<1>2. CASE ReconcileRefused
    BY <1>2, AbortKernel DEF ReconcileRefused
<1> QED
    BY <1>1, <1>2, HandlerKernel, ListKernel, ApplyKernel, EnvironmentKernel
    DEF Next, Reconciler

THEOREM KernelInvariant == Spec => [](TypeOK /\ KernelInv)
<1>1. Init => KernelInv
    BY DEF Init, KernelInv, NoSilentDivergence, Disjoint
<1> QED
    BY <1>1, TypeCorrect, KernelStep, PTL DEF Spec

\* Whenever the API is idle and nothing has failed or interfered since the last
\* complete reconcile, the kernel set is exactly the collapsed rules.
THEOREM InSync == Spec => []NoSilentDivergence
<1>1. KernelInv => NoSilentDivergence
    BY DEF KernelInv
<1> QED
    BY <1>1, KernelInvariant, PTL

\* The transaction of an undisturbed reconcile is one the kernel accepts.
THEOREM DiffIsAccepted == Spec => []DiffAccepted
<1>1. TypeOK /\ KernelInv => DiffAccepted
    <2> SUFFICES ASSUME TypeOK, KernelInv, pc = "apply", ~disturbed
                 PROVE  Accepted(ToRemove, ToAdd)
        BY DEF DiffAccepted
    <2>1. table /\ blocklist = listed
        BY DEF KernelInv
    <2>2. (blocklist \ ToRemove) \cup ToAdd = Desired
        BY <2>1 DEF ToAdd, ToRemove
    <2> QED
        BY <2>1, <2>2, DesiredFacts DEF Accepted, ToRemove
<1> QED
    BY <1>1, KernelInvariant, PTL

-----------------------------------------------------------------------------
(* No gap, and the abstract promise.                                        *)

\* What an applied diff may do to the blocked addresses: it never opens one that is
\* wanted and never closes one that is not; undisturbed, the two become equal.
LEMMA ApplyCovers ==
    ASSUME TypeOK, KernelInv, ReconcileApply
    PROVE  /\ Covered(blocklist) \cap Wanted(Entries) \subseteq Covered(blocklist')
           /\ Covered(blocklist') \subseteq Covered(blocklist) \cup Wanted(Entries)
           /\ ~disturbed => Covered(blocklist') = Wanted(Entries)
<1>1. /\ blocklist \ ToRemove \subseteq blocklist'
      /\ blocklist' \subseteq blocklist \cup ToAdd
      /\ blocklist' # blocklist => ToAdd \subseteq blocklist'
    BY DEF ReconcileApply
<1>2. Covered(Desired) = Wanted(Entries) /\ Disjoint(Desired)
    BY DesiredFacts
<1>3. ASSUME NEW a \in Covered(blocklist) \cap Wanted(Entries)
      PROVE  a \in Covered(blocklist')
    <2>1. PICK n \in blocklist : a \in Cover[n]
        BY DEF Covered
    <2>2. CASE n \notin ToRemove \/ blocklist' = blocklist
        BY <1>1, <2>1, <2>2 DEF Covered
    <2>3. CASE n \in ToRemove /\ blocklist' # blocklist
        <3>1. PICK d \in Desired : a \in Cover[d]
            BY <1>2 DEF Covered
        <3>2. n \in listed /\ n \notin Desired
            BY <2>3 DEF ToRemove
        <3>3. d \notin listed
            BY <2>1, <3>1, <3>2 DEF KernelInv, Disjoint, Overlap
        <3>4. d \in blocklist'
            BY <1>1, <2>3, <3>1, <3>3 DEF ToAdd
        <3> QED
            BY <3>1, <3>4 DEF Covered
    <2> QED
        BY <2>2, <2>3
<1>4. Covered(blocklist') \subseteq Covered(blocklist) \cup Wanted(Entries)
    <2>1. Covered(blocklist') \subseteq Covered(blocklist) \cup Covered(Desired)
        BY <1>1 DEF Covered, ToAdd
    <2> QED
        BY <1>2, <2>1
<1>5. ASSUME ~disturbed
      PROVE  Covered(blocklist') = Wanted(Entries)
    <2>1. blocklist' = Desired'
        BY <1>5, ApplyKernel DEF KernelInv, NoSilentDivergence, ReconcileApply, Finish
    <2>2. Desired' = Desired
        BY DesiredStable DEF ReconcileApply, db
    <2> QED
        BY <1>2, <2>1, <2>2
<1> QED
    BY <1>3, <1>4, <1>5

\* Only the apply step of a reconcile and the faults touch the kernel set.
LEMMA WhoTouchesKernel ==
    ASSUME TypeOK, [Next]_vars
    PROVE  \/ UNCHANGED blocklist
           \/ ReconcileApply
           \/ faults < MaxFaults /\ faults' = faults + 1 /\ disturbed' = TRUE
<1>1. CASE UNCHANGED vars
    BY <1>1 DEF vars, kernel
<1>2. CASE Handler
    BY <1>2 DEF Handler, DatabaseLocked, NotFound, NotLocal, CreateRejected, CreateRule,
                UpdateRule, DeleteRule, PromoteRule, Reject, CommitThenReconcile,
                CommitThenAnswer, kernel
<1>3. CASE Reconciler
    BY <1>3 DEF Reconciler, ReconcileList, ReconcileRefused, kernel
<1>4. CASE ServiceStart \/ Bootstrap
    BY <1>4 DEF ServiceStart, Bootstrap, kernel
<1>5. CASE Environment
    BY <1>5 DEF Environment, BootstrapFails, NftFails, Crash, HostReboot, FlushRuleset,
                ForeignEdit, SubscriptionSync, Unsubscribe, Fault, kernel
<1> QED
    BY <1>1, <1>2, <1>3, <1>4, <1>5 DEF Next

\* An address that is blocked and still wanted is never let through by the program.
THEOREM NoGap == Spec => NoEnforcementGap
<1>1. TypeOK /\ KernelInv /\ [Next]_vars
        => [\A a \in Covered(blocklist) \cap Wanted(Entries) :
              a \in Covered(blocklist') \/ faults' # faults]_vars
    <2> SUFFICES ASSUME TypeOK, KernelInv, [Next]_vars,
                        NEW a \in Covered(blocklist) \cap Wanted(Entries)
                 PROVE  a \in Covered(blocklist') \/ faults' # faults
        OBVIOUS
    <2>1. CASE UNCHANGED blocklist
        BY <2>1
    <2>2. CASE ReconcileApply
        BY <2>2, ApplyCovers
    <2>3. CASE faults' = faults + 1
        BY <2>3 DEF TypeOK
    <2> QED
        BY <2>1, <2>2, <2>3, WhoTouchesKernel
<1> QED
    BY <1>1, KernelInvariant, PTL DEF Spec, NoEnforcementGap

\* What any entries want and any networks cover is a set of addresses.
LEMMA WantedType ==
    ASSUME NEW E \in SUBSET Entry
    PROVE  Wanted(E) \in SUBSET Addr
BY DEF Wanted, Covered

LEMMA CoveredType ==
    ASSUME NEW N \in SUBSET Net
    PROVE  Covered(N) \in SUBSET Addr
BY DEF Covered

Settled == pc = "up" /\ ~disturbed

\* A step that keeps rules, kernel, faults and settledness is a stutter of the promise.
LEMMA Stutter ==
    ASSUME Entries' = Entries, blocklist' = blocklist, faults' = faults,
           Settled' = Settled
    PROVE  UNCHANGED Promise!vars
<1>1. Wanted(Entries)' = Wanted(Entries)
    BY DEF Wanted, Covered
<1>2. Covered(blocklist)' = Covered(blocklist)
    BY DEF Covered
<1>3. (pc = "up" /\ ~disturbed)' = (pc = "up" /\ ~disturbed)
    BY DEF Settled
<1> QED
    BY <1>1, <1>2, <1>3 DEF Promise!vars

\* A step that changes the rules and leaves a reconcile to do is a Change.
LEMMA ChangeStep ==
    ASSUME TypeOK', blocklist' = blocklist, faults' = faults, ~Settled'
    PROVE  Promise!Change
<1>1. Wanted(Entries)' \in SUBSET Addr
    <2>1. Entries' \in SUBSET Entry
        BY TypeOK' DEF TypeOK, Entries, Row
    <2>2. Wanted(Entries)' = Wanted(Entries')
        BY DEF Wanted, Covered
    <2> QED
        BY <2>1, <2>2, WantedType
<1>2. Covered(blocklist)' = Covered(blocklist)
    BY DEF Covered
<1>3. (pc = "up" /\ ~disturbed)' = FALSE
    BY DEF Settled
<1> QED
    BY <1>1, <1>2, <1>3 DEF Promise!Change

\* A fault of the program's surroundings is a Fault of the promise.
LEMMA FaultStep ==
    ASSUME TypeOK', faults < MaxFaults, faults' = faults + 1, disturbed' = TRUE,
           Entries' = Entries
    PROVE  Promise!Fault
<1>1. Covered(blocklist)' \in SUBSET Addr
    <2>1. blocklist' \in SUBSET Net
        BY TypeOK' DEF TypeOK
    <2>2. Covered(blocklist)' = Covered(blocklist')
        BY DEF Covered
    <2> QED
        BY <2>1, <2>2, CoveredType
<1>2. Wanted(Entries)' = Wanted(Entries)
    BY DEF Wanted, Covered
<1>3. (pc = "up" /\ ~disturbed)' = FALSE
    OBVIOUS
<1> QED
    BY <1>1, <1>2, <1>3 DEF Promise!Fault

\* An applied diff is a Project when undisturbed and a LatePatch otherwise.
LEMMA ApplyStep ==
    ASSUME TypeOK, KernelInv, ReconcileApply
    PROVE  Promise!Next
<1>1. /\ Wanted(Entries)' = Wanted(Entries)
      /\ Covered(blocklist)' = Covered(blocklist')
      /\ faults' = faults
    BY DesiredStable DEF ReconcileApply, db, Covered
<1>2. pc = "apply" /\ pc' = "up" /\ disturbed' = disturbed
    BY DEF ReconcileApply, Finish
<1>3. CASE ~disturbed
    <2>1. (pc = "up" /\ ~disturbed)' = TRUE
        BY <1>2, <1>3
    <2>2. Promise!Project
        BY <1>1, <1>3, <2>1, ApplyCovers DEF Promise!Project
    <2> QED
        BY <2>2 DEF Promise!Next
<1>4. CASE disturbed
    <2>1. ~(pc = "up" /\ ~disturbed) /\ (pc = "up" /\ ~disturbed)' = FALSE
        BY <1>2, <1>4
    <2>2. Promise!LatePatch
        BY <1>1, <2>1, ApplyCovers DEF Promise!LatePatch
    <2> QED
        BY <2>2 DEF Promise!Next
<1> QED
    BY <1>3, <1>4

LEMMA HandlerStep ==
    ASSUME TypeOK, TypeOK', Handler
    PROVE  Promise!Next \/ UNCHANGED Promise!vars
<1>1. ASSUME NEW status, Reject(status)
      PROVE  UNCHANGED Promise!vars
    BY <1>1, Stutter, DesiredStable DEF Reject, db, kernel, Settled
<1>2. ASSUME NEW op, CommitThenReconcile(op)
      PROVE  Promise!Next
    BY <1>2, ChangeStep DEF CommitThenReconcile, kernel, Settled, Promise!Next
<1>3. ASSUME NEW status, CommitThenAnswer(status), NEW i \in DOMAIN rules, NEW row,
             rules' = With(i, row), row.entry = rules[i].entry
      PROVE  UNCHANGED Promise!vars
    BY <1>3, Stutter, SameEntries DEF CommitThenAnswer, kernel, Settled
<1>4. CASE DatabaseLocked
    BY <1>1, <1>4 DEF DatabaseLocked
<1>5. ASSUME NEW i \in Id, NotFound(i) \/ NotLocal(i)
      PROVE  UNCHANGED Promise!vars
    BY <1>1, <1>5 DEF NotFound, NotLocal
<1>6. ASSUME NEW entry \in Entry, CreateRejected(entry)
      PROVE  UNCHANGED Promise!vars
    BY <1>1, <1>6 DEF CreateRejected
<1>7. ASSUME NEW entry \in Entry, NEW comment \in Comment, CreateRule(entry, comment)
      PROVE  Promise!Next
    BY <1>2, <1>7 DEF CreateRule
<1>8. ASSUME NEW i \in Id, NEW comment \in Comment, UpdateRule(i, comment)
      PROVE  UNCHANGED Promise!vars
    <2>1. CASE rules[i].comment = comment
        BY <1>1, <1>8, <2>1 DEF UpdateRule
    <2>2. CASE rules[i].comment # comment
        <3>1. i \in DOMAIN rules /\ rules[i] \in Row
            BY <1>8 DEF UpdateRule, TypeOK
        <3>2. Edited(rules[i], comment).entry = rules[i].entry
            BY <3>1 DEF Edited, Row
        <3> QED
            BY <1>3, <1>8, <2>2, <3>1, <3>2 DEF UpdateRule
    <2> QED
        BY <2>1, <2>2
<1>9. ASSUME NEW i \in Id, DeleteRule(i)
      PROVE  Promise!Next
    BY <1>2, <1>9 DEF DeleteRule
<1>10. ASSUME NEW i \in Id, PromoteRule(i)
       PROVE  UNCHANGED Promise!vars
    <2>1. CASE rules[i].source = "local" \/ TakenLocally(rules[i].entry)
        BY <1>1, <1>10, <2>1 DEF PromoteRule
    <2>2. CASE ~(rules[i].source = "local" \/ TakenLocally(rules[i].entry))
        <3>1. i \in DOMAIN rules /\ rules[i] \in Row
            BY <1>10 DEF PromoteRule, TypeOK
        <3>2. Detached(rules[i]).entry = rules[i].entry
            BY <3>1 DEF Detached, Row
        <3> QED
            BY <1>3, <1>10, <2>2, <3>1, <3>2 DEF PromoteRule
    <2> QED
        BY <2>1, <2>2
<1> QED
    BY <1>4, <1>5, <1>6, <1>7, <1>8, <1>9, <1>10 DEF Handler

LEMMA OtherStep ==
    ASSUME TypeOK', KernelInv,
           ReconcileList \/ ReconcileRefused \/ ServiceStart \/ Bootstrap \/ Environment
    PROVE  Promise!Next \/ UNCHANGED Promise!vars
<1>1. CASE ReconcileList
    BY <1>1, Stutter, DesiredStable DEF ReconcileList, db, kernel, Settled
<1>2. CASE ReconcileRefused
    BY <1>2, Stutter, DesiredStable DEF ReconcileRefused, Abort, db, kernel, Settled
<1>3. CASE ServiceStart
    BY <1>3, Stutter, DesiredStable DEF ServiceStart, db, kernel, Settled
<1>4. CASE Bootstrap
    BY <1>4, Stutter, DesiredStable DEF Bootstrap, db, Settled, KernelInv
<1>5. ASSUME Fault, UNCHANGED rules
      PROVE  Promise!Next
    BY <1>5, FaultStep, DesiredStable DEF Fault, Promise!Next
<1>6. CASE BootstrapFails \/ NftFails \/ Crash \/ HostReboot \/ FlushRuleset
    BY <1>5, <1>6 DEF BootstrapFails, NftFails, Crash, HostReboot, FlushRuleset, db
<1>7. ASSUME NEW net \in Net, ForeignEdit(net)
      PROVE  Promise!Next
    BY <1>5, <1>7 DEF ForeignEdit, db
<1>8. ASSUME disturbed', UNCHANGED <<blocklist, faults>>
      PROVE  Promise!Next
    BY <1>8, ChangeStep DEF Settled, Promise!Next
<1>9. ASSUME NEW sub \in Sub, NEW entry \in Entry, NEW comment \in Comment,
             SubscriptionSync(sub, entry, comment)
      PROVE  Promise!Next
    BY <1>8, <1>9 DEF SubscriptionSync, kernel
<1>10. ASSUME NEW sub \in Sub, Unsubscribe(sub)
       PROVE  Promise!Next
    BY <1>8, <1>10 DEF Unsubscribe, kernel
<1> QED
    BY <1>1, <1>2, <1>3, <1>4, <1>6, <1>7, <1>9, <1>10 DEF Environment

\* The API, the kernel and everything around them keep the abstract promise.
THEOREM KeepsPromise == Spec => ImplementsPromise
<1>1. Init => Promise!Init
    <2> SUFFICES ASSUME Init
                 PROVE  Promise!Init
        OBVIOUS
    <2>1. Entries = {}
        BY DEF Init, Entries
    <2>2. Wanted(Entries) = {} /\ Covered(blocklist) = {} /\ faults = 0
        BY <2>1 DEF Init, Wanted, Covered
    <2>3. (pc = "up" /\ ~disturbed) = FALSE
        BY DEF Init
    <2> QED
        BY <2>2, <2>3 DEF Promise!Init
<1>2. TypeOK /\ TypeOK' /\ KernelInv /\ [Next]_vars => [Promise!Next]_(Promise!vars)
    <2> SUFFICES ASSUME TypeOK, TypeOK', KernelInv, [Next]_vars
                 PROVE  Promise!Next \/ UNCHANGED Promise!vars
        OBVIOUS
    <2>1. CASE UNCHANGED vars
        BY <2>1, Stutter, DesiredStable DEF vars, db, kernel, api, Settled
    <2> QED
        BY <2>1, ApplyStep, HandlerStep, OtherStep DEF Next, Reconciler
<1> QED
    BY <1>1, <1>2, KernelInvariant, PTL DEF Spec, ImplementsPromise, Promise!Spec

-----------------------------------------------------------------------------
(* The audit log.  What it says of an id follows from what a step may do to *)
(* local rules: leave them and the log alone, write one, or remove one.     *)

IsLocal(i) == i \in DOMAIN rules /\ rules[i].source = "local"

\* A rule without a subscription goes with none.
LocalDetached == \A i \in DOMAIN rules : rules[i].source = "local" => rules[i].sub = NoSub

\* AuditExplainsRules, for one id.
Explained(i) ==
    IF IsLocal(i)
    THEN \E k \in DOMAIN audit : /\ LastAbout(i, k) /\ audit[k].event # "rule_removed"
                                 /\ audit[k].entry = rules[i].entry
    ELSE \A k \in DOMAIN audit : LastAbout(i, k) => audit[k].event = "rule_removed"

AuditInv == LocalDetached /\ \A i \in Id : Explained(i)

LocalKept ==
    /\ audit' = audit
    /\ \A i \in DOMAIN rules :
         rules[i].source = "local" => i \in DOMAIN rules' /\ rules'[i] = rules[i]
    /\ \A i \in DOMAIN rules' :
         rules'[i].source = "local" => i \in DOMAIN rules /\ rules[i] = rules'[i]

LocalWritten(i, row, event) ==
    /\ row.source = "local" /\ row.sub = NoSub /\ event # "rule_removed"
    /\ IsLocal(i) => row.entry = rules[i].entry
    /\ IsLocal(i) \/ row.entry \in Blockable \/ event = "rule_promoted"
    /\ rules' = With(i, row) /\ Log(event, i, row)

LocalRemoved(i) == IsLocal(i) /\ rules' = Without(i) /\ Log("rule_removed", i, rules[i])

LEMMA SameRulesKept ==
    ASSUME UNCHANGED db
    PROVE  LocalKept
BY DEF db, LocalKept

\* What the handlers do to local rules.
LEMMA HandlerRules ==
    ASSUME TypeOK, LocalDetached, Handler
    PROVE  \/ LocalKept
           \/ \E i \in Id, row \in Row, event \in EventType : LocalWritten(i, row, event)
           \/ \E i \in Id : LocalRemoved(i)
<1>1. ASSUME NEW status, Reject(status)
      PROVE  LocalKept
    BY <1>1, SameRulesKept DEF Reject
<1>2. CASE DatabaseLocked
    BY <1>1, <1>2 DEF DatabaseLocked
<1>3. ASSUME NEW i \in Id, NotFound(i) \/ NotLocal(i)
      PROVE  LocalKept
    BY <1>1, <1>3 DEF NotFound, NotLocal
<1>4. ASSUME NEW entry \in Entry, CreateRejected(entry)
      PROVE  LocalKept
    BY <1>1, <1>4 DEF CreateRejected
<1>5. ASSUME NEW entry \in Entry, NEW comment \in Comment, CreateRule(entry, comment)
      PROVE  \E i \in Id, row \in Row, event \in EventType : LocalWritten(i, row, event)
    <2> DEFINE row == [entry |-> entry, source |-> "local", sub |-> NoSub,
                       comment |-> comment]
    <2>1. row \in Row
        BY DEF Row, Source
    <2>2. PICK i \in FreshId : rules' = With(i, row) /\ Log("rule_added", i, row)
        BY <1>5 DEF CreateRule
    <2>3. i \in Id /\ ~IsLocal(i)
        BY FreshIdIsFree DEF IsLocal
    <2>4. LocalWritten(i, row, "rule_added")
        BY <1>5, <2>2, <2>3 DEF LocalWritten, CreateRule
    <2> QED
        BY <2>1, <2>3, <2>4 DEF EventType
<1>6. ASSUME NEW i \in Id, NEW comment \in Comment, UpdateRule(i, comment)
      PROVE  \/ LocalKept
             \/ \E row \in Row, event \in EventType : LocalWritten(i, row, event)
    <2>1. CASE rules[i].comment = comment
        BY <1>1, <1>6, <2>1 DEF UpdateRule
    <2>2. CASE rules[i].comment # comment
        <3> DEFINE row == Edited(rules[i], comment)
        <3>1. IsLocal(i) /\ rules' = With(i, row) /\ Log("rule_edited", i, rules[i])
            BY <1>6, <2>2 DEF UpdateRule, IsLocal
        <3>2. rules[i] \in Row /\ rules[i].source = "local" /\ rules[i].sub = NoSub
            BY <3>1 DEF TypeOK, LocalDetached, IsLocal
        <3>3. /\ row \in Row /\ row.source = "local" /\ row.sub = NoSub
              /\ row.entry = rules[i].entry
            BY <3>2 DEF Edited, Row
        <3>4. LocalWritten(i, row, "rule_edited")
            BY <3>1, <3>3 DEF LocalWritten, Log
        <3> QED
            BY <3>3, <3>4 DEF EventType
    <2> QED
        BY <2>1, <2>2
<1>7. ASSUME NEW i \in Id, DeleteRule(i)
      PROVE  LocalRemoved(i)
    BY <1>7 DEF DeleteRule, LocalRemoved, IsLocal
<1>8. ASSUME NEW i \in Id, PromoteRule(i)
      PROVE  \/ LocalKept
             \/ \E row \in Row, event \in EventType : LocalWritten(i, row, event)
    <2>1. CASE rules[i].source = "local" \/ TakenLocally(rules[i].entry)
        BY <1>1, <1>8, <2>1 DEF PromoteRule
    <2>2. CASE ~(rules[i].source = "local" \/ TakenLocally(rules[i].entry))
        <3> DEFINE row == Detached(rules[i])
        <3>1. /\ i \in DOMAIN rules /\ ~IsLocal(i)
              /\ rules' = With(i, row) /\ Log("rule_promoted", i, rules[i])
            BY <1>8, <2>2 DEF PromoteRule, IsLocal
        <3>2. rules[i] \in Row
            BY <3>1 DEF TypeOK
        <3>3. /\ row \in Row /\ row.source = "local" /\ row.sub = NoSub
              /\ row.entry = rules[i].entry
            BY <3>2 DEF Detached, Row, Source
        <3>4. LocalWritten(i, row, "rule_promoted")
            BY <3>1, <3>3 DEF LocalWritten, Log
        <3> QED
            BY <3>3, <3>4 DEF EventType
    <2> QED
        BY <2>1, <2>2
<1> QED
    BY <1>2, <1>3, <1>4, <1>5, <1>6, <1>7, <1>8 DEF Handler

\* Nobody else writes or removes a local rule: what a subscription brings or takes away
\* is not local.
LEMMA OtherRules ==
    ASSUME TypeOK, LocalDetached,
           Reconciler \/ ServiceStart \/ Bootstrap \/ Environment \/ UNCHANGED vars
    PROVE  LocalKept
<1>1. CASE UNCHANGED db
    BY <1>1, SameRulesKept
<1>2. ASSUME NEW sub \in Sub, NEW entry \in Entry, NEW comment \in Comment,
             SubscriptionSync(sub, entry, comment)
      PROVE  LocalKept
    <2> DEFINE row == [entry |-> entry, source |-> sub, sub |-> sub, comment |-> comment]
    <2>1. PICK i \in FreshId : rules' = With(i, row)
        BY <1>2 DEF SubscriptionSync
    <2>2. i \notin DOMAIN rules /\ audit' = audit /\ row.source # "local"
        BY <1>2, FreshIdIsFree DEF SubscriptionSync
    <2>3. /\ DOMAIN rules' = DOMAIN rules \cup {i} /\ rules'[i] = row
          /\ \A j \in DOMAIN rules : rules'[j] = rules[j]
        BY <2>1, <2>2 DEF With
    <2> QED
        BY <2>2, <2>3 DEF LocalKept
<1>3. ASSUME NEW sub \in Sub, Unsubscribe(sub)
      PROVE  LocalKept
    <2> DEFINE gone == {i \in DOMAIN rules : rules[i].sub = sub}
    <2>1. rules' = [i \in DOMAIN rules \ gone |-> rules[i]] /\ audit' = audit
        BY <1>3 DEF Unsubscribe
    <2>2. \A i \in DOMAIN rules : rules[i].source = "local" => i \notin gone
        BY DEF LocalDetached
    <2>3. DOMAIN rules' = DOMAIN rules \ gone /\ \A i \in DOMAIN rules' : rules'[i] = rules[i]
        BY <2>1
    <2> QED
        BY <2>1, <2>2, <2>3 DEF LocalKept
<1> QED
    BY <1>1, <1>2, <1>3
    DEF Reconciler, ReconcileList, ReconcileApply, ReconcileRefused, ServiceStart, Bootstrap,
        Environment, BootstrapFails, NftFails, Crash, HostReboot, FlushRuleset, ForeignEdit,
        vars

\* An audit row is the last about its id, and changes nothing about the others.
LEMMA LogIs ==
    ASSUME TypeOK, NEW i \in Id, NEW row \in Row, NEW event \in EventType, Log(event, i, row)
    PROVE  /\ \E k \in DOMAIN audit' :
                /\ \A j \in DOMAIN audit' : LastAbout(i, j)' <=> j = k
                /\ audit'[k] = [event |-> event, id |-> i, entry |-> row.entry]
           /\ \A h \in Id \ {i} : \A j \in DOMAIN audit' :
                LastAbout(h, j)' <=> j \in DOMAIN audit /\ LastAbout(h, j)
           /\ \A j \in DOMAIN audit : j \in DOMAIN audit' /\ audit'[j] = audit[j]
<1> DEFINE new == [event |-> event, id |-> i, entry |-> row.entry]
           k == Len(audit) + 1
<1>1. new \in [event : EventType, id : Id, entry : Entry]
    BY DEF Row
<1>2. audit \in Seq([event : EventType, id : Id, entry : Entry]) /\ audit' = Append(audit, new)
    BY DEF TypeOK, Log
<1>3. /\ DOMAIN audit = 1 .. Len(audit) /\ Len(audit) \in Nat /\ DOMAIN audit' = 1 .. k
      /\ \A j \in DOMAIN audit : audit'[j] = audit[j]
      /\ audit'[k] = new
    BY <1>1, <1>2
<1>4. k \in DOMAIN audit' /\ audit'[k].id = i
    BY <1>3
<1>5. ASSUME NEW j \in DOMAIN audit'
      PROVE  LastAbout(i, j)' <=> j = k
    BY <1>3, <1>4 DEF LastAbout
<1>6. ASSUME NEW h \in Id \ {i}, NEW j \in DOMAIN audit'
      PROVE  LastAbout(h, j)' <=> j \in DOMAIN audit /\ LastAbout(h, j)
    BY <1>3, <1>4 DEF LastAbout
<1> QED
    BY <1>3, <1>4, <1>5, <1>6

\* What the log says of an id it does not speak of now.
LEMMA ExplainedElsewhere ==
    ASSUME TypeOK, NEW i \in Id, NEW row \in Row, NEW event \in EventType, Log(event, i, row),
           NEW h \in Id \ {i}, IsLocal(h)' <=> IsLocal(h), IsLocal(h) => rules'[h] = rules[h],
           Explained(h)
    PROVE  Explained(h)'
<1>1. CASE IsLocal(h)
    BY <1>1, LogIs DEF Explained
<1>2. CASE ~IsLocal(h)
    BY <1>2, LogIs DEF Explained
<1> QED
    BY <1>1, <1>2

LEMMA WrittenInv ==
    ASSUME TypeOK, AuditInv,
           NEW i \in Id, NEW row \in Row, NEW event \in EventType, LocalWritten(i, row, event)
    PROVE  AuditInv'
<1>1. /\ DOMAIN rules' = DOMAIN rules \cup {i} /\ rules'[i] = row
      /\ \A h \in DOMAIN rules \ {i} : rules'[h] = rules[h]
    BY DEF LocalWritten, With
<1>2. LocalDetached'
    BY <1>1 DEF AuditInv, LocalDetached, LocalWritten
<1>3. Explained(i)'
    BY <1>1, LogIs DEF Explained, IsLocal, LocalWritten
<1>4. ASSUME NEW h \in Id \ {i}
      PROVE  Explained(h)'
    <2>1. IsLocal(h)' <=> IsLocal(h)
        BY <1>1 DEF IsLocal
    <2>2. IsLocal(h) => rules'[h] = rules[h]
        BY <1>1 DEF IsLocal
    <2> QED
        BY <2>1, <2>2, ExplainedElsewhere DEF AuditInv, LocalWritten
<1> QED
    BY <1>2, <1>3, <1>4 DEF AuditInv

LEMMA RemovedInv ==
    ASSUME TypeOK, AuditInv, NEW i \in Id, LocalRemoved(i)
    PROVE  AuditInv'
<1>1. DOMAIN rules' = DOMAIN rules \ {i} /\ \A h \in DOMAIN rules' : rules'[h] = rules[h]
    BY DEF LocalRemoved, Without
<1>2. rules[i] \in Row /\ "rule_removed" \in EventType
    BY DEF LocalRemoved, IsLocal, TypeOK, EventType
<1>3. LocalDetached'
    BY <1>1 DEF AuditInv, LocalDetached
<1>4. Explained(i)'
    BY <1>1, <1>2, LogIs DEF Explained, IsLocal, LocalRemoved
<1>5. ASSUME NEW h \in Id \ {i}
      PROVE  Explained(h)'
    <2>1. IsLocal(h)' <=> IsLocal(h)
        BY <1>1 DEF IsLocal
    <2>2. IsLocal(h) => rules'[h] = rules[h]
        BY <1>1 DEF IsLocal
    <2> QED
        BY <1>2, <2>1, <2>2, ExplainedElsewhere DEF AuditInv, LocalRemoved
<1> QED
    BY <1>3, <1>4, <1>5 DEF AuditInv

LEMMA KeptInv ==
    ASSUME AuditInv, LocalKept
    PROVE  AuditInv'
<1>1. audit' = audit
    BY DEF LocalKept
<1>2. ASSUME NEW i \in Id
      PROVE  Explained(i)'
    <2>1. (IsLocal(i)' <=> IsLocal(i)) /\ (IsLocal(i) => rules'[i] = rules[i])
        BY DEF LocalKept, IsLocal
    <2>2. CASE IsLocal(i)
        BY <1>1, <2>1, <2>2 DEF AuditInv, Explained, LastAbout
    <2>3. CASE ~IsLocal(i)
        BY <1>1, <2>1, <2>3 DEF AuditInv, Explained, LastAbout
    <2> QED
        BY <2>2, <2>3
<1>3. LocalDetached'
    BY DEF AuditInv, LocalKept, LocalDetached
<1> QED
    BY <1>2, <1>3 DEF AuditInv

LEMMA AuditStep == TypeOK /\ AuditInv /\ [Next]_vars => AuditInv'
<1> SUFFICES ASSUME TypeOK, AuditInv, [Next]_vars
             PROVE  AuditInv'
    OBVIOUS
<1>1. LocalDetached
    BY DEF AuditInv
<1>2. CASE Handler
    BY <1>1, <1>2, HandlerRules, KeptInv, WrittenInv, RemovedInv
<1>3. CASE ~Handler
    BY <1>1, <1>3, OtherRules, KeptInv DEF Next
<1> QED
    BY <1>2, <1>3

THEOREM AuditInvariant == Spec => [](TypeOK /\ AuditInv)
<1>1. Init => AuditInv
    <2> SUFFICES ASSUME Init
                 PROVE  AuditInv
        OBVIOUS
    <2>1. DOMAIN rules = {} /\ DOMAIN audit = {}
        BY DEF Init
    <2> QED
        BY <2>1 DEF AuditInv, LocalDetached, Explained, IsLocal
<1> QED
    BY <1>1, AuditStep, TypeCorrect, PTL DEF Spec

\* The last entry of the log about an id says whether a local rule has it, and which
\* entry that rule blocks.
THEOREM AuditExplains == Spec => []AuditExplainsRules
<1>1. AuditInv => AuditExplainsRules
    BY DEF AuditInv, Explained, IsLocal, AuditExplainsRules
<1> QED
    BY <1>1, AuditInvariant, PTL

\* A local rule goes only by the DELETE that names it.
THEOREM LocalGoesByDelete == Spec => LocalRulesGoByDelete
<1> DEFINE Goes ==
        \A i \in DOMAIN rules :
            rules[i].source = "local" =>
                \/ i \in DOMAIN rules' /\ rules'[i].source = "local"
                                      /\ rules'[i].entry = rules[i].entry
                \/ audit' = Append(audit, [event |-> "rule_removed", id |-> i,
                                           entry |-> rules[i].entry])
<1>1. TypeOK /\ AuditInv /\ [Next]_vars => [Goes]_vars
    <2> SUFFICES ASSUME TypeOK, LocalDetached, Next, NEW h \in DOMAIN rules, IsLocal(h)
                 PROVE  \/ IsLocal(h)' /\ rules'[h].entry = rules[h].entry
                        \/ LocalRemoved(h)
        BY DEF AuditInv, IsLocal, LocalRemoved, Log
    <2>1. h \in Id
        BY DEF TypeOK
    <2>2. CASE LocalKept
        BY <2>2 DEF LocalKept, IsLocal
    <2>3. ASSUME NEW i \in Id, NEW row \in Row, NEW event \in EventType,
                 LocalWritten(i, row, event)
          PROVE  IsLocal(h)' /\ rules'[h].entry = rules[h].entry
        BY <2>3 DEF LocalWritten, With, IsLocal
    <2>4. ASSUME NEW i \in Id, LocalRemoved(i)
          PROVE  (IsLocal(h)' /\ rules'[h].entry = rules[h].entry) \/ LocalRemoved(h)
        BY <2>4 DEF LocalRemoved, Without, IsLocal
    <2> QED
        BY <2>2, <2>3, <2>4, HandlerRules, OtherRules DEF Next
<1> QED
    BY <1>1, AuditInvariant, PTL DEF Spec, LocalRulesGoByDelete

-----------------------------------------------------------------------------
(* The gate of rule creation, and the one way around it.                    *)

\* A local rule whose entry is_ip_blockable refuses was promoted, and the log says so.
Promoted(i) == \E k \in DOMAIN audit :
                   audit[k] = [event |-> "rule_promoted", id |-> i, entry |-> rules[i].entry]

Gated == \A i \in DOMAIN rules : IsLocal(i) => rules[i].entry \in Blockable \/ Promoted(i)

\* The log only grows.
LEMMA LogGrows ==
    ASSUME TypeOK, NEW i \in Id, NEW row \in Row, NEW event \in EventType, Log(event, i, row)
    PROVE  /\ \A j \in DOMAIN audit : j \in DOMAIN audit' /\ audit'[j] = audit[j]
           /\ \E j \in DOMAIN audit' :
                  audit'[j] = [event |-> event, id |-> i, entry |-> row.entry]
<1> DEFINE new == [event |-> event, id |-> i, entry |-> row.entry]
<1>1. new \in [event : EventType, id : Id, entry : Entry]
    BY DEF Row
<1>2. audit \in Seq([event : EventType, id : Id, entry : Entry]) /\ audit' = Append(audit, new)
    BY DEF TypeOK, Log
<1>3. /\ DOMAIN audit = 1 .. Len(audit) /\ DOMAIN audit' = 1 .. Len(audit) + 1
      /\ Len(audit) \in Nat /\ \A j \in DOMAIN audit : audit'[j] = audit[j]
      /\ audit'[Len(audit) + 1] = new
    BY <1>1, <1>2
<1> QED
    BY <1>3

LEMMA GatedStep == TypeOK /\ AuditInv /\ Gated /\ [Next]_vars => Gated'
<1> SUFFICES ASSUME TypeOK, LocalDetached, Gated, [Next]_vars,
                    NEW h \in DOMAIN rules', IsLocal(h)', rules'[h].entry \notin Blockable
             PROVE  Promoted(h)'
    BY DEF AuditInv, Gated
<1>1. CASE LocalKept
    <2>1. /\ h \in DOMAIN rules /\ IsLocal(h) /\ rules'[h] = rules[h] /\ audit' = audit
        BY <1>1 DEF LocalKept, IsLocal
    <2> QED
        BY <2>1 DEF Gated, Promoted
<1>2. ASSUME NEW i \in Id, NEW row \in Row, NEW event \in EventType,
             LocalWritten(i, row, event)
      PROVE  Promoted(h)'
    <2>1. /\ \A j \in DOMAIN audit : j \in DOMAIN audit' /\ audit'[j] = audit[j]
          /\ \E j \in DOMAIN audit' :
                 audit'[j] = [event |-> event, id |-> i, entry |-> row.entry]
        BY <1>2, LogGrows DEF LocalWritten
    <2>2. /\ DOMAIN rules' = DOMAIN rules \cup {i} /\ rules'[i] = row
          /\ \A j \in DOMAIN rules \ {i} : rules'[j] = rules[j]
        BY <1>2 DEF LocalWritten, With
    <2>3. CASE h = i /\ ~IsLocal(i)
        BY <1>2, <2>1, <2>2, <2>3 DEF LocalWritten, Promoted
    <2>4. CASE h # i \/ IsLocal(i)
        <3>1. h \in DOMAIN rules /\ IsLocal(h) /\ rules'[h].entry = rules[h].entry
            BY <1>2, <2>2, <2>4 DEF LocalWritten, IsLocal
        <3> QED
            BY <2>1, <3>1 DEF Gated, Promoted
    <2> QED
        BY <2>3, <2>4
<1>3. ASSUME NEW i \in Id, LocalRemoved(i)
      PROVE  Promoted(h)'
    <2>1. rules[i] \in Row /\ "rule_removed" \in EventType
        BY <1>3 DEF LocalRemoved, IsLocal, TypeOK, EventType
    <2>2. \A j \in DOMAIN audit : j \in DOMAIN audit' /\ audit'[j] = audit[j]
        BY <1>3, <2>1, LogGrows DEF LocalRemoved
    <2>3. h \in DOMAIN rules /\ IsLocal(h) /\ rules'[h] = rules[h]
        BY <1>3 DEF LocalRemoved, Without, IsLocal
    <2> QED
        BY <2>2, <2>3 DEF Gated, Promoted
<1> QED
    BY <1>1, <1>2, <1>3, HandlerRules, OtherRules DEF Next

\* A local rule blocks an entry that is_ip_blockable has accepted, unless it came by a
\* promotion, which the log shows: promote_rule does not ask the gate, and neither does
\* whoever fills a subscription.
THEOREM OnlyPromotionPassesGate == Spec => []Gated
<1>1. Init => Gated
    BY DEF Init, Gated
<1> QED
    BY <1>1, GatedStep, AuditInvariant, PTL DEF Spec

-----------------------------------------------------------------------------
(* Prefix arithmetic, for addresses of every width: Pow2 by induction on a   *)
(* set of naturals, then what networks made of prefixes share.               *)

\* A set of naturals that holds 0 and every successor holds every natural.
LEMMA NatInd ==
    ASSUME NEW S \in SUBSET Nat, 0 \in S, \A n \in S : n + 1 \in S
    PROVE  S = Nat
<1> DEFINE Left == Nat \ S
<1>1. SUFFICES ASSUME Left # {} PROVE FALSE
    OBVIOUS
<1>2. PICK m \in Left : \A n \in Left : <<n, m>> \notin OpToRel(<, Nat)
    <2> HIDE DEF Left
    <2>1. Left \subseteq Nat
        BY DEF Left
    <2> QED
        BY <1>1, <2>1, NatLessThanWellFounded, WFMin
<1>3. m # 0 /\ m \in Nat
    OBVIOUS
<1>4. m - 1 \in Nat /\ m - 1 < m /\ m - 1 + 1 = m
    BY <1>3
<1>5. m - 1 \notin Left
    BY <1>2, <1>3, <1>4 DEF OpToRel
<1> QED
    BY <1>4, <1>5

\* g follows the definition of Pow2 up to n.
Follows(g, n) ==
    /\ g \in [0 .. n -> Nat]
    /\ g[0] = 1
    /\ \A k \in 0 .. n : k # 0 => g[k] = 2 * g[k - 1]

LEMMA FollowsOnce ==
    ASSUME NEW n \in Nat, NEW m \in Nat, NEW g, NEW h, Follows(g, n), Follows(h, m)
    PROVE  \A k \in Nat : k <= n /\ k <= m => g[k] = h[k]
<1> DEFINE S == {k \in Nat : k <= n /\ k <= m => g[k] = h[k]}
<1>1. 0 \in S
    BY DEF Follows
<1>2. ASSUME NEW k \in S PROVE k + 1 \in S
    <2>1. ASSUME k + 1 <= n, k + 1 <= m PROVE g[k + 1] = h[k + 1]
        <3>1. k \in Nat /\ g[k] = h[k]
            BY <2>1
        <3>2. k + 1 \in 0 .. n /\ k + 1 \in 0 .. m /\ k + 1 # 0 /\ k + 1 - 1 = k
            BY <2>1, <3>1
        <3> QED
            BY <3>1, <3>2 DEF Follows
    <2> QED
        BY <2>1
<1>3. S = Nat
    <2> HIDE DEF S
    <2>1. S \in SUBSET Nat
        BY DEF S
    <2> QED
        BY <1>1, <1>2, <2>1, NatInd
<1> QED
    BY <1>3

LEMMA FollowsExists == \A n \in Nat : \E g : Follows(g, n)
<1> DEFINE S == {n \in Nat : \E g : Follows(g, n)}
<1>1. 0 \in S
    <2>1. Follows([k \in 0 .. 0 |-> 1], 0)
        BY DEF Follows
    <2> QED
        BY <2>1
<1>2. ASSUME NEW n \in S PROVE n + 1 \in S
    <2>1. PICK g : Follows(g, n)
        OBVIOUS
    <2>0. n \in Nat
        OBVIOUS
    <2> DEFINE h == [k \in 0 .. n + 1 |-> IF k = n + 1 THEN 2 * g[n] ELSE g[k]]
    <2>2. h \in [0 .. n + 1 -> Nat]
        BY <2>0, <2>1 DEF Follows
    <2>3. h[0] = 1
        BY <2>0, <2>1 DEF Follows
    <2>4. ASSUME NEW k \in 0 .. n + 1, k # 0 PROVE h[k] = 2 * h[k - 1]
        <3>1. CASE k = n + 1
            BY <3>1, <2>0
        <3>2. CASE k # n + 1
            <4>1. k \in 0 .. n /\ k - 1 \in 0 .. n /\ k - 1 # n + 1
                BY <3>2, <2>0, <2>4
            <4> QED
                BY <4>1, <3>2, <2>0, <2>1, <2>4 DEF Follows
        <3> QED
            BY <3>1, <3>2
    <2>5. Follows(h, n + 1)
        <3> HIDE DEF h
        <3> QED
            BY <2>2, <2>3, <2>4 DEF Follows
    <2> QED
        BY <2>0, <2>5
<1>3. S = Nat
    <2> HIDE DEF S
    <2>1. S \in SUBSET Nat
        BY DEF S
    <2> QED
        BY <1>1, <1>2, <2>1, NatInd
<1> QED
    BY <1>3

\* Pow2 is a function that satisfies its definition.
LEMMA Pow2Def == Pow2 = [n \in Nat |-> IF n = 0 THEN 1 ELSE 2 * Pow2[n - 1]]
<1> DEFINE G(n) == CHOOSE g : Follows(g, n)
           f == [n \in Nat |-> G(n)[n]]
<1>1. ASSUME NEW n \in Nat PROVE Follows(G(n), n)
    BY FollowsExists
<1>2. f[0] = 1
    BY <1>1 DEF Follows
<1>3. ASSUME NEW n \in Nat, n # 0 PROVE f[n] = 2 * f[n - 1]
    <2>1. n - 1 \in Nat /\ n \in 0 .. n /\ n - 1 <= n
        BY <1>3
    <2>2. Follows(G(n), n) /\ Follows(G(n - 1), n - 1)
        BY <1>1, <2>1
    <2>3. G(n)[n] = 2 * G(n)[n - 1]
        BY <1>3, <2>1, <2>2 DEF Follows
    <2>4. G(n)[n - 1] = G(n - 1)[n - 1]
        <3> HIDE DEF G
        <3> QED
            BY <2>1, <2>2, FollowsOnce
    <2> QED
        BY <2>1, <2>3, <2>4
<1>4. f = [n \in Nat |-> IF n = 0 THEN 1 ELSE 2 * f[n - 1]]
    <2>1. f = [n \in Nat |-> f[n]]
        OBVIOUS
    <2> HIDE DEF f
    <2>2. \A n \in Nat : f[n] = IF n = 0 THEN 1 ELSE 2 * f[n - 1]
        BY <1>2, <1>3
    <2> QED
        BY <2>1, <2>2
<1>5. \E p : p = [n \in Nat |-> IF n = 0 THEN 1 ELSE 2 * p[n - 1]]
    <2> HIDE DEF f
    <2> QED
        BY <1>4
<1> QED
    BY <1>5 DEF Pow2

LEMMA Pow2Step ==
    /\ Pow2[0] = 1
    /\ \A n \in Nat : Pow2[n + 1] = 2 * Pow2[n]
<1>1. Pow2[0] = 1
    BY Pow2Def
<1>2. ASSUME NEW n \in Nat PROVE Pow2[n + 1] = 2 * Pow2[n]
    <2>1. n + 1 \in Nat /\ n + 1 # 0 /\ n + 1 - 1 = n
        OBVIOUS
    <2> QED
        BY <2>1, Pow2Def
<1> QED
    BY <1>1, <1>2

LEMMA Pow2Type == \A n \in Nat : Pow2[n] \in Nat \ {0}
<1> DEFINE S == {n \in Nat : Pow2[n] \in Nat \ {0}}
<1>1. 0 \in S
    BY Pow2Step
<1>2. ASSUME NEW n \in S PROVE n + 1 \in S
    BY Pow2Step
<1>3. S = Nat
    <2> HIDE DEF S
    <2>1. S \in SUBSET Nat
        BY DEF S
    <2> QED
        BY <1>1, <1>2, <2>1, NatInd
<1> QED
    BY <1>3

LEMMA Double == \A x, y \in Nat : 2 * (x * y) = x * (2 * y)
    OBVIOUS

LEMMA Pow2Sum ==
    ASSUME NEW a \in Nat
    PROVE  \A d \in Nat : Pow2[a + d] = Pow2[a] * Pow2[d]
<1> DEFINE S == {d \in Nat : Pow2[a + d] = Pow2[a] * Pow2[d]}
<1>1. 0 \in S
    <2>1. Pow2[a] \in Nat /\ Pow2[a] * 1 = Pow2[a] /\ a + 0 = a
        BY Pow2Type
    <2> QED
        BY <2>1, Pow2Step
<1>2. ASSUME NEW d \in S PROVE d + 1 \in S
    <2>1. d \in Nat /\ Pow2[a + d] = Pow2[a] * Pow2[d] /\ a + d \in Nat
        OBVIOUS
    <2>2. Pow2[a + d + 1] = 2 * Pow2[a + d] /\ Pow2[d + 1] = 2 * Pow2[d]
        BY <2>1, Pow2Step
    <2>3. 2 * (Pow2[a] * Pow2[d]) = Pow2[a] * (2 * Pow2[d])
        BY <2>1, Pow2Type, Double
    <2>4. a + (d + 1) = a + d + 1
        BY <2>1
    <2>5. Pow2[a + (d + 1)] = Pow2[a] * Pow2[d + 1]
        BY <2>1, <2>2, <2>3, <2>4
    <2> QED
        BY <2>1, <2>5
<1>3. S = Nat
    <2> HIDE DEF S
    <2>1. S \in SUBSET Nat
        BY DEF S
    <2> QED
        BY <1>1, <1>2, <2>1, NatInd
<1> QED
    BY <1>3

LEMMA Monotone == \A s, a, b \in Nat : a <= b => s * a <= s * b
    OBVIOUS

\* A larger block is a whole number of smaller ones, and strictly larger.
LEMMA Pow2Multiple ==
    ASSUME NEW a \in Nat, NEW b \in Nat, a <= b
    PROVE  \E k \in Nat \ {0} : Pow2[b] = Pow2[a] * k /\ (a # b => k >= 2)
<1>1. b - a \in Nat /\ a + (b - a) = b
    OBVIOUS
<1>2. Pow2[b] = Pow2[a] * Pow2[b - a] /\ Pow2[b - a] \in Nat \ {0}
    BY <1>1, Pow2Sum, Pow2Type
<1>3. ASSUME a # b PROVE Pow2[b - a] >= 2
    <2>1. b - a - 1 \in Nat /\ (b - a - 1) + 1 = b - a
        BY <1>3
    <2>2. Pow2[b - a] = 2 * Pow2[b - a - 1] /\ Pow2[b - a - 1] \in Nat \ {0}
        BY <2>1, Pow2Step, Pow2Type
    <2> QED
        BY <2>2
<1> QED
    BY <1>2, <1>3

\* Blocks of one size have one exponent.
LEMMA Pow2Injective ==
    ASSUME NEW a \in Nat, NEW b \in Nat, Pow2[a] = Pow2[b]
    PROVE  a = b
<1>1. ASSUME NEW c \in Nat, NEW d \in Nat, c <= d, Pow2[c] = Pow2[d] PROVE c = d
    <2>1. PICK k \in Nat \ {0} : Pow2[d] = Pow2[c] * k /\ (c # d => k >= 2)
        BY <1>1, Pow2Multiple
    <2>2. Pow2[c] \in Nat \ {0}
        BY Pow2Type
    <2>3. ASSUME k >= 2 PROVE FALSE
        <3>1. Pow2[c] * 2 <= Pow2[c] * k
            BY <2>2, <2>3, Monotone
        <3> QED
            BY <3>1, <2>1, <2>2, <1>1
    <2> QED
        BY <2>1, <2>3
<1> QED
    BY <1>1

\* What rounding down to a block leaves.
LEMMA RoundDown ==
    ASSUME NEW x \in Nat, NEW s \in Nat \ {0}
    PROVE  \E q \in Nat : x - (x % s) = s * q /\ s * q <= x
    OBVIOUS

\* A block that starts below a border ends at or below it.
LEMMA BlockEndsBelow ==
    ASSUME NEW s \in Nat \ {0}, NEW q \in Nat, NEW k \in Nat, s * q < s * k
    PROVE  s * q + s <= s * k
<1>1. q < k
    BY Monotone
<1>2. s * (q + 1) <= s * k
    BY <1>1, Monotone
<1>3. s * (q + 1) = s * q + s
    OBVIOUS
<1> QED
    BY <1>2, <1>3

-----------------------------------------------------------------------------
\* A network is a whole number of blocks of its size from address 0, all of
\* them addresses.
LEMMA NetworkShape ==
    ASSUME NEW net \in Networks4
    PROVE  /\ net = <<net[1], net[2]>> /\ net[1] \in Address /\ net[2] \in 0 .. Width
           /\ BlockSize(net[2]) \in Nat \ {0}
           /\ \E q \in Nat : net[1] = BlockSize(net[2]) * q
<1>1. PICK p \in Pair : net = Network(p)
    BY DEF Networks4
<1>2. p[1] \in Address /\ p[2] \in 0 .. Width /\ Width - p[2] \in Nat
    BY <1>1, WidthAssumption DEF Pair
<1>3. BlockSize(p[2]) \in Nat \ {0} /\ Pow2[Width] \in Nat
    BY <1>2, Pow2Type, WidthAssumption DEF BlockSize
<1>4. p[1] \in Nat /\ p[1] < Pow2[Width]
    BY <1>2, <1>3 DEF Address
<1>5. PICK q \in Nat : /\ p[1] - (p[1] % BlockSize(p[2])) = BlockSize(p[2]) * q
                       /\ BlockSize(p[2]) * q <= p[1]
    BY <1>3, <1>4, RoundDown
<1>6. BlockSize(p[2]) * q \in Nat
    BY <1>3, <1>5
<1>7. net = <<BlockSize(p[2]) * q, p[2]>>
    BY <1>1, <1>5 DEF Network
<1>8. BlockSize(p[2]) * q \in Address
    BY <1>3, <1>4, <1>5, <1>6 DEF Address
<1> QED
    BY <1>2, <1>3, <1>5, <1>7, <1>8

\* The ends of a network, in order.
LEMMA NetworkEnds ==
    ASSUME NEW net \in Networks4
    PROVE  First(net) \in Nat /\ Last(net) \in Nat /\ First(net) <= Last(net)
<1>1. net[1] \in Nat
    BY NetworkShape, Pow2Type, WidthAssumption DEF Address
<1> QED
    BY <1>1, NetworkShape DEF First, Last

\* The size of a network divides the address space.
LEMMA NetworkFits ==
    ASSUME NEW net \in Networks4
    PROVE  Range4(net) # {} /\ Range4(net) \subseteq Address
<1> DEFINE s == BlockSize(net[2])
<1>1. net[1] \in Address /\ net[2] \in 0 .. Width /\ s \in Nat \ {0}
    BY NetworkShape
<1>2. PICK q \in Nat : net[1] = s * q
    BY NetworkShape
<1>3. Width - net[2] \in Nat /\ Width \in Nat /\ Width - net[2] <= Width
    BY <1>1, WidthAssumption
<1>4. PICK k \in Nat \ {0} : Pow2[Width] = s * k
    BY <1>3, Pow2Multiple DEF BlockSize
<1>5. Pow2[Width] \in Nat
    BY <1>3, Pow2Type
<1>6. net[1] \in Nat /\ net[1] < Pow2[Width]
    BY <1>1, <1>5 DEF Address
<1> HIDE DEF s
<1>7. s * q < s * k
    BY <1>2, <1>4, <1>6
<1>8. s * q + s <= s * k
    BY <1>1, <1>2, <1>4, <1>7, BlockEndsBelow
<1>9. net[1] + s <= Pow2[Width]
    BY <1>2, <1>4, <1>8
<1> QED
    BY <1>1, <1>5, <1>6, <1>9 DEF Range4, First, Last, Address, s

\* Two ranges of addresses meet exactly when one holds an end of the other.
THEOREM OverlapsIsIntersection ==
    \A m, n \in Networks4 : Overlaps(m, n) <=> Range4(m) \cap Range4(n) # {}
<1> SUFFICES ASSUME NEW m \in Networks4, NEW n \in Networks4
             PROVE  Overlaps(m, n) <=> Range4(m) \cap Range4(n) # {}
    OBVIOUS
<1>1. /\ First(m) \in Int /\ Last(m) \in Int /\ First(m) <= Last(m)
      /\ First(n) \in Int /\ Last(n) \in Int /\ First(n) <= Last(n)
    BY NetworkEnds
<1>2. ASSUME NEW a \in Range4(m), a \in Range4(n) PROVE Overlaps(m, n)
    BY <1>1, <1>2 DEF Overlaps, Range4
<1>3. ASSUME Overlaps(m, n) PROVE Range4(m) \cap Range4(n) # {}
    BY <1>1, <1>3 DEF Overlaps, Range4
<1> QED
    BY <1>2, <1>3

\* A block as long as another one, or shorter, lies inside it or misses it.
LEMMA BlocksNest ==
    ASSUME NEW s \in Nat \ {0}, NEW k \in Nat \ {0}, NEW q \in Nat, NEW r \in Nat,
           NEW x \in s * q .. s * q + s - 1,
           x \in s * k * r .. s * k * r + s * k - 1
    PROVE  s * q .. s * q + s - 1 \subseteq s * k * r .. s * k * r + s * k - 1
<1> DEFINE c == k * r
<1>1. c \in Nat /\ s * k * r = s * c /\ c + k \in Nat
    OBVIOUS
<1>2. s * (c + k) = s * c + s * k /\ s * (q + 1) = s * q + s
    OBVIOUS
<1> HIDE DEF c
<1>3. s * q \in Nat /\ s * c \in Nat /\ s * k \in Nat /\ s * (c + k) \in Nat /\ s * (q + 1) \in Nat
    BY <1>1
<1>4. c <= q
    <2>1. s * c < s * (q + 1)
        BY <1>1, <1>2, <1>3
    <2>2. q + 1 \in Nat
        OBVIOUS
    <2>3. ~ (q + 1 <= c)
        BY <2>1, <2>2, <1>1, <1>3, Monotone
    <2> QED
        BY <2>3, <1>1
<1>5. q + 1 <= c + k
    <2>1. s * q < s * (c + k)
        BY <1>1, <1>2, <1>3
    <2>2. ~ (c + k <= q)
        BY <2>1, <1>1, <1>3, Monotone
    <2> QED
        BY <2>2, <1>1
<1>6. s * c <= s * q /\ s * (q + 1) <= s * (c + k)
    BY <1>1, <1>4, <1>5, Monotone
<1> QED
    BY <1>1, <1>2, <1>3, <1>6

\* Of two networks that share an address the longer prefix lies in the shorter one.
LEMMA LongerPrefixInside ==
    ASSUME NEW m \in Networks4, NEW n \in Networks4, n[2] <= m[2],
           Range4(m) \cap Range4(n) # {}
    PROVE  Range4(m) \subseteq Range4(n)
<1> DEFINE s == BlockSize(m[2])
<1>1. /\ m[2] \in 0 .. Width /\ n[2] \in 0 .. Width
      /\ s \in Nat \ {0}
    BY NetworkShape
<1>2. PICK q \in Nat : m[1] = s * q
    BY NetworkShape
<1>3. PICK r \in Nat : n[1] = BlockSize(n[2]) * r
    BY NetworkShape
<1>4. Width - m[2] \in Nat /\ Width - n[2] \in Nat /\ Width - m[2] <= Width - n[2]
    BY <1>1, WidthAssumption
<1>5. PICK k \in Nat \ {0} : BlockSize(n[2]) = s * k
    BY <1>4, Pow2Multiple DEF BlockSize
<1>6. PICK x \in Range4(m) : x \in Range4(n)
    OBVIOUS
<1>7. Range4(m) = s * q .. s * q + s - 1
    BY <1>2 DEF Range4, First, Last
<1>8. Range4(n) = s * k * r .. s * k * r + s * k - 1
    BY <1>3, <1>5 DEF Range4, First, Last
<1> HIDE DEF s
<1> QED
    BY <1>1, <1>6, <1>7, <1>8, BlocksNest

\* One range of addresses is one network.
LEMMA RangeIsOneNetwork ==
    ASSUME NEW m \in Networks4, NEW n \in Networks4, Range4(m) = Range4(n)
    PROVE  m = n
<1>1. /\ First(m) \in Nat /\ Last(m) \in Nat /\ First(m) <= Last(m)
      /\ First(n) \in Nat /\ Last(n) \in Nat /\ First(n) <= Last(n)
    BY NetworkEnds
<1>2. First(m) = First(n) /\ Last(m) = Last(n)
    <2>1. First(m) \in Range4(m) /\ Last(m) \in Range4(m)
        BY <1>1 DEF Range4
    <2>2. First(n) \in Range4(n) /\ Last(n) \in Range4(n)
        BY <1>1 DEF Range4
    <2> QED
        BY <1>1, <2>1, <2>2 DEF Range4
<1>3. /\ m = <<m[1], m[2]>> /\ m[2] \in 0 .. Width /\ BlockSize(m[2]) \in Nat
      /\ n = <<n[1], n[2]>> /\ n[2] \in 0 .. Width /\ BlockSize(n[2]) \in Nat
    BY NetworkShape
<1>4. m[1] = n[1] /\ BlockSize(m[2]) = BlockSize(n[2])
    BY <1>1, <1>2, <1>3 DEF First, Last
<1>5. m[2] = n[2]
    <2>1. Width - m[2] \in Nat /\ Width - n[2] \in Nat
        BY <1>3, WidthAssumption
    <2>2. Width - m[2] = Width - n[2]
        BY <2>1, <1>4, Pow2Injective DEF BlockSize
    <2> QED
        BY <2>2, <1>3, WidthAssumption
<1> QED
    BY <1>3, <1>4, <1>5

\* IPv4 prefixes as the networks of the blocklist.
Blocks == INSTANCE Networks WITH Addr <- Address, Entry <- Pair, Net <- Networks4,
                                 NetworkOf <- [p \in Pair |-> Network(p)],
                                 Cover <- [n \in Networks4 |-> Range4(n)]

\* What the theorems about the blocklist assume of networks holds of prefixes of
\* every width.
THEOREM PrefixesNest == Blocks!NetworkAssumption
<1> DEFINE of == [p \in Pair |-> Network(p)]
           cover == [n \in Networks4 |-> Range4(n)]
<1>1. Blocks!IsFiniteSet(Address)
    <2>1. 0 \in Int /\ Pow2[Width] - 1 \in Int
        BY Pow2Type, WidthAssumption
    <2>2. IsFiniteSet(Address)
        BY <2>1, FS_Interval DEF Address
    <2> QED
        BY <2>2 DEF IsFiniteSet, Blocks!IsFiniteSet
<1>2. of \in [Pair -> Networks4]
    BY DEF Networks4
<1>3. cover \in [Networks4 -> SUBSET Address] /\ \A n \in Networks4 : cover[n] # {}
    BY NetworkFits
<1>4. \A m, n \in Networks4 : cover[m] = cover[n] => m = n
    BY RangeIsOneNetwork
<1>5. ASSUME NEW m \in Networks4, NEW n \in Networks4
      PROVE  \/ cover[m] \subseteq cover[n]
             \/ cover[n] \subseteq cover[m]
             \/ cover[m] \cap cover[n] = {}
    <2>1. m[2] \in Int /\ n[2] \in Int
        BY NetworkShape, WidthAssumption
    <2>2. n[2] <= m[2] \/ m[2] <= n[2]
        BY <2>1
    <2> QED
        BY <2>2, LongerPrefixInside
<1> QED
    BY <1>1, <1>2, <1>3, <1>4, <1>5 DEF Blocks!NetworkAssumption

-----------------------------------------------------------------------------
(* The eligibility check.                                                   *)

LEMMA EarliestIs ==
    ASSUME NEW ks \in SUBSET Nat, ks # {}
    PROVE  Earliest(ks) \in ks /\ \A j \in ks : Earliest(ks) <= j
<1>1. PICK m \in ks : \A j \in ks : <<j, m>> \notin OpToRel(<, Nat)
    BY NatLessThanWellFounded, WFMin
<1>2. ASSUME NEW j \in ks PROVE m <= j
    <2>1. j \in Nat /\ m \in Nat
        OBVIOUS
    <2>2. ~(j < m)
        BY <1>1, <2>1 DEF OpToRel
    <2> QED
        BY <2>1, <2>2
<1> QED
    BY <1>2 DEF Earliest

\* What the search through the routing table returns: the gateway of the first
\* default route that has one, if it is an address.
LEMMA GatewayIs ==
    ASSUME NEW routes \in Seq(Route)
    PROVE  /\ DefaultGateway(routes) \in Address \cup {NoAddress}
           /\ \A a \in Address :
                DefaultGateway(routes) = a <=>
                    \E k \in Gateways(routes) :
                        /\ routes[k].gateway = a
                        /\ \A j \in 1 .. k - 1 : j \notin Gateways(routes)
<1>1. Gateways(routes) \subseteq 1 .. Len(routes) /\ Len(routes) \in Nat
    BY DEF Gateways
<1>2. \A a \in Address : a # NoAddress /\ a # BadText
    BY Pow2Type, WidthAssumption DEF Address, NoAddress, BadText
<1>3. CASE Gateways(routes) = {}
    BY <1>2, <1>3 DEF DefaultGateway
<1>4. CASE Gateways(routes) # {}
    <2> DEFINE e == Earliest(Gateways(routes))
    <2>1. e \in Gateways(routes) /\ \A j \in Gateways(routes) : e <= j
        BY <1>1, <1>4, EarliestIs
    <2>2. routes[e].gateway \in Address \cup {BadText}
        <3>1. e \in 1 .. Len(routes)
            BY <2>1, <1>1
        <3> HIDE DEF e
        <3>2. routes[e] \in Route
            BY <3>1
        <3> QED
            BY <3>2 DEF Route
    <2>3. \A j \in 1 .. e - 1 : j \notin Gateways(routes)
        BY <2>1, <1>1
    <2>4. ASSUME NEW k \in Gateways(routes), \A j \in 1 .. k - 1 : j \notin Gateways(routes)
          PROVE  k = e
        BY <2>1, <2>4, <1>1
    <2>5. DefaultGateway(routes) = IF routes[e].gateway = BadText THEN NoAddress
                                   ELSE routes[e].gateway
        BY <1>4 DEF DefaultGateway
    <2> HIDE DEF e
    <2> QED
        BY <1>2, <2>1, <2>2, <2>3, <2>4, <2>5
<1> QED
    BY <1>3, <1>4

\* The verdict is "ok" exactly when none of the six reasons applies.
LEMMA OkMeansNoReason ==
    ASSUME NEW p \in Pair, p # Malformed, NEW h
    PROVE  Verdict(p, h) = "ok" <=>
               \A k \in DOMAIN Reasons : ~Refuses(Reasons[k], Network(p), h)
<1> DEFINE applies == {k \in DOMAIN Reasons : Refuses(Reasons[k], Network(p), h)}
<1>1. DOMAIN Reasons = 1 .. 6 /\ \A k \in 1 .. 6 : Reasons[k] # "ok"
    BY DEF Reasons
<1>2. Verdict(p, h) = IF applies = {} THEN "ok" ELSE Reasons[Earliest(applies)]
    BY DEF Verdict
<1>3. applies \in SUBSET Nat /\ applies \subseteq 1 .. 6
    BY <1>1
<1>4. applies = {} <=> \A k \in DOMAIN Reasons : ~Refuses(Reasons[k], Network(p), h)
    OBVIOUS
<1> HIDE DEF applies
<1>5. applies # {} => Reasons[Earliest(applies)] # "ok"
    BY <1>1, <1>3, EarliestIs
<1> QED
    BY <1>2, <1>4, <1>5

\* One by one, what the reasons mean for the addresses of a network.
LEMMA ReasonsProtect ==
    ASSUME NEW net \in Networks4, host \in Host
    PROVE  (\A k \in DOMAIN Reasons : ~Refuses(Reasons[k], net, host)) <=>
               Range4(net) \cap Protected = {}
<1>1. /\ host.loopback \in Networks4 /\ host.private \subseteq Networks4
      /\ host.linkLocal \in Networks4 /\ host.routes \in Seq(Route)
      /\ host.bridge \in Address \cup {NoAddress}
      /\ host.file.entries \subseteq Pair \cup {Malformed}
    BY DEF Host
<1>2. Allowlist(host.file) \subseteq Networks4
    BY <1>1 DEF Allowlist, Networks4
<1>3. Range4(net) \subseteq Address /\ NoAddress \notin Address
    BY NetworkFits, Pow2Type, WidthAssumption DEF Address, NoAddress
<1> DEFINE Ranges == {host.loopback, host.linkLocal} \cup host.private \cup Allowlist(host.file)
           Meets(n) == Range4(net) \cap Range4(n) # {}
<1>4. \A n \in Ranges : Overlaps(net, n) <=> Meets(n)
    BY <1>1, <1>2, OverlapsIsIntersection
<1>5. (\A k \in DOMAIN Reasons : ~Refuses(Reasons[k], net, host)) <=>
        /\ \A n \in Ranges : ~Overlaps(net, n)
        /\ ~Holds(net, DefaultGateway(host.routes))
        /\ ~Holds(net, host.bridge)
    <2>1. DOMAIN Reasons = 1 .. 6
        BY DEF Reasons
    <2>2. /\ Refuses(Reasons[1], net, host) <=> Overlaps(net, host.loopback)
          /\ Refuses(Reasons[2], net, host) <=> \E n \in host.private : Overlaps(net, n)
          /\ Refuses(Reasons[3], net, host) <=> Overlaps(net, host.linkLocal)
          /\ Refuses(Reasons[4], net, host) <=>
                 \E n \in Allowlist(host.file) : Overlaps(net, n)
          /\ Refuses(Reasons[5], net, host) <=> Holds(net, DefaultGateway(host.routes))
          /\ Refuses(Reasons[6], net, host) <=> Holds(net, host.bridge)
        BY DEF Reasons, Refuses
    <2>3. \A k \in 1 .. 6 : k = 1 \/ k = 2 \/ k = 3 \/ k = 4 \/ k = 5 \/ k = 6
        OBVIOUS
    <2>4. {1, 2, 3, 4, 5, 6} \subseteq 1 .. 6
        OBVIOUS
    <2> QED
        BY <2>1, <2>2, <2>3, <2>4
<1> DEFINE Gateway == {a \in Address : \E k \in Gateways(host.routes) :
                             /\ host.routes[k].gateway = a
                             /\ \A j \in 1 .. k - 1 : j \notin Gateways(host.routes)}
           Bridge == {a \in Address : a = host.bridge}
<1>6. Holds(net, DefaultGateway(host.routes)) <=> Range4(net) \cap Gateway # {}
    <2>1. \A a \in Address : a \in Gateway <=> DefaultGateway(host.routes) = a
        BY <1>1, GatewayIs
    <2> HIDE DEF Gateway
    <2> QED
        BY <1>1, <1>3, <2>1, GatewayIs DEF Holds
<1>7. Holds(net, host.bridge) <=> Range4(net) \cap Bridge # {}
    BY <1>1, <1>3 DEF Holds
<1> DEFINE Reserved == UNION {Range4(n) : n \in Ranges}
<1>8. Protected = Reserved \cup Bridge \cup Gateway
    BY DEF Protected
<1>9. Range4(net) \cap Reserved = {} <=> \A n \in Ranges : ~Meets(n)
    OBVIOUS
<1>10. (\A n \in Ranges : ~Meets(n)) <=> (\A n \in Ranges : ~Overlaps(net, n))
    BY <1>4
<1> HIDE DEF Ranges, Gateway, Bridge, Meets, Reserved
<1>11. Range4(net) \cap Protected = {} <=>
          /\ Range4(net) \cap Reserved = {}
          /\ Range4(net) \cap Bridge = {}
          /\ Range4(net) \cap Gateway = {}
    BY <1>8
<1> QED
    BY <1>5, <1>6, <1>7, <1>9, <1>10, <1>11

\* The answer is the verdict on what was asked.
AnswerIsVerdict ==
    /\ asked \in Pair \cup {Malformed}
    /\ host \in Host
    /\ answer \in {"none", Verdict(asked, host)}

\* For addresses of every width and every host: is_ip_blockable accepts a pair exactly
\* when none of its addresses is reserved, allowlisted, the gateway's or the bridge's.
THEOREM AcceptanceExact == CheckSpec => []AcceptedMeansNoProtectedAddress
<1>1. CheckInit => AnswerIsVerdict
    BY DeviceAssumption DEF CheckInit, AnswerIsVerdict
<1>2. AnswerIsVerdict /\ [Check]_<<asked, host, answer>> => AnswerIsVerdict'
    BY DEF AnswerIsVerdict, Check
<1>3. AnswerIsVerdict => AcceptedMeansNoProtectedAddress
    <2> SUFFICES ASSUME AnswerIsVerdict, answer \notin {"none", "invalid"}
                 PROVE  answer = "ok" <=> Range4(Network(asked)) \cap Protected = {}
        BY DEF AcceptedMeansNoProtectedAddress
    <2>1. answer = Verdict(asked, host) /\ host \in Host
        BY DEF AnswerIsVerdict
    <2>2. asked # Malformed
        BY <2>1 DEF Verdict
    <2>3. asked \in Pair /\ Network(asked) \in Networks4
        BY <2>2 DEF AnswerIsVerdict, Networks4
    <2> QED
        BY <2>1, <2>2, <2>3, OkMeansNoReason, ReasonsProtect
<1> QED
    BY <1>1, <1>2, <1>3, PTL DEF CheckSpec
=============================================================================
