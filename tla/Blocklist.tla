----------------------------- MODULE Blocklist -----------------------------
(***************************************************************************)
(* The rules API and its projection into the kernel: the rules and audit   *)
(* tables of state.db, the nftables table, and the xblp-api process that   *)
(* writes both.  A handler commits to the database first and reconciles    *)
(* the kernel set afterwards, so everything that can happen in between (an *)
(* nft error, a crash, somebody else's nft command) is a step of its own.  *)
(*                                                                         *)
(* Handlers have no await in their bodies: one runs at a time on the event *)
(* loop, and `req` names the one that is reconciling.                      *)
(***************************************************************************)
EXTENDS Networks, Integers, Sequences

CONSTANTS
    Blockable,  \* the entries is_ip_blockable accepts (Ipv4!IsIpBlockable)
    Sub,        \* subscriptions
    NoSub,      \* rules.subscription_id is NULL
    Comment,    \* values of the editable columns (comment and confidence)
    NftEnabled, \* settings.nft_enabled
    MaxId,      \* bound: row ids are 1 .. MaxId
    MaxAudit,   \* bound: audit rows written
    MaxFaults   \* bound: failures and outside interference

ASSUME BlocklistAssumption ==
    /\ Blockable \subseteq Entry
    /\ NoSub \notin Sub
    /\ "local" \notin Sub
    /\ Comment # {}
    /\ NftEnabled \in BOOLEAN
    /\ MaxId \in Nat /\ MaxAudit \in Nat /\ MaxFaults \in Nat

VARIABLES
    rules,      \* table rules: row id -> row
    audit,      \* table audit_log, oldest first
    table,      \* does `table inet xblp` exist in the kernel?
    blocklist,  \* elements of its set `blocklist`
    pc,         \* where the xblp-api process is
    mgr,        \* app.state.nft_manager: "none", "nft" or "noop"
    req,        \* the operation that is reconciling
    listed,     \* the elements its list_blocklist() returned
    resp,       \* status code of the last answer, 0 before the first
    disturbed,  \* has the kernel set gone unreconciled? (see the actions)
    faults      \* failures and interference so far

db     == <<rules, audit>>
kernel == <<table, blocklist>>
api    == <<pc, mgr, req, listed, resp>>
vars   == <<db, kernel, api, disturbed, faults>>

Id     == 1 .. MaxId
Source == {"local"} \cup Sub
Row    == [entry : Entry, source : Source, sub : Sub \cup {NoSub}, comment : Comment]

\* UniqueConstraint("ip_address", "cidr_prefix", "source"): would a row for
\* the entry collide with another local row?
TakenLocally(entry) ==
    \E i \in DOMAIN rules : rules[i].entry = entry /\ rules[i].source = "local"

\* INTEGER PRIMARY KEY without AUTOINCREMENT: one more than the largest id in
\* use, so the id of a deleted last row is given out again.
FreshId == {n \in Id : /\ \A i \in DOMAIN rules : i < n
                       /\ n = 1 \/ n - 1 \in DOMAIN rules}

Without(i) == [j \in DOMAIN rules \ {i} |-> rules[j]]
With(i, row) == [j \in DOMAIN rules \cup {i} |-> IF j = i THEN row ELSE rules[j]]

Edited(row, comment) == [row EXCEPT !.comment = comment]
Detached(row) == [row EXCEPT !.source = "local", !.sub = NoSub]

Entries == {rules[i].entry : i \in DOMAIN rules}

\* What the kernel set has to hold for the rules in the database.
Desired == Collapse(Entries)


Init ==
    /\ rules = <<>> /\ audit = <<>>
    /\ table = FALSE /\ blocklist = {}
    /\ pc = "down" /\ mgr = "none" /\ req = "none" /\ listed = {}
    /\ resp = 0
    /\ disturbed = TRUE /\ faults = 0

-----------------------------------------------------------------------------
(* The reconciler and the nft transactions.                                *)

ToAdd    == Desired \ listed
ToRemove == listed \ Desired

\* The kernel takes `nft -f` as one transaction: the deletes come first and
\* must name elements, the adds may overlap nothing that is left.
Accepted(del, add) ==
    /\ table
    /\ del \subseteq blocklist
    /\ Disjoint((blocklist \ del) \cup add)

\* The answer of the operation that has reconciled; a start-up has none.
Success == CASE req = "create" -> 201 [] req = "delete" -> 204 [] OTHER -> resp
Finish == pc' = "up" /\ req' = "none" /\ listed' = {} /\ resp' = Success

\* NftError leaves the handler as a 500; out of the lifespan it ends the process.
Abort ==
    /\ req' = "none" /\ listed' = {}
    /\ IF req = "startup"
       THEN pc' = "down" /\ mgr' = "none" /\ UNCHANGED resp
       ELSE pc' = "up" /\ resp' = 500 /\ UNCHANGED mgr

\* list_blocklist: from here on the reconciler knows the kernel set.
ReconcileList ==
    /\ pc = "list"
    /\ mgr = "nft" => table
    /\ pc' = "apply"
    /\ listed' = IF mgr = "nft" THEN blocklist ELSE {}
    /\ disturbed' = IF mgr = "nft" THEN FALSE ELSE disturbed
    /\ UNCHANGED <<db, kernel, mgr, req, resp, faults>>

\* Mutant of ReconcileApply: only the additions reach the kernel.
ApplyAddsOnly ==
    /\ pc = "apply"
    /\ mgr = "noop" \/ ToAdd = {} \/ Accepted({}, ToAdd)
    /\ blocklist' = IF mgr = "noop" THEN blocklist ELSE blocklist \cup ToAdd
    /\ Finish
    /\ UNCHANGED <<db, table, mgr, disturbed, faults>>

\* apply_diff: nothing to do, one accepted transaction, or nothing at all.
ReconcileApply ==
    /\ pc = "apply"
    /\ mgr = "noop" \/ ToAdd \cup ToRemove = {} \/ Accepted(ToRemove, ToAdd)
    /\ blocklist' = IF mgr = "noop" \/ ToAdd \cup ToRemove = {} THEN blocklist
                    ELSE (blocklist \ ToRemove) \cup ToAdd
    /\ Finish
    /\ UNCHANGED <<db, table, mgr, disturbed, faults>>

\* The ruleset is gone, or the transaction does not fit what others left.
ReconcileRefused ==
    /\ mgr = "nft"
    /\ \/ pc = "list" /\ ~table
       \/ pc = "apply" /\ ToAdd \cup ToRemove # {} /\ ~Accepted(ToRemove, ToAdd)
    /\ Abort
    /\ disturbed' = TRUE
    /\ UNCHANGED <<db, kernel, faults>>

-----------------------------------------------------------------------------
(* The handlers.  Each answers at once or commits and goes on to reconcile. *)

Ready == pc = "up"
Reject(status) ==
    /\ resp' = status
    /\ UNCHANGED <<db, kernel, pc, mgr, req, listed, disturbed, faults>>

\* _write_rule_audit, in the transaction of the change it records.
CanLog == Len(audit) < MaxAudit
\* Mutant of Log: the audit row is written before the flush that gives the id.
LogBeforeFlush(event, i, row) ==
    audit' = Append(audit, [event |-> event, id |-> 0, entry |-> row.entry])


Log(event, i, row) ==
    audit' = Append(audit, [event |-> event, id |-> i, entry |-> row.entry])

CommitThenReconcile(op) ==
    /\ pc' = "list" /\ req' = op
    /\ UNCHANGED <<kernel, mgr, listed, resp, disturbed, faults>>

CommitThenAnswer(status) ==
    /\ resp' = status
    /\ UNCHANGED <<kernel, pc, mgr, req, listed, disturbed, faults>>

\* The id a client sends need not exist: an old listing, a repeated call.
NotFound(i) == Ready /\ i \notin DOMAIN rules /\ Reject(404)
NotLocal(i) == Ready /\ i \in DOMAIN rules /\ rules[i].source # "local" /\ Reject(403)

CreateRejected(entry) ==
    /\ Ready
    /\ \/ entry \notin Blockable /\ Reject(422)
       \/ entry \in Blockable /\ TakenLocally(entry) /\ Reject(409)

CreateRule(entry, comment) ==
    /\ Ready /\ entry \in Blockable /\ ~TakenLocally(entry) /\ CanLog
    /\ LET row == [entry |-> entry, source |-> "local", sub |-> NoSub,
                   comment |-> comment]
       IN  \E i \in FreshId : rules' = With(i, row) /\ Log("rule_added", i, row)
    /\ CommitThenReconcile("create")

UpdateRule(i, comment) ==
    /\ Ready /\ i \in DOMAIN rules /\ rules[i].source = "local"
    /\ IF rules[i].comment = comment
       THEN Reject(200)
       ELSE /\ CanLog
            /\ rules' = With(i, Edited(rules[i], comment))
            /\ Log("rule_edited", i, rules[i])
            /\ CommitThenAnswer(200)

\* Mutant of DeleteRule: the reconcile after the commit is forgotten.
DeleteWithoutReconcile(i) ==
    /\ Ready /\ i \in DOMAIN rules /\ rules[i].source = "local" /\ CanLog
    /\ Log("rule_removed", i, rules[i])
    /\ rules' = Without(i)
    /\ CommitThenAnswer(204)


DeleteRule(i) ==
    /\ Ready /\ i \in DOMAIN rules /\ rules[i].source = "local" /\ CanLog
    /\ Log("rule_removed", i, rules[i])
    /\ rules' = Without(i)
    /\ CommitThenReconcile("delete")

\* Mutants of PromoteRule: no audit row; subscription_id kept.
PromoteUnlogged(i) ==
    /\ Ready /\ i \in DOMAIN rules /\ rules[i].source # "local"
    /\ ~TakenLocally(rules[i].entry)
    /\ rules' = With(i, Detached(rules[i]))
    /\ UNCHANGED audit
    /\ CommitThenAnswer(204)

PromoteStillSubscribed(i) ==
    /\ Ready /\ i \in DOMAIN rules /\ rules[i].source # "local"
    /\ ~TakenLocally(rules[i].entry) /\ CanLog
    /\ rules' = With(i, [rules[i] EXCEPT !.source = "local"])
    /\ Log("rule_promoted", i, rules[i])
    /\ CommitThenAnswer(204)


PromoteRule(i) ==
    /\ Ready /\ i \in DOMAIN rules
    /\ IF rules[i].source = "local"
       THEN Reject(204)
       ELSE IF TakenLocally(rules[i].entry)
       THEN Reject(409)
       ELSE /\ CanLog
            /\ rules' = With(i, Detached(rules[i]))
            /\ Log("rule_promoted", i, rules[i])
            /\ CommitThenAnswer(204)

\* The capture daemon holds the write lock past busy_timeout: the flush or the
\* commit raises OperationalError and the open transaction is rolled back.
DatabaseLocked == Ready /\ Reject(500)

-----------------------------------------------------------------------------
(* The process: lifespan start-up under systemd, and its end.               *)

ServiceStart ==
    /\ pc = "down" /\ pc' = "boot"
    /\ UNCHANGED <<db, kernel, mgr, req, listed, resp, disturbed, faults>>

\* Mutants of Bootstrap: it reloads the ruleset over a live set; it trusts the set.
BootstrapReloads ==
    /\ pc = "boot"
    /\ table' = TRUE /\ blocklist' = {}
    /\ mgr' = "nft" /\ pc' = "list" /\ req' = "startup"
    /\ UNCHANGED <<db, listed, resp, disturbed, faults>>

BootstrapTrusts ==
    /\ pc = "boot"
    /\ table' = TRUE /\ mgr' = "nft" /\ pc' = "up"
    /\ UNCHANGED <<db, blocklist, req, listed, resp, disturbed, faults>>

\* _init_nft_manager, then the start-up reconcile if nft is enabled.
Bootstrap ==
    /\ pc = "boot"
    /\ IF NftEnabled
       THEN /\ table' = TRUE /\ mgr' = "nft" /\ pc' = "list" /\ req' = "startup"
       ELSE /\ mgr' = "noop" /\ pc' = "up" /\ UNCHANGED <<table, req>>
    /\ UNCHANGED <<db, blocklist, listed, resp, disturbed, faults>>

Fault == faults < MaxFaults /\ faults' = faults + 1 /\ disturbed' = TRUE

\* nft is missing or refuses the template: the null manager takes over.
BootstrapFails ==
    /\ pc = "boot" /\ NftEnabled /\ Fault
    /\ mgr' = "noop" /\ pc' = "list" /\ req' = "startup"
    /\ UNCHANGED <<db, kernel, listed, resp>>

\* nft exits with an error of its own, listing or applying.
NftFails ==
    /\ mgr = "nft" /\ Fault
    /\ \/ pc = "list"
       \/ pc = "apply" /\ ToAdd \cup ToRemove # {}
    /\ Abort
    /\ UNCHANGED <<db, kernel>>

Stop == pc' = "down" /\ mgr' = "none" /\ req' = "none" /\ listed' = {}

\* The process dies, between a commit and its reconcile too.
Crash ==
    /\ pc # "down" /\ Fault /\ Stop
    /\ UNCHANGED <<db, kernel, resp>>

HostReboot ==
    /\ Fault /\ Stop
    /\ table' = FALSE /\ blocklist' = {}
    /\ UNCHANGED <<db, resp>>

-----------------------------------------------------------------------------
(* Outside the process.                                                     *)

\* `nft flush ruleset`, or a restart of nftables.service.
FlushRuleset ==
    /\ table /\ Fault
    /\ table' = FALSE /\ blocklist' = {}
    /\ UNCHANGED <<db, api>>

\* Somebody adds or deletes an element by hand.
ForeignEdit(net) ==
    /\ table /\ Fault
    /\ \/ blocklist' = blocklist \ {net}
       \/ blocklist' = blocklist \cup {net} /\ Disjoint(blocklist')
    /\ UNCHANGED <<db, table, api>>

\* Rows of a subscription appear; the code that will fetch them is not written
\* yet, and nothing checks or audits what arrives.
SubscriptionSync(sub, entry, comment) ==
    /\ Ready
    /\ ~\E i \in DOMAIN rules : rules[i].entry = entry /\ rules[i].source = sub
    /\ \E i \in FreshId :
         rules' = With(i, [entry |-> entry, source |-> sub, sub |-> sub,
                           comment |-> comment])
    /\ disturbed' = TRUE
    /\ UNCHANGED <<audit, kernel, api, faults>>

\* Its row is deleted; ON DELETE CASCADE follows rules.subscription_id.
Unsubscribe(sub) ==
    /\ Ready
    /\ LET gone == {i \in DOMAIN rules : rules[i].sub = sub}
       IN  gone # {} /\ rules' = [i \in DOMAIN rules \ gone |-> rules[i]]
    /\ disturbed' = TRUE
    /\ UNCHANGED <<audit, kernel, api, faults>>

-----------------------------------------------------------------------------

Handler ==
    \/ DatabaseLocked
    \/ \E i \in Id : NotFound(i) \/ NotLocal(i)
    \/ \E entry \in Entry : CreateRejected(entry)
    \/ \E entry \in Entry, comment \in Comment : CreateRule(entry, comment)
    \/ \E i \in Id, comment \in Comment : UpdateRule(i, comment)
    \/ \E i \in Id : DeleteRule(i)
    \/ \E i \in Id : PromoteRule(i)

Reconciler == ReconcileList \/ ReconcileApply \/ ReconcileRefused

Environment ==
    \/ BootstrapFails \/ NftFails \/ Crash \/ HostReboot \/ FlushRuleset
    \/ \E net \in Net : ForeignEdit(net)
    \/ \E sub \in Sub, entry \in Entry, comment \in Comment :
         SubscriptionSync(sub, entry, comment)
    \/ \E sub \in Sub : Unsubscribe(sub)

Next == Handler \/ Reconciler \/ ServiceStart \/ Bootstrap \/ Environment

\* systemd restarts the service (Restart=on-failure) and a started handler or
\* lifespan runs on; nobody has to send a request and nothing has to fail.
Fairness == WF_vars(ServiceStart) /\ WF_vars(Bootstrap) /\ WF_vars(Reconciler)

Spec == Init /\ [][Next]_vars /\ Fairness

-----------------------------------------------------------------------------
(* Properties.                                                              *)

EventType == {"rule_added", "rule_edited", "rule_promoted", "rule_removed"}

\* Every variable stays in the set its column, attribute or kernel object allows.
TypeOK ==
    /\ DOMAIN rules \subseteq Id /\ rules \in [DOMAIN rules -> Row]
    /\ audit \in Seq([event : EventType, id : Id, entry : Entry])
    /\ table \in BOOLEAN /\ blocklist \subseteq Net
    /\ pc \in {"down", "boot", "list", "apply", "up"}
    /\ mgr \in {"none", "nft", "noop"}
    /\ req \in {"none", "startup", "create", "delete"}
    /\ listed \subseteq Net
    /\ resp \in {0, 200, 201, 204, 403, 404, 409, 422, 500}
    /\ disturbed \in BOOLEAN /\ faults \in 0 .. MaxFaults

\* The database is the source of truth: whenever the API is idle and nothing has
\* failed or interfered since the last complete reconcile, the kernel set is
\* exactly the collapsed rules (reconcile.py, called by create, delete, start-up;
\* left out by update and promote, which must therefore not change the set).
NoSilentDivergence ==
    pc = "up" /\ ~disturbed => table /\ blocklist = Desired

\* The transaction apply_diff writes is one the kernel takes: no overlap between
\* what it adds and what it leaves, no delete of an absent element, for every
\* earlier content of the set (collapse, diff and the deletes-first order).
DiffAccepted ==
    pc = "apply" /\ ~disturbed => Accepted(ToRemove, ToAdd)

\* The audit log tells which local rules exist: the last entry about an id is not
\* a removal exactly when a local rule has that id, and it names the rule's
\* entry, although ids are given out again and crashes fall between any steps.
LastAbout(i, k) ==
    /\ k \in DOMAIN audit /\ audit[k].id = i
    /\ \A j \in DOMAIN audit : audit[j].id = i => j <= k

AuditExplainsRules ==
    \A i \in Id :
        IF i \in DOMAIN rules /\ rules[i].source = "local"
        THEN \E k \in DOMAIN audit :
               /\ LastAbout(i, k) /\ audit[k].event # "rule_removed"
               /\ audit[k].entry = rules[i].entry
        ELSE \A k \in DOMAIN audit : LastAbout(i, k) => audit[k].event = "rule_removed"

\* A local rule, promoted ones included, goes only by a DELETE that names it: not
\* when its former subscription is removed, not by a failure or a restart.
LocalRulesGoByDelete ==
    [][\A i \in DOMAIN rules :
         rules[i].source = "local" =>
             \/ i \in DOMAIN rules' /\ rules'[i].source = "local"
                                   /\ rules'[i].entry = rules[i].entry
             \/ audit' = Append(audit, [event |-> "rule_removed", id |-> i,
                                        entry |-> rules[i].entry])]_vars

\* An address that is blocked and still wanted is never let through by the
\* program, not even while a /24 is exchanged for /32s or the daemon restarts;
\* only a reboot or somebody else's nft command does that.
NoEnforcementGap ==
    [][\A a \in Covered(blocklist) \cap Wanted(Entries) :
         a \in Covered(blocklist') \/ faults' # faults]_vars

\* Whatever went wrong, the next start-up repairs it: once the faults are over, a
\* stopped API comes back with the kernel set equal to the rules.
RestartRepairs ==
    (pc = "down" /\ faults = MaxFaults) ~> (pc = "up" /\ table /\ blocklist = Desired)

\* The abstract promise, seen through the addresses: what the rules want, what the
\* kernel drops, and "settled" when the API is idle with nothing unrepaired.
Promise == INSTANCE Projection WITH
    wanted  <- Wanted(Entries),
    blocked <- Covered(blocklist),
    settled <- (pc = "up" /\ ~disturbed)

\* Every behaviour of the API, the kernel and their environment keeps the promise.
ImplementsPromise == Promise!Spec
=============================================================================
