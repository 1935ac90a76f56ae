---------------------------- MODULE Bridge_proofs ----------------------------
(***************************************************************************)
(* Theorems about Bridge for every set of files and any number of power    *)
(* cuts, failures and edits: what any number of the operator's shells      *)
(* keep, and what one shell keeps.                                         *)
(***************************************************************************)
EXTENDS Bridge, TLAPS

USE BridgeAssumption DEF BridgeAssumption

-----------------------------------------------------------------------------
(* The inductive invariant.                                                 *)

\* The operator has one shell: the scripts hold no lock, and one that brings the bridge
\* up next to one that rolls it back leaves whatever their steps add up to.
OneShell == \A s, t \in Shell : s = t

\* The steps of bring-up-bridge.sh until the sentinel is there, and after.
Before == {"prompt", "backup", "backup parts", "sentinel"}
After  == {"helper", "unit", "arm", "remove", "strip", "source", "br0", "launch"}

\* confirm-bridge.sh.
Confirming == {"cancel", "disarm"}

\* rollback-bridge.sh while the sentinel is there, with the main file back, with all back.
RolledBack == {"dropins", "unit off", "helper off", "sentinel off"}
MainBack   == {"sync", "wipe", "copy"} \cup RolledBack
Rolling    == {"validate", "restore", "restored"} \cup MainBack

Steps == {"idle", "reboot", "restart"} \cup Before \cup After \cup Confirming \cup Rolling

PcInv ==
    /\ pc \in [Process -> Steps]
    /\ host # "early" => pc["boot"] = "idle"
    /\ host = "early" => \A s \in Shell \cup {"apply"} : pc[s] = "idle"

Quiet == \A p \in Process : pc[p] = "idle"

\* The steps at which the backup is complete.
Backed == {"sentinel"} \cup After \cup Rolling

\* Every file of the operator is in place or in the backup.
NothingLost == mine \subseteq parts \cup kept

\* Where the files are replaced or removed, and while the sentinel is there, the backup
\* has all of them.
KeptInv ==
    /\ NothingLost
    /\ \A p \in Process : pc[p] \in Backed => saved # "none" /\ mine \subseteq kept
    /\ \A p \in Process : pc[p] = "backup parts" => saved # "none"
    /\ sentinel => saved # "none" /\ mine \subseteq kept

\* What holds whatever several shells do to one another.
SharedInv == TypeOK /\ PcInv /\ KeptInv

\* A confirmed bridge is there for good.
ConfirmedInv ==
    confirmed => /\ ~sentinel /\ Quiet
                 /\ Described = "bridge" /\ live \in {"none", "trial", "bridge"}

\* Without a sentinel nothing has been changed, or all of it has been put back but for
\* what cp could not copy.
WholeInv ==
    ~sentinel /\ ~confirmed =>
        main = "plain" /\ "br0.conf" \notin parts /\ (mine \subseteq parts \/ ignored)

\* With one, the backup has what the operator had, and nothing of the bridge.
BackupInv ==
    /\ "br0.conf" \notin kept
    /\ sentinel => saved = "plain" /\ mine \subseteq kept

\* No bridge is on disk without the service that removes it, and no service without
\* the script it runs.
ServiceInv ==
    /\ unit => helper
    /\ sentinel /\ ~unit => "br0.conf" \notin parts

\* What the step a shell is at tells of the disk.
AtShell(s) ==
    /\ pc[s] \in Before \cup {"reboot"} => ~sentinel
    /\ pc[s] \in After \cup Confirming => sentinel
    /\ pc[s] \in {"backup parts", "sentinel"} => saved = "plain"
    /\ pc[s] = "sentinel" => mine \subseteq kept
    /\ pc[s] = "unit" => helper
    /\ pc[s] \in After \ {"helper", "unit"} => helper /\ unit
    /\ pc[s] \in Confirming => /\ Described = "bridge" /\ live \in {"trial", "bridge"}
                               /\ pc["apply"] = "idle"
    /\ pc[s] = "helper off" => ~unit

ShellInv == \A s \in Shell : AtShell(s)

\* How far a rollback has come, by hand or at boot.
AtRoll(p) ==
    /\ pc[p] \in Rolling => sentinel
    /\ pc[p] \in MainBack => main = "plain"
    /\ pc[p] = "copy" => parts \subseteq kept
    /\ pc[p] \in RolledBack => parts \subseteq kept /\ (parts = kept \/ ignored)

RollInv == \A p \in Shell \cup {"boot"} : AtRoll(p)

\* The service works with all it needs, which a failure leaves where it is.  Networking
\* starts once it has done its work or has failed, and from files that are not right it
\* starts nobody's scripts.
BootInv ==
    /\ pc["boot"] # "idle" => sentinel /\ unit /\ helper
    /\ host = "early" /\ failed => sentinel /\ unit /\ helper /\ pc["boot"] = "idle"
    /\ host = "early" /\ pc["boot"] = "idle" => ~(sentinel /\ unit) \/ failed
    /\ live = "broken" => (~unit \/ failed) /\ \A s \in Shell \cup {"apply"} : pc[s] = "idle"
    /\ live = "bridge" => confirmed \/ failed

IInv ==
    /\ TypeOK /\ PcInv /\ KeptInv /\ ConfirmedInv /\ WholeInv /\ BackupInv
    /\ ServiceInv /\ ShellInv /\ RollInv /\ BootInv

\* What a shell does.
Acts(s) == Operator(s) \/ Script(s) \/ ScriptFails(s)

LEMMA InitInv == Init => IInv
<1> SUFFICES ASSUME Init
             PROVE  IInv
    OBVIOUS
<1>1. pc = [p \in Process |-> "idle"]
    BY DEF Init, Idle
<1>2. PcInv /\ \A p \in Process : pc[p] = "idle"
    BY <1>1 DEF Init, PcInv, Steps, Process
<1>3. {sentinel, helper, unit, dropins, works, timer, confirmed, failed, ignored}
          \subseteq BOOLEAN
    BY DEF Init
<1>4. TypeOK
    BY <1>1, <1>3 DEF Init, TypeOK, Content
<1>6. KeptInv
    BY <1>2 DEF Init, KeptInv, NothingLost, Backed, After, Rolling, MainBack, RolledBack
<1>5. ShellInv /\ RollInv
    BY <1>2 DEF ShellInv, AtShell, RollInv, AtRoll, Process, Before, After, Confirming,
                Rolling, MainBack, RolledBack
<1> QED
    BY <1>2, <1>4, <1>5, <1>6
    DEF Init, IInv, ConfirmedInv, WholeInv, BackupInv, ServiceInv, BootInv, Process

-----------------------------------------------------------------------------
(* Where the processes are.                                                 *)

\* What mirroring the backup touches, one file at a time, with rsync or without.
LEMMA MirrorIs ==
    ASSUME NEW p, MirrorParts(p)
    PROVE  /\ pc[p] \in {"sync", "wipe", "copy"}
           /\ UNCHANGED pc \/ Goto(p, "copy") \/ Goto(p, "dropins")
           /\ parts' \subseteq parts \cup kept
           /\ ignored' \in {ignored, TRUE, FALSE} /\ (faults' = faults \/ Fault)
           /\ UNCHANGED <<main, backup, safety, system, mine, failed, edits, confirmed>>
<1>1. CASE RsyncParts(p)
    BY <1>1 DEF RsyncParts
<1>2. CASE WipeParts(p)
    BY <1>2 DEF WipeParts, bounds
<1>3. CASE CopyParts(p)
    BY <1>3 DEF CopyParts
<1> QED
    BY <1>1, <1>2, <1>3 DEF MirrorParts

LEMMA MoveIs ==
    ASSUME PcInv, NEW p \in Process, NEW there \in Steps, Goto(p, there)
    PROVE  /\ pc' \in [Process -> Steps] /\ pc'[p] = there
           /\ \A q \in Process \ {p} : pc'[q] = pc[q]
BY DEF PcInv, Goto

\* A shell is at work or begins once networking is up and the service has ended.
LEMMA ShellAwake ==
    ASSUME PcInv, NEW s \in Shell, Acts(s)
    PROVE  /\ host # "early" /\ pc["boot"] = "idle"
           /\ pc[s] = "idle" => Reachable /\ (sentinel \/ live = "plain")
<1>1. CASE pc[s] # "idle"
    BY <1>1 DEF PcInv
<1>2. CASE pc[s] = "idle"
    <2>1. BringUp(s) \/ Confirm(s) \/ Rollback(s)
        BY <1>2, MirrorIs
        DEF Acts, Operator, Script, ScriptFails, BringUpStep, RollbackStep, Answer,
            BackupMain, BackupParts, TouchSentinel, InstallHelper, EnableUnit, ArmTimer,
            RemoveConflicting, StripMain, WriteBr0, Launch, CancelTimer, Disarm, Validate,
            RestoreMain, RemoveDropins, RemoveUnit, RemoveSentinel, TearDown, Step
    <2>2. Reachable /\ (sentinel \/ live = "plain")
        BY <2>1 DEF BringUp, Confirm, Rollback
    <2> QED
        BY <2>2 DEF Reachable, PcInv
<1> QED
    BY <1>1, <1>2

\* With one shell there is nobody else then, and no bridge has been confirmed that the
\* script could change.
LEMMA ShellAlone ==
    ASSUME OneShell, IInv, NEW s \in Shell, Acts(s)
    PROVE  /\ host # "early" /\ pc["boot"] = "idle" /\ ~confirmed /\ live # "broken"
           /\ \A q \in Shell : q = s
<1>1. \A q \in Shell : q = s
    BY DEF OneShell
<1>2. /\ host # "early" /\ pc["boot"] = "idle"
      /\ pc[s] = "idle" => Reachable /\ (sentinel \/ live = "plain")
    BY ShellAwake DEF IInv
<1>3. CASE pc[s] # "idle"
    BY <1>1, <1>2, <1>3 DEF IInv, PcInv, ConfirmedInv, BootInv, Quiet, Process
<1>4. CASE pc[s] = "idle"
    BY <1>1, <1>2, <1>4 DEF Reachable, IInv, PcInv, ConfirmedInv
<1> QED
    BY <1>3, <1>4

\* The service works before networking, when no shell is there.
LEMMA BootAlone ==
    ASSUME IInv, pc["boot"] # "idle"
    PROVE  /\ host = "early" /\ ~confirmed /\ live = "none"
           /\ \A q \in Shell \cup {"apply"} : pc[q] = "idle"
BY DEF IInv, PcInv, ConfirmedInv, Quiet, Process, TypeOK

LEMMA ShellMoves ==
    ASSUME PcInv, NEW s \in Shell, Acts(s)
    PROVE  /\ pc' \in [Process -> Steps] /\ host' # "early"
           /\ \A q \in Process \ {s, "apply"} : pc'[q] = pc[q]
           /\ pc'["apply"] = "idle" \/ pc'["apply"] = pc["apply"] \/ pc[s] = "launch"
<1> USE DEF Steps, Before, After, Confirming, Rolling, MainBack, RolledBack
<1>1. host # "early" /\ s \in Process
    BY ShellAwake DEF Process
<1>2. ASSUME NEW there \in Steps, Goto(s, there), host' \in {host, "halting"}
      PROVE  /\ pc' \in [Process -> Steps] /\ host' # "early"
             /\ \A q \in Process \ {s, "apply"} : pc'[q] = pc[q]
             /\ s # "apply" /\ pc'["apply"] = pc["apply"]
    BY <1>1, <1>2, MoveIs DEF Process
<1>3. CASE BringUp(s) \/ Answer(s) \/ Confirm(s) \/ Rollback(s)
    BY <1>2, <1>3 DEF BringUp, Answer, Confirm, Rollback, Step, system
<1>4. CASE BackupMain(s) \/ BackupParts(s) \/ TouchSentinel(s) \/ InstallHelper(s)
    BY <1>2, <1>4 DEF BackupMain, BackupParts, TouchSentinel, InstallHelper, Step, system
<1>5. CASE EnableUnit(s) \/ ArmTimer(s) \/ StripMain(s) \/ WriteBr0(s)
    BY <1>2, <1>5 DEF EnableUnit, ArmTimer, StripMain, WriteBr0, Step, system
<1>6. CASE RemoveConflicting(s)
    <2>1. CASE UNCHANGED pc
        BY <1>1, <1>6, <2>1 DEF RemoveConflicting, PcInv, system
    <2>2. CASE Goto(s, "strip")
        BY <1>2, <1>6, <2>2 DEF RemoveConflicting, system
    <2> QED
        BY <1>6, <2>1, <2>2 DEF RemoveConflicting
<1>7. CASE Launch(s)
    BY <1>1, <1>7 DEF Launch, PcInv, Process, system
<1>8. CASE CancelTimer(s) \/ Disarm(s) \/ TearDown(s) \/ ScriptFails(s)
    BY <1>2, <1>8 DEF CancelTimer, Disarm, TearDown, ScriptFails, Step, system
<1>9. CASE Validate(s) \/ RemoveDropins(s) \/ RemoveSentinel(s)
    BY <1>2, <1>9 DEF Validate, RemoveDropins, RemoveSentinel, Step, system
<1>10. CASE RestoreMain(s) \/ RemoveUnit(s)
    BY <1>2, <1>10 DEF RestoreMain, RemoveUnit, Step, system
<1>11. CASE MirrorParts(s)
    <2>1. (UNCHANGED pc \/ Goto(s, "copy") \/ Goto(s, "dropins")) /\ UNCHANGED host
        BY <1>11, MirrorIs DEF system
    <2> QED
        BY <1>1, <1>2, <2>1 DEF PcInv
<1> QED
    BY <1>3, <1>4, <1>5, <1>6, <1>7, <1>8, <1>9, <1>10, <1>11
    DEF Acts, Operator, Script, BringUpStep, RollbackStep

LEMMA BootMoves ==
    ASSUME PcInv, RollbackStep("boot")
    PROVE  /\ pc' \in [Process -> Steps] /\ host' = host /\ pc["boot"] # "idle"
           /\ \A q \in Process \ {"boot"} : pc'[q] = pc[q]
<1> USE DEF Steps, Rolling, MainBack, RolledBack
<1>1. "boot" \in Process
    BY DEF Process
<1>2. ASSUME NEW there \in Steps, Goto("boot", there)
      PROVE  pc' \in [Process -> Steps] /\ \A q \in Process \ {"boot"} : pc'[q] = pc[q]
    BY <1>1, <1>2, MoveIs
<1>3. CASE Validate("boot") \/ RemoveDropins("boot") \/ RemoveSentinel("boot")
    BY <1>2, <1>3 DEF Validate, RemoveDropins, RemoveSentinel, Step, system
<1>4. CASE RestoreMain("boot")
    BY <1>2, <1>4 DEF RestoreMain, Step, system
<1>5. CASE MirrorParts("boot")
    <2>1. /\ UNCHANGED pc \/ Goto("boot", "copy") \/ Goto("boot", "dropins")
          /\ pc["boot"] # "idle" /\ UNCHANGED host
        BY <1>5, MirrorIs DEF system
    <2> QED
        BY <1>2, <2>1 DEF PcInv
<1> QED
    BY <1>3, <1>4, <1>5 DEF RollbackStep

LEMMA PcStep ==
    ASSUME PcInv, [Next]_vars
    PROVE  PcInv'
<1>2. ASSUME NEW s \in Shell, Acts(s)
      PROVE  PcInv'
    BY <1>2, ShellMoves, ShellAwake DEF PcInv, Process
<1>3. CASE RollbackStep("boot")
    <2>1. host = "early"
        BY <1>3, BootMoves DEF PcInv
    <2> QED
        BY <1>3, <2>1, BootMoves DEF PcInv, Process
<1>4. CASE Apply
    BY <1>4, MoveIs DEF Apply, Step, PcInv, Process, Steps, system
<1>5. CASE EarlyBoot
    BY <1>5 DEF EarlyBoot, Idle, PcInv, Process, Steps, Rolling
<1>6. CASE StartNetwork
    BY <1>6 DEF StartNetwork, PcInv
<1>7. CASE TimerFires \/ Edit \/ ConsoleRecovery \/ UNCHANGED vars
    BY <1>7 DEF TimerFires, Edit, ConsoleRecovery, vars, PcInv, system
<1>8. CASE RollbackFails
    BY <1>8, MoveIs DEF RollbackFails, PcInv, Process, Steps, system
<1> QED
    BY <1>2, <1>3, <1>4, <1>5, <1>6, <1>7, <1>8 DEF Next, Acts, Reboot, PowerCut

-----------------------------------------------------------------------------
(* Types.                                                                   *)

Flags == {sentinel, helper, unit, dropins, works, timer, confirmed, failed, ignored}

FlagsKept == Flags \subseteq BOOLEAN => Flags' \subseteq BOOLEAN

FilesTyped ==
    /\ main \in Content /\ saved \in Content \cup {"none"}
    /\ parts \subseteq File \cup {"br0.conf"} /\ kept \subseteq File \cup {"br0.conf"}
    /\ mine \subseteq File

HostTyped ==
    /\ host \in {"early", "up", "halting"}
    /\ live \in {"none", "plain", "trial", "bridge", "broken"}
    /\ host = "early" => live = "none" /\ ~timer

BoundsTyped == faults \in 0 .. MaxFaults /\ edits \in 0 .. MaxEdits

LEMMA TypeParts ==
    PcInv => (TypeOK <=> Flags \subseteq BOOLEAN /\ FilesTyped /\ HostTyped /\ BoundsTyped)
BY DEF PcInv, TypeOK, Flags, FilesTyped, HostTyped, BoundsTyped

LEMMA FlagsStep == [Next]_vars => FlagsKept
<1> USE DEF FlagsKept, Flags, Step, system, safety, disk, bounds
<1>1. ASSUME NEW s \in Shell, Operator(s) \/ BringUpStep(s)
      PROVE  FlagsKept
    BY <1>1 DEF Operator, BringUp, Answer, Confirm, Rollback, BringUpStep, BackupMain, BackupParts,
                TouchSentinel, InstallHelper, EnableUnit, ArmTimer, RemoveConflicting, StripMain,
                WriteBr0, Launch
<1>2. ASSUME NEW p \in Process, RollbackStep(p)
      PROVE  FlagsKept
    BY <1>2, MirrorIs DEF RollbackStep, Validate, RestoreMain, RemoveDropins, RemoveSentinel
<1>3. ASSUME NEW s \in Shell,
             CancelTimer(s) \/ Disarm(s) \/ RemoveUnit(s) \/ TearDown(s) \/ ScriptFails(s)
      PROVE  FlagsKept
    BY <1>3 DEF CancelTimer, Disarm, RemoveUnit, TearDown, ScriptFails
<1>4. CASE Apply \/ TimerFires \/ StartNetwork \/ EarlyBoot \/ RollbackFails
    BY <1>4 DEF Apply, TimerFires, StartNetwork, EarlyBoot, RollbackFails
<1>5. CASE Edit \/ ConsoleRecovery \/ UNCHANGED vars
    BY <1>5 DEF Edit, ConsoleRecovery, vars
<1> QED
    BY <1>1, <1>2, <1>3, <1>4, <1>5 DEF Next, Script, Reboot, PowerCut, Process

LEMMA FilesStep ==
    ASSUME FilesTyped, KeptInv, [Next]_vars
    PROVE  FilesTyped'
<1> USE DEF FilesTyped, Content, network, backup, disk, bounds
<1>1. ASSUME NEW s \in Shell, Operator(s) \/ BringUpStep(s)
      PROVE  FilesTyped'
    BY <1>1 DEF Operator, BringUp, Answer, Confirm, Rollback, BringUpStep, BackupMain, BackupParts,
                TouchSentinel, InstallHelper, EnableUnit, ArmTimer, RemoveConflicting, StripMain,
                WriteBr0, Launch
<1>2. ASSUME NEW p \in Shell \cup {"boot"}, RollbackStep(p)
      PROVE  FilesTyped'
    <2>1. CASE RestoreMain(p)
        <3>1. CASE Step(p, "restore", "restored") /\ main' = "torn"
            BY <2>1, <3>1 DEF RestoreMain
        <3>2. CASE pc[p] = "restored" /\ main' = saved
            <4>1. p \in Process /\ pc[p] \in Backed
                BY <3>2 DEF Process, Backed, Rolling
            <4>2. saved # "none"
                BY <4>1 DEF KeptInv
            <4> QED
                BY <2>1, <3>2, <4>2 DEF RestoreMain
        <3> QED
            BY <2>1, <3>1, <3>2 DEF RestoreMain, Step
    <2>2. CASE ~RestoreMain(p)
        BY <1>2, <2>2, MirrorIs
        DEF RollbackStep, Validate, RemoveDropins, RemoveSentinel
    <2> QED
        BY <2>1, <2>2
<1>3. ASSUME NEW s \in Shell,
             CancelTimer(s) \/ Disarm(s) \/ RemoveUnit(s) \/ TearDown(s) \/ ScriptFails(s)
      PROVE  FilesTyped'
    BY <1>3 DEF CancelTimer, Disarm, RemoveUnit, TearDown, ScriptFails
<1>4. CASE Apply \/ TimerFires \/ StartNetwork \/ EarlyBoot \/ RollbackFails
    BY <1>4 DEF Apply, TimerFires, StartNetwork, EarlyBoot, RollbackFails
<1>5. CASE Edit \/ UNCHANGED vars
    BY <1>5 DEF Edit, vars
<1>6. CASE ConsoleRecovery
    <2>1. saved # "none"
        BY <1>6 DEF ConsoleRecovery, KeptInv
    <2> QED
        BY <1>6, <2>1 DEF ConsoleRecovery
<1> QED
    BY <1>1, <1>2, <1>3, <1>4, <1>5, <1>6 DEF Next, Script, Reboot, PowerCut

LEMMA HostStep ==
    ASSUME HostTyped, PcInv, [Next]_vars
    PROVE  HostTyped'
<1> USE DEF HostTyped, system
<1>1. ASSUME NEW s \in Shell, Acts(s)
      PROVE  HostTyped'
    <2>1. host # "early"
        BY <1>1, ShellAwake
    <2>2. CASE Operator(s)
        BY <2>1, <2>2 DEF Operator, BringUp, Answer, Confirm, Rollback
    <2>3. CASE BringUpStep(s)
        BY <2>1, <2>3
        DEF BringUpStep, BackupMain, BackupParts, TouchSentinel, InstallHelper, EnableUnit,
            ArmTimer, RemoveConflicting, StripMain, WriteBr0, Launch
    <2>4. CASE RollbackStep(s)
        BY <2>1, <2>4, MirrorIs DEF RollbackStep, Validate, RestoreMain, RemoveDropins,
                          RemoveSentinel
    <2>5. CASE CancelTimer(s) \/ Disarm(s) \/ RemoveUnit(s) \/ TearDown(s) \/ ScriptFails(s)
        BY <2>1, <2>5 DEF CancelTimer, Disarm, RemoveUnit, TearDown, ScriptFails
    <2> QED
        BY <1>1, <2>2, <2>3, <2>4, <2>5 DEF Acts, Script
<1>2. CASE RollbackStep("boot")
    <2>1. UNCHANGED system
        BY <1>2, MirrorIs DEF RollbackStep, Validate, RestoreMain, RemoveDropins, RemoveSentinel
    <2> QED
        BY <2>1
<1>3. CASE Apply
    <2>1. host # "early"
        BY <1>3 DEF Apply, Step, PcInv
    <2> QED
        BY <1>3, <2>1 DEF Apply
<1>4. CASE EarlyBoot \/ TimerFires
    BY <1>4 DEF EarlyBoot, TimerFires
<1>5. CASE StartNetwork
    <2>1. Described \in {"plain", "bridge", "broken"}
        BY DEF Described
    <2>2. host' = "up" /\ live' = Described
        BY <1>5 DEF StartNetwork
    <2> QED
        BY <2>1, <2>2
<1>6. CASE Edit \/ ConsoleRecovery \/ RollbackFails \/ UNCHANGED vars
    BY <1>6 DEF Edit, ConsoleRecovery, RollbackFails, vars
<1> QED
    BY <1>1, <1>2, <1>3, <1>4, <1>5, <1>6 DEF Next, Acts, Reboot, PowerCut

LEMMA BoundsStep == BoundsTyped /\ [Next]_vars => BoundsTyped'
<1> SUFFICES ASSUME BoundsTyped, [Next]_vars
             PROVE  BoundsTyped'
    OBVIOUS
<1> USE DEF BoundsTyped
<1>1. CASE UNCHANGED <<faults, edits>>
    BY <1>1
<1>2. CASE Fault /\ UNCHANGED edits
    BY <1>2 DEF Fault
<1>3. CASE Edit
    BY <1>3 DEF Edit
<1>4. ASSUME NEW s \in Shell, (Operator(s) \/ Script(s)) /\ ~RollbackStep(s)
      PROVE  UNCHANGED <<faults, edits>>
    BY <1>4
    DEF Operator, BringUp, Answer, Confirm, Rollback, Script, BringUpStep, BackupMain, BackupParts,
        TouchSentinel, InstallHelper, EnableUnit, ArmTimer, RemoveConflicting, StripMain, WriteBr0,
        Launch, CancelTimer, Disarm, RemoveUnit, TearDown, bounds
<1>5. ASSUME NEW p, RollbackStep(p)
      PROVE  UNCHANGED edits /\ (UNCHANGED faults \/ Fault)
    BY <1>5, MirrorIs
    DEF RollbackStep, Validate, RestoreMain, RemoveDropins, RemoveSentinel, bounds
<1>6. Apply \/ TimerFires \/ Reboot \/ StartNetwork \/ ConsoleRecovery \/ UNCHANGED vars
          => UNCHANGED <<faults, edits>>
    BY DEF Apply, TimerFires, Reboot, EarlyBoot, StartNetwork, ConsoleRecovery, vars, bounds
<1> QED
    BY <1>1, <1>2, <1>3, <1>4, <1>5, <1>6
    DEF Next, ScriptFails, RollbackFails, PowerCut, EarlyBoot

LEMMA TypeStep ==
    ASSUME SharedInv, [Next]_vars
    PROVE  TypeOK'
<1>1. PcInv /\ TypeOK /\ KeptInv /\ PcInv'
    BY PcStep DEF SharedInv
<1>2. Flags \subseteq BOOLEAN /\ FilesTyped /\ HostTyped /\ BoundsTyped
    BY <1>1, TypeParts
<1>3. Flags' \subseteq BOOLEAN
    BY <1>2, FlagsStep DEF FlagsKept
<1>4. FilesTyped' /\ HostTyped' /\ BoundsTyped'
    BY <1>1, <1>2, FilesStep, HostStep, BoundsStep
<1>5. TypeOK' = (Flags' \subseteq BOOLEAN /\ FilesTyped' /\ HostTyped' /\ BoundsTyped')
    BY <1>1, TypeParts DEF PcInv, TypeOK, Flags, FilesTyped, HostTyped, BoundsTyped
<1> QED
    BY <1>3, <1>4, <1>5

-----------------------------------------------------------------------------
(* The operator's files, whatever several shells do at the same time.       *)

\* A step that loses no file, takes none out of the backup, and goes where the backup has
\* to be complete only if it is.
LEMMA KeptBy ==
    ASSUME PcInv, KeptInv, NEW p \in Process, NEW there \in Steps, Goto(p, there),
           mine' = mine, kept \subseteq kept', saved' = saved \/ saved' # "none",
           mine \subseteq parts' \cup kept',
           there \in Backed \/ sentinel' => saved' # "none" /\ mine \subseteq kept',
           there = "backup parts" => saved' # "none"
    PROVE  KeptInv'
<1>1. pc'[p] = there /\ \A q \in Process \ {p} : pc'[q] = pc[q]
    BY MoveIs
<1>2. NothingLost'
    BY DEF NothingLost
<1>3. ASSUME NEW q \in Process, pc'[q] \in Backed
      PROVE  saved' # "none" /\ mine' \subseteq kept'
    BY <1>1, <1>3 DEF KeptInv
<1>4. ASSUME NEW q \in Process, pc'[q] = "backup parts"
      PROVE  saved' # "none"
    BY <1>1, <1>4 DEF KeptInv
<1> QED
    BY <1>2, <1>3, <1>4 DEF KeptInv

\* Which steps want a complete backup.
LEMMA Wanting ==
    /\ \A there \in {"idle", "prompt", "backup", "backup parts", "cancel", "disarm", "reboot",
                      "restart"} : there \in Steps /\ there \notin Backed
    /\ \A there \in {"sentinel", "helper", "unit", "arm", "remove", "strip", "source", "br0",
                      "launch", "validate", "restore", "restored", "sync", "wipe", "copy",
                      "dropins", "unit off", "helper off", "sentinel off"} :
           there \in Steps /\ there \in Backed
BY DEF Steps, Backed, Before, After, Confirming, Rolling, MainBack, RolledBack

\* A step that leaves the network files and the backup alone.
LEMMA KeptStill ==
    ASSUME PcInv, KeptInv, NEW p \in Process, NEW there \in Steps, Goto(p, there),
           UNCHANGED <<network, backup, mine>>,
           there \in Backed => pc[p] \in Backed \/ sentinel,
           sentinel' => sentinel \/ pc[p] \in Backed,
           there # "backup parts"
    PROVE  KeptInv'
<1>1. /\ mine' = mine /\ saved' = saved /\ kept' = kept /\ parts' = parts
    BY DEF network, backup
<1>2. there \in Backed \/ sentinel' => saved # "none" /\ mine \subseteq kept
    BY DEF KeptInv
<1>3. mine \subseteq parts \cup kept
    BY DEF KeptInv, NothingLost
<1> QED
    BY <1>1, <1>2, <1>3, KeptBy

LEMMA BringUpKept ==
    ASSUME PcInv, KeptInv, main # "none", NEW s \in Shell, BringUpStep(s)
    PROVE  KeptInv'
<1> USE DEF Step
<1>1. /\ s \in Process /\ mine \subseteq parts \cup kept
      /\ sentinel \/ pc[s] \in Backed => saved # "none" /\ mine \subseteq kept
    BY DEF KeptInv, NothingLost, Process
<1>2. CASE BackupMain(s)
    <2>1. /\ Goto(s, "backup parts") /\ saved' = main /\ kept' = kept /\ parts' = parts
          /\ mine' = mine /\ sentinel' = sentinel
        BY <1>2 DEF BackupMain, network, safety, bounds
    <2> QED
        BY <1>1, <2>1, KeptBy, Wanting
<1>3. CASE BackupParts(s)
    <2>1. /\ Goto(s, "sentinel") /\ saved' = saved /\ kept' = kept \cup parts /\ parts' = parts
          /\ mine' = mine
        BY <1>3 DEF BackupParts, network, bounds
    <2>2. saved # "none"
        BY <1>1, <1>3 DEF BackupParts, KeptInv
    <2> QED
        BY <1>1, <2>1, <2>2, KeptBy, Wanting
<1>4. CASE TouchSentinel(s)
    BY <1>1, <1>4, KeptStill, Wanting DEF TouchSentinel, bounds
<1>5. CASE InstallHelper(s)
    BY <1>1, <1>5, KeptStill, Wanting DEF InstallHelper, bounds
<1>6. CASE EnableUnit(s)
    BY <1>1, <1>6, KeptStill, Wanting DEF EnableUnit, bounds
<1>7. CASE ArmTimer(s)
    BY <1>1, <1>7, KeptStill, Wanting DEF ArmTimer, disk, safety, bounds
<1>8. CASE RemoveConflicting(s)
    <2>1. /\ mine \subseteq kept /\ saved # "none" /\ kept' = kept /\ saved' = saved
          /\ mine' = mine /\ sentinel' = sentinel
        BY <1>1, <1>8, Wanting DEF RemoveConflicting, backup, safety, bounds
    <2>2. CASE UNCHANGED pc
        BY <2>1, <2>2 DEF KeptInv, NothingLost
    <2>3. CASE Goto(s, "strip")
        BY <1>1, <2>1, <2>3, KeptBy, Wanting
    <2> QED
        BY <1>8, <2>2, <2>3 DEF RemoveConflicting
<1>9. CASE StripMain(s)
    <2>1. /\ mine \subseteq kept /\ saved # "none" /\ kept' = kept /\ saved' = saved
          /\ mine' = mine /\ parts' = parts
          /\ Goto(s, "source") \/ Goto(s, "br0")
        BY <1>1, <1>9, Wanting DEF StripMain, backup, bounds
    <2> QED
        BY <1>1, <2>1, KeptBy, Wanting
<1>10. CASE WriteBr0(s)
    <2>1. /\ mine \subseteq kept /\ saved # "none" /\ kept' = kept /\ saved' = saved
          /\ mine' = mine /\ Goto(s, "launch")
        BY <1>1, <1>10, Wanting DEF WriteBr0, backup, bounds
    <2> QED
        BY <1>1, <2>1, KeptBy, Wanting
<1>11. CASE Launch(s)
    <2>1. UNCHANGED <<saved, kept, parts, mine, sentinel>>
        BY <1>11 DEF Launch, disk, network, backup, safety, bounds
    <2>2. \A q \in Process : pc'[q] = pc[q] \/ pc'[q] = "idle" \/ pc'[q] = "restart"
        BY <1>1, <1>11 DEF Launch, PcInv
    <2> QED
        BY <2>1, <2>2, Wanting DEF KeptInv, NothingLost
<1> QED
    BY <1>2, <1>3, <1>4, <1>5, <1>6, <1>7, <1>8, <1>9, <1>10, <1>11 DEF BringUpStep

LEMMA RollbackKept ==
    ASSUME PcInv, KeptInv, NEW p \in Process, RollbackStep(p)
    PROVE  KeptInv'
<1> USE DEF Step
<1>1. CASE Validate(p) \/ RemoveDropins(p)
    BY <1>1, KeptStill, Wanting DEF Validate, RemoveDropins, disk, safety, bounds
<1>2. CASE RemoveSentinel(p)
    BY <1>2, KeptStill, Wanting DEF RemoveSentinel, bounds
<1>3. CASE RestoreMain(p)
    <2>1. mine \subseteq kept /\ saved # "none"
        BY <1>3, Wanting DEF RestoreMain, KeptInv
    <2>2. /\ kept' = kept /\ saved' = saved /\ mine' = mine
          /\ Goto(p, "restored") \/ Goto(p, "sync") \/ Goto(p, "wipe")
        BY <1>3 DEF RestoreMain, backup, bounds
    <2> QED
        BY <2>1, <2>2, KeptBy, Wanting
<1>4. CASE MirrorParts(p)
    <2>1. mine \subseteq kept /\ saved # "none"
        BY <1>4, MirrorIs, Wanting DEF KeptInv
    <2>2. /\ kept' = kept /\ saved' = saved /\ mine' = mine /\ sentinel' = sentinel
          /\ UNCHANGED pc \/ Goto(p, "copy") \/ Goto(p, "dropins")
        BY <1>4, MirrorIs DEF backup, safety
    <2>3. CASE UNCHANGED pc
        BY <2>1, <2>2, <2>3 DEF KeptInv, NothingLost
    <2>4. CASE Goto(p, "copy") \/ Goto(p, "dropins")
        BY <2>1, <2>2, <2>4, KeptBy, Wanting
    <2> QED
        BY <2>2, <2>3, <2>4
<1> QED
    BY <1>1, <1>2, <1>3, <1>4 DEF RollbackStep

LEMMA KeptStep ==
    ASSUME SharedInv, [Next]_vars
    PROVE  KeptInv'
<1> PcInv /\ KeptInv /\ main # "none"
    BY DEF SharedInv, TypeOK, Content
<1> USE DEF Step
<1>1. /\ mine \subseteq parts \cup kept
      /\ Shell \subseteq Process /\ "boot" \in Process /\ "apply" \in Process
    BY DEF KeptInv, NothingLost, Process
<1>2. ASSUME NEW s \in Shell, Operator(s)
      PROVE  KeptInv'
    <2>1. CASE BringUp(s)
        BY <1>1, <2>1, KeptStill, Wanting DEF BringUp, bounds
    <2>2. CASE Answer(s)
        BY <1>1, <2>2, KeptStill, Wanting DEF Answer, disk, safety, bounds
    <2>3. CASE Confirm(s) \/ Rollback(s)
        BY <1>1, <2>3, KeptStill, Wanting DEF Confirm, Rollback, disk, safety, bounds
    <2> QED
        BY <1>2, <2>1, <2>2, <2>3 DEF Operator
<1>3. ASSUME NEW s \in Shell,
             CancelTimer(s) \/ Disarm(s) \/ RemoveUnit(s) \/ TearDown(s) \/ ScriptFails(s)
      PROVE  KeptInv'
    <2>1. CASE CancelTimer(s)
        BY <1>1, <2>1, KeptStill, Wanting DEF CancelTimer, disk, safety, bounds
    <2>5. CASE TearDown(s)
        BY <1>1, <2>5, KeptStill, Wanting DEF TearDown, disk, safety, bounds
    <2>4. CASE ScriptFails(s)
        <3>1. UNCHANGED <<network, backup, mine, sentinel>> /\ Goto(s, "idle")
            BY <2>4 DEF ScriptFails, disk, safety
        <3> QED
            BY <1>1, <3>1, KeptStill, Wanting
    <2>2. CASE Disarm(s)
        BY <1>1, <2>2, KeptStill, Wanting DEF Disarm, bounds
    <2>3. CASE RemoveUnit(s)
        BY <1>1, <2>3, KeptStill, Wanting DEF RemoveUnit, bounds
    <2> QED
        BY <1>3, <2>1, <2>2, <2>3, <2>4, <2>5
<1>4. CASE Apply
    BY <1>1, <1>4, KeptStill, Wanting DEF Apply, disk, safety, bounds
<1>8. CASE RollbackFails
    <2>1. UNCHANGED <<network, backup, mine, sentinel>> /\ Goto("boot", "idle")
        BY <1>8 DEF RollbackFails, disk, safety
    <2> QED
        BY <1>1, <2>1, KeptStill, Wanting
<1>5. CASE EarlyBoot
    <2>1. UNCHANGED <<mine, saved, kept, parts, sentinel>>
        BY <1>5 DEF EarlyBoot, disk, network, backup, safety
    <2>2. \A p \in Process : pc'[p] = "idle" \/ (pc'[p] = "validate" /\ sentinel)
        BY <1>5 DEF EarlyBoot, Idle
    <2>3. sentinel => saved' # "none" /\ mine' \subseteq kept'
        BY <2>1 DEF KeptInv
    <2>4. NothingLost' /\ (sentinel' => sentinel)
        BY <1>1, <2>1 DEF NothingLost
    <2>5. ASSUME NEW p \in Process, pc'[p] \in Backed
          PROVE  sentinel
        BY <2>2, <2>5, Wanting
    <2>6. \A p \in Process : pc'[p] # "backup parts"
        BY <2>2
    <2> QED
        BY <2>3, <2>4, <2>5, <2>6 DEF KeptInv
<1>6. CASE TimerFires \/ StartNetwork \/ UNCHANGED vars
    <2>1. UNCHANGED <<mine, saved, kept, parts, sentinel, pc>>
        BY <1>6 DEF TimerFires, StartNetwork, vars, disk, network, backup, safety, bounds
    <2> QED
        BY <2>1 DEF KeptInv, NothingLost
<1>7. CASE Edit \/ ConsoleRecovery
    <2>1. \A p \in Process : pc'[p] = "idle"
        BY <1>7 DEF Edit, ConsoleRecovery, Idle
    <2>2. ~sentinel' /\ mine' \subseteq parts' \cup kept'
        BY <1>1, <1>7 DEF Edit, ConsoleRecovery, backup, safety, bounds
    <2> QED
        BY <2>1, <2>2, Wanting DEF KeptInv, NothingLost
<1> QED
    BY <1>1, <1>2, <1>3, <1>4, <1>5, <1>6, <1>7, <1>8, BringUpKept, RollbackKept
    DEF Next, Script, Reboot, PowerCut

-----------------------------------------------------------------------------
(* What each part of the invariant has to fear, and why it stays.           *)

LEMMA ConfirmedByDisarm ==
    ASSUME [Next]_vars, confirmed' # confirmed
    PROVE  \E s \in Shell : Disarm(s)
<1>1. ASSUME NEW s \in Shell, Operator(s) \/ BringUpStep(s)
      PROVE  FALSE
    BY <1>1 DEF Operator, BringUp, Answer, Confirm, Rollback, BringUpStep, BackupMain, BackupParts,
                TouchSentinel, InstallHelper, EnableUnit, ArmTimer, RemoveConflicting, StripMain,
                WriteBr0, Launch
<1>2. ASSUME NEW p \in Process, RollbackStep(p)
      PROVE  FALSE
    BY <1>2, MirrorIs DEF RollbackStep, Validate, RestoreMain, RemoveDropins, RemoveSentinel
<1>3. ASSUME NEW s \in Shell, CancelTimer(s) \/ RemoveUnit(s) \/ TearDown(s) \/ ScriptFails(s)
      PROVE  FALSE
    BY <1>3 DEF CancelTimer, RemoveUnit, TearDown, ScriptFails
<1>4. CASE Apply \/ TimerFires \/ StartNetwork \/ EarlyBoot \/ Edit \/ ConsoleRecovery
           \/ RollbackFails \/ UNCHANGED vars
    BY <1>4
    DEF Apply, TimerFires, StartNetwork, EarlyBoot, Edit, ConsoleRecovery, RollbackFails, vars
<1> QED
    BY <1>1, <1>2, <1>3, <1>4 DEF Next, Script, Reboot, PowerCut, Process

LEMMA ConfirmedStep ==
    ASSUME OneShell, IInv, [Next]_vars
    PROVE  ConfirmedInv'
<1> USE DEF ConfirmedInv, disk, safety, network
<1>1. ConfirmedInv /\ PcInv
    BY DEF IInv
<1>2. ASSUME NEW s \in Shell, Disarm(s)
      PROVE  ConfirmedInv'
    <2>1. pc[s] = "disarm" /\ s \in Process /\ PcInv /\ "idle" \in Steps
        BY <1>2 DEF Disarm, Step, Process, IInv, Steps
    <2>2. pc["boot"] = "idle" /\ \A q \in Shell : q = s
        BY <1>2, ShellAlone DEF Acts, Script
    <2>3. pc["apply"] = "idle" /\ Described = "bridge" /\ live \in {"trial", "bridge"}
        BY <2>1 DEF IInv, ShellInv, AtShell, Confirming
    <2>4. pc'[s] = "idle" /\ \A q \in Process \ {s} : pc'[q] = pc[q]
        BY <1>2, <2>1, MoveIs DEF Disarm, Step
    <2>5. Quiet'
        BY <2>2, <2>3, <2>4 DEF Quiet, Process
    <2> QED
        BY <1>2, <2>3, <2>5 DEF Disarm, Described, system
<1>3. CASE ~confirmed /\ \A s \in Shell : ~Disarm(s)
    BY <1>3, ConfirmedByDisarm
<1>4. ASSUME confirmed
      PROVE  ConfirmedInv'
    <2>1. \A s \in Shell : ~Acts(s)
        BY <1>4, ShellAlone
    <2>2. ~RollbackStep("boot") /\ ~RollbackFails
        BY <1>1, <1>4, BootMoves, BootAlone DEF RollbackFails
    <2>3. ~Apply
        BY <1>1, <1>4 DEF Apply, Step, Quiet, Process
    <2>4. CASE EarlyBoot
        BY <1>1, <1>4, <2>4 DEF EarlyBoot, Idle, Quiet, Described, Process
    <2>5. CASE StartNetwork
        BY <1>1, <1>4, <2>5 DEF StartNetwork, Quiet, Described
    <2>6. ~Edit /\ ~ConsoleRecovery
        BY <1>1, <1>4 DEF Edit, ConsoleRecovery
    <2>7. CASE TimerFires \/ UNCHANGED vars
        BY <1>1, <1>4, <2>7 DEF TimerFires, vars, system, Quiet, Described
    <2> QED
        BY <2>1, <2>2, <2>3, <2>4, <2>5, <2>6, <2>7 DEF Next, Acts, Reboot, PowerCut
<1> QED
    BY <1>2, <1>3, <1>4

LEMMA WholeStep ==
    ASSUME OneShell, IInv, [Next]_vars
    PROVE  WholeInv'
<1> USE DEF WholeInv, disk, network, safety, backup, bounds
<1>1. WholeInv
    BY DEF IInv
<1>2. ASSUME NEW s \in Shell, RemoveConflicting(s) \/ StripMain(s) \/ WriteBr0(s)
      PROVE  WholeInv'
    <2>1. pc[s] \in After
        BY <1>2 DEF RemoveConflicting, StripMain, WriteBr0, Step, After
    <2>2. sentinel
        BY <2>1 DEF IInv, ShellInv, AtShell
    <2> QED
        BY <1>2, <2>2 DEF RemoveConflicting, StripMain, WriteBr0
<1>3. ASSUME NEW p \in Shell \cup {"boot"}, RestoreMain(p) \/ MirrorParts(p)
      PROVE  WholeInv'
    <2>1. pc[p] \in Rolling
        BY <1>3, MirrorIs DEF RestoreMain, Step, Rolling, MainBack, RolledBack
    <2>2. sentinel
        BY <2>1 DEF IInv, RollInv, AtRoll
    <2> QED
        BY <1>3, <2>2, MirrorIs DEF RestoreMain
<1>4. ASSUME NEW p \in Shell \cup {"boot"}, RemoveSentinel(p)
      PROVE  WholeInv'
    <2>1. pc[p] = "sentinel off"
        BY <1>4 DEF RemoveSentinel, Step
    <2>2. sentinel /\ main = "plain" /\ parts \subseteq kept /\ (parts = kept \/ ignored)
        BY <2>1 DEF IInv, RollInv, AtRoll, Rolling, MainBack, RolledBack
    <2>3. mine \subseteq kept /\ "br0.conf" \notin kept
        BY <2>2 DEF IInv, BackupInv
    <2> QED
        BY <1>4, <2>2, <2>3 DEF RemoveSentinel
<1>5. ASSUME NEW s \in Shell,
             \/ Disarm(s) \/ TouchSentinel(s)
             \/ Operator(s) \/ BackupMain(s) \/ BackupParts(s) \/ InstallHelper(s) \/ EnableUnit(s)
             \/ ArmTimer(s) \/ Launch(s) \/ CancelTimer(s) \/ RemoveUnit(s) \/ TearDown(s)
             \/ ScriptFails(s)
      PROVE  WholeInv'
    BY <1>1, <1>5
    DEF Disarm, TouchSentinel, Operator, BringUp, Answer, Confirm, Rollback, BackupMain,
        BackupParts, InstallHelper, EnableUnit, ArmTimer, Launch, CancelTimer, RemoveUnit, TearDown,
        ScriptFails
<1>6. ASSUME NEW p \in Shell \cup {"boot"}, Validate(p) \/ RemoveDropins(p)
      PROVE  WholeInv'
    BY <1>1, <1>6 DEF Validate, RemoveDropins
<1>7. CASE Edit
    BY <1>1, <1>7 DEF Edit
<1>8. CASE ConsoleRecovery
    <2>1. mine \subseteq kept /\ saved = "plain" /\ "br0.conf" \notin parts \cup kept
        BY <1>8 DEF ConsoleRecovery, IInv, BackupInv, ServiceInv
    <2> QED
        BY <1>8, <2>1 DEF ConsoleRecovery
<1>9. CASE Apply \/ TimerFires \/ EarlyBoot \/ RollbackFails \/ StartNetwork \/ UNCHANGED vars
    BY <1>1, <1>9 DEF Apply, TimerFires, EarlyBoot, RollbackFails, StartNetwork, vars
<1> QED
    BY <1>2, <1>3, <1>4, <1>5, <1>6, <1>7, <1>8, <1>9
    DEF Next, Script, BringUpStep, RollbackStep, Reboot, PowerCut

LEMMA BackupStep ==
    ASSUME OneShell, IInv, [Next]_vars
    PROVE  BackupInv'
<1> USE DEF BackupInv, disk, network, safety, backup, bounds
<1>1. BackupInv
    BY DEF IInv
<1>2. ASSUME NEW s \in Shell, BackupMain(s) \/ BackupParts(s)
      PROVE  BackupInv'
    <2>1. pc[s] \in Before
        BY <1>2 DEF BackupMain, BackupParts, Step, Before
    <2>2. ~sentinel /\ ~confirmed
        BY <1>2, <2>1, ShellAlone
        DEF Acts, Script, BringUpStep, IInv, ShellInv, AtShell
    <2>3. "br0.conf" \notin parts
        BY <2>2 DEF IInv, WholeInv
    <2>4. sentinel' = sentinel /\ (kept' = kept \/ kept' = kept \cup parts)
        BY <1>2 DEF BackupMain, BackupParts
    <2> QED
        BY <1>1, <2>2, <2>3, <2>4
<1>3. ASSUME NEW s \in Shell, TouchSentinel(s)
      PROVE  BackupInv'
    <2>1. saved = "plain" /\ mine \subseteq kept
        BY <1>3 DEF TouchSentinel, Step, IInv, ShellInv, AtShell
    <2> QED
        BY <1>1, <1>3, <2>1 DEF TouchSentinel
<1>4. ASSUME NEW s \in Shell,
             \/ Operator(s) \/ InstallHelper(s) \/ EnableUnit(s) \/ ArmTimer(s)
             \/ RemoveConflicting(s) \/ StripMain(s) \/ WriteBr0(s) \/ Launch(s)
             \/ CancelTimer(s) \/ Disarm(s) \/ RemoveUnit(s) \/ TearDown(s) \/ ScriptFails(s)
      PROVE  BackupInv'
    <2>1. /\ UNCHANGED <<saved, kept, mine>>
          /\ sentinel' = sentinel \/ sentinel' = FALSE
        BY <1>4
        DEF Operator, BringUp, Answer, Confirm, Rollback, InstallHelper, EnableUnit, ArmTimer,
            RemoveConflicting, StripMain, WriteBr0, Launch, CancelTimer, Disarm, RemoveUnit,
            TearDown, ScriptFails
    <2> QED
        BY <1>1, <2>1
<1>5. ASSUME NEW p \in Shell \cup {"boot"}, RollbackStep(p)
      PROVE  BackupInv'
    <2>1. /\ UNCHANGED <<saved, kept, mine>>
          /\ sentinel' = sentinel \/ sentinel' = FALSE
        BY <1>5, MirrorIs
        DEF RollbackStep, Validate, RestoreMain, RemoveDropins, RemoveSentinel
    <2> QED
        BY <1>1, <2>1
<1>6. CASE Edit \/ ConsoleRecovery
    <2>1. UNCHANGED kept /\ ~sentinel'
        BY <1>6 DEF Edit, ConsoleRecovery
    <2> QED
        BY <1>1, <2>1
<1>7. CASE Apply \/ TimerFires \/ EarlyBoot \/ RollbackFails \/ StartNetwork \/ UNCHANGED vars
    BY <1>1, <1>7 DEF Apply, TimerFires, EarlyBoot, RollbackFails, StartNetwork, vars
<1> QED
    BY <1>2, <1>3, <1>4, <1>5, <1>6, <1>7 DEF Next, Script, BringUpStep, Reboot, PowerCut

LEMMA ServiceStep ==
    ASSUME OneShell, IInv, [Next]_vars
    PROVE  ServiceInv'
<1> USE DEF ServiceInv, disk, network, safety, backup, bounds
<1>1. ServiceInv
    BY DEF IInv
<1>2. ASSUME NEW s \in Shell, TouchSentinel(s)
      PROVE  ServiceInv'
    <2>1. ~sentinel /\ ~confirmed
        BY <1>2, ShellAlone
        DEF TouchSentinel, Step, Acts, Script, BringUpStep, IInv, ShellInv, AtShell, Before
    <2>2. "br0.conf" \notin parts
        BY <2>1 DEF IInv, WholeInv
    <2> QED
        BY <1>1, <1>2, <2>2 DEF TouchSentinel
<1>3. ASSUME NEW s \in Shell, EnableUnit(s)
      PROVE  ServiceInv'
    <2>1. helper
        BY <1>3 DEF EnableUnit, Step, IInv, ShellInv, AtShell
    <2> QED
        BY <1>3, <2>1 DEF EnableUnit
<1>4. ASSUME NEW s \in Shell, WriteBr0(s)
      PROVE  ServiceInv'
    <2>1. helper /\ unit
        BY <1>4 DEF WriteBr0, Step, IInv, ShellInv, AtShell, After
    <2> QED
        BY <1>4, <2>1 DEF WriteBr0
<1>5. ASSUME NEW s \in Shell, RemoveUnit(s)
      PROVE  ServiceInv'
    <2>1. CASE Step(s, "unit off", "helper off") /\ unit' = FALSE /\ UNCHANGED helper
        <3>1. sentinel /\ parts \subseteq kept
            BY <2>1 DEF Step, IInv, RollInv, AtRoll, Rolling, MainBack, RolledBack
        <3>2. "br0.conf" \notin kept
            BY <3>1 DEF IInv, BackupInv
        <3> QED
            BY <1>5, <2>1, <3>1, <3>2 DEF RemoveUnit
    <2>2. CASE Step(s, "helper off", "sentinel off") /\ UNCHANGED unit
        <3>1. ~unit
            BY <2>2 DEF Step, IInv, ShellInv, AtShell
        <3> QED
            BY <1>1, <1>5, <2>2, <3>1 DEF RemoveUnit
    <2> QED
        BY <1>5, <2>1, <2>2 DEF RemoveUnit
<1>6. ASSUME NEW p \in Shell \cup {"boot"}, MirrorParts(p)
      PROVE  ServiceInv'
    <2>1. "br0.conf" \notin kept
        BY DEF IInv, BackupInv
    <2> QED
        BY <1>1, <1>6, <2>1, MirrorIs
<1>7. ASSUME NEW s \in Shell,
             \/ Operator(s) \/ BackupMain(s) \/ BackupParts(s) \/ InstallHelper(s) \/ ArmTimer(s)
             \/ RemoveConflicting(s) \/ StripMain(s) \/ Launch(s)
             \/ CancelTimer(s) \/ Disarm(s) \/ TearDown(s) \/ ScriptFails(s)
      PROVE  ServiceInv'
    <2>1. /\ parts' \subseteq parts /\ unit' = unit
          /\ helper' = helper \/ helper' = TRUE
          /\ sentinel' = sentinel \/ sentinel' = FALSE
        BY <1>7
        DEF Operator, BringUp, Answer, Confirm, Rollback, BackupMain, BackupParts, InstallHelper,
            ArmTimer, RemoveConflicting, StripMain, Launch, CancelTimer, Disarm, TearDown,
            ScriptFails
    <2> QED
        BY <1>1, <2>1
<1>8. ASSUME NEW p \in Shell \cup {"boot"},
             Validate(p) \/ RestoreMain(p) \/ RemoveDropins(p) \/ RemoveSentinel(p)
      PROVE  ServiceInv'
    <2>1. /\ UNCHANGED <<parts, helper, unit>>
          /\ sentinel' = sentinel \/ sentinel' = FALSE
        BY <1>8 DEF Validate, RestoreMain, RemoveDropins, RemoveSentinel
    <2> QED
        BY <1>1, <2>1
<1>9. CASE Edit \/ ConsoleRecovery
    BY <1>1, <1>9 DEF Edit, ConsoleRecovery
<1>10. CASE Apply \/ TimerFires \/ EarlyBoot \/ RollbackFails \/ StartNetwork \/ UNCHANGED vars
    BY <1>1, <1>10 DEF Apply, TimerFires, EarlyBoot, RollbackFails, StartNetwork, vars
<1> QED
    BY <1>2, <1>3, <1>4, <1>5, <1>6, <1>7, <1>8, <1>9, <1>10
    DEF Next, Script, BringUpStep, RollbackStep, Reboot, PowerCut

-----------------------------------------------------------------------------
(* Where the shells and the rollback are.                                   *)

LEMMA IdleIsAnywhere ==
    ASSUME NEW p, pc'[p] = "idle"
    PROVE  AtShell(p)' /\ AtRoll(p)'
BY DEF AtShell, AtRoll, Before, After, Confirming, Rolling, MainBack, RolledBack

LEMMA SameStaysThere ==
    ASSUME NEW p, UNCHANGED <<pc, disk, live, mine, ignored>>
    PROVE  (AtShell(p) => AtShell(p)') /\ (AtRoll(p) => AtRoll(p)')
BY DEF AtShell, AtRoll, Described, disk, network, backup, safety

\* Before the sentinel is there the script only looks and copies.
LEMMA ShellBefore ==
    ASSUME IInv, NEW s \in Shell,
           \/ BringUp(s) \/ Answer(s) \/ BackupMain(s) \/ BackupParts(s) \/ TouchSentinel(s)
    PROVE  AtShell(s)'
<1> USE DEF Before, After, Confirming, Steps
<1>1. PcInv /\ s \in Process /\ AtShell(s) /\ WholeInv
    BY DEF IInv, ShellInv, Process
<1>2. ASSUME NEW here \in Before, pc[s] = here
      PROVE  ~sentinel
    BY <1>1, <1>2 DEF AtShell
<1>3. ASSUME NEW there \in Steps, Goto(s, there)
      PROVE  pc'[s] = there
    BY <1>1, <1>3, MoveIs
<1>4. CASE BringUp(s)
    <2>1. pc'[s] = "prompt" /\ ~sentinel'
        BY <1>3, <1>4 DEF BringUp, Step
    <2> QED
        BY <2>1 DEF AtShell
<1>5. CASE Answer(s)
    <2>1. ~sentinel /\ UNCHANGED sentinel
        BY <1>2, <1>5 DEF Answer, disk, safety
    <2>2. pc'[s] \in {"backup", "idle"}
        BY <1>3, <1>5 DEF Answer
    <2> QED
        BY <2>1, <2>2 DEF AtShell
<1>6. CASE BackupMain(s)
    <2>1. ~sentinel /\ UNCHANGED sentinel /\ pc'[s] = "backup parts" /\ saved' = main
        BY <1>2, <1>3, <1>6 DEF BackupMain, Step, safety
    <2>2. ~confirmed
        BY <1>6 DEF BackupMain, Step, IInv, ConfirmedInv, Quiet, Process
    <2>3. main = "plain"
        BY <1>1, <2>1, <2>2 DEF WholeInv
    <2> QED
        BY <2>1, <2>3 DEF AtShell
<1>7. CASE BackupParts(s)
    <2>1. /\ ~sentinel /\ UNCHANGED <<sentinel, saved, mine>> /\ pc'[s] = "sentinel"
          /\ saved = "plain" /\ kept' = kept \cup parts
        BY <1>1, <1>2, <1>3, <1>7 DEF BackupParts, Step, safety, bounds, AtShell
    <2>2. ~confirmed
        BY <1>7 DEF BackupParts, Step, IInv, ConfirmedInv, Quiet, Process
    <2>3. mine \subseteq parts \cup kept
        BY DEF IInv, KeptInv, NothingLost
    <2> QED
        BY <2>1, <2>3 DEF AtShell
<1>8. CASE TouchSentinel(s)
    <2>1. pc'[s] = "helper" /\ sentinel' = TRUE
        BY <1>3, <1>8 DEF TouchSentinel, Step
    <2> QED
        BY <2>1 DEF AtShell
<1> QED
    BY <1>4, <1>5, <1>6, <1>7, <1>8

\* With the sentinel there, each step leaves behind what the next one relies on.
LEMMA ShellAfter ==
    ASSUME IInv, NEW s \in Shell,
           \/ InstallHelper(s) \/ EnableUnit(s) \/ ArmTimer(s) \/ RemoveConflicting(s)
           \/ StripMain(s) \/ WriteBr0(s) \/ Launch(s)
    PROVE  AtShell(s)'
<1> USE DEF Before, After, Confirming, Steps
<1>1. PcInv /\ s \in Process /\ AtShell(s)
    BY DEF IInv, ShellInv, Process
<1>2. ASSUME NEW there \in Steps, Goto(s, there)
      PROVE  pc'[s] = there
    BY <1>1, <1>2, MoveIs
<1>3. CASE InstallHelper(s)
    <2>1. pc'[s] = "unit" /\ sentinel /\ UNCHANGED sentinel /\ helper' = TRUE
        BY <1>1, <1>2, <1>3 DEF InstallHelper, Step, AtShell
    <2> QED
        BY <2>1 DEF AtShell
<1>4. CASE EnableUnit(s)
    <2>1. /\ pc'[s] = "arm" /\ sentinel /\ helper /\ UNCHANGED <<sentinel, helper>>
          /\ unit' = TRUE
        BY <1>1, <1>2, <1>4 DEF EnableUnit, Step, AtShell
    <2> QED
        BY <2>1 DEF AtShell
<1>5. ASSUME pc[s] \in After \ {"helper", "unit"}, UNCHANGED safety,
             pc'[s] \in (After \ {"helper", "unit"}) \cup {"idle"}
      PROVE  AtShell(s)'
    <2>1. sentinel /\ helper /\ unit /\ UNCHANGED <<sentinel, helper, unit>>
        BY <1>1, <1>5 DEF AtShell, safety
    <2> QED
        BY <1>5, <2>1 DEF AtShell
<1>6. CASE ArmTimer(s) \/ WriteBr0(s)
    <2>1. /\ pc[s] \in {"arm", "br0"} /\ pc'[s] \in {"remove", "launch"} /\ UNCHANGED safety
        BY <1>2, <1>6 DEF ArmTimer, WriteBr0, Step, disk
    <2> QED
        BY <1>5, <2>1
<1>7. CASE StripMain(s)
    <2>1. pc[s] \in {"strip", "source"} /\ pc'[s] \in {"source", "br0"} /\ UNCHANGED safety
        BY <1>2, <1>7 DEF StripMain, Step
    <2> QED
        BY <1>5, <2>1
<1>8. CASE RemoveConflicting(s)
    <2>1. pc[s] = "remove" /\ pc'[s] \in {"remove", "strip"} /\ UNCHANGED safety
        <3>1. pc[s] = "remove" /\ (UNCHANGED pc \/ Goto(s, "strip")) /\ UNCHANGED safety
            BY <1>8 DEF RemoveConflicting
        <3>2. Goto(s, "strip") => pc'[s] = "strip"
            BY <1>2
        <3> QED
            BY <3>1, <3>2
    <2> QED
        BY <1>5, <2>1
<1>9. CASE Launch(s)
    <2>1. pc[s] = "launch" /\ pc'[s] = "idle" /\ UNCHANGED safety
        BY <1>1, <1>9 DEF Launch, PcInv, Process, disk
    <2> QED
        BY <1>5, <2>1
<1> QED
    BY <1>3, <1>4, <1>6, <1>7, <1>8, <1>9

\* Confirming, the shell has the bridge before it until the sentinel goes.
LEMMA ShellConfirms ==
    ASSUME IInv, NEW s \in Shell, Confirm(s) \/ CancelTimer(s) \/ Disarm(s) \/ ScriptFails(s)
    PROVE  AtShell(s)'
<1> USE DEF Before, After, Confirming, Steps
<1>1. PcInv /\ s \in Process /\ AtShell(s)
    BY DEF IInv, ShellInv, Process
<1>2. ASSUME NEW there \in Steps, Goto(s, there)
      PROVE  pc'[s] = there /\ (pc["apply"] = "idle" => pc'["apply"] = "idle")
    <2>1. "apply" \in Process /\ s # "apply"
        BY DEF Process
    <2> QED
        BY <1>1, <1>2, <2>1, MoveIs
<1>3. CASE Confirm(s)
    <2>1. pc'[s] = "cancel" /\ sentinel /\ pc'["apply"] = "idle" /\ Described = "bridge"
        BY <1>2, <1>3 DEF Confirm, Step
    <2>2. live \in {"trial", "bridge"} /\ UNCHANGED <<sentinel, main, parts, live>>
        BY <1>3 DEF Confirm, disk, network, safety, system
    <2> QED
        BY <2>1, <2>2 DEF AtShell, Described
<1>4. CASE CancelTimer(s)
    <2>1. pc'[s] = "disarm" /\ sentinel /\ pc'["apply"] = "idle" /\ Described = "bridge"
        BY <1>1, <1>2, <1>4 DEF CancelTimer, Step, AtShell
    <2>2. live \in {"trial", "bridge"} /\ UNCHANGED <<sentinel, main, parts, live>>
        BY <1>1, <1>4 DEF CancelTimer, Step, AtShell, disk, network, safety
    <2> QED
        BY <2>1, <2>2 DEF AtShell, Described
<1>5. CASE Disarm(s) \/ ScriptFails(s)
    BY <1>2, <1>5, IdleIsAnywhere DEF Disarm, ScriptFails, Step
<1> QED
    BY <1>3, <1>4, <1>5

\* Rolling back, the shell asks nothing of the disk but the order of its own last steps.
LEMMA ShellRolls ==
    ASSUME IInv, NEW s \in Shell,
           Rollback(s) \/ RollbackStep(s) \/ RemoveUnit(s) \/ TearDown(s)
    PROVE  AtShell(s)'
<1> USE DEF Before, After, Confirming, Rolling, MainBack, RolledBack, Steps
<1>1. PcInv /\ s \in Process /\ s # "boot"
    BY DEF IInv, Process
<1>2. ASSUME NEW there \in Steps, Goto(s, there)
      PROVE  pc'[s] = there
    BY <1>1, <1>2, MoveIs
<1>3. ASSUME pc'[s] \in {"idle", "validate", "restore", "restored", "sync", "wipe", "copy",
                         "dropins", "unit off", "sentinel off"}
      PROVE  AtShell(s)'
    BY <1>3 DEF AtShell
<1>4. CASE Rollback(s) \/ Validate(s) \/ RestoreMain(s)
    BY <1>2, <1>3, <1>4 DEF Rollback, Validate, RestoreMain, Step
<1>8. CASE MirrorParts(s)
    BY <1>2, <1>3, <1>8, MirrorIs
<1>5. CASE RemoveDropins(s) \/ TearDown(s)
    BY <1>1, <1>2, <1>3, <1>5 DEF RemoveDropins, TearDown, Step
<1>6. CASE RemoveUnit(s)
    <2>1. CASE Step(s, "unit off", "helper off") /\ unit' = FALSE
        BY <1>2, <2>1 DEF Step, AtShell
    <2>2. CASE Step(s, "helper off", "sentinel off")
        BY <1>2, <1>3, <2>2 DEF Step
    <2> QED
        BY <1>6, <2>1, <2>2 DEF RemoveUnit
<1>7. CASE RemoveSentinel(s)
    <2>1. pc'[s] = "reboot" /\ sentinel' = FALSE
        BY <1>1, <1>2, <1>7 DEF RemoveSentinel, Step
    <2> QED
        BY <2>1 DEF AtShell
<1> QED
    BY <1>4, <1>5, <1>6, <1>7, <1>8 DEF RollbackStep

\* A rollback that has come to a step has done all the ones before it.
LEMMA RollRolls ==
    ASSUME IInv, NEW p \in Shell \cup {"boot"},
           (p \in Shell /\ (Rollback(p) \/ RemoveUnit(p) \/ TearDown(p))) \/ RollbackStep(p)
    PROVE  AtRoll(p)'
<1> USE DEF Rolling, MainBack, RolledBack, Steps, Before
<1>1. PcInv /\ p \in Process /\ AtRoll(p)
    BY DEF IInv, RollInv, Process
<1>2. ASSUME NEW there \in Steps, Goto(p, there)
      PROVE  pc'[p] = there
    BY <1>1, <1>2, MoveIs
<1>3. CASE p \in Shell /\ Rollback(p)
    <2>1. pc'[p] = "validate" /\ sentinel /\ UNCHANGED sentinel
        BY <1>2, <1>3 DEF Rollback, Step, disk, safety
    <2> QED
        BY <2>1 DEF AtRoll
<1>4. CASE Validate(p)
    <2>1. pc'[p] \in {"idle", "restore"} /\ sentinel /\ UNCHANGED sentinel
        BY <1>1, <1>2, <1>4 DEF Validate, AtRoll, disk, safety
    <2> QED
        BY <2>1 DEF AtRoll
<1>5. CASE RestoreMain(p)
    <2>1. sentinel /\ UNCHANGED sentinel
        BY <1>1, <1>5 DEF RestoreMain, Step, AtRoll, safety
    <2>2. saved = "plain"
        BY <2>1 DEF IInv, BackupInv
    <2>3. CASE Step(p, "restore", "restored")
        BY <1>2, <2>1, <2>3 DEF Step, AtRoll
    <2>4. CASE (Step(p, "restored", "sync") \/ Step(p, "restored", "wipe")) /\ main' = saved
        BY <1>2, <2>1, <2>2, <2>4 DEF Step, AtRoll
    <2> QED
        BY <1>5, <2>3, <2>4 DEF RestoreMain
<1>6. CASE MirrorParts(p)
    <2>1. sentinel /\ main = "plain" /\ UNCHANGED <<sentinel, main, kept>>
        BY <1>1, <1>6, MirrorIs DEF Step, AtRoll, safety, backup
    <2>2. CASE RsyncParts(p)
        <3>1. /\ pc[p] = "sync"
              /\ UNCHANGED pc \/ (Goto(p, "dropins") /\ parts = kept /\ parts' = parts)
            BY <2>2 DEF RsyncParts
        <3>2. pc'[p] \in {"sync", "dropins"} /\ (pc'[p] = "dropins" => parts' = kept')
            BY <1>2, <2>1, <3>1
        <3> QED
            BY <2>1, <3>2 DEF AtRoll
    <2>3. CASE WipeParts(p)
        <3>1. pc[p] = "wipe" /\ (UNCHANGED pc \/ (Goto(p, "copy") /\ parts' = {}))
            BY <2>3 DEF WipeParts
        <3>2. pc'[p] \in {"wipe", "copy"} /\ (pc'[p] = "copy" => parts' = {})
            BY <1>2, <3>1
        <3> QED
            BY <2>1, <3>2 DEF AtRoll
    <2>4. CASE CopyParts(p)
        <3>1. pc[p] = "copy" /\ parts \subseteq kept
            BY <1>1, <2>4 DEF CopyParts, AtRoll
        <3>2. /\ parts' \subseteq kept'
              /\ UNCHANGED pc \/ (Goto(p, "dropins") /\ (parts' = kept' \/ ignored'))
            BY <2>1, <2>4, <3>1 DEF CopyParts
        <3>3. /\ pc'[p] \in {"copy", "dropins"}
              /\ pc'[p] = "dropins" => parts' = kept' \/ ignored'
            BY <1>2, <3>1, <3>2
        <3> QED
            BY <2>1, <3>2, <3>3 DEF AtRoll
    <2> QED
        BY <1>6, <2>2, <2>3, <2>4 DEF MirrorParts
<1>7. CASE RemoveDropins(p) \/ (p \in Shell /\ RemoveUnit(p))
    <2>1. pc[p] \in RolledBack /\ pc'[p] \in RolledBack
        BY <1>2, <1>7 DEF RemoveDropins, RemoveUnit, Step
    <2>2. sentinel /\ main = "plain" /\ parts \subseteq kept /\ (parts = kept \/ ignored)
        BY <1>1, <2>1 DEF AtRoll
    <2>3. UNCHANGED <<sentinel, main, parts, kept, ignored>>
        BY <1>7 DEF RemoveDropins, RemoveUnit, network, backup, bounds
    <2> QED
        BY <2>1, <2>2, <2>3 DEF AtRoll
<1>8. CASE RemoveSentinel(p) \/ (p \in Shell /\ TearDown(p))
    <2>1. pc'[p] \in {"idle", "reboot"}
        BY <1>2, <1>8 DEF RemoveSentinel, TearDown, Step
    <2> QED
        BY <2>1 DEF AtRoll
<1> QED
    BY <1>3, <1>4, <1>5, <1>6, <1>7, <1>8 DEF RollbackStep

\* A bring-up or a confirmation is no rollback.
LEMMA RollRests ==
    ASSUME IInv, NEW s \in Shell,
           \/ BringUp(s) \/ Answer(s) \/ Confirm(s)
           \/ BringUpStep(s) \/ CancelTimer(s) \/ Disarm(s) \/ ScriptFails(s)
    PROVE  AtRoll(s)'
<1> USE DEF Steps, Before, After, Confirming
<1>1. PcInv /\ s \in Process
    BY DEF IInv, Process
<1>2. ASSUME NEW there \in {"idle"} \cup Before \cup After \cup Confirming, Goto(s, there)
      PROVE  pc'[s] = there
    BY <1>1, <1>2, MoveIs
<1>3. ASSUME pc'[s] \in {"idle"} \cup Before \cup After \cup Confirming
      PROVE  AtRoll(s)'
    BY <1>3 DEF AtRoll, Rolling, MainBack, RolledBack
<1>4. CASE BringUp(s) \/ Answer(s) \/ Confirm(s) \/ CancelTimer(s) \/ Disarm(s) \/ ScriptFails(s)
    BY <1>2, <1>3, <1>4
    DEF BringUp, Answer, Confirm, CancelTimer, Disarm, ScriptFails, Step
<1>5. CASE BackupMain(s) \/ BackupParts(s) \/ TouchSentinel(s) \/ InstallHelper(s)
    BY <1>2, <1>3, <1>5 DEF BackupMain, BackupParts, TouchSentinel, InstallHelper, Step
<1>6. CASE EnableUnit(s) \/ ArmTimer(s) \/ StripMain(s) \/ WriteBr0(s)
    BY <1>2, <1>3, <1>6 DEF EnableUnit, ArmTimer, StripMain, WriteBr0, Step
<1>7. CASE RemoveConflicting(s)
    <2>1. pc[s] = "remove" /\ (UNCHANGED pc \/ Goto(s, "strip"))
        BY <1>7 DEF RemoveConflicting
    <2> QED
        BY <1>2, <1>3, <2>1
<1>8. CASE Launch(s)
    <2>1. pc'[s] = "idle"
        BY <1>1, <1>8 DEF Launch, PcInv, Process
    <2> QED
        BY <1>3, <2>1
<1> QED
    BY <1>4, <1>5, <1>6, <1>7, <1>8 DEF BringUpStep

LEMMA PlacesStep ==
    ASSUME OneShell, IInv, [Next]_vars
    PROVE  ShellInv' /\ RollInv'
<1>1. SUFFICES ASSUME NEW p \in Shell \cup {"boot"}
               PROVE  AtRoll(p)' /\ (p \in Shell => AtShell(p)')
    BY DEF ShellInv, RollInv
<1>2. PcInv /\ p \in Process /\ p # "apply" /\ AtRoll(p) /\ (p \in Shell => AtShell(p))
    BY DEF IInv, ShellInv, RollInv, Process
<1>3. ASSUME NEW s \in Shell, Acts(s)
      PROVE  AtRoll(p)' /\ (p \in Shell => AtShell(p)')
    <2>1. CASE p = "boot"
        <3>1. pc'[p] = "idle" /\ p \notin Shell
            BY <1>2, <1>3, <2>1, ShellAlone, ShellMoves DEF Process
        <3> QED
            BY <3>1, IdleIsAnywhere
    <2>2. CASE p = s
        <3>1. AtShell(p)'
            BY <1>3, <2>2, ShellBefore, ShellAfter, ShellConfirms, ShellRolls
            DEF Acts, Operator, Script, BringUpStep
        <3>2. AtRoll(p)'
            BY <1>3, <2>2, RollRolls, RollRests DEF Acts, Operator, Script
        <3> QED
            BY <3>1, <3>2
    <2> QED
        BY <1>3, <2>1, <2>2, ShellAlone
<1>4. CASE RollbackStep("boot")
    <2>1. CASE p = "boot"
        BY <1>4, <2>1, RollRolls
    <2>2. CASE p # "boot"
        <3>1. pc'[p] = "idle"
            BY <1>2, <1>4, <2>2, BootMoves, BootAlone
        <3> QED
            BY <3>1, IdleIsAnywhere
    <2> QED
        BY <2>1, <2>2
<1>5. CASE Apply
    <2>1. /\ "apply" \in Process /\ "idle" \in Steps /\ Goto("apply", "idle")
          /\ pc["apply"] = "restart" /\ UNCHANGED <<disk, mine, ignored>>
        BY <1>5 DEF Apply, Step, bounds, Process, Steps
    <2>2. pc'[p] = pc[p]
        BY <1>2, <2>1, MoveIs
    <2>3. p \in Shell => pc[p] \notin Confirming
        BY <1>2, <2>1 DEF AtShell
    <2> QED
        BY <1>2, <2>1, <2>2, <2>3 DEF AtShell, AtRoll, disk, network, backup, safety
<1>6. CASE EarlyBoot
    <2>1. CASE p = "boot" /\ sentinel
        <3>1. pc'[p] \in {"validate", "idle"} /\ UNCHANGED sentinel
            BY <1>6, <2>1 DEF EarlyBoot, Idle, Process, disk, safety
        <3> QED
            BY <1>2, <2>1, <3>1
            DEF AtRoll, Process, Rolling, MainBack, RolledBack
    <2>2. CASE p # "boot" \/ ~sentinel
        <3>1. pc'[p] = "idle"
            BY <1>2, <1>6, <2>2 DEF EarlyBoot, Idle, Process
        <3> QED
            BY <3>1, IdleIsAnywhere
    <2> QED
        BY <2>1, <2>2
<1>7. CASE StartNetwork
    <2>1. pc'[p] = "idle"
        BY <1>2, <1>7 DEF StartNetwork, PcInv
    <2> QED
        BY <2>1, IdleIsAnywhere
<1>8. CASE Edit \/ ConsoleRecovery
    <2>1. pc'[p] = "idle"
        BY <1>2, <1>8 DEF Edit, ConsoleRecovery, Idle
    <2> QED
        BY <2>1, IdleIsAnywhere
<1>9. CASE TimerFires \/ UNCHANGED vars
    <2>1. UNCHANGED <<pc, disk, live, mine, ignored>>
        BY <1>9 DEF TimerFires, vars, system, bounds
    <2> QED
        BY <1>2, <2>1, SameStaysThere
<1>10. CASE RollbackFails
    <2>1. pc["boot"] # "idle" /\ Goto("boot", "idle") /\ "boot" \in Process /\ "idle" \in Steps
        BY <1>10 DEF RollbackFails, Process, Steps
    <2>2. p # "boot" => pc[p] = "idle"
        BY <2>1, BootAlone
    <2>3. pc'[p] = "idle"
        BY <1>2, <2>1, <2>2, MoveIs
    <2> QED
        BY <2>3, IdleIsAnywhere
<1> QED
    BY <1>3, <1>4, <1>5, <1>6, <1>7, <1>8, <1>9, <1>10 DEF Next, Acts, Reboot, PowerCut

-----------------------------------------------------------------------------
(* The boot and the network it starts.                                      *)

\* A shell takes no network into use, and does not touch what is said of the boot.
LEMMA ShellLive ==
    ASSUME NEW s \in Shell, Acts(s)
    PROVE  /\ live' = live \/ live' = "none"
           /\ confirmed' = confirmed \/ confirmed' = TRUE
<1>1. CASE Operator(s) \/ ScriptFails(s)
    BY <1>1 DEF Operator, BringUp, Answer, Confirm, Rollback, ScriptFails, system
<1>2. CASE BringUpStep(s)
    BY <1>2
    DEF BringUpStep, BackupMain, BackupParts, TouchSentinel, InstallHelper, EnableUnit, ArmTimer,
        RemoveConflicting, StripMain, WriteBr0, Launch, system
<1>3. CASE RollbackStep(s)
    BY <1>3, MirrorIs
    DEF RollbackStep, Validate, RestoreMain, RemoveDropins, RemoveSentinel, system
<1>4. CASE CancelTimer(s) \/ Disarm(s) \/ RemoveUnit(s) \/ TearDown(s)
    BY <1>4 DEF CancelTimer, Disarm, RemoveUnit, TearDown, system
<1> QED
    BY <1>1, <1>2, <1>3, <1>4 DEF Acts, Script

LEMMA ShellFailed ==
    ASSUME NEW s \in Shell, Acts(s)
    PROVE  failed' = failed
<1>0. s # "boot"
    OBVIOUS
<1>1. CASE Operator(s) \/ ScriptFails(s)
    BY <1>1 DEF Operator, BringUp, Answer, Confirm, Rollback, ScriptFails, bounds
<1>2. CASE BringUpStep(s)
    BY <1>2
    DEF BringUpStep, BackupMain, BackupParts, TouchSentinel, InstallHelper, EnableUnit, ArmTimer,
        RemoveConflicting, StripMain, WriteBr0, Launch, bounds
<1>3. CASE Validate(s)
    BY <1>0, <1>3 DEF Validate
<1>4. CASE RestoreMain(s) \/ MirrorParts(s) \/ RemoveDropins(s) \/ RemoveSentinel(s)
    BY <1>4, MirrorIs DEF RestoreMain, RemoveDropins, RemoveSentinel, bounds
<1>5. CASE CancelTimer(s) \/ Disarm(s) \/ RemoveUnit(s) \/ TearDown(s)
    BY <1>5 DEF CancelTimer, Disarm, RemoveUnit, TearDown, bounds
<1> QED
    BY <1>1, <1>2, <1>3, <1>4, <1>5 DEF Acts, Script, RollbackStep

\* The service takes away the sentinel last and nothing else that the next one needs; with
\* a backup, and there is one, only that ends it.
LEMMA BootWorks ==
    ASSUME IInv, RollbackStep("boot")
    PROVE  /\ UNCHANGED <<unit, helper, live, host>> /\ ~failed'
           /\ pc'["boot"] # "idle" => sentinel'
           /\ pc'["boot"] = "idle" => ~sentinel'
<1>1. /\ PcInv /\ "boot" \in Process /\ pc["boot"] # "idle" /\ host = "early"
      /\ sentinel /\ saved = "plain" /\ ~failed
    <2>1. PcInv /\ pc["boot"] # "idle" /\ host = "early"
        BY BootMoves, BootAlone DEF IInv
    <2>2. sentinel
        BY <2>1 DEF IInv, BootInv
    <2> QED
        BY <2>1, <2>2 DEF IInv, BootInv, BackupInv, Process
<1>2. ASSUME NEW there \in Steps, Goto("boot", there)
      PROVE  pc'["boot"] = there
    BY <1>1, <1>2, MoveIs
<1>3. {"restore", "restored", "sync", "wipe", "copy", "dropins", "sentinel off", "idle"}
          \subseteq Steps
    BY DEF Steps, Rolling, MainBack, RolledBack
<1>4. CASE Validate("boot")
    <2>1. Goto("boot", "restore") /\ ~failed' /\ UNCHANGED <<disk, system>>
        BY <1>1, <1>4 DEF Validate
    <2> QED
        BY <1>1, <1>2, <1>3, <2>1 DEF disk, safety, system
<1>5. CASE RestoreMain("boot")
    <2>1. /\ Goto("boot", "restored") \/ Goto("boot", "sync") \/ Goto("boot", "wipe")
          /\ UNCHANGED <<safety, system, bounds>>
        BY <1>5 DEF RestoreMain, Step
    <2> QED
        BY <1>1, <1>2, <1>3, <2>1 DEF safety, system, bounds
<1>6. CASE MirrorParts("boot")
    BY <1>1, <1>2, <1>3, <1>6, MirrorIs DEF safety, system
<1>7. CASE RemoveDropins("boot")
    BY <1>1, <1>2, <1>3, <1>7 DEF RemoveDropins, Step, system, bounds
<1>8. CASE RemoveSentinel("boot")
    BY <1>1, <1>2, <1>3, <1>8 DEF RemoveSentinel, Step, system, bounds
<1> QED
    BY <1>4, <1>5, <1>6, <1>7, <1>8 DEF RollbackStep

\* What networking starts from.
LEMMA NetworkStarts ==
    ASSUME IInv, StartNetwork
    PROVE  /\ \/ live' = "plain" \/ (live' = "bridge" /\ confirmed)
              \/ (live' = "broken" /\ ~unit) \/ failed
           /\ failed => sentinel /\ unit /\ helper
<1>1. host = "early" /\ pc["boot"] = "idle" /\ live' = Described
    BY DEF StartNetwork
<1>2. failed => sentinel /\ unit /\ helper
    BY <1>1 DEF IInv, BootInv
<1>3. CASE confirmed
    BY <1>1, <1>2, <1>3 DEF IInv, ConfirmedInv
<1>4. CASE ~confirmed /\ ~sentinel
    BY <1>1, <1>2, <1>4 DEF IInv, WholeInv, Described
<1>5. CASE sentinel /\ ~failed
    <2>1. ~unit /\ "br0.conf" \notin parts
        BY <1>1, <1>5 DEF IInv, BootInv, ServiceInv
    <2>2. Described = "plain" \/ Described = "broken"
        BY <2>1 DEF Described
    <2> QED
        BY <1>1, <1>2, <2>1, <2>2
<1> QED
    BY <1>2, <1>3, <1>4, <1>5

LEMMA BootStep ==
    ASSUME OneShell, IInv, [Next]_vars
    PROVE  BootInv'
<1> USE DEF BootInv
<1>1. BootInv /\ PcInv /\ TypeOK
    BY DEF IInv
<1>2. ASSUME NEW s \in Shell, Acts(s)
      PROVE  BootInv'
    <2>1. host' # "early" /\ live # "broken" /\ pc["boot"] = "idle" /\ pc'["boot"] = "idle"
        BY <1>1, <1>2, ShellAlone, ShellMoves DEF Process
    <2>2. /\ live' = live \/ live' = "none"
          /\ confirmed' = confirmed \/ confirmed' = TRUE
          /\ failed' = failed
        BY <1>2, ShellLive, ShellFailed
    <2> QED
        BY <1>1, <2>1, <2>2
<1>3. CASE RollbackStep("boot")
    <2>1. live = "none" /\ sentinel /\ unit /\ helper
        BY <1>1, <1>3, BootMoves, BootAlone
    <2> QED
        BY <1>3, <2>1, BootWorks
<1>4. CASE Apply
    <2>1. host # "early" /\ UNCHANGED <<host, sentinel, unit, helper>>
        BY <1>1, <1>4 DEF Apply, Step, PcInv, disk, safety
    <2>2. live' \in {"plain", "trial"}
        BY <1>4 DEF Apply
    <2>3. pc["boot"] = "idle" /\ pc'["boot"] = "idle"
        <3>1. /\ Goto("apply", "idle") /\ "apply" \in Process /\ "boot" \in Process
              /\ "idle" \in Steps
            BY <1>4 DEF Apply, Step, Process, Steps
        <3> QED
            BY <1>1, <2>1, <3>1, MoveIs DEF PcInv
    <2> QED
        BY <2>1, <2>2, <2>3
<1>5. CASE EarlyBoot
    <2>1. live' = "none" /\ ~failed' /\ UNCHANGED <<sentinel, unit, helper>>
        BY <1>5 DEF EarlyBoot, disk, safety
    <2>2. pc'["boot"] = IF sentinel /\ unit /\ helper THEN "validate" ELSE "idle"
        BY <1>5 DEF EarlyBoot, Idle, Process
    <2>3. unit => helper
        BY DEF IInv, ServiceInv
    <2> QED
        BY <2>1, <2>2, <2>3
<1>6. CASE StartNetwork
    <2>1. host' = "up" /\ UNCHANGED <<unit, confirmed, failed, pc>> /\ pc["boot"] = "idle"
        BY <1>6 DEF StartNetwork, disk, safety, bounds
    <2>2. \A s \in Shell \cup {"apply"} : pc[s] = "idle"
        BY <1>1, <1>6 DEF StartNetwork, PcInv
    <2> QED
        BY <1>6, <2>1, <2>2, NetworkStarts
<1>7. CASE Edit
    <2>1. host' # "early" /\ live' = "plain" /\ pc' = pc /\ pc["boot"] = "idle"
        BY <1>1, <1>7 DEF Edit, Reachable, system, PcInv
    <2> QED
        BY <2>1
<1>8. CASE ConsoleRecovery
    <2>1. /\ host' # "early" /\ UNCHANGED <<live, unit, pc, confirmed, failed>>
          /\ pc["boot"] = "idle"
        BY <1>1, <1>8 DEF ConsoleRecovery, PcInv
    <2> QED
        BY <1>1, <2>1
<1>9. CASE TimerFires
    <2>1. /\ host' # "early" /\ UNCHANGED <<live, unit, pc, confirmed, failed>>
          /\ pc["boot"] = "idle"
        BY <1>1, <1>9 DEF TimerFires, disk, safety, bounds, PcInv
    <2> QED
        BY <1>1, <2>1
<1>10. CASE UNCHANGED vars
    <2>1. UNCHANGED <<host, sentinel, live, unit, helper, pc, confirmed, failed>>
        BY <1>10 DEF vars, disk, safety, system, bounds
    <2> QED
        BY <1>1, <2>1
<1>11. CASE RollbackFails
    <2>1. pc["boot"] # "idle" /\ Goto("boot", "idle") /\ "boot" \in Process /\ "idle" \in Steps
        BY <1>11 DEF RollbackFails, Process, Steps
    <2>2. live = "none" /\ sentinel /\ unit /\ helper
        BY <1>1, <2>1, BootAlone
    <2>3. pc'["boot"] = "idle"
        BY <1>1, <2>1, MoveIs
    <2>4. failed' = TRUE /\ UNCHANGED <<live, sentinel, unit, helper>>
        BY <1>11 DEF RollbackFails, disk, safety, system
    <2> QED
        BY <2>2, <2>3, <2>4
<1> QED
    BY <1>2, <1>3, <1>4, <1>5, <1>6, <1>7, <1>8, <1>9, <1>10, <1>11
    DEF Next, Acts, Reboot, PowerCut

-----------------------------------------------------------------------------
(* The theorems.                                                            *)

\* What any number of shells keep.
THEOREM SharedHolds == Spec => []SharedInv
<1>1. Init => SharedInv
    BY InitInv DEF IInv, SharedInv
<1>2. SharedInv /\ [Next]_vars => SharedInv'
    BY PcStep, TypeStep, KeptStep DEF SharedInv
<1> QED
    BY <1>1, <1>2, PTL DEF Spec

LEMMA StepInv ==
    ASSUME OneShell, IInv, [Next]_vars
    PROVE  IInv'
<1>1. PcInv' /\ TypeOK' /\ KeptInv'
    BY PcStep, TypeStep, KeptStep DEF IInv, SharedInv
<1> QED
    BY <1>1, ConfirmedStep, WholeStep, BackupStep, ServiceStep, PlacesStep, BootStep DEF IInv

\* The invariant holds of every device that one shell is used on.
THEOREM InvariantHolds ==
    ASSUME OneShell
    PROVE  Spec => []IInv
<1>1. OneShell
    OBVIOUS
<1>2. IInv /\ [Next]_vars => IInv'
    BY <1>1, StepInv
<1> QED
    BY InitInv, <1>2, PTL DEF Spec

\* Every variable keeps its type, and early in boot no shell, no timer and no network runs,
\* with any number of shells.
THEOREM TypeCorrect == Spec => []TypeOK
<1>1. SharedInv => TypeOK
    BY DEF SharedInv
<1> QED
    BY SharedHolds, <1>1, PTL

\* Whatever several shells do to one another, and wherever the power fails or a script
\* stops: every file of interfaces.d that the operator had is in its place or in the
\* backup.  (Of the main file nothing like it holds: a second bring-up may save the file
\* while the first has half rewritten it.)
THEOREM FilesNeverLost == Spec => []NothingLost
<1>1. SharedInv => NothingLost
    BY DEF SharedInv, KeptInv
<1> QED
    BY SharedHolds, <1>1, PTL

\* Nothing but StartNetwork ends early boot.
LEMMA OnlyNetworkEndsBoot ==
    ASSUME PcInv, [Next]_vars, host = "early", host' = "up"
    PROVE  StartNetwork
<1>1. ASSUME NEW s \in Shell, Acts(s)
      PROVE  FALSE
    BY <1>1, ShellAwake
<1>2. ~RollbackStep("boot")
    BY BootMoves
<1>3. ~RollbackFails /\ ~Apply
    BY DEF RollbackFails, Apply, system
<1>4. ~TimerFires /\ ~EarlyBoot /\ ~Edit /\ ~ConsoleRecovery /\ ~UNCHANGED vars
    BY DEF TimerFires, EarlyBoot, Edit, ConsoleRecovery, vars, system
<1> QED
    BY <1>1, <1>2, <1>3, <1>4 DEF Next, Acts, Reboot, PowerCut

\* However often the power fails or a script stops, the rollback at boot included, the
\* network that starts is the operator's own or one that he confirmed, or a half-written
\* one without the service, or whatever is there because the rollback of this boot has
\* failed; and such a failure leaves the next boot all it needs.
THEOREM BootsRight ==
    ASSUME OneShell
    PROVE  Spec => BootsWholeOrConfirmed
<1>1. IInv /\ [Next]_vars =>
        [host = "early" /\ host' = "up" =>
           /\ \/ live' = "plain" \/ (live' = "bridge" /\ confirmed)
              \/ (live' = "broken" /\ ~unit) \/ failed
           /\ failed => Armed]_vars
    <2> SUFFICES ASSUME IInv, [Next]_vars, host = "early", host' = "up"
                 PROVE  /\ \/ live' = "plain" \/ (live' = "bridge" /\ confirmed)
                           \/ (live' = "broken" /\ ~unit) \/ failed
                        /\ failed => Armed
        OBVIOUS
    <2>1. StartNetwork
        BY OnlyNetworkEndsBoot DEF IInv
    <2>2. sentinel => saved = "plain" /\ mine \subseteq kept
        BY DEF IInv, BackupInv
    <2> QED
        BY <2>1, <2>2, NetworkStarts DEF Armed
<1> QED
    BY <1>1, InvariantHolds, PTL DEF Spec, BootsWholeOrConfirmed

\* However the bridge ended without being confirmed, once all is quiet the operator's
\* configuration is the one on disk, with every file he had but those that cp failed to
\* copy unheard, and those are still in the backup.
THEOREM PreviousBack ==
    ASSUME OneShell
    PROVE  Spec => []PreviousIsBack
<1>1. IInv => PreviousIsBack
    BY DEF IInv, WholeInv, KeptInv, NothingLost, PreviousIsBack
<1> QED
    BY InvariantHolds, <1>1, PTL
=============================================================================
