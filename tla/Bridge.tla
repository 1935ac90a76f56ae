-------------------------------- MODULE Bridge --------------------------------
(***************************************************************************)
(* Turning the device into a bridge and back: bring-up-bridge.sh,          *)
(* apply-bridge.sh, confirm-bridge.sh, rollback-bridge.sh and the          *)
(* xblp-bridge-rollback service.                                           *)
(*                                                                         *)
(* What the scripts leave on disk survives a reboot, the running network   *)
(* and the shutdown timer do not.  A script does one step at a time and    *)
(* the power may fail, or the script stop with an error, between any two,  *)
(* the rollback that the service runs at boot included: networking waits   *)
(* for that service to end, not for it to succeed.  A file is copied whole *)
(* or not at all.  The timer fires at any time after it has been armed.    *)
(* The operator acts only while he can reach the device, and confirms only *)
(* a bridge he has reached it through.                                     *)
(***************************************************************************)
EXTENDS Naturals, FiniteSets

CONSTANTS
    Shell,        \* bound: shells of the operator
    File,         \* names the operator may use in /etc/network/interfaces.d
    Conflicting,  \* those that configure the WAN or the LAN interface
    MaxFaults,    \* bound: power cuts and scripts that fail
    MaxEdits      \* bound: changes the operator makes to his configuration

ASSUME BridgeAssumption ==
    /\ Conflicting \subseteq File /\ "br0.conf" \notin File
    /\ "boot" \notin Shell /\ "apply" \notin Shell
    /\ MaxFaults \in Nat /\ MaxEdits \in Nat

VARIABLES
    \* on disk
    main,      \* /etc/network/interfaces: "plain", "bridged" or "torn" while it is written
    parts,     \* files in /etc/network/interfaces.d
    saved,     \* the backup of main, "none" before there is one
    kept,      \* the backup of parts
    sentinel,  \* /etc/xboxlive-protect/.bridge-pending
    helper,    \* the scripts in /usr/local/lib/xboxlive-protect
    unit,      \* xblp-bridge-rollback.service, enabled
    dropins,   \* modules-load.d/xblp-bridge.conf and sysctl.d/99-xblp-bridge.conf
    \* in the running system
    host,      \* "early" in boot, "up" or "halting"
    live,      \* the network that runs: "none", "plain", "trial", "bridge" or "broken"
    works,     \* can the operator reach the device through the bridge?
    timer,     \* is a reboot scheduled?
    pc,        \* shell, "boot" or "apply" -> its next step
    \* history and bounds
    mine,      \* the operator's own files of interfaces.d
    confirmed, \* the bridge has been confirmed
    failed,    \* the rollback at this boot has ended with an error
    ignored,   \* a rollback has gone on without files that it could not copy
    faults, edits

network == <<main, parts>>
backup  == <<saved, kept>>
safety  == <<sentinel, helper, unit, dropins>>
disk    == <<network, backup, safety>>
system  == <<host, live, works, timer>>
bounds  == <<mine, failed, ignored, faults, edits>>
vars    == <<disk, system, pc, bounds, confirmed>>

Process == Shell \cup {"boot", "apply"}

Idle == [p \in Process |-> "idle"]

Init ==
    /\ mine \in SUBSET File /\ main = "plain" /\ parts = mine
    /\ saved = "none" /\ kept = {}
    /\ sentinel = FALSE /\ helper = FALSE /\ unit = FALSE /\ dropins = FALSE
    /\ host = "up" /\ live = "plain" /\ works = FALSE /\ timer = FALSE
    /\ pc = Idle /\ confirmed = FALSE /\ failed = FALSE /\ ignored = FALSE
    /\ faults = 0 /\ edits = 0

Reachable == host # "early" /\ (live = "plain" \/ (live \in {"trial", "bridge"} /\ works))

Goto(p, step) == pc' = [pc EXCEPT ![p] = step]

Fault == faults < MaxFaults /\ faults' = faults + 1

\* Process p is at this step and goes on to the next.
Step(p, here, there) == pc[p] = here /\ Goto(p, there)

\* What ifup makes of the files.
Described ==
    IF main = "plain" /\ "br0.conf" \notin parts THEN "plain"
    ELSE IF main = "bridged" /\ "br0.conf" \in parts /\ parts \cap Conflicting = {} THEN "bridge"
    ELSE "broken"

-----------------------------------------------------------------------------
(* bring-up-bridge.sh                                                       *)

\* The guards, and the kernel settings that are installed before the prompt.  Interfaces
\* that cannot be told apart stop the script here.
BringUp(s) ==
    /\ Reachable /\ Step(s, "idle", "prompt")
    /\ ~sentinel /\ live = "plain"
    /\ dropins' = TRUE
    /\ UNCHANGED <<network, backup, sentinel, helper, unit, system, bounds, confirmed>>

\* "Proceed?"
Answer(s) ==
    /\ Reachable /\ pc[s] = "prompt"
    /\ Goto(s, "backup") \/ Goto(s, "idle")
    /\ UNCHANGED <<disk, system, bounds, confirmed>>

BackupMain(s) ==
    /\ Step(s, "backup", "backup parts")
    /\ saved' = main
    /\ UNCHANGED <<network, kept, safety, system, bounds, confirmed>>

\* Mutant of BackupParts: the files of interfaces.d are forgotten.
BackupMainOnly(s) ==
    /\ Step(s, "backup parts", "sentinel")
    /\ UNCHANGED <<disk, system, bounds, confirmed>>

\* Files of an earlier backup stay where they are.
BackupParts(s) ==
    /\ Step(s, "backup parts", "sentinel")
    /\ kept' = kept \cup parts
    /\ UNCHANGED <<network, saved, safety, system, bounds, confirmed>>

TouchSentinel(s) ==
    /\ Step(s, "sentinel", "helper")
    /\ sentinel' = TRUE
    /\ UNCHANGED <<network, backup, helper, unit, dropins, system, bounds, confirmed>>

InstallHelper(s) ==
    /\ Step(s, "helper", "unit")
    /\ helper' = TRUE
    /\ UNCHANGED <<network, backup, sentinel, unit, dropins, system, bounds, confirmed>>

\* Mutant of EnableUnit: the service is installed and not enabled.
InstallUnit(s) ==
    /\ Step(s, "unit", "arm")
    /\ UNCHANGED <<disk, system, bounds, confirmed>>

EnableUnit(s) ==
    /\ Step(s, "unit", "arm")
    /\ unit' = TRUE
    /\ UNCHANGED <<network, backup, sentinel, helper, dropins, system, bounds, confirmed>>

\* A timer that cannot be armed is a warning only.
ArmTimer(s) ==
    /\ Step(s, "arm", "remove")
    /\ timer' \in {timer, TRUE}
    /\ UNCHANGED <<disk, host, live, works, bounds, confirmed>>

RemoveConflicting(s) ==
    /\ pc[s] = "remove"
    /\ \/ \E f \in parts \cap Conflicting : parts' = parts \ {f} /\ UNCHANGED pc
       \/ parts \cap Conflicting = {} /\ Goto(s, "strip") /\ UNCHANGED parts
    /\ UNCHANGED <<main, backup, safety, system, bounds, confirmed>>

\* write_text empties the file before it writes it.
StripMain(s) ==
    /\ \/ Step(s, "strip", "source") /\ main' = "torn"
       \/ Step(s, "source", "br0") /\ main' = "bridged"
    /\ UNCHANGED <<parts, backup, safety, system, bounds, confirmed>>

WriteBr0(s) ==
    /\ Step(s, "br0", "launch")
    /\ parts' = parts \cup {"br0.conf"}
    /\ UNCHANGED <<main, backup, safety, system, bounds, confirmed>>

\* systemd-run: apply-bridge.sh outlives the shell; a unit that runs already is an error.
Launch(s) ==
    /\ pc[s] = "launch"
    /\ pc' = [pc EXCEPT ![s] = "idle", !["apply"] = "restart"]
    /\ UNCHANGED <<disk, system, bounds, confirmed>>

\* apply-bridge.sh restarts networking with what the files say by now; whether a bridge
\* can be reached is open.
Apply ==
    /\ Step("apply", "restart", "idle")
    /\ live' = IF Described = "plain" THEN "plain" ELSE "trial"
    /\ works' \in BOOLEAN /\ (works' => Described = "bridge")
    /\ UNCHANGED <<disk, host, timer, bounds, confirmed>>

-----------------------------------------------------------------------------
(* confirm-bridge.sh                                                        *)

\* After the restart, and not when he has begun to roll the bridge back.
Confirm(s) ==
    /\ Reachable /\ live \in {"trial", "bridge"} /\ sentinel
    /\ pc["apply"] = "idle" /\ Described = "bridge"
    /\ Step(s, "idle", "cancel")
    /\ UNCHANGED <<disk, system, bounds, confirmed>>

\* shutdown -c may fail; the script goes on.
CancelTimer(s) ==
    /\ Step(s, "cancel", "disarm")
    /\ timer' \in {timer, FALSE}
    /\ UNCHANGED <<disk, host, live, works, bounds, confirmed>>

Disarm(s) ==
    /\ Step(s, "disarm", "idle")
    /\ sentinel' = FALSE /\ confirmed' = TRUE
    /\ UNCHANGED <<network, backup, helper, unit, dropins, system, bounds>>

-----------------------------------------------------------------------------
(* rollback-bridge.sh, run by the service at boot or by the operator.       *)

Rollback(s) ==
    /\ Reachable /\ helper /\ sentinel
    /\ Step(s, "idle", "validate")
    /\ UNCHANGED <<disk, system, bounds, confirmed>>

\* Without a backup it stops and leaves everything as it is.
Validate(p) ==
    /\ pc[p] = "validate"
    /\ Goto(p, IF saved = "none" THEN "idle" ELSE "restore")
    /\ failed' = IF saved = "none" /\ p = "boot" THEN TRUE ELSE failed
    /\ UNCHANGED <<disk, system, mine, ignored, faults, edits, confirmed>>

\* Then rsync, if it is installed.
RestoreMain(p) ==
    /\ \/ Step(p, "restore", "restored") /\ main' = "torn"
       \/ (Step(p, "restored", "sync") \/ Step(p, "restored", "wipe")) /\ main' = saved
    /\ UNCHANGED <<parts, backup, safety, system, bounds, confirmed>>

\* Mutant of RsyncParts: --delete is left out.
RsyncAdds(p) ==
    /\ pc[p] = "sync"
    /\ \/ \E f \in kept \ parts : parts' = parts \cup {f} /\ UNCHANGED <<pc, ignored>>
       \/ kept \subseteq parts /\ Goto(p, "dropins") /\ ignored' = FALSE /\ UNCHANGED parts
    /\ UNCHANGED <<main, backup, safety, system, mine, failed, faults, edits, confirmed>>

\* rsync --delete, a file at a time.
RsyncParts(p) ==
    /\ pc[p] = "sync"
    /\ \/ \E f \in kept \ parts : parts' = parts \cup {f} /\ UNCHANGED <<pc, ignored>>
       \/ \E f \in parts \ kept : parts' = parts \ {f} /\ UNCHANGED <<pc, ignored>>
       \/ parts = kept /\ Goto(p, "dropins") /\ ignored' = FALSE /\ UNCHANGED parts
    /\ UNCHANGED <<main, backup, safety, system, mine, failed, faults, edits, confirmed>>

\* Without rsync: find -delete, ...
WipeParts(p) ==
    /\ pc[p] = "wipe"
    /\ \/ \E f \in parts : parts' = parts \ {f} /\ UNCHANGED pc
       \/ parts = {} /\ Goto(p, "copy") /\ UNCHANGED parts
    /\ UNCHANGED <<main, backup, safety, system, bounds, confirmed>>

\* ... and then a cp whose error is thrown away, though files are missing.
CopyParts(p) ==
    /\ pc[p] = "copy"
    /\ \/ \E f \in kept \ parts : parts' = parts \cup {f} /\ UNCHANGED <<pc, ignored, faults>>
       \/ /\ parts = kept /\ Goto(p, "dropins") /\ ignored' = FALSE
          /\ UNCHANGED <<parts, faults>>
       \/ /\ parts # kept /\ Fault /\ Goto(p, "dropins") /\ ignored' = TRUE
          /\ UNCHANGED parts
    /\ UNCHANGED <<main, backup, safety, system, mine, failed, edits, confirmed>>

MirrorParts(p) == RsyncParts(p) \/ WipeParts(p) \/ CopyParts(p)

\* The service keeps itself: it runs in the middle of a boot.
RemoveDropins(p) ==
    /\ Step(p, "dropins", IF p = "boot" THEN "sentinel off" ELSE "unit off")
    /\ dropins' = FALSE
    /\ UNCHANGED <<network, backup, sentinel, helper, unit, system, bounds, confirmed>>

\* An error of rm -rf is thrown away.
RemoveUnit(s) ==
    /\ \/ Step(s, "unit off", "helper off") /\ unit' = FALSE /\ UNCHANGED helper
       \/ Step(s, "helper off", "sentinel off") /\ helper' \in {helper, FALSE} /\ UNCHANGED unit
    /\ UNCHANGED <<network, backup, sentinel, dropins, system, bounds, confirmed>>

RemoveSentinel(p) ==
    /\ Step(p, "sentinel off", IF p = "boot" THEN "idle" ELSE "reboot")
    /\ sentinel' = FALSE
    /\ UNCHANGED <<network, backup, helper, unit, dropins, system, bounds, confirmed>>

\* By hand: br0 is deleted, the timer cancelled, and the device reboots at once.
TearDown(s) ==
    /\ Step(s, "reboot", "idle")
    /\ live' = "none" /\ timer' = FALSE /\ host' = "halting"
    /\ UNCHANGED <<disk, works, bounds, confirmed>>

-----------------------------------------------------------------------------
(* The device.                                                              *)

\* The reboot begins; scripts run on until they are killed.
TimerFires ==
    /\ host = "up" /\ timer
    /\ host' = "halting" /\ timer' = FALSE
    /\ UNCHANGED <<disk, live, works, pc, bounds, confirmed>>

\* Mutant of EarlyBoot: apply-bridge.sh is an enabled unit and starts again with the device.
EarlyBootApplies ==
    /\ host' = "early" /\ live' = "none" /\ works' = FALSE /\ timer' = FALSE
    /\ pc' = [pc EXCEPT !["boot"] = IF sentinel /\ unit /\ helper THEN "validate" ELSE "idle"]
    /\ failed' = FALSE
    /\ UNCHANGED <<disk, mine, ignored, edits, confirmed>>

\* ConditionPathExists: the service runs only while the sentinel is there.
EarlyBoot ==
    /\ host' = "early" /\ live' = "none" /\ works' = FALSE /\ timer' = FALSE
    /\ pc' = [Idle EXCEPT !["boot"] = IF sentinel /\ unit /\ helper THEN "validate" ELSE "idle"]
    /\ failed' = FALSE
    /\ UNCHANGED <<disk, mine, ignored, edits, confirmed>>

Reboot == host = "halting" /\ EarlyBoot /\ UNCHANGED faults

\* Before=network-pre.target: networking waits for the service to end.  It is ordered
\* after it and does not require it, so it starts after a failure as well.
StartNetwork ==
    /\ host = "early" /\ pc["boot"] = "idle"
    /\ host' = "up" /\ live' = Described
    /\ works' \in BOOLEAN /\ (works' => Described = "bridge")
    /\ UNCHANGED <<disk, timer, pc, bounds, confirmed>>

PowerCut == Fault /\ EarlyBoot

\* set -e, a lost connection or Ctrl-C.  (apply-bridge.sh sets no -e and is a unit of its
\* own: each of its commands is run whatever the one before did.)
ScriptFails(s) ==
    /\ Fault /\ pc[s] # "idle" /\ Goto(s, "idle")
    /\ UNCHANGED <<disk, system, mine, failed, ignored, edits, confirmed>>

\* set -e in the service: what it was about to do is left undone, and the boot goes on.
RollbackFails ==
    /\ Fault /\ pc["boot"] # "idle" /\ Goto("boot", "idle")
    /\ failed' = TRUE
    /\ UNCHANGED <<disk, system, mine, ignored, edits, confirmed>>

\* Between two attempts the operator changes his own configuration.
Edit ==
    /\ Reachable /\ live = "plain" /\ ~sentinel /\ pc = Idle
    /\ edits < MaxEdits /\ edits' = edits + 1
    /\ mine' \in SUBSET File /\ parts' = mine' /\ ignored' = FALSE
    /\ UNCHANGED <<main, backup, safety, system, pc, failed, faults, confirmed>>

\* docs/troubleshooting.md, scenario 4: without the service the operator restores the
\* backup at the console, removes the sentinel and reboots.
ConsoleRecovery ==
    /\ host = "up" /\ sentinel /\ ~unit /\ pc = Idle
    /\ main' = saved /\ parts' = parts \cup kept /\ sentinel' = FALSE
    /\ host' = "halting" /\ ignored' = FALSE
    /\ UNCHANGED <<backup, helper, unit, dropins, live, works, timer, pc, mine, failed, faults,
                   edits, confirmed>>

-----------------------------------------------------------------------------

BringUpStep(s) ==
    \/ BackupMain(s) \/ BackupParts(s) \/ TouchSentinel(s) \/ InstallHelper(s)
    \/ EnableUnit(s) \/ ArmTimer(s) \/ RemoveConflicting(s) \/ StripMain(s)
    \/ WriteBr0(s) \/ Launch(s)

RollbackStep(p) ==
    \/ Validate(p) \/ RestoreMain(p) \/ MirrorParts(p) \/ RemoveDropins(p)
    \/ RemoveSentinel(p)

Operator(s) == BringUp(s) \/ Answer(s) \/ Confirm(s) \/ Rollback(s)

Script(s) ==
    \/ BringUpStep(s) \/ CancelTimer(s) \/ Disarm(s)
    \/ RollbackStep(s) \/ RemoveUnit(s) \/ TearDown(s)

Next ==
    \/ \E s \in Shell : Operator(s) \/ Script(s) \/ ScriptFails(s)
    \/ RollbackStep("boot") \/ RollbackFails \/ Apply \/ TimerFires \/ Reboot \/ StartNetwork
    \/ PowerCut \/ Edit \/ ConsoleRecovery

\* systemd and the kernel do their part; the operator need not do anything.
Fairness ==
    /\ WF_vars(RollbackStep("boot")) /\ WF_vars(Apply)
    /\ WF_vars(TimerFires) /\ WF_vars(Reboot) /\ WF_vars(StartNetwork)

Spec == Init /\ [][Next]_vars /\ Fairness

-----------------------------------------------------------------------------
(* Properties.                                                              *)

Content == {"plain", "bridged", "torn"}

\* Every variable keeps its type; the timer and the running network are gone early in
\* boot, when no shell is left.
TypeOK ==
    /\ main \in Content /\ saved \in Content \cup {"none"}
    /\ parts \subseteq File \cup {"br0.conf"} /\ kept \subseteq File \cup {"br0.conf"}
    /\ mine \subseteq File
    /\ {sentinel, helper, unit, dropins, works, timer, confirmed, failed, ignored}
           \subseteq BOOLEAN
    /\ host \in {"early", "up", "halting"}
    /\ live \in {"none", "plain", "trial", "bridge", "broken"}
    /\ host = "early" => live = "none" /\ ~timer /\ \A s \in Shell \cup {"apply"} : pc[s] = "idle"
    /\ DOMAIN pc = Process
    /\ faults \in 0 .. MaxFaults /\ edits \in 0 .. MaxEdits

\* Everything the next rollback needs is there.
Armed == sentinel /\ unit /\ helper /\ saved = "plain" /\ mine \subseteq kept

\* Networking starts from the operator's own configuration or from a bridge that he has
\* confirmed, whatever was cut short before.  There are two exceptions: files that are
\* half one and half the other, if the service was never installed or is removed; and
\* anything there is, if the rollback of this very boot has failed, but then the next
\* boot has all it needs to try again ("this service still fires first and restores the
\* pre-bridge config before the broken config is attempted", xblp-bridge-rollback.service).
BootsWholeOrConfirmed ==
    [][host = "early" /\ host' = "up" =>
         /\ \/ live' = "plain" \/ (live' = "bridge" /\ confirmed)
            \/ (live' = "broken" /\ ~unit) \/ failed
         /\ failed => Armed]_vars

\* Once nothing is under way and the bridge is not confirmed, the operator has his
\* network back ("restores the previous network configuration", bring-up-bridge.sh:6): the
\* main file as it was, nothing of the bridge, and every file he had beside it, if not in
\* its place then in the backup; and in its place unless cp has failed unheard.
PreviousIsBack ==
    host = "up" /\ pc = Idle /\ ~sentinel /\ ~confirmed =>
        /\ main = "plain" /\ "br0.conf" \notin parts
        /\ mine \subseteq parts \cup kept
        /\ mine \subseteq parts \/ ignored

\* "If you cannot SSH back in within 10 minutes, the device reboots automatically": with
\* the timer armed, a bridge that cuts the operator off does so for a while only, unless
\* the rollback fails at that reboot.
CutOffIsBrief ==
    timer /\ live = "trial" /\ ~works /\ Described = "bridge" ~> Reachable \/ failed
=============================================================================
