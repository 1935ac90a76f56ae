----------------------------- MODULE Projection -----------------------------
(***************************************************************************)
(* What the rules API promises about the kernel, without rows, networks,   *)
(* transactions or processes: the addresses that are blocked follow the    *)
(* addresses that are wanted, in whole projections.  While nothing is in   *)
(* progress and nothing has gone wrong the two are equal; what is blocked  *)
(* and wanted stays blocked unless a fault takes it away.                  *)
(***************************************************************************)
EXTENDS Integers

CONSTANTS Addr, MaxFaults

VARIABLES
    wanted,     \* addresses the rules ask to block
    blocked,    \* addresses the kernel drops
    settled,    \* nothing in progress, nothing unrepaired
    faults      \* failures and outside interference so far

vars == <<wanted, blocked, settled, faults>>

Init ==
    wanted = {} /\ blocked = {} /\ settled = FALSE /\ faults = 0

\* Somebody changes the rules; the kernel has to follow.
Change ==
    /\ wanted' \in SUBSET Addr /\ settled' = FALSE
    /\ UNCHANGED <<blocked, faults>>

\* The kernel follows, in one step.
Project ==
    /\ blocked' = wanted /\ settled' = TRUE
    /\ UNCHANGED <<wanted, faults>>

\* A projection computed before somebody interfered, applied after it: it may
\* leave or bring back too little or too much, never opens what is wanted.
LatePatch ==
    /\ ~settled /\ settled' = FALSE
    /\ blocked' \in SUBSET (blocked \cup wanted)
    /\ blocked \cap wanted \subseteq blocked'
    /\ UNCHANGED <<wanted, faults>>

\* A fault may change what is blocked and leaves the two unsettled.
Fault ==
    /\ faults < MaxFaults /\ faults' = faults + 1
    /\ blocked' \in SUBSET Addr /\ settled' = FALSE
    /\ UNCHANGED wanted

Next == Change \/ Project \/ LatePatch \/ Fault

Spec == Init /\ [][Next]_vars
=============================================================================
