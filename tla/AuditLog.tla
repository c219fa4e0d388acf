------------------------------ MODULE AuditLog ------------------------------
(***************************************************************************)
(* What the audit trail promises: an event that was issued is written      *)
(* once.  A fault may write it once more or not at all; events that wait    *)
(* and no fault touches are neither lost nor repeated.                     *)
(***************************************************************************)
EXTENDS Naturals, FiniteSets

CONSTANTS
    Events

VARIABLES
    issued,  \* the events handed to the audit trail
    waiting, \* how many copies of each event are still to be written
    rows,    \* how many times each event was written
    faults   \* calls and processes that have failed

auditVars == <<issued, waiting, rows, faults>>

Init ==
    /\ issued = {}
    /\ waiting = [v \in Events |-> 0]
    /\ rows = [v \in Events |-> 0]
    /\ faults = 0

Issue(v) ==
    /\ v \notin issued
    /\ issued' = issued \cup {v}
    /\ waiting' = [waiting EXCEPT ![v] = 1]
    /\ UNCHANGED <<rows, faults>>

\* A call fails while the event is handed over: two copies of it may be under way.
IssueInDoubt(v) ==
    /\ v \notin issued
    /\ issued' = issued \cup {v}
    /\ faults' = faults + 1
    /\ \E n \in 1..2 : waiting' = [waiting EXCEPT ![v] = n]
    /\ UNCHANGED rows

Write(v) ==
    /\ waiting[v] > 0
    /\ waiting' = [waiting EXCEPT ![v] = @ - 1]
    /\ rows' = [rows EXCEPT ![v] = @ + 1]
    /\ UNCHANGED <<issued, faults>>

\* A fault takes copies away and adds none.
Lose ==
    /\ faults' = faults + 1
    /\ \A v \in Events : waiting'[v] <= waiting[v]
    /\ waiting' \in [Events -> 0..2]
    /\ UNCHANGED <<issued, rows>>

Next ==
    \/ \E v \in Events : Issue(v) \/ IssueInDoubt(v) \/ Write(v)
    \/ Lose

Spec == Init /\ [][Next]_auditVars

=============================================================================
