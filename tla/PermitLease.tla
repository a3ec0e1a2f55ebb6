---------------------------- MODULE PermitLease -----------------------------
(***************************************************************************)
(* What a cell driven through any safety link should promise: "a permit is *)
(* a statement about a moment, not a standing grant".  The cell may move   *)
(* in a step that began at instant t only if the runtime it listens to     *)
(* still had a permit in force at some instant within Lease before t.      *)
(***************************************************************************)
EXTENDS Naturals

CONSTANT Lease     \* ticks, a natural: how long a permit outlives its last instant

VARIABLES
    now,           \* the machine's monotonic clock
    lastInForce,   \* the latest instant a permit was in force
    movedAt        \* the instant at which the latest step that moved began

vars == <<now, lastInForce, movedAt>>

Init ==
    /\ now \in Nat
    /\ lastInForce = 0
    /\ movedAt = 0

\* Time passes, and the runtime grants, renews or withdraws its permit.
Elapse ==
    /\ now' \in Nat
    /\ now' >= now
    /\ lastInForce' \in lastInForce .. now'
    /\ UNCHANGED movedAt

Move ==
    /\ movedAt' \in movedAt .. now
    /\ movedAt' <= lastInForce + Lease
    /\ UNCHANGED <<now, lastInForce>>

Next == Elapse \/ Move

Spec == Init /\ [][Next]_vars

TypeOK == now \in Nat /\ lastInForce \in Nat /\ movedAt \in Nat

\* No motion began later than one lease after a permit was last in force.
MotionWithinLease == movedAt <= lastInForce + Lease
=============================================================================
