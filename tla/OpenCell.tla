------------------------------ MODULE OpenCell ------------------------------
(***************************************************************************)
(* The cell against a link that may answer anything: whatever Cell::step   *)
(* gets right here it gets right whichever link is plugged in, as the      *)
(* ScriptedLink of tests/test_cell.cpp is.                                 *)
(***************************************************************************)
EXTENDS Cell

CONSTANTS MaxTime, MaxSequence   \* bounds on what the link may answer

ASSUME OpenCellAssumption == MaxTime \in Nat /\ MaxSequence \in Nat

VARIABLE now    \* the instant the control loop samples for its next step

vars == <<cellVars, now>>

\* Any signal, read at any instant, with any publish stamp (the poll runs after
\* now was sampled, so a stamp may lie in its future).
Views ==
    {NoView} \cup [valid     : {TRUE},
                   permitted : BOOLEAN,
                   asserted  : 0 .. MaxTime,
                   observed  : 0 .. MaxTime,
                   published : 0 .. MaxTime,
                   sequence  : 0 .. MaxSequence]

TypeOK ==
    /\ CellTypeOK
    /\ now \in 0 .. MaxTime

Init == CellInit /\ now = 0

StepOn(view) ==
    /\ Step(view, now)
    /\ UNCHANGED now

Tick ==
    /\ now < MaxTime
    /\ now' = now + 1
    /\ UNCHANGED cellVars

Next == Tick \/ \E view \in Views : StepOn(view)

Spec == Init /\ [][Next]_vars

\* The control loop keeps stepping the cell, and the link again and again
\* answers with a permit published at the very instant of the step.
CurrentPermits ==
    {v \in Views : v.permitted /\ v.published = now}

FairSpec == Spec /\ SF_vars(\E view \in CurrentPermits : StepOn(view))

-----------------------------------------------------------------------------
\* The flag that arms the reaction measurement says exactly that the latest
\* step commanded motion; a hold on any branch disarms it (cell.cpp was_permitted_).
PermitFlagMatchesMotion == wasPermitted = Moving

\* However often the cell is interrupted, its cycle neither skips nor repeats a
\* phase, a hold leaves tool and phase where they were, and only completing the
\* retreat counts a cycle.
CycleOrder ==
    [][/\ \/ ActivePhase' = ActivePhase
          \/ ActivePhase = "idle" /\ ActivePhase' = "approach_bin"
          \/ ActivePhase \in CyclePhases /\ ActivePhase' = NextPhase[ActivePhase]
       /\ phase' = Held => UNCHANGED <<ActivePhase, motion>>
       /\ cyclesCompleted' # cyclesCompleted =>
              ActivePhase = "retreat" /\ ActivePhase' = "approach_bin"]_vars

\* A reaction is recorded only by the step that takes a moving cell to held: it
\* is never re-measured while held, after stale or missing information, or by a
\* cell that had not resumed since (cell.cpp:201-204).
MeasuredOnlyOnTheEdge ==
    [][<<lastStopReaction, hasStopMeasurement>>'
            # <<lastStopReaction, hasStopMeasurement>>
         => Moving /\ phase' = Held]_vars

\* How far a step moved the tool: what was left of the segment, less what is left
\* of it now, or all of it if the step completed the segment.
MovedAtMost(length) ==
    IF ActivePhase' = ActivePhase THEN remaining - remaining' <= length
                                  ELSE remaining <= length

\* Between two consecutive motion steps the tool never goes further than the
\* configured speed allows in one period, the arriving step included.
UninterruptedSpeed == [][Moving /\ phase' # Held => MovedAtMost(Travel)]_vars

\* The same claim across a hold: the tool keeps to the "Cartesian speed of the
\* tool during a transfer" (cell.hpp:47) in the first step after a resume too.
SpeedAcrossHold == [][MovedAtMost(Travel)]_vars

\* As long as current permits keep coming, interruptions of every kind between
\* them never wedge the cycle: the cell starts new cycles for ever.
CyclesForever == []<>(ActivePhase = "retreat") /\ []<>(ActivePhase = "lift")
=============================================================================
