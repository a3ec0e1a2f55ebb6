-------------------------------- MODULE Cell --------------------------------
(***************************************************************************)
(* The pick-and-place cell: one action, Step, for Cell::step, taken with   *)
(* the view the link's poll returned and the instant the control loop      *)
(* sampled.  Its four disjuncts are the four ways through the function.    *)
(*                                                                         *)
(* Geometry is reduced to distances.  Cell::step moves the tool along a    *)
(* straight line from segment_start_ to the phase's target, so the segment *)
(* is its length (span) and the tool is the distance it still has to go    *)
(* (remaining).  progress_ is a fraction in units of 1/Unit; divisions     *)
(* round down.  Counters saturate at MaxCount.                             *)
(***************************************************************************)
EXTENDS SafetyLink

CONSTANTS
    MaxSafetyAge,   \* config_.max_safety_age_ns, in ticks
    Travel,         \* transfer_speed_mps * period_s: distance per step
    Distance,       \* Distance[a][b]: length of the segment from a to b
    Unit,           \* the value of progress that stands for 1.0
    MaxCount        \* the value at which the counters saturate

Waypoints == {"home", "above_bin", "bin", "above_fixture", "fixture"}

ASSUME CellAssumption ==
    /\ MaxSafetyAge \in Nat
    /\ Travel \in Nat \ {0}
    /\ Distance \in [Waypoints -> [Waypoints -> Nat]]
    /\ \A w \in Waypoints : Distance[w][w] = 0
    /\ Unit \in Nat \ {0}
    /\ \A v, w \in Waypoints : Distance[v][w] <= Travel * Unit
    /\ MaxCount \in Nat

VARIABLES
    phase,                \* phase_
    phaseBeforeHold,      \* phase_before_hold_
    progress,             \* progress_, in units of 1/Unit
    span,                 \* distance from segment_start_ to the target
    remaining,            \* distance from the tool to the target
    cyclesCompleted,      \* cycles_completed_
    cyclesWithoutSafety,  \* cycles_without_safety_
    cyclesOnStaleSafety,  \* cycles_on_stale_safety_
    lastStopReaction,     \* last_stop_reaction_ns_
    hasStopMeasurement,   \* has_stop_measurement_
    wasPermitted,         \* was_permitted_
    lastSequence          \* last_sequence_

motion == <<progress, span, remaining, cyclesCompleted>>
measurement == <<lastStopReaction, hasStopMeasurement, lastSequence>>
cellVars == <<phase, phaseBeforeHold, motion, cyclesWithoutSafety,
              cyclesOnStaleSafety, measurement, wasPermitted>>

-----------------------------------------------------------------------------
\* kOrder, as the phase that follows each phase of the cycle.
NextPhase ==
    [approach_bin        |-> "descend_to_part",
     descend_to_part     |-> "grasp",
     grasp               |-> "lift",
     lift                |-> "transfer_to_fixture",
     transfer_to_fixture |-> "place",
     place               |-> "retreat",
     retreat             |-> "approach_bin"]

CyclePhases == {"approach_bin", "descend_to_part", "grasp", "lift",
                "transfer_to_fixture", "place", "retreat"}

Held == "held_by_safety"

TargetForPhase ==
    [idle                |-> "home",
     approach_bin        |-> "above_bin",
     descend_to_part     |-> "bin",
     grasp               |-> "bin",
     lift                |-> "above_bin",
     transfer_to_fixture |-> "above_fixture",
     place               |-> "fixture",
     retreat             |-> "above_fixture"]

Count(n) == IF n < MaxCount THEN n + 1 ELSE n

CellTypeOK ==
    /\ phase \in CyclePhases \cup {"idle", Held}
    /\ phaseBeforeHold \in CyclePhases \cup {"idle"}
    /\ progress \in 0 .. Unit - 1
    /\ span \in Nat
    /\ remaining \in 0 .. span
    /\ cyclesCompleted \in 0 .. MaxCount
    /\ cyclesWithoutSafety \in 0 .. MaxCount
    /\ cyclesOnStaleSafety \in 0 .. MaxCount
    /\ lastStopReaction \in Nat
    /\ hasStopMeasurement \in BOOLEAN
    /\ wasPermitted \in BOOLEAN
    /\ lastSequence \in Nat

CellInit ==
    /\ phase = "idle"
    /\ phaseBeforeHold = "idle"
    /\ progress = 0
    /\ span = 0
    /\ remaining = 0
    /\ cyclesCompleted = 0
    /\ cyclesWithoutSafety = 0
    /\ cyclesOnStaleSafety = 0
    /\ lastStopReaction = 0
    /\ hasStopMeasurement = FALSE
    /\ wasPermitted = FALSE
    /\ lastSequence = 0

-----------------------------------------------------------------------------
\* The phase the cell is in, or will resume.
ActivePhase == IF phase = Held THEN phaseBeforeHold ELSE phase

\* Mutants: the phase is saved again while held; the hold leaves the edge armed.
EnterHoldSavingAgain ==
    /\ phase' = Held
    /\ phaseBeforeHold' = phase
    /\ wasPermitted' = FALSE
    /\ UNCHANGED motion

EnterHoldStillArmed ==
    /\ phase' = Held
    /\ phaseBeforeHold' = ActivePhase
    /\ UNCHANGED <<motion, wasPermitted>>

\* Every branch that refuses to move ends the same way.
EnterHold ==
    /\ phase' = Held
    /\ phaseBeforeHold' = ActivePhase
    /\ wasPermitted' = FALSE
    /\ UNCHANGED motion

HoldWithoutInformation(view) ==
    /\ ~view.valid
    /\ cyclesWithoutSafety' = Count(cyclesWithoutSafety)
    /\ EnterHold
    /\ UNCHANGED <<cyclesOnStaleSafety, measurement>>

\* Mutant: a budget a tick too generous.
StaleTooLate(view, at) ==
    at > view.published /\ at - view.published > MaxSafetyAge + 1

Stale(view, at) ==
    /\ at > view.published
    /\ at - view.published > MaxSafetyAge

HoldOnStaleInformation(view, at) ==
    /\ view.valid
    /\ Stale(view, at)
    /\ cyclesOnStaleSafety' = Count(cyclesOnStaleSafety)
    /\ EnterHold
    /\ UNCHANGED <<cyclesWithoutSafety, measurement>>

\* Mutant: every new sequence number is measured, whether or not the cell ran.
IsFreshStopAnyTime(view) == view.sequence # lastSequence

\* Only the edge from permitted to not permitted is measured.
IsFreshStop(view) == wasPermitted /\ view.sequence # lastSequence

MeasureStop(view) ==
    IF IsFreshStop(view)
      THEN /\ lastStopReaction' = IF view.observed > view.asserted
                                    THEN view.observed - view.asserted
                                    ELSE 0
           /\ hasStopMeasurement' = TRUE
           /\ lastSequence' = view.sequence
      ELSE UNCHANGED measurement

HoldOnStop(view, at) ==
    /\ view.valid
    /\ ~Stale(view, at)
    /\ ~view.permitted
    /\ MeasureStop(view)
    /\ EnterHold
    /\ UNCHANGED <<cyclesWithoutSafety, cyclesOnStaleSafety>>

-----------------------------------------------------------------------------
\* Mutant: the cycle is counted when its last phase begins.
AdvanceCountingEarly(from) ==
    LET to == IF from = "idle" THEN "approach_bin" ELSE NextPhase[from]
    IN  /\ phase' = to
        /\ progress' = 0
        /\ span' = Distance[TargetForPhase[from]][TargetForPhase[to]]
        /\ remaining' = span'
        /\ cyclesCompleted' = IF to = "retreat" THEN Count(cyclesCompleted)
                                                ELSE cyclesCompleted

\* Cell::advance, from a tool that stands at the target of the phase left.
Advance(from) ==
    LET to == IF from = "idle" THEN "approach_bin" ELSE NextPhase[from]
    IN  /\ phase' = to
        /\ progress' = 0
        /\ span' = Distance[TargetForPhase[from]][TargetForPhase[to]]
        /\ remaining' = span'
        /\ cyclesCompleted' = IF from = "retreat" THEN Count(cyclesCompleted)
                                                  ELSE cyclesCompleted

\* The segment's length as this step sees it: a resume restarts it at the tool.
SegmentSpan == IF phase = Held THEN remaining ELSE span

\* Mutants: progress over what is left instead of over the segment; no special
\* case for a segment of no length.
NewProgressOverRemaining ==
    IF remaining = 0 THEN Unit
                     ELSE progress + (Travel * Unit) \div remaining
NewProgressNeverAtOnce ==
    IF SegmentSpan = 0 THEN progress
                       ELSE progress + (Travel * Unit) \div SegmentSpan

\* progress_ after this step; a segment of no length is complete at once.
NewProgress ==
    IF SegmentSpan = 0 THEN Unit
                       ELSE progress + (Travel * Unit) \div SegmentSpan

RunOnPermit(view, at) ==
    /\ view.valid
    /\ ~Stale(view, at)
    /\ view.permitted
    /\ wasPermitted' = TRUE
    /\ lastSequence' = view.sequence
    /\ IF ActivePhase = "idle" \/ NewProgress >= Unit
         THEN Advance(ActivePhase)
         ELSE /\ phase' = ActivePhase
              /\ progress' = NewProgress
              /\ span' = SegmentSpan
              /\ remaining' = SegmentSpan - (SegmentSpan * NewProgress) \div Unit
              /\ UNCHANGED cyclesCompleted
    /\ UNCHANGED <<phaseBeforeHold, cyclesWithoutSafety, cyclesOnStaleSafety,
                   lastStopReaction, hasStopMeasurement>>

Step(view, at) ==
    \/ HoldWithoutInformation(view)
    \/ HoldOnStaleInformation(view, at)
    \/ HoldOnStop(view, at)
    \/ RunOnPermit(view, at)

-----------------------------------------------------------------------------
\* The cell commanded motion in its latest step (or has not stepped yet).
Moving == phase \notin {Held, "idle"}
=============================================================================
