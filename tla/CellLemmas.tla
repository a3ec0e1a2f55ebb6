----------------------------- MODULE CellLemmas -----------------------------
(***************************************************************************)
(* Facts about Cell::step that hold whichever link the cell is plugged     *)
(* into, for the proofs about the cell on an arbitrary link and on each of *)
(* the two real ones.                                                      *)
(***************************************************************************)
EXTENDS Cell, TLAPS

\* The part of a segment still ahead, in the fixed point of progress, never
\* exceeds the segment.
LEMMA ShareOfSegment ==
    ASSUME NEW s \in Nat, NEW u \in Nat \ {0}, NEW p \in 0 .. u
    PROVE  s - (s * p) \div u \in 0 .. s
<1>1. s * p \in Nat /\ s * u \in Nat
  OBVIOUS
<1>2. s * p <= s * u
  OBVIOUS
<1>3. (s * p) \div u \in 0 .. s
  BY <1>1, <1>2
<1> QED BY <1>3

LEMMA NextPhaseIsAPhase ==
    ASSUME NEW p \in CyclePhases
    PROVE  /\ NextPhase[p] \in CyclePhases
           /\ TargetForPhase[NextPhase[p]] \in Waypoints
           /\ TargetForPhase[p] \in Waypoints
BY DEF CyclePhases, NextPhase, TargetForPhase, Waypoints

LEMMA CountIsBounded ==
    ASSUME NEW n \in 0 .. MaxCount
    PROVE  Count(n) \in 0 .. MaxCount
BY CellAssumption DEF Count

LEMMA CellInitTypeOK ==
    ASSUME CellInit
    PROVE  CellTypeOK
<1>1. 0 \in 0 .. Unit - 1 /\ 0 \in 0 .. MaxCount /\ 0 \in 0 .. 0
  BY CellAssumption
<1> QED
  BY <1>1 DEF CellInit, CellTypeOK

LEMMA HoldTypeOK ==
    ASSUME CellTypeOK, EnterHold
    PROVE  /\ phase' = Held
           /\ phaseBeforeHold' \in CyclePhases \cup {"idle"}
           /\ ActivePhase' = ActivePhase
           /\ wasPermitted' = FALSE
           /\ UNCHANGED motion
BY DEF CellTypeOK, EnterHold, ActivePhase, Held, CyclePhases

LEMMA ActivePhaseIsAPhase ==
    ASSUME CellTypeOK
    PROVE  ActivePhase \in CyclePhases \cup {"idle"}
BY DEF CellTypeOK, ActivePhase, Held, CyclePhases

\* Entering the next phase leaves a well-formed segment.
LEMMA AdvanceTypeOK ==
    ASSUME CellTypeOK, NEW from \in CyclePhases \cup {"idle"}, Advance(from)
    PROVE  /\ phase' \in CyclePhases
           /\ progress' \in 0 .. Unit - 1
           /\ span' \in Nat
           /\ remaining' \in 0 .. span'
           /\ cyclesCompleted' \in 0 .. MaxCount
<1>1. TargetForPhase[from] \in Waypoints
  BY NextPhaseIsAPhase DEF TargetForPhase, Waypoints
<1> DEFINE to == IF from = "idle" THEN "approach_bin" ELSE NextPhase[from]
<1>2. to \in CyclePhases /\ TargetForPhase[to] \in Waypoints
  BY NextPhaseIsAPhase DEF CyclePhases, TargetForPhase, Waypoints
<1> HIDE DEF to
<1>3. Distance[TargetForPhase[from]][TargetForPhase[to]] \in Nat
  BY <1>1, <1>2, CellAssumption
<1>4. /\ phase' = to
      /\ progress' = 0
      /\ span' = Distance[TargetForPhase[from]][TargetForPhase[to]]
      /\ remaining' = span'
      /\ cyclesCompleted' \in {cyclesCompleted, Count(cyclesCompleted)}
  BY DEF Advance, to
<1>5. cyclesCompleted \in 0 .. MaxCount
  BY DEF CellTypeOK
<1> QED
  BY <1>2, <1>3, <1>4, <1>5, CountIsBounded, CellAssumption

LEMMA SegmentSpanType ==
    ASSUME CellTypeOK
    PROVE  SegmentSpan \in Nat
BY DEF CellTypeOK, SegmentSpan

LEMMA NewProgressType ==
    ASSUME CellTypeOK
    PROVE  NewProgress \in Nat
<1>1. CASE SegmentSpan = 0
  BY <1>1, CellAssumption DEF NewProgress
<1>2. CASE SegmentSpan # 0
  <2>1. Travel * Unit \in Nat
    BY CellAssumption
  <2>2. (Travel * Unit) \div SegmentSpan \in Nat
    BY <1>2, <2>1, SegmentSpanType
  <2> QED
    BY <1>2, <2>2 DEF NewProgress, CellTypeOK
<1> QED
  BY <1>1, <1>2

\* Every step of the cell, on any view, keeps the cell's state well-formed.
LEMMA StepTypeOK ==
    ASSUME CellTypeOK, NEW view \in SafetyView, NEW at \in Nat, Step(view, at)
    PROVE  CellTypeOK'
<1>1. CASE HoldWithoutInformation(view)
  BY <1>1, HoldTypeOK, CountIsBounded
     DEF HoldWithoutInformation, CellTypeOK, motion, measurement
<1>2. CASE HoldOnStaleInformation(view, at)
  BY <1>2, HoldTypeOK, CountIsBounded
     DEF HoldOnStaleInformation, CellTypeOK, motion, measurement
<1>3. CASE HoldOnStop(view, at)
  <2>1. /\ lastStopReaction' \in Nat
        /\ hasStopMeasurement' \in BOOLEAN
        /\ lastSequence' \in Nat
    <3>1. view.observed \in Nat /\ view.asserted \in Nat /\ view.sequence \in Nat
      BY DEF SafetyView, Instant
    <3>2. MeasureStop(view)
      BY <1>3 DEF HoldOnStop
    <3>3. CASE IsFreshStop(view)
      BY <3>1, <3>2, <3>3 DEF MeasureStop
    <3>4. CASE ~IsFreshStop(view)
      BY <3>2, <3>4 DEF MeasureStop, measurement, CellTypeOK
    <3> QED
      BY <3>3, <3>4
  <2> QED
    BY <1>3, <2>1, HoldTypeOK DEF HoldOnStop, CellTypeOK, motion
<1>4. CASE RunOnPermit(view, at)
  <2>1. lastSequence' \in Nat /\ wasPermitted' \in BOOLEAN
    BY <1>4 DEF RunOnPermit, SafetyView
  <2>2. ActivePhase \in CyclePhases \cup {"idle"}
    BY ActivePhaseIsAPhase
  <2>3. /\ phase' \in CyclePhases
        /\ progress' \in 0 .. Unit - 1
        /\ span' \in Nat
        /\ remaining' \in 0 .. span'
        /\ cyclesCompleted' \in 0 .. MaxCount
    <3>1. CASE ActivePhase = "idle" \/ NewProgress >= Unit
      BY <1>4, <2>2, <3>1, AdvanceTypeOK DEF RunOnPermit
    <3>2. CASE ActivePhase # "idle" /\ ~(NewProgress >= Unit)
      <4>1. NewProgress \in 0 .. Unit - 1
        BY <3>2, NewProgressType, CellAssumption
      <4>2. SegmentSpan - (SegmentSpan * NewProgress) \div Unit \in 0 .. SegmentSpan
        BY <4>1, SegmentSpanType, ShareOfSegment, CellAssumption
      <4> QED
        BY <1>4, <2>2, <3>2, <4>1, <4>2, SegmentSpanType DEF RunOnPermit, CellTypeOK
    <3> QED
      BY <3>1, <3>2
  <2> QED
    BY <1>4, <2>1, <2>3 DEF RunOnPermit, CellTypeOK
<1> QED
  BY <1>1, <1>2, <1>3, <1>4 DEF Step

\* The only branch on which the cell commands motion needs a valid, fresh permit.
LEMMA StepMovesOnlyOnFreshPermit ==
    ASSUME CellTypeOK, NEW view \in SafetyView, NEW at \in Nat, Step(view, at),
           phase' # Held
    PROVE  view.valid /\ view.permitted /\ at <= view.published + MaxSafetyAge
<1>1. RunOnPermit(view, at)
  BY DEF Step, HoldWithoutInformation, HoldOnStaleInformation, HoldOnStop, EnterHold
<1>2. view.published \in Nat
  BY DEF SafetyView, Instant
<1> QED
  BY <1>1, <1>2, CellAssumption DEF RunOnPermit, Stale

-----------------------------------------------------------------------------
\* What each branch does to the phase the cell is in or will resume, stated once
\* for the theorems about each link.
LEMMA StepPhases ==
    ASSUME CellTypeOK, NEW view, NEW at, Step(view, at)
    PROVE  \/ /\ phase' = Held /\ ActivePhase' = ActivePhase /\ UNCHANGED motion
              /\ wasPermitted' = FALSE
           \/ /\ phase' \in CyclePhases /\ ActivePhase' = phase'
              /\ wasPermitted' = TRUE
              /\ UNCHANGED <<lastStopReaction, hasStopMeasurement>>
              /\ \/ /\ ActivePhase' = ActivePhase
                    /\ UNCHANGED cyclesCompleted
                 \/ /\ ActivePhase = "idle" /\ ActivePhase' = "approach_bin"
                    /\ UNCHANGED cyclesCompleted
                 \/ /\ ActivePhase \in CyclePhases
                    /\ ActivePhase' = NextPhase[ActivePhase]
                    /\ cyclesCompleted' # cyclesCompleted => ActivePhase = "retreat"
<1>1. CASE \/ HoldWithoutInformation(view)
           \/ HoldOnStaleInformation(view, at)
           \/ HoldOnStop(view, at)
  <2>1. EnterHold
    BY <1>1 DEF HoldWithoutInformation, HoldOnStaleInformation, HoldOnStop
  <2> QED
    BY <2>1, HoldTypeOK
<1>2. CASE RunOnPermit(view, at)
  <2>1. ActivePhase \in CyclePhases \cup {"idle"}
    BY ActivePhaseIsAPhase
  <2>2. CASE ActivePhase = "idle" \/ NewProgress >= Unit
    <3>1. Advance(ActivePhase)
      BY <1>2, <2>2 DEF RunOnPermit
    <3>2. phase' \in CyclePhases
      BY <2>1, <3>1, AdvanceTypeOK
    <3>3. ActivePhase' = phase'
      BY <3>2 DEF ActivePhase, CyclePhases, Held
    <3>4. /\ wasPermitted' = TRUE
          /\ UNCHANGED <<lastStopReaction, hasStopMeasurement>>
      BY <1>2 DEF RunOnPermit
    <3>5. phase' = IF ActivePhase = "idle" THEN "approach_bin"
                                          ELSE NextPhase[ActivePhase]
      BY <3>1 DEF Advance
    <3>6. cyclesCompleted' # cyclesCompleted => ActivePhase = "retreat"
      BY <3>1 DEF Advance
    <3>7. "idle" # "retreat"
      OBVIOUS
    <3> QED
      BY <2>1, <3>2, <3>3, <3>4, <3>5, <3>6, <3>7
  <2>3. CASE ~(ActivePhase = "idle" \/ NewProgress >= Unit)
    <3>1. phase' = ActivePhase /\ ActivePhase \in CyclePhases
      BY <1>2, <2>1, <2>3 DEF RunOnPermit
    <3>2. ActivePhase' = phase'
      BY <3>1 DEF ActivePhase, CyclePhases, Held
    <3>3. /\ wasPermitted' = TRUE
          /\ UNCHANGED <<lastStopReaction, hasStopMeasurement, cyclesCompleted>>
      BY <1>2, <2>3 DEF RunOnPermit
    <3> QED
      BY <3>1, <3>2, <3>3
  <2> QED
    BY <2>2, <2>3
<1> QED
  BY <1>1, <1>2 DEF Step

-----------------------------------------------------------------------------
(* Arithmetic of a segment: progress advances by the share of the segment    *)
(* that one period's travel is, rounded down.                                *)

LEMMA DivisionBounds ==
    ASSUME NEW n \in Nat, NEW u \in Nat \ {0}
    PROVE  /\ n \div u \in Nat
           /\ (n \div u) * u <= n
           /\ n < (n \div u + 1) * u
OBVIOUS

LEMMA QuotientBelow ==
    ASSUME NEW a \in Nat, NEW b \in Nat, NEW u \in Nat \ {0}, a < b * u
    PROVE  a \div u < b
<1>1. (a \div u) * u <= a /\ a \div u \in Nat
  BY DivisionBounds
<1>2. (a \div u) * u < b * u
  <2>1. (a \div u) * u \in Nat /\ b * u \in Nat
    BY <1>1
  <2> QED
    BY <1>1, <2>1
<1>3. ASSUME b <= a \div u PROVE FALSE
  <2>1. b * u <= (a \div u) * u
    BY <1>1, <1>3
  <2>2. (a \div u) * u \in Nat /\ b * u \in Nat
    BY <1>1
  <2> QED
    BY <1>2, <2>1, <2>2
<1> QED
  BY <1>1, <1>3

\* d units of progress on a segment of length s move the tool by at most t if
\* they are at most t's share of the segment.
LEMMA ShareMovedIsTravel ==
    ASSUME NEW s \in Nat, NEW u \in Nat \ {0}, NEW p \in Nat, NEW d \in Nat,
           NEW t \in Nat, s * d <= t * u
    PROVE  (s * (p + d)) \div u <= (s * p) \div u + t
<1> DEFINE q == (s * p) \div u
<1>1. s * p \in Nat /\ s * d \in Nat /\ t * u \in Nat /\ s * (p + d) \in Nat
  OBVIOUS
<1>2. q \in Nat /\ s * p < (q + 1) * u
  BY <1>1, DivisionBounds
<1>3. s * (p + d) = s * p + s * d
  OBVIOUS
<1>4. (q + 1) * u + t * u = (q + t + 1) * u
  BY <1>2
<1>5. s * (p + d) < (q + t + 1) * u
  <2>1. (q + 1) * u \in Nat
    BY <1>2
  <2> QED
    BY <1>1, <1>2, <1>3, <1>4, <2>1
<1>6. (s * (p + d)) \div u < q + t + 1
  <2>1. q + t + 1 \in Nat
    BY <1>2
  <2> HIDE DEF q
  <2> QED
    BY <1>1, <1>5, <2>1, QuotientBelow
<1>7. (s * (p + d)) \div u \in Nat
  BY <1>1, DivisionBounds
<1> QED
  BY <1>2, <1>6, <1>7

\* Full progress is the whole segment.
LEMMA WholeSegment ==
    ASSUME NEW s \in Nat, NEW u \in Nat \ {0}, NEW p \in Nat, u <= p
    PROVE  s <= (s * p) \div u
<1> DEFINE q == (s * p) \div u
<1>1. s * p \in Nat /\ s * u \in Nat /\ s * u <= s * p
  OBVIOUS
<1>2. q \in Nat /\ s * p < (q + 1) * u
  BY <1>1, DivisionBounds
<1>3. ASSUME q + 1 <= s PROVE FALSE
  <2> HIDE DEF q
  <2>1. (q + 1) * u <= s * u
    BY <1>2, <1>3
  <2>2. (q + 1) * u \in Nat
    BY <1>2
  <2> QED
    BY <1>1, <1>2, <2>1, <2>2
<1> QED
  BY <1>2, <1>3
=============================================================================
