--------------------------- MODULE OpenCellProofs ---------------------------
(***************************************************************************)
(* Theorems about the cell on an arbitrary link: whichever views the link  *)
(* hands to Cell::step, in whichever order, for every geometry and budget. *)
(***************************************************************************)
EXTENDS OpenCell, CellLemmas

LEMMA ViewsAreViews ==
    ASSUME NEW view \in Views
    PROVE  view \in SafetyView
<1>1. 0 .. MaxTime \subseteq Nat /\ 0 .. MaxSequence \subseteq Nat
  BY OpenCellAssumption
<1>2. CASE view = NoView
  BY <1>2 DEF NoView, SafetyView, Instant
<1>3. CASE view # NoView
  <2>1. view \in [valid : {TRUE}, permitted : BOOLEAN, asserted : 0 .. MaxTime,
                  observed : 0 .. MaxTime, published : 0 .. MaxTime,
                  sequence : 0 .. MaxSequence]
    BY <1>3 DEF Views
  <2> QED
    BY <1>1, <2>1 DEF SafetyView, Instant
<1> QED
  BY <1>2, <1>3

\* Type correctness of the cell on any link: in particular the phase saved by a
\* hold is never the hold itself, and a segment under way is never complete.
THEOREM OpenCellTypeCorrect == Spec => []TypeOK
<1>1. Init => TypeOK
  <2> SUFFICES ASSUME Init PROVE TypeOK
    OBVIOUS
  <2>1. CellTypeOK
    BY CellInitTypeOK DEF Init
  <2>2. now \in 0 .. MaxTime
    BY OpenCellAssumption DEF Init
  <2> QED
    BY <2>1, <2>2 DEF TypeOK
<1>2. TypeOK /\ [Next]_vars => TypeOK'
  <2> SUFFICES ASSUME TypeOK, [Next]_vars PROVE TypeOK'
    OBVIOUS
  <2>1. CASE Tick
    BY <2>1, OpenCellAssumption
       DEF Tick, TypeOK, CellTypeOK, cellVars, motion, measurement
  <2>2. ASSUME NEW view \in Views, StepOn(view) PROVE TypeOK'
    <3>1. view \in SafetyView /\ now \in Nat
      BY ViewsAreViews, OpenCellAssumption DEF TypeOK
    <3>2. CellTypeOK'
      BY <2>2, <3>1, StepTypeOK DEF StepOn, TypeOK
    <3> QED
      BY <2>2, <3>2 DEF StepOn, TypeOK
  <2>3. CASE UNCHANGED vars
    BY <2>3 DEF vars, TypeOK, CellTypeOK, cellVars, motion, measurement
  <2> QED
    BY <2>1, <2>2, <2>3 DEF Next
<1> QED
  BY <1>1, <1>2, PTL DEF Spec

\* The measurement is armed exactly while the cell moves, on any link.
THEOREM PermitFlag == Spec => []PermitFlagMatchesMotion
<1>1. Init => PermitFlagMatchesMotion
  BY DEF Init, CellInit, PermitFlagMatchesMotion, Moving, Held
<1>2. TypeOK /\ PermitFlagMatchesMotion /\ [Next]_vars => PermitFlagMatchesMotion'
  <2> SUFFICES ASSUME TypeOK, PermitFlagMatchesMotion, [Next]_vars
               PROVE  PermitFlagMatchesMotion'
    OBVIOUS
  <2>1. CASE Tick
    BY <2>1 DEF Tick, PermitFlagMatchesMotion, Moving, cellVars
  <2>2. ASSUME NEW view \in Views, StepOn(view) PROVE PermitFlagMatchesMotion'
    <3>1. Step(view, now)
      BY <2>2 DEF StepOn
    <3>2. \/ phase' = Held /\ wasPermitted' = FALSE
          \/ phase' \in CyclePhases /\ wasPermitted' = TRUE
      BY <3>1, StepPhases DEF TypeOK
    <3> QED
      BY <3>2 DEF PermitFlagMatchesMotion, Moving, Held, CyclePhases
  <2>3. CASE UNCHANGED vars
    BY <2>3 DEF vars, PermitFlagMatchesMotion, Moving, cellVars
  <2> QED
    BY <2>1, <2>2, <2>3 DEF Next
<1> QED
  BY <1>1, <1>2, OpenCellTypeCorrect, PTL DEF Spec

\* No sequence of interruptions makes the cycle skip, repeat or lose its place.
THEOREM CycleOrderHolds == Spec => CycleOrder
<1> DEFINE Order ==
      /\ \/ ActivePhase' = ActivePhase
         \/ ActivePhase = "idle" /\ ActivePhase' = "approach_bin"
         \/ ActivePhase \in CyclePhases /\ ActivePhase' = NextPhase[ActivePhase]
      /\ phase' = Held => UNCHANGED <<ActivePhase, motion>>
      /\ cyclesCompleted' # cyclesCompleted =>
             ActivePhase = "retreat" /\ ActivePhase' = "approach_bin"
<1>1. TypeOK /\ [Next]_vars => [Order]_vars
  <2> SUFFICES ASSUME TypeOK, Next PROVE Order
    OBVIOUS
  <2>1. CASE Tick
    BY <2>1 DEF Tick, cellVars, motion, ActivePhase
  <2>2. ASSUME NEW view \in Views, StepOn(view) PROVE Order
    <3>1. Step(view, now)
      BY <2>2 DEF StepOn
    <3>2. \/ /\ phase' = Held /\ ActivePhase' = ActivePhase /\ UNCHANGED motion
          \/ /\ phase' \in CyclePhases
             /\ \/ ActivePhase' = ActivePhase /\ UNCHANGED cyclesCompleted
                \/ /\ ActivePhase = "idle" /\ ActivePhase' = "approach_bin"
                   /\ UNCHANGED cyclesCompleted
                \/ /\ ActivePhase \in CyclePhases
                   /\ ActivePhase' = NextPhase[ActivePhase]
                   /\ cyclesCompleted' # cyclesCompleted => ActivePhase = "retreat"
      BY <3>1, StepPhases DEF TypeOK
    <3>3. Held \notin CyclePhases
      BY DEF Held, CyclePhases
    <3>4. NextPhase["retreat"] = "approach_bin"
      BY DEF NextPhase
    <3> QED
      BY <3>2, <3>3, <3>4 DEF motion
  <2> QED
    BY <2>1, <2>2 DEF Next
<1> QED
  BY <1>1, OpenCellTypeCorrect, PTL DEF Spec, CycleOrder

\* A reaction is recorded by a step that stops a moving cell and by no other.
THEOREM MeasuredOnTheEdge == Spec => MeasuredOnlyOnTheEdge
<1> DEFINE Edge ==
      <<lastStopReaction, hasStopMeasurement>>'
           # <<lastStopReaction, hasStopMeasurement>>
        => Moving /\ phase' = Held
<1>1. TypeOK /\ PermitFlagMatchesMotion /\ [Next]_vars => [Edge]_vars
  <2> SUFFICES ASSUME TypeOK, PermitFlagMatchesMotion, Next PROVE Edge
    OBVIOUS
  <2>1. CASE Tick
    BY <2>1 DEF Tick, cellVars, measurement
  <2>2. ASSUME NEW view \in Views, StepOn(view) PROVE Edge
    <3>1. Step(view, now)
      BY <2>2 DEF StepOn
    <3>2. CASE HoldWithoutInformation(view) \/ HoldOnStaleInformation(view, now)
      BY <3>2 DEF HoldWithoutInformation, HoldOnStaleInformation, measurement
    <3>3. CASE HoldOnStop(view, now)
      <4>1. phase' = Held
        BY <3>3 DEF HoldOnStop, EnterHold
      <4>2. CASE wasPermitted
        BY <4>1, <4>2 DEF PermitFlagMatchesMotion
      <4>3. CASE ~wasPermitted
        BY <3>3, <4>3 DEF HoldOnStop, MeasureStop, IsFreshStop, measurement
      <4> QED
        BY <4>2, <4>3
    <3>4. CASE RunOnPermit(view, now)
      BY <3>4 DEF RunOnPermit
    <3> QED
      BY <3>1, <3>2, <3>3, <3>4 DEF Step
  <2> QED
    BY <2>1, <2>2 DEF Next
<1> QED
  BY <1>1, OpenCellTypeCorrect, PermitFlag, PTL DEF Spec, MeasuredOnlyOnTheEdge

-----------------------------------------------------------------------------
(* The tool's speed.  Between holds, what is left of a segment is what the   *)
(* progress made on it says; the speed limit follows from that, and fails    *)
(* after a hold because the segment is measured anew and progress is not.    *)

SegmentInv == remaining = span - (span * progress) \div Unit

LEMMA NoProgressNoDistance ==
    ASSUME NEW s \in Nat
    PROVE  s - (s * 0) \div Unit = s
BY CellAssumption

LEMMA SegmentInvHolds == Spec => []SegmentInv
<1>1. Init => SegmentInv
  BY NoProgressNoDistance DEF Init, CellInit, SegmentInv
<1>2. TypeOK /\ SegmentInv /\ [Next]_vars => SegmentInv'
  <2> SUFFICES ASSUME TypeOK, SegmentInv, [Next]_vars PROVE SegmentInv'
    OBVIOUS
  <2>1. UNCHANGED motion => SegmentInv'
    BY DEF motion, SegmentInv
  <2>2. CASE Tick \/ UNCHANGED vars
    BY <2>1, <2>2 DEF Tick, vars, cellVars
  <2>3. ASSUME NEW view \in Views, StepOn(view) PROVE SegmentInv'
    <3>1. Step(view, now) /\ CellTypeOK
      BY <2>3 DEF StepOn, TypeOK
    <3>2. CASE ~RunOnPermit(view, now)
      BY <2>1, <3>1, <3>2
         DEF Step, HoldWithoutInformation, HoldOnStaleInformation, HoldOnStop, EnterHold
    <3>3. CASE RunOnPermit(view, now)
      <4>1. CASE ActivePhase = "idle" \/ NewProgress >= Unit
        <5>1. Advance(ActivePhase)
          BY <3>3, <4>1 DEF RunOnPermit
        <5>2. span' \in Nat
          BY <3>1, <5>1, ActivePhaseIsAPhase, AdvanceTypeOK
        <5>3. progress' = 0 /\ remaining' = span'
          BY <5>1 DEF Advance
        <5> QED
          BY <5>2, <5>3, NoProgressNoDistance DEF SegmentInv
      <4>2. CASE ~(ActivePhase = "idle" \/ NewProgress >= Unit)
        BY <3>3, <4>2 DEF RunOnPermit, SegmentInv
      <4> QED
        BY <4>1, <4>2
    <3> QED
      BY <3>2, <3>3
  <2> QED
    BY <2>2, <2>3 DEF Next
<1> QED
  BY <1>1, <1>2, OpenCellTypeCorrect, PTL DEF Spec

\* The progress of one step is at most one period's share of the segment.
LEMMA ProgressOfOneStep ==
    ASSUME CellTypeOK, Moving, span # 0
    PROVE  \E d \in Nat : NewProgress = progress + d /\ span * d <= Travel * Unit
<1>1. span \in Nat \ {0} /\ Travel * Unit \in Nat /\ SegmentSpan = span
  BY CellAssumption DEF CellTypeOK, SegmentSpan, Moving
<1> DEFINE d == (Travel * Unit) \div span
<1>2. d \in Nat /\ d * span <= Travel * Unit
  BY <1>1, DivisionBounds
<1>3. NewProgress = progress + d
  BY <1>1 DEF NewProgress
<1>4. span * d = d * span
  <2> HIDE DEF d
  <2> QED
    BY <1>1, <1>2
<1> HIDE DEF d
<1> QED
  BY <1>2, <1>3, <1>4

\* Between two consecutive motion steps the tool never outruns its speed, on any
\* geometry and for any travel, the step that arrives included.
THEOREM SpeedWithoutHolds == Spec => UninterruptedSpeed
<1> DEFINE Limited == Moving /\ phase' # Held => MovedAtMost(Travel)
<1>1. TypeOK /\ SegmentInv /\ SegmentInv' /\ [Next]_vars => [Limited]_vars
  <2> SUFFICES ASSUME TypeOK, SegmentInv, SegmentInv', Next, Moving, phase' # Held
               PROVE  MovedAtMost(Travel)
    OBVIOUS
  <2>1. /\ CellTypeOK /\ Travel \in Nat /\ Unit \in Nat \ {0}
        /\ remaining \in 0 .. span /\ span \in Nat /\ progress \in Nat
        /\ progress \in 0 .. Unit - 1
    BY CellAssumption DEF TypeOK, CellTypeOK
  <2>2. CASE Tick
    <3>1. ActivePhase' = ActivePhase /\ remaining' = remaining
      BY <2>2 DEF Tick, cellVars, motion, ActivePhase
    <3> QED
      BY <2>1, <3>1 DEF MovedAtMost
  <2>3. ASSUME NEW view \in Views, StepOn(view) PROVE MovedAtMost(Travel)
    <3>1. RunOnPermit(view, now)
      BY <2>3 DEF StepOn, Step, HoldWithoutInformation, HoldOnStaleInformation,
                  HoldOnStop, EnterHold
    <3>2. ActivePhase = phase /\ phase \in CyclePhases /\ SegmentSpan = span
      BY <2>1 DEF Moving, ActivePhase, SegmentSpan, CellTypeOK
    <3>3. phase # "idle"
      BY DEF Moving
    <3>4. (span * progress) \div Unit \in Nat /\ span * progress \in Nat
      BY <2>1, DivisionBounds
    <3>5. CASE NewProgress >= Unit
      <4>1. Advance(phase)
        BY <3>1, <3>2, <3>5 DEF RunOnPermit
      <4>2. phase' = NextPhase[phase] /\ NextPhase[phase] # phase
            /\ NextPhase[phase] # Held
        BY <3>2, <3>3, <4>1 DEF Advance, NextPhase, CyclePhases, Held
      <4>3. ActivePhase' # ActivePhase
        BY <3>2, <4>2 DEF ActivePhase
      <4>4. remaining <= Travel
        <5>1. CASE span = 0
          BY <2>1, <5>1
        <5>2. CASE span # 0
          <6>1. PICK d \in Nat : NewProgress = progress + d /\ span * d <= Travel * Unit
            BY <2>1, <5>2, ProgressOfOneStep
          <6>2. (span * (progress + d)) \div Unit <= (span * progress) \div Unit + Travel
            BY <2>1, <6>1, ShareMovedIsTravel
          <6>3. span <= (span * (progress + d)) \div Unit
            BY <2>1, <3>5, <6>1, WholeSegment
          <6>4. (span * (progress + d)) \div Unit \in Nat
            BY <2>1, <6>1, DivisionBounds
          <6> QED
            BY <2>1, <3>4, <6>2, <6>3, <6>4 DEF SegmentInv
        <5> QED
          BY <5>1, <5>2
      <4> QED
        BY <4>3, <4>4 DEF MovedAtMost
    <3>6. CASE ~(NewProgress >= Unit)
      <4>1. /\ phase' = phase
            /\ progress' = NewProgress /\ span' = span
        BY <3>1, <3>2, <3>3, <3>6 DEF RunOnPermit
      <4>2. ActivePhase' = ActivePhase
        BY <3>2, <4>1 DEF ActivePhase
      <4>3. span # 0
        BY <2>1, <3>2, <3>6 DEF NewProgress
      <4>4. PICK d \in Nat : NewProgress = progress + d /\ span * d <= Travel * Unit
        BY <2>1, <4>3, ProgressOfOneStep
      <4>5. (span * (progress + d)) \div Unit <= (span * progress) \div Unit + Travel
        BY <2>1, <4>4, ShareMovedIsTravel
      <4>6. (span * (progress + d)) \div Unit \in Nat
        BY <2>1, <4>4, DivisionBounds
      <4>7. /\ remaining' = span - (span * (progress + d)) \div Unit
            /\ remaining = span - (span * progress) \div Unit
        BY <4>1, <4>4 DEF SegmentInv
      <4>8. remaining - remaining' <= Travel
        BY <2>1, <3>4, <4>5, <4>6, <4>7
      <4> QED
        BY <4>2, <4>8 DEF MovedAtMost
    <3> QED
      BY <3>5, <3>6
  <2> QED
    BY <2>2, <2>3 DEF Next
<1> QED
  BY <1>1, OpenCellTypeCorrect, SegmentInvHolds, PTL DEF Spec, UninterruptedSpeed

-----------------------------------------------------------------------------
(* Getting on.  No segment is too long for one period's share of it to       *)
(* register, and a resume only shortens it.  Each permit therefore moves the *)
(* cell on within its phase or to the next, and nothing in between moves it  *)
(* back: of all that CyclesForever rests on, only the fairness is left to    *)
(* the run.                                                                  *)

SpanInv == span <= Travel * Unit

\* A step on a permit would count, whatever has happened to the segment.
EveryPermitCounts == NewProgress > progress

LEMMA SegmentsAreInReach ==
    ASSUME NEW from \in CyclePhases \cup {"idle"}, Advance(from)
    PROVE  span' <= Travel * Unit
<1> DEFINE to == IF from = "idle" THEN "approach_bin" ELSE NextPhase[from]
<1>1. TargetForPhase[from] \in Waypoints
  BY NextPhaseIsAPhase DEF TargetForPhase, Waypoints
<1>2. TargetForPhase[to] \in Waypoints
  BY NextPhaseIsAPhase DEF CyclePhases, TargetForPhase, Waypoints
<1>3. span' = Distance[TargetForPhase[from]][TargetForPhase[to]]
  BY DEF Advance
<1> HIDE DEF to
<1> QED
  BY <1>1, <1>2, <1>3, CellAssumption

LEMMA StepKeepsSegmentsInReach ==
    ASSUME CellTypeOK, SpanInv, NEW view, NEW at, Step(view, at)
    PROVE  SpanInv'
<1>1. CASE UNCHANGED motion
  BY <1>1 DEF motion, SpanInv
<1>2. CASE RunOnPermit(view, at)
  <2>1. CASE ActivePhase = "idle" \/ NewProgress >= Unit
    BY <1>2, <2>1, ActivePhaseIsAPhase, SegmentsAreInReach DEF RunOnPermit, SpanInv
  <2>2. CASE ~(ActivePhase = "idle" \/ NewProgress >= Unit)
    <3>1. span' = SegmentSpan
      BY <1>2, <2>2 DEF RunOnPermit
    <3>2. SegmentSpan <= span
      BY DEF SegmentSpan, CellTypeOK
    <3>3. SegmentSpan \in Nat /\ span \in Nat /\ Travel * Unit \in Nat
      BY SegmentSpanType, CellAssumption DEF CellTypeOK
    <3> QED
      BY <3>1, <3>2, <3>3 DEF SpanInv
  <2> QED
    BY <2>1, <2>2
<1> QED
  BY <1>1, <1>2 DEF Step, HoldWithoutInformation, HoldOnStaleInformation, HoldOnStop,
                    EnterHold

LEMMA NoSegmentIsTooLong == Spec => []SpanInv
<1>1. Init => SpanInv
  BY CellAssumption DEF Init, CellInit, SpanInv
<1>2. TypeOK /\ SpanInv /\ [Next]_vars => SpanInv'
  <2> SUFFICES ASSUME TypeOK, SpanInv, [Next]_vars PROVE SpanInv'
    OBVIOUS
  <2>1. CASE Tick \/ UNCHANGED vars
    BY <2>1 DEF Tick, vars, cellVars, motion, SpanInv
  <2>2. ASSUME NEW view \in Views, StepOn(view) PROVE SpanInv'
    BY <2>2, StepKeepsSegmentsInReach DEF StepOn, TypeOK
  <2> QED
    BY <2>1, <2>2 DEF Next
<1> QED
  BY <1>1, <1>2, OpenCellTypeCorrect, PTL DEF Spec

\* What a share of at least one adds: a segment no longer than Travel * Unit
\* takes at most Unit steps.
LEMMA PermitsCount ==
    ASSUME CellTypeOK, SpanInv
    PROVE  EveryPermitCounts
<1>1. /\ progress \in Nat /\ progress < Unit /\ Unit \in Nat
      /\ SegmentSpan \in Nat /\ Travel * Unit \in Nat
  BY SegmentSpanType, CellAssumption DEF CellTypeOK
<1>2. CASE SegmentSpan = 0
  BY <1>1, <1>2 DEF EveryPermitCounts, NewProgress
<1>3. CASE SegmentSpan # 0
  <2>1. SegmentSpan <= Travel * Unit
    BY <1>1, CellAssumption DEF SegmentSpan, SpanInv, CellTypeOK
  <2> DEFINE share == (Travel * Unit) \div SegmentSpan
  <2>2. share \in Nat /\ share >= 1
    <3> DEFINE whole == Travel * Unit
    <3>1. whole \in Nat /\ SegmentSpan \in Nat \ {0} /\ SegmentSpan <= whole
      BY <1>1, <1>3, <2>1
    <3> HIDE DEF whole
    <3>2. whole \div SegmentSpan \in Nat /\ whole \div SegmentSpan >= 1
      BY <3>1
    <3> QED
      BY <3>2 DEF whole
  <2>3. NewProgress = progress + share
    BY <1>3 DEF NewProgress
  <2> HIDE DEF share
  <2> QED
    BY <1>1, <2>2, <2>3 DEF EveryPermitCounts
<1> QED
  BY <1>2, <1>3

\* However it is interrupted, the cell never loses progress on a segment, and a
\* step on a current permit ends the phase or makes progress on it: after at most
\* Unit permits, in all, the next phase begins (cell.cpp:224-245).
THEOREM PermitsGetTheCellOn ==
    Spec => /\ []EveryPermitCounts
            /\ [][/\ ActivePhase' = ActivePhase => progress' >= progress
                  /\ (\E view \in CurrentPermits : StepOn(view))
                        => ActivePhase' # ActivePhase \/ progress' > progress]_vars
<1> DEFINE GetsOn ==
      /\ ActivePhase' = ActivePhase => progress' >= progress
      /\ (\E view \in CurrentPermits : StepOn(view))
            => ActivePhase' # ActivePhase \/ progress' > progress
<1>1. TypeOK /\ SpanInv => EveryPermitCounts
  BY PermitsCount DEF TypeOK
<1>2. TypeOK /\ EveryPermitCounts /\ [Next]_vars => [GetsOn]_vars
  <2> SUFFICES ASSUME TypeOK, EveryPermitCounts, Next PROVE GetsOn
    OBVIOUS
  <2>1. progress \in Nat /\ CellTypeOK
    BY CellAssumption DEF TypeOK, CellTypeOK
  <2>2. ASSUME NEW view \in Views, StepOn(view), RunOnPermit(view, now)
        PROVE  ActivePhase' # ActivePhase \/ progress' > progress
    <3>1. CASE ActivePhase = "idle" \/ NewProgress >= Unit
      <4>1. phase' = IF ActivePhase = "idle" THEN "approach_bin"
                                             ELSE NextPhase[ActivePhase]
        BY <2>2, <3>1 DEF RunOnPermit, Advance
      <4>2. phase' \notin {Held, ActivePhase}
        BY <2>1, <4>1, ActivePhaseIsAPhase DEF CyclePhases, NextPhase, Held
      <4> QED
        BY <4>2 DEF ActivePhase
    <3>2. CASE ~(ActivePhase = "idle" \/ NewProgress >= Unit)
      BY <2>2, <3>2 DEF RunOnPermit, EveryPermitCounts
    <3> QED
      BY <3>1, <3>2
  <2>3. ASSUME NEW view \in Views, StepOn(view), ~RunOnPermit(view, now)
        PROVE  progress' = progress
    BY <2>3 DEF StepOn, Step, HoldWithoutInformation, HoldOnStaleInformation,
                HoldOnStop, EnterHold, motion
  <2>4. ActivePhase' = ActivePhase => progress' >= progress
    <3>1. CASE Tick
      BY <2>1, <3>1 DEF Tick, cellVars, motion
    <3>2. ASSUME NEW view \in Views, StepOn(view)
          PROVE  ActivePhase' = ActivePhase => progress' >= progress
      <4>1. CASE RunOnPermit(view, now)
        <5>1. ActivePhase' # ActivePhase \/ progress' > progress
          BY <2>2, <3>2, <4>1
        <5>2. CellTypeOK'
          BY <2>1, <3>2, StepTypeOK, ViewsAreViews, OpenCellAssumption
             DEF StepOn, TypeOK
        <5>3. progress' \in Nat
          BY <5>2, CellAssumption DEF CellTypeOK
        <5> QED
          BY <2>1, <5>1, <5>3
      <4>2. CASE ~RunOnPermit(view, now)
        BY <2>1, <2>3, <3>2, <4>2
      <4> QED
        BY <4>1, <4>2
    <3> QED
      BY <3>1, <3>2 DEF Next
  <2>5. ASSUME NEW view \in CurrentPermits, StepOn(view)
        PROVE  ActivePhase' # ActivePhase \/ progress' > progress
    <3>1. view \in Views /\ view.permitted /\ view.published = now
      BY DEF CurrentPermits
    <3>2. view.valid
      <4>1. view # NoView
        BY <3>1 DEF NoView
      <4>2. view \in [valid : {TRUE}, permitted : BOOLEAN, asserted : 0 .. MaxTime,
                      observed : 0 .. MaxTime, published : 0 .. MaxTime,
                      sequence : 0 .. MaxSequence]
        BY <3>1, <4>1 DEF Views
      <4> QED
        BY <4>2
    <3>3. ~Stale(view, now)
      BY <3>1, OpenCellAssumption DEF Stale, TypeOK
    <3>4. RunOnPermit(view, now)
      BY <2>5, <3>1, <3>2, <3>3 DEF StepOn, Step, HoldWithoutInformation,
                                    HoldOnStaleInformation, HoldOnStop
    <3> QED
      BY <2>2, <2>5, <3>1, <3>4
  <2> QED
    BY <2>4, <2>5
<1> QED
  BY <1>1, <1>2, OpenCellTypeCorrect, NoSegmentIsTooLong, PTL DEF Spec
=============================================================================
