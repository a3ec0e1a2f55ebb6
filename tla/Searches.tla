------------------------------ MODULE Searches ------------------------------
(***************************************************************************)
(* The numerical searches behind the stop calculation, on a grid of points *)
(* 0 .. Top: permittedSpeed (speeds), residualTravelBelow (instants of the *)
(* braking profile), brakingPhases (the same instants, a coarse scan with  *)
(* a bisection inside) and the rows of referenceTraceCsv (those instants   *)
(* again).  One behaviour runs one of them.                                *)
(*                                                                         *)
(* Each bisection halves low .. high a fixed number of times.  The grid is *)
(* the resolution at which a double stops halving: a middle that lies      *)
(* between two points is rounded to either, since a middle that cannot be  *)
(* represented is.  The braking profile is external (motionkit): any curve *)
(* of the right shape.                                                     *)
(***************************************************************************)
EXTENDS Integers, Sequences

CONSTANTS
    Top,         \* the last point: limits.max_velocity, or stop.duration()
    StepLengths, \* points from one scan step to the next, in one of the stops
    TracePoints, \* points from one row of the trace to the next: kStep
    Rounds,      \* iterations of a bisection
    MaxValue,    \* bound on the values of a curve
    MaxReaction  \* bound on the reaction time

ASSUME SearchAssumption ==
    /\ Top \in Nat \ {0}
    /\ StepLengths \subseteq 1 .. Top
    /\ TracePoints \in Nat \ {0}
    /\ Rounds \in Nat
    /\ MaxValue \in Nat \ {0}
    /\ MaxReaction \in Nat

Points == 0 .. Top
Values == 0 .. MaxValue

VARIABLES
    task,          \* which of the four functions runs
    curve,         \* total_m by speed; |velocity| or jerk by instant
    goal,          \* available_m, threshold_mps, current_jerk or stop.duration()
    step,          \* step: the duration over kScanSteps, as rounded
    scanSteps,     \* kScanSteps
    pc,            \* "start", "scan", "search" or "done"
    low, high,     \* the bracket
    round,         \* iterations done
    scan,          \* i of the scan
    phaseStart,    \* segment_start
    phases,        \* the phases pushed, without their entry velocities
    answer,        \* what the function returns (residual travel: up to where)
    rows           \* the rows of the trace, without accelerations and jerks

\* What the function called is given, and never changes.
call == <<task, curve, step, scanSteps>>
vars == <<call, goal, pc, low, high, round, scan, phaseStart, phases, answer, rows>>

Tasks == {"permittedSpeed", "residualTravel", "brakingPhases", "referenceTrace"}
Row == [at : Points, velocity : Nat]
Phase == [from : Points, until : Points, jerk : Nat]

TypeOK ==
    /\ task \in Tasks
    /\ curve \in [Points -> Nat]
    /\ goal \in Nat
    /\ step \in Nat
    /\ scanSteps \in Nat
    /\ pc \in {"start", "scan", "search", "done"}
    /\ low \in Points
    /\ high \in Points
    /\ round \in 0 .. Rounds
    /\ scan \in Nat
    /\ phaseStart \in Points
    /\ phases \in Seq(Phase)
    /\ answer \in Points
    /\ rows \in Seq(Row)

-----------------------------------------------------------------------------
Rising(c) == \A x \in 1 .. Top : c[x - 1] <= c[x]
Falling(c) == \A x \in 1 .. Top : c[x - 1] >= c[x]

\* More than any room: what totalAt answers for a speed that cannot be planned.
Infinity == MaxValue + MaxReaction * Top + 1

\* stoppingDistance: the travel while reacting, and the braking distance unless
\* the profile cannot be planned (beyond some speed, here).
Totals ==
    {[speed \in Points |-> IF speed > plannable THEN Infinity
                           ELSE speed * reaction + braking[speed]] :
        reaction \in 0 .. MaxReaction,
        plannable \in Points,
        braking \in {b \in [Points -> Values] : b[0] = 0 /\ Rising(b)}}

\* Speeds along a stop from below which the threshold has yet to be crossed.
Decelerations == {v \in [Points -> Values] : Falling(v) /\ v[Top] = 0}

\* The step is the duration divided by kScanSteps and rounded, so that as many steps
\* end on the end of the stop, short of it or beyond it, by less than a step.
StepsTaken(length) ==
    {k \in 1 .. Top : (k - 1) * length < Top /\ Top < (k + 1) * length}

Init ==
    /\ \/ /\ task = "permittedSpeed"
          /\ curve \in Totals
          /\ goal \in 0 .. MaxValue + MaxReaction * Top
       \/ /\ task = "residualTravel"
          /\ curve \in Decelerations
          /\ goal \in {threshold \in Values : threshold < curve[0]}
       \/ /\ task = "brakingPhases"
          /\ curve \in [Points -> Values]
          /\ goal = curve[0]
       \/ /\ task = "referenceTrace"
          /\ curve \in Decelerations
          /\ goal \in {t \in Points : curve[t] = 0 /\ \A s \in 0 .. t - 1 : curve[s] > 0}
    /\ IF task = "brakingPhases"
         THEN step \in StepLengths /\ scanSteps \in StepsTaken(step)
         ELSE step = 0 /\ scanSteps = 0
    /\ pc = "start"
    /\ low = 0
    /\ high = Top
    /\ round = 0
    /\ scan = 1
    /\ phaseStart = 0
    /\ phases = <<>>
    /\ answer = 0
    /\ rows = <<>>

-----------------------------------------------------------------------------
Search(from, to) == pc' = "search" /\ low' = from /\ high' = to /\ round' = 0

Answer(x) == pc' = "done" /\ answer' = x

\* No room permits no speed; room enough at the ceiling permits the ceiling.
PermittedSpeed ==
    /\ pc = "start" /\ task = "permittedSpeed"
    /\ \/ goal = 0 /\ Answer(0) /\ UNCHANGED <<low, high, round>>
       \/ goal > 0 /\ curve[Top] <= goal /\ Answer(Top)
            /\ UNCHANGED <<low, high, round>>
       \/ goal > 0 /\ curve[Top] > goal /\ Search(0, Top) /\ UNCHANGED answer
    /\ UNCHANGED <<call, goal, scan, phaseStart, phases, rows>>

ResidualTravel ==
    /\ pc = "start" /\ task = "residualTravel"
    /\ Search(0, Top)
    /\ UNCHANGED <<call, goal, scan, phaseStart, phases, answer, rows>>

BrakingPhases ==
    /\ pc = "start" /\ task = "brakingPhases"
    /\ pc' = "scan"
    /\ UNCHANGED <<call, goal, low, high, round, scan, phaseStart,
                   phases, answer, rows>>

\* Mutant: the instant at which the speed is at the threshold is passed.
GoesOnAtThreshold(x) ==
    IF task = "permittedSpeed" THEN curve[x] <= goal
    ELSE IF task = "residualTravel" THEN curve[x] >= goal
    ELSE curve[x] = goal

\* The crossing searched for lies beyond x, so the low end moves up to it.
GoesOn(x) ==
    IF task = "permittedSpeed" THEN curve[x] <= goal
    ELSE IF task = "residualTravel" THEN curve[x] > goal
    ELSE curve[x] = goal

\* Mutant: the ends the wrong way round.
HalveSwapped(middle) ==
    IF GoesOn(middle) THEN high' = middle /\ UNCHANGED low
                      ELSE low' = middle /\ UNCHANGED high

HalveAt(middle) ==
    IF GoesOn(middle) THEN low' = middle /\ UNCHANGED high
                      ELSE high' = middle /\ UNCHANGED low

\* Mutant: one iteration too many.
HalveOnceMore ==
    /\ pc = "search"
    /\ round <= Rounds
    /\ HalveAt((low + high) \div 2) \/ HalveAt((low + high + 1) \div 2)
    /\ round' = round + 1
    /\ UNCHANGED <<call, goal, pc, scan, phaseStart, phases, answer, rows>>

Halve ==
    /\ pc = "search"
    /\ round < Rounds
    /\ HalveAt((low + high) \div 2) \/ HalveAt((low + high + 1) \div 2)
    /\ round' = round + 1
    /\ UNCHANGED <<call, goal, pc, scan, phaseStart, phases, answer, rows>>

\* Mutants: half an ulp past the guard; the last instant before the change.
EndOfBracketHigh == high
EndOfBracketLow == low

\* The low end is the speed that fits; the high end is the first instant past.
EndOfBracket == IF task = "permittedSpeed" THEN low ELSE high

Return ==
    /\ pc = "search" /\ task # "brakingPhases"
    /\ round = Rounds
    /\ Answer(EndOfBracket)
    /\ UNCHANGED <<call, goal, low, high, round, scan, phaseStart, phases, rows>>

\* The scan looks at the curve at the end of every step and searches a step whose
\* ends differ.
ScanStep ==
    /\ pc = "scan"
    /\ scan <= scanSteps
    /\ scan * step < Top
    /\ IF curve[scan * step] = goal
         THEN scan' = scan + 1 /\ UNCHANGED <<pc, low, high, round>>
         ELSE /\ Search((scan - 1) * step, scan * step)
              /\ UNCHANGED scan
    /\ UNCHANGED <<call, goal, phaseStart, phases, answer, rows>>

\* Mutant: a phase begins at the step in which the one before it ended.
PushFromStep(boundary) ==
    phases' = Append(phases, [from |-> low, until |-> boundary, jerk |-> goal])

Push(boundary) ==
    phases' = Append(phases, [from |-> phaseStart, until |-> boundary, jerk |-> goal])

\* A change was pinned: the phase up to it is complete, the next one begins.
PushPhase ==
    /\ pc = "search" /\ task = "brakingPhases"
    /\ round = Rounds
    /\ Push(EndOfBracket)
    /\ phaseStart' = EndOfBracket
    /\ goal' = curve[EndOfBracket]
    /\ scan' = scan + 1
    /\ pc' = "scan"
    /\ UNCHANGED <<call, low, high, round, answer, rows>>

\* A step that reaches the end of the stop, or would pass it, ends the last phase
\* there, whatever the curve does.
PushLastPhase ==
    /\ pc = "scan"
    /\ scan <= scanSteps
    /\ scan * step >= Top
    /\ Push(Top)
    /\ pc' = "done"
    /\ UNCHANGED <<call, goal, low, high, round, scan, phaseStart, answer, rows>>

\* The last step fell short of the end: nothing ends the phase under way.
ScanRunsOut ==
    /\ pc = "scan"
    /\ scan > scanSteps
    /\ pc' = "done"
    /\ UNCHANGED <<call, goal, low, high, round, scan,
                   phaseStart, phases, answer, rows>>

-----------------------------------------------------------------------------
(* referenceTraceCsv. *)

\* lround: a half is rounded up.
Steps(duration) == (2 * duration + TracePoints) \div (2 * TracePoints)

\* The row of step i; the last step may lie beyond the end.
SampleRow(i, duration) ==
    LET t == IF i * TracePoints < duration THEN i * TracePoints ELSE duration
    IN  [at |-> t, velocity |-> curve[t]]

SampleRows(duration) == [k \in 1 .. Steps(duration) + 1 |-> SampleRow(k - 1, duration)]

\* Mutant: no row for an end that no step hits.
EndRowNever(duration) == <<>>

\* The end is added, at rest, unless the last step is the end.
EndRow(duration) ==
    IF Steps(duration) * TracePoints = duration
      THEN <<>> ELSE <<[at |-> duration, velocity |-> 0]>>

ReferenceTrace ==
    /\ pc = "start" /\ task = "referenceTrace"
    /\ rows' = SampleRows(goal) \o EndRow(goal)
    /\ pc' = "done"
    /\ UNCHANGED <<call, goal, low, high, round, scan, phaseStart, phases, answer>>

-----------------------------------------------------------------------------
Next ==
    \/ PermittedSpeed \/ ResidualTravel \/ BrakingPhases \/ ReferenceTrace
    \/ Halve \/ Return \/ ScanStep \/ PushPhase \/ PushLastPhase
    \/ ScanRunsOut

Spec == Init /\ [][Next]_vars

-----------------------------------------------------------------------------
\* "The interval always brackets the root" (safety_distance.cpp:84): a speed that
\* fits and one that does not; an instant above the threshold and one not.  In the
\* scan the high end always has another jerk than the phase searched.
Bracket ==
    pc = "search" =>
        /\ low <= high
        /\ task = "permittedSpeed" => curve[low] <= goal /\ goal < curve[high]
        /\ task = "residualTravel" => curve[high] <= goal /\ goal < curve[low]
        /\ task = "brakingPhases" => curve[high] # goal

\* "The answer is a speed that fits rather than one that is half an ulp past the
\* guard" (safety_distance.cpp:99-100), and no higher speed fits; no room permits
\* no speed, even where the curve is flat at 0.
HighestSpeedThatFits ==
    pc = "done" /\ task = "permittedSpeed" =>
        /\ curve[answer] <= goal
        /\ IF goal = 0 THEN answer = 0
                       ELSE \A x \in Points : curve[x] <= goal => x <= answer

\* "The first instant the speed is at or below the threshold"
\* (validation_package.cpp:144).
FirstInstantBelow ==
    pc = "done" /\ task = "residualTravel" =>
        /\ curve[answer] <= goal
        /\ \A t \in Points : curve[t] <= goal => t >= answer

\* The instants at which the jerk of the curve changes, the end of the stop
\* included (the jerk at that end itself is never looked at).
Changes == {t \in 1 .. Top - 1 : curve[t] # curve[t - 1]} \cup {Top}

\* Every phase spans at least one scan step.
Resolvable ==
    \A s \in {0} \cup Changes, t \in Changes : s < t => s + step <= t

\* The last of the kScanSteps steps ends on the end of the stop or beyond it.
ScanReachesTheEnd == scanSteps * step >= Top

\* "Finding each instant the commanded jerk changes", assuming nothing about how
\* many there are (validation_package.cpp:92-94): the phases are the maximal runs
\* of the curve, each with its jerk, whenever no run is shorter than a scan step;
\* a scan that falls short of the end finds every change but leaves out the run
\* after the last.
PhasesAreTheRuns ==
    pc = "done" /\ task = "brakingPhases" /\ Resolvable =>
        /\ {phases[i].until : i \in DOMAIN phases} =
               IF ScanReachesTheEnd THEN Changes ELSE Changes \ {Top}
        /\ \A i \in DOMAIN phases :
             \A t \in phases[i].from .. phases[i].until - 1 : curve[t] = phases[i].jerk

\* The phases tile the stop whatever its jerk does: each begins where the one
\* before it ended, and together they last as long as the stop exactly when the
\* steps of the scan, as rounded, reach its end (validation_package.cpp:99,106-108).
PhasesTileTheStop ==
    /\ \A i \in DOMAIN phases :
         /\ phases[i].from = IF i = 1 THEN 0 ELSE phases[i - 1].until
         /\ phases[i].from < phases[i].until
    /\ pc = "done" /\ task = "brakingPhases" =>
         (ScanReachesTheEnd <=> phases # <<>> /\ phases[Len(phases)].until = Top)

\* The trace is "one solution" of the commanded law from the start of braking to
\* rest (validation_package.cpp:609-622): it begins at 0 and ends, at rest, with the
\* stop, whether its duration is a whole number of steps or not and whichever way
\* that number was rounded; in between it never goes back, leaves out no more than a
\* step, and is at rest nowhere but at the end.
TraceSpansTheStop ==
    pc = "done" /\ task = "referenceTrace" =>
        /\ rows # <<>>
        /\ rows[1].at = 0
        /\ rows[Len(rows)].at = goal
        /\ \A i \in DOMAIN rows : rows[i].velocity = 0 <=> rows[i].at = goal
        /\ \A i \in 1 .. Len(rows) - 1 :
             rows[i + 1].at - rows[i].at \in 0 .. TracePoints
=============================================================================
