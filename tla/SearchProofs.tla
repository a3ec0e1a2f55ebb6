---------------------------- MODULE SearchProofs ----------------------------
(* What the searches keep true on every grid and for every curve.            *)
EXTENDS Searches, FiniteSetTheorems, WellFoundedInduction, TLAPS

USE DEF call

LEMMA ProductIsNatural == \A m, n \in Nat : m * n \in Nat
OBVIOUS

\* A middle, rounded either way, lies inside the bracket.
LEMMA MiddleIsInside ==
    ASSUME NEW a \in Nat, NEW b \in Nat, a <= b
    PROVE  /\ (a + b) \div 2 \in a .. b
           /\ (a + b + 1) \div 2 \in a .. b
OBVIOUS

\* The totals stoppingDistance computes are distances.
LEMMA TotalsAreDistances == Totals \subseteq [Points -> Nat]
<1> SUFFICES ASSUME NEW reaction \in 0 .. MaxReaction,
                    NEW plannable \in Points,
                    NEW braking \in [Points -> Values],
                    NEW speed \in Points
             PROVE  (IF speed > plannable THEN Infinity
                     ELSE speed * reaction + braking[speed]) \in Nat
  BY DEF Totals
<1>1. Infinity \in Nat
  BY SearchAssumption, ProductIsNatural DEF Infinity
<1>2. speed * reaction \in Nat
  BY SearchAssumption, ProductIsNatural DEF Points
<1>3. braking[speed] \in Nat
  BY SearchAssumption DEF Values
<1> QED
  BY <1>1, <1>2, <1>3

\* More steps of one length reach at least as far.
LEMMA MoreStepsReachFurther ==
    ASSUME NEW m \in Nat, NEW n \in Nat, NEW length \in Nat, m <= n
    PROVE  m * length <= n * length
<1>1. n - m \in Nat /\ n * length = m * length + (n - m) * length
  OBVIOUS
<1>2. m * length \in Nat /\ (n - m) * length \in Nat
  BY <1>1, ProductIsNatural
<1> QED
  BY <1>1, <1>2

-----------------------------------------------------------------------------
(* The rows of the trace. *)

\* lround leaves the last step at most half a step short of the end.
LEMMA LastStepIsNear ==
    ASSUME NEW d \in Nat
    PROVE  /\ Steps(d) \in Nat
           /\ d - Steps(d) * TracePoints <= TracePoints
<1> DEFINE a == 2 * d + TracePoints
           b == 2 * TracePoints
<1>1. a \in Nat /\ b \in Nat \ {0}
  BY SearchAssumption
<1>2. a \div b \in Nat /\ a < b * ((a \div b) + 1)
  <2> HIDE DEF a, b
  <2> QED
    BY <1>1
<1>3. PICK q \in Nat : q = Steps(d) /\ 2 * d + TracePoints < (2 * TracePoints) * (q + 1)
  BY <1>2 DEF Steps
<1>4. (2 * TracePoints) * (q + 1) = 2 * (q * TracePoints) + 2 * TracePoints
  BY SearchAssumption
<1>5. q * TracePoints \in Nat
  BY SearchAssumption, ProductIsNatural
<1> QED
  BY <1>3, <1>4, <1>5, SearchAssumption

\* A row lies at its step or, past the end, at the end.
LEMMA RowsAreOnTheGrid ==
    ASSUME TypeOK, NEW d \in Points, NEW i \in Nat
    PROVE  /\ SampleRow(i, d) \in Row
           /\ SampleRow(i, d).at <= d
           /\ SampleRow(i, d).at = IF i * TracePoints < d THEN i * TracePoints ELSE d
           /\ SampleRow(i, d).velocity = curve[SampleRow(i, d).at]
<1>1. i * TracePoints \in Nat
  BY SearchAssumption, ProductIsNatural
<1>2. d \in Nat /\ d <= Top
  BY SearchAssumption DEF Points
<1> QED
  BY <1>1, <1>2, SearchAssumption DEF SampleRow, Row, TypeOK, Points

\* Two rows that follow each other are no more than a step apart, in order.
LEMMA RowsFollow ==
    ASSUME TypeOK, NEW d \in Points, NEW i \in Nat
    PROVE  SampleRow(i + 1, d).at - SampleRow(i, d).at \in 0 .. TracePoints
<1>1. /\ i * TracePoints \in Nat
      /\ (i + 1) * TracePoints = i * TracePoints + TracePoints
  BY SearchAssumption, ProductIsNatural
<1>2. d \in Nat /\ i + 1 \in Nat
  BY SearchAssumption DEF Points
<1>3. /\ SampleRow(i, d).at = IF i * TracePoints < d THEN i * TracePoints ELSE d
      /\ SampleRow(i + 1, d).at = IF (i + 1) * TracePoints < d
                                    THEN (i + 1) * TracePoints ELSE d
  BY <1>2, RowsAreOnTheGrid
<1> QED
  BY <1>1, <1>2, <1>3, SearchAssumption

\* The whole trace: the samples, and the end when it is not one of the steps.
Trace(d) == SampleRows(d) \o EndRow(d)

LEMMA TraceIsSound ==
    ASSUME TypeOK, NEW d \in Points, curve[d] = 0,
           \A t \in Points : t < d => curve[t] # 0
    PROVE  /\ Trace(d) \in Seq(Row)
           /\ Trace(d) # <<>>
           /\ Trace(d)[1].at = 0
           /\ Trace(d)[Len(Trace(d))].at = d
           /\ \A i \in DOMAIN Trace(d) : Trace(d)[i].velocity = 0 <=> Trace(d)[i].at = d
           /\ \A i \in 1 .. Len(Trace(d)) - 1 :
                Trace(d)[i + 1].at - Trace(d)[i].at \in 0 .. TracePoints
<1> DEFINE n == Steps(d)
           samples == SampleRows(d)
           end == EndRow(d)
           trace == Trace(d)
           last == [at |-> d, velocity |-> 0]
           exact == n * TracePoints = d
<1>1. n \in Nat /\ d - n * TracePoints <= TracePoints /\ d \in Nat
  BY LastStepIsNear, SearchAssumption DEF Points
<1>2. n * TracePoints \in Nat
  BY <1>1, SearchAssumption, ProductIsNatural
<1>3. \A k \in 1 .. n + 1 : k - 1 \in Nat
  BY <1>1
<1>4. \A k \in 1 .. n + 1 : SampleRow(k - 1, d) \in Row
  BY <1>3, RowsAreOnTheGrid
<1>5. /\ samples \in Seq(Row) /\ Len(samples) = n + 1
      /\ \A k \in 1 .. n + 1 : samples[k] = SampleRow(k - 1, d)
  BY <1>1, <1>4 DEF SampleRows
<1>6. /\ last \in Row
      /\ exact => end = <<>>
      /\ ~exact => end = <<last>>
  BY <1>1 DEF EndRow, Row
<1>7. /\ trace \in Seq(Row)
      /\ \A k \in 1 .. n + 1 : trace[k] = SampleRow(k - 1, d)
      /\ exact => Len(trace) = n + 1
      /\ ~exact => Len(trace) = n + 2 /\ trace[n + 2] = last
  <2>1. trace = samples \o end
    BY DEF Trace
  <2> HIDE DEF samples, end, trace, n, last, exact
  <2>2. CASE exact
    <3>1. trace = samples
      BY <1>5, <1>6, <2>1, <2>2
    <3> QED
      BY <1>5, <2>2, <3>1
  <2>3. CASE ~exact
    <3>1. trace = samples \o <<last>>
      BY <1>6, <2>1, <2>3
    <3> QED
      BY <1>1, <1>5, <1>6, <2>3, <3>1
  <2> QED
    BY <2>2, <2>3
<1> HIDE DEF samples, end, trace, n
<1>8. SampleRow(n, d).at = IF n * TracePoints < d THEN n * TracePoints ELSE d
  BY <1>1, RowsAreOnTheGrid
<1>9. last.at = d /\ last.velocity = 0
  OBVIOUS
<1>10. SampleRow(0, d).at = 0
  <2>1. 0 \in Nat /\ 0 * TracePoints = 0
    BY SearchAssumption
  <2> QED
    BY <1>1, <2>1, RowsAreOnTheGrid
<1>11. exact => SampleRow(n, d).at = d
  BY <1>8
<1>12. ~exact => d - SampleRow(n, d).at \in 0 .. TracePoints
  BY <1>1, <1>2, <1>8, SearchAssumption
<1> HIDE DEF exact, last
<1>13. trace # <<>> /\ trace[1].at = 0
  <2>1. 1 \in 1 .. n + 1 /\ 1 - 1 = 0
    BY <1>1
  <2>2. trace[1] = SampleRow(0, d)
    BY <1>7, <2>1
  <2>3. Len(trace) > 0
    BY <1>1, <1>7
  <2> QED
    BY <1>7, <1>10, <2>2, <2>3
<1>14. trace[Len(trace)].at = d
  <2>1. n + 1 \in 1 .. n + 1 /\ (n + 1) - 1 = n
    BY <1>1
  <2>2. trace[n + 1] = SampleRow(n, d)
    BY <1>7, <2>1
  <2> QED
    BY <1>7, <1>9, <1>11, <2>2
<1>15. ASSUME NEW i \in DOMAIN trace
       PROVE  trace[i].velocity = 0 <=> trace[i].at = d
  <2>1. CASE i \in 1 .. n + 1
    <3>1. i - 1 \in Nat /\ trace[i] = SampleRow(i - 1, d)
      BY <1>3, <1>7, <2>1
    <3>2. /\ trace[i] \in Row /\ trace[i].at <= d
          /\ trace[i].velocity = curve[trace[i].at]
      BY <3>1, RowsAreOnTheGrid
    <3>3. trace[i].at \in Points
      BY <3>2 DEF Row
    <3> QED
      BY <1>1, <3>2, <3>3, SearchAssumption DEF Points
  <2>2. CASE i \notin 1 .. n + 1
    <3>1. i \in 1 .. Len(trace)
      BY <1>7, <1>15
    <3>2. ~exact /\ i = n + 2
      BY <1>1, <1>7, <2>2, <3>1
    <3> QED
      BY <1>7, <1>9, <3>2
  <2> QED
    BY <2>1, <2>2
<1>16. ASSUME NEW i \in 1 .. Len(trace) - 1
       PROVE  trace[i + 1].at - trace[i].at \in 0 .. TracePoints
  <2>1. CASE i \in 1 .. n
    <3>1. i - 1 \in Nat /\ (i - 1) + 1 = (i + 1) - 1
          /\ i \in 1 .. n + 1 /\ i + 1 \in 1 .. n + 1
      BY <1>1, <2>1
    <3>2. trace[i] = SampleRow(i - 1, d) /\ trace[i + 1] = SampleRow((i - 1) + 1, d)
      BY <1>7, <3>1
    <3> QED
      BY <3>1, <3>2, RowsFollow
  <2>2. CASE i \notin 1 .. n
    <3>1. ~exact /\ i = n + 1
      BY <1>1, <1>7, <1>16, <2>2
    <3>2. i \in 1 .. n + 1 /\ i - 1 = n /\ i + 1 = n + 2
      BY <1>1, <3>1
    <3>3. trace[i] = SampleRow(n, d) /\ trace[i + 1] = last
      BY <1>7, <3>1, <3>2
    <3> QED
      BY <1>9, <1>12, <3>1, <3>3
  <2> QED
    BY <2>1, <2>2
<1> QED
  BY <1>7, <1>13, <1>14, <1>15, <1>16 DEF trace

-----------------------------------------------------------------------------
(* Type correctness. *)

LEMMA InitTypeOK == Init => TypeOK
<1> SUFFICES ASSUME Init PROVE TypeOK
  OBVIOUS
<1>1. curve \in [Points -> Nat]
  BY TotalsAreDistances, SearchAssumption DEF Init, Decelerations, Values
<1>2. goal \in Nat
  <2>1. MaxValue + MaxReaction * Top \in Nat
    BY SearchAssumption, ProductIsNatural
  <2>2. 0 \in Points
    BY SearchAssumption DEF Points
  <2> QED
    BY <1>1, <2>1, <2>2, SearchAssumption DEF Init, Values, Points
<1> QED
  BY <1>1, <1>2, SearchAssumption DEF Init, TypeOK, Tasks, Points

\* A bracket under search, halved, stays a bracket of points.
LEMMA HalveTypeOK == TypeOK /\ low <= high /\ Halve => TypeOK'
<1> SUFFICES ASSUME TypeOK, low <= high, Halve PROVE TypeOK'
  OBVIOUS
<1>1. (low + high) \div 2 \in Points /\ (low + high + 1) \div 2 \in Points
  <2>1. low \in Nat /\ high \in Nat /\ low <= high /\ high <= Top
    BY SearchAssumption DEF TypeOK, Points
  <2>2. /\ (low + high) \div 2 \in low .. high
        /\ (low + high + 1) \div 2 \in low .. high
    BY <2>1, MiddleIsInside
  <2> QED
    BY <2>1, <2>2, SearchAssumption DEF Points
<1> QED
  BY <1>1, SearchAssumption DEF Halve, HalveAt, TypeOK

LEMMA ScanTypeOK == TypeOK /\ scan >= 1 /\ ScanStep => TypeOK'
<1> SUFFICES ASSUME TypeOK, scan >= 1, ScanStep PROVE TypeOK'
  OBVIOUS
<1>1. /\ scan * step \in Points
      /\ (scan - 1) * step \in Points
  <2>1. scan - 1 \in Nat /\ scan \in Nat /\ step \in Nat
    BY DEF TypeOK
  <2>2. (scan - 1) * step \in Nat /\ scan * step \in Nat
    BY <2>1, ProductIsNatural
  <2>3. (scan - 1) * step = scan * step - step
    BY <2>1, SearchAssumption
  <2> QED
    BY <2>1, <2>2, <2>3, SearchAssumption DEF Points, ScanStep
<1>2. 0 \in 0 .. Rounds
  BY SearchAssumption
<1>3. /\ rows' \in Seq(Row) /\ phases' \in Seq(Phase)
      /\ UNCHANGED <<call, goal, phaseStart, answer>>
  BY DEF ScanStep, TypeOK
<1>4. CASE curve[scan * step] = goal
  <2>1. scan' = scan + 1 /\ UNCHANGED <<pc, low, high, round>>
    BY <1>4 DEF ScanStep
  <2> QED
    BY <1>3, <2>1 DEF TypeOK
<1>5. CASE curve[scan * step] # goal
  <2>1. /\ pc' = "search" /\ low' = (scan - 1) * step
        /\ high' = scan * step /\ round' = 0 /\ scan' = scan
    BY <1>5 DEF ScanStep, Search
  <2>2. low' \in Points /\ high' \in Points
    BY <1>1, <2>1
  <2> QED
    BY <1>2, <1>3, <2>1, <2>2 DEF TypeOK
<1> QED
  BY <1>4, <1>5

LEMMA PushTypeOK ==
    ASSUME TypeOK, NEW boundary \in Points, Push(boundary)
    PROVE  phases' \in Seq(Phase)
BY DEF TypeOK, Push, Phase

-----------------------------------------------------------------------------
(* The inductive invariant. *)

\* What the function called knows of its curve before its search begins.
StartInv ==
    pc = "start" =>
        /\ low = 0 /\ high = Top
        /\ task = "permittedSpeed" => curve[0] = 0
        /\ task = "residualTravel" => curve[Top] = 0 /\ goal < curve[0]
        /\ task = "referenceTrace" =>
             /\ goal \in Points /\ curve[goal] = 0
             /\ \A t \in Points : t < goal => curve[t] # 0

\* Where the scan of brakingPhases stands: the phase under way began at or before
\* the step it looks at, and has the jerk its curve had there; every step passed ended
\* before the end of the stop.  A search begun at the very instant the phase began
\* sees the phase's own jerk at its low end.
ScanInv ==
    /\ scan >= 1
    /\ pc = "scan" => task = "brakingPhases"
    /\ task = "brakingPhases" =>
         /\ step \in 1 .. Top
         /\ Top < (scanSteps + 1) * step
         /\ scan <= scanSteps + 1
         /\ goal = curve[phaseStart]
         /\ phaseStart <= (scan - 1) * step
         /\ (scan - 1) * step < Top
         /\ pc = "search" =>
              /\ scan <= scanSteps
              /\ scan * step < Top
              /\ (scan - 1) * step <= low
              /\ high <= scan * step
              /\ phaseStart < low \/ curve[low] = goal

\* The last phase pushed ends where the phase under way begins.
TilesInv ==
    /\ pc # "done" => phaseStart = IF phases = <<>> THEN 0 ELSE phases[Len(phases)].until
    /\ task # "brakingPhases" => phases = <<>>

\* The trace takes one step.
TraceInv == task = "referenceTrace" => pc \in {"start", "done"}

IInv ==
    /\ TypeOK
    /\ Bracket
    /\ StartInv
    /\ ScanInv
    /\ TilesInv
    /\ PhasesTileTheStop
    /\ TraceInv
    /\ TraceSpansTheStop

LEMMA InitIInv == Init => IInv
<1> SUFFICES ASSUME Init PROVE IInv
  OBVIOUS
<1>1. TypeOK
  BY InitTypeOK
<1>2. StartInv
  <2>1. CASE task = "permittedSpeed"
    <3>1. PICK reaction \in 0 .. MaxReaction, plannable \in Points,
               braking \in [Points -> Values] :
            /\ braking[0] = 0
            /\ curve = [speed \in Points |->
                           IF speed > plannable THEN Infinity
                           ELSE speed * reaction + braking[speed]]
      BY <2>1 DEF Init, Totals
    <3>2. 0 \in Points /\ ~(0 > plannable) /\ 0 * reaction = 0
      BY SearchAssumption DEF Points
    <3> QED
      BY <2>1, <3>1, <3>2 DEF Init, StartInv
  <2>2. CASE task = "referenceTrace"
    <3>1. /\ goal \in Points /\ curve[goal] = 0
          /\ \A t \in 0 .. goal - 1 : curve[t] > 0
      BY <2>2 DEF Init
    <3>2. \A t \in Points : t < goal => t \in 0 .. goal - 1
      BY <3>1, SearchAssumption DEF Points
    <3>3. curve \in [Points -> Nat]
      BY <1>1 DEF TypeOK
    <3> QED
      BY <2>2, <3>1, <3>2, <3>3 DEF Init, StartInv
  <2>3. CASE task \notin {"permittedSpeed", "referenceTrace"}
    BY <2>3 DEF Init, StartInv, Decelerations
  <2> QED
    BY <2>1, <2>2, <2>3
<1>3. ScanInv
  <2> SUFFICES ASSUME task = "brakingPhases"
               PROVE  /\ step \in 1 .. Top /\ Top < (scanSteps + 1) * step
                      /\ scan <= scanSteps + 1 /\ goal = curve[phaseStart]
                      /\ phaseStart <= (scan - 1) * step /\ (scan - 1) * step < Top
    BY DEF Init, ScanInv
  <2>1. step \in 1 .. Top /\ scanSteps \in 1 .. Top /\ Top < (scanSteps + 1) * step
    BY SearchAssumption DEF Init, StepsTaken
  <2>2. scan = 1 /\ (scan - 1) * step = 0
    BY <2>1, SearchAssumption DEF Init
  <2> QED
    BY <2>1, <2>2, SearchAssumption DEF Init
<1> QED
  BY <1>1, <1>2, <1>3 DEF Init, IInv, Bracket, TilesInv, PhasesTileTheStop,
                        TraceInv, TraceSpansTheStop

-----------------------------------------------------------------------------
(* Every step keeps the invariant. *)

LEMMA CallKeepsIInv ==
    IInv /\ (PermittedSpeed \/ ResidualTravel \/ BrakingPhases) => IInv'
<1> SUFFICES ASSUME IInv, PermittedSpeed \/ ResidualTravel \/ BrakingPhases
             PROVE  IInv'
  OBVIOUS
<1> USE DEF IInv
<1>1. 0 \in Points /\ Top \in Points /\ 0 <= Top
  BY SearchAssumption DEF Points
<1>2. TypeOK'
  <2>1. 0 \in 0 .. Rounds
    BY SearchAssumption
  <2>2. CASE PermittedSpeed
    BY <1>1, <2>1, <2>2 DEF TypeOK, PermittedSpeed, Search, Answer
  <2>3. CASE ResidualTravel
    BY <1>1, <2>1, <2>3 DEF TypeOK, ResidualTravel, Search
  <2>4. CASE BrakingPhases
    BY <2>4 DEF TypeOK, BrakingPhases
  <2> QED
    BY <2>2, <2>3, <2>4
<1>3. Bracket' /\ StartInv'
  BY <1>1 DEF TypeOK, Bracket, StartInv, PermittedSpeed, ResidualTravel,
              BrakingPhases, Search, Answer
<1>4. ScanInv'
  BY DEF ScanInv, PermittedSpeed, ResidualTravel, BrakingPhases, Search, Answer
<1>5. TilesInv' /\ PhasesTileTheStop' /\ TraceInv' /\ TraceSpansTheStop'
  BY DEF TilesInv, PhasesTileTheStop, TraceInv, TraceSpansTheStop, PermittedSpeed,
         ResidualTravel, BrakingPhases, Search, Answer
<1> QED
  BY <1>2, <1>3, <1>4, <1>5

\* The half that still holds the crossing is kept, whichever way the middle rounds.
LEMMA HalveKeepsIInv == IInv /\ Halve => IInv'
<1> SUFFICES ASSUME IInv, Halve PROVE IInv'
  OBVIOUS
<1> USE DEF IInv
<1>1. low <= high
  BY DEF Bracket, Halve
<1>2. PICK middle \in low .. high : HalveAt(middle)
  <2>1. low \in Nat /\ high \in Nat
    BY SearchAssumption DEF TypeOK, Points
  <2> QED
    BY <1>1, <2>1, MiddleIsInside DEF Halve
<1>3. TypeOK'
  BY <1>1, HalveTypeOK
<1>4. /\ middle \in Nat /\ low \in Nat /\ high \in Nat
      /\ low <= middle /\ middle <= high
      /\ curve[middle] \in Nat /\ goal \in Nat
  BY <1>2, SearchAssumption DEF TypeOK, Points
<1>5. Bracket'
  BY <1>2, <1>4 DEF Bracket, Halve, HalveAt, GoesOn, TypeOK, Tasks
<1>6. StartInv'
  BY DEF StartInv, Halve
<1>7. ScanInv'
  <2>1. CASE task # "brakingPhases"
    BY <2>1 DEF ScanInv, Halve
  <2>2. CASE task = "brakingPhases"
    <3>1. /\ (scan - 1) * step \in Int /\ scan * step \in Int
          /\ phaseStart \in Nat
      BY SearchAssumption DEF TypeOK, Points
    <3> QED
      BY <1>2, <1>4, <2>2, <3>1 DEF ScanInv, Halve, HalveAt, GoesOn
  <2> QED
    BY <2>1, <2>2
<1>8. TilesInv' /\ PhasesTileTheStop' /\ TraceInv' /\ TraceSpansTheStop'
  BY DEF TilesInv, PhasesTileTheStop, TraceInv, TraceSpansTheStop, Halve
<1> QED
  BY <1>3, <1>5, <1>6, <1>7, <1>8

LEMMA ReturnKeepsIInv == IInv /\ Return => IInv'
<1> SUFFICES ASSUME IInv, Return PROVE IInv'
  OBVIOUS
<1> USE DEF IInv
<1>1. TypeOK'
  BY DEF TypeOK, Return, Answer, EndOfBracket
<1>2. Bracket' /\ StartInv' /\ ScanInv'
  BY DEF Bracket, StartInv, ScanInv, Return, Answer
<1>3. TilesInv' /\ PhasesTileTheStop' /\ TraceInv' /\ TraceSpansTheStop'
  BY DEF TilesInv, PhasesTileTheStop, TraceInv, TraceSpansTheStop, Return, Answer
<1> QED
  BY <1>1, <1>2, <1>3

\* A step whose end still has the phase's jerk is passed; another is searched.
LEMMA ScanStepKeepsIInv == IInv /\ ScanStep => IInv'
<1> SUFFICES ASSUME IInv, ScanStep PROVE IInv'
  OBVIOUS
<1> USE DEF IInv
<1>1. TypeOK'
  BY ScanTypeOK DEF ScanInv
<1>2. /\ task = "brakingPhases" /\ scan \in Nat /\ scan >= 1 /\ step \in Nat
      /\ scan <= scanSteps /\ scanSteps \in Nat /\ scan * step < Top
  BY DEF ScanStep, ScanInv, TypeOK
<1>4. /\ (scan - 1) * step \in Nat
      /\ scan * step \in Nat
      /\ (scan - 1) * step <= scan * step
      /\ phaseStart \in Nat
  <2>1. scan - 1 \in Nat /\ scan - 1 <= scan
    BY <1>2
  <2> QED
    BY <1>2, <2>1, ProductIsNatural, MoreStepsReachFurther, SearchAssumption
       DEF TypeOK, Points
<1>5. CASE curve[scan * step] = goal
  <2>1. scan' = scan + 1 /\ UNCHANGED <<call, goal, pc, low, high, round,
                                      phaseStart, phases, answer>>
    BY <1>5 DEF ScanStep
  <2>2. ScanInv'
    <3>1. (scan' - 1) * step = scan * step
      <4>1. scan' - 1 = scan
        BY <1>2, <2>1
      <4> QED
        BY <4>1
    <3>2. scan' >= 1 /\ scan' <= scanSteps + 1
      BY <1>2, <2>1
    <3>3. phaseStart' <= (scan' - 1) * step /\ (scan' - 1) * step < Top
      BY <1>2, <1>4, <2>1, <3>1 DEF ScanInv
    <3> QED
      BY <1>2, <2>1, <3>2, <3>3 DEF ScanInv, ScanStep
  <2> QED
    BY <1>1, <2>1, <2>2 DEF IInv, Bracket, StartInv, TilesInv, PhasesTileTheStop,
                            TraceInv, TraceSpansTheStop, ScanStep
<1>6. CASE curve[scan * step] # goal
  <2>1. /\ pc' = "search" /\ low' = (scan - 1) * step
        /\ high' = scan * step
        /\ UNCHANGED <<call, goal, scan, phaseStart, phases, answer>>
    BY <1>6 DEF ScanStep, Search
  <2>2. Bracket'
    BY <1>2, <1>4, <1>6, <2>1 DEF Bracket
  <2>3. ScanInv'
    BY <1>2, <1>4, <2>1 DEF ScanInv
  <2>4. StartInv' /\ TilesInv' /\ PhasesTileTheStop' /\ TraceInv' /\ TraceSpansTheStop'
    BY <2>1 DEF StartInv, TilesInv, PhasesTileTheStop, ScanReachesTheEnd, TraceInv,
                TraceSpansTheStop, ScanStep
  <2> QED
    BY <1>1, <2>2, <2>3, <2>4
<1> QED
  BY <1>5, <1>6

\* Pushing a phase that ends after it began keeps the tiling.
LEMMA PushTiles ==
    ASSUME TypeOK, TilesInv, PhasesTileTheStop, pc # "done",
           NEW boundary \in Points, phaseStart < boundary, Push(boundary)
    PROVE  /\ phases' # <<>>
           /\ phases'[Len(phases')].until = boundary
           /\ \A i \in DOMAIN phases' :
                /\ phases'[i].from = IF i = 1 THEN 0 ELSE phases'[i - 1].until
                /\ phases'[i].from < phases'[i].until
<1> DEFINE phase == [from |-> phaseStart, until |-> boundary, jerk |-> goal]
<1>1. /\ phases \in Seq(Phase)
      /\ phase \in Phase
      /\ phases' = Append(phases, phase)
  BY DEF TypeOK, Push, Phase
<1>2. /\ Len(phases) \in Nat
      /\ Len(phases') = Len(phases) + 1
      /\ DOMAIN phases' = 1 .. Len(phases) + 1
      /\ DOMAIN phases = 1 .. Len(phases)
      /\ phases'[Len(phases) + 1] = phase
      /\ \A i \in 1 .. Len(phases) : phases'[i] = phases[i]
  BY <1>1
<1>3. ASSUME NEW i \in DOMAIN phases'
      PROVE  /\ phases'[i].from = IF i = 1 THEN 0 ELSE phases'[i - 1].until
             /\ phases'[i].from < phases'[i].until
  <2>1. CASE i \in 1 .. Len(phases)
    <3>1. i # 1 => i - 1 \in 1 .. Len(phases)
      BY <1>2, <2>1
    <3> QED
      BY <1>2, <2>1, <3>1 DEF PhasesTileTheStop
  <2>2. CASE i = Len(phases) + 1
    <3>1. phases = <<>> <=> Len(phases) = 0
      BY <1>1
    <3>2. i # 1 => i - 1 = Len(phases) /\ Len(phases) \in 1 .. Len(phases)
      BY <1>2, <2>2
    <3> QED
      BY <1>2, <2>2, <3>1, <3>2 DEF TilesInv
  <2> QED
    BY <1>2, <1>3, <2>1, <2>2
<1>4. phases' # <<>>
  BY <1>2
<1> QED
  BY <1>2, <1>3, <1>4

\* The phase that ends at the pinned change is not empty: its own jerk is at its
\* start, and another at the change.
LEMMA PushPhaseKeepsIInv == IInv /\ PushPhase => IInv'
<1> SUFFICES ASSUME IInv, PushPhase PROVE IInv'
  OBVIOUS
<1> USE DEF IInv
<1>1. /\ task = "brakingPhases" /\ pc = "search" /\ pc' = "scan"
      /\ EndOfBracket = high
      /\ Push(high) /\ phaseStart' = high /\ goal' = curve[high]
      /\ scan' = scan + 1
      /\ UNCHANGED <<call, low, high, round, answer, rows>>
  BY DEF PushPhase, EndOfBracket
<1>2. /\ low \in Nat /\ high \in Points /\ high \in Nat /\ low <= high
      /\ phaseStart \in Nat /\ scan \in Nat /\ curve[high] \in Nat
  BY <1>1, SearchAssumption DEF TypeOK, Points, Bracket
<1>3. phaseStart < high
  <2>1. (scan - 1) * step \in Int
    BY <1>2, SearchAssumption DEF TypeOK
  <2>2. phaseStart <= low /\ (phaseStart < low \/ curve[low] = goal)
    BY <1>1, <1>2, <2>1 DEF ScanInv
  <2>3. curve[high] # goal
    BY <1>1 DEF Bracket
  <2> QED
    BY <1>2, <2>2, <2>3
<1>4. TypeOK'
  <2>1. phases' \in Seq(Phase)
    BY <1>1, <1>2, PushTypeOK
  <2> QED
    BY <1>1, <1>2, <2>1 DEF TypeOK
<1>5. ScanInv'
  <2>1. (scan' - 1) * step = scan * step
    <3>1. scan' - 1 = scan
      BY <1>1, <1>2
    <3> QED
      BY <3>1
  <2>2. phaseStart' <= (scan' - 1) * step /\ (scan' - 1) * step < Top
    BY <1>1, <2>1 DEF ScanInv
  <2>3. scan' >= 1 /\ scan' <= scanSteps + 1
    BY <1>1, <1>2 DEF ScanInv, TypeOK
  <2> QED
    BY <1>1, <2>2, <2>3 DEF ScanInv
<1>6. TilesInv' /\ PhasesTileTheStop'
  BY <1>1, <1>2, <1>3, PushTiles DEF TilesInv, PhasesTileTheStop
<1> QED
  BY <1>1, <1>4, <1>5, <1>6 DEF Bracket, StartInv, TraceInv, TraceSpansTheStop

\* The step that reaches the end is one of those taken, so that they all do.
LEMMA PushLastPhaseKeepsIInv == IInv /\ PushLastPhase => IInv'
<1> SUFFICES ASSUME IInv, PushLastPhase PROVE IInv'
  OBVIOUS
<1> USE DEF IInv
<1>1. /\ task = "brakingPhases" /\ pc = "scan" /\ pc' = "done"
      /\ scan <= scanSteps /\ scan * step >= Top /\ Push(Top)
      /\ UNCHANGED <<call, goal, low, high, round, scan, phaseStart, answer, rows>>
  BY DEF PushLastPhase, ScanInv
<1>2. /\ scan \in Nat /\ scanSteps \in Nat /\ step \in Nat /\ phaseStart \in Nat
      /\ Top \in Points /\ Top \in Nat
  BY SearchAssumption DEF TypeOK, Points
<1>3. phaseStart < Top
  <2>1. (scan - 1) * step \in Int
    BY <1>2
  <2> QED
    BY <1>1, <1>2, <2>1 DEF ScanInv
<1>4. ScanReachesTheEnd
  <2>1. scan * step \in Nat /\ scanSteps * step \in Nat /\ scan * step <= scanSteps * step
    BY <1>1, <1>2, ProductIsNatural, MoreStepsReachFurther
  <2> QED
    BY <1>1, <1>2, <2>1 DEF ScanReachesTheEnd
<1>5. TypeOK'
  <2>1. phases' \in Seq(Phase)
    BY <1>1, <1>2, <1>3, PushTypeOK
  <2> QED
    BY <1>1, <2>1 DEF TypeOK
<1>6. PhasesTileTheStop' /\ TilesInv'
  <2>1. ScanReachesTheEnd'
    BY <1>1, <1>4 DEF ScanReachesTheEnd
  <2> QED
    BY <1>1, <1>2, <1>3, <2>1, PushTiles DEF PhasesTileTheStop, TilesInv
<1> QED
  BY <1>1, <1>5, <1>6 DEF Bracket, StartInv, ScanInv, TraceInv, TraceSpansTheStop

\* Every step taken ended before the end, and the last phase pushed before that.
LEMMA ScanRunsOutKeepsIInv == IInv /\ ScanRunsOut => IInv'
<1> SUFFICES ASSUME IInv, ScanRunsOut PROVE IInv'
  OBVIOUS
<1> USE DEF IInv
<1>1. /\ task = "brakingPhases" /\ pc = "scan" /\ pc' = "done" /\ scan > scanSteps
      /\ UNCHANGED <<call, goal, low, high, round, scan, phaseStart, phases, answer,
                     rows>>
  BY DEF ScanRunsOut, ScanInv
<1>2. /\ scan \in Nat /\ scanSteps \in Nat /\ step \in Nat /\ phaseStart \in Nat
      /\ Top \in Nat
  BY SearchAssumption DEF TypeOK, Points
<1>3. scan - 1 = scanSteps
  BY <1>1, <1>2 DEF ScanInv
<1>4. (scan - 1) * step \in Int /\ scanSteps * step = (scan - 1) * step
  BY <1>2, <1>3
<1>5. ~ScanReachesTheEnd /\ phaseStart < Top
  BY <1>1, <1>2, <1>4 DEF ScanInv, ScanReachesTheEnd
<1>6. PhasesTileTheStop'
  <2>1. phases # <<>> => phases[Len(phases)].until # Top
    BY <1>1, <1>2, <1>5 DEF TilesInv
  <2> QED
    BY <1>1, <1>5, <2>1 DEF PhasesTileTheStop, ScanReachesTheEnd
<1> QED
  BY <1>1, <1>6 DEF TypeOK, Bracket, StartInv, ScanInv, TilesInv, TraceInv,
                    TraceSpansTheStop

LEMMA ReferenceTraceKeepsIInv == IInv /\ ReferenceTrace => IInv'
<1> SUFFICES ASSUME IInv, ReferenceTrace PROVE IInv'
  OBVIOUS
<1> USE DEF IInv
<1>1. /\ task = "referenceTrace" /\ rows' = Trace(goal) /\ pc' = "done"
      /\ UNCHANGED <<call, goal, low, high, round, scan, phaseStart, phases, answer>>
  BY DEF ReferenceTrace, Trace
<1>2. /\ goal \in Points /\ curve[goal] = 0
      /\ \A t \in Points : t < goal => curve[t] # 0
  BY DEF StartInv, ReferenceTrace
<1>3. TraceInv' /\ TraceSpansTheStop' /\ rows' \in Seq(Row)
  <2> HIDE DEF IInv
  <2>1. TypeOK
    BY DEF IInv
  <2> QED
    BY <1>1, <1>2, <2>1, TraceIsSound DEF TraceInv, TraceSpansTheStop
<1>4. TypeOK'
  BY <1>1, <1>3 DEF TypeOK
<1> QED
  BY <1>1, <1>3, <1>4 DEF Bracket, StartInv, ScanInv, TilesInv, PhasesTileTheStop

LEMMA StutterKeepsIInv == IInv /\ UNCHANGED vars => IInv'
BY DEF IInv, TypeOK, Bracket, StartInv, ScanInv, TilesInv, PhasesTileTheStop,
       ScanReachesTheEnd, TraceInv, TraceSpansTheStop, vars

LEMMA IInvHolds == Spec => []IInv
<1>1. Init => IInv
  BY InitIInv
<1>2. IInv /\ [Next]_vars => IInv'
  BY CallKeepsIInv, HalveKeepsIInv, ReturnKeepsIInv, ScanStepKeepsIInv,
     PushPhaseKeepsIInv, PushLastPhaseKeepsIInv, ScanRunsOutKeepsIInv,
     ReferenceTraceKeepsIInv, StutterKeepsIInv DEF Next
<1> QED
  BY <1>1, <1>2, PTL DEF Spec

-----------------------------------------------------------------------------
\* No search leaves its grid, its counters or its task (type correctness of
\* permittedSpeed, residualTravelBelow and brakingPhases).
THEOREM SearchTypeCorrect == Spec => []TypeOK
BY IInvHolds, PTL DEF IInv

\* "The interval always brackets the root" (safety_distance.cpp:84), for every
\* curve, room and rounding, after any number of iterations.
THEOREM TheRootIsBracketed == Spec => []Bracket
BY IInvHolds, PTL DEF IInv

\* The phases brakingPhases reports follow one another from the start of the stop for
\* every jerk curve, also one whose segments are shorter than a scan step, and last
\* as long as the stop exactly when the scan's steps reach its end, whichever way
\* their length was rounded (validation_package.cpp:99-125).
THEOREM TheStopIsTiled == Spec => []PhasesTileTheStop
BY IInvHolds, PTL DEF IInv

\* The trace referenceTraceCsv writes runs from the start of braking to rest, for
\* every duration, step and deceleration (validation_package.cpp:623-635).
THEOREM TheTraceSpansTheStop == Spec => []TraceSpansTheStop
BY IInvHolds, PTL DEF IInv

\* However few iterations there are, the speed permittedSpeed returns fits the room
\* it was asked for (safety_distance.cpp:99-100).
AnswerFits == pc = "done" /\ task = "permittedSpeed" => curve[answer] <= goal

THEOREM PermittedSpeedFits == Spec => []AnswerFits
<1>1. Init => AnswerFits
  BY DEF Init, AnswerFits
<1>2. IInv /\ AnswerFits /\ [Next]_vars => AnswerFits'
  <2> SUFFICES ASSUME IInv, AnswerFits, [Next]_vars PROVE AnswerFits'
    OBVIOUS
  <2>1. CASE PermittedSpeed
    BY <2>1, SearchAssumption
       DEF PermittedSpeed, Search, Answer, AnswerFits, IInv, StartInv, TypeOK
  <2>2. CASE Return
    BY <2>2 DEF Return, Answer, EndOfBracket, AnswerFits, IInv, Bracket
  <2>3. CASE UNCHANGED vars
    BY <2>3 DEF vars, AnswerFits
  <2>4. CASE ResidualTravel \/ BrakingPhases \/ Halve
    BY <2>4 DEF ResidualTravel, BrakingPhases, Halve, Search, AnswerFits
  <2>6. CASE ReferenceTrace
    BY <2>6 DEF ReferenceTrace, AnswerFits
  <2>5. CASE ScanStep \/ PushPhase \/ PushLastPhase \/ ScanRunsOut
    BY <2>5 DEF ScanStep, PushPhase, PushLastPhase, ScanRunsOut, Search, AnswerFits,
                IInv, ScanInv
  <2> QED
    BY <2>1, <2>2, <2>3, <2>4, <2>5, <2>6 DEF Next
<1> QED
  BY <1>1, <1>2, IInvHolds, PTL DEF Spec

-----------------------------------------------------------------------------
(* Induction.  The strict subsets of a finite set are well founded, so that a *)
(* set of numbers has a least element, and one that holds 0 and the successor *)
(* of every member holds all.                                                 *)

\* The members below a number.
Below(S, k) == {n \in S : n < k}

LEMMA BelowIsBelow ==
  ASSUME NEW S \in SUBSET Nat, NEW k \in Nat
  PROVE  /\ \A n : n \in Below(S, k) <=> n \in S /\ n < k
         /\ Below(S, k) \in SUBSET Nat
         /\ \A n \in Below(S, k) : n <= k
<1>1. \A n : n \in Below(S, k) <=> n \in S /\ n < k
  BY DEF Below
<1>2. \A n \in S : n \in Nat
  OBVIOUS
<1>3. \A n \in Below(S, k) : n \in Nat /\ n <= k
  <2> TAKE n \in Below(S, k)
  <2>1. n \in Nat /\ n < k
    BY <1>1, <1>2
  <2> QED
    BY <2>1
<1> QED
  BY <1>1, <1>3

\* A set of numbers that is not empty has a least one.
LEMMA LeastElement ==
  ASSUME NEW S \in SUBSET Nat, S # {}
  PROVE \E m \in S : \A n \in S : m <= n
<1> DEFINE family == {Below(S, k) : k \in S}
<1>1. family \subseteq FiniteSubsetsOf(S)
  <2> SUFFICES ASSUME NEW k \in S PROVE IsFiniteSet(Below(S, k)) /\ Below(S, k) \subseteq S
    BY DEF FiniteSubsetsOf
  <2>0. k \in Nat
    OBVIOUS
  <2>1. Below(S, k) \in SUBSET Nat /\ \A s \in Below(S, k) : s <= k /\ s \in S
    BY <2>0, BelowIsBelow
  <2> QED
    BY <2>0, <2>1, FS_BoundedSetOfNaturals
<1>2. PICK least \in family : \A t \in family : <<t, least>> \notin StrictSubsetOrdering(S)
  <2>1. family # {}
    OBVIOUS
  <2> QED
    BY <1>1, <2>1, WFMin, FS_StrictSubsetOrderingWellFounded
<1>3. PICK m \in S : least = Below(S, m)
  OBVIOUS
<1>4. ASSUME NEW n \in S, n < m PROVE FALSE
  <2>0. n \in Nat /\ m \in Nat /\ n < m
    BY <1>4
  <2>1. Below(S, n) \in family
    BY <1>4
  <2>2. Below(S, n) \subseteq Below(S, m)
    <3> SUFFICES ASSUME NEW i \in Below(S, n) PROVE i \in Below(S, m)
      OBVIOUS
    <3>1. i \in S /\ i \in Nat /\ i < n
      BY <2>0, BelowIsBelow
    <3> QED
      BY <2>0, <3>1, BelowIsBelow
  <2>3. n \in Below(S, m) /\ n \notin Below(S, n)
    BY <2>0, <1>4, BelowIsBelow
  <2> QED
    BY <2>1, <2>2, <2>3, <1>1, <1>2, <1>3 DEF FiniteSubsetsOf, StrictSubsetOrdering
<1> QED
  BY <1>4

\* Induction over the natural numbers, for a set.
LEMMA NatSetInduction ==
  ASSUME NEW S \in SUBSET Nat, 0 \in S, \A n \in S : n + 1 \in S
  PROVE  S = Nat
<1> SUFFICES ASSUME Nat \ S # {} PROVE FALSE
  OBVIOUS
<1>1. PICK m \in Nat \ S : \A n \in Nat \ S : m <= n
  BY LeastElement
<1>2. m # 0 /\ m - 1 \in Nat
  OBVIOUS
<1>3. m - 1 \in S
  BY <1>1, <1>2
<1> QED
  BY <1>3, <1>1

-----------------------------------------------------------------------------
(* Powers of two count subsets.                                               *)

LEMMA SubsetsOfAnInterval ==
  ASSUME NEW n \in Nat
  PROVE  /\ IsFiniteSet(SUBSET (1 .. n))
         /\ Cardinality(SUBSET (1 .. n)) = 2 ^ n
         /\ 2 ^ n \in Nat
<1>1. IsFiniteSet(1 .. n) /\ Cardinality(1 .. n) = n
  BY FS_Interval
<1>2. /\ IsFiniteSet(SUBSET (1 .. n))
      /\ Cardinality(SUBSET (1 .. n)) = 2 ^ Cardinality(1 .. n)
  BY <1>1, FS_SUBSET
<1>3. Cardinality(SUBSET (1 .. n)) \in Nat
  BY <1>2, FS_CardinalityType
<1> QED
  BY <1>1, <1>2, <1>3, Zenon

\* Twice as many subsets: those without the last number, and those with it.
LEMMA PowerOfTwo ==
  ASSUME NEW n \in Nat
  PROVE  2 ^ n \in Nat /\ 2 ^ (n + 1) = 2 * 2 ^ n
<1> DEFINE old == SUBSET (1 .. n)
           new == {T \in SUBSET (1 .. n + 1) : n + 1 \in T}
           f == [T \in old |-> T \cup {n + 1}]
<1>1. f \in Bijection(old, new)
  <2>1. \A T \in old : n + 1 \notin T
    OBVIOUS
  <2>2. \A T \in old : T \cup {n + 1} \in new
    OBVIOUS
  <2>3. \A T, U \in old : f[T] = f[U] => T = U
    BY <2>1
  <2>4. \A U \in new : U \ {n + 1} \in old /\ f[U \ {n + 1}] = U
    <3> TAKE U \in new
    <3>1. U \ {n + 1} \in old
      OBVIOUS
    <3> QED
      BY <3>1
  <2>5. f \in [old -> new]
    BY <2>2
  <2>6. f \in Injection(old, new)
    BY <2>3, <2>5 DEF Injection, IsInjective
  <2>7. \A U \in new : \E T \in old : f[T] = U
    BY <2>4, Zenon
  <2>8. f \in Surjection(old, new)
    BY <2>5, <2>7, Zenon DEF Surjection
  <2> QED
    BY <2>6, <2>8, Zenon DEF Bijection
<1>2. IsFiniteSet(old) /\ Cardinality(old) = 2 ^ n /\ 2 ^ n \in Nat
  BY SubsetsOfAnInterval
<1>3. IsFiniteSet(new) /\ Cardinality(new) = Cardinality(old)
  BY <1>1, <1>2, FS_Bijection DEF ExistsBijection
<1>4. SUBSET (1 .. n + 1) = old \cup new
  OBVIOUS
<1>5. old \cap new = {}
  OBVIOUS
<1>6. Cardinality(old \cap new) = 0
  BY <1>5, FS_EmptySet
<1>7. Cardinality(old \cup new) = Cardinality(old) + Cardinality(new) - Cardinality(old \cap new)
  BY <1>2, <1>3, FS_Union
<1>8. Cardinality(SUBSET (1 .. n + 1)) = 2 ^ (n + 1)
  <2>1. n + 1 \in Nat
    OBVIOUS
  <2> QED
    BY <2>1, SubsetsOfAnInterval
<1>9. PICK p \in Nat : p = 2 ^ n
  BY <1>2
<1>10. 2 ^ (n + 1) = p + p - 0
  BY <1>2, <1>3, <1>4, <1>6, <1>7, <1>8, <1>9, Zenon
<1>11. p + p - 0 = 2 * p
  OBVIOUS
<1> QED
  BY <1>2, <1>9, <1>10, <1>11, Zenon

-----------------------------------------------------------------------------
(* From neighbours to all the points between.                                 *)

\* A reflexive and transitive relation that holds between neighbours holds between
\* any two points of an interval.
LEMMA NeighboursSuffice ==
    ASSUME NEW a \in Nat, NEW b \in Nat, NEW R,
           \A x \in a .. b : <<x, x>> \in R,
           \A x \in a .. b - 1 : <<x, x + 1>> \in R,
           IsTransitivelyClosedOn(R, a .. b)
    PROVE  \A x, y \in a .. b : x <= y => <<x, y>> \in R
<1> DEFINE S == {d \in Nat : \A x \in a .. b : x + d \in a .. b => <<x, x + d>> \in R}
<1>1. 0 \in S
  <2> SUFFICES ASSUME NEW x \in a .. b PROVE <<x, x + 0>> \in R
    OBVIOUS
  <2>1. x + 0 = x
    OBVIOUS
  <2> QED
    BY <2>1
<1>2. ASSUME NEW d \in S PROVE d + 1 \in S
  <2> SUFFICES ASSUME NEW x \in a .. b, x + (d + 1) \in a .. b
               PROVE  <<x, x + (d + 1)>> \in R
    OBVIOUS
  <2>1. d \in Nat
    OBVIOUS
  <2>2. x + d \in a .. b - 1 /\ x + d \in a .. b /\ (x + d) + 1 = x + (d + 1)
    BY <2>1
  <2>3. <<x, x + d>> \in R /\ <<x + d, x + (d + 1)>> \in R
    BY <2>2
  <2> QED
    BY <2>2, <2>3 DEF IsTransitivelyClosedOn
<1>3. S = Nat
  <2>1. S \in SUBSET Nat
    OBVIOUS
  <2> HIDE DEF S
  <2> QED
    BY <1>1, <1>2, <2>1, NatSetInduction
<1>4. ASSUME NEW x \in a .. b, NEW y \in a .. b, x <= y PROVE <<x, y>> \in R
  <2>1. y - x \in Nat /\ x + (y - x) = y
    BY <1>4
  <2>2. y - x \in S
    BY <1>3, <2>1
  <2> QED
    BY <2>1, <2>2
<1> QED
  BY <1>4

\* A curve that does not fall from one point to the next does not fall at all.
LEMMA RisingThroughout ==
    ASSUME NEW c \in [Points -> Nat], Rising(c)
    PROVE  \A x, y \in Points : x <= y => c[x] <= c[y]
<1> DEFINE R == {p \in Points \X Points : c[p[1]] <= c[p[2]]}
<1>1. \A x, y \in Points : <<x, y>> \in R <=> c[x] <= c[y]
  OBVIOUS
<1>2. \A x \in Points : c[x] \in Nat
  OBVIOUS
<1>3. \A x \in 0 .. Top : <<x, x>> \in R
  BY <1>1, <1>2 DEF Points
<1>4. ASSUME NEW x \in 0 .. Top - 1 PROVE <<x, x + 1>> \in R
  <2>1. x \in Points /\ x + 1 \in Points /\ x + 1 \in 1 .. Top /\ (x + 1) - 1 = x
    BY SearchAssumption DEF Points
  <2> QED
    BY <1>1, <2>1 DEF Rising
<1>5. IsTransitivelyClosedOn(R, 0 .. Top)
  BY <1>1, <1>2 DEF IsTransitivelyClosedOn, Points
<1> HIDE DEF R
<1> QED
  BY <1>1, <1>3, <1>4, <1>5, NeighboursSuffice, SearchAssumption DEF Points

LEMMA FallingThroughout ==
    ASSUME NEW c \in [Points -> Nat], Falling(c)
    PROVE  \A x, y \in Points : x <= y => c[x] >= c[y]
<1> DEFINE R == {p \in Points \X Points : c[p[1]] >= c[p[2]]}
<1>1. \A x, y \in Points : <<x, y>> \in R <=> c[x] >= c[y]
  OBVIOUS
<1>2. \A x \in Points : c[x] \in Nat
  OBVIOUS
<1>3. \A x \in 0 .. Top : <<x, x>> \in R
  BY <1>1, <1>2 DEF Points
<1>4. ASSUME NEW x \in 0 .. Top - 1 PROVE <<x, x + 1>> \in R
  <2>1. x \in Points /\ x + 1 \in Points /\ x + 1 \in 1 .. Top /\ (x + 1) - 1 = x
    BY SearchAssumption DEF Points
  <2> QED
    BY <1>1, <2>1 DEF Falling
<1>5. IsTransitivelyClosedOn(R, 0 .. Top)
  BY <1>1, <1>2 DEF IsTransitivelyClosedOn, Points
<1> HIDE DEF R
<1> QED
  BY <1>1, <1>3, <1>4, <1>5, NeighboursSuffice, SearchAssumption DEF Points

\* Between two changes the curve stays where it is.
LEMMA ConstantWithoutChange ==
    ASSUME NEW c \in [Points -> Nat], NEW a \in Points, NEW b \in Points,
           \A t \in a + 1 .. b : c[t] = c[t - 1]
    PROVE  \A t \in a .. b : c[t] = c[a]
<1> DEFINE R == {p \in Points \X Points : c[p[1]] = c[p[2]]}
<1>1. /\ a \in Nat /\ b \in Nat /\ a .. b \subseteq Points
      /\ \A x, y \in Points : <<x, y>> \in R <=> c[x] = c[y]
  BY SearchAssumption DEF Points
<1>2. \A x \in a .. b : <<x, x>> \in R
  BY <1>1
<1>3. ASSUME NEW x \in a .. b - 1 PROVE <<x, x + 1>> \in R
  <2>1. x \in Points /\ x + 1 \in Points /\ x + 1 \in a + 1 .. b /\ (x + 1) - 1 = x
    BY <1>1, SearchAssumption DEF Points
  <2> QED
    BY <1>1, <2>1
<1>4. IsTransitivelyClosedOn(R, a .. b)
  BY <1>1 DEF IsTransitivelyClosedOn
<1> HIDE DEF R
<1>5. \A x, y \in a .. b : x <= y => <<x, y>> \in R
  BY <1>1, <1>2, <1>3, <1>4, NeighboursSuffice
<1>6. ASSUME NEW t \in a .. b PROVE c[t] = c[a]
  <2>1. a \in a .. b /\ a <= t
    BY <1>1
  <2> QED
    BY <1>1, <1>5, <2>1
<1> QED
  BY <1>6

-----------------------------------------------------------------------------
(* Convergence.  A bracket is at most a power of two wide, and loses a factor *)
(* of it in every round, whichever way the middle is rounded: on a grid of no *)
(* more than 2^Rounds points the last bracket is two neighbours.              *)

\* The totals rise with the speed, past the last plannable speed too.
LEMMA TotalsRise ==
    ASSUME NEW c \in Totals
    PROVE  \A x, y \in Points : x <= y => c[x] <= c[y]
<1>1. PICK reaction \in 0 .. MaxReaction, plannable \in Points,
           braking \in [Points -> Values] :
        /\ braking[0] = 0 /\ Rising(braking)
        /\ c = [speed \in Points |-> IF speed > plannable THEN Infinity
                                     ELSE speed * reaction + braking[speed]]
  BY DEF Totals
<1> SUFFICES ASSUME NEW x \in Points, NEW y \in Points, x <= y PROVE c[x] <= c[y]
  OBVIOUS
<1>2. /\ x \in Nat /\ y \in Nat /\ plannable \in Nat /\ reaction \in Nat
      /\ MaxValue \in Nat /\ MaxReaction \in Nat /\ Top \in Nat /\ x <= Top
      /\ braking[x] \in 0 .. MaxValue /\ braking[y] \in 0 .. MaxValue
  BY SearchAssumption DEF Points, Values
<1>3. braking[x] <= braking[y]
  <2>1. braking \in [Points -> Nat]
    BY SearchAssumption DEF Values
  <2> QED
    BY <1>1, <2>1, RisingThroughout
<1>4. x * reaction \in Nat /\ y * reaction \in Nat /\ MaxReaction * Top \in Nat
  BY <1>2, ProductIsNatural
<1>5. x * reaction <= y * reaction
  <2>1. y - x \in Nat
    BY <1>2
  <2>2. y * reaction = x * reaction + (y - x) * reaction /\ (y - x) * reaction \in Nat
    BY <1>2, <2>1, ProductIsNatural
  <2> QED
    BY <1>4, <2>2
<1>6. x * reaction <= MaxReaction * Top
  <2>1. Top - x \in Nat /\ MaxReaction - reaction \in Nat
    BY <1>2
  <2>2. MaxReaction * Top = x * reaction + (Top - x) * reaction
                              + (MaxReaction - reaction) * Top
    BY <1>2
  <2>3. (Top - x) * reaction \in Nat /\ (MaxReaction - reaction) * Top \in Nat
    BY <1>2, <2>1, ProductIsNatural
  <2> QED
    BY <1>4, <2>2, <2>3
<1>7. x * reaction + braking[x] <= y * reaction + braking[y]
  BY <1>2, <1>3, <1>4, <1>5
<1>8. x * reaction + braking[x] <= Infinity /\ Infinity \in Nat
  BY <1>2, <1>4, <1>6 DEF Infinity
<1>9. /\ c[x] = IF x > plannable THEN Infinity ELSE x * reaction + braking[x]
      /\ c[y] = IF y > plannable THEN Infinity ELSE y * reaction + braking[y]
  BY <1>1
<1>10. CASE y > plannable
  BY <1>2, <1>4, <1>8, <1>9, <1>10
<1>11. CASE ~(y > plannable)
  <2>1. ~(x > plannable)
    BY <1>2, <1>11
  <2> QED
    BY <1>7, <1>9, <1>11, <2>1
<1> QED
  BY <1>10, <1>11

\* The shape the searches rely on.
CurveInv ==
    /\ task = "permittedSpeed" => \A x, y \in Points : x <= y => curve[x] <= curve[y]
    /\ task = "residualTravel" => \A x, y \in Points : x <= y => curve[x] >= curve[y]

LEMMA InitCurveInv == Init => CurveInv
<1> SUFFICES ASSUME Init PROVE CurveInv
  OBVIOUS
<1>1. CASE task = "permittedSpeed"
  BY <1>1, TotalsRise DEF Init, CurveInv
<1>2. CASE task = "residualTravel"
  <2>1. curve \in [Points -> Nat] /\ Falling(curve)
    BY <1>2, SearchAssumption DEF Init, Decelerations, Values
  <2> QED
    BY <1>2, <2>1, FallingThroughout DEF CurveInv
<1> QED
  BY <1>1, <1>2 DEF CurveInv

LEMMA CallStays == [Next]_vars => UNCHANGED call
BY DEF Next, PermittedSpeed, ResidualTravel, BrakingPhases, ReferenceTrace, Halve,
       Return, ScanStep, PushPhase, PushLastPhase, ScanRunsOut, vars

\* The bracket after round rounds of a search that has Rounds of them.
NarrowInv == pc = "search" => high - low <= 2 ^ (Rounds - round)

\* Half of an interval that is at most twice as wide, rounded either way.
LEMMA HalfIsNarrow ==
    ASSUME NEW a \in Nat, NEW b \in Nat, a <= b, NEW w \in Nat, b - a <= 2 * w,
           NEW m \in {(a + b) \div 2, (a + b + 1) \div 2}
    PROVE  m - a <= w /\ b - m <= w
<1>1. CASE m = (a + b) \div 2
  BY <1>1
<1>2. CASE m = (a + b + 1) \div 2
  BY <1>2
<1> QED
  BY <1>1, <1>2

\* A round halves the bracket; a search begins with one no wider than the grid.
LEMMA NextNarrowInv ==
    ASSUME Top <= 2 ^ Rounds, IInv, NarrowInv, [Next]_vars
    PROVE  NarrowInv'
<1> USE DEF NarrowInv
<1>1. Rounds \in Nat /\ Top \in Nat /\ Rounds - 0 = Rounds
  BY SearchAssumption
<1>2. CASE PermittedSpeed \/ ResidualTravel
  <2>1. pc' = "search" => low' = 0 /\ high' = Top /\ round' = 0
    BY <1>2 DEF PermittedSpeed, ResidualTravel, Search, Answer
  <2> QED
    BY <1>1, <2>1
<1>3. CASE Halve
  <2>1. PICK middle \in {(low + high) \div 2, (low + high + 1) \div 2} : HalveAt(middle)
    BY <1>3 DEF Halve
  <2>2. /\ pc = "search" /\ round < Rounds /\ round' = round + 1
        /\ low \in Nat /\ high \in Nat /\ low <= high /\ round \in Nat
    BY <1>3, SearchAssumption DEF Halve, IInv, TypeOK, Points, Bracket
  <2>3. PICK k \in Nat : k = Rounds - round'
    BY <1>1, <2>2
  <2>4. Rounds - round = k + 1
    BY <1>1, <2>2, <2>3
  <2>5. 2 ^ k \in Nat /\ 2 ^ (k + 1) = 2 * 2 ^ k
    BY PowerOfTwo
  <2>6. PICK w \in Nat : w = 2 ^ k
    BY <2>5
  <2>7. high - low <= 2 * w
    <3>1. high - low <= 2 ^ (k + 1)
      BY <2>2, <2>4
    <3> QED
      BY <2>5, <2>6, <3>1
  <2>8. middle - low <= w /\ high - middle <= w
    BY <2>2, <2>7, HalfIsNarrow
  <2>9. high' - low' <= w
    BY <2>1, <2>8 DEF HalveAt
  <2> QED
    BY <2>3, <2>6, <2>9
<1>4. CASE ScanStep
  <2>1. CASE pc' = "search"
    <3>1. /\ low' = (scan - 1) * step /\ high' = scan * step /\ round' = 0
          /\ scan * step < Top
      BY <1>4, <2>1 DEF ScanStep, Search
    <3>2. scan \in Nat /\ scan >= 1 /\ step \in Nat
      BY DEF IInv, TypeOK, ScanInv
    <3>3. high' - low' = step
      BY <3>1, <3>2
    <3>4. step <= Top
      BY <1>1, <1>4, <3>2 DEF IInv, ScanInv, ScanStep
    <3>5. 2 ^ Rounds \in Nat
      BY <1>1, PowerOfTwo
    <3> QED
      BY <1>1, <3>1, <3>3, <3>4, <3>5, SearchAssumption
  <2> QED
    BY <2>1
<1>5. CASE UNCHANGED vars
  BY <1>5 DEF vars
<1>6. CASE \/ BrakingPhases \/ ReferenceTrace \/ Return
           \/ PushPhase \/ PushLastPhase \/ ScanRunsOut
  BY <1>6 DEF BrakingPhases, ReferenceTrace, Return, Answer, PushPhase, PushLastPhase,
              ScanRunsOut
<1> QED
  BY <1>2, <1>3, <1>4, <1>5, <1>6 DEF Next

\* A search for a speed is made for some room.
RoomInv == pc = "search" /\ task = "permittedSpeed" => goal > 0

LEMMA NextRoomInv == IInv /\ RoomInv /\ [Next]_vars => RoomInv'
<1> SUFFICES ASSUME IInv, RoomInv, [Next]_vars PROVE RoomInv'
  OBVIOUS
<1> USE DEF RoomInv
<1>1. CASE PermittedSpeed \/ ResidualTravel \/ BrakingPhases \/ ReferenceTrace
  BY <1>1 DEF PermittedSpeed, ResidualTravel, BrakingPhases, ReferenceTrace, Answer
<1>2. CASE Halve \/ Return
  BY <1>2 DEF Halve, Return, Answer
<1>3. CASE ScanStep \/ PushPhase \/ PushLastPhase \/ ScanRunsOut
  BY <1>3 DEF ScanStep, PushPhase, PushLastPhase, ScanRunsOut, IInv, ScanInv
<1>4. CASE UNCHANGED vars
  BY <1>4 DEF vars
<1> QED
  BY <1>1, <1>2, <1>3, <1>4 DEF Next

ConvergenceInv == IInv /\ CurveInv /\ RoomInv /\ NarrowInv

LEMMA ConvergenceInvHolds == ASSUME Top <= 2 ^ Rounds PROVE Spec => []ConvergenceInv
<1>1. Init => ConvergenceInv
  BY InitIInv, InitCurveInv DEF ConvergenceInv, NarrowInv, RoomInv, Init
<1>2. ConvergenceInv /\ [Next]_vars => (CurveInv /\ RoomInv /\ NarrowInv)'
  <2> SUFFICES ASSUME ConvergenceInv, [Next]_vars
               PROVE  CurveInv' /\ RoomInv' /\ NarrowInv'
    OBVIOUS
  <2>1. NarrowInv' /\ RoomInv'
    BY NextNarrowInv, NextRoomInv DEF ConvergenceInv
  <2> QED
    BY <2>1, CallStays DEF ConvergenceInv, CurveInv
<1> QED
  BY <1>1, <1>2, IInvHolds, PTL DEF Spec, ConvergenceInv

\* When the rounds are over the ends of the bracket are neighbours.
LEMMA LastBracket ==
    ASSUME ConvergenceInv, pc = "search", round = Rounds, curve[low] # curve[high]
    PROVE  high = low + 1
<1>1. low \in Nat /\ high \in Nat /\ low <= high
  BY SearchAssumption DEF ConvergenceInv, IInv, TypeOK, Points, Bracket
<1>2. Rounds - round = 0 /\ 2 ^ 0 = 1
  BY SearchAssumption
<1>3. high - low <= 1
  BY <1>2 DEF ConvergenceInv, NarrowInv
<1> QED
  BY <1>1, <1>3

LEMMA NextHighestSpeed ==
    ASSUME ConvergenceInv, HighestSpeedThatFits, [Next]_vars
    PROVE  HighestSpeedThatFits'
<1> USE DEF HighestSpeedThatFits
<1>1. curve \in [Points -> Nat] /\ goal \in Nat /\ low \in Points /\ high \in Points
  BY DEF ConvergenceInv, IInv, TypeOK
<1>2. CASE PermittedSpeed
  <2>1. CASE goal = 0 /\ Answer(0)
    BY <1>2, <2>1 DEF PermittedSpeed, Answer, ConvergenceInv, IInv, StartInv
  <2>2. CASE goal > 0 /\ curve[Top] <= goal /\ Answer(Top)
    BY <1>2, <2>2, SearchAssumption DEF PermittedSpeed, Answer, Points
  <2>3. CASE Search(0, Top)
    BY <2>3 DEF Search
  <2> QED
    BY <1>2, <2>1, <2>2, <2>3 DEF PermittedSpeed
<1>3. CASE Return
  <2> SUFFICES ASSUME task = "permittedSpeed" PROVE HighestSpeedThatFits'
    BY <1>3 DEF Return
  <2>1. /\ pc = "search" /\ round = Rounds /\ answer' = low
        /\ UNCHANGED <<task, curve, goal>>
    BY <1>3 DEF Return, Answer, EndOfBracket
  <2>2. curve[low] <= goal /\ goal < curve[high] /\ curve[low] \in Nat /\ curve[high] \in Nat
    BY <1>1, <2>1 DEF ConvergenceInv, IInv, Bracket
  <2>3. high = low + 1
    BY <1>1, <2>1, <2>2, LastBracket
  <2>4. ASSUME NEW x \in Points, curve[x] <= goal PROVE x <= low
    <3>1. x \in Nat /\ low \in Nat /\ curve[x] \in Nat
      BY <1>1, SearchAssumption DEF Points
    <3>2. CASE high <= x
      <4>1. curve[high] <= curve[x]
        BY <1>1, <2>1, <2>4, <3>2 DEF ConvergenceInv, CurveInv
      <4> QED
        BY <1>1, <2>2, <2>4, <3>1, <4>1
    <3>3. CASE ~(high <= x)
      BY <2>3, <3>1, <3>3
    <3> QED
      BY <3>2, <3>3
  <2>5. goal # 0
    BY <2>1 DEF ConvergenceInv, RoomInv
  <2> QED
    BY <2>1, <2>2, <2>4, <2>5
<1>4. CASE ResidualTravel \/ BrakingPhases \/ Halve \/ ScanStep \/ PushPhase
  BY <1>4 DEF ResidualTravel, BrakingPhases, Halve, ScanStep, PushPhase, Search,
              ConvergenceInv, IInv, ScanInv
<1>5. CASE PushLastPhase \/ ScanRunsOut \/ ReferenceTrace
  BY <1>5 DEF PushLastPhase, ScanRunsOut, ReferenceTrace, ConvergenceInv, IInv,
              ScanInv
<1>6. CASE UNCHANGED vars
  BY <1>6 DEF vars
<1> QED
  BY <1>2, <1>3, <1>4, <1>5, <1>6 DEF Next

LEMMA NextFirstInstant ==
    ASSUME ConvergenceInv, FirstInstantBelow, [Next]_vars
    PROVE  FirstInstantBelow'
<1> USE DEF FirstInstantBelow
<1>1. curve \in [Points -> Nat] /\ goal \in Nat /\ low \in Points /\ high \in Points
  BY DEF ConvergenceInv, IInv, TypeOK
<1>2. CASE Return
  <2> SUFFICES ASSUME task = "residualTravel" PROVE FirstInstantBelow'
    BY <1>2 DEF Return
  <2>1. /\ pc = "search" /\ round = Rounds /\ answer' = high
        /\ UNCHANGED <<task, curve, goal>>
    BY <1>2 DEF Return, Answer, EndOfBracket
  <2>2. curve[high] <= goal /\ goal < curve[low] /\ curve[low] \in Nat /\ curve[high] \in Nat
    BY <1>1, <2>1 DEF ConvergenceInv, IInv, Bracket
  <2>3. high = low + 1
    BY <1>1, <2>1, <2>2, LastBracket
  <2>4. ASSUME NEW t \in Points, curve[t] <= goal PROVE t >= high
    <3>1. t \in Nat /\ low \in Nat /\ curve[t] \in Nat
      BY <1>1, SearchAssumption DEF Points
    <3>2. CASE t <= low
      <4>1. curve[t] >= curve[low]
        BY <1>1, <2>1, <2>4, <3>2 DEF ConvergenceInv, CurveInv
      <4> QED
        BY <1>1, <2>2, <2>4, <3>1, <4>1
    <3>3. CASE ~(t <= low)
      BY <2>3, <3>1, <3>3
    <3> QED
      BY <3>2, <3>3
  <2> QED
    BY <2>1, <2>2, <2>4
<1>3. CASE PermittedSpeed
  BY <1>3 DEF PermittedSpeed
<1>4. CASE ResidualTravel \/ BrakingPhases \/ Halve \/ ScanStep \/ PushPhase
  BY <1>4 DEF ResidualTravel, BrakingPhases, Halve, ScanStep, PushPhase, Search,
              ConvergenceInv, IInv, ScanInv
<1>5. CASE PushLastPhase \/ ScanRunsOut \/ ReferenceTrace
  BY <1>5 DEF PushLastPhase, ScanRunsOut, ReferenceTrace, ConvergenceInv, IInv,
              ScanInv
<1>6. CASE UNCHANGED vars
  BY <1>6 DEF vars
<1> QED
  BY <1>2, <1>3, <1>4, <1>5, <1>6 DEF Next

\* "The answer is a speed that fits rather than one that is half an ulp past the
\* guard" (safety_distance.cpp:99-100), and no speed above it fits: for every braking
\* distance, reaction time and room, and whichever way the middles are rounded, when
\* the iterations are enough to part any two points of the grid.
THEOREM TheHighestSpeedIsFound ==
    ASSUME Top <= 2 ^ Rounds PROVE Spec => []HighestSpeedThatFits
<1>1. Init => HighestSpeedThatFits
  BY DEF Init, HighestSpeedThatFits
<1>2. Spec => []ConvergenceInv
  BY ConvergenceInvHolds
<1> QED
  BY <1>1, <1>2, NextHighestSpeed, PTL DEF Spec

\* residualTravelBelow travels up to "the first instant the speed is at or below the
\* threshold" (validation_package.cpp:144), for every deceleration and threshold.
THEOREM TheFirstInstantIsFound ==
    ASSUME Top <= 2 ^ Rounds PROVE Spec => []FirstInstantBelow
<1>1. Init => FirstInstantBelow
  BY DEF Init, FirstInstantBelow
<1>2. Spec => []ConvergenceInv
  BY ConvergenceInvHolds
<1> QED
  BY <1>1, <1>2, NextFirstInstant, PTL DEF Spec

-----------------------------------------------------------------------------
(* The phases are the runs of the curve.  Where no run is shorter than a scan *)
(* step, a step holds at most one change: a step whose ends agree holds none, *)
(* and the bisection of another ends at its only one.                         *)

Untils(s) == {s[i].until : i \in DOMAIN s}

\* What was pushed: runs of the curve, up to every change passed so far.
PushedInv ==
    /\ \A i \in DOMAIN phases :
         \A t \in phases[i].from .. phases[i].until - 1 : curve[t] = phases[i].jerk
    /\ Untils(phases) = IF pc # "done" THEN {t \in Changes : t <= phaseStart}
                       ELSE IF ScanReachesTheEnd THEN Changes
                       ELSE Changes \ {Top}

\* What is under way: a run from a change, as far as the scan has looked.
UnderWayInv ==
    pc # "done" =>
        /\ phaseStart \in {0} \cup Changes
        /\ \A t \in phaseStart .. (scan - 1) * step : curve[t] = goal
        /\ pc = "search" => curve[low] = goal

RunsInv == task = "brakingPhases" /\ Resolvable => PushedInv /\ UnderWayInv

LEMMA ChangesArePoints ==
    /\ Changes \subseteq Points
    /\ Top \in Changes
    /\ \A t \in Changes : t >= 1
    /\ \A t \in 1 .. Top - 1 : t \in Changes <=> curve[t] # curve[t - 1]
BY SearchAssumption DEF Changes, Points

\* The scan step under way and its ends.
LEMMA StepEnds ==
    ASSUME IInv, task = "brakingPhases"
    PROVE  /\ step \in Nat \ {0}
           /\ (scan - 1) * step \in Points
           /\ (scan - 1) * step < Top
           /\ scan * step = (scan - 1) * step + step
           /\ phaseStart <= (scan - 1) * step
<1>1. /\ scan \in Nat /\ scan - 1 \in Nat /\ step \in Nat \ {0}
      /\ (scan - 1) * step < Top /\ phaseStart <= (scan - 1) * step
  BY SearchAssumption DEF IInv, TypeOK, ScanInv
<1>2. (scan - 1) * step \in Nat
  BY <1>1, ProductIsNatural
<1>3. scan * step = (scan - 1) * step + step
  BY <1>1
<1> QED
  BY <1>1, <1>2, <1>3, SearchAssumption DEF Points

\* A stretch without a change, looked at as far as its beginning, is all one run.
LEMMA QuietStretch ==
    ASSUME TypeOK, NEW a \in Points, NEW b \in Points, b < Top,
           \A t \in Changes : ~(a < t /\ t <= b)
    PROVE  \A t \in a .. b : curve[t] = curve[a]
<1>1. a \in Nat /\ b \in Nat /\ Top \in Nat
  BY SearchAssumption DEF Points
<1>2. ASSUME NEW t \in a + 1 .. b PROVE curve[t] = curve[t - 1]
  <2>1. t \in 1 .. Top - 1 /\ a < t /\ t <= b
    BY <1>1
  <2>2. t \notin Changes
    BY <2>1
  <2> QED
    BY <2>1, <2>2, ChangesArePoints
<1> QED
  BY <1>2, ConstantWithoutChange DEF TypeOK

\* Two changes do not fit in one step.
LEMMA OneChangeInAStep ==
    ASSUME TypeOK, Resolvable, NEW a \in Points, NEW s \in Changes, NEW t \in Changes,
           a < s, s < t
    PROVE  a + step < t
<1>1. s + step <= t
  BY DEF Resolvable
<1>2. a \in Nat /\ s \in Nat /\ t \in Nat /\ step \in Nat
  BY ChangesArePoints, SearchAssumption DEF Points, TypeOK
<1> QED
  BY <1>1, <1>2

\* No change lies between the last one pushed and where the scan has looked.
LEMMA NoChangeUnderWay ==
    ASSUME IInv, task = "brakingPhases", UnderWayInv, pc # "done",
           NEW t \in Changes, phaseStart < t
    PROVE  t > (scan - 1) * step
<1> SUFFICES ASSUME t <= (scan - 1) * step PROVE FALSE
  BY ChangesArePoints, StepEnds, SearchAssumption DEF Points
<1> DEFINE a == (scan - 1) * step
<1>1. /\ a \in Nat /\ a < Top /\ Top \in Nat
      /\ phaseStart \in Nat /\ t \in Nat /\ t <= a
  BY StepEnds, ChangesArePoints, SearchAssumption DEF Points, IInv, TypeOK
<1>2. t \in phaseStart .. a /\ t - 1 \in phaseStart .. a /\ t \in 1 .. Top - 1
  BY <1>1
<1>3. curve[t] = goal /\ curve[t - 1] = goal
  BY <1>2 DEF UnderWayInv
<1> QED
  BY <1>2, <1>3, ChangesArePoints

LEMMA PushAddsAnEnd ==
    ASSUME TypeOK, NEW boundary \in Points, Push(boundary),
           \A i \in DOMAIN phases :
             \A t \in phases[i].from .. phases[i].until - 1 : curve[t] = phases[i].jerk,
           \A t \in phaseStart .. boundary - 1 : curve[t] = goal
    PROVE  /\ Untils(phases') = Untils(phases) \cup {boundary}
           /\ \A i \in DOMAIN phases' :
                \A t \in phases'[i].from .. phases'[i].until - 1 :
                    curve[t] = phases'[i].jerk
<1> DEFINE phase == [from |-> phaseStart, until |-> boundary, jerk |-> goal]
<1>1. /\ phases \in Seq(Phase)
      /\ phase \in Phase
      /\ phases' = Append(phases, phase)
  BY DEF TypeOK, Push, Phase
<1>2. /\ Len(phases) \in Nat
      /\ DOMAIN phases' = 1 .. Len(phases) + 1
      /\ DOMAIN phases = 1 .. Len(phases)
      /\ phases'[Len(phases) + 1] = phase
      /\ \A i \in 1 .. Len(phases) : phases'[i] = phases[i]
  BY <1>1
<1>3. phase.from = phaseStart /\ phase.until = boundary /\ phase.jerk = goal
  OBVIOUS
<1>4. \A i \in DOMAIN phases' : i \in DOMAIN phases \/ i = Len(phases) + 1
  BY <1>2
<1>5. \A i \in DOMAIN phases : i \in DOMAIN phases' /\ phases'[i] = phases[i]
  BY <1>2
<1>6. Len(phases) + 1 \in DOMAIN phases'
  BY <1>2
<1> HIDE DEF phase
<1>7. Untils(phases') = Untils(phases) \cup {boundary}
  <2>1. \A u \in Untils(phases) : u \in Untils(phases')
    BY <1>5 DEF Untils
  <2>2. boundary \in Untils(phases')
    BY <1>2, <1>3, <1>6, Zenon DEF Untils
  <2>3. \A u \in Untils(phases') : u \in Untils(phases) \cup {boundary}
    <3> SUFFICES ASSUME NEW i \in DOMAIN phases'
                 PROVE  phases'[i].until \in Untils(phases) \cup {boundary}
      BY Zenon DEF Untils
    <3>1. CASE i \in DOMAIN phases
      BY <1>5, <3>1 DEF Untils
    <3>2. CASE i = Len(phases) + 1
      BY <1>2, <1>3, <3>2
    <3> QED
      BY <1>4, <3>1, <3>2
  <2> QED
    BY <2>1, <2>2, <2>3
<1>8. ASSUME NEW i \in DOMAIN phases'
      PROVE  \A t \in phases'[i].from .. phases'[i].until - 1 : curve[t] = phases'[i].jerk
  <2>1. CASE i \in DOMAIN phases
    BY <1>5, <2>1
  <2>2. CASE i = Len(phases) + 1
    BY <1>2, <1>3, <2>2
  <2> QED
    BY <1>4, <2>1, <2>2
<1> QED
  BY <1>7, <1>8

LEMMA InitRunsInv == Init => RunsInv
<1> SUFFICES ASSUME Init, task = "brakingPhases" PROVE PushedInv /\ UnderWayInv
  BY DEF RunsInv
<1>1. /\ phases = <<>> /\ phaseStart = 0 /\ scan = 1 /\ pc = "start" /\ goal = curve[0]
  BY DEF Init
<1>2. (scan - 1) * step = 0
  BY <1>1, InitTypeOK DEF TypeOK
<1>3. DOMAIN phases = {} /\ Untils(phases) = {}
  <2>1. DOMAIN phases = {}
    BY <1>1
  <2> QED
    BY <2>1 DEF Untils
<1>4. {t \in Changes : t <= phaseStart} = {}
  <2>1. \A t \in Changes : ~(t <= 0)
    BY ChangesArePoints, SearchAssumption DEF Points
  <2> QED
    BY <1>1, <2>1
<1>5. \A t \in 0 .. 0 : t = 0
  OBVIOUS
<1> QED
  BY <1>1, <1>2, <1>3, <1>4, <1>5 DEF PushedInv, UnderWayInv

\* A step whose ends agree holds no change.
LEMMA PassedStep ==
    ASSUME IInv, task = "brakingPhases", Resolvable, UnderWayInv, pc = "scan",
           scan * step < Top, curve[scan * step] = goal
    PROVE  \A t \in phaseStart .. scan * step : curve[t] = goal
<1> DEFINE a == (scan - 1) * step
           b == scan * step
<1>1. /\ a \in Points /\ b \in Points /\ a \in Nat /\ b \in Nat /\ b < Top
      /\ b = a + step /\ phaseStart <= a /\ phaseStart \in Nat
      /\ step \in Nat \ {0} /\ Top \in Nat
  BY StepEnds, SearchAssumption DEF Points, IInv, TypeOK
<1>2. TypeOK /\ curve[a] = goal /\ \A t \in phaseStart .. a : curve[t] = goal
  <2>1. a \in phaseStart .. a
    BY <1>1
  <2> QED
    BY <2>1 DEF UnderWayInv, IInv
<1>3. curve[b] = goal
  OBVIOUS
<1> HIDE DEF a, b
<1>4. ASSUME NEW t \in Changes, a < t, t <= b PROVE FALSE
  <2>1. t \in Nat /\ t - 1 \in Points /\ t \in Points /\ t \in 1 .. Top - 1
    BY <1>1, <1>4, ChangesArePoints, SearchAssumption DEF Points
  <2>2. \A s \in Changes : ~(a < s /\ s <= t - 1)
    <3> SUFFICES ASSUME NEW s \in Changes, a < s, s <= t - 1 PROVE FALSE
      OBVIOUS
    <3>1. s \in Nat /\ s < t
      BY <2>1, ChangesArePoints, SearchAssumption DEF Points
    <3>2. a + step < t
      BY <1>1, <1>2, <3>1, OneChangeInAStep
    <3> QED
      BY <1>1, <1>4, <2>1, <3>2
  <2>3. \A s \in Changes : ~(t < s /\ s <= b)
    <3> SUFFICES ASSUME NEW s \in Changes, t < s, s <= b PROVE FALSE
      OBVIOUS
    <3>1. s \in Nat /\ a + step < s
      BY <1>1, <1>2, <1>4, OneChangeInAStep, ChangesArePoints, SearchAssumption
         DEF Points
    <3> QED
      BY <1>1, <3>1
  <2>4. \A s \in a .. t - 1 : curve[s] = curve[a]
    BY <1>1, <1>2, <2>1, <2>2, QuietStretch
  <2>5. \A s \in t .. b : curve[s] = curve[t]
    BY <1>1, <1>2, <2>1, <2>3, QuietStretch
  <2>6. curve[t - 1] = goal /\ curve[t] = goal
    <3>1. t - 1 \in a .. t - 1 /\ b \in t .. b
      BY <1>1, <1>4, <2>1
    <3> QED
      BY <1>2, <1>3, <2>4, <2>5, <3>1
  <2> QED
    BY <2>1, <2>6, ChangesArePoints
<1>5. \A t \in a .. b : curve[t] = goal
  BY <1>1, <1>2, <1>4, QuietStretch
<1>6. \A t \in phaseStart .. b : curve[t] = goal
  <2> TAKE t \in phaseStart .. b
  <2>1. t \in phaseStart .. a \/ t \in a .. b
    BY <1>1
  <2> QED
    BY <1>2, <1>5, <2>1
<1> QED
  BY <1>6 DEF b

\* The bisection of a step ends at its change, and the run it ends is all there.
LEMMA PinnedStep ==
    ASSUME ConvergenceInv, task = "brakingPhases", Resolvable, UnderWayInv,
           pc = "search", round = Rounds
    PROVE  /\ high \in Changes
           /\ high <= scan * step /\ scan * step < Top
           /\ phaseStart < high
           /\ \A t \in phaseStart .. high - 1 : curve[t] = goal
           /\ \A t \in high .. scan * step : curve[t] = curve[high]
           /\ \A t \in Changes : t <= high => t <= phaseStart \/ t = high
<1> DEFINE a == (scan - 1) * step
           b == scan * step
<1>1. /\ a \in Points /\ b \in Points /\ a \in Nat /\ b \in Nat /\ b < Top
      /\ b = a + step /\ phaseStart <= a /\ phaseStart \in Nat
      /\ step \in Nat \ {0} /\ Top \in Nat
  BY StepEnds, SearchAssumption DEF Points, ConvergenceInv, IInv, TypeOK, ScanInv
<1>2. /\ TypeOK /\ low \in Nat /\ high \in Nat /\ low \in Points /\ high \in Points
      /\ a <= low /\ high <= b
  BY SearchAssumption DEF ConvergenceInv, IInv, TypeOK, Points, ScanInv
<1>3. curve[low] = goal /\ curve[high] # goal
  BY DEF UnderWayInv, ConvergenceInv, IInv, Bracket
<1>4. high = low + 1
  BY <1>3, LastBracket
<1>5. \A t \in phaseStart .. a : curve[t] = goal
  BY DEF UnderWayInv
<1>6. \A t \in Changes : phaseStart < t => t > a
  BY NoChangeUnderWay DEF ConvergenceInv
<1> HIDE DEF a
<1>7. high \in Changes
  <2>1. high \in 1 .. Top - 1 /\ high - 1 = low
    BY <1>1, <1>2, <1>4
  <2> QED
    BY <1>3, <2>1, ChangesArePoints
<1>8. \A t \in Changes : ~(a < t /\ t <= low)
  <2> SUFFICES ASSUME NEW t \in Changes, a < t, t <= low PROVE FALSE
    OBVIOUS
  <2>1. t \in Nat /\ t < high
    BY <1>2, <1>4, ChangesArePoints, SearchAssumption DEF Points
  <2>2. a + step < high
    BY <1>1, <1>2, <1>7, <2>1, OneChangeInAStep
  <2> QED
    BY <1>1, <1>2, <2>2
<1>9. \A t \in Changes : ~(high < t /\ t <= b)
  <2> SUFFICES ASSUME NEW t \in Changes, high < t, t <= b PROVE FALSE
    OBVIOUS
  <2>1. t \in Nat /\ a < high
    BY <1>2, <1>4, ChangesArePoints, SearchAssumption, <1>1 DEF Points
  <2>2. a + step < t
    BY <1>1, <1>2, <1>7, <2>1, OneChangeInAStep
  <2> QED
    BY <1>1, <2>1, <2>2
<1>10. \A t \in a .. low : curve[t] = curve[a]
  BY <1>1, <1>2, <1>4, <1>8, QuietStretch
<1>11. \A t \in high .. b : curve[t] = curve[high]
  BY <1>1, <1>2, <1>9, QuietStretch
<1>12. \A t \in phaseStart .. high - 1 : curve[t] = goal
  <2> TAKE t \in phaseStart .. high - 1
  <2>1. t \in phaseStart .. a \/ t \in a .. low
    BY <1>1, <1>2, <1>4
  <2>2. a \in phaseStart .. a
    BY <1>1
  <2> QED
    BY <1>5, <1>10, <2>1, <2>2
<1>13. ASSUME NEW t \in Changes, t <= high, ~(t <= phaseStart) PROVE t = high
  <2>1. t \in Nat
    BY ChangesArePoints, SearchAssumption DEF Points
  <2>2. t > a
    BY <1>1, <1>6, <1>13, <2>1
  <2>3. ~(t <= low)
    BY <1>8, <2>2, <1>1, <2>1
  <2> QED
    BY <1>2, <1>4, <1>13, <2>1, <2>3
<1> QED
  BY <1>1, <1>2, <1>4, <1>7, <1>11, <1>12, <1>13 DEF b

\* From a step that begins the last stretch no other change is left but the end.
LEMMA LastRun ==
    ASSUME IInv, task = "brakingPhases", Resolvable, UnderWayInv, pc = "scan",
           Top <= scan * step \/ scan > scanSteps
    PROVE  /\ \A t \in phaseStart .. Top - 1 : curve[t] = goal
           /\ \A t \in Changes : t <= phaseStart \/ t = Top
<1> DEFINE a == (scan - 1) * step
<1>1. /\ a \in Points /\ a \in Nat /\ a < Top /\ phaseStart <= a
      /\ phaseStart \in Nat /\ step \in Nat /\ Top \in Nat /\ scan * step = a + step
  BY StepEnds, SearchAssumption DEF Points, IInv, TypeOK
<1>2. \A t \in phaseStart .. a : curve[t] = goal
  BY DEF UnderWayInv
<1>3. \A t \in Changes : phaseStart < t => t > a
  BY NoChangeUnderWay
<1>4. Top <= a + step
  <2>1. CASE Top <= scan * step
    BY <1>1, <2>1
  <2>2. CASE scan > scanSteps
    <3>1. scan = scanSteps + 1 /\ Top < (scanSteps + 1) * step
      BY <2>2 DEF IInv, TypeOK, ScanInv
    <3>2. Top < scan * step
      BY <3>1
    <3> QED
      BY <1>1, <3>2
  <2> QED
    BY <2>1, <2>2
<1> HIDE DEF a
<1>5. \A t \in Changes : a < t => t = Top
  <2> SUFFICES ASSUME NEW t \in Changes, a < t, t < Top PROVE FALSE
    BY <1>1, ChangesArePoints, SearchAssumption DEF Points
  <2>1. a + step < Top
    BY <1>1, OneChangeInAStep, ChangesArePoints DEF IInv
  <2> QED
    BY <1>1, <1>4, <2>1
<1>6. \A t \in a .. Top - 1 : curve[t] = curve[a]
  <2>1. Top - 1 \in Points /\ Top - 1 < Top /\ TypeOK
    BY <1>1, SearchAssumption DEF Points, IInv
  <2>2. \A t \in Changes : ~(a < t /\ t <= Top - 1)
    BY <1>1, <1>5
  <2> QED
    BY <1>1, <2>1, <2>2, QuietStretch
<1>7. ASSUME NEW t \in phaseStart .. Top - 1 PROVE curve[t] = goal
  <2>1. t \in phaseStart .. a \/ t \in a .. Top - 1
    BY <1>1
  <2>2. a \in phaseStart .. a
    BY <1>1
  <2> QED
    BY <1>2, <1>6, <2>1, <2>2
<1>8. ASSUME NEW t \in Changes, ~(t <= phaseStart) PROVE t = Top
  <2>1. t \in Nat
    BY ChangesArePoints, SearchAssumption DEF Points
  <2> QED
    BY <1>1, <1>3, <1>5, <1>8, <2>1
<1> QED
  BY <1>7, <1>8

LEMMA NextRunsInv == ConvergenceInv /\ RunsInv /\ [Next]_vars => RunsInv'
<1> SUFFICES ASSUME ConvergenceInv, RunsInv, [Next]_vars,
                    task' = "brakingPhases", Resolvable'
             PROVE  PushedInv' /\ UnderWayInv'
  BY DEF RunsInv
<1>1. /\ UNCHANGED <<task, curve, step, scanSteps>>
      /\ task = "brakingPhases" /\ Resolvable
      /\ Changes' = Changes
      /\ ScanReachesTheEnd' <=> ScanReachesTheEnd
  BY CallStays DEF Resolvable, Changes, ScanReachesTheEnd
<1>2. IInv /\ TypeOK /\ PushedInv /\ UnderWayInv
  BY <1>1 DEF RunsInv, ConvergenceInv, IInv
<1>3. CASE BrakingPhases
  <2>1. /\ pc = "start" /\ pc' = "scan"
        /\ UNCHANGED <<curve, goal, scan, phaseStart, phases>>
    BY <1>3 DEF BrakingPhases
  <2>2. Untils(phases') = Untils(phases)
    BY <2>1 DEF Untils
  <2> QED
    BY <1>1, <1>2, <2>1, <2>2 DEF PushedInv, UnderWayInv
<1>4. CASE Halve
  <2>1. /\ pc = "search" /\ pc' = "search"
        /\ UNCHANGED <<curve, goal, scan, phaseStart, phases>>
        /\ low' = low \/ curve[low'] = goal
    BY <1>1, <1>4 DEF Halve, HalveAt, GoesOn
  <2>2. Untils(phases') = Untils(phases)
    BY <2>1 DEF Untils
  <2> QED
    BY <1>1, <1>2, <2>1, <2>2 DEF PushedInv, UnderWayInv
<1>5. CASE ScanStep
  <2>1. /\ pc = "scan" /\ scan * step < Top
        /\ UNCHANGED <<curve, goal, phaseStart, phases>>
    BY <1>5 DEF ScanStep
  <2>2. Untils(phases') = Untils(phases)
    BY <2>1 DEF Untils
  <2>3. PushedInv'
    BY <1>1, <1>2, <1>5, <2>1, <2>2 DEF PushedInv, ScanStep, Search
  <2>4. CASE curve[scan * step] = goal
    <3>1. scan' = scan + 1 /\ pc' = "scan"
      BY <1>5, <2>4 DEF ScanStep
    <3>2. (scan' - 1) * step = scan * step
      <4>1. scan' - 1 = scan
        BY <1>2, <3>1 DEF TypeOK
      <4> QED
        BY <4>1
    <3>3. \A t \in phaseStart .. scan * step : curve[t] = goal
      BY <1>1, <1>2, <2>1, <2>4, PassedStep
    <3> QED
      BY <1>1, <1>2, <2>1, <2>3, <3>1, <3>2, <3>3 DEF UnderWayInv
  <2>5. CASE curve[scan * step] # goal
    <3>1. scan' = scan /\ pc' = "search" /\ low' = (scan - 1) * step
      BY <1>5, <2>5 DEF ScanStep, Search
    <3>2. (scan - 1) * step \in phaseStart .. (scan - 1) * step
      BY <1>1, <1>2, StepEnds, SearchAssumption DEF Points, TypeOK
    <3> QED
      BY <1>1, <1>2, <2>1, <2>3, <3>1, <3>2 DEF UnderWayInv
  <2> QED
    BY <2>4, <2>5
<1>6. CASE PushPhase
  <2>1. /\ pc = "search" /\ round = Rounds /\ pc' = "scan" /\ Push(high)
        /\ phaseStart' = high /\ goal' = curve[high] /\ scan' = scan + 1
        /\ UNCHANGED curve
    BY <1>6 DEF PushPhase, EndOfBracket
  <2>2. /\ high \in Changes /\ high \in Points /\ phaseStart < high
        /\ \A t \in phaseStart .. high - 1 : curve[t] = goal
        /\ \A t \in high .. scan * step : curve[t] = curve[high]
        /\ \A t \in Changes : t <= high => t <= phaseStart \/ t = high
    BY <1>1, <1>2, <2>1, PinnedStep, ChangesArePoints
  <2>3. (scan' - 1) * step = scan * step
    <3>1. scan' - 1 = scan
      BY <1>2, <2>1 DEF TypeOK
    <3> QED
      BY <3>1
  <2>4. UnderWayInv'
    BY <1>1, <2>1, <2>2, <2>3 DEF UnderWayInv
  <2>5. /\ Untils(phases') = Untils(phases) \cup {high}
        /\ \A i \in DOMAIN phases' :
             \A t \in phases'[i].from .. phases'[i].until - 1 : curve[t] = phases'[i].jerk
    BY <1>2, <2>1, <2>2, PushAddsAnEnd DEF PushedInv
  <2>6. {t \in Changes : t <= high} = {t \in Changes : t <= phaseStart} \cup {high}
    <3>1. \A t \in Changes : t <= phaseStart => t <= high
      BY <1>2, <2>2, ChangesArePoints, SearchAssumption DEF Points, TypeOK
    <3>2. high <= high
      BY <2>2, SearchAssumption DEF Points
    <3> QED
      BY <2>2, <3>1, <3>2
  <2>7. Untils(phases') = {t \in Changes : t <= high}
    BY <1>2, <2>1, <2>5, <2>6 DEF PushedInv
  <2>8. PushedInv'
    BY <1>1, <2>1, <2>5, <2>7 DEF PushedInv
  <2> QED
    BY <2>4, <2>8
<1>7. CASE PushLastPhase
  <2>1. /\ pc = "scan" /\ scan <= scanSteps /\ Top <= scan * step
        /\ Push(Top) /\ pc' = "done"
        /\ UNCHANGED curve
    BY <1>2, <1>7, SearchAssumption DEF PushLastPhase, TypeOK
  <2>2. /\ \A t \in phaseStart .. Top - 1 : curve[t] = goal
        /\ \A t \in Changes : t <= phaseStart \/ t = Top
    BY <1>1, <1>2, <2>1, LastRun
  <2>3. /\ Untils(phases') = Untils(phases) \cup {Top}
        /\ \A i \in DOMAIN phases' :
             \A t \in phases'[i].from .. phases'[i].until - 1 : curve[t] = phases'[i].jerk
    BY <1>2, <2>1, <2>2, ChangesArePoints, PushAddsAnEnd DEF PushedInv
  <2>4. Untils(phases') = Changes
    BY <1>2, <2>1, <2>2, <2>3, ChangesArePoints DEF PushedInv
  <2>5. ScanReachesTheEnd
    <3>1. /\ scan \in Nat /\ scanSteps \in Nat /\ step \in Nat /\ Top \in Nat
          /\ scan * step \in Nat /\ scanSteps * step \in Nat
      BY <1>2, ProductIsNatural, SearchAssumption DEF TypeOK
    <3>2. scan * step <= scanSteps * step
      BY <2>1, <3>1, MoreStepsReachFurther
    <3> QED
      BY <2>1, <3>1, <3>2 DEF ScanReachesTheEnd
  <2> QED
    BY <1>1, <2>1, <2>3, <2>4, <2>5 DEF PushedInv, UnderWayInv
<1>8. CASE ScanRunsOut
  <2>1. /\ pc = "scan" /\ scan > scanSteps /\ pc' = "done"
        /\ UNCHANGED <<curve, phases>>
    BY <1>8 DEF ScanRunsOut
  <2>2. \A t \in Changes : t <= phaseStart \/ t = Top
    BY <1>1, <1>2, <2>1, LastRun
  <2>3. /\ scan = scanSteps + 1 /\ phaseStart <= (scan - 1) * step
        /\ (scan - 1) * step < Top
        /\ scan \in Nat /\ scanSteps \in Nat /\ phaseStart \in Nat /\ Top \in Nat
        /\ step \in Nat
    BY <1>1, <1>2, <2>1, SearchAssumption DEF TypeOK, ScanInv, IInv, Points
  <2>4. scan - 1 = scanSteps /\ scanSteps * step \in Nat
    BY <2>3, ProductIsNatural
  <2>5. ~ScanReachesTheEnd /\ ~(Top <= phaseStart)
    BY <2>3, <2>4 DEF ScanReachesTheEnd
  <2>6. {t \in Changes : t <= phaseStart} = Changes \ {Top}
    BY <2>2, <2>5
  <2>7. Untils(phases') = Changes \ {Top}
    BY <1>2, <2>1, <2>6 DEF PushedInv, Untils
  <2> QED
    BY <1>1, <1>2, <2>1, <2>5, <2>7 DEF PushedInv, UnderWayInv
<1>9. CASE UNCHANGED vars
  <2>1. UNCHANGED <<task, curve, goal, pc, low, scan, phaseStart, phases>>
    BY <1>9 DEF vars
  <2>2. Untils(phases') = Untils(phases)
    BY <2>1 DEF Untils
  <2> QED
    BY <1>1, <1>2, <2>1, <2>2 DEF PushedInv, UnderWayInv
<1>10. ~PermittedSpeed /\ ~ResidualTravel /\ ~ReferenceTrace /\ ~Return
  BY <1>1 DEF PermittedSpeed, ResidualTravel, ReferenceTrace, Return
<1> QED
  BY <1>3, <1>4, <1>5, <1>6, <1>7, <1>8, <1>9, <1>10 DEF Next

\* The phases are the maximal runs of the commanded jerk, each with its jerk, for
\* every curve whose runs are no shorter than a scan step: finding "each instant the
\* commanded jerk changes" assumes nothing else of them (validation_package.cpp:92-94).
\* A scan whose steps end short of the stop misses only the run that ends it.
THEOREM ThePhasesAreTheRuns ==
    ASSUME Top <= 2 ^ Rounds PROVE Spec => []PhasesAreTheRuns
<1>1. Init => RunsInv
  BY InitRunsInv
<1>2. Spec => []ConvergenceInv
  BY ConvergenceInvHolds
<1>3. RunsInv => PhasesAreTheRuns
  BY DEF RunsInv, PushedInv, PhasesAreTheRuns, Untils
<1> QED
  BY <1>1, <1>2, <1>3, NextRunsInv, PTL DEF Spec
=============================================================================
