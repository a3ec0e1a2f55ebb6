---------------------------- MODULE PhaseBProofs ----------------------------
(***************************************************************************)
(* What a passing verifier establishes, for every ladder, criterion and    *)
(* measurement, and after any number of mistakes.                          *)
(***************************************************************************)
EXTENDS PhaseB, SequenceTheorems, FiniteSetTheorems, FunctionTheorems, TLAPS

USE PhaseBAssumption

-----------------------------------------------------------------------------
(* Types. *)

\* Losing, repeating or replacing a row of a list leaves a list of such rows.
LEMMA MisplacedIsASequence ==
    ASSUME NEW S, NEW list \in Seq(S), NEW new \in Misplaced(list)
    PROVE  new \in Seq(S)
<1>1. DOMAIN list = 1 .. Len(list) /\ Len(list) \in Nat
  OBVIOUS
<1>2. \A i \in DOMAIN list : list[i] \in S
  OBVIOUS
<1>3. CASE new \in Lost(list)
  <2>1. PICK i \in DOMAIN list :
           new = SubSeq(list, 1, i - 1) \o SubSeq(list, i + 1, Len(list))
    BY <1>3 DEF Lost
  <2>2. SubSeq(list, 1, i - 1) \in Seq(S)
    BY <1>1, SubSeqProperties
  <2>3. SubSeq(list, i + 1, Len(list)) \in Seq(S)
    BY <1>1, SubSeqProperties
  <2> QED
    BY <2>1, <2>2, <2>3, ConcatProperties
<1>4. CASE new \in Repeated(list)
  <2>1. PICK i \in DOMAIN list : new = Append(list, list[i])
    BY <1>4 DEF Repeated
  <2> QED
    BY <1>2, <2>1, AppendProperties
<1>5. CASE new \in Replaced(list)
  <2>1. PICK i, j \in DOMAIN list : new = [list EXCEPT ![i] = list[j]]
    BY <1>5 DEF Replaced
  <2>2. new \in [1 .. Len(list) -> S]
    BY <1>1, <1>2, <2>1
  <2> QED
    BY <1>1, <2>2
<1> QED
  BY <1>3, <1>4, <1>5 DEF Misplaced

\* A row changed by one in a field still has the same fields.
LEMMA OffByOneIsARow ==
    ASSUME NEW Names, NEW row \in [Names -> Int]
    PROVE  OffByOne(row) \subseteq [Names -> Int]
BY DEF OffByOne

\* A trial of whole numbers recomputes to a row of the table.
LEMMA RecomputedIsARow ==
    ASSUME NEW trial \in Trials
    PROVE  Recomputed(trial) \in Rows
<1>1. \A f \in TimingFields \cup Withheld : trial[f] \in Int
  BY DEF Trials
<1>2. /\ trial.poll \in Int /\ trial.phase \in Int /\ trial.hazard \in Int
      /\ trial.observed \in Int /\ trial.profile \in Int /\ trial.stop \in Int
      /\ trial.distance \in Int
  BY <1>1 DEF TimingFields, Withheld
<1>3. Classify(trial.distance) \in States
  BY DEF Classify, States
<1>4. Speed * (trial.profile - trial.hazard) + Braking \in Int
  BY <1>2
<1> QED
  BY <1>2, <1>3, <1>4 DEF Recomputed, Rows

\* A miscopied row is still a row.
LEMMA MiscopiedIsARow ==
    ASSUME NEW row \in Rows
    PROVE  Miscopied(row) \subseteq Rows
<1>1. [row EXCEPT !.distance = @ + 1] \in Rows
  <2>1. row.distance + 1 \in Int
    BY DEF Rows
  <2> DEFINE distance == row.distance + 1
  <2>2. distance \in Int
    BY <2>1
  <2> HIDE DEF distance
  <2>3. [row EXCEPT !.distance = distance] \in Rows
    BY <2>2, Zenon DEF Rows
  <2> QED
    BY <2>3 DEF distance
<1>2. [row EXCEPT !.gate2 = ~@] \in Rows
  BY Zenon DEF Rows
<1>3. \A s \in States : [row EXCEPT !.state = s] \in Rows
  BY DEF Rows
<1> QED
  BY <1>1, <1>2, <1>3 DEF Miscopied

\* An edited list of measured rows is a list of measured rows.
LEMMA OffByOneInASequence ==
    ASSUME NEW S, NEW list \in Seq(S), NEW new \in Edited(list, OffByOne),
           \A i \in DOMAIN list : OffByOne(list[i]) \subseteq S
    PROVE  new \in Seq(S)
<1>1. \/ new \in Misplaced(list)
      \/ \E i \in DOMAIN list : \E r \in OffByOne(list[i]) :
           new = [list EXCEPT ![i] = r]
  BY DEF Edited
<1>2. CASE new \in Misplaced(list)
  BY <1>2, MisplacedIsASequence
<1>3. CASE \E i \in DOMAIN list : \E r \in OffByOne(list[i]) :
             new = [list EXCEPT ![i] = r]
  <2>1. PICK i \in DOMAIN list : \E r \in OffByOne(list[i]) :
          new = [list EXCEPT ![i] = r]
    BY <1>3
  <2>2. PICK r \in OffByOne(list[i]) : new = [list EXCEPT ![i] = r]
    BY <2>1
  <2>3. r \in S
    BY <2>2
  <2> QED
    BY <2>2, <2>3
<1> QED
  BY <1>1, <1>2, <1>3

\* An edited table is a table.
LEMMA MiscopiedInATable ==
    ASSUME NEW list \in Seq(Rows), NEW new \in Edited(list, Miscopied)
    PROVE  new \in Seq(Rows)
<1>1. \/ new \in Misplaced(list)
      \/ \E i \in DOMAIN list : \E r \in Miscopied(list[i]) :
           new = [list EXCEPT ![i] = r]
  BY DEF Edited
<1>2. CASE new \in Misplaced(list)
  BY <1>2, MisplacedIsASequence
<1>3. CASE \E i \in DOMAIN list : \E r \in Miscopied(list[i]) :
             new = [list EXCEPT ![i] = r]
  <2>1. PICK i \in DOMAIN list : \E r \in Miscopied(list[i]) :
          new = [list EXCEPT ![i] = r]
    BY <1>3
  <2>2. PICK r \in Miscopied(list[i]) : new = [list EXCEPT ![i] = r]
    BY <2>1
  <2>3. r \in Rows
    BY <2>2, MiscopiedIsARow
  <2> QED
    BY <2>2, <2>3
<1> QED
  BY <1>1, <1>2, <1>3

\* A row with every field of a trial, and integers in them, is one.
LEMMA RowOfIntegersIsATrial ==
    ASSUME NEW poll \in Int, NEW phase \in Int, NEW hazard \in Int, NEW stop \in Int,
           NEW reaction \in Int, NEW distance \in Int
    PROVE  [poll |-> poll, phase |-> phase, local |-> hazard, hazard |-> hazard,
            observed |-> poll, profile |-> poll, stop |-> stop,
            reaction |-> reaction, distance |-> distance, reported |-> distance,
            speed |-> 0] \in Trials
<1> DEFINE row == [poll |-> poll, phase |-> phase, local |-> hazard,
                   hazard |-> hazard, observed |-> poll, profile |-> poll,
                   stop |-> stop, reaction |-> reaction, distance |-> distance,
                   reported |-> distance, speed |-> 0]
<1>1. row = [field \in TimingFields \cup Withheld |-> row[field]]
  BY SMTT(30) DEF TimingFields, Withheld
<1>2. \A field \in TimingFields \cup Withheld : row[field] \in Int
  BY SMTT(30) DEF TimingFields, Withheld
<1> QED
  BY <1>1, <1>2 DEF Trials

\* The ladder yields well-formed trials, whatever the simulator measures.
LEMMA TrialOfIsATrial ==
    ASSUME NEW id \in Identities, NEW error \in Errors
    PROVE  TrialOf(id, error) \in Trials
<1>1. id[1] \in Nat /\ id[2] \in 1 .. Len(Fractions)
  <2>1. id[1] \in Intervals /\ id[2] \in DOMAIN Fractions
    BY DEF Identities
  <2>2. DOMAIN Fractions = 1 .. Len(Fractions)
    OBVIOUS
  <2> QED
    BY <2>1, <2>2
<1>2. FractionOf(id[2]) \in Nat
  BY <1>1 DEF FractionOf
<1>3. HazardTick(id[1], id[2]) \in Int
  <2>1. FractionOf(id[2]) * id[1] + FractionUnit - 1 \in Int
    BY <1>1, <1>2
  <2> QED
    BY <2>1 DEF HazardTick
<1>4. error \in Int
  OBVIOUS
<1> DEFINE hazard == HazardTick(id[1], id[2])
           reaction == id[1] - hazard
           distance == Speed * reaction + Braking + error
<1>5. reaction \in Int /\ distance \in Int
  BY <1>1, <1>3, <1>4
<1> HIDE DEF hazard, reaction, distance
<1>6. TrialOf(id, error) =
        [poll |-> id[1], phase |-> id[2], local |-> hazard, hazard |-> hazard,
         observed |-> id[1], profile |-> id[1], stop |-> id[1] + ProfileTicks,
         reaction |-> reaction, distance |-> distance, reported |-> distance,
         speed |-> 0]
  BY DEF TrialOf, hazard, reaction, distance
<1>7. hazard \in Int /\ id[1] \in Int /\ id[2] \in Int /\ id[1] + ProfileTicks \in Int
  BY <1>1, <1>3 DEF hazard
<1>8. [poll |-> id[1], phase |-> id[2], local |-> hazard, hazard |-> hazard,
       observed |-> id[1], profile |-> id[1], stop |-> id[1] + ProfileTicks,
       reaction |-> reaction, distance |-> distance, reported |-> distance,
       speed |-> 0] \in Trials
  BY <1>5, <1>7, RowOfIntegersIsATrial
<1> QED
  BY <1>6, <1>8, Zenon

\* The ladder is finite: a product of finitely many intervals and fractions.
LEMMA IdentitiesAreFinite == IsFiniteSet(Identities) /\ Cardinality(Identities) \in Nat
<1>1. DOMAIN Fractions = 1 .. Len(Fractions) /\ Len(Fractions) \in Nat
  OBVIOUS
<1>2. IsFiniteSet(DOMAIN Fractions)
  BY <1>1, FS_Interval
<1>3. IsFiniteSet(Identities)
  BY <1>2, FS_Product DEF Identities
<1> QED
  BY <1>3, FS_CardinalityType

\* Without the withheld fields, a list of trials is a list of timings.
LEMMA TimingsAreTimings ==
    ASSUME NEW list \in Seq(Trials)
    PROVE  [i \in DOMAIN list |-> TimingOf(list[i])] \in Seq(Timings)
<1>1. \A i \in DOMAIN list : TimingOf(list[i]) \in Timings
  BY DEF TimingOf, Timings, Trials
<1> QED
  BY <1>1

\* The trials, their timing and the table keep their shape, and the verifier its
\* sections, through any number of mistakes.
THEOREM PhaseBTypeCorrect == Spec => []TypeOK
<1>1. Init => TypeOK
  <2> SUFFICES ASSUME Init PROVE TypeOK
    OBVIOUS
  <2>1. trials \in Seq(Trials)
    <3>1. PICK ladder \in Ladders : \E error \in [DOMAIN ladder -> Errors] :
             trials = [i \in DOMAIN ladder |-> TrialOf(ladder[i], error[i])]
      BY Zenon DEF Init
    <3>2. PICK error \in [DOMAIN ladder -> Errors] :
             trials = [i \in DOMAIN ladder |-> TrialOf(ladder[i], error[i])]
      BY <3>1
    <3>3. Cardinality(Identities) \in Nat
      BY IdentitiesAreFinite
    <3>4. ladder \in [1 .. Cardinality(Identities) -> Identities]
      BY DEF Ladders
    <3>5. \A i \in 1 .. Cardinality(Identities) : TrialOf(ladder[i], error[i]) \in Trials
      BY <3>4, TrialOfIsATrial
    <3>6. trials \in [1 .. Cardinality(Identities) -> Trials]
      BY <3>2, <3>4, <3>5
    <3> QED
      BY <3>3, <3>6
  <2>2. phaseA \in Seq(Timings)
    BY <2>1, TimingsAreTimings DEF Init
  <2>3. table \in Seq(Rows)
    BY DEF Init
  <2> QED
    BY <2>1, <2>2, <2>3 DEF Init, TypeOK
<1>2. TypeOK /\ [Next]_vars => TypeOK'
  <2> SUFFICES ASSUME TypeOK, [Next]_vars PROVE TypeOK'
    OBVIOUS
  <2>1. CASE Edit
    <3>1. phaseA' = phaseA \/ phaseA' \in Edited(phaseA, OffByOne)
      BY <2>1 DEF Edit
    <3>2. trials' = trials \/ trials' \in Edited(trials, OffByOne)
      BY <2>1 DEF Edit
    <3>3. table' = table \/ table' \in Edited(table, Miscopied)
      BY <2>1 DEF Edit
    <3>4. phaseA' \in Seq(Timings)
      <4>1. ASSUME NEW i \in DOMAIN phaseA PROVE OffByOne(phaseA[i]) \subseteq Timings
        <5>1. phaseA[i] \in Timings
          BY DEF TypeOK
        <5> QED
          BY <5>1, OffByOneIsARow DEF Timings
      <4> QED
        BY <3>1, <4>1, OffByOneInASequence DEF TypeOK
    <3>5. trials' \in Seq(Trials)
      <4>1. ASSUME NEW i \in DOMAIN trials PROVE OffByOne(trials[i]) \subseteq Trials
        <5>1. trials[i] \in Trials
          BY DEF TypeOK
        <5> QED
          BY <5>1, OffByOneIsARow DEF Trials
      <4> QED
        BY <3>2, <4>1, OffByOneInASequence DEF TypeOK
    <3>6. table' \in Seq(Rows)
      BY <3>3, MiscopiedInATable DEF TypeOK
    <3> QED
      BY <2>1, <3>4, <3>5, <3>6 DEF Edit, TypeOK
  <2>2. CASE Publish
    <3>1. rows \in Seq(Rows)
      <4>1. \A i \in DOMAIN trials : Recomputed(trials[i]) \in Rows
        BY RecomputedIsARow DEF TypeOK
      <4>2. DOMAIN trials = 1 .. Len(trials) /\ Len(trials) \in Nat
        BY DEF TypeOK
      <4> QED
        BY <4>1, <4>2 DEF rows
    <3> QED
      BY <2>2, <3>1 DEF Publish, TypeOK
  <2>3. CASE Start \/ Exit
    BY <2>3 DEF Start, Exit, TypeOK, files, Sections
  <2>4. ASSUME NEW name \in Sections, NEW ok, Section(name, ok, pc'),
               pc' \in Sections \cup {"exit"}
        PROVE  TypeOK'
    BY <2>4 DEF Section, TypeOK, files
  <2>5. CASE CheckDigests \/ CheckContinuity \/ CheckIdentities
             \/ CheckTrials \/ CheckTable \/ CheckSummary
    BY <2>5, <2>4
       DEF CheckDigests, CheckContinuity, CheckIdentities, CheckTrials, CheckTable,
           CheckSummary, Section, Sections
  <2>6. CASE UNCHANGED vars
    BY <2>6 DEF vars, files, TypeOK
  <2> QED
    BY <2>1, <2>2, <2>3, <2>5, <2>6 DEF Next
<1> QED
  BY <1>1, <1>2, PTL DEF Spec

-----------------------------------------------------------------------------
(* The tolerance and the band. *)

\* For every measurement, plane and tolerance: a trial within the tolerance is never
\* classified on the other side of the plane than its prediction.
THEOREM VerdictsAgree == Spec => []WithinToleranceAgrees
<1>1. TypeOK => WithinToleranceAgrees
  <2> SUFFICES ASSUME TypeOK, NEW i \in DOMAIN trials,
                      Recomputed(trials[i]).gate2
               PROVE  /\ Recomputed(trials[i]).state = "CLEAR" =>
                           Recomputed(trials[i]).predicted < Plane
                      /\ Recomputed(trials[i]).state = "CROSSED" =>
                           Recomputed(trials[i]).predicted > Plane
    BY DEF WithinToleranceAgrees
  <2>1. trials[i] \in Trials
    BY DEF TypeOK
  <2>2. Recomputed(trials[i]) \in Rows
    BY <2>1, RecomputedIsARow
  <2> DEFINE distance == trials[i].distance
             predicted == Recomputed(trials[i]).predicted
  <2>3. distance \in Int
    BY <2>1 DEF Trials, TimingFields, Withheld
  <2>4. predicted \in Int
    BY <2>2 DEF Rows
  <2>5. distance - predicted \in -Delta .. Delta
    BY DEF Recomputed
  <2>6. Recomputed(trials[i]).state = Classify(distance)
    BY DEF Recomputed
  <2> HIDE DEF distance, predicted
  <2>7. Classify(distance) = "CLEAR" => distance < Plane - Delta
    BY DEF Classify
  <2>8. Classify(distance) = "CROSSED" => distance > Plane + Delta
    BY DEF Classify
  <2>9. distance < Plane - Delta => predicted < Plane
    BY <2>3, <2>4, <2>5
  <2>10. distance > Plane + Delta => predicted > Plane
    BY <2>3, <2>4, <2>5
  <2> QED
    BY <2>6, <2>7, <2>8, <2>9, <2>10 DEF predicted
<1> QED
  BY <1>1, PhaseBTypeCorrect, PTL

-----------------------------------------------------------------------------
(* As many identities as rows: none is repeated, and each has its row. *)

\* With as many identities as rows, no two rows share one.
LEMMA IdentifiedOnce ==
    ASSUME NEW S, NEW list \in Seq(S),
           Cardinality(IdentitiesOf(list)) = Len(list),
           NEW i \in DOMAIN list, NEW j \in DOMAIN list,
           Identity(list[i]) = Identity(list[j])
    PROVE  i = j
<1> DEFINE n == Len(list)
           ids == IdentitiesOf(list)
           f == [k \in 1 .. n |-> Identity(list[k])]
<1>1. n \in Nat /\ DOMAIN list = 1 .. n
  OBVIOUS
<1>2. IsFiniteSet(1 .. n) /\ Cardinality(1 .. n) = n
  <2> HIDE DEF n
  <2>1. IsFiniteSet(1 .. n) /\ Cardinality(1 .. n) = IF 1 > n THEN 0 ELSE n - 1 + 1
    BY <1>1, FS_Interval
  <2> QED
    BY <1>1, <2>1
<1>3. f \in [1 .. n -> ids] /\ \A id \in ids : \E k \in 1 .. n : f[k] = id
  BY <1>1 DEF IdentitiesOf
<1>4. Cardinality(1 .. n) = Cardinality(ids)
  BY <1>2
<1>5. f[i] = f[j] /\ i \in 1 .. n /\ j \in 1 .. n
  BY <1>1
<1> HIDE DEF f, ids, n
<1>6. f \in Surjection(1 .. n, ids)
  BY <1>3, Fun_IsSurj
<1>7. f \in Injection(1 .. n, ids)
  BY <1>2, <1>4, <1>6, FS_SurjSameCardinalityImpliesInj
<1>8. f \in [1 .. n -> ids] /\ \A a, b \in DOMAIN f : f[a] = f[b] => a = b
  BY <1>7 DEF Injection, IsInjective
<1> QED
  BY <1>5, <1>8

\* The dictionary then finds every row under its identity.
LEMMA RowOfItsIdentity ==
    ASSUME NEW S, NEW list \in Seq(S),
           Cardinality(IdentitiesOf(list)) = Len(list),
           NEW i \in DOMAIN list
    PROVE  RowOf(list, Identity(list[i])) = list[i]
<1> DEFINE at == {k \in DOMAIN list : Identity(list[k]) = Identity(list[i])}
           last == CHOOSE k \in at : \A j \in at : j <= k
<1>1. at = {i}
  BY IdentifiedOnce
<1>2. i \in Int
  OBVIOUS
<1> HIDE DEF at
<1>3. last = i
  BY <1>1, <1>2
<1> QED
  BY <1>3, Zenon DEF RowOf, at

-----------------------------------------------------------------------------
(* What the sections that passed established. *)

Verified ==
    /\ \/ pc \in {"measuring", "published", "digests", "continuity"}
       \/ "continuity" \in failures \/ Continuity
    /\ \/ pc \in {"measuring", "published", "digests", "continuity", "identities"}
       \/ "identities" \in failures \/ FrozenIdentities
    /\ \/ pc \in {"measuring", "published", "digests", "continuity", "identities",
                  "trials"}
       \/ "trials" \in failures \/ TrialsHold
    /\ \/ pc \in {"measuring", "published", "digests", "continuity", "identities",
                  "trials", "table"}
       \/ "table" \in failures \/ TableAgrees
    /\ \/ pc \in {"measuring", "published"} \cup Sections
       \/ "summary" \in failures \/ SummaryAgrees
    /\ pc = "passed" => failures = {}

\* Sections only read the files, and no mistake is made once they have begun.
THEOREM VerifiedHolds == Spec => []Verified
<1>1. Init => Verified
  BY DEF Init, Verified
<1>2. TypeOK /\ Verified /\ [Next]_vars => Verified'
  <2> SUFFICES ASSUME TypeOK, Verified, [Next]_vars PROVE Verified'
    OBVIOUS
  <2>1. CASE Edit
    BY <2>1 DEF Edit, Verified
  <2>2. CASE Publish
    BY <2>2 DEF Publish, Verified
  <2>3. ASSUME UNCHANGED files
        PROVE  /\ Continuity' = Continuity
               /\ FrozenIdentities' = FrozenIdentities
               /\ TrialsHold' = TrialsHold
               /\ TableAgrees' = TableAgrees
               /\ SummaryAgrees' = SummaryAgrees
    BY <2>3, Zenon
       DEF files, Continuity, FrozenIdentities, TrialsHold, TableAgrees,
           SummaryAgrees, rows
  <2>4. CASE Start
    BY <2>4 DEF Start, Verified, Sections
  <2>5. CASE CheckDigests
    BY <2>5 DEF CheckDigests, Section, Verified, Sections
  <2>6. CASE CheckContinuity
    BY <2>3, <2>6 DEF CheckContinuity, Section, Verified, Sections
  <2>7. CASE CheckIdentities
    BY <2>3, <2>7 DEF CheckIdentities, Section, Verified, Sections
  <2>8. CASE CheckTrials
    BY <2>3, <2>8 DEF CheckTrials, Section, Verified, Sections
  <2>9. CASE CheckTable
    BY <2>3, <2>9 DEF CheckTable, Section, Verified, Sections
  <2>10. CASE CheckSummary
    BY <2>3, <2>10 DEF CheckSummary, Section, Verified, Sections
  <2>11. CASE Exit
    BY <2>3, <2>11 DEF Exit, Verified, Sections
  <2>12. CASE UNCHANGED vars
    BY <2>3, <2>12 DEF vars, Verified
  <2> QED
    BY <2>1, <2>2, <2>4, <2>5, <2>6, <2>7, <2>8, <2>9, <2>10, <2>11, <2>12 DEF Next
<1> QED
  BY <1>1, <1>2, PhaseBTypeCorrect, PTL DEF Spec

\* A verifier that passed saw every section hold.
LEMMA PassedMeansAllHold ==
    ASSUME Verified, pc = "passed"
    PROVE  Continuity /\ FrozenIdentities /\ TrialsHold /\ TableAgrees /\ SummaryAgrees
BY DEF Verified, Sections

\* What passes is the frozen ladder, each trial once, in the order the lifecycle
\* demands, with the timing that phase A disclosed.
THEOREM TheLadderIsTheFrozenOne == Spec => []PassedTheFrozenLadder
<1>1. TypeOK /\ Verified => PassedTheFrozenLadder
  <2> SUFFICES ASSUME TypeOK, Verified, pc = "passed"
               PROVE  /\ \A id \in Identities :
                           \E i \in DOMAIN trials : \A j \in DOMAIN trials :
                             Identity(trials[j]) = id <=> j = i
                      /\ \A i \in DOMAIN trials :
                           LET t == trials[i]
                           IN  /\ Identity(t) \in Identities
                               /\ t.hazard <= t.observed /\ t.observed <= t.profile
                               /\ t.profile < t.hazard + t.poll
                               /\ \E j \in DOMAIN phaseA : phaseA[j] = TimingOf(t)
    BY DEF PassedTheFrozenLadder
  <2>1. Continuity /\ FrozenIdentities /\ TrialsHold
    BY PassedMeansAllHold
  <2>2. trials \in Seq(Trials) /\ phaseA \in Seq(Timings)
    BY DEF TypeOK
  <2>3. /\ Cardinality(IdentitiesOf(trials)) = Len(trials)
        /\ IdentitiesOf(trials) = Identities
    BY <2>1 DEF FrozenIdentities
  <2>4. /\ Cardinality(IdentitiesOf(phaseA)) = Len(phaseA)
        /\ IdentitiesOf(phaseA) = IdentitiesOf(trials)
        /\ \A id \in IdentitiesOf(trials) :
             TimingOf(RowOf(trials, id)) = RowOf(phaseA, id)
    BY <2>1 DEF Continuity
  <2>5. ASSUME NEW id \in Identities
        PROVE  \E i \in DOMAIN trials : \A j \in DOMAIN trials :
                 Identity(trials[j]) = id <=> j = i
    <3>1. PICK i \in DOMAIN trials : Identity(trials[i]) = id
      BY <2>3 DEF IdentitiesOf
    <3>2. \A j \in DOMAIN trials : Identity(trials[j]) = Identity(trials[i]) => j = i
      BY <2>2, <2>3, IdentifiedOnce
    <3> QED
      BY <3>1, <3>2
  <2>6. ASSUME NEW i \in DOMAIN trials
        PROVE  /\ Identity(trials[i]) \in Identities
               /\ \E j \in DOMAIN phaseA : phaseA[j] = TimingOf(trials[i])
    <3>1. Identity(trials[i]) \in IdentitiesOf(trials)
      BY DEF IdentitiesOf
    <3>2. PICK j \in DOMAIN phaseA : Identity(phaseA[j]) = Identity(trials[i])
      BY <2>4, <3>1 DEF IdentitiesOf
    <3>3. RowOf(trials, Identity(trials[i])) = trials[i]
      BY <2>2, <2>3, RowOfItsIdentity
    <3>4. RowOf(phaseA, Identity(phaseA[j])) = phaseA[j]
      BY <2>2, <2>4, RowOfItsIdentity
    <3>5. phaseA[j] = TimingOf(trials[i])
      BY <2>4, <3>1, <3>2, <3>3, <3>4
    <3> QED
      BY <2>3, <3>1, <3>5
  <2>7. ASSUME NEW i \in DOMAIN trials
        PROVE  /\ trials[i].hazard <= trials[i].observed
               /\ trials[i].observed <= trials[i].profile
               /\ trials[i].profile < trials[i].hazard + trials[i].poll
    <3>1. trials[i] \in Trials
      BY <2>2
    <3>2. /\ trials[i].hazard \in Int /\ trials[i].observed \in Int
          /\ trials[i].profile \in Int /\ trials[i].poll \in Int
      BY <3>1 DEF Trials, TimingFields
    <3>3. TrialHolds(trials[i])
      BY <2>1 DEF TrialsHold
    <3>4. /\ trials[i].reaction = trials[i].profile - trials[i].hazard
          /\ trials[i].observed >= trials[i].hazard
          /\ trials[i].profile >= trials[i].observed
          /\ trials[i].reaction < trials[i].poll
      BY <3>3 DEF TrialHolds
    <3> QED
      BY <3>2, <3>4
  <2> QED
    BY <2>5, <2>6, <2>7
<1> QED
  BY <1>1, PhaseBTypeCorrect, VerifiedHolds, PTL

\* The recomputed rows are those of the trials, in their order, with their names.
LEMMA RowsAreRecomputed ==
    ASSUME trials \in Seq(Trials)
    PROVE  /\ rows \in Seq(Rows)
           /\ DOMAIN rows = DOMAIN trials /\ Len(rows) = Len(trials)
           /\ \A i \in DOMAIN trials : rows[i] = Recomputed(trials[i])
           /\ \A i \in DOMAIN trials : Identity(rows[i]) = Identity(trials[i])
           /\ IdentitiesOf(rows) = IdentitiesOf(trials)
<1>1. \A i \in DOMAIN trials : Recomputed(trials[i]) \in Rows
  BY RecomputedIsARow
<1>2. DOMAIN trials = 1 .. Len(trials) /\ Len(trials) \in Nat
  OBVIOUS
<1>3. DOMAIN rows = DOMAIN trials
  BY DEF rows
<1>4. \A i \in DOMAIN trials : rows[i] = Recomputed(trials[i])
  BY DEF rows
<1>5. rows \in Seq(Rows)
  BY <1>1, <1>2 DEF rows
<1>6. \A i \in DOMAIN trials : Identity(rows[i]) = Identity(trials[i])
  <2>1. \A trial : /\ Recomputed(trial).poll = trial.poll
                   /\ Recomputed(trial).phase = trial.phase
    BY DEF Recomputed
  <2> QED
    BY <1>4, <2>1 DEF Identity
<1>7. IdentitiesOf(rows) = IdentitiesOf(trials)
  BY <1>3, <1>6 DEF IdentitiesOf
<1>8. Len(rows) = Len(trials)
  <2>1. DOMAIN rows = 1 .. Len(rows) /\ Len(rows) \in Nat
    BY <1>5
  <2> QED
    BY <1>2, <1>3, <2>1
<1> QED
  BY <1>3, <1>4, <1>5, <1>6, <1>7, <1>8

\* Clear and crossed are the two sides of the band, its edges excluded.
LEMMA ClassifiedByTheBand ==
    ASSUME NEW distance \in Int
    PROVE  /\ Classify(distance) = "CLEAR" <=> distance < Plane - Delta
           /\ Classify(distance) = "CROSSED" <=> distance > Plane + Delta
BY DEF Classify

\* What passes is judged by the frozen criterion: a published PASS is a PASS of
\* every measured trial, the crossings it lists are the trials beyond the band, and
\* no row of the table is called clear that is not.
THEOREM TheCriterionIsTheFrozenOne == Spec => []PassedTheFrozenCriterion
<1>1. TypeOK /\ Verified => PassedTheFrozenCriterion
  <2> SUFFICES ASSUME TypeOK, Verified, pc = "passed"
               PROVE  PassedTheFrozenCriterion
    BY DEF PassedTheFrozenCriterion
  <2>1. FrozenIdentities /\ TableAgrees /\ SummaryAgrees
    BY PassedMeansAllHold
  <2>2. trials \in Seq(Trials)
    BY DEF TypeOK
  <2>3. \A i \in DOMAIN trials :
          /\ trials[i].distance \in Int
          /\ Recomputed(trials[i]).distance = trials[i].distance
          /\ Recomputed(trials[i]).state = Classify(trials[i].distance)
          /\ Recomputed(trials[i]).gate2 <=>
               trials[i].distance
                 - (Speed * (trials[i].profile - trials[i].hazard) + Braking)
                 \in -Delta .. Delta
    <3> SUFFICES ASSUME NEW i \in DOMAIN trials
                 PROVE  /\ trials[i].distance \in Int
                        /\ Recomputed(trials[i]).distance = trials[i].distance
                        /\ Recomputed(trials[i]).state = Classify(trials[i].distance)
                        /\ Recomputed(trials[i]).gate2 <=>
                             trials[i].distance
                               - (Speed * (trials[i].profile - trials[i].hazard)
                                    + Braking)
                               \in -Delta .. Delta
      OBVIOUS
    <3>1. trials[i] \in Trials
      BY <2>2
    <3>2. trials[i].distance \in Int
      BY <3>1 DEF Trials, TimingFields, Withheld
    <3> QED
      BY <3>2 DEF Recomputed
  <2>4. \A i \in DOMAIN rows : rows[i] = Recomputed(trials[i])
    BY <2>2, RowsAreRecomputed
  <2>5. DOMAIN rows = DOMAIN trials
    BY <2>2, RowsAreRecomputed
  <2>6. summary.gate2 =>
          \A i \in DOMAIN trials :
            trials[i].distance
              - (Speed * (trials[i].profile - trials[i].hazard) + Braking)
              \in -Delta .. Delta
    <3>1. summary.gate2 => Summarise(rows).gate2
      BY <2>1 DEF SummaryAgrees
    <3>2. Summarise(rows).gate2 = \A i \in DOMAIN rows : rows[i].gate2
      BY DEF Summarise
    <3> QED
      BY <2>3, <2>4, <2>5, <3>1, <3>2
  <2>7. summary.crossed =
          {<<Identity(trials[i]), trials[i].distance>> :
             i \in {j \in DOMAIN trials : trials[j].distance > Plane + Delta}}
    <3>1. summary.crossed = Summarise(rows).crossed
      <4>1. [summary EXCEPT !.gate2 = Summarise(rows).gate2] = Summarise(rows)
        BY <2>1 DEF SummaryAgrees
      <4>2. DOMAIN Summarise(rows) = {"trials", "fails", "counts", "crossed", "gate2"}
        BY DEF Summarise
      <4> QED
        BY <4>1, <4>2
    <3>2. Summarise(rows).crossed =
            {<<Identity(rows[i]), rows[i].distance>> :
               i \in {j \in DOMAIN rows : rows[j].state = "CROSSED"}}
      BY DEF Summarise
    <3>3. {j \in DOMAIN rows : rows[j].state = "CROSSED"}
            = {j \in DOMAIN trials : trials[j].distance > Plane + Delta}
      BY <2>3, <2>4, <2>5, ClassifiedByTheBand
    <3>4. \A i \in DOMAIN trials :
            <<Identity(rows[i]), rows[i].distance>>
              = <<Identity(trials[i]), trials[i].distance>>
      BY <2>2, <2>3, <2>4, <2>5, RowsAreRecomputed
    <3> QED
      BY <3>1, <3>2, <3>3, <3>4
  <2>8. ASSUME NEW i \in DOMAIN table
        PROVE  table[i].state = "CLEAR" <=> table[i].distance < Plane - Delta
    <3>1. /\ Identity(table[i]) \in IdentitiesOf(rows)
          /\ table[i] = RowOf(rows, Identity(table[i]))
      BY <2>1 DEF TableAgrees
    <3>2. PICK k \in DOMAIN rows : Identity(rows[k]) = Identity(table[i])
      BY <3>1 DEF IdentitiesOf
    <3>3. Cardinality(IdentitiesOf(rows)) = Len(rows)
      BY <2>1, <2>2, RowsAreRecomputed DEF FrozenIdentities
    <3>4. RowOf(rows, Identity(rows[k])) = rows[k]
      BY <2>2, <3>3, RowsAreRecomputed, RowOfItsIdentity
    <3>5. table[i] = Recomputed(trials[k])
      BY <2>4, <3>1, <3>2, <3>4
    <3> QED
      BY <2>3, <2>5, <3>5, ClassifiedByTheBand
  <2> QED
    BY <2>6, <2>7, <2>8 DEF PassedTheFrozenCriterion
<1> QED
  BY <1>1, PhaseBTypeCorrect, VerifiedHolds, PTL
=============================================================================
