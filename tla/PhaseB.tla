------------------------------- MODULE PhaseB -------------------------------
(***************************************************************************)
(* The offline verifier of the external validation: it recomputes every    *)
(* derived quantity from the measured trials, and passes only if phase A,  *)
(* the ladder, the table and the summary agree with what it finds.  Every  *)
(* section runs and records what fails; the exit status comes last.        *)
(*                                                                         *)
(* Around it, MaxEdits mistakes: in the two measured files before they are *)
(* received, in any of the four after the result was published.  Digests   *)
(* are compared as the contents they stand for, and an edit keeps the      *)
(* manifests up to date.  Of the timing, only ticks are kept; distances    *)
(* are whole numbers; every row has every field.                           *)
(***************************************************************************)
EXTENDS Integers, Sequences, FiniteSets

CONSTANTS
    Intervals,      \* polling_intervals_s, in ticks
    Fractions,      \* phase_fractions, in units of
    FractionUnit,   \* one polling interval
    ProfileTicks,   \* braking_duration_s, in ticks
    Speed,          \* initial_velocity_mps, per tick
    Braking,        \* braking_distance_m
    Plane, Delta,   \* hazard_plane_m and delta_m
    Errors,         \* by how much a measured distance may miss the prediction
    MaxEdits        \* bound on the mistakes

ASSUME PhaseBAssumption ==
    /\ Intervals \subseteq Nat \ {0} /\ IsFiniteSet(Intervals)
    /\ FractionUnit \in Nat \ {0}
    /\ Fractions \in Seq(1 .. FractionUnit)
    /\ Fractions # <<>>
    /\ ProfileTicks \in Nat /\ Speed \in Nat /\ Braking \in Nat
    /\ Plane \in Nat /\ Delta \in Nat
    /\ Errors \subseteq Int
    /\ MaxEdits \in Nat

VARIABLES
    phaseA,     \* phase-a-timing.json
    trials,     \* phase-b-raw-held.json
    pinned,     \* PINNED_SHA256 of the two, as they were received
    table,      \* phase-b-trials.csv
    summary,    \* phase-b-summary.json
    edits,      \* mistakes made
    pc,         \* "measuring", "published", a section, "passed" or "failed"
    failures    \* the sections in which a check failed

files == <<phaseA, trials, pinned, table, summary>>
vars == <<files, edits, pc, failures>>

Identities == Intervals \X DOMAIN Fractions

Identity(row) == <<row.poll, row.phase>>

\* A phase index of 0 reads the last fraction, as a Python index of -1 does.
FractionOf(k) == IF k = 0 THEN Fractions[Len(Fractions)] ELSE Fractions[k]

\* The first tick at or after the requested fraction of the interval.
HazardTick(poll, k) == (FractionOf(k) * poll + FractionUnit - 1) \div FractionUnit

TimingFields == {"poll", "phase", "local", "hazard", "observed", "profile"}
Withheld == {"stop", "reaction", "distance", "reported", "speed"}

Timings == [TimingFields -> Int]
Trials == [TimingFields \cup Withheld -> Int]
States == {"CLEAR", "INDETERMINATE", "CROSSED"}
Rows == [poll : Int, phase : Int, hazard : Int, observed : Int, profile : Int,
         stop : Int, reaction : Int, distance : Int, predicted : Int,
         gate2 : BOOLEAN, state : States]

TimingOf(trial) == [f \in TimingFields |-> trial[f]]

-----------------------------------------------------------------------------
(* What the verifier computes. *)

\* Mutants: the band's edges count as outside it; the band on one side only.
ClassifyInclusive(distance) ==
    IF distance <= Plane - Delta THEN "CLEAR"
    ELSE IF distance >= Plane + Delta THEN "CROSSED" ELSE "INDETERMINATE"
ClassifyOneSided(distance) ==
    IF distance < Plane THEN "CLEAR"
    ELSE IF distance > Plane + Delta THEN "CROSSED" ELSE "INDETERMINATE"

Classify(distance) ==
    IF distance < Plane - Delta THEN "CLEAR"
    ELSE IF distance > Plane + Delta THEN "CROSSED" ELSE "INDETERMINATE"

\* T runs to the start of the profile; distance is what was travelled since the
\* hazard, never the absolute coordinate.
Recomputed(trial) ==
    LET reaction  == trial.profile - trial.hazard
        predicted == Speed * reaction + Braking
    IN  [poll |-> trial.poll, phase |-> trial.phase, hazard |-> trial.hazard,
         observed |-> trial.observed, profile |-> trial.profile,
         stop |-> trial.stop, reaction |-> reaction,
         distance |-> trial.distance, predicted |-> predicted,
         gate2 |-> trial.distance - predicted \in -Delta .. Delta,
         state |-> Classify(trial.distance)]

rows == [i \in DOMAIN trials |-> Recomputed(trials[i])]

Count(list, Holds(_)) == Cardinality({i \in DOMAIN list : Holds(list[i])})

Summarise(list) ==
    [trials  |-> Len(list),
     fails   |-> Count(list, LAMBDA row : ~row.gate2),
     counts  |-> [s \in States |-> Count(list, LAMBDA row : row.state = s)],
     crossed |-> {<<Identity(list[i]), list[i].distance>> :
                      i \in {j \in DOMAIN list : list[j].state = "CROSSED"}},
     gate2   |-> \A i \in DOMAIN list : list[i].gate2]

\* A dict by identity: of rows with the same identity, the last.
RowOf(list, id) ==
    LET at == {i \in DOMAIN list : Identity(list[i]) = id}
    IN  list[CHOOSE i \in at : \A j \in at : j <= i]

IdentitiesOf(list) == {Identity(list[i]) : i \in DOMAIN list}

-----------------------------------------------------------------------------
(* The files, and the mistakes made in them. *)

\* A trial as the ladder runs it: observed, and acted on, at the next poll.
TrialOf(id, error) ==
    LET hazard == HazardTick(id[1], id[2])
        reaction == id[1] - hazard
        distance == Speed * reaction + Braking + error
    IN  [poll |-> id[1], phase |-> id[2], local |-> hazard, hazard |-> hazard,
         observed |-> id[1], profile |-> id[1], stop |-> id[1] + ProfileTicks,
         reaction |-> reaction, distance |-> distance, reported |-> distance,
         speed |-> 0]

Ladders ==
    {list \in [1 .. Cardinality(Identities) -> Identities] :
        IdentitiesOf([i \in DOMAIN list |->
            [poll |-> list[i][1], phase |-> list[i][2]]]) = Identities}

Init ==
    /\ \E ladder \in Ladders :
         \E error \in [DOMAIN ladder -> Errors] :
           trials = [i \in DOMAIN ladder |-> TrialOf(ladder[i], error[i])]
    /\ phaseA = [i \in DOMAIN trials |-> TimingOf(trials[i])]
    /\ pinned = <<phaseA, trials>>
    /\ table = <<>>
    /\ summary = Summarise(table)
    /\ edits = 0
    /\ pc = "measuring"
    /\ failures = {}

\* One row lost, repeated, put in another's place, or changed in one field.
Lost(list) ==
    {SubSeq(list, 1, i - 1) \o SubSeq(list, i + 1, Len(list)) : i \in DOMAIN list}
Repeated(list) == {Append(list, list[i]) : i \in DOMAIN list}
Replaced(list) == {[list EXCEPT ![i] = list[j]] : i, j \in DOMAIN list}
Misplaced(list) == Lost(list) \cup Repeated(list) \cup Replaced(list)

OffByOne(row) ==
    {r \in {[row EXCEPT ![f] = @ + d] : f \in DOMAIN row, d \in {-1, 1}} :
        r.phase \in 0 .. Len(Fractions)}

Miscopied(row) ==
    {[row EXCEPT !.distance = @ + 1], [row EXCEPT !.gate2 = ~@]}
      \cup {[row EXCEPT !.state = s] : s \in States}

Edited(list, Variants(_)) ==
    Misplaced(list)
      \cup UNION {{[list EXCEPT ![i] = r] : r \in Variants(list[i])} :
                      i \in DOMAIN list}

Misreported ==
    {[summary EXCEPT !.fails = 0], [summary EXCEPT !.gate2 = ~@]}
      \cup {[summary EXCEPT !.counts = [@ EXCEPT ![s] = @ + 1]] : s \in States}
      \cup {[summary EXCEPT !.crossed = @ \ {c}] : c \in summary.crossed}

Edit ==
    /\ pc \in {"measuring", "published"}
    /\ edits < MaxEdits
    /\ edits' = edits + 1
    /\ \/ phaseA' \in Edited(phaseA, OffByOne) /\ UNCHANGED <<trials, table, summary>>
       \/ trials' \in Edited(trials, OffByOne) /\ UNCHANGED <<phaseA, table, summary>>
       \/ pc = "published" /\ table' \in Edited(table, Miscopied)
            /\ UNCHANGED <<phaseA, trials, summary>>
       \/ pc = "published" /\ summary' \in Misreported
            /\ UNCHANGED <<phaseA, trials, table>>
    /\ UNCHANGED <<pinned, pc, failures>>

\* The measurement is received and pinned, the result layer derived from it.
Publish ==
    /\ pc = "measuring"
    /\ pinned' = <<phaseA, trials>>
    /\ table' = rows
    /\ summary' = Summarise(rows)
    /\ pc' = "published"
    /\ UNCHANGED <<phaseA, trials, edits, failures>>

-----------------------------------------------------------------------------
(* The verifier, section by section. *)

\* Collects failures, so that every section runs before the exit status.
Section(name, ok, next) ==
    /\ pc = name
    /\ failures' = IF ok THEN failures ELSE failures \cup {name}
    /\ pc' = next
    /\ UNCHANGED <<files, edits>>

Start ==
    /\ pc = "published"
    /\ pc' = "digests"
    /\ UNCHANGED <<files, edits, failures>>

Digests == pinned = <<phaseA, trials>>

CheckDigests == Section("digests", Digests, "continuity")

Continuity ==
    /\ Cardinality(IdentitiesOf(phaseA)) = Len(phaseA)
    /\ Len(phaseA) = Len(trials)
    /\ IdentitiesOf(phaseA) = IdentitiesOf(trials)
    /\ \A id \in IdentitiesOf(phaseA) \cap IdentitiesOf(trials) :
         TimingOf(RowOf(trials, id)) = RowOf(phaseA, id)

CheckContinuity == Section("continuity", Continuity, "identities")

FrozenIdentities ==
    /\ Len(trials) = Cardinality(Identities)
    /\ Cardinality(IdentitiesOf(trials)) = Len(trials)
    /\ IdentitiesOf(trials) = Identities

CheckIdentities == Section("identities", FrozenIdentities, "trials")

\* Mutant: braking may begin before the signal was observed.
TrialHoldsUnordered(trial) ==
    /\ trial.reaction = trial.profile - trial.hazard
    /\ trial.observed >= trial.hazard
    /\ trial.reaction >= 0 /\ trial.reaction < trial.poll
    /\ trial.stop - trial.profile = ProfileTicks
    /\ trial.local = HazardTick(trial.poll, trial.phase)
    /\ trial.reported = trial.distance
    /\ trial.speed = 0

TrialHolds(trial) ==
    /\ trial.reaction = trial.profile - trial.hazard
    /\ trial.observed >= trial.hazard
    /\ trial.profile >= trial.observed
    /\ trial.reaction >= 0 /\ trial.reaction < trial.poll
    /\ trial.stop - trial.profile = ProfileTicks
    /\ trial.local = HazardTick(trial.poll, trial.phase)
    /\ trial.reported = trial.distance
    /\ trial.speed = 0

TrialsHold == \A i \in DOMAIN trials : TrialHolds(trials[i])

CheckTrials == Section("trials", TrialsHold, "table")

\* Every row is a recomputed one and there are as many: a table that repeats one
\* trial and leaves out another agrees.
TableAgrees ==
    /\ Len(table) = Len(rows)
    /\ \A i \in DOMAIN table :
         /\ Identity(table[i]) \in IdentitiesOf(rows)
         /\ table[i] = RowOf(rows, Identity(table[i]))

CheckTable == Section("table", TableAgrees, "summary")

\* The verdict may be worse than the recomputation, never better.
SummaryAgrees ==
    LET computed == Summarise(rows)
    IN  /\ [summary EXCEPT !.gate2 = computed.gate2] = computed
        /\ computed.gate2 \/ ~summary.gate2

CheckSummary == Section("summary", SummaryAgrees, "exit")

Exit ==
    /\ pc = "exit"
    /\ pc' = IF failures = {} THEN "passed" ELSE "failed"
    /\ UNCHANGED <<files, edits, failures>>

Next ==
    \/ Edit \/ Publish \/ Start
    \/ CheckDigests \/ CheckContinuity \/ CheckIdentities
    \/ CheckTrials \/ CheckTable \/ CheckSummary \/ Exit

Spec == Init /\ [][Next]_vars

-----------------------------------------------------------------------------
Sections == {"digests", "continuity", "identities", "trials", "table", "summary"}

TypeOK ==
    /\ phaseA \in Seq(Timings)
    /\ trials \in Seq(Trials)
    /\ table \in Seq(Rows)
    /\ edits \in 0 .. MaxEdits
    /\ pc \in Sections \cup {"measuring", "published", "exit", "passed", "failed"}
    /\ failures \subseteq Sections

\* Mistakes that pass: none that touches the experiment.  The trials are the frozen
\* ladder, each once; each stop was observed after its hazard and acted on within a
\* polling interval; and their timing is what phase A disclosed.
PassedTheFrozenLadder ==
    pc = "passed" =>
        /\ \A id \in Identities :
             \E i \in DOMAIN trials : \A j \in DOMAIN trials :
               Identity(trials[j]) = id <=> j = i
        /\ \A i \in DOMAIN trials :
             LET t == trials[i]
             IN  /\ Identity(t) \in Identities
                 /\ t.hazard <= t.observed /\ t.observed <= t.profile
                 /\ t.profile < t.hazard + t.poll
                 /\ \E j \in DOMAIN phaseA : phaseA[j] = TimingOf(t)

\* "Editing the result to match a different criterion breaks the recomputation"
\* (verify_external_phase_b.py:18-19): a published verdict that passes is that of
\* the measured trials under the frozen tolerance, and no row contradicts it.
PassedTheFrozenCriterion ==
    pc = "passed" =>
        /\ summary.gate2 =>
             \A i \in DOMAIN trials :
               LET t == trials[i]
               IN  t.distance - (Speed * (t.profile - t.hazard) + Braking)
                     \in -Delta .. Delta
        /\ summary.crossed =
             {<<Identity(trials[i]), trials[i].distance>> :
                i \in {j \in DOMAIN trials : trials[j].distance > Plane + Delta}}
        /\ \A i \in DOMAIN table :
             table[i].state = "CLEAR" <=> table[i].distance < Plane - Delta

\* A trial within the tolerance is never classified on the other side of the plane
\* than the prediction for its own reaction time: that is what the band is for.
WithinToleranceAgrees ==
    \A i \in DOMAIN trials :
        LET row == Recomputed(trials[i])
        IN  row.gate2 =>
              /\ row.state = "CLEAR" => row.predicted < Plane
              /\ row.state = "CROSSED" => row.predicted > Plane
=============================================================================
