# pickcell: models, checks and proofs

pickcell is a robot pick-and-place cell whose motion depends on a separate
safety runtime.  The two are different processes.  The runtime decides whether
torque is permitted; the cell polls that decision through a *safety link* in
every control period and stops when the link says stop, says nothing, or says
something too old.  This directory holds TLA+ models of that conversation, the
TLC runs that check them on small instances, and TLAPS proofs of what holds for
every value of the constants.

## The system

| Component | State | Operations |
|---|---|---|
| **Cell** `src/cell/cell.*` | phase, phase to resume, progress on the segment, tool, counters, last stop reaction, last sequence, permit flag | `step(now_ns)` polls the link and holds or moves; `advance` goes to the next phase; `status` reports |
| **Safety link interface** `safety_link.hpp` | – | `poll()` returns a `SafetyView`; a default view is invalid |
| **Shared-memory link** `shared_memory_link.*` | a mapped seqlock region; `last_good_` | `create` (unlinks, creates, stores a default signal), `openExisting`, `publish`, `heartbeat`, `poll` |
| **HTTP link** `http_poll_link.*` | `latest_` (a seqlock), `last_success_ns_`, `ever_received_`, `readiness_sequence_`, counters, `running_`; `last_good_` on the reader's side | `pollLoop` and `fetchOnce` on a thread of its own; `poll` on the control thread; a destructor that ends and joins the poller |
| **Reaction benchmark** `apps/reaction_benchmark.cpp` | a safety source (verdict and three atomics), a heartbeat thread, an HTTP handler, a trial loop | `permit`, `assertStop`, heartbeat, serve, measure |
| **pickcelld** `apps/pickcelld.cpp` | the locals of `main`: link, cell, `running`, control thread, metrics server; the signal's flag | the control loop: sample the clock, step, sleep; `/healthz` and `/metrics`; start, shutdown by a signal, a server that does not start |
| **Safety distance** `safety_distance.*` | none | stopping distance, `permittedSpeed` by bisection |
| **Validation package** `validation_package.*` | none | scan of a braking profile, residual travel by bisection, the rows of the reference trace, report text |
| **Phase B verifier** `tools/verify_external_phase_b.py` | the failures collected so far | recompute the result of the external validation from the measured trials, and compare it with what was published |

How they meet:

* The runtime writes a `SafetySignal` (verdict, sequence number, decision stamp,
  publish stamp).  A link turns it into a `SafetyView`, adding when it was
  observed.  The cell judges the view's *publish* stamp against the `now` its
  loop sampled before the poll.
* Shared memory: two processes and one seqlock.  Reads never fail because the
  writer has died, so a frozen region reads as well as a live one: only the age
  of the stamp tells them apart.
* The reaction benchmark is a runtime in the cell's own process: it publishes on
  both links and runs the cell against each.
* The safety distance, the validation package and the verifier never meet the
  running cell; they judge how far it travels while it stops.
* `pickcelld` runs three threads that share flags and nothing else; the server
  runs its handlers on more.  Their order of birth and death is the order of
  `main`'s locals.
* HTTP: two threads of one process.  The poller stores the signal, then the
  stamp of its success, then a flag; the control thread reads the flag, the
  signal, then the stamp.  Neither reads the pair as one.

What is hard: the interleaving of writer and reader between loads and stores; a
writer that dies anywhere, also inside a store; a second writer that takes over
the name while the reader keeps the old region; answers lost or late; a restart
that renumbers its verdicts; and a cycle that must survive every sequence of
holds; a shutdown in which every thread may still be anywhere.  `PROJECT.json`
lists these hazards at their lines, each with the properties that would catch it
or the reason no property covers it yet.

What makes each component correct:

* *Cell*: the cycle neither skips nor repeats a phase whatever interrupts it; a
  hold freezes everything; a reaction is measured on the stopping edge and
  nowhere else; the tool keeps to its speed; permits, if they keep coming, get
  the cycle done.
* *Links*: a permit is a lease.  Motion begins only within a fixed time of an
  instant at which the runtime permitted it (or, where that is too much to ask,
  at which it was alive); verdicts arrive in order; a live runtime does not look
  dead; the measured reaction runs from the decision to the observation.
* *Benchmark*: no answer makes a stop look observed sooner than it was, and a
  sample belongs to the trial that takes it.
* *Daemon*: nothing outlives what it uses, a thread acts at most once more when
  it has been told to end, and the process does end.
* *Searches*: a bisection keeps the crossing between its ends and returns the
  end that is safe; the phases of a stop are those of its jerk, without a gap;
  the trace runs from the start of braking to rest.
* *Verifier*: what passes is the frozen experiment, judged by the frozen
  criterion, whatever was done to the files.

## Modules

| Module | Models |
|---|---|
| `SafetyLink` | signals, views, and the two default values |
| `Cell` | `Cell::step` and everything it calls: one action, four ways through |
| `OpenCell` | the cell on a link that may answer anything, as the tests' `ScriptedLink` |
| `PermitLease` | the abstract specification: a clock, the last instant a permit was in force, and motion within a lease of it |
| `SharedMemoryCell` | writer process, regions, reader and cell |
| `HttpCell` | runtime, poller thread, control thread and cell |
| `ReactionTrials` | the benchmark's source, its HTTP handler and its trial loop, on `HttpCell`'s link and cell |
| `Daemon` | `main` of `pickcelld`, its three threads and the handlers of its server |
| `Searches` | `permittedSpeed`, `residualTravelBelow`, `brakingPhases` and the rows of `referenceTraceCsv` on a grid |
| `PhaseB` | the four result files, the mistakes made in them, and the verifier |
| `MCOpenCell`, `MCSharedMemoryCell`, `MCHttpCell`, `MCReactionTrials`, `MCSearches`, `MCPhaseB` | geometry and data for the checks |
| `CellLemmas`, `OpenCellProofs`, `SharedMemoryProofs`, `HttpProofs`, `ReactionTrialsProofs`, `DaemonProofs`, `SearchProofs`, `PhaseBProofs` | proofs |

`Daemon` takes its constants straight from `MCDaemon.cfg`.

**Cell.**  `HoldWithoutInformation`, `HoldOnStaleInformation`, `HoldOnStop` and
`RunOnPermit` are the four ends of `step`.  The tool moves on straight lines, so
a segment is its length (`span`) and the tool the distance still to go
(`remaining`); a resume restarts the segment at the tool, which `SegmentSpan`
says in one line: it is `remaining` when the cell was held.  `progress` is a
fraction of `Unit`, and divisions round down: that is the resolution of the
model's fixed point, where the code has doubles.  `CellAssumption` asks that no
segment need more than `Unit` steps; below that resolution a step would not
advance at all.

**Shared memory.**  Each thread of the writer walks `idle`, `stamp`, `begin`,
`end`: in `publish` the stamp is taken, then the store begins and ends, and the
reader or a crash may come between any two.  `Heartbeat` is the load that
precedes a republish.  `Beater` says which thread runs it: the only one (as in
`tests/test_dead_writer.cpp`) or a second one (as in the reaction benchmark). A
crash leaves the region as it is, a half-done store included, for ever; a later
`Create` is a new region under the name.  `OpenExisting` happens once, and
finding no region gives a reader that is never informed.  The seqlock comes from
a library that is not in the repository; it is modelled by how it is used: a
load within a store fails (after its retries), any other returns the last value.
Two threads' stores are kept apart, which is kinder than the code; what two
overlapping stores do to the library's seqlock cannot be read off this
repository.

**HTTP.**  The poller is `asleep`, has `sent` a request, has it `answered` by
the runtime, has `fetched` it, is `storing`, has `stored`; the stamp of the
success ends the fetch.  Every step may interleave with the control thread's
`Sample`, `TryLoad`, and the step itself.  `format` is chosen at the start from
`Formats`: the stamped payload, or the readiness probe, in which the link itself
stamps and numbers the verdicts.  The runtime is external: it answers with what
it holds at one instant, it may die and start over at its first number, and any
request or answer may be lost.  An answer may also be cut short by a connection
that breaks.  `fetchOnce` then takes what had arrived: in the stamped format the
body's last number may have lost its last digits, which is a quotient by one of
`CutFactors` (a power of ten; in the runs two stands for ten, since the clocks
are small), and with less than three numbers the fetch has failed; a readiness
probe that did not see the ` 200 ` of the status line takes the answer for a
refusal.  The poller sleeps for `PollPeriod` and is late by at most `PollSlack`.

**Daemon.**  `main` walks through its locals (`built` counts those that are
there), and takes them down in the opposite order.  The link starts its poller
in its constructor, `control` is a thread from its construction on; each looks
at its flag (`CheckRunning`, `CheckPolling`) and acts in a later step.  The
poller's fetch is a connection and reads one by one; the socket's timeout ends a
read, and only the size of the buffer (`Room`, 511 bytes in the code) ends the
reads of an answer that trickles in.  Its sleep is cut into `Slices`.  The
server is external: handlers of any clients are under way, `stop` lets no more
in and waits for those.  `/healthz` looks at `running` twice, for the body and
for the status, in that order.  A signal may come at any moment, and the server
may fail to start.

**Reaction trials.**  `SafetySource::publish` stores stamp and verdict relaxed
and the sequence with release; the handler loads the sequence with acquire and
the others relaxed.  So the sequence is stored last and read first, and the
other two come in either order (`MayStore`, `MayRead`).  The main thread
permits, lets the permit settle, reads the last reaction, trips, and waits until
the reaction differs or its patience ends.  The threads are punctual here: in
every tick the cell steps, and the poller and the main thread do what is due.
Without that no sample could be trusted, and the assumption `MaxTurnaround + 1 <
Settle` says what the sample needs: a stop of the trial before has been fetched,
and stepped on, before the permit has settled.  With one tick less TLC finds a
stop of the trial before measured in this trial's wait.  The program settles for
the poll period and 20 ms, where a control period is 1 ms; that a fetch takes
less than that is a matter of the loopback it runs on.

**Searches.**  One behaviour runs one of the functions on one curve over the
points 0 .. `Top`.  A middle between two points is rounded to either, as a
double that cannot be represented is.  The braking profile is an external
library: any curve of its shape is a possible one.  `brakingPhases` looks at the
curve at the end of each of `scanSteps` steps and runs the bisection in a step
whose ends differ.  The length of the step is the duration over their number,
rounded, so that as many steps may end on the end of the stop, short of it or
beyond it, by less than a step (`step` from `StepLengths`, `scanSteps` from
`StepsTaken`; the grid makes an ulp as large as a point).  A step that would
pass the end is held back to it and ends the last phase there
(`PushLastPhase`); when the last step falls short, the loop ends without it
(`ScanRunsOut`).  The ends of the steps before are points of the grid; in the
code they too are off by an ulp, which only moves where a change is looked for.
A run shorter than a scan step may be missed, so `PhasesAreTheRuns` is stated of
curves without one (`Resolvable`); `PhasesTileTheStop` needs no such condition.
Both say what becomes of the last phase in each of the three cases.
`referenceTraceCsv` rounds the number of its steps, so the last one may fall
short of the end, hit it or lie beyond it; a row beyond it is held back to the
end, and `EndRow` adds the end, at rest, unless the last step hits it.

**Phase B.**  A ladder of trials runs on the simulator and is recorded; up to
`MaxEdits` mistakes (a row lost, repeated or replaced, a field off by one) hit
the two measured files before they are received; they are pinned and the result
layer is published; more mistakes hit any of the four files; then the verifier
runs its sections in order, collects failures, and passes or fails.  An edit
keeps the manifests current, so they are left out, and a digest stands for the
contents it was taken of.  Ticks and distances are integers, so a comparison
within a few ulps is equality.  A run the Python would end with an exception (an
empty list of trials) collects a failure and ends as failed: the exit status is
the same.

**History variables.**  These are not in the code, and no guard reads any of
them: `lapsedAt`, `diedAt` and `movedAt` record when a permit ended, when the
runtime died, and the `now_ns` of the latest step that moved; `late` of
`SharedMemoryCell` says whether the running writer's heartbeat has ever been
overdue, and `readAt` when a poll last read the region; `permits` and `missed`
of `HttpCell` are the numbers of the permits given and the fetches failed since
the last success; `verdicts` of
`ReactionTrials` lists what the source decided and `measuredOf` is the stamp of
the stop measured last; `lateSteps`, `lateFetches` and `answer` of `Daemon`
count what begins after a flag was cleared, and keep the latest answer of
`/healthz`.

## Runs

| Run | Shows | Bounds |
|---|---|---|
| `open_cell` | type, `PermitFlagMatchesMotion`, `CycleOrder`, `MeasuredOnlyOnTheEdge`, `UninterruptedSpeed`, and `CyclesForever` under `FairSpec` | every view with stamps 0..2 and numbers 0..1, budget 1, segments of 0 to 4 steps, `Unit` 12 |
| `open_cell_speed` | finding 1 | as `open_cell`, numbers 0..2 |
| `shared_memory` | type, `RegionHoldsCurrentVerdict`, `NeverBackToOlderVerdict`, `EveryStopIsMeasured`, `DeadWriterStopsTheCell`, `NoSpuriousStaleness`, `ImplementsLease` | two writers one after another, two verdicts each, budget 1, heartbeats due within 1, two ticks |
| `shared_memory_two_threads` | finding 2 | one region, heartbeat on a second thread, three ticks |
| `http` | type, `MovesOnlyOnAPermitGiven`, `SilenceExplainsStaleness`, `NeverBackToOlderVerdict`, `EveryStopIsMeasured`, `ImplementsLease` | both formats, one runtime, two verdicts, budget 2, poll period 1, a fetch of at most 1 tick, four ticks; the counters stay at 0 |
| `http_expired` | finding 3 | stamped, budget 1, poll period 1, a fetch of at most 1 tick, four ticks |
| `http_dropped` | finding 4 | stamped, budget 5, poll period 2, a fetch of at most 20: in units of 50 ms, the program's 250 ms, 100 ms and 1 s |
| `http_readiness` | finding 5 | readiness, as `http` with three ticks |
| `reaction_trials` | type, `NewSequenceNewTimestamp`, `SampleIsOfThisTrial` | two trials, poll period and patience 2 ticks, settling 3, fetches within a tick, eight ticks |
| `daemon` | type, `NothingIsUsedOutOfScope`, `AtMostOneMore`, `HealthIsHonest`, `SignalEndsIt`, `FailedStartEndsIt` | two clients, a buffer of 3 bytes, a sleep of two slices |
| `searches` | type, `Bracket`, `HighestSpeedThatFits`, `FirstInstantBelow`, `PhasesAreTheRuns`, `PhasesTileTheStop`, `TraceSpansTheStop` | every curve with values 0..2 on a grid of 9 points, scan steps of 2 that end on the end, scan steps of 3 that end short of it and beyond it, trace steps of 3, three iterations |
| `phase_b` | `PassedTheFrozenLadder`, `PassedTheFrozenCriterion`, `WithinToleranceAgrees` | two trials of one interval, one of them with the hazard on the poll itself, three measured errors each, two mistakes |

Why the bounds are enough.  The cell's decision about age has three outcomes
(stamp not before now, within the budget, beyond it).  With a budget of one tick
and a clock that starts at 2 all three occur within two ticks, and four leave
room for an expiry after a recovery.  Over HTTP a motion beyond the lease takes
a permit, its withdrawal, a budget and a fetch: with a budget of 2 the clock
must reach 7 for it to be possible at all, so `http` goes there.  It takes
states that differ only in decision stamps, and in the reaction measured by
them, for one (`UndatedView`): no guard reads either, and of its properties only
the type.  Two verdicts are a permit and the stop that ends it, which
every property about order needs; the second writer starts over from the first
number.  A second runtime makes `http` too large to check; that nothing is lost
when the numbers start over is left to the proofs, which have any number of
restarts.  Segments of 0, 1, 2, 3 and 4 steps cover a segment complete at once,
one completed in its first step, one exactly divided and one with a remainder,
with interruptions anywhere in it; in the link models the geometry is one
segment of two steps, since the link is the subject.  Counters saturate at 1, or
at 0 where no property asks whether they changed. The searches get every curve
of their shape; on nine points a bisection needs all of its three iterations,
and two to four scan steps leave room for phases that end on a sample, inside a
step, and in neighbouring steps, and for a last step that ends at 6, 8 or 9 of a
stop of 8 (`MCSearches` asks that the grid be resolved, `Top <=
2^Rounds`); with trace steps of 3, the stops of every length on the grid round
down, come out even and round up.  The daemon gets two clients, so that one
handler may be behind and one ahead of the shutdown, and three bytes, so that a
read may fill the buffer at once, or after another, or never; its states do not
depend on more.  The trial loop gets a poll period of two control periods, one
tick more to settle, and time for a stop of the first trial to be measured late
and the second trial to be tripped.  Two trials of the ladder let one stand for
the other; two mistakes let one hide the other, as a change of the measurement
and of the table would; the plane lies between the two predictions, so that the
errors put a distance below, on each edge of, inside and beyond the band.
Whatever is beyond these bounds is the subject of the proofs.

Two of the bounds are assumptions about the world rather than about size.

* `Uptime > MaxSafetyAge`: the machine has been up longer than the staleness
  budget.  The default signal of a fresh region *permits torque* and is harmless
  only because its publish stamp of 0 is stale.
* `MaxTurnaround` bounds the time from request to stamped success.  The code
  sets a timeout on each socket read and not on the fetch
  (`http_poll_link.cpp:127-139`), so an answer that trickles in could take
  longer, up to 511 reads of a second each.  Every promise over HTTP is stated
  relative to this bound.

The cfgs of the link models turn deadlock checking off because the bounded
clock, numbers and writers end the model, and a search, a verifier or the daemon
ends; `OpenCell` never stops and is checked for deadlock.

## Fairness

`CyclesForever` of `OpenCell`: `FairSpec` is strong fairness of stepping on a
permit published at that very instant.  The control loop of `pickcelld` steps
for ever, and the link again and again, not always, answers with a current
permit.  The views in between are arbitrary, so the property says that
interruptions cannot wedge the cycle.  Strong, not weak, fairness is needed only
in that another step may be taken in between; no fairness is asked of any
particular answer.  On the concrete links no such property is stated: nothing in
the code makes a runtime permit.

`SignalEndsIt` and `FailedStartEndsIt` of `Daemon`: its `Spec` has weak fairness
of `main`, of the control thread, of the poller and of each handler under way.
The operating system schedules every thread, and every wait of one is bounded:
sleeps by their length, connects and reads by the socket's timeouts (resolving
the name by the resolver's own), a join and a drain by the end of what they wait
for.  No signal and no request need ever come, and an answer may trickle in
byte by byte.

The other properties of these runs are safety properties, and their fair
specifications allow every finite behaviour, so checking them there loses
nothing.  The bounds in `Tick` of `HttpCell` and the guards of `Time` in
`ReactionTrials` are timing assumptions, not fairness: the clock does not pass
the instant at which a thread must have done what it is doing.  A writer's
heartbeat is under no such assumption; `NoSpuriousStaleness` speaks of those
that have been punctual (`late`), and of reads that have not been torn for longer
than such heartbeats leave of the budget (`readAt`).  The run gives both budgets
one tick, so that a torn read may stand beside a good one of the same instant
and no later; larger budgets are the theorem's.

## What is proved

| Theorem | Statement |
|---|---|
| `OpenCellTypeCorrect` | `Spec => []TypeOK` of `OpenCell` |
| `PermitFlag` | `[]PermitFlagMatchesMotion` |
| `CycleOrderHolds`, `MeasuredOnTheEdge`, `SpeedWithoutHolds` | the three action properties of `OpenCell` |
| `PermitsGetTheCellOn` | each step on a current permit ends the phase or makes progress on it, and no step takes progress back |
| `SharedMemoryTypeCorrect` | `[]TypeOK` |
| `DeadWriterStops` | `[]DeadWriterStopsTheCell`, for one writer thread or two |
| `RegionIsCurrent`, `SharedMemoryImplementsLease` | `[]RegionHoldsCurrentVerdict`, `ImplementsLease` for a writer of one thread |
| `VerdictsArriveInOrder`, `EveryStopMeasured` | `NeverBackToOlderVerdict`, `EveryStopIsMeasured` of `SharedMemoryCell` for a writer of one thread |
| `HeartbeatsSuffice` | `NoSpuriousStaleness`, torn reads included, for one writer thread or two |
| `HttpTypeCorrect` | `[]TypeOK` |
| `HttpImplementsLease` | `ImplementsLease`, both formats |
| `MovesOnlyOnPermits` | `[]MovesOnlyOnAPermitGiven` (a claim about the stamped format) |
| `SilenceIsExplained` | `[]SilenceExplainsStaleness` |
| `OneDroppedFitsTheBudget` | `[]OneDroppedRequestIsSurvived`, if `MaxSafetyAge` is at least a `Cycle` and one more sleep: the budget that finding 4 shows missing |
| `NoOlderVerdict`, `EveryStopMeasured` | `NeverBackToOlderVerdict`, `EveryStopIsMeasured` of `HttpCell` (the latter, and the former across restarts, about the readiness format) |
| `TrialsTypeCorrect`, `NewNumbersNewStamps`, `SamplesAreOfTheirTrial` | the three invariants of `ReactionTrials` |
| `DaemonTypeCorrect`, `NothingOutlivesItsScope`, `OneMoreAtMost`, `HealthAnswersHonestly` | the four invariants of `Daemon` |
| `SearchTypeCorrect`, `TheRootIsBracketed`, `TheStopIsTiled`, `TheTraceSpansTheStop` | `[]TypeOK`, `[]Bracket`, `[]PhasesTileTheStop`, `[]TraceSpansTheStop` of `Searches` |
| `PermittedSpeedFits` | the speed `permittedSpeed` returns fits, after any number of iterations |
| `TheHighestSpeedIsFound`, `TheFirstInstantIsFound`, `ThePhasesAreTheRuns` | `[]HighestSpeedThatFits`, `[]FirstInstantBelow`, `[]PhasesAreTheRuns`, if `Top <= 2 ^ Rounds` |
| `PhaseBTypeCorrect`, `VerdictsAgree` | `[]TypeOK` and `[]WithinToleranceAgrees` of `PhaseB` |
| `TheLadderIsTheFrozenOne`, `TheCriterionIsTheFrozenOne` | `[]PassedTheFrozenLadder`, `[]PassedTheFrozenCriterion` |

They hold for every budget, geometry, number of verdicts, regions, restarts,
clients and ticks, every grid, curve and number of iterations, every ladder,
criterion and number of mistakes that the named assumptions (`CellAssumption`,
`OpenCellAssumption`, `SharedMemoryAssumption`, `HttpAssumption`,
`TrialsAssumption`, `DaemonAssumption`, `SearchAssumption`, `PhaseBAssumption`)
allow.  Three more assumptions are stated in the theorems that need them:
`Beater = "main"` (with a second thread the claims are false or, like the order
of the verdicts, rest on one that is: finding 2); `Top <= 2 ^ Rounds`, that the
iterations of a bisection part any two points of the grid, on which the code
counts in its own units ("Sixty iterations halve a 2 m/s interval to well below
the precision of a double", `safety_distance.cpp:86-87`); and the budget of
`OneDroppedFitsTheBudget`, which the program's settings do not meet.

How the arguments go:

* **Cell.**  `CellLemmas` proves once, for any view and instant, that a step
  keeps the type and what it may do to the phase, and that it moves only on a
  valid, permitted and fresh view (`StepMovesOnlyOnFreshPermit`).  The systems
  reuse these lemmas. The speed bound needs `SegmentInv`: outside a hold,
  `remaining` is `span` less the share of it that `progress` stands for.
  Rounding is handled by `ShareMovedIsTravel`.  That a permit always makes
  progress needs `SpanInv`: no segment is so long that one period's share of it
  rounds to nothing, since each starts as a distance of the geometry and a
  resume only shortens it.  With `CycleOrder` this is the ranking behind
  `CyclesForever`: the phases in order, and at most `Unit` permits to each.
* **Shared memory.**  Neither lease invariant is inductive.  `AliveInv` adds
  that *every stamp that can still reach the cell* (in a slot, in a thread's
  register, in `last_good_`) is at most the last instant its writer ran.
  `PermitInv` adds what ties verdicts together: a thread's register and the slot
  it will store hold the verdict the writer decided last, or an older one whose
  stamp is no later than the instant its permit lapsed.  `OrderInv` orders the
  numbers: what the cell has acted on, what the reader keeps, the slot, the
  register on its way to it and the current verdict, each no later than the
  next.  `StopInv` says that a moving cell acted on its last
  good reading, a permit with a number, and that whatever has no number has no
  stamp and looks stale; so a stop that stops it has another number, and its
  decision is in the past.
  `PunctualInv` says that while the writer has not been late, each stamp on its
  way is no older than the heartbeat budget; `HeardInv` that the reading kept is
  older than the latest good read by no more than that.  All rest on `TypeInv`, which
  strengthens the type with the fact that a running writer has a region.
* **HTTP.**  `AliveInv` says that a fetch under way began within `MaxTurnaround`
  (`FetchInTime`) and that an answer in hand proves the runtime was alive since
  (`AnswerIsProofOfLife`), so each stamp is at most one turnaround after the
  last instant it ran.  `PermitInv` says that, once `ever_received_` is set,
  whatever permits in the slot, in a register or in `last_good_` has the number
  of a permit given; an answer cut short keeps its number.  `AgeInv` bounds the
  age of the last success by the cycles since.  `NumbersGrow` is the order of
  the numbers with one runtime, or of those the link gives itself; `ParityInv`
  says that the readiness numbers alternate with the verdicts (odd for a stop),
  so that a verdict that differs has another number.
* **Reaction trials.**  The type is HTTP's, with `StampsArePast`.  `DateInv` is
  the argument of the comment at `reaction_benchmark.cpp:114-117`: verdicts are
  numbered and dated in order, the number is stored after its stamp and read
  before it, so what is stored, and what has been read, is dated no earlier than
  the verdict of its number.  `SampleInv` follows a stop of the trial before
  past the tick in which the permit replaces it: no answer in hand holds it then
  (a fetch ends in the tick it begins in), only the slot and `last_good_` may; a
  cell that steps on it is held by it, and moves again only on what replaced it,
  so from the next tick on the edge that would measure it is disarmed
  (`OldStopInv`, `EdgeInv`).  The permit settles for longer than that
  (`TrialInv`), so whatever is measured once it has settled was decided no
  earlier than the permit (`MeasuredInv`).
* **Daemon.**  `ScopeInv` says where the threads may be for each position of
  `main`, `ServerInv` the same of the server; `LateInv` says that nothing late
  has begun while the flag is up or the thread is still on its way from its look
  to its act; `HealthInv` says that `running` is never set again, so a body of
  "stopping" is followed by a status that says so.
* **Searches.**  `IInv` joins the type, the bracket and facts about where the
  search stands: a call has not begun, the scan has passed only samples with the
  jerk of its phase, the phases so far tile the stop up to the start of the
  next, and the last of them ends with the stop only when the steps of the scan
  reach that far.  Halving keeps the crossing inside whichever way the middle rounds
  (`MiddleIsInside`).  The trace is a matter of its last row, in three cases of
  rounding.  *Convergence* is `NarrowInv`: with r rounds left the bracket is no
  wider than 2^r, so the last bracket is two neighbours.  (`PowerOfTwo` counts a
  power of two as the subsets of an interval, since nothing else here can say
  that one more factor doubles it.)  That the point before the crossing is then
  the extreme one needs the curve to rise, or the speed to fall, throughout and
  not only from neighbour to neighbour (`CurveInv`, `RisingThroughout`,
  `FallingThroughout`).  These are inductions over an interval, done with the
  least element of a set of naturals (`LeastElement`, from the well-foundedness
  of inclusion among finite sets), since the library's induction theorems take
  an operator.  `RoomInv` says that the search for a speed runs only with room
  ahead: without any, several speeds may fit.  The scan: when no run of the jerk
  is shorter than a step, a step holds at most one change (`OneChangeInAStep`),
  its bisection pins that change, and `RunsInv` carries the agreement of phases
  and runs from one step to the next.
* **Phase B.**  `Verified` says of each section that it lies ahead, or recorded
  a failure, or its condition holds; sections only read the files, so it is
  inductive, and a verifier that passed has every condition at once.  The rest
  is about the conditions: as many identities as rows means that no row shares
  one (`IdentifiedOnce`, from the cardinality of a surjection), so each
  dictionary finds the row it is asked for (`RowOfItsIdentity`), and the chain
  from phase A to trial to table row closes.
* **Refinement.**  Initial states map to initial states; each step of time or of
  the runtime maps to `Elapse`, a step that moves to `Move`, any other to a
  stutter.  That a motion stays within the lease follows from the invariants
  above; the clock-monotonic part of `Elapse` from the type invariants.

Only model-checked: `CyclesForever`, `SignalEndsIt` and `FailedStartEndsIt`,
since liveness under fairness is out of the prover's reach.  Every invariant and
every property of steps that a run shows to hold is a theorem as well.

## Findings

1. **A resume makes the tool jump** (`cell.cpp:226`, run `open_cell_speed`).  On
   a resume the code restarts the segment at the tool and keeps `progress_`, so
   the next step interpolates the old progress over the shortened segment: a
   tool stopped half way covers half of the rest in one period. `cell.hpp:47`
   calls the setting "Cartesian speed of the tool during a transfer".
2. **A heartbeat can undo a stop** (`shared_memory_link.cpp:83`, run
   `shared_memory_two_threads`).  `heartbeat` loads and then publishes; a
   `publish` from another thread in between is overwritten by the older verdict
   with a fresh stamp.  `SafetySource` of the reaction benchmark runs the two on
   different threads.
3. **The HTTP link's permit can be older than its stamp**
   (`http_poll_link.cpp:234`, run `http_expired`).  Signal and stamp are
   separate reads of separate writes, so a permit can be paired with the stamp
   of a later fetch and outlive its withdrawal by more than the budget and the
   fetch.  The other way round, a new stop with the stamp of the fetch before it
   is reported as a reaction of zero.  What does hold is the lease on the
   runtime's *life*.
4. **One dropped request is not survived** (`http_poll_link.cpp:87`, run
   `http_dropped`).  A request whose answer never comes keeps the poller until
   the socket's timeout of a second, and the next poll is a period later, so the
   budget of 250 ms, "long enough not to trip on one dropped request"
   (`cell.hpp:61-62`), has run out by then.  A request refused at once is
   survived; `SilenceExplainsStaleness` says in general what is, and
   `OneDroppedFitsTheBudget` which budget would do.
5. **A readiness probe is measured** (`http_poll_link.cpp:157`, run
   `http_readiness`).  The stop is stamped when the answer has been read and the
   success when it has been stored, and the cell reports the time in between as
   its reaction.  The interval "is zero by construction"
   (`http_poll_link.hpp:44-46`), and "this stays 0" (`pickcelld.cpp:145-147`).

Some observations are not findings, since no text of the repository says
otherwise in so many words, or since a line shows them without a model:

* An HTTP answer may pair an *old* number with the verdict after it: the handler
  loads the number first and does not look at it again.  The comment at
  `reaction_benchmark.cpp:57` speaks of the seqlock's discipline, and the one at
  114-117 rules out only the other pairing (`NewSequenceNewTimestamp`).  A stop
  under the number of the permit before it is not new to the cell, which holds
  without measuring; under its own number it finds the cell held.  That trial
  has no sample.
* The verifier passes a table that repeats one trial and leaves out another
  (`verify_external_phase_b.py:424-442`): it compares each row with the trial
  the row names and the two lengths, and nothing asks that every trial have a
  row.
* A cell that was told nothing reports SS1_T (`cell.cpp:302`), where the comment
  at 299-300 says it reports UNSPECIFIED; and the `since` of the status message
  is the instant of the message (`cell.cpp:305`), not of the change it reports.
  No program calls `status()` yet.
* `strstr(response, " 200 ")` of the readiness format finds the number anywhere
  in what was read, not only in the status line.
* An answer that trickles in delays the shutdown by up to 511 reads of a second
  each, where the comment at `pickcelld.cpp:58-60` speaks of docker's ten
  seconds.  The daemon does end (`SignalEndsIt`), but not in time.
* `brakingPhases` loses the last phase when 200000 times the rounded step falls
  short of the duration by an ulp: `t >= stop.duration()`
  (`validation_package.cpp:108`) is then never true, and the loop ends without a
  push.  The `std::min` one line above holds back the opposite error only.
  Nothing else can lose it (`PhasesTileTheStop`, `PhasesAreTheRuns`).  The code
  plans one fixed stop, of 0.45 s, and `scenario-v1.json` lists its last phase;
  of a duration one ulp below 0.45 s the steps do fall short.
* When the number of steps is rounded up, the trace gives its last instant
  twice: a row held back to the end of the stop, and the row that closes it.
* The package writer truncates each file before writing it and looks at the
  stream before it is closed, so that a failed close still exits with 0.
* A negative `PICKCELL_PERIOD_US` wraps around to a period of ages.

## Not modelled

Socket calls one by one other than the reads, parsing and its tolerance of junk,
environment variables, the status message, metrics text, reports (the safety
distance report has no state), the JSON text of the validation package and the
`main` that writes its three files, and everything under `deploy/`, `scripts/`
and `docs/`.  Of the safety distance, inputs that are rejected (not finite,
limits that do not validate); of the verifier, the manifests, missing and extra
fields, value types, the residual statistics and the fixed fields of the
summary.  The safety runtime, the seqlock, the server, the braking profile and
the simulator are other projects' code, present only through their use.  The
metrics handler reads the cell's plain fields while the control thread writes
them; what a page says after such a race is beyond any property, and only that
the handler never outlives the cell is stated.

## Plan

The core came first: the cell, because every other part exists to serve it; the
two links, because that is where concurrency and failure are; the lease, because
it is what the README of the project promises.  The benchmark's source and
trials, the searches, the verifier and the daemon followed, then answers cut
short, polls that fail, heartbeats that are late, and the proofs: first of the
leases and the order of verdicts, then of the timing of the trials and the
convergence of the searches.  Left:

1. The status message: what it says of a hold, and whether it can contradict the
   motion of the step before it, once a program sends it.
2. Liveness on the concrete links, if the code gains a runtime that is bound to
   permit.
