-------------------------- MODULE SharedMemoryCell --------------------------
(***************************************************************************)
(* The cell on the shared-memory link, and the writer process at the other *)
(* end.  A writer creates the region, decides verdicts, publishes them and *)
(* restates the current one (heartbeat); it may crash anywhere, also in    *)
(* the middle of a store, and a new writer then unlinks the name and       *)
(* creates a new region.  The reader maps whatever region it found once.   *)
(*                                                                         *)
(* Beater is the thread that runs the heartbeat: "main" when the writer is *)
(* one thread (tests/test_dead_writer.cpp), "heartbeat" when it has its    *)
(* own (SafetySource of reaction_benchmark.cpp).                           *)
(*                                                                         *)
(* The seqlock is external (safeedge): a store is begun and ended, a load  *)
(* outside a store returns the last value stored and one inside it fails.  *)
(* Two threads' stores do not overlap here, which is better than the code  *)
(* ensures.                                                                *)
(***************************************************************************)
EXTENDS Cell, FiniteSets

CONSTANTS
    Beater,        \* the thread that heartbeats
    Uptime,        \* the clock when the model starts
    MaxTime,       \* bound on the clock
    MaxSequence,   \* bound on the verdicts of one writer
    MaxRegions,    \* bound on the writers started one after another
    HeartbeatBudget \* how long a punctual writer lets a stamp age

ASSUME SharedMemoryAssumption ==
    /\ Beater \in {"main", "heartbeat"}
    /\ Uptime \in Nat /\ Uptime > MaxSafetyAge
    /\ MaxTime \in Nat /\ MaxTime >= Uptime
    /\ MaxSequence \in Nat
    /\ MaxRegions \in Nat
    /\ HeartbeatBudget \in Nat

Threads == {"main", Beater}
Regions == 1 .. MaxRegions

VARIABLES
    now,         \* nowNanos()
    late,        \* history: whether the running writer has let a stamp age too far
    live,        \* the region the name refers to; 0 before the first create
    up,          \* whether the writer that created it is running
    slot,        \* slot[r]: the value the seqlock of region r holds
    storing,     \* the regions whose seqlock is inside a store
    current,     \* the verdict the writer decided last
    pc,          \* pc[t]: where thread t of the writer is
    reg,         \* reg[t]: the signal thread t is publishing
    mapped,      \* the region the reader mapped; 0 if there was none
    readerPc,    \* "closed", "asleep" or "sampled"
    sampledAt,   \* the now_ns the control loop passed to Cell::step
    lastGood,    \* last_good_
    readAt,      \* history: when a poll last read the region
    lapsedAt,    \* history: when a permit of the writer of region r last ended
    diedAt,      \* history: when the writer of region r crashed
    movedAt      \* history: sampledAt of the latest step that moved

writerVars == <<live, up, slot, storing, current, pc, reg,
                lapsedAt, diedAt>>
readerVars == <<mapped, readerPc, sampledAt, lastGood, readAt, movedAt, cellVars>>
vars == <<now, late, writerVars, readerVars>>

\* A region that is mapped but not yet constructed: all zeroes.
ZeroSignal ==
    [sequence |-> 0, asserted |-> 0, published |-> 0, permitted |-> FALSE]

TypeOK ==
    /\ CellTypeOK
    /\ now \in Nat
    /\ late \in BOOLEAN
    /\ live \in 0 .. MaxRegions
    /\ up \in BOOLEAN
    /\ slot \in [Regions -> SafetySignal]
    /\ storing \in SUBSET Regions
    /\ current \in SafetySignal
    /\ pc \in [Threads -> {"off", "idle", "stamp", "begin", "end"}]
    /\ reg \in [Threads -> SafetySignal]
    /\ mapped \in 0 .. live
    /\ readerPc \in {"closed", "asleep", "sampled"}
    /\ sampledAt \in 0 .. now
    /\ lastGood \in SafetyView
    /\ readAt \in 0 .. now
    /\ lapsedAt \in [Regions -> 0 .. now]
    /\ diedAt \in [Regions -> 0 .. now]
    /\ movedAt \in 0 .. sampledAt

Init ==
    /\ CellInit
    /\ now = Uptime
    /\ late = FALSE
    /\ live = 0
    /\ up = FALSE
    /\ slot = [r \in Regions |-> ZeroSignal]
    /\ storing = {}
    /\ current = ZeroSignal
    /\ pc = [t \in Threads |-> "off"]
    /\ reg = [t \in Threads |-> ZeroSignal]
    /\ mapped = 0
    /\ readerPc = "closed"
    /\ sampledAt = 0
    /\ lastGood = NoView
    /\ readAt = 0
    /\ lapsedAt = [r \in Regions |-> 0]
    /\ diedAt = [r \in Regions |-> 0]
    /\ movedAt = 0

\* At this instant the running writer's heartbeat is overdue: the stamp it stored
\* last, or one it is about to store, is older than HeartbeatBudget.
Overdue(instant) ==
    LET Old(signal) == /\ signal.sequence > 0
                       /\ instant > signal.published + HeartbeatBudget
    IN  up /\ \/ Old(slot[live])
              \/ \E t \in Threads : pc[t] \in {"begin", "end"} /\ Old(reg[t])

Tick ==
    /\ now < MaxTime
    /\ now' = now + 1
    /\ late' = (late \/ Overdue(now'))
    /\ UNCHANGED <<writerVars, readerVars>>

-----------------------------------------------------------------------------
(* The writer. *)

\* A permit of the writer of region r is in force at this moment.
InForce(r) == r = live /\ up /\ current.permitted

\* SharedMemorySafetyLink::create: the name now refers to a new region, whose
\* slot is constructed and given a default signal by a first store.
Create ==
    /\ ~up
    /\ live < MaxRegions
    /\ live' = live + 1
    /\ up' = TRUE
    /\ late' = FALSE
    /\ current' = ZeroSignal
    /\ pc' = [t \in Threads |-> IF t = "main" THEN "begin" ELSE "idle"]
    /\ reg' = [t \in Threads |-> DefaultSignal]
    /\ UNCHANGED <<now, slot, storing, lapsedAt, diedAt,
                   readerVars>>

\* Mutants: a stop keeps the number of the permit it ends; a verdict is left for
\* the next heartbeat to publish.
NewSequenceForPermitsOnly(permitted) ==
    IF permitted THEN current.sequence + 1 ELSE current.sequence
PublishAtNextHeartbeat(signal) ==
    reg' = [reg EXCEPT !["main"] = signal] /\ UNCHANGED pc

NewSequence(permitted) == current.sequence + 1

\* publish() is entered with the signal to be stamped and stored.
Publish(signal) ==
    /\ reg' = [reg EXCEPT !["main"] = signal]
    /\ pc' = [pc EXCEPT !["main"] = "stamp"]

\* SafetySource::permit and assertStop: the decision is stamped and numbered and
\* goes on to publish().  The first verdict is a permit; stops follow permits.
Decide(permitted) ==
    /\ pc["main"] = "idle"
    /\ current.sequence < MaxSequence
    /\ permitted \/ current.permitted
    /\ current' = [sequence  |-> NewSequence(permitted),
                   asserted  |-> now,
                   published |-> 0,
                   permitted |-> permitted]
    /\ lapsedAt' = IF current.permitted /\ ~permitted
                     THEN [lapsedAt EXCEPT ![live] = now]
                     ELSE lapsedAt
    /\ Publish(current')
    /\ UNCHANGED <<now, late, live, up, slot, storing, diedAt, readerVars>>

\* heartbeat(): load the current signal, or give up if the load fails, and
\* publish it again.  Writers heartbeat once their first verdict is out.
Heartbeat ==
    /\ pc[Beater] = "idle"
    /\ slot[live].sequence > 0
    /\ live \notin storing
    /\ reg' = [reg EXCEPT ![Beater] = slot[live]]
    /\ pc' = [pc EXCEPT ![Beater] = "stamp"]
    /\ UNCHANGED <<now, late, live, up, slot, storing, current, lapsedAt, diedAt,
                   readerVars>>

\* publish(): the heartbeat stamp, then the store.
Stamp(t) ==
    /\ pc[t] = "stamp"
    /\ reg' = [reg EXCEPT ![t].published = now]
    /\ pc' = [pc EXCEPT ![t] = "begin"]
    /\ UNCHANGED <<now, late, live, up, slot, storing, current, lapsedAt, diedAt,
                   readerVars>>

StoreBegin(t) ==
    /\ pc[t] = "begin"
    /\ live \notin storing
    /\ storing' = storing \cup {live}
    /\ pc' = [pc EXCEPT ![t] = "end"]
    /\ UNCHANGED <<now, late, live, up, slot, current, reg, lapsedAt, diedAt,
                   readerVars>>

StoreEnd(t) ==
    /\ pc[t] = "end"
    /\ slot' = [slot EXCEPT ![live] = reg[t]]
    /\ storing' = storing \ {live}
    /\ pc' = [pc EXCEPT ![t] = "idle"]
    /\ UNCHANGED <<now, late, live, up, current, reg, lapsedAt, diedAt,
                   readerVars>>

\* The writer process dies where it stands; the region outlives it.
Crash ==
    /\ up
    /\ up' = FALSE
    /\ pc' = [t \in Threads |-> "off"]
    /\ lapsedAt' = IF current.permitted THEN [lapsedAt EXCEPT ![live] = now]
                                        ELSE lapsedAt
    /\ diedAt' = [diedAt EXCEPT ![live] = now]
    /\ UNCHANGED <<now, late, live, slot, storing, current, reg, readerVars>>

-----------------------------------------------------------------------------
(* The reader: the control loop, the link's poll, the cell. *)

\* openExisting, once: a reader that finds no region goes on without one.
OpenExisting ==
    /\ readerPc = "closed"
    /\ mapped' = live
    /\ readerPc' = "asleep"
    /\ UNCHANGED <<now, late, writerVars, sampledAt, lastGood, readAt, movedAt, cellVars>>

\* The control loop wakes, at least a tick after its last step, and samples the
\* clock before it calls step.
Sample ==
    /\ readerPc = "asleep"
    /\ now > sampledAt
    /\ sampledAt' = now
    /\ readerPc' = "sampled"
    /\ UNCHANGED <<now, late, writerVars, mapped, lastGood, readAt, movedAt, cellVars>>

ReadSucceeds == mapped # 0 /\ mapped \notin storing

\* Mutants: a successful read taken for proof of life; only the first good
\* reading is kept; a reading that repeats the verdict kept is not.
PollAsProofOfLife ==
    IF mapped = 0 THEN NoView
    ELSE IF mapped \in storing THEN lastGood
    ELSE ViewOf(slot[mapped], now, now)
RememberFirst(view) == lastGood' = IF lastGood.valid THEN lastGood ELSE view
RememberChanges(view) ==
    lastGood' = IF ReadSucceeds /\ view.sequence # lastGood.sequence THEN view
                                                                     ELSE lastGood

\* SharedMemorySafetyLink::poll: the view it returns and the one it keeps.
Poll ==
    IF mapped = 0 THEN NoView
    ELSE IF mapped \in storing THEN lastGood
    ELSE ViewOf(slot[mapped], now, slot[mapped].published)

Remember(view) == lastGood' = IF ReadSucceeds THEN view ELSE lastGood

StepCell ==
    /\ readerPc = "sampled"
    /\ Step(Poll, sampledAt)
    /\ Remember(Poll)
    /\ readAt' = IF ReadSucceeds THEN now ELSE readAt
    /\ movedAt' = IF phase' = Held THEN movedAt ELSE sampledAt
    /\ readerPc' = "asleep"
    /\ UNCHANGED <<now, late, writerVars, mapped, sampledAt>>

Writer ==
    \/ Create
    \/ \E permitted \in BOOLEAN : Decide(permitted)
    \/ Heartbeat
    \/ \E t \in Threads : Stamp(t) \/ StoreBegin(t) \/ StoreEnd(t)
    \/ Crash

Reader == OpenExisting \/ Sample \/ StepCell

Next == Tick \/ Writer \/ Reader

Spec == Init /\ [][Next]_vars

-----------------------------------------------------------------------------
(* What the link and the cell promise together. *)

\* The latest instant at which the writer of the mapped region had a permit in
\* force.
LastInForce ==
    IF mapped = 0 THEN 0
    ELSE IF InForce(mapped) THEN now ELSE lapsedAt[mapped]

Lease == INSTANCE PermitLease
             WITH Lease <- MaxSafetyAge, lastInForce <- LastInForce

\* The cell on this link is a lease holder: every motion began within
\* max_safety_age of an instant at which the writer permitted it, however late
\* the writer is in getting a stop out and wherever it crashes.
ImplementsLease == Lease!Spec

\* tests/test_dead_writer.cpp: once the writing process is gone, no motion begins
\* later than max_safety_age after its death, although every read of the region
\* it left behind succeeds, also when a new writer has taken over the name.
DeadWriterStopsTheCell ==
    mapped > 0 /\ ~(up /\ mapped = live)
        => movedAt <= diedAt[mapped] + MaxSafetyAge

\* heartbeat() may "republish the current verdict unchanged"
\* (shared_memory_link.cpp:76): once a verdict has been published, the region holds
\* that verdict until the next one is decided, whatever heartbeats interleave.
RegionHoldsCurrentVerdict ==
    up /\ pc["main"] = "idle" /\ current.sequence > 0
        => /\ slot[live].sequence = current.sequence
           /\ slot[live].permitted = current.permitted

\* The cell never falls back to a verdict older than one it has acted on, not even
\* when a torn read makes the link answer with its last good reading.
NeverBackToOlderVerdict == [][lastSequence' >= lastSequence]_vars

\* A step that finds a stop while the cell is moving measures it, and the number
\* is the whole interval from the writer's decision to this poll.
EveryStopIsMeasured ==
    [][StepCell /\ Moving /\ phase' = Held
            /\ Poll.valid /\ ~Stale(Poll, sampledAt)
        => /\ ~Poll.permitted
           /\ hasStopMeasurement'
           /\ lastStopReaction' = now - slot[mapped].asserted]_vars

\* "A heartbeating writer must not look stale" (tests/test_dead_writer.cpp:94): as
\* long as the running writer's heartbeat has never been overdue, a poll finds its
\* verdict stale only if every read has been torn for what a due heartbeat leaves of
\* the reader's budget: never when it reads the region and the heartbeat is due
\* within that budget, and with the last good reading not before the end of that
\* time, since each good read renews the stamp that is kept.
NoSpuriousStaleness ==
    [][StepCell /\ Poll.sequence > 0 /\ up /\ mapped = live /\ ~late
            /\ sampledAt + HeartbeatBudget <= readAt' + MaxSafetyAge
        => ~Stale(Poll, sampledAt)]_vars
=============================================================================
