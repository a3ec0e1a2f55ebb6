------------------------------ MODULE HttpCell ------------------------------
(***************************************************************************)
(* The cell on the HTTP polling link, and the runtime it polls.  The       *)
(* link's poller thread fetches, stores the signal and then stamps the     *)
(* success; the control thread's poll loads the signal and then the stamp. *)
(* The two threads interleave at each of these steps.                      *)
(*                                                                         *)
(* The runtime is external: it answers with the verdict it holds at some   *)
(* instant between request and answer, it may crash and be started again,  *)
(* and any request or answer may be lost, or an answer cut short.  The     *)
(* seqlock is external too: a load inside a store fails.                   *)
(***************************************************************************)
EXTENDS Cell

CONSTANTS
    Formats,        \* the formats the endpoint may be configured to speak
    PollPeriod,     \* period_, slept after every fetch
    PollSlack,      \* bound on how much longer the poller sleeps
    MaxTurnaround,  \* bound on the time from request to stamped success
    CutFactors,     \* what a stamp is divided by when it loses its last digits
    Uptime,         \* the clock when the model starts
    MaxTime,        \* bound on the clock
    MaxSequence,    \* bound on the verdicts of one runtime
    MaxStarts       \* bound on how often the runtime is started

ASSUME HttpAssumption ==
    /\ Formats \subseteq {"stamped", "readiness"}
    /\ PollPeriod \in Nat
    /\ PollSlack \in Nat
    /\ MaxTurnaround \in Nat
    /\ CutFactors \subseteq Nat \ {0}
    /\ Uptime \in Nat /\ Uptime > MaxSafetyAge
    /\ Uptime >= PollPeriod
    /\ MaxTime \in Nat
    /\ MaxSequence \in Nat \ {0}
    /\ MaxStarts \in Nat

VARIABLES
    now,                \* nowNanos()
    starts,             \* how often the runtime has been started
    up,                 \* whether the runtime is running
    current,            \* the verdict the runtime holds
    format,             \* format_
    pollerPc,           \* "asleep", "sent", "answered", "fetched", "storing", "stored"
    fetchedAt,          \* when the fetch under way began, or the last one ended
    reply,              \* the answer, then the signal, of the fetch under way
    latest,             \* latest_
    lastSuccess,        \* last_success_ns_
    everReceived,       \* ever_received_
    readinessSequence,  \* readiness_sequence_
    requestsAttempted,  \* requests_attempted_
    requestsFailed,     \* requests_failed_
    readerPc,           \* "asleep", "sampled" or "loaded"
    sampledAt,          \* the now_ns the control loop passed to Cell::step
    loaded,             \* the signal poll() has loaded
    lastGood,           \* last_good_
    permits,            \* history: the numbers of the permits given
    missed,             \* history: fetches failed since the last success
    lapsedAt,           \* history: when a permit last ended
    diedAt,             \* history: when the runtime last crashed
    movedAt             \* history: sampledAt of the latest step that moved

runtimeVars == <<starts, up, current, permits, lapsedAt, diedAt>>
linkVars == <<latest, lastSuccess, everReceived, readinessSequence>>
countVars == <<requestsAttempted, requestsFailed, missed>>
pollerVars == <<pollerPc, fetchedAt, reply, countVars>>
readerVars == <<readerPc, sampledAt, loaded, lastGood, movedAt, cellVars>>
vars == <<format, now, runtimeVars, linkVars, pollerVars, readerVars>>

\* What Format says an endpoint may speak: the decision with its instant, or
\* nothing but 200 or not.
Format == {"stamped", "readiness"}

NoSignal ==
    [sequence |-> 0, asserted |-> 0, published |-> 0, permitted |-> FALSE]

TypeOK ==
    /\ CellTypeOK
    /\ now \in Nat
    /\ starts \in 0 .. MaxStarts
    /\ up \in BOOLEAN
    /\ current \in SafetySignal
    /\ format \in Format
    /\ pollerPc \in {"asleep", "sent", "answered", "fetched", "storing", "stored"}
    /\ fetchedAt \in 0 .. now
    /\ reply \in SafetySignal
    /\ latest \in SafetySignal
    /\ lastSuccess \in 0 .. now
    /\ everReceived \in BOOLEAN
    /\ readinessSequence \in Nat
    /\ requestsAttempted \in 0 .. MaxCount
    /\ requestsFailed \in 0 .. MaxCount
    /\ readerPc \in {"asleep", "sampled", "loaded"}
    /\ sampledAt \in 0 .. now
    /\ loaded \in SafetySignal
    /\ lastGood \in SafetyView
    /\ lapsedAt \in 0 .. now
    /\ diedAt \in 0 .. now
    /\ movedAt \in 0 .. sampledAt
    /\ permits \in SUBSET Nat
    /\ missed \in Nat

\* A link and a cell just constructed; the machine is up.
LinkInit ==
    /\ CellInit
    /\ now = Uptime
    /\ format \in Formats
    /\ pollerPc = "asleep"
    /\ fetchedAt = 0
    /\ reply = NoSignal
    /\ latest = DefaultSignal
    /\ lastSuccess = 0
    /\ everReceived = FALSE
    /\ readinessSequence = 0
    /\ requestsAttempted = 0
    /\ requestsFailed = 0
    /\ readerPc = "asleep"
    /\ sampledAt = 0
    /\ loaded = NoSignal
    /\ lastGood = NoView
    /\ lapsedAt = 0
    /\ diedAt = 0
    /\ movedAt = 0
    /\ missed = 0

Init ==
    /\ LinkInit
    /\ starts = 0
    /\ up = FALSE
    /\ current = NoSignal
    /\ permits = {}

\* The socket timeouts, and a poller that is scheduled, end every fetch in time;
\* the same scheduling wakes the poller when its period is over.
Tick ==
    /\ now < MaxTime
    /\ now < fetchedAt + IF pollerPc = "asleep" THEN PollPeriod + PollSlack
                                                ELSE MaxTurnaround
    /\ now' = now + 1
    /\ UNCHANGED <<format, runtimeVars, linkVars, pollerVars, readerVars>>

-----------------------------------------------------------------------------
(* The runtime. *)

Verdict(sequence, permitted) ==
    [sequence |-> sequence, asserted |-> now, published |-> 0,
     permitted |-> permitted]

\* A runtime starts over with its first verdict.
Start(permitted) ==
    /\ ~up
    /\ starts < MaxStarts
    /\ starts' = starts + 1
    /\ up' = TRUE
    /\ current' = Verdict(1, permitted)
    /\ permits' = IF permitted THEN permits \cup {1} ELSE permits
    /\ UNCHANGED <<format, now, lapsedAt, diedAt, linkVars, pollerVars, readerVars>>

Decide ==
    /\ up
    /\ current.sequence < MaxSequence
    /\ current' = Verdict(current.sequence + 1, ~current.permitted)
    /\ permits' = IF current'.permitted THEN permits \cup {current'.sequence}
                                        ELSE permits
    /\ lapsedAt' = IF current.permitted THEN now ELSE lapsedAt
    /\ UNCHANGED <<format, now, starts, up, diedAt, linkVars, pollerVars, readerVars>>

Crash ==
    /\ up
    /\ up' = FALSE
    /\ lapsedAt' = IF current.permitted THEN now ELSE lapsedAt
    /\ diedAt' = now
    /\ UNCHANGED <<format, now, starts, current, permits, linkVars, pollerVars, readerVars>>

Runtime == Decide \/ Crash \/ \E permitted \in BOOLEAN : Start(permitted)

-----------------------------------------------------------------------------
(* The poller thread: pollLoop and fetchOnce. *)

\* Only after a whole period of sleep since the previous fetch ended.
Fetch ==
    /\ pollerPc = "asleep"
    /\ now >= fetchedAt + PollPeriod
    /\ pollerPc' = "sent"
    /\ fetchedAt' = now
    /\ requestsAttempted' = Count(requestsAttempted)
    /\ UNCHANGED <<format, now, runtimeVars, linkVars, reply, requestsFailed,
                   missed, readerVars>>

\* The runtime's handler reads its verdict.
Answer ==
    /\ pollerPc = "sent"
    /\ up
    /\ reply' = current
    /\ pollerPc' = "answered"
    /\ UNCHANGED <<format, now, runtimeVars, linkVars, fetchedAt, countVars,
                   readerVars>>

\* Mutants: a change of verdict gets no new number; an unchanged one loses its.
ReadinessUnnumbered(answer) ==
    [answer EXCEPT !.sequence = latest.sequence, !.asserted = now]
ReadinessForgetful(answer) ==
    IF latest.permitted # answer.permitted
      THEN [answer EXCEPT !.sequence = readinessSequence + 1, !.asserted = now]
      ELSE [answer EXCEPT !.sequence = 0, !.asserted = now]

\* A readiness answer says only permitted or not.  It is stamped here, and
\* numbered here whenever it differs from the signal before it.
ReadinessSignal(answer) ==
    IF latest.permitted # answer.permitted
      THEN [answer EXCEPT !.sequence = readinessSequence + 1, !.asserted = now]
      ELSE [answer EXCEPT !.sequence = latest.sequence,
                          !.asserted = latest.asserted]

Received(answer) ==
    /\ pollerPc = "answered"
    /\ IF format = "stamped"
         THEN reply' = answer /\ UNCHANGED readinessSequence
         ELSE /\ reply' = ReadinessSignal(answer)
              /\ readinessSequence' = IF latest.permitted # answer.permitted
                                        THEN readinessSequence + 1
                                        ELSE readinessSequence
    /\ pollerPc' = "fetched"
    /\ UNCHANGED <<format, now, runtimeVars, latest, lastSuccess, everReceived,
                   fetchedAt, countVars, readerVars>>

Receive == Received(reply)

\* What is left of an answer whose connection broke and which is still taken for
\* one.  The body's last number, the decision stamp, may have lost its last
\* digits, which is a quotient by a power of ten; the first two are whole if the
\* third has begun.  A readiness probe does not see the 200 of a status line that
\* breaks off.
CutShort(answer) ==
    IF format = "stamped"
      THEN {[answer EXCEPT !.asserted = @ \div factor] : factor \in CutFactors}
      ELSE {[answer EXCEPT !.permitted = FALSE]}

ReceiveCut == \E answer \in CutShort(reply) : Received(answer)

\* Refused, lost, timed out, or (stamped) not a 200 with three numbers.
FetchFails ==
    /\ pollerPc \in {"sent", "answered"}
    /\ requestsFailed' = Count(requestsFailed)
    /\ missed' = missed + 1
    /\ pollerPc' = "asleep"
    /\ fetchedAt' = now
    /\ reply' = NoSignal
    /\ UNCHANGED <<format, now, runtimeVars, linkVars, requestsAttempted, readerVars>>

StoreBegin ==
    /\ pollerPc = "fetched"
    /\ pollerPc' = "storing"
    /\ UNCHANGED <<format, now, runtimeVars, linkVars, fetchedAt, reply, countVars,
                   readerVars>>

StoreEnd ==
    /\ pollerPc = "storing"
    /\ latest' = reply
    /\ pollerPc' = "stored"
    /\ UNCHANGED <<format, now, runtimeVars, lastSuccess, everReceived,
                   readinessSequence, fetchedAt, reply, countVars, readerVars>>

\* Mutant: the success is dated back to the request.
StampRequest ==
    /\ pollerPc = "stored"
    /\ lastSuccess' = fetchedAt
    /\ everReceived' = TRUE
    /\ missed' = 0
    /\ pollerPc' = "asleep"
    /\ fetchedAt' = now
    /\ reply' = NoSignal
    /\ UNCHANGED <<format, now, runtimeVars, latest, readinessSequence,
                   requestsAttempted, requestsFailed, readerVars>>

\* The success is stamped, and the link counts as having been heard, only after
\* the signal is out.
StampSuccess ==
    /\ pollerPc = "stored"
    /\ lastSuccess' = now
    /\ everReceived' = TRUE
    /\ missed' = 0
    /\ pollerPc' = "asleep"
    /\ fetchedAt' = now
    /\ reply' = NoSignal
    /\ UNCHANGED <<format, now, runtimeVars, latest, readinessSequence,
                   requestsAttempted, requestsFailed, readerVars>>

Poller ==
    \/ Fetch \/ Answer \/ Receive \/ ReceiveCut \/ FetchFails
    \/ StoreBegin \/ StoreEnd \/ StampSuccess

-----------------------------------------------------------------------------
(* The control thread: the loop, HttpPollSafetyLink::poll, Cell::step. *)

Sample ==
    /\ readerPc = "asleep"
    /\ now > sampledAt
    /\ sampledAt' = now
    /\ readerPc' = "sampled"
    /\ UNCHANGED <<format, now, runtimeVars, linkVars, pollerVars, loaded, lastGood,
                   movedAt, cellVars>>

\* Mutant: the slot is read although nothing has ever been received.
TryLoadUnheard ==
    /\ readerPc = "sampled"
    /\ pollerPc # "storing"
    /\ loaded' = latest
    /\ readerPc' = "loaded"
    /\ UNCHANGED <<format, now, runtimeVars, linkVars, pollerVars, sampledAt,
                   lastGood, movedAt, cellVars>>

TryLoad ==
    /\ readerPc = "sampled"
    /\ everReceived
    /\ pollerPc # "storing"
    /\ loaded' = latest
    /\ readerPc' = "loaded"
    /\ UNCHANGED <<format, now, runtimeVars, linkVars, pollerVars, sampledAt,
                   lastGood, movedAt, cellVars>>

\* Cell::step on what poll() returns, whichever way it returns.
StepOn(view) ==
    /\ Step(view, sampledAt)
    /\ movedAt' = IF phase' = Held THEN movedAt ELSE sampledAt
    /\ readerPc' = "asleep"
    /\ loaded' = NoSignal
    /\ UNCHANGED <<format, now, runtimeVars, linkVars, pollerVars, sampledAt>>

StepUninformed ==
    /\ readerPc = "sampled"
    /\ ~everReceived
    /\ StepOn(NoView)
    /\ UNCHANGED lastGood

StepOnLastGood ==
    /\ readerPc = "sampled"
    /\ everReceived
    /\ pollerPc = "storing"
    /\ StepOn(lastGood)
    /\ UNCHANGED lastGood

\* Mutant: the view is stamped with the instant of the poll.
LoadedViewStampedNow == ViewOf(loaded, now, now)

\* The stamp is loaded after the signal, and stands for both of its instants.
LoadedView == ViewOf(loaded, lastSuccess, lastSuccess)

Remember(view) == lastGood' = view

StepOnLoaded ==
    /\ readerPc = "loaded"
    /\ StepOn(LoadedView)
    /\ Remember(LoadedView)

Reader == Sample \/ TryLoad \/ StepUninformed \/ StepOnLastGood \/ StepOnLoaded

Next == Tick \/ Runtime \/ Poller \/ Reader

Spec == Init /\ [][Next]_vars

-----------------------------------------------------------------------------
(* What the link and the cell promise together. *)

\* The latest instants at which the runtime was running, and at which it had a
\* permit in force.
LastUp == IF up THEN now ELSE diedAt
LastInForce == IF up /\ current.permitted THEN now ELSE lapsedAt

\* A permit is taken to be as old as its fetch, not as its answer.
HttpLease == MaxTurnaround + MaxSafetyAge

Lease == INSTANCE PermitLease WITH Lease <- HttpLease, lastInForce <- LastUp

\* "A dead runtime stops the machine rather than being outlived by its own last
\* answer" (cell.hpp:62-63): over HTTP the cell holds a lease on the runtime being
\* alive, so that every motion began within the staleness budget plus one fetch of
\* an instant at which it ran.
ImplementsLease == Lease!Spec

\* The cell never falls back to a verdict older than one it has acted on, however
\* its polls interleave with the poller's stores; in the readiness format, which
\* numbers verdicts itself, not even when the runtime is started over.
NeverBackToOlderVerdict ==
    [][starts <= 1 \/ format = "readiness" => lastSequence' >= lastSequence]_vars

\* In the readiness format a step that finds a stop while the cell is moving always
\* sees it as a new one, so that every such stop is measured.
EveryStopIsMeasured ==
    [][format = "readiness" /\ Moving /\ phase' = Held
            /\ readerPc = "loaded" /\ ~loaded.permitted
            /\ ~Stale(LoadedView, sampledAt)
        => hasStopMeasurement' /\ lastSequence' # lastSequence]_vars

\* "Against a plain readiness probe this stays 0 ... it means nothing was measured"
\* (pickcelld.cpp:145-147), of the reaction the daemon reports.
NothingMeasuredByReadiness == format = "readiness" => lastStopReaction = 0

\* Whatever is lost, cut short or started over, the cell moves only under the
\* number of a permit a runtime gave: never on the default signal the slot is
\* constructed with, which permits torque too, nor on half an answer.
MovesOnlyOnAPermitGiven == format = "stamped" /\ Moving => lastSequence \in permits

\* The longest a fetch and the sleep around it can take.
Cycle == PollPeriod + PollSlack + MaxTurnaround

\* "Long enough not to trip on one dropped request" (cell.hpp:61), as far as that
\* goes: what a poll loads has outlived the budget only when the budget is shorter
\* than the cycles since the last success, one for each fetch that failed and one
\* under way.
SilenceExplainsStaleness ==
    readerPc = "loaded" /\ Stale(LoadedView, sampledAt)
        => MaxSafetyAge < (missed + 1) * Cycle

\* The same claim as the comment makes it: what a poll loads is never too old while
\* at most one request since the last success has been dropped.
OneDroppedRequestIsSurvived ==
    readerPc = "loaded" /\ Stale(LoadedView, sampledAt)
        => missed + (IF pollerPc = "asleep" THEN 0 ELSE 1) > 1

\* "A permit is a statement about a moment, not a standing grant" (cell.hpp:60):
\* every motion began within the budget plus one fetch of an instant at which a
\* permit was in force.
MotionWithinPermit == movedAt <= LastInForce + HttpLease
=============================================================================
