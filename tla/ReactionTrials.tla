--------------------------- MODULE ReactionTrials ---------------------------
(***************************************************************************)
(* The reaction benchmark over HTTP: SafetySource, whose three atomics the *)
(* server's handler reads one by one while the main thread stores them one *)
(* by one, the link and the cell of HttpCell on the stamped format, and    *)
(* the loop of measure() that trips the source and waits for the cell.     *)
(*                                                                         *)
(* A release store follows the stores before it and an acquire load comes  *)
(* before the loads after it; the relaxed two come in either order.  The   *)
(* threads are punctual here: in every tick the cell is stepped, a fetch   *)
(* that is due is made (and may fail) and the main thread does not dawdle. *)
(* What the source does to its shared region is in SharedMemoryCell.       *)
(***************************************************************************)
EXTENDS HttpCell, Sequences

CONSTANTS
    Settle,      \* how long a permit stands, jitter aside
    Patience     \* how long the loop waits for a reaction

ASSUME TrialsAssumption ==
    /\ "stamped" \in Formats
    /\ MaxStarts >= 1
    /\ Settle \in Nat /\ Patience \in Nat
    /\ MaxTurnaround + 1 < Settle
    /\ MaxTurnaround <= Patience

VARIABLES
    http,       \* http_sequence_, http_asserted_, http_permitted_
    unstored,   \* the fields publish() has yet to store
    unread,     \* the fields the handler has yet to read
    mainPc,     \* "permitting", "settling", "tripping" or "waiting"
    since,      \* when the main thread began to settle or to wait
    before,     \* last_stop_reaction_ns() before the trip
    verdicts,   \* history: the signals the source has decided, by sequence
    measuredOf  \* history: the decision stamp of the stop measured last

sourceVars == <<http, unstored, since, verdicts>>
mainVars == <<mainPc, before>>
trialsVars == <<vars, sourceVars, mainVars, unread, measuredOf>>

Fields == {"sequence", "asserted", "permitted"}

FieldsOf(signal) == [f \in Fields |-> signal[f]]

TrialsTypeOK ==
    /\ TypeOK
    /\ http \in [sequence : Nat, asserted : Instant, permitted : BOOLEAN]
    /\ unstored \in SUBSET Fields
    /\ unread \in SUBSET Fields
    /\ mainPc \in {"permitting", "settling", "tripping", "waiting"}
    /\ since \in 0 .. now
    /\ before \in Nat
    /\ verdicts \in Seq(SafetySignal)
    /\ measuredOf \in 0 .. now

\* The source is constructed, its first permit published, before the link is.
TrialsInit ==
    /\ LinkInit
    /\ format = "stamped"
    /\ starts = 1
    /\ up = TRUE
    /\ current = Verdict(1, TRUE)
    /\ permits = {1}
    /\ http = FieldsOf(Verdict(1, TRUE))
    /\ unstored = {}
    /\ unread = {}
    /\ mainPc = "permitting"
    /\ since = now
    /\ before = 0
    /\ verdicts = <<Verdict(1, TRUE)>>
    /\ measuredOf = 0

-----------------------------------------------------------------------------
(* The source. *)

Assert(permitted) ==
    /\ current.sequence < MaxSequence
    /\ current' = Verdict(current.sequence + 1, permitted)
    /\ verdicts' = Append(verdicts, current')
    /\ permits' = IF permitted THEN permits \cup {current'.sequence} ELSE permits
    /\ lapsedAt' = IF current.permitted THEN now ELSE lapsedAt
    /\ unstored' = Fields
    /\ UNCHANGED <<format, now, starts, up, diedAt, linkVars, pollerVars, readerVars,
                   http, since, unread, measuredOf>>

\* Mutant: the sequence is stored first.
MayStoreSequenceFirst(f) == f # "sequence" => "sequence" \notin unstored

MayStore(f) == f = "sequence" => unstored = {"sequence"}

StoreField(f) ==
    /\ f \in unstored
    /\ MayStore(f)
    /\ http' = [http EXCEPT ![f] = current[f]]
    /\ unstored' = unstored \ {f}
    /\ since' = now
    /\ UNCHANGED <<vars, verdicts, mainVars, unread, measuredOf>>

\* Mutant: the sequence is read last.
MayReadSequenceLast(f) == f = "sequence" => unread = {"sequence"}

MayRead(f) == f # "sequence" => "sequence" \notin unread

\* The handler of /safety; the answer goes out with the third field.
ReadField(f) ==
    /\ pollerPc = "sent"
    /\ f \in unread
    /\ MayRead(f)
    /\ reply' = [reply EXCEPT ![f] = http[f]]
    /\ unread' = unread \ {f}
    /\ pollerPc' = IF unread' = {} THEN "answered" ELSE "sent"
    /\ UNCHANGED <<format, now, runtimeVars, linkVars, fetchedAt, countVars,
                   readerVars, sourceVars, mainVars, measuredOf>>

-----------------------------------------------------------------------------
(* The main thread. *)

Permit ==
    /\ mainPc = "permitting"
    /\ Assert(TRUE)
    /\ mainPc' = "settling"
    /\ UNCHANGED before

ReadBefore ==
    /\ mainPc = "settling"
    /\ unstored = {}
    /\ now >= since + Settle
    /\ before' = lastStopReaction
    /\ mainPc' = "tripping"
    /\ UNCHANGED <<vars, sourceVars, unread, measuredOf>>

AssertStop ==
    /\ mainPc = "tripping"
    /\ Assert(FALSE)
    /\ mainPc' = "waiting"
    /\ UNCHANGED before

\* Mutant: any measurement will do.
MeasuredAtAll == hasStopMeasurement

\* A reaction other than the one before the trip.
Measured == hasStopMeasurement /\ lastStopReaction # before

\* The sample is taken, or the loop gives up: on with the next trial.
EndTrial ==
    /\ mainPc = "waiting"
    /\ unstored = {}
    /\ Measured \/ now >= since + Patience
    /\ mainPc' = "permitting"
    /\ UNCHANGED <<vars, sourceVars, before, unread, measuredOf>>

-----------------------------------------------------------------------------
(* The link and the cell, as in HttpCell. *)

Request == Fetch /\ unread' = Fields

Link ==
    /\ \/ Request
       \/ /\ Receive \/ FetchFails \/ StoreBegin \/ StoreEnd \/ StampSuccess
          /\ UNCHANGED unread
    /\ UNCHANGED <<sourceVars, mainVars, measuredOf>>

Control ==
    /\ Reader
    /\ measuredOf' = IF Moving /\ phase' = Held /\ lastSequence' # lastSequence
                       THEN loaded.asserted ELSE measuredOf
    /\ UNCHANGED <<sourceVars, mainVars, unread>>

\* A tick is long enough for every thread to do what it is due to do in it.
Time ==
    /\ Tick
    /\ readerPc = "asleep" /\ sampledAt = now
    /\ pollerPc = "asleep" /\ now < fetchedAt + PollPeriod
    /\ mainPc \in {"settling", "waiting"} /\ unstored = {}
    /\ UNCHANGED <<sourceVars, mainVars, unread, measuredOf>>

TrialsNext ==
    \/ \E f \in Fields : StoreField(f) \/ ReadField(f)
    \/ Permit \/ ReadBefore \/ AssertStop \/ EndTrial
    \/ Link \/ Control \/ Time

TrialsSpec == TrialsInit /\ [][TrialsNext]_trialsVars

-----------------------------------------------------------------------------
Answered == pollerPc \in {"answered", "fetched", "storing", "stored"}

\* "An HTTP reader never sees a new sequence paired with an old timestamp, which
\* would understate the measured interval" (reaction_benchmark.cpp:114-117).
NewSequenceNewTimestamp ==
    Answered => reply.asserted >= verdicts[reply.sequence].asserted

\* Whenever the loop would take a sample, the cell has measured a stop of this
\* trial and not of one before it: nothing decided before this trial's permit.
SampleIsOfThisTrial ==
    mainPc = "waiting" /\ Measured
        => measuredOf >= verdicts[current.sequence - 1].asserted
=============================================================================
