----------------------------- MODULE HttpProofs -----------------------------
(***************************************************************************)
(* Theorems about the cell on the HTTP polling link, for every number of   *)
(* verdicts, runtime restarts and ticks, every poll period, turnaround     *)
(* bound and staleness budget, and every geometry.                         *)
(***************************************************************************)
EXTENDS HttpCell, CellLemmas

-----------------------------------------------------------------------------
(* Type correctness. *)

LEMMA SignalsAreSignals ==
    /\ NoSignal \in SafetySignal
    /\ DefaultSignal \in SafetySignal
    /\ NoView \in SafetyView
BY DEF NoSignal, DefaultSignal, NoView, SafetySignal, SafetyView, Instant

LEMMA SignalFields ==
    ASSUME NEW s \in SafetySignal
    PROVE  /\ s.sequence \in Nat /\ s.asserted \in Nat /\ s.published \in Nat
           /\ s.permitted \in BOOLEAN
BY DEF SafetySignal, Instant

LEMMA VerdictIsASignal ==
    ASSUME now \in Nat, NEW n \in Nat, NEW permitted \in BOOLEAN
    PROVE  Verdict(n, permitted) \in SafetySignal
BY DEF Verdict, SafetySignal, Instant

LEMMA LoadedViewIsAView ==
    ASSUME TypeOK
    PROVE  LoadedView \in SafetyView
<1>1. loaded \in SafetySignal /\ lastSuccess \in Nat
  BY DEF TypeOK
<1> QED
  BY <1>1, SignalFields DEF LoadedView, ViewOf, SafetyView, Instant

LEMMA ReadinessSignalIsASignal ==
    ASSUME TypeOK, NEW answer \in SafetySignal
    PROVE  ReadinessSignal(answer) \in SafetySignal
<1>1. /\ latest \in SafetySignal
      /\ readinessSequence + 1 \in Nat /\ now \in Nat
  BY DEF TypeOK
<1>2. \A n, a \in Nat :
        [answer EXCEPT !.sequence = n, !.asserted = a] \in SafetySignal
  BY <1>1 DEF SafetySignal, Instant
<1> QED
  BY <1>1, <1>2, SignalFields DEF ReadinessSignal

\* Cutting an answer short leaves a signal with the number of the answer, and in
\* the stamped format with its verdict.
LEMMA CutShortIsASignal ==
    ASSUME NEW answer \in SafetySignal, NEW part \in CutShort(answer)
    PROVE  /\ part \in SafetySignal
           /\ part.sequence = answer.sequence
           /\ format = "stamped" => part.permitted = answer.permitted
<1>1. CASE format = "stamped"
  <2>1. PICK factor \in CutFactors :
          part = [answer EXCEPT !.asserted = answer.asserted \div factor]
    BY <1>1 DEF CutShort
  <2> DEFINE stamp == answer.asserted \div factor
  <2>2. stamp \in Nat
    <3>1. answer.asserted \in Nat /\ factor \in Nat \ {0}
      BY SignalFields, HttpAssumption
    <3> QED
      BY <3>1
  <2>3. part = [answer EXCEPT !.asserted = stamp]
    BY <2>1
  <2> HIDE DEF stamp
  <2> QED
    BY <2>2, <2>3 DEF SafetySignal, Instant
<1>2. CASE format # "stamped"
  <2>1. part = [answer EXCEPT !.permitted = FALSE]
    BY <1>2 DEF CutShort
  <2> QED
    BY <1>2, <2>1 DEF SafetySignal, Instant
<1> QED
  BY <1>1, <1>2

\* Whether the answer comes whole or cut short, one of its readings is received.
LEMMA ReceivedIsASignal ==
    ASSUME TypeOK, Receive \/ ReceiveCut
    PROVE  \E answer \in SafetySignal :
             /\ Received(answer)
             /\ answer.sequence = reply.sequence
             /\ format = "stamped" => answer.permitted = reply.permitted
<1>1. reply \in SafetySignal
  BY DEF TypeOK
<1>2. CASE Receive
  BY <1>1, <1>2 DEF Receive
<1>3. CASE ReceiveCut
  BY <1>1, <1>3, CutShortIsASignal DEF ReceiveCut
<1> QED
  BY <1>2, <1>3

\* The cell's own state is touched only by the steps of the control thread.
LEMMA CellUnchanged ==
    ASSUME CellTypeOK, UNCHANGED cellVars
    PROVE  CellTypeOK'
BY DEF CellTypeOK, cellVars, motion, measurement

LEMMA CountStays ==
    ASSUME TypeOK
    PROVE  /\ Count(requestsAttempted) \in 0 .. MaxCount
           /\ Count(requestsFailed) \in 0 .. MaxCount
BY CountIsBounded DEF TypeOK

LEMMA InitTypeOK == Init => TypeOK
<1> SUFFICES ASSUME Init PROVE TypeOK
  OBVIOUS
<1>1. CellTypeOK
  BY CellInitTypeOK DEF Init, LinkInit
<1>2. /\ current \in SafetySignal /\ reply \in SafetySignal
      /\ latest \in SafetySignal /\ loaded \in SafetySignal
      /\ lastGood \in SafetyView
  BY SignalsAreSignals DEF Init, LinkInit
<1>3. /\ now \in Nat /\ starts \in 0 .. MaxStarts /\ fetchedAt \in 0 .. now
      /\ lastSuccess \in 0 .. now /\ readinessSequence \in Nat
      /\ requestsAttempted \in 0 .. MaxCount /\ requestsFailed \in 0 .. MaxCount
      /\ sampledAt \in 0 .. now /\ lapsedAt \in 0 .. now /\ diedAt \in 0 .. now
      /\ movedAt \in 0 .. sampledAt
      /\ permits \in SUBSET Nat /\ missed \in Nat /\ format \in Format
  BY HttpAssumption, CellAssumption DEF Init, LinkInit, Format
<1>4. /\ up \in BOOLEAN /\ everReceived \in BOOLEAN
      /\ pollerPc = "asleep" /\ readerPc = "asleep"
  BY DEF Init, LinkInit
<1> QED
  BY <1>1, <1>2, <1>3, <1>4 DEF TypeOK

\* What every step of Cell::step on a view leaves behind.
LEMMA StepOnTypeOK ==
    ASSUME TypeOK, NEW view \in SafetyView, StepOn(view)
    PROVE  /\ CellTypeOK'
           /\ movedAt' \in 0 .. sampledAt
           /\ readerPc' = "asleep"
           /\ loaded' = NoSignal
           /\ UNCHANGED <<format, now, runtimeVars, linkVars, pollerVars, sampledAt>>
<1>1. sampledAt \in Nat /\ movedAt \in 0 .. sampledAt /\ CellTypeOK
  BY DEF TypeOK
<1>2. CellTypeOK'
  BY <1>1, StepTypeOK DEF StepOn
<1>3. movedAt' \in 0 .. sampledAt
  BY <1>1 DEF StepOn
<1> QED
  BY <1>2, <1>3 DEF StepOn

LEMMA NextTypeOK == TypeOK /\ [Next]_vars => TypeOK'
<1> SUFFICES ASSUME TypeOK, [Next]_vars PROVE TypeOK'
  OBVIOUS
<1> USE DEF runtimeVars, linkVars, pollerVars, countVars
<1>1. CASE Tick
  <2>1. CellTypeOK'
    BY <1>1, CellUnchanged DEF Tick, readerVars, TypeOK
  <2> QED
    BY <1>1, <2>1 DEF Tick, TypeOK, readerVars
<1>2. ASSUME NEW permitted \in BOOLEAN, Start(permitted) PROVE TypeOK'
  <2>1. CellTypeOK'
    BY <1>2, CellUnchanged DEF Start, readerVars, TypeOK
  <2>2. current' \in SafetySignal
    BY <1>2, VerdictIsASignal DEF Start, TypeOK
  <2>3. starts' \in 0 .. MaxStarts
    BY <1>2, HttpAssumption DEF Start, TypeOK
  <2> QED
    BY <1>2, <2>1, <2>2, <2>3 DEF Start, TypeOK, readerVars
<1>3. CASE Decide
  <2>1. CellTypeOK'
    BY <1>3, CellUnchanged DEF Decide, readerVars, TypeOK
  <2>2. current' \in SafetySignal
    <3>1. now \in Nat /\ current \in SafetySignal
      BY DEF TypeOK
    <3>2. current.sequence + 1 \in Nat /\ (~current.permitted) \in BOOLEAN
      BY <3>1, SignalFields
    <3>3. current' = Verdict(current.sequence + 1, ~current.permitted)
      BY <1>3 DEF Decide
    <3> QED
      BY <3>1, <3>2, <3>3, VerdictIsASignal
  <2>3. now' = now /\ lapsedAt' \in 0 .. now'
    BY <1>3 DEF Decide, TypeOK
  <2>4. permits' \in SUBSET Nat
    BY <1>3, <2>2, SignalFields DEF Decide, TypeOK
  <2> QED
    BY <1>3, <2>1, <2>2, <2>3, <2>4 DEF Decide, TypeOK, readerVars
<1>4. CASE Crash
  <2>1. CellTypeOK'
    BY <1>4, CellUnchanged DEF Crash, readerVars, TypeOK
  <2>2. now' = now /\ lapsedAt' \in 0 .. now' /\ diedAt' \in 0 .. now'
    BY <1>4 DEF Crash, TypeOK
  <2> QED
    BY <1>4, <2>1, <2>2 DEF Crash, TypeOK, readerVars
<1>5. CASE Fetch
  <2>1. CellTypeOK'
    BY <1>5, CellUnchanged DEF Fetch, readerVars, TypeOK
  <2>2. requestsAttempted' \in 0 .. MaxCount
    BY <1>5, CountStays DEF Fetch
  <2> QED
    BY <1>5, <2>1, <2>2 DEF Fetch, TypeOK, readerVars
<1>6. CASE Answer
  <2>1. CellTypeOK'
    BY <1>6, CellUnchanged DEF Answer, readerVars, TypeOK
  <2> QED
    BY <1>6, <2>1 DEF Answer, TypeOK, readerVars
<1>7. CASE Receive \/ ReceiveCut
  <2>1. PICK answer \in SafetySignal : Received(answer)
    BY <1>7, ReceivedIsASignal
  <2>2. CellTypeOK'
    BY <2>1, CellUnchanged DEF Received, readerVars, TypeOK
  <2>3. reply' \in SafetySignal
    BY <2>1, ReadinessSignalIsASignal DEF Received, TypeOK
  <2>4. readinessSequence' \in Nat
    BY <2>1 DEF Received, TypeOK
  <2> QED
    BY <2>1, <2>2, <2>3, <2>4 DEF Received, TypeOK, readerVars
<1>8. CASE FetchFails
  <2>1. CellTypeOK'
    BY <1>8, CellUnchanged DEF FetchFails, readerVars, TypeOK
  <2>2. requestsFailed' \in 0 .. MaxCount
    BY <1>8, CountStays DEF FetchFails
  <2>3. reply' \in SafetySignal
    BY <1>8, SignalsAreSignals DEF FetchFails
  <2> QED
    BY <1>8, <2>1, <2>2, <2>3 DEF FetchFails, TypeOK, readerVars
<1>9. CASE StoreBegin
  <2>1. CellTypeOK'
    BY <1>9, CellUnchanged DEF StoreBegin, readerVars, TypeOK
  <2> QED
    BY <1>9, <2>1 DEF StoreBegin, TypeOK, readerVars
<1>10. CASE StoreEnd
  <2>1. CellTypeOK'
    BY <1>10, CellUnchanged DEF StoreEnd, readerVars, TypeOK
  <2> QED
    BY <1>10, <2>1 DEF StoreEnd, TypeOK, readerVars
<1>11. CASE StampSuccess
  <2>1. CellTypeOK'
    BY <1>11, CellUnchanged DEF StampSuccess, readerVars, TypeOK
  <2>2. reply' \in SafetySignal
    BY <1>11, SignalsAreSignals DEF StampSuccess
  <2> QED
    BY <1>11, <2>1, <2>2 DEF StampSuccess, TypeOK, readerVars
<1>12. CASE Sample
  <2>1. CellTypeOK'
    BY <1>12, CellUnchanged DEF Sample, readerVars, TypeOK
  <2> QED
    BY <1>12, <2>1 DEF Sample, TypeOK, readerVars
<1>13. CASE TryLoad
  <2>1. CellTypeOK'
    BY <1>13, CellUnchanged DEF TryLoad, readerVars, TypeOK
  <2> QED
    BY <1>13, <2>1 DEF TryLoad, TypeOK, readerVars
<1>14. CASE StepUninformed
  <2>1. NoView \in SafetyView
    BY SignalsAreSignals
  <2>2. lastGood' \in SafetyView
    BY <1>14, <2>1 DEF StepUninformed, Remember, TypeOK
  <2>3. StepOn(NoView)
    BY <1>14 DEF StepUninformed
  <2> QED
    BY <2>1, <2>2, <2>3, StepOnTypeOK, SignalsAreSignals DEF TypeOK
<1>15. CASE StepOnLastGood
  <2>1. lastGood \in SafetyView
    BY DEF TypeOK
  <2>2. lastGood' \in SafetyView
    BY <1>15, <2>1 DEF StepOnLastGood, Remember, TypeOK
  <2>3. StepOn(lastGood)
    BY <1>15 DEF StepOnLastGood
  <2> QED
    BY <2>1, <2>2, <2>3, StepOnTypeOK, SignalsAreSignals DEF TypeOK
<1>16. CASE StepOnLoaded
  <2>1. LoadedView \in SafetyView
    BY LoadedViewIsAView
  <2>2. lastGood' \in SafetyView
    BY <1>16, <2>1 DEF StepOnLoaded, Remember, TypeOK
  <2>3. StepOn(LoadedView)
    BY <1>16 DEF StepOnLoaded
  <2> QED
    BY <2>1, <2>2, <2>3, StepOnTypeOK, SignalsAreSignals DEF TypeOK
<1>17. CASE UNCHANGED vars
  <2>1. CellTypeOK'
    BY <1>17, CellUnchanged DEF vars, readerVars, TypeOK
  <2> QED
    BY <1>17, <2>1 DEF vars, TypeOK, readerVars
<1> QED
  BY <1>1, <1>2, <1>3, <1>4, <1>5, <1>6, <1>7, <1>8, <1>9, <1>10, <1>11, <1>12, <1>13, <1>14, <1>15, <1>16, <1>17
     DEF Next, Runtime, Poller, Reader

\* Every state of runtime, poller thread, slot, control thread and cell is
\* well-formed: in particular no instant any of them holds lies in the future.
THEOREM HttpTypeCorrect == Spec => []TypeOK
BY InitTypeOK, NextTypeOK, PTL DEF Spec

-----------------------------------------------------------------------------
(* The lease on the runtime being alive.  An answer proves that the runtime  *)
(* ran after the fetch began, and the success is stamped at most one         *)
(* turnaround after that: no view claims to be more recent than that.        *)

FetchInTime == pollerPc # "asleep" => now <= fetchedAt + MaxTurnaround

AnswerIsProofOfLife ==
    pollerPc \in {"answered", "fetched", "storing", "stored"} => fetchedAt <= LastUp

AliveInv ==
    /\ FetchInTime
    /\ AnswerIsProofOfLife
    /\ lastSuccess <= LastUp + MaxTurnaround
    /\ lastGood.published <= LastUp + MaxTurnaround
    /\ movedAt <= LastUp + HttpLease

LEMMA InitAliveInv == Init => AliveInv
BY HttpAssumption, CellAssumption
   DEF Init, LinkInit, AliveInv, FetchInTime, AnswerIsProofOfLife, LastUp, HttpLease, NoView

LEMMA LaterBySomeMore ==
    ASSUME NEW a \in Nat, NEW b \in Nat, NEW c \in Nat, NEW d \in Nat,
           a <= b + d, b <= c
    PROVE  a <= c + d
OBVIOUS

\* The last instant the runtime ran is not in the future, and never moves back.
LEMMA LastUpNeverMovesBack ==
    ASSUME TypeOK, [Next]_vars
    PROVE  /\ now \in Nat /\ now' \in Nat /\ now <= now'
           /\ LastUp \in 0 .. now /\ LastUp' \in 0 .. now'
           /\ LastUp <= LastUp'
<1>1. now \in Nat /\ diedAt \in 0 .. now /\ up \in BOOLEAN
  BY DEF TypeOK
<1>2. CASE Tick
  BY <1>1, <1>2 DEF Tick, LastUp, runtimeVars
<1>3. ASSUME NEW permitted \in BOOLEAN, Start(permitted)
      PROVE  /\ now \in Nat /\ now' \in Nat /\ now <= now'
             /\ LastUp \in 0 .. now /\ LastUp' \in 0 .. now'
             /\ LastUp <= LastUp'
  BY <1>1, <1>3 DEF Start, LastUp
<1>4. CASE Crash
  BY <1>1, <1>4 DEF Crash, LastUp
<1>5. CASE UNCHANGED <<now, up, diedAt>>
  BY <1>1, <1>5 DEF LastUp
<1>6. \/ Tick \/ Crash
      \/ \E permitted \in BOOLEAN : Start(permitted)
      \/ UNCHANGED <<now, up, diedAt>>
  BY DEF Next, Runtime, Poller, Reader, Decide, Fetch, Answer, Receive, ReceiveCut,
         Received, FetchFails, StoreBegin, StoreEnd, StampSuccess, Sample, TryLoad, StepUninformed,
         StepOnLastGood, StepOnLoaded, StepOn, runtimeVars, vars
<1> QED
  BY <1>2, <1>3, <1>4, <1>5, <1>6

\* A step of the cell on a view no more recent than one turnaround after the
\* runtime last ran keeps the lease.
LEMMA StepOnKeepsTheLease ==
    ASSUME TypeOK, AliveInv, NEW view \in SafetyView, StepOn(view),
           view.valid => view.published <= LastUp + MaxTurnaround
    PROVE  /\ movedAt' <= LastUp + HttpLease
           /\ UNCHANGED <<now, up, diedAt, pollerPc, fetchedAt, lastSuccess>>
<1>1. /\ sampledAt \in Nat /\ CellTypeOK /\ LastUp \in Nat
  BY DEF TypeOK, LastUp
<1>2. CASE phase' = Held
  BY <1>2 DEF StepOn, AliveInv, runtimeVars, linkVars, pollerVars
<1>3. CASE phase' # Held
  <2>1. Step(view, sampledAt) /\ movedAt' = sampledAt
    BY <1>3 DEF StepOn
  <2>2. view.valid /\ sampledAt <= view.published + MaxSafetyAge
    BY <1>1, <1>3, <2>1, StepMovesOnlyOnFreshPermit
  <2>3. view.published \in Nat
    BY DEF SafetyView, Instant
  <2> QED
    BY <1>1, <2>1, <2>2, <2>3, HttpAssumption, CellAssumption
       DEF StepOn, HttpLease, runtimeVars, linkVars, pollerVars
<1> QED
  BY <1>2, <1>3

LEMMA NextAliveInv == TypeOK /\ TypeOK' /\ AliveInv /\ [Next]_vars => AliveInv'
<1> SUFFICES ASSUME TypeOK, TypeOK', AliveInv, [Next]_vars
             PROVE  AliveInv'
  OBVIOUS
<1> USE DEF runtimeVars, linkVars, pollerVars, countVars
<1>1. /\ now \in Nat /\ now' \in Nat /\ now <= now'
      /\ LastUp \in 0 .. now /\ LastUp' \in 0 .. now' /\ LastUp <= LastUp'
  BY LastUpNeverMovesBack
<1>2. /\ lastSuccess \in Nat /\ lastGood.published \in Nat /\ movedAt \in Nat
      /\ fetchedAt \in Nat /\ fetchedAt <= now /\ MaxTurnaround \in Nat
      /\ HttpLease \in Nat
  BY HttpAssumption, CellAssumption DEF TypeOK, SafetyView, Instant, HttpLease
<1>3. /\ UNCHANGED lastSuccess => lastSuccess' <= LastUp' + MaxTurnaround
      /\ UNCHANGED lastGood => lastGood'.published <= LastUp' + MaxTurnaround
      /\ UNCHANGED movedAt => movedAt' <= LastUp' + HttpLease
  BY <1>1, <1>2 DEF AliveInv
<1>4. UNCHANGED <<now, pollerPc, fetchedAt>> => FetchInTime' /\ AnswerIsProofOfLife'
  BY <1>1, <1>2 DEF AliveInv, FetchInTime, AnswerIsProofOfLife
<1>5. CASE Tick
  <2>1. FetchInTime' /\ AnswerIsProofOfLife'
    BY <1>1, <1>2, <1>5 DEF Tick, AliveInv, FetchInTime, AnswerIsProofOfLife
  <2> QED
    BY <1>3, <1>5, <2>1 DEF Tick, AliveInv, readerVars
<1>6. CASE Runtime
  <2>1. UNCHANGED <<now, linkVars, pollerVars, readerVars>>
    BY <1>6 DEF Runtime, Start, Decide, Crash
  <2> QED
    BY <1>3, <1>4, <2>1 DEF AliveInv, readerVars
<1>7. CASE Fetch
  <2>1. FetchInTime' /\ AnswerIsProofOfLife'
    BY <1>1, <1>2, <1>7 DEF Fetch, FetchInTime, AnswerIsProofOfLife
  <2> QED
    BY <1>3, <1>7, <2>1 DEF Fetch, AliveInv, readerVars
<1>8. CASE Answer
  <2>1. LastUp' = now
    BY <1>8 DEF Answer, LastUp
  <2>2. FetchInTime' /\ AnswerIsProofOfLife'
    BY <1>2, <1>8, <2>1 DEF Answer, AliveInv, FetchInTime, AnswerIsProofOfLife
  <2> QED
    BY <1>3, <1>8, <2>2 DEF Answer, AliveInv, readerVars
<1>9. CASE Receive \/ ReceiveCut \/ StoreBegin \/ StoreEnd
  <2>1. /\ UNCHANGED <<now, fetchedAt, lastSuccess, lastGood, movedAt>>
        /\ pollerPc \in {"answered", "fetched", "storing"}
    BY <1>9 DEF Receive, ReceiveCut, Received, StoreBegin, StoreEnd, readerVars
  <2>2. FetchInTime' /\ AnswerIsProofOfLife'
    BY <1>1, <1>2, <2>1 DEF AliveInv, FetchInTime, AnswerIsProofOfLife
  <2> QED
    BY <1>3, <2>1, <2>2 DEF AliveInv
<1>10. CASE FetchFails
  <2>1. FetchInTime' /\ AnswerIsProofOfLife'
    BY <1>10 DEF FetchFails, FetchInTime, AnswerIsProofOfLife
  <2> QED
    BY <1>3, <1>10, <2>1 DEF FetchFails, AliveInv, readerVars
<1>11. CASE StampSuccess
  <2>1. lastSuccess' = now /\ pollerPc = "stored" /\ pollerPc' = "asleep"
    BY <1>11 DEF StampSuccess
  <2>2. lastSuccess' <= LastUp' + MaxTurnaround
    <3>1. now <= fetchedAt + MaxTurnaround /\ fetchedAt <= LastUp
      BY <2>1 DEF AliveInv, FetchInTime, AnswerIsProofOfLife
    <3>2. fetchedAt <= LastUp'
      BY <1>1, <1>2, <3>1
    <3>3. LastUp' \in Nat
      BY <1>1
    <3>4. now \in Nat /\ fetchedAt \in Nat /\ MaxTurnaround \in Nat
      BY <1>1, <1>2
    <3>5. now <= LastUp' + MaxTurnaround
      BY <3>1, <3>2, <3>3, <3>4, LaterBySomeMore
    <3> QED
      BY <2>1, <3>5
  <2> QED
    BY <1>3, <1>11, <2>1, <2>2
       DEF StampSuccess, AliveInv, FetchInTime, AnswerIsProofOfLife, readerVars
<1>12. CASE Sample \/ TryLoad
  <2>1. UNCHANGED <<now, pollerVars, linkVars, lastGood, movedAt>>
    BY <1>12 DEF Sample, TryLoad
  <2> QED
    BY <1>3, <1>4, <2>1 DEF AliveInv
<1>13. CASE StepUninformed
  <2>1. StepOn(NoView) /\ NoView \in SafetyView /\ ~NoView.valid
    BY <1>13, SignalsAreSignals DEF StepUninformed, NoView
  <2>2. /\ movedAt' <= LastUp + HttpLease
        /\ UNCHANGED <<now, up, diedAt, pollerPc, fetchedAt, lastSuccess>>
    BY <2>1, StepOnKeepsTheLease
  <2>3. LastUp' = LastUp
    BY <2>2 DEF LastUp
  <2> QED
    BY <1>3, <1>4, <1>13, <2>2, <2>3 DEF StepUninformed, AliveInv
<1>14. CASE StepOnLastGood
  <2>1. /\ StepOn(lastGood) /\ lastGood \in SafetyView
        /\ lastGood.published <= LastUp + MaxTurnaround
    BY <1>14 DEF StepOnLastGood, TypeOK, AliveInv
  <2>2. /\ movedAt' <= LastUp + HttpLease
        /\ UNCHANGED <<now, up, diedAt, pollerPc, fetchedAt, lastSuccess>>
    BY <2>1, StepOnKeepsTheLease
  <2>3. LastUp' = LastUp
    BY <2>2 DEF LastUp
  <2> QED
    BY <1>3, <1>4, <1>14, <2>2, <2>3 DEF StepOnLastGood, AliveInv
<1>15. CASE StepOnLoaded
  <2>1. LoadedView.published = lastSuccess
    BY DEF LoadedView, ViewOf
  <2>2. /\ StepOn(LoadedView) /\ LoadedView \in SafetyView
        /\ LoadedView.published <= LastUp + MaxTurnaround
    BY <1>15, <2>1, LoadedViewIsAView DEF StepOnLoaded, AliveInv
  <2>3. /\ movedAt' <= LastUp + HttpLease
        /\ UNCHANGED <<now, up, diedAt, pollerPc, fetchedAt, lastSuccess>>
    BY <2>2, StepOnKeepsTheLease
  <2>4. LastUp' = LastUp
    BY <2>3 DEF LastUp
  <2>5. lastGood'.published = lastSuccess
    BY <1>15, <2>1 DEF StepOnLoaded, Remember
  <2> QED
    BY <1>3, <1>4, <2>3, <2>4, <2>5 DEF AliveInv
<1>16. CASE UNCHANGED vars
  BY <1>3, <1>4, <1>16 DEF vars, readerVars, AliveInv
<1> QED
  BY <1>5, <1>6, <1>7, <1>8, <1>9, <1>10, <1>11, <1>12, <1>13, <1>14, <1>15, <1>16
     DEF Next, Poller, Reader

LEMMA AliveInvHolds == Spec => []AliveInv
BY InitAliveInv, NextAliveInv, HttpTypeCorrect, PTL DEF Spec

\* The cell on the HTTP link implements PermitLease, with the runtime's life for
\* the permit: a step that moves is the abstract Move, the rest is time passing.
THEOREM HttpImplementsLease == Spec => ImplementsLease
<1>1. Init => Lease!Init
  BY HttpAssumption DEF Init, LinkInit, Lease!Init, LastUp
<1>2. /\ TypeOK /\ TypeOK' /\ AliveInv /\ AliveInv' /\ [Next]_vars
      => [Lease!Next]_(Lease!vars)
  <2> SUFFICES ASSUME TypeOK, TypeOK', AliveInv, AliveInv', [Next]_vars
               PROVE  [Lease!Next]_(Lease!vars)
    OBVIOUS
  <2>1. /\ now \in Nat /\ now' \in Nat /\ now <= now'
        /\ LastUp \in 0 .. now /\ LastUp' \in 0 .. now' /\ LastUp <= LastUp'
    BY LastUpNeverMovesBack
  <2>2. CASE movedAt' = movedAt
    <3>1. LastUp' \in LastUp .. now'
      BY <2>1
    <3> QED
      BY <2>1, <2>2, <3>1 DEF Lease!Next, Lease!Elapse
  <2>3. CASE movedAt' # movedAt
    <3>1. PICK view : StepOn(view)
      BY <2>3 DEF Next, Runtime, Poller, Reader, Tick, Start, Decide, Crash, Fetch,
                  Answer, Receive, ReceiveCut, Received, FetchFails, StoreBegin,
                  StoreEnd, StampSuccess, Sample, TryLoad, StepUninformed, StepOnLastGood, StepOnLoaded,
                  readerVars, vars
    <3>2. movedAt' = sampledAt /\ UNCHANGED <<now, up, diedAt>>
      BY <2>3, <3>1 DEF StepOn, runtimeVars
    <3>3. LastUp' = LastUp
      BY <3>2 DEF LastUp
    <3>4. movedAt' \in movedAt .. now
      <4>1. movedAt \in 0 .. sampledAt /\ sampledAt \in 0 .. now
        BY DEF TypeOK
      <4> QED
        BY <2>1, <3>2, <4>1
    <3>5. movedAt' <= LastUp + HttpLease
      BY <3>3 DEF AliveInv, HttpLease
    <3> QED
      BY <3>2, <3>3, <3>4, <3>5 DEF Lease!Next, Lease!Move
  <2> QED
    BY <2>2, <2>3
<1> QED
  BY <1>1, <1>2, HttpTypeCorrect, AliveInvHolds, PTL DEF Spec, ImplementsLease, Lease!Spec

-----------------------------------------------------------------------------
(* Nothing but a permit moves the cell.  Every permit of a runtime is        *)
(* numbered, the default signal is no runtime's, and the flag that opens the *)
(* slot to the reader is raised only after an answer is in it.               *)

Given(signal) == signal.permitted => signal.sequence \in permits

PermitInv ==
    /\ Given(current)
    /\ Given(reply)
    /\ pollerPc = "stored" \/ everReceived => Given(latest)
    /\ Given(loaded)
    /\ lastGood.valid => Given(lastGood)
    /\ Moving => lastSequence \in permits

LEMMA InitPermitInv == Init => PermitInv
BY DEF Init, LinkInit, CellInit, PermitInv, Given, Moving, NoView, NoSignal

\* A step on a view whose permit was given leaves a cell that moves on one.
LEMMA StepOnIsPermitted ==
    ASSUME NEW view, StepOn(view), view.valid => Given(view)
    PROVE  /\ Moving' => lastSequence' \in permits
           /\ UNCHANGED <<current, permits, pollerPc, reply, latest, everReceived>>
           /\ loaded' = NoSignal
<1>1. CASE phase' = Held
  BY <1>1 DEF Moving, StepOn, runtimeVars, linkVars, pollerVars
<1>2. CASE phase' # Held
  <2>1. RunOnPermit(view, sampledAt)
    BY <1>2 DEF StepOn, Step, HoldWithoutInformation, HoldOnStaleInformation,
                HoldOnStop, EnterHold
  <2> QED
    BY <2>1 DEF RunOnPermit, StepOn, Given, runtimeVars, linkVars, pollerVars
<1> QED
  BY <1>1, <1>2

LEMMA NextPermitInv ==
    TypeOK /\ format = "stamped" /\ PermitInv /\ [Next]_vars => PermitInv'
<1> SUFFICES ASSUME TypeOK, format = "stamped", PermitInv, [Next]_vars
             PROVE  PermitInv'
  OBVIOUS
<1> USE DEF runtimeVars, linkVars, pollerVars, Given
<1>1. UNCHANGED cellVars => Moving' = Moving /\ lastSequence' = lastSequence
  BY DEF cellVars, measurement, Moving
<1>2. CASE Tick
  BY <1>1, <1>2 DEF Tick, PermitInv, readerVars
<1>3. ASSUME NEW permitted \in BOOLEAN, Start(permitted) PROVE PermitInv'
  <2>1. Given(current)' /\ permits \subseteq permits'
    BY <1>3 DEF Start, Verdict
  <2> QED
    BY <1>1, <1>3, <2>1 DEF Start, PermitInv, readerVars
<1>4. CASE Decide
  <2>1. Given(current)' /\ permits \subseteq permits'
    BY <1>4 DEF Decide
  <2> QED
    BY <1>1, <1>4, <2>1 DEF Decide, PermitInv, readerVars
<1>5. CASE Crash
  BY <1>1, <1>5 DEF Crash, PermitInv, readerVars
<1>6. CASE Fetch
  BY <1>1, <1>6 DEF Fetch, PermitInv, readerVars
<1>7. CASE Answer
  BY <1>1, <1>7 DEF Answer, PermitInv, readerVars
<1>8. CASE Receive \/ ReceiveCut
  <2>1. PICK answer \in SafetySignal :
           /\ Received(answer)
           /\ answer.sequence = reply.sequence
           /\ format = "stamped" => answer.permitted = reply.permitted
    BY <1>8, ReceivedIsASignal
  <2> QED
    BY <1>1, <2>1 DEF Received, PermitInv, readerVars
<1>9. CASE FetchFails
  BY <1>1, <1>9 DEF FetchFails, PermitInv, NoSignal, readerVars
<1>10. CASE StoreBegin
  BY <1>1, <1>10 DEF StoreBegin, PermitInv, readerVars
<1>11. CASE StoreEnd
  BY <1>1, <1>11 DEF StoreEnd, PermitInv, readerVars
<1>12. CASE StampSuccess
  BY <1>1, <1>12 DEF StampSuccess, PermitInv, NoSignal, readerVars
<1>13. CASE Sample
  BY <1>1, <1>13 DEF Sample, PermitInv
<1>14. CASE TryLoad
  BY <1>1, <1>14 DEF TryLoad, PermitInv
<1>15. CASE StepUninformed
  <2>1. StepOn(NoView) /\ ~NoView.valid /\ lastGood' = lastGood
    BY <1>15 DEF StepUninformed, NoView
  <2> QED
    BY <2>1, StepOnIsPermitted DEF PermitInv, NoSignal
<1>16. CASE StepOnLastGood
  <2>1. StepOn(lastGood) /\ lastGood' = lastGood
    BY <1>16 DEF StepOnLastGood
  <2>2. lastGood.valid => Given(lastGood)
    BY DEF PermitInv
  <2> QED
    BY <2>1, <2>2, StepOnIsPermitted DEF PermitInv, NoSignal
<1>17. CASE StepOnLoaded
  <2>1. StepOn(LoadedView) /\ lastGood' = LoadedView
    BY <1>17 DEF StepOnLoaded, Remember
  <2>2. Given(LoadedView)
    BY DEF LoadedView, ViewOf, PermitInv
  <2> QED
    BY <2>1, <2>2, StepOnIsPermitted DEF PermitInv, NoSignal
<1>18. CASE UNCHANGED vars
  BY <1>1, <1>18 DEF vars, PermitInv, readerVars
<1> QED
  BY <1>2, <1>3, <1>4, <1>5, <1>6, <1>7, <1>8, <1>9, <1>10, <1>11, <1>12, <1>13,
     <1>14, <1>15, <1>16, <1>17, <1>18
     DEF Next, Runtime, Poller, Reader

\* The format is configured once.
LEMMA FormatStays == [Next]_vars => format' = format
BY DEF Next, Tick, Runtime, Start, Decide, Crash, Poller, Fetch, Answer, Receive,
       ReceiveCut, Received, FetchFails, StoreBegin, StoreEnd, StampSuccess, Reader,
       Sample, TryLoad, StepUninformed, StepOnLastGood, StepOnLoaded, StepOn, vars

\* In the stamped format the cell moves only under the number of a permit that a
\* runtime gave: not on the default signal its slot is constructed with, which
\* permits torque, and not on an answer that lost its end.
THEOREM MovesOnlyOnPermits == Spec => []MovesOnlyOnAPermitGiven
<1> DEFINE Inv == format = "stamped" => PermitInv
<1>1. Init => Inv
  BY InitPermitInv
<1>2. TypeOK /\ Inv /\ [Next]_vars => Inv'
  BY NextPermitInv, FormatStays
<1>3. Inv => MovesOnlyOnAPermitGiven
  BY DEF PermitInv, MovesOnlyOnAPermitGiven
<1> QED
  BY <1>1, <1>2, <1>3, HttpTypeCorrect, PTL DEF Spec

-----------------------------------------------------------------------------
(* How old a reading can be.  Every failed fetch costs at most one cycle, and *)
(* so does the one under way: the last fetch began, or ended, no later than  *)
(* the failures since the last success account for.                          *)

Idle == PollPeriod + PollSlack

AgeInv ==
    /\ everReceived =>
         IF pollerPc = "asleep"
           THEN now <= fetchedAt + Idle /\ fetchedAt <= lastSuccess + missed * Cycle
           ELSE /\ now <= fetchedAt + MaxTurnaround
                /\ fetchedAt <= lastSuccess + missed * Cycle + Idle
    /\ readerPc = "loaded" => everReceived

LEMMA AgeConstants ==
    /\ MaxTurnaround \in Nat /\ Idle \in Nat /\ Cycle \in Nat
    /\ Cycle = Idle + MaxTurnaround
BY HttpAssumption DEF Idle, Cycle

LEMMA OneMoreCycle ==
    ASSUME NEW n \in Nat, NEW c \in Nat
    PROVE  n * c \in Nat /\ (n + 1) * c = n * c + c /\ 0 * c = 0
OBVIOUS

LEMMA InitAgeInv == Init => AgeInv
BY DEF Init, LinkInit, AgeInv

LEMMA NextAgeInv == TypeOK /\ AgeInv /\ [Next]_vars => AgeInv'
<1> SUFFICES ASSUME TypeOK, AgeInv, [Next]_vars PROVE AgeInv'
  OBVIOUS
<1> USE DEF runtimeVars, linkVars, pollerVars, countVars
<1>1. /\ now \in Nat /\ fetchedAt \in Nat /\ lastSuccess \in Nat /\ missed \in Nat
      /\ missed * Cycle \in Nat /\ (missed + 1) * Cycle = missed * Cycle + Cycle
      /\ 0 * Cycle = 0 /\ everReceived \in BOOLEAN
  BY AgeConstants, OneMoreCycle DEF TypeOK
<1>2. CASE Tick
  <2>1. CASE pollerPc = "asleep"
    BY <1>1, <1>2, <2>1, AgeConstants DEF Tick, AgeInv, readerVars, Idle
  <2>2. CASE pollerPc # "asleep"
    BY <1>1, <1>2, <2>2, AgeConstants DEF Tick, AgeInv, readerVars
  <2> QED
    BY <2>1, <2>2
<1>3. CASE Fetch
  BY <1>1, <1>3, AgeConstants DEF Fetch, AgeInv, readerVars
<1>4. CASE FetchFails
  <2>1. /\ now' = now /\ fetchedAt' = now /\ pollerPc' = "asleep" /\ pollerPc # "asleep"
        /\ missed' = missed + 1 /\ UNCHANGED <<lastSuccess, everReceived, readerPc>>
    BY <1>4 DEF FetchFails, readerVars
  <2>2. everReceived => now <= lastSuccess + (missed + 1) * Cycle
    BY <1>1, <2>1, AgeConstants DEF AgeInv
  <2> QED
    BY <1>1, <2>1, <2>2, AgeConstants DEF AgeInv
<1>5. CASE StampSuccess
  BY <1>1, <1>5, AgeConstants DEF StampSuccess, AgeInv, readerVars
<1>6. CASE \/ Runtime \/ Answer \/ Receive \/ ReceiveCut \/ StoreBegin \/ StoreEnd
           \/ Sample \/ StepUninformed \/ StepOnLastGood \/ StepOnLoaded
           \/ UNCHANGED vars
  <2>1. /\ UNCHANGED <<now, fetchedAt, lastSuccess, missed, everReceived>>
        /\ (pollerPc = "asleep") <=> (pollerPc' = "asleep")
        /\ readerPc' = readerPc \/ readerPc' # "loaded"
    BY <1>6 DEF Runtime, Start, Decide, Crash, Answer, Receive, ReceiveCut, Received,
                StoreBegin, StoreEnd, Sample, StepUninformed, StepOnLastGood,
                StepOnLoaded, StepOn, readerVars, vars
  <2> QED
    BY <2>1 DEF AgeInv
<1>7. CASE TryLoad
  BY <1>7 DEF TryLoad, AgeInv
<1> QED
  BY <1>2, <1>3, <1>4, <1>5, <1>6, <1>7 DEF Next, Poller, Reader

\* A reading that has outlived the budget is explained by the fetches that failed:
\* one that is not, and was not, dropped keeps the cell supplied when a cycle is no
\* longer than the budget.
THEOREM SilenceIsExplained == Spec => []SilenceExplainsStaleness
<1>1. TypeOK /\ AgeInv => SilenceExplainsStaleness
  <2> SUFFICES ASSUME TypeOK, AgeInv, readerPc = "loaded", Stale(LoadedView, sampledAt)
               PROVE  MaxSafetyAge < (missed + 1) * Cycle
    BY DEF SilenceExplainsStaleness
  <2>1. /\ now \in Nat /\ fetchedAt \in Nat /\ lastSuccess \in Nat /\ missed \in Nat
        /\ missed * Cycle \in Nat /\ (missed + 1) * Cycle = missed * Cycle + Cycle
        /\ sampledAt \in 0 .. now /\ everReceived
    BY AgeConstants, OneMoreCycle DEF TypeOK, AgeInv
  <2>2. now <= lastSuccess + (missed + 1) * Cycle
    BY <2>1, AgeConstants DEF AgeInv
  <2>3. sampledAt > lastSuccess /\ sampledAt - lastSuccess > MaxSafetyAge
    BY DEF Stale, LoadedView, ViewOf
  <2> QED
    BY <2>1, <2>2, <2>3, AgeConstants, CellAssumption
<1>2. Spec => []AgeInv
  BY InitAgeInv, NextAgeInv, HttpTypeCorrect, PTL DEF Spec
<1> QED
  BY <1>1, <1>2, HttpTypeCorrect, PTL

\* "Long enough not to trip on one dropped request" (cell.hpp:61) is true of every
\* budget that covers the dropped fetch and the sleeps before and after it, for
\* which the 250 ms of the program do not suffice.  Until the next success is one
\* more fetch away, nothing a poll loads has then outlived the budget.
THEOREM OneDroppedFitsTheBudget ==
    ASSUME MaxSafetyAge >= Cycle + Idle
    PROVE  Spec => []OneDroppedRequestIsSurvived
<1>1. TypeOK /\ AgeInv => OneDroppedRequestIsSurvived
  <2> SUFFICES ASSUME TypeOK, AgeInv, readerPc = "loaded", Stale(LoadedView, sampledAt),
                      ~(missed + (IF pollerPc = "asleep" THEN 0 ELSE 1) > 1)
               PROVE  FALSE
    BY DEF OneDroppedRequestIsSurvived
  <2>1. /\ now \in Nat /\ fetchedAt \in Nat /\ lastSuccess \in Nat /\ missed \in Nat
        /\ sampledAt \in 0 .. now /\ everReceived
    BY DEF TypeOK, AgeInv
  <2>2. missed = 0 \/ (missed = 1 /\ pollerPc = "asleep")
    BY <2>1
  <2>3. 0 * Cycle = 0 /\ 1 * Cycle = Cycle
    BY AgeConstants
  <2>4. now <= lastSuccess + Cycle + Idle
    <3>1. CASE missed = 0
      <4>1. CASE pollerPc = "asleep"
        BY <2>1, <2>3, <3>1, <4>1, AgeConstants DEF AgeInv
      <4>2. CASE pollerPc # "asleep"
        BY <2>1, <2>3, <3>1, <4>2, AgeConstants DEF AgeInv
      <4> QED
        BY <4>1, <4>2
    <3>2. CASE missed = 1 /\ pollerPc = "asleep"
      BY <2>1, <2>3, <3>2, AgeConstants DEF AgeInv
    <3> QED
      BY <2>2, <3>1, <3>2
  <2>5. sampledAt > lastSuccess /\ sampledAt - lastSuccess > MaxSafetyAge
    BY DEF Stale, LoadedView, ViewOf
  <2> QED
    BY <2>1, <2>4, <2>5, AgeConstants, CellAssumption
<1>2. Spec => []AgeInv
  BY InitAgeInv, NextAgeInv, HttpTypeCorrect, PTL DEF Spec
<1> QED
  BY <1>1, <1>2, HttpTypeCorrect, PTL

-----------------------------------------------------------------------------
(* The order of verdicts.  Numbers grow from the runtime, or from the link   *)
(* that numbers readiness answers, through the answer and the slot to the    *)
(* last good reading, and the cell acts on no number beyond that one.        *)

Numbered == IF format = "stamped" THEN {"answered", "fetched", "storing", "stored"}
                                  ELSE {"fetched", "storing", "stored"}
Highest == IF format = "stamped" THEN current.sequence ELSE readinessSequence

OrderInv ==
    /\ starts = 0 => ~up /\ current.sequence = 0
    /\ latest.sequence <= Highest
    /\ pollerPc \in Numbered => /\ latest.sequence <= reply.sequence
                                /\ reply.sequence <= Highest
    /\ readerPc = "loaded" => /\ lastGood.sequence <= loaded.sequence
                              /\ loaded.sequence <= latest.sequence
    /\ lastGood.sequence <= latest.sequence
    /\ lastSequence <= lastGood.sequence

OneRuntime == starts <= 1 \/ format = "readiness"

NumbersGrow == OneRuntime => OrderInv

LEMMA NumbersAreNumbers ==
    ASSUME TypeOK
    PROVE  /\ current.sequence \in Nat /\ reply.sequence \in Nat
           /\ latest.sequence \in Nat /\ loaded.sequence \in Nat
           /\ lastGood.sequence \in Nat /\ lastSequence \in Nat
           /\ readinessSequence \in Nat /\ Highest \in Nat
           /\ starts \in Nat /\ format \in {"stamped", "readiness"}
BY SignalFields DEF TypeOK, CellTypeOK, SafetyView, Highest, Format

LEMMA InitNumbersGrow == Init => NumbersGrow
BY DEF Init, LinkInit, CellInit, NumbersGrow, OrderInv, Highest, Numbered,
       DefaultSignal, NoView, NoSignal

\* A step acts on the number of its view or on none.
LEMMA StepOnNumber ==
    ASSUME NEW view, StepOn(view)
    PROVE  /\ \/ lastSequence' = lastSequence
              \/ view.valid /\ lastSequence' = view.sequence
           /\ UNCHANGED <<format, now, runtimeVars, linkVars, pollerVars, sampledAt>>
           /\ readerPc' = "asleep"
BY DEF StepOn, Step, HoldWithoutInformation, HoldOnStaleInformation, HoldOnStop,
       MeasureStop, RunOnPermit, measurement

LEMMA NextNumbersGrow == TypeOK /\ TypeOK' /\ NumbersGrow /\ [Next]_vars => NumbersGrow'
<1> SUFFICES ASSUME TypeOK, TypeOK', NumbersGrow, [Next]_vars, OneRuntime'
             PROVE  OrderInv'
  BY DEF NumbersGrow
<1> USE DEF runtimeVars, linkVars, pollerVars, countVars
<1>1. OneRuntime
  <2>1. starts \in Nat /\ starts' \in Nat /\ format' = format
    BY NumbersAreNumbers, FormatStays DEF TypeOK
  <2>2. starts' = starts \/ starts' = starts + 1
    BY DEF Next, Tick, Runtime, Start, Decide, Crash, Poller, Fetch, Answer, Receive,
           ReceiveCut, Received, FetchFails, StoreBegin, StoreEnd, StampSuccess, Reader,
           Sample, TryLoad, StepUninformed, StepOnLastGood, StepOnLoaded, StepOn, vars
  <2> QED
    BY <2>1, <2>2 DEF OneRuntime
<1>2. OrderInv
  BY <1>1 DEF NumbersGrow
<1>3. /\ current.sequence \in Nat /\ reply.sequence \in Nat
      /\ latest.sequence \in Nat /\ loaded.sequence \in Nat
      /\ lastGood.sequence \in Nat /\ lastSequence \in Nat
      /\ readinessSequence \in Nat /\ starts \in Nat
      /\ format \in {"stamped", "readiness"} /\ format' = format
  BY NumbersAreNumbers, FormatStays
<1>4. UNCHANGED cellVars => lastSequence' = lastSequence
  BY DEF cellVars, measurement
<1>5. CASE Tick \/ Fetch \/ FetchFails \/ StoreBegin \/ StampSuccess
  BY <1>2, <1>4, <1>5 DEF Tick, Fetch, FetchFails, StoreBegin, StampSuccess,
                          OrderInv, Numbered, Highest, readerVars
<1>6. ASSUME NEW permitted \in BOOLEAN, Start(permitted) PROVE OrderInv'
  <2>1. /\ UNCHANGED <<format, linkVars, pollerVars, readerVars>>
        /\ starts' = starts + 1 /\ current'.sequence = 1
    BY <1>6 DEF Start, Verdict
  <2>2. CASE format = "readiness"
    BY <1>2, <1>3, <1>4, <2>1, <2>2 DEF OrderInv, Numbered, Highest, readerVars
  <2>3. CASE format = "stamped"
    <3>1. starts = 0
      BY <1>3, <2>1, <2>3 DEF OneRuntime
    <3>2. current.sequence = 0
      BY <1>2, <3>1 DEF OrderInv
    <3> QED
      BY <1>2, <1>3, <1>4, <2>1, <2>3, <3>2 DEF OrderInv, Numbered, Highest, readerVars
  <2> QED
    BY <1>3, <2>2, <2>3
<1>7. CASE Decide
  <2>1. /\ UNCHANGED <<format, starts, up, linkVars, pollerVars, readerVars>>
        /\ up /\ current'.sequence = current.sequence + 1
    BY <1>7 DEF Decide, Verdict
  <2> QED
    BY <1>2, <1>3, <1>4, <2>1 DEF OrderInv, Numbered, Highest, readerVars
<1>8. CASE Crash
  BY <1>2, <1>4, <1>8 DEF Crash, OrderInv, Numbered, Highest, readerVars
<1>9. CASE Answer
  <2>1. /\ UNCHANGED <<format, starts, up, current, linkVars, readerVars>>
        /\ pollerPc' = "answered" /\ reply' = current
    BY <1>9 DEF Answer
  <2> QED
    BY <1>2, <1>3, <1>4, <2>1 DEF OrderInv, Numbered, Highest, readerVars
<1>10. CASE Receive \/ ReceiveCut
  <2>1. PICK answer \in SafetySignal :
           Received(answer) /\ answer.sequence = reply.sequence
    BY <1>10, ReceivedIsASignal
  <2>2. /\ UNCHANGED <<format, starts, up, current, latest, readerVars>>
        /\ pollerPc = "answered" /\ pollerPc' = "fetched"
    BY <2>1 DEF Received
  <2>3. CASE format = "stamped"
    BY <1>2, <1>4, <2>1, <2>2, <2>3 DEF Received, OrderInv, Numbered, Highest, readerVars
  <2>4. CASE format = "readiness"
    <3>1. \/ reply'.sequence = readinessSequence + 1
             /\ readinessSequence' = readinessSequence + 1
          \/ reply'.sequence = latest.sequence /\ readinessSequence' = readinessSequence
      BY <2>1, <2>4 DEF Received, ReadinessSignal, SafetySignal
    <3> QED
      BY <1>2, <1>3, <1>4, <2>2, <2>4, <3>1 DEF OrderInv, Numbered, Highest, readerVars
  <2> QED
    BY <1>3, <2>3, <2>4
<1>11. CASE StoreEnd
  <2>1. /\ UNCHANGED <<format, starts, up, current, readinessSequence, reply, readerVars>>
        /\ latest' = reply /\ pollerPc = "storing" /\ pollerPc' = "stored"
    BY <1>11 DEF StoreEnd
  <2> QED
    BY <1>2, <1>3, <1>4, <2>1 DEF OrderInv, Numbered, Highest, readerVars
<1>12. CASE Sample
  BY <1>2, <1>4, <1>12 DEF Sample, OrderInv, Numbered, Highest
<1>13. CASE TryLoad
  BY <1>2, <1>3, <1>4, <1>13 DEF TryLoad, OrderInv, Numbered, Highest
<1>14. CASE StepUninformed
  <2>1. StepOn(NoView) /\ ~NoView.valid /\ lastGood' = lastGood
    BY <1>14 DEF StepUninformed, NoView
  <2> QED
    BY <1>2, <2>1, StepOnNumber DEF OrderInv, Numbered, Highest
<1>15. CASE StepOnLastGood
  <2>1. StepOn(lastGood) /\ lastGood' = lastGood
    BY <1>15 DEF StepOnLastGood
  <2> QED
    BY <1>2, <1>3, <2>1, StepOnNumber DEF OrderInv, Numbered, Highest
<1>16. CASE StepOnLoaded
  <2>1. StepOn(LoadedView) /\ lastGood' = LoadedView /\ readerPc = "loaded"
    BY <1>16 DEF StepOnLoaded, Remember
  <2>2. LoadedView.sequence = loaded.sequence
    BY DEF LoadedView, ViewOf
  <2> QED
    BY <1>2, <1>3, <2>1, <2>2, StepOnNumber DEF OrderInv, Numbered, Highest
<1>17. CASE UNCHANGED vars
  BY <1>2, <1>4, <1>17 DEF vars, OrderInv, Numbered, Highest, readerVars
<1> QED
  BY <1>5, <1>6, <1>7, <1>8, <1>9, <1>10, <1>11, <1>12, <1>13, <1>14, <1>15, <1>16, <1>17
     DEF Next, Runtime, Poller, Reader

LEMMA NumbersAlwaysGrow == Spec => []NumbersGrow
BY InitNumbersGrow, NextNumbersGrow, HttpTypeCorrect, PTL DEF Spec

\* As long as one runtime numbers the verdicts, or the link does, the cell never
\* falls back to an older one, whatever is lost and however the threads interleave.
THEOREM NoOlderVerdict == Spec => NeverBackToOlderVerdict
<1>1. /\ TypeOK /\ TypeOK' /\ NumbersGrow /\ [Next]_vars
      => [OneRuntime => lastSequence' >= lastSequence]_vars
  <2> SUFFICES ASSUME TypeOK, NumbersGrow, [Next]_vars, OneRuntime
               PROVE  lastSequence' >= lastSequence
    OBVIOUS
  <2>1. /\ OrderInv /\ lastSequence \in Nat /\ lastGood.sequence \in Nat
        /\ loaded.sequence \in Nat
    BY NumbersAreNumbers DEF NumbersGrow
  <2>2. CASE lastSequence' = lastSequence
    BY <2>1, <2>2
  <2>3. CASE lastSequence' # lastSequence
    <3>1. StepUninformed \/ StepOnLastGood \/ StepOnLoaded
      BY <2>3 DEF Next, Tick, Runtime, Start, Decide, Crash, Poller, Fetch, Answer, Receive,
             ReceiveCut, Received, FetchFails, StoreBegin, StoreEnd, StampSuccess, Reader,
             Sample, TryLoad, readerVars, cellVars, measurement, vars
    <3>2. CASE StepUninformed
      <4>1. StepOn(NoView) /\ ~NoView.valid
        BY <3>2 DEF StepUninformed, NoView
      <4> QED
        BY <2>3, <4>1, StepOnNumber
    <3>3. CASE StepOnLastGood
      <4>1. StepOn(lastGood)
        BY <3>3 DEF StepOnLastGood
      <4> QED
        BY <2>1, <2>3, <4>1, StepOnNumber DEF OrderInv
    <3>4. CASE StepOnLoaded
      <4>1. StepOn(LoadedView) /\ readerPc = "loaded" /\ LoadedView.sequence = loaded.sequence
        BY <3>4 DEF StepOnLoaded, LoadedView, ViewOf
      <4> QED
        BY <2>1, <2>3, <4>1, StepOnNumber DEF OrderInv
    <3> QED
      BY <3>1, <3>2, <3>3, <3>4
  <2> QED
    BY <2>2, <2>3
<1> QED
  BY <1>1, NumbersAlwaysGrow, HttpTypeCorrect, PTL
     DEF Spec, NeverBackToOlderVerdict, OneRuntime

-----------------------------------------------------------------------------
(* The numbers a readiness answer gets.  The slot starts with a permit       *)
(* numbered 0 and the number changes with the verdict: permits are even.     *)

Even(n) == n % 2 = 0
Alternating(signal) == signal.permitted <=> Even(signal.sequence)

ParityInv ==
    /\ Alternating(latest)
    /\ pollerPc \in {"fetched", "storing", "stored"}
         => Alternating(reply) /\ reply.sequence = readinessSequence
    /\ pollerPc \notin {"fetched", "storing", "stored"}
         => latest.sequence = readinessSequence
    /\ pollerPc = "stored" => latest = reply
    /\ readerPc = "loaded" => Alternating(loaded)
    /\ lastGood.valid => Alternating(lastGood)
    /\ Moving => wasPermitted /\ Even(lastSequence)

LEMMA NextParity == \A n \in Nat : Even(n + 1) <=> ~Even(n)
BY DEF Even

LEMMA InitParityInv == Init => ParityInv
<1>1. Even(0)
  BY DEF Even
<1> QED
  BY <1>1 DEF Init, LinkInit, CellInit, ParityInv, Alternating, Moving, DefaultSignal, NoView

\* A step on an alternating view leaves a cell that moves under an even number.
LEMMA StepOnParity ==
    ASSUME NEW view, StepOn(view), view.valid => Alternating(view)
    PROVE  /\ Moving' => wasPermitted' /\ Even(lastSequence')
           /\ UNCHANGED <<linkVars, pollerVars>>
           /\ readerPc' = "asleep"
<1>1. CASE phase' = Held
  BY <1>1 DEF Moving, StepOn
<1>2. CASE phase' # Held
  <2>1. RunOnPermit(view, sampledAt)
    BY <1>2 DEF StepOn, Step, HoldWithoutInformation, HoldOnStaleInformation,
                HoldOnStop, EnterHold
  <2> QED
    BY <2>1 DEF RunOnPermit, StepOn, Alternating
<1> QED
  BY <1>1, <1>2

LEMMA NextParityInv ==
    TypeOK /\ format = "readiness" /\ ParityInv /\ [Next]_vars => ParityInv'
<1> SUFFICES ASSUME TypeOK, format = "readiness", ParityInv, [Next]_vars
             PROVE  ParityInv'
  OBVIOUS
<1> USE DEF linkVars, pollerVars, countVars
<1>1. UNCHANGED cellVars => Moving' = Moving /\ UNCHANGED <<wasPermitted, lastSequence>>
  BY DEF cellVars, measurement, Moving
<1>2. CASE Tick \/ Runtime \/ Fetch \/ Answer \/ FetchFails
  <2>1. /\ UNCHANGED <<latest, readinessSequence, readerVars>>
        /\ \/ UNCHANGED <<pollerPc, reply>>
           \/ /\ pollerPc \notin {"fetched", "storing", "stored"}
              /\ pollerPc' \notin {"fetched", "storing", "stored"}
    BY <1>2 DEF Tick, Runtime, Start, Decide, Crash, Fetch, Answer, FetchFails
  <2> QED
    BY <1>1, <2>1 DEF ParityInv, Alternating, readerVars
<1>3. CASE Receive \/ ReceiveCut
  <2>1. PICK answer \in SafetySignal : Received(answer)
    BY <1>3, ReceivedIsASignal
  <2>2. /\ reply' = ReadinessSignal(answer)
        /\ readinessSequence' = IF latest.permitted # answer.permitted
                                  THEN readinessSequence + 1 ELSE readinessSequence
        /\ UNCHANGED <<latest, readerVars>>
        /\ pollerPc = "answered" /\ pollerPc' = "fetched"
    BY <2>1 DEF Received
  <2>3. latest.sequence = readinessSequence /\ readinessSequence \in Nat
    BY <2>2 DEF ParityInv, TypeOK
  <2>4. reply'.permitted = answer.permitted /\ reply'.sequence = readinessSequence'
    BY <2>2, <2>3 DEF ReadinessSignal, SafetySignal
  <2>5. Alternating(reply')
    <3>1. Alternating(latest) /\ latest.permitted \in BOOLEAN /\ answer.permitted \in BOOLEAN
      BY SignalFields DEF ParityInv, TypeOK
    <3>2. CASE latest.permitted # answer.permitted
      BY <2>2, <2>3, <2>4, <3>1, <3>2, NextParity DEF Alternating
    <3>3. CASE latest.permitted = answer.permitted
      BY <2>2, <2>3, <2>4, <3>1, <3>3 DEF Alternating
    <3> QED
      BY <3>2, <3>3
  <2> QED
    BY <1>1, <2>2, <2>4, <2>5 DEF ParityInv, Alternating, readerVars
<1>4. CASE StoreBegin
  BY <1>1, <1>4 DEF StoreBegin, ParityInv, Alternating, readerVars
<1>5. CASE StoreEnd
  BY <1>1, <1>5 DEF StoreEnd, ParityInv, Alternating, readerVars
<1>6. CASE StampSuccess
  BY <1>1, <1>6 DEF StampSuccess, ParityInv, Alternating, readerVars
<1>7. CASE Sample
  BY <1>1, <1>7 DEF Sample, ParityInv, Alternating
<1>8. CASE TryLoad
  BY <1>1, <1>8 DEF TryLoad, ParityInv, Alternating
<1>9. CASE StepUninformed
  <2>1. StepOn(NoView) /\ ~NoView.valid /\ lastGood' = lastGood
    BY <1>9 DEF StepUninformed, NoView
  <2> QED
    BY <2>1, StepOnParity DEF ParityInv, Alternating
<1>10. CASE StepOnLastGood
  <2>1. StepOn(lastGood) /\ lastGood' = lastGood
    BY <1>10 DEF StepOnLastGood
  <2> QED
    BY <2>1, StepOnParity DEF ParityInv, Alternating
<1>11. CASE StepOnLoaded
  <2>1. StepOn(LoadedView) /\ lastGood' = LoadedView /\ readerPc = "loaded"
    BY <1>11 DEF StepOnLoaded, Remember
  <2>2. Alternating(LoadedView)
    BY <2>1 DEF LoadedView, ViewOf, ParityInv, Alternating
  <2> QED
    BY <2>1, <2>2, StepOnParity DEF ParityInv, Alternating
<1>12. CASE UNCHANGED vars
  BY <1>1, <1>12 DEF vars, ParityInv, Alternating, readerVars
<1> QED
  BY <1>2, <1>3, <1>4, <1>5, <1>6, <1>7, <1>8, <1>9, <1>10, <1>11, <1>12
     DEF Next, Poller, Reader

\* In the readiness format, whose numbers the link makes up, a stop that ends a
\* motion never has the number of the permit the cell moved on: it is measured.
THEOREM EveryStopMeasured == Spec => EveryStopIsMeasured
<1> DEFINE Inv == format = "readiness" => ParityInv
           NewStop == format = "readiness" /\ Moving /\ phase' = Held
                        /\ readerPc = "loaded" /\ ~loaded.permitted
                        /\ ~Stale(LoadedView, sampledAt)
<1>1. Init => Inv
  BY InitParityInv
<1>2. TypeOK /\ Inv /\ [Next]_vars => Inv'
  BY NextParityInv, FormatStays
<1>3. Inv /\ [Next]_vars
      => [NewStop => hasStopMeasurement' /\ lastSequence' # lastSequence]_vars
  <2> SUFFICES ASSUME ParityInv, [Next]_vars, NewStop
               PROVE  hasStopMeasurement' /\ lastSequence' # lastSequence
    OBVIOUS
  <2>1. Moving /\ phase' # phase
    BY DEF Moving
  <2>2. StepOnLoaded
    BY <2>1 DEF Next, Tick, Runtime, Start, Decide, Crash, Poller, Fetch, Answer, Receive,
           ReceiveCut, Received, FetchFails, StoreBegin, StoreEnd, StampSuccess, Reader,
           Sample, TryLoad, StepUninformed, StepOnLastGood, readerVars, cellVars, vars
  <2>3. /\ LoadedView.valid /\ ~LoadedView.permitted
        /\ LoadedView.sequence = loaded.sequence
    BY DEF LoadedView, ViewOf
  <2>4. HoldOnStop(LoadedView, sampledAt)
    BY <2>2, <2>3 DEF StepOnLoaded, StepOn, Step, HoldWithoutInformation,
                      HoldOnStaleInformation, RunOnPermit
  <2>5. /\ wasPermitted /\ Even(lastSequence) /\ ~Even(loaded.sequence)
    BY <2>1 DEF ParityInv, Alternating
  <2> QED
    BY <2>3, <2>4, <2>5 DEF HoldOnStop, MeasureStop, IsFreshStop
<1> QED
  BY <1>1, <1>2, <1>3, HttpTypeCorrect, PTL DEF Spec, EveryStopIsMeasured
=============================================================================
