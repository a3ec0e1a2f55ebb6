------------------------ MODULE ReactionTrialsProofs ------------------------
(***************************************************************************)
(* Theorems about the reaction benchmark over HTTP, for every number of    *)
(* trials, every poll period, settling time and patience.                  *)
(***************************************************************************)
EXTENDS ReactionTrials, HttpProofs

-----------------------------------------------------------------------------
(* A step of the benchmark is a step of the link and the cell, or a decision *)
(* of the source, or a field read by its handler.                            *)

LEMMA TrialsSteps ==
    ASSUME [TrialsNext]_trialsVars
    PROVE  \/ [Next]_vars
           \/ Permit \/ AssertStop
           \/ \E f \in Fields : ReadField(f)
BY DEF TrialsNext, StoreField, ReadBefore, EndTrial, Link, Request, Control, Time,
       Next, Poller, trialsVars

LEMMA FieldsOfASignal ==
    ASSUME NEW signal \in SafetySignal
    PROVE  /\ FieldsOf(signal)
                \in [sequence : Nat, asserted : Instant, permitted : BOOLEAN]
           /\ FieldsOf(signal).sequence = signal.sequence
           /\ FieldsOf(signal).asserted = signal.asserted
           /\ FieldsOf(signal).permitted = signal.permitted
BY DEF FieldsOf, Fields, SafetySignal

-----------------------------------------------------------------------------
(* Type correctness rests on one fact more: no decision stamp anywhere lies  *)
(* in the future.                                                            *)

StampsArePast ==
    /\ current.asserted <= now /\ http.asserted <= now /\ reply.asserted <= now
    /\ latest.asserted <= now /\ loaded.asserted <= now

TypeInv == TrialsTypeOK /\ format = "stamped" /\ StampsArePast

LEMMA OneIsASequence ==
    ASSUME NEW S, NEW s \in S
    PROVE  <<s>> \in Seq(S)
OBVIOUS

LEMMA InitTypeInv == TrialsInit => TypeInv
<1> SUFFICES ASSUME TrialsInit PROVE TypeInv
  OBVIOUS
<1>1. /\ now \in Nat /\ 0 \in 0 .. now /\ now \in 0 .. now
      /\ 1 \in 0 .. MaxStarts /\ 0 \in 0 .. MaxCount
  BY HttpAssumption, TrialsAssumption, CellAssumption DEF TrialsInit, LinkInit
<1>2. Verdict(1, TRUE) \in SafetySignal /\ Verdict(1, TRUE).asserted = now
  BY <1>1 DEF Verdict, SafetySignal, Instant
<1>3. TypeOK
  <2>1. CellTypeOK
    BY CellInitTypeOK DEF TrialsInit, LinkInit
  <2>2. /\ current \in SafetySignal /\ reply \in SafetySignal
        /\ latest \in SafetySignal /\ loaded \in SafetySignal
        /\ lastGood \in SafetyView
    BY <1>2, SignalsAreSignals DEF TrialsInit, LinkInit
  <2>3. /\ now \in Nat /\ starts \in 0 .. MaxStarts /\ fetchedAt \in 0 .. now
        /\ lastSuccess \in 0 .. now /\ readinessSequence \in Nat
        /\ requestsAttempted \in 0 .. MaxCount /\ requestsFailed \in 0 .. MaxCount
        /\ sampledAt \in 0 .. now /\ lapsedAt \in 0 .. now /\ diedAt \in 0 .. now
        /\ movedAt \in 0 .. sampledAt
        /\ permits \in SUBSET Nat /\ missed \in Nat
    BY <1>1 DEF TrialsInit, LinkInit
  <2>4. /\ up \in BOOLEAN /\ everReceived \in BOOLEAN /\ format \in Format
        /\ pollerPc = "asleep" /\ readerPc = "asleep"
    BY DEF TrialsInit, LinkInit, Format
  <2> QED
    BY <2>1, <2>2, <2>3, <2>4 DEF TypeOK
<1>4. /\ http \in [sequence : Nat, asserted : Instant, permitted : BOOLEAN]
      /\ http.asserted = now
  BY <1>2, FieldsOfASignal DEF TrialsInit
<1>5. verdicts \in Seq(SafetySignal)
  BY <1>2, OneIsASequence DEF TrialsInit
<1>6. TrialsTypeOK
  <2>1. /\ unstored \in SUBSET Fields /\ unread \in SUBSET Fields
        /\ mainPc \in {"permitting", "settling", "tripping", "waiting"}
    BY DEF TrialsInit
  <2>2. since \in 0 .. now /\ before \in Nat /\ measuredOf \in 0 .. now
    BY <1>1 DEF TrialsInit
  <2> QED
    BY <1>3, <1>4, <1>5, <2>1, <2>2 DEF TrialsTypeOK
<1>7. StampsArePast
  <2>1. /\ current = Verdict(1, TRUE) /\ reply = NoSignal /\ latest = DefaultSignal
        /\ loaded = NoSignal
    BY DEF TrialsInit, LinkInit
  <2>2. NoSignal.asserted = 0 /\ DefaultSignal.asserted = 0
    BY DEF NoSignal, DefaultSignal
  <2>3. 0 <= now /\ now <= now
    BY <1>1
  <2> QED
    BY <1>2, <1>4, <2>1, <2>2, <2>3 DEF StampsArePast
<1> QED
  BY <1>6, <1>7 DEF TypeInv, TrialsInit

\* The source decides: the verdict is the next one, dated now.
LEMMA AssertIsAVerdict ==
    ASSUME TypeInv, NEW permitted \in BOOLEAN, Assert(permitted)
    PROVE  /\ current' \in SafetySignal /\ current'.asserted = now
           /\ current'.sequence = current.sequence + 1
           /\ verdicts' = Append(verdicts, current')
           /\ verdicts' \in Seq(SafetySignal)
           /\ TypeOK'
           /\ UNCHANGED <<format, now, linkVars, pollerVars, readerVars, http, since,
                          unread, measuredOf>>
           /\ unstored' = Fields
<1>1. TypeOK /\ current \in SafetySignal /\ now \in Nat
  BY DEF TypeInv, TrialsTypeOK, TypeOK
<1>2. /\ current' = Verdict(current.sequence + 1, permitted)
      /\ verdicts' = Append(verdicts, current')
      /\ UNCHANGED <<format, now, starts, up, diedAt, linkVars, pollerVars, readerVars,
                     http, since, unread, measuredOf>>
      /\ unstored' = Fields
  BY DEF Assert
<1>3. /\ current' \in SafetySignal /\ current'.asserted = now
      /\ current'.sequence = current.sequence + 1
  BY <1>1, <1>2, SignalFields DEF Verdict, SafetySignal, Instant
<1>4. verdicts' \in Seq(SafetySignal)
  BY <1>2, <1>3 DEF TypeInv, TrialsTypeOK
<1>5. permits' \in SUBSET Nat /\ lapsedAt' \in 0 .. now
  <2>1. current'.sequence \in Nat
    BY <1>1, <1>3, SignalFields
  <2>2. /\ permits' = permits \/ permits' = permits \cup {current'.sequence}
        /\ lapsedAt' = now \/ lapsedAt' = lapsedAt
    BY DEF Assert
  <2>3. permits \in SUBSET Nat /\ lapsedAt \in 0 .. now
    BY <1>1 DEF TypeOK
  <2>4. permits' \in SUBSET Nat
    BY <2>1, <2>2, <2>3
  <2>5. lapsedAt' \in 0 .. now
    BY <1>1, <2>2, <2>3
  <2> QED
    BY <2>4, <2>5
<1>6. CellTypeOK'
  BY <1>1, <1>2, CellUnchanged DEF readerVars, TypeOK
<1>7. TypeOK'
  <2>1. /\ UNCHANGED <<format, now, starts, up, diedAt, latest, lastSuccess, everReceived>>
        /\ UNCHANGED <<readinessSequence, pollerPc, fetchedAt, reply, requestsAttempted>>
        /\ UNCHANGED <<requestsFailed, missed, readerPc, sampledAt, loaded, lastGood, movedAt>>
    BY <1>2 DEF linkVars, pollerVars, countVars, readerVars
  <2> QED
    BY <1>1, <1>3, <1>5, <1>6, <2>1 DEF TypeOK
<1> QED
  BY <1>2, <1>3, <1>4, <1>7

\* The handler reads: the answer gets one field of what the source has stored.
LEMMA ReadFieldIsASignal ==
    ASSUME TypeInv, NEW f \in Fields, ReadField(f)
    PROVE  /\ reply' = [reply EXCEPT ![f] = http[f]]
           /\ reply' \in SafetySignal
           /\ reply'.asserted \in {reply.asserted, http.asserted}
           /\ TypeOK'
<1>1. /\ TypeOK /\ reply \in SafetySignal
      /\ http \in [sequence : Nat, asserted : Instant, permitted : BOOLEAN]
  BY DEF TypeInv, TrialsTypeOK, TypeOK
<1>2. reply' = [reply EXCEPT ![f] = http[f]]
  BY DEF ReadField
<1>3. reply' \in SafetySignal /\ reply'.asserted \in {reply.asserted, http.asserted}
  BY <1>1, <1>2 DEF Fields, SafetySignal
<1>4. CellTypeOK'
  BY <1>1, CellUnchanged DEF ReadField, readerVars, TypeOK
<1>5. /\ pollerPc' \in {"asleep", "sent", "answered", "fetched", "storing", "stored"}
      /\ UNCHANGED <<format, now, runtimeVars, linkVars, fetchedAt, countVars, readerVars>>
  BY DEF ReadField
<1>6. TypeOK'
  BY <1>1, <1>3, <1>4, <1>5
     DEF TypeOK, runtimeVars, linkVars, countVars, readerVars
<1> QED
  BY <1>2, <1>3, <1>6

LEMMA NextTypeInv == TypeInv /\ [TrialsNext]_trialsVars => TypeInv'
<1> SUFFICES ASSUME TypeInv, [TrialsNext]_trialsVars PROVE TypeInv'
  OBVIOUS
<1>1. /\ TypeOK /\ format = "stamped" /\ StampsArePast /\ now \in Nat
      /\ http \in [sequence : Nat, asserted : Instant, permitted : BOOLEAN]
      /\ unstored \in SUBSET Fields /\ unread \in SUBSET Fields
      /\ mainPc \in {"permitting", "settling", "tripping", "waiting"}
      /\ since \in 0 .. now /\ before \in Nat /\ verdicts \in Seq(SafetySignal)
      /\ measuredOf \in 0 .. now
      /\ current \in SafetySignal /\ lastStopReaction \in Nat
  BY DEF TypeInv, TrialsTypeOK, TypeOK, CellTypeOK
<1>2. ASSUME NEW permitted \in BOOLEAN, Assert(permitted),
             mainPc' \in {"settling", "waiting"}, before' = before
      PROVE  TypeInv'
  <2>1. /\ current'.asserted = now /\ verdicts' \in Seq(SafetySignal) /\ TypeOK'
        /\ UNCHANGED <<format, now, linkVars, pollerVars, readerVars, http, since,
                       unread, measuredOf>>
        /\ unstored' = Fields
    BY <1>2, AssertIsAVerdict
  <2>2. StampsArePast'
    BY <1>1, <2>1 DEF StampsArePast, linkVars, pollerVars, readerVars
  <2> QED
    BY <1>1, <1>2, <2>1, <2>2 DEF TypeInv, TrialsTypeOK
<1>3. CASE Permit \/ AssertStop
  BY <1>2, <1>3 DEF Permit, AssertStop
<1>4. ASSUME NEW f \in Fields, ReadField(f) PROVE TypeInv'
  <2>1. TypeOK' /\ reply'.asserted \in {reply.asserted, http.asserted}
    BY <1>4, ReadFieldIsASignal
  <2>2. /\ UNCHANGED <<format, now, runtimeVars, linkVars, readerVars, sourceVars, mainVars,
                       measuredOf>>
        /\ unread' \in SUBSET Fields
    BY <1>1, <1>4 DEF ReadField
  <2>3. StampsArePast'
    BY <1>1, <2>1, <2>2 DEF StampsArePast, runtimeVars, linkVars, readerVars, sourceVars
  <2> QED
    BY <1>1, <2>1, <2>2, <2>3 DEF TypeInv, TrialsTypeOK, sourceVars, mainVars
<1>5. ASSUME NEW f \in Fields, StoreField(f) PROVE TypeInv'
  <2>1. /\ UNCHANGED <<vars, verdicts, mainVars, unread, measuredOf>>
        /\ http' = [http EXCEPT ![f] = current[f]]
        /\ unstored' \in SUBSET Fields /\ since' = now
    BY <1>1, <1>5 DEF StoreField
  <2>2. /\ http' \in [sequence : Nat, asserted : Instant, permitted : BOOLEAN]
        /\ http'.asserted \in {http.asserted, current.asserted}
    BY <1>1, <2>1 DEF Fields, SafetySignal
  <2>3. TypeOK'
    BY <1>1, <2>1, NextTypeOK
  <2>4. StampsArePast'
    BY <1>1, <2>1, <2>2
       DEF StampsArePast, vars, runtimeVars, linkVars, pollerVars, readerVars
  <2>5. now' = now /\ format' = format
    BY <2>1 DEF vars
  <2> QED
    BY <1>1, <2>1, <2>2, <2>3, <2>4, <2>5 DEF TypeInv, TrialsTypeOK, mainVars
<1>6. CASE ReadBefore
  <2>1. /\ UNCHANGED <<vars, sourceVars, unread, measuredOf>>
        /\ before' = lastStopReaction /\ mainPc' = "tripping"
    BY <1>6 DEF ReadBefore
  <2>2. TypeOK'
    BY <1>1, <2>1, NextTypeOK
  <2>3. StampsArePast'
    BY <1>1, <2>1
       DEF StampsArePast, vars, runtimeVars, linkVars, pollerVars, readerVars, sourceVars
  <2>4. now' = now /\ format' = format
    BY <2>1 DEF vars
  <2> QED
    BY <1>1, <2>1, <2>2, <2>3, <2>4 DEF TypeInv, TrialsTypeOK, sourceVars
<1>7. CASE EndTrial \/ UNCHANGED trialsVars
  <2>1. /\ UNCHANGED <<vars, sourceVars, before, unread, measuredOf>>
        /\ mainPc' \in {"permitting", "settling", "tripping", "waiting"}
    BY <1>1, <1>7 DEF EndTrial, trialsVars, mainVars
  <2>2. TypeOK'
    BY <1>1, <2>1, NextTypeOK
  <2>3. StampsArePast'
    BY <1>1, <2>1
       DEF StampsArePast, vars, runtimeVars, linkVars, pollerVars, readerVars, sourceVars
  <2>4. now' = now /\ format' = format
    BY <2>1 DEF vars
  <2> QED
    BY <1>1, <2>1, <2>2, <2>3, <2>4 DEF TypeInv, TrialsTypeOK, sourceVars
<1>8. CASE Link
  <2>1. /\ [Next]_vars /\ UNCHANGED <<sourceVars, mainVars, measuredOf>>
        /\ unread' \in SUBSET Fields
    BY <1>1, <1>8 DEF Link, Request, Next, Poller
  <2>2. TypeOK' /\ format' = format
    BY <1>1, <2>1, NextTypeOK, FormatStays
  <2>3. /\ now' = now /\ UNCHANGED <<current, loaded>>
        /\ reply' \in {reply, NoSignal} /\ latest' \in {latest, reply}
    BY <1>1, <1>8 DEF Link, Request, Fetch, Receive, Received, FetchFails, StoreBegin,
          StoreEnd, StampSuccess, runtimeVars, linkVars, pollerVars, readerVars
  <2>4. StampsArePast'
    BY <1>1, <2>1, <2>3 DEF StampsArePast, sourceVars, NoSignal
  <2> QED
    BY <1>1, <2>1, <2>2, <2>3, <2>4 DEF TypeInv, TrialsTypeOK, sourceVars, mainVars
<1>9. CASE Control
  <2>1. /\ [Next]_vars /\ UNCHANGED <<sourceVars, mainVars, unread>>
        /\ measuredOf' \in {loaded.asserted, measuredOf}
    BY <1>9 DEF Control, Next
  <2>2. TypeOK' /\ format' = format
    BY <1>1, <2>1, NextTypeOK, FormatStays
  <2>3. /\ now' = now /\ UNCHANGED <<current, reply, latest>>
        /\ loaded' \in {loaded, latest, NoSignal}
    BY <1>9 DEF Control, Reader, Sample, TryLoad, StepUninformed, StepOnLastGood,
          StepOnLoaded, StepOn, runtimeVars, linkVars, pollerVars, readerVars
  <2>4. StampsArePast'
    BY <1>1, <2>1, <2>3 DEF StampsArePast, sourceVars, NoSignal
  <2>5. measuredOf' \in 0 .. now
    BY <1>1, <2>1, SignalFields DEF TypeOK, StampsArePast
  <2> QED
    BY <1>1, <2>1, <2>2, <2>3, <2>4, <2>5 DEF TypeInv, TrialsTypeOK, sourceVars, mainVars
<1>10. CASE Time
  <2>1. /\ [Next]_vars /\ UNCHANGED <<sourceVars, mainVars, unread, measuredOf>>
        /\ now' = now + 1 /\ UNCHANGED <<current, reply, latest, loaded>>
    BY <1>10 DEF Time, Tick, Next, runtimeVars, linkVars, pollerVars, readerVars
  <2>2. TypeOK' /\ format' = format
    BY <1>1, <2>1, NextTypeOK, FormatStays
  <2>3. /\ current.asserted \in Nat /\ http.asserted \in Nat /\ reply.asserted \in Nat
        /\ latest.asserted \in Nat /\ loaded.asserted \in Nat
    BY <1>1, SignalFields DEF TypeOK, Instant
  <2>4. StampsArePast'
    BY <1>1, <2>1, <2>3 DEF StampsArePast, sourceVars
  <2>5. since' \in 0 .. now' /\ measuredOf' \in 0 .. now'
    BY <1>1, <2>1 DEF sourceVars
  <2> QED
    BY <1>1, <2>1, <2>2, <2>4, <2>5 DEF TypeInv, TrialsTypeOK, sourceVars, mainVars
<1> QED
  BY <1>3, <1>4, <1>5, <1>6, <1>7, <1>8, <1>9, <1>10 DEF TrialsNext

LEMMA TypeInvHolds == TrialsSpec => []TypeInv
BY InitTypeInv, NextTypeInv, PTL DEF TrialsSpec

\* The variables of source, handler, trial loop, link and cell keep their types, on
\* any schedule of punctual threads.
THEOREM TrialsTypeCorrect == TrialsSpec => []TrialsTypeOK
BY TypeInvHolds, PTL DEF TypeInv

-----------------------------------------------------------------------------
(* New numbers come with new stamps.  The source numbers its verdicts one by *)
(* one and dates them in order, and it decides only when its last verdict is *)
(* stored.  A stamp is stored before its number and read after it, so what   *)
(* is stored, and what has been read, is dated at least as late as the       *)
(* verdict of its number.                                                    *)

Dated(s) ==
    s.sequence \in 1 .. Len(verdicts) /\ s.asserted >= verdicts[s.sequence].asserted

InOrder ==
    /\ current.sequence = Len(verdicts) /\ Len(verdicts) >= 1
    /\ current = verdicts[Len(verdicts)]
    /\ \A i, j \in 1 .. Len(verdicts) :
         i <= j => verdicts[i].asserted <= verdicts[j].asserted

PublishInv ==
    /\ mainPc \in {"permitting", "tripping"} => unstored = {}
    /\ "sequence" \in unstored => http.sequence = current.sequence - 1
    /\ "sequence" \notin unstored => /\ http.sequence = current.sequence
                                     /\ unstored = {}
    /\ "asserted" \notin unstored => http.asserted = current.asserted
    /\ Dated(http)

AnswerInv ==
    /\ pollerPc = "sent" =>
         /\ "sequence" \notin unread => reply.sequence \in 1 .. http.sequence
         /\ "sequence" \in unread => "asserted" \in unread
         /\ "asserted" \notin unread => Dated(reply)
    /\ Answered => Dated(reply)

DateInv == InOrder /\ PublishInv /\ AnswerInv

LEMMA InitDateInv == TrialsInit => DateInv
<1> SUFFICES ASSUME TrialsInit PROVE DateInv
  OBVIOUS
<1>1. now \in Nat
  BY HttpAssumption DEF TrialsInit, LinkInit
<1>2. /\ Verdict(1, TRUE) \in SafetySignal
      /\ Verdict(1, TRUE).asserted = now /\ Verdict(1, TRUE).sequence = 1
  BY <1>1 DEF Verdict, SafetySignal, Instant
<1>3. /\ verdicts = <<Verdict(1, TRUE)>> /\ current = Verdict(1, TRUE)
      /\ http = FieldsOf(Verdict(1, TRUE)) /\ unstored = {} /\ pollerPc = "asleep"
  BY DEF TrialsInit, LinkInit
<1>4. /\ Len(verdicts) = 1 /\ verdicts[1] = Verdict(1, TRUE)
      /\ \A i \in 1 .. Len(verdicts) : i = 1
  BY <1>3
<1>5. http.sequence = 1 /\ http.asserted = now
  BY <1>2, <1>3, FieldsOfASignal
<1>6. InOrder
  <2>1. current.sequence = Len(verdicts) /\ current = verdicts[Len(verdicts)]
    BY <1>2, <1>3, <1>4
  <2>2. ASSUME NEW i \in 1 .. Len(verdicts), NEW j \in 1 .. Len(verdicts)
        PROVE  verdicts[i].asserted <= verdicts[j].asserted
    <3>1. i = 1 /\ j = 1
      BY <1>4
    <3>2. verdicts[1].asserted = now
      BY <1>2, <1>4
    <3> QED
      BY <1>1, <3>1, <3>2
  <2> QED
    <3>1. Len(verdicts) >= 1
      BY <1>4
    <3> QED
      BY <2>1, <2>2, <3>1 DEF InOrder
<1>7. PublishInv
  <2>1. current.sequence = 1 /\ current.asserted = now /\ verdicts[1].asserted = now
    BY <1>2, <1>3, <1>4
  <2>2. 1 \in 1 .. Len(verdicts) /\ now >= now
    BY <1>1, <1>4
  <2>3. Dated(http)
    BY <1>5, <2>1, <2>2, Zenon DEF Dated
  <2> QED
    BY <1>3, <1>5, <2>1, <2>3 DEF PublishInv
<1>8. AnswerInv
  BY <1>3 DEF AnswerInv, Answered
<1> QED
  BY <1>6, <1>7, <1>8 DEF DateInv

LEMMA ElementOfASequence ==
    ASSUME NEW S, NEW s \in Seq(S), NEW i \in 1 .. Len(s)
    PROVE  s[i] \in S
OBVIOUS

LEMMA StampsAreNumbers ==
    ASSUME TypeInv
    PROVE  /\ verdicts \in Seq(SafetySignal) /\ Len(verdicts) \in Nat
           /\ \A i \in 1 .. Len(verdicts) : verdicts[i].asserted \in Nat
           /\ http.sequence \in Nat /\ http.asserted \in Nat
           /\ reply.sequence \in Nat /\ reply.asserted \in Nat
           /\ current.sequence \in Nat /\ current.asserted \in Nat
           /\ now \in Nat /\ current.asserted <= now
<1>1. verdicts \in Seq(SafetySignal) /\ Len(verdicts) \in Nat
  BY DEF TypeInv, TrialsTypeOK
<1>2. \A i \in 1 .. Len(verdicts) : verdicts[i].asserted \in Nat
  <2>1. ASSUME NEW i \in 1 .. Len(verdicts) PROVE verdicts[i].asserted \in Nat
    <3>1. verdicts[i] \in SafetySignal
      BY <1>1, ElementOfASequence
    <3> QED
      BY <3>1, SignalFields
  <2> QED
    BY <2>1
<1>3. /\ http \in [sequence : Nat, asserted : Instant, permitted : BOOLEAN]
      /\ reply \in SafetySignal /\ current \in SafetySignal /\ now \in Nat
      /\ current.asserted <= now
  BY DEF TypeInv, TrialsTypeOK, TypeOK, StampsArePast
<1> QED
  BY <1>1, <1>2, <1>3, SignalFields DEF Instant

\* A new verdict leaves the ones before it, and what was dated stays so.
LEMMA AssertKeepsDates ==
    ASSUME TypeInv, DateInv, NEW permitted \in BOOLEAN, Assert(permitted), unstored = {},
           mainPc' \in {"settling", "waiting"}
    PROVE  DateInv'
<1>1. /\ current' \in SafetySignal /\ current'.asserted = now
      /\ current'.sequence = current.sequence + 1
      /\ verdicts' = Append(verdicts, current')
      /\ UNCHANGED <<format, now, pollerVars, http, unread>> /\ unstored' = Fields
  BY AssertIsAVerdict
<1>2. /\ verdicts \in Seq(SafetySignal) /\ Len(verdicts) \in Nat
      /\ \A i \in 1 .. Len(verdicts) : verdicts[i].asserted \in Nat
      /\ now \in Nat /\ current.asserted <= now /\ current.asserted \in Nat
      /\ current.sequence \in Nat /\ http.sequence \in Nat
  BY StampsAreNumbers
<1>3. /\ Len(verdicts') = Len(verdicts) + 1
      /\ verdicts'[Len(verdicts')] = current'
      /\ \A i \in 1 .. Len(verdicts) : verdicts'[i] = verdicts[i]
  BY <1>1, <1>2
<1>4. \A i \in 1 .. Len(verdicts') : i \in 1 .. Len(verdicts) \/ i = Len(verdicts')
  BY <1>2, <1>3
<1>5. \A i \in 1 .. Len(verdicts) : verdicts[i].asserted <= now
  <2>1. ASSUME NEW i \in 1 .. Len(verdicts) PROVE verdicts[i].asserted <= now
    <3>1. /\ Len(verdicts) \in 1 .. Len(verdicts) /\ i <= Len(verdicts)
          /\ verdicts[i].asserted \in Nat
      BY <1>2
    <3>2. /\ verdicts[i].asserted <= verdicts[Len(verdicts)].asserted
          /\ verdicts[Len(verdicts)] = current
      BY <3>1 DEF DateInv, InOrder
    <3> QED
      BY <1>2, <3>1, <3>2
  <2> QED
    BY <2>1
<1>6. InOrder'
  <2>1. ASSUME NEW i \in 1 .. Len(verdicts'), NEW j \in 1 .. Len(verdicts'), i <= j
        PROVE  verdicts'[i].asserted <= verdicts'[j].asserted
    <3>1. CASE j \in 1 .. Len(verdicts)
      <4>1. i \in 1 .. Len(verdicts)
        BY <1>2, <1>3, <2>1, <3>1
      <4> QED
        BY <1>3, <2>1, <3>1, <4>1 DEF DateInv, InOrder
    <3>2. CASE j = Len(verdicts')
      <4>1. verdicts'[j].asserted = now
        BY <1>1, <1>3, <3>2
      <4>2. verdicts'[i].asserted <= now
        BY <1>1, <1>2, <1>3, <1>4, <1>5
      <4> QED
        BY <4>1, <4>2
    <3> QED
      BY <1>4, <3>1, <3>2
  <2>2. current'.sequence = Len(verdicts') /\ Len(verdicts') >= 1
    BY <1>1, <1>2, <1>3 DEF DateInv, InOrder
  <2> QED
    BY <1>3, <2>1, <2>2 DEF InOrder
<1>7. ASSUME NEW s, Dated(s) PROVE s.sequence \in 1 .. Len(verdicts') /\ s.asserted >= verdicts'[s.sequence].asserted
  BY <1>2, <1>3, <1>7 DEF Dated
<1>8. PublishInv'
  <2>1. http.sequence = current.sequence /\ Dated(http)
    BY DEF DateInv, PublishInv
  <2>2. http'.sequence = current'.sequence - 1
    BY <1>1, <1>2, <2>1
  <2>3. Dated(http)'
    BY <1>1, <1>7, <2>1 DEF Dated
  <2> QED
    BY <1>1, <2>2, <2>3 DEF PublishInv, Fields
<1>9. AnswerInv'
  <2>1. UNCHANGED <<pollerPc, reply>> /\ (Answered' <=> Answered)
    BY <1>1 DEF pollerVars, Answered
  <2>2. Dated(reply) => Dated(reply)'
    BY <1>7, <2>1 DEF Dated
  <2> QED
    BY <1>1, <2>1, <2>2 DEF DateInv, AnswerInv
<1> QED
  BY <1>6, <1>8, <1>9 DEF DateInv

\* Storing a field: the stamp of a verdict is no earlier than that of the one before
\* it, and its number goes out when its stamp has.
LEMMA StoreKeepsDates ==
    ASSUME TypeInv, DateInv, NEW f \in Fields, StoreField(f)
    PROVE  DateInv'
<1>1. /\ UNCHANGED <<vars, verdicts, mainVars, unread>>
      /\ http' = [http EXCEPT ![f] = current[f]] /\ unstored' = unstored \ {f}
      /\ f \in unstored /\ (f = "sequence" => unstored = {"sequence"})
  BY DEF StoreField, MayStore
<1>2. UNCHANGED <<current, pollerPc, reply, mainPc, verdicts>>
  BY <1>1 DEF vars, runtimeVars, pollerVars, mainVars
<1>3. http \in [sequence : Nat, asserted : Instant, permitted : BOOLEAN]
  BY DEF TypeInv, TrialsTypeOK
<1>4. /\ Len(verdicts) \in Nat /\ http.sequence \in Nat /\ http.asserted \in Nat
      /\ \A i \in 1 .. Len(verdicts) : verdicts[i].asserted \in Nat
      /\ current.sequence \in Nat /\ current.asserted \in Nat
      /\ reply.sequence \in Nat
  BY StampsAreNumbers
<1>5. InOrder'
  BY <1>2 DEF DateInv, InOrder
<1>6. /\ "sequence" \in unstored /\ http.sequence = current.sequence - 1 /\ Dated(http)
      /\ "asserted" \notin unstored => http.asserted = current.asserted
  BY <1>1 DEF DateInv, PublishInv
<1>7. current.sequence = Len(verdicts) /\ current = verdicts[Len(verdicts)]
  BY DEF DateInv, InOrder
<1>8. /\ Dated(http)' /\ http'.sequence \in {http.sequence, current.sequence}
      /\ "sequence" \in unstored' => http'.sequence = current.sequence - 1
      /\ "sequence" \notin unstored' => http'.sequence = current.sequence /\ unstored' = {}
      /\ "asserted" \notin unstored' => http'.asserted = current.asserted
  <2>1. CASE f = "sequence"
    <3>1. /\ http'.sequence = current.sequence /\ http'.asserted = http.asserted
          /\ unstored' = {} /\ http.asserted = current.asserted
      BY <1>1, <1>3, <1>6, <2>1
    <3>2. /\ Len(verdicts) \in 1 .. Len(verdicts)
          /\ verdicts[Len(verdicts)].asserted = current.asserted
      BY <1>4, <1>6, <1>7 DEF Dated
    <3>3. http'.sequence = Len(verdicts) /\ http'.asserted >= current.asserted
      BY <1>4, <1>7, <3>1
    <3>4. Dated(http)'
      BY <1>2, <3>2, <3>3 DEF Dated
    <3> QED
      BY <3>1, <3>4
  <2>2. CASE f = "asserted"
    <3>1. /\ http'.sequence = http.sequence /\ http'.asserted = current.asserted
          /\ "sequence" \in unstored'
      BY <1>1, <1>3, <1>6, <2>2
    <3>2. http.sequence \in 1 .. Len(verdicts) /\ Len(verdicts) \in 1 .. Len(verdicts)
          /\ http.sequence <= Len(verdicts)
      BY <1>4, <1>6 DEF Dated
    <3>3. verdicts[http.sequence].asserted <= current.asserted
      BY <1>7, <3>2 DEF DateInv, InOrder
    <3>4. Dated(http)'
      BY <1>2, <1>4, <3>1, <3>2, <3>3 DEF Dated
    <3> QED
      BY <1>6, <3>1, <3>4
  <2>3. CASE f = "permitted"
    <3>1. /\ http'.sequence = http.sequence /\ http'.asserted = http.asserted
          /\ "sequence" \in unstored' /\ ("asserted" \in unstored' <=> "asserted" \in unstored)
      BY <1>1, <1>3, <1>6, <2>3
    <3>2. Dated(http)'
      BY <1>2, <1>6, <3>1 DEF Dated
    <3> QED
      BY <1>6, <3>1, <3>2
  <2> QED
    BY <2>1, <2>2, <2>3 DEF Fields
<1>9. PublishInv'
  <2>1. unstored' # {} => mainPc' \notin {"permitting", "tripping"}
    BY <1>1, <1>2 DEF DateInv, PublishInv
  <2> QED
    BY <1>2, <1>8, <2>1 DEF PublishInv
<1>10. AnswerInv'
  <2>1. reply.sequence \in 1 .. http.sequence => reply.sequence \in 1 .. http'.sequence
    BY <1>4, <1>6, <1>8
  <2>2. (Dated(reply) => Dated(reply)') /\ (Answered' <=> Answered)
    BY <1>2 DEF Dated, Answered
  <2> QED
    BY <1>1, <1>2, <2>1, <2>2 DEF DateInv, AnswerInv
<1> QED
  BY <1>5, <1>9, <1>10 DEF DateInv

\* Reading a field: the number that was read is stored still or has been replaced by
\* a later one, so that the stamp read after it is late enough.
LEMMA ReadKeepsDates ==
    ASSUME TypeInv, DateInv, NEW f \in Fields, ReadField(f)
    PROVE  DateInv'
<1>1. /\ pollerPc = "sent" /\ f \in unread /\ (f # "sequence" => "sequence" \notin unread)
      /\ reply' = [reply EXCEPT ![f] = http[f]] /\ unread' = unread \ {f}
      /\ pollerPc' = IF unread' = {} THEN "answered" ELSE "sent"
      /\ UNCHANGED <<http, unstored, verdicts, mainPc, current>>
  BY DEF ReadField, MayRead, sourceVars, mainVars, runtimeVars
<1>2. /\ Len(verdicts) \in Nat /\ http.sequence \in Nat /\ http.asserted \in Nat
      /\ \A i \in 1 .. Len(verdicts) : verdicts[i].asserted \in Nat
      /\ reply.sequence \in Nat /\ reply.asserted \in Nat
  BY StampsAreNumbers
<1>3. reply \in SafetySignal
  BY DEF TypeInv, TrialsTypeOK, TypeOK
<1>4. InOrder' /\ PublishInv'
  BY <1>1 DEF DateInv, InOrder, PublishInv, Dated
<1>5. /\ "sequence" \notin unread => reply.sequence \in 1 .. http.sequence
      /\ "sequence" \in unread => "asserted" \in unread
      /\ "asserted" \notin unread => Dated(reply)
      /\ Dated(http)
  BY <1>1 DEF DateInv, AnswerInv, PublishInv
<1>6. /\ "sequence" \notin unread' => reply'.sequence \in 1 .. http.sequence
      /\ "sequence" \in unread' => "asserted" \in unread'
      /\ "asserted" \notin unread' => Dated(reply)'
  <2>1. CASE f = "sequence"
    <3>1. reply'.sequence = http.sequence /\ "asserted" \in unread'
      BY <1>1, <1>3, <1>5, <2>1 DEF SafetySignal
    <3> QED
      BY <1>2, <1>5, <3>1 DEF Dated
  <2>2. CASE f = "asserted"
    <3>1. /\ reply'.sequence = reply.sequence /\ reply'.asserted = http.asserted
          /\ "sequence" \notin unread
      BY <1>1, <1>3, <2>2 DEF SafetySignal
    <3>2. /\ reply.sequence \in 1 .. Len(verdicts) /\ http.sequence \in 1 .. Len(verdicts)
          /\ reply.sequence <= http.sequence
      BY <1>2, <1>5, <3>1 DEF Dated
    <3>3. verdicts[reply.sequence].asserted <= verdicts[http.sequence].asserted
      BY <3>2 DEF DateInv, InOrder
    <3>4. Dated(reply)'
      BY <1>1, <1>2, <1>5, <3>1, <3>2, <3>3 DEF Dated
    <3> QED
      BY <1>1, <1>5, <3>1, <3>4
  <2>3. CASE f = "permitted"
    <3>1. /\ reply'.sequence = reply.sequence /\ reply'.asserted = reply.asserted
          /\ ("sequence" \in unread' <=> "sequence" \in unread)
          /\ ("asserted" \in unread' <=> "asserted" \in unread)
      BY <1>1, <1>3, <2>3 DEF SafetySignal
    <3>2. Dated(reply) => Dated(reply)'
      BY <1>1, <3>1 DEF Dated
    <3> QED
      BY <1>5, <3>1, <3>2
  <2> QED
    BY <2>1, <2>2, <2>3 DEF Fields
<1>7. AnswerInv'
  <2>1. Answered' => unread' = {}
    BY <1>1 DEF Answered
  <2> QED
    BY <1>1, <1>6, <2>1 DEF AnswerInv
<1> QED
  BY <1>4, <1>7 DEF DateInv

\* The fetch carries the answer on as it is, or drops it.
LEMMA LinkKeepsDates ==
    ASSUME TypeInv, DateInv, Link
    PROVE  DateInv'
<1>1. UNCHANGED <<current, http, unstored, mainPc, verdicts>>
  BY DEF Link, Request, Fetch, Receive, Received, FetchFails, StoreBegin, StoreEnd,
         StampSuccess, runtimeVars, sourceVars, mainVars
<1>2. InOrder' /\ PublishInv'
  BY <1>1 DEF DateInv, InOrder, PublishInv, Dated
<1>3. CASE Request
  <2>1. pollerPc' = "sent" /\ unread' = Fields
    BY <1>3 DEF Request, Fetch
  <2>2. ~Answered' /\ "sequence" \in unread' /\ "asserted" \in unread'
    BY <2>1 DEF Answered, Fields
  <2> QED
    BY <1>2, <2>1, <2>2 DEF DateInv, AnswerInv
<1>4. CASE FetchFails \/ StampSuccess
  <2>1. pollerPc' = "asleep"
    BY <1>4 DEF FetchFails, StampSuccess
  <2> QED
    BY <1>2, <2>1 DEF DateInv, AnswerInv, Answered
<1>5. CASE Receive \/ StoreBegin \/ StoreEnd
  <2>1. Answered /\ reply' = reply /\ pollerPc' # "sent"
    BY <1>5 DEF Receive, Received, StoreBegin, StoreEnd, Answered, TypeInv
  <2>2. Dated(reply)'
    BY <1>1, <2>1 DEF DateInv, AnswerInv, Dated
  <2> QED
    BY <1>2, <2>1, <2>2 DEF DateInv, AnswerInv
<1> QED
  BY <1>3, <1>4, <1>5 DEF Link

LEMMA NextDateInv == TypeInv /\ DateInv /\ [TrialsNext]_trialsVars => DateInv'
<1> SUFFICES ASSUME TypeInv, DateInv, [TrialsNext]_trialsVars PROVE DateInv'
  OBVIOUS
<1>1. CASE Permit \/ AssertStop
  <2>1. PICK permitted \in BOOLEAN : Assert(permitted)
    BY <1>1 DEF Permit, AssertStop
  <2>2. unstored = {} /\ mainPc' \in {"settling", "waiting"}
    BY <1>1 DEF Permit, AssertStop, DateInv, PublishInv
  <2> QED
    BY <2>1, <2>2, AssertKeepsDates
<1>2. ASSUME NEW f \in Fields, StoreField(f) \/ ReadField(f) PROVE DateInv'
  BY <1>2, StoreKeepsDates, ReadKeepsDates
<1>3. CASE Link
  BY <1>3, LinkKeepsDates
<1>4. CASE ReadBefore \/ EndTrial \/ Control \/ Time \/ UNCHANGED trialsVars
  <2>1. /\ UNCHANGED <<current, http, unstored, verdicts, pollerPc, reply, unread>>
        /\ mainPc' \in {"permitting", "tripping"} => unstored = {} \/ mainPc' = mainPc
    BY <1>4 DEF ReadBefore, EndTrial, Control, Reader, Sample, TryLoad, StepUninformed,
          StepOnLastGood, StepOnLoaded, StepOn, Time, Tick, trialsVars, vars, sourceVars,
          mainVars, runtimeVars, pollerVars
  <2> QED
    BY <2>1 DEF DateInv, InOrder, PublishInv, AnswerInv, Answered, Dated
<1> QED
  BY <1>1, <1>2, <1>3, <1>4 DEF TrialsNext

\* However the source's stores and its handler's reads fall, and with any number of
\* trials behind them, no answer understates how old its verdict is.
THEOREM NewNumbersNewStamps == TrialsSpec => []NewSequenceNewTimestamp
<1>1. AnswerInv => NewSequenceNewTimestamp
  BY DEF AnswerInv, Dated, NewSequenceNewTimestamp
<1> QED
  BY <1>1, InitDateInv, NextDateInv, TypeInvHolds, PTL DEF TrialsSpec, DateInv

-----------------------------------------------------------------------------
(* The sample is of its own trial.  The permit of a trial replaces a stop of  *)
(* the trial before in the tick it is given, so that no answer read after     *)
(* that tick holds such a stop.  One fetched in time may still be stored, and *)
(* the cell looks at it in the tick after; that look stops the cell, and it   *)
(* moves again only on what has replaced the stop.  By the time the permit    *)
(* has settled, a measurement can only be of something later.                 *)

\* When the permit of the trial under way was decided.
PermitAt == verdicts[IF mainPc = "waiting" THEN Len(verdicts) - 1 ELSE Len(verdicts)].asserted

\* A stop of an earlier trial.
Old(s) == ~s.permitted /\ s.asserted < PermitAt

\* The cell has made a step begun after the tick of the permit.
SteppedSince ==
    sampledAt > PermitAt + 1 \/ (sampledAt = PermitAt + 1 /\ readerPc = "asleep")

\* The control thread is punctual: one step in every tick.
ClockInv ==
    /\ now >= Uptime
    /\ sampledAt < now => readerPc = "asleep"
    /\ now > Uptime => sampledAt >= now - 1

\* Where the main thread is in its trial.
TrialInv ==
    mainPc # "permitting" =>
        /\ Len(verdicts) >= 2
        /\ PermitAt >= Uptime
        /\ mainPc = "settling" => unstored = Fields \/ since >= PermitAt
        /\ mainPc = "settling" /\ unstored # {} => now = PermitAt
        /\ mainPc \in {"tripping", "waiting"} => now >= PermitAt + 2

\* Where a stop of an earlier trial can be after the tick of the permit.
OldStopInv ==
    mainPc # "permitting" /\ now > PermitAt =>
        /\ \/ pollerPc = "sent" /\ "asserted" \notin unread
           \/ Answered
           => reply.asserted >= PermitAt
        /\ readerPc = "loaded" /\ Old(latest) => Old(loaded)
        /\ SteppedSince /\ Old(latest) /\ pollerPc # "storing" => ~wasPermitted
        /\ sampledAt > PermitAt + 1 /\ readerPc = "loaded" /\ Old(loaded)
             => ~wasPermitted

\* A cell that has just moved moved on what the link remembers.
EdgeInv == wasPermitted => lastGood.permitted /\ Moving

\* A measurement since the trip was armed is of nothing before the permit.
MeasuredInv ==
    mainPc \in {"tripping", "waiting"} /\ Measured => measuredOf >= PermitAt

SampleInv == ClockInv /\ TrialInv /\ OldStopInv /\ EdgeInv /\ MeasuredInv

LEMMA InitSampleInv == TrialsInit => SampleInv
<1> SUFFICES ASSUME TrialsInit PROVE SampleInv
  OBVIOUS
<1>1. /\ mainPc = "permitting" /\ now = Uptime /\ readerPc = "asleep"
      /\ wasPermitted = FALSE
  BY DEF TrialsInit, LinkInit, CellInit
<1>2. ClockInv
  BY <1>1, HttpAssumption DEF ClockInv
<1> QED
  BY <1>1, <1>2 DEF SampleInv, TrialInv, OldStopInv, EdgeInv, MeasuredInv

\* Only the control thread touches the cell.
LEMMA OnlyControlStepsTheCell ==
    ASSUME [TrialsNext]_trialsVars, ~Control
    PROVE  UNCHANGED <<readerPc, sampledAt, loaded, lastGood, phase, lastStopReaction,
                       hasStopMeasurement, wasPermitted, lastSequence, measuredOf>>
<1>1. CASE Permit \/ AssertStop
  BY <1>1 DEF Permit, AssertStop, Assert, readerVars, cellVars, measurement
<1>2. CASE \E f \in Fields : StoreField(f) \/ ReadField(f)
  BY <1>2 DEF StoreField, ReadField, vars, readerVars, cellVars, measurement
<1>3. CASE ReadBefore \/ EndTrial \/ UNCHANGED trialsVars
  BY <1>3 DEF ReadBefore, EndTrial, trialsVars, vars, readerVars, cellVars, measurement
<1>4. CASE Link
  BY <1>4 DEF Link, Request, Fetch, Receive, Received, FetchFails, StoreBegin, StoreEnd,
              StampSuccess, readerVars, cellVars, measurement
<1>5. CASE Time
  BY <1>5 DEF Time, Tick, readerVars, cellVars, measurement
<1> QED
  BY <1>1, <1>2, <1>3, <1>4, <1>5 DEF TrialsNext

\* What the control thread leaves alone.
LEMMA ControlAlone ==
    ASSUME Control
    PROVE  UNCHANGED <<now, current, latest, everReceived, pollerPc, reply, fetchedAt,
                       http, unstored, since, verdicts, mainPc, before, unread>>
BY DEF Control, Reader, Sample, TryLoad, StepUninformed, StepOnLastGood, StepOnLoaded,
       StepOn, runtimeVars, linkVars, pollerVars, sourceVars, mainVars

LEMMA NowStays ==
    ASSUME [TrialsNext]_trialsVars, ~Time
    PROVE  now' = now
BY DEF TrialsNext, StoreField, ReadField, Permit, AssertStop, Assert, ReadBefore, EndTrial,
       Link, Request, Fetch, Receive, Received, FetchFails, StoreBegin, StoreEnd,
       StampSuccess, Control, Reader, Sample, TryLoad, StepUninformed, StepOnLastGood,
       StepOnLoaded, StepOn, trialsVars, vars

LEMMA NextClockInv == TypeInv /\ ClockInv /\ [TrialsNext]_trialsVars => ClockInv'
<1> SUFFICES ASSUME TypeInv, ClockInv, [TrialsNext]_trialsVars PROVE ClockInv'
  OBVIOUS
<1>1. now \in Nat /\ sampledAt \in 0 .. now /\ Uptime \in Nat
  BY HttpAssumption DEF TypeInv, TrialsTypeOK, TypeOK
<1>2. CASE Time
  <2>1. now' = now + 1 /\ sampledAt = now /\ UNCHANGED <<sampledAt, readerPc>>
        /\ readerPc = "asleep"
    BY <1>2 DEF Time, Tick, readerVars
  <2> QED
    BY <1>1, <2>1 DEF ClockInv
<1>3. CASE Control
  <2>1. now' = now
    BY <1>3, ControlAlone
  <2>2. \/ sampledAt' = now
        \/ sampledAt' = sampledAt /\ (readerPc # "asleep" \/ readerPc' = "asleep")
    BY <1>3 DEF Control, Reader, Sample, TryLoad, StepUninformed, StepOnLastGood,
                StepOnLoaded, StepOn
  <2> QED
    BY <1>1, <2>1, <2>2 DEF ClockInv
<1>4. CASE ~Time /\ ~Control
  BY <1>4, NowStays, OnlyControlStepsTheCell DEF ClockInv
<1> QED
  BY <1>2, <1>3, <1>4

\* The permit's instant is a number, and no later than now.
LEMMA PermitIsPast ==
    ASSUME TypeInv, DateInv, TrialInv, mainPc # "permitting"
    PROVE  /\ PermitAt \in Nat /\ PermitAt <= now
           /\ mainPc # "waiting" => PermitAt = current.asserted
<1>1. /\ Len(verdicts) \in Nat /\ Len(verdicts) >= 2
      /\ \A i \in 1 .. Len(verdicts) : verdicts[i].asserted \in Nat
      /\ now \in Nat /\ current.asserted \in Nat /\ current.asserted <= now
  BY StampsAreNumbers DEF TrialInv
<1>2. /\ Len(verdicts) \in 1 .. Len(verdicts)
      /\ Len(verdicts) - 1 \in 1 .. Len(verdicts)
      /\ Len(verdicts) - 1 <= Len(verdicts)
  BY <1>1
<1>3. /\ current = verdicts[Len(verdicts)]
      /\ verdicts[Len(verdicts) - 1].asserted <= verdicts[Len(verdicts)].asserted
  BY <1>2 DEF DateInv, InOrder
<1>4. CASE mainPc = "waiting"
  <2>1. PermitAt = verdicts[Len(verdicts) - 1].asserted
    BY <1>4 DEF PermitAt
  <2> QED
    BY <1>1, <1>2, <1>3, <1>4, <2>1
<1>5. CASE mainPc # "waiting"
  <2>1. PermitAt = verdicts[Len(verdicts)].asserted
    BY <1>5 DEF PermitAt
  <2> QED
    BY <1>1, <1>2, <1>3, <2>1
<1> QED
  BY <1>4, <1>5

\* A trial keeps its permit until the next one begins.
LEMMA PermitStays ==
    ASSUME TypeInv, DateInv, TrialInv, [TrialsNext]_trialsVars, ~Permit,
           mainPc' # "permitting"
    PROVE  mainPc # "permitting" /\ PermitAt' = PermitAt
<1>1. CASE AssertStop
  <2>1. /\ mainPc = "tripping" /\ mainPc' = "waiting" /\ Assert(FALSE)
    BY <1>1, Zenon DEF AssertStop
  <2>2. verdicts' = Append(verdicts, current') /\ verdicts \in Seq(SafetySignal)
    BY <2>1, AssertIsAVerdict, StampsAreNumbers
  <2>3. Len(verdicts) \in Nat /\ Len(verdicts) >= 2
    BY <2>1, StampsAreNumbers DEF TrialInv
  <2>4. Len(verdicts') - 1 = Len(verdicts) /\ verdicts'[Len(verdicts)] = verdicts[Len(verdicts)]
    BY <2>2, <2>3
  <2> QED
    BY <2>1, <2>4 DEF PermitAt
<1>2. CASE ~AssertStop
  <2>1. /\ verdicts' = verdicts
        /\ mainPc' = mainPc \/ (mainPc = "settling" /\ mainPc' = "tripping")
    BY <1>2 DEF TrialsNext, StoreField, ReadField, ReadBefore, EndTrial, Link, Request,
          Control, Time, trialsVars, sourceVars, mainVars
  <2> QED
    BY <2>1 DEF PermitAt
<1> QED
  BY <1>1, <1>2

LEMMA NextTrialInv ==
    TypeInv /\ DateInv /\ ClockInv /\ TrialInv /\ [TrialsNext]_trialsVars => TrialInv'
<1> SUFFICES ASSUME TypeInv, DateInv, ClockInv, TrialInv, [TrialsNext]_trialsVars,
                    mainPc' # "permitting"
             PROVE  TrialInv'
  BY DEF TrialInv
<1>1. /\ now \in Nat /\ since \in 0 .. now /\ Uptime \in Nat
      /\ Len(verdicts) \in Nat /\ Len(verdicts) >= 1
      /\ Settle \in Nat /\ Settle >= 2
  <2>1. Settle \in Nat /\ Settle >= 2
    BY TrialsAssumption, HttpAssumption
  <2> QED
    BY <2>1, HttpAssumption, StampsAreNumbers DEF TypeInv, TrialsTypeOK, DateInv, InOrder
<1>2. CASE Permit
  <2>1. mainPc' = "settling" /\ Assert(TRUE)
    BY <1>2, Zenon DEF Permit
  <2>2. /\ verdicts' = Append(verdicts, current') /\ current'.asserted = now
        /\ now' = now /\ unstored' = Fields /\ verdicts \in Seq(SafetySignal)
    BY <2>1, AssertIsAVerdict, StampsAreNumbers
  <2>3. Len(verdicts') = Len(verdicts) + 1 /\ verdicts'[Len(verdicts')] = current'
    BY <1>1, <2>2
  <2>4. PermitAt' = now
    BY <2>1, <2>2, <2>3 DEF PermitAt
  <2> QED
    BY <1>1, <2>1, <2>2, <2>3, <2>4 DEF TrialInv, ClockInv
<1> SUFFICES ASSUME ~Permit PROVE TrialInv'
  BY <1>2
<1>3. /\ mainPc # "permitting" /\ PermitAt' = PermitAt
      /\ PermitAt \in Nat /\ PermitAt <= now
      /\ Len(verdicts) >= 2 /\ PermitAt >= Uptime
      /\ mainPc = "settling" => unstored = Fields \/ since >= PermitAt
      /\ mainPc = "settling" /\ unstored # {} => now = PermitAt
      /\ mainPc \in {"tripping", "waiting"} => now >= PermitAt + 2
  <2>1. mainPc # "permitting" /\ PermitAt' = PermitAt
    BY PermitStays
  <2> QED
    BY <2>1, PermitIsPast DEF TrialInv
<1>4. ASSUME NEW f \in Fields, StoreField(f) PROVE TrialInv'
  <2>1. /\ UNCHANGED <<now, verdicts, mainPc>> /\ unstored # {} /\ since' = now
    BY <1>4 DEF StoreField, vars, mainVars
  <2> QED
    BY <1>1, <1>3, <2>1 DEF TrialInv
<1>5. CASE ReadBefore
  <2>1. /\ UNCHANGED <<now, verdicts>> /\ mainPc = "settling" /\ mainPc' = "tripping"
        /\ unstored = {} /\ now >= since + Settle
    BY <1>5 DEF ReadBefore, vars, sourceVars
  <2>2. since >= PermitAt
    BY <1>3, <2>1 DEF Fields
  <2> QED
    BY <1>1, <1>3, <2>1, <2>2 DEF TrialInv
<1>6. CASE AssertStop
  <2>1. mainPc = "tripping" /\ mainPc' = "waiting" /\ Assert(FALSE)
    BY <1>6, Zenon DEF AssertStop
  <2>2. verdicts' = Append(verdicts, current') /\ now' = now /\ verdicts \in Seq(SafetySignal)
    BY <2>1, AssertIsAVerdict, StampsAreNumbers
  <2>3. Len(verdicts') >= 2
    BY <1>1, <1>3, <2>2
  <2> QED
    BY <1>3, <2>1, <2>2, <2>3 DEF TrialInv
<1>7. CASE Time
  <2>1. /\ now' = now + 1 /\ unstored = {} /\ UNCHANGED <<unstored, since, verdicts, mainPc>>
    BY <1>7 DEF Time, Tick, sourceVars, mainVars
  <2> QED
    BY <1>1, <1>3, <2>1 DEF TrialInv, Fields
<1>8. CASE \/ \E f \in Fields : ReadField(f)
           \/ Link \/ Control \/ UNCHANGED trialsVars
  <2>1. UNCHANGED <<now, unstored, since, verdicts, mainPc>>
    BY <1>8, ControlAlone
       DEF ReadField, Link, Request, Fetch, Receive, Received, FetchFails, StoreBegin,
           StoreEnd, StampSuccess, trialsVars, vars, sourceVars, mainVars
  <2> QED
    BY <1>3, <2>1 DEF TrialInv
<1>9. ~EndTrial
  BY DEF EndTrial
<1> QED
  BY <1>4, <1>5, <1>6, <1>7, <1>8, <1>9 DEF TrialsNext

\* Once the permit is stored, what the source shows is dated no earlier.
LEMMA WhatIsStoredIsNotOld ==
    ASSUME TypeInv, DateInv, TrialInv, mainPc # "permitting", now > PermitAt
    PROVE  http.asserted >= PermitAt
<1>1. mainPc = "settling" => unstored = {}
  BY PermitIsPast DEF TrialInv, TypeInv, TrialsTypeOK, TypeOK
<1>2. /\ Len(verdicts) \in Nat /\ Len(verdicts) >= 2
      /\ \A i \in 1 .. Len(verdicts) : verdicts[i].asserted \in Nat
      /\ http.sequence \in Nat /\ http.asserted \in Nat /\ current.sequence = Len(verdicts)
      /\ http.sequence \in 1 .. Len(verdicts)
      /\ http.asserted >= verdicts[http.sequence].asserted
  BY StampsAreNumbers DEF TrialInv, DateInv, InOrder, PublishInv, Dated
<1>3. /\ Len(verdicts) \in 1 .. Len(verdicts)
      /\ Len(verdicts) - 1 \in 1 .. Len(verdicts)
  BY <1>2
<1>4. CASE mainPc = "waiting"
  <2>1. PermitAt = verdicts[Len(verdicts) - 1].asserted
    BY <1>4 DEF PermitAt
  <2>2. http.sequence >= Len(verdicts) - 1 /\ http.sequence \in 1 .. Len(verdicts)
    BY <1>2 DEF DateInv, PublishInv
  <2>3. verdicts[Len(verdicts) - 1].asserted <= verdicts[http.sequence].asserted
    BY <1>2, <1>3, <2>2 DEF DateInv, InOrder
  <2>4. PermitAt <= verdicts[http.sequence].asserted
    BY <2>1, <2>3
  <2>5. PermitAt \in Nat /\ verdicts[http.sequence].asserted \in Nat
    BY <1>2, <2>2, PermitIsPast
  <2> QED
    BY <1>2, <2>4, <2>5
<1>5. CASE mainPc # "waiting"
  <2>1. PermitAt = verdicts[Len(verdicts)].asserted
    BY <1>5 DEF PermitAt
  <2>2. unstored = {}
    BY <1>1, <1>5 DEF DateInv, PublishInv, TypeInv, TrialsTypeOK
  <2>3. http.sequence = Len(verdicts)
    BY <1>2, <2>2 DEF DateInv, PublishInv
  <2> QED
    BY <1>2, <2>1, <2>3
<1> QED
  BY <1>4, <1>5

\* A step either leaves the measurement alone or measures a stop the view shows.
LEMMA StepMeasures ==
    ASSUME CellTypeOK, NEW view, NEW at, Step(view, at)
    PROVE  /\ \/ /\ UNCHANGED <<lastStopReaction, hasStopMeasurement>>
                 /\ phase' = Held => UNCHANGED lastSequence
              \/ /\ view.valid /\ ~view.permitted /\ wasPermitted
                 /\ phase' = Held /\ lastSequence' # lastSequence
           /\ view.permitted \/ ~wasPermitted'
           /\ view.valid \/ ~wasPermitted'
           /\ wasPermitted' => Moving'
<1>1. CASE HoldWithoutInformation(view) \/ HoldOnStaleInformation(view, at)
  BY <1>1 DEF HoldWithoutInformation, HoldOnStaleInformation, EnterHold, measurement
<1>2. CASE HoldOnStop(view, at)
  <2>1. /\ view.valid /\ ~view.permitted /\ phase' = Held /\ wasPermitted' = FALSE
        /\ MeasureStop(view)
    BY <1>2 DEF HoldOnStop, EnterHold
  <2>2. CASE IsFreshStop(view)
    BY <2>1, <2>2 DEF MeasureStop, IsFreshStop
  <2>3. CASE ~IsFreshStop(view)
    BY <2>1, <2>3 DEF MeasureStop, measurement
  <2> QED
    BY <2>1, <2>2, <2>3
<1>3. CASE RunOnPermit(view, at)
  <2>1. /\ view.valid /\ view.permitted /\ wasPermitted' = TRUE
        /\ UNCHANGED <<lastStopReaction, hasStopMeasurement>>
    BY <1>3 DEF RunOnPermit
  <2>2. phase' \in CyclePhases
    BY <2>1, StepPhases
  <2>3. phase' # Held /\ Moving'
    BY <2>2 DEF CyclePhases, Held, Moving
  <2> QED
    BY <2>1, <2>3
<1> QED
  BY <1>1, <1>2, <1>3 DEF Step

\* What a step of the control thread makes of what it has loaded or remembers.
LEMMA ControlSteps ==
    ASSUME TypeInv, Control
    PROVE  \/ /\ readerPc' = "sampled" /\ readerPc = "asleep" /\ sampledAt' = now
              /\ now > sampledAt
              /\ UNCHANGED <<wasPermitted, lastGood, phase, lastStopReaction,
                             hasStopMeasurement, lastSequence, measuredOf>>
           \/ /\ readerPc = "sampled" /\ readerPc' = "loaded" /\ pollerPc # "storing"
              /\ loaded' = latest /\ sampledAt' = sampledAt
              /\ UNCHANGED <<wasPermitted, lastGood, phase, lastStopReaction,
                             hasStopMeasurement, lastSequence, measuredOf>>
           \/ /\ readerPc = "sampled" /\ readerPc' = "asleep" /\ sampledAt' = sampledAt
              /\ Step(NoView, sampledAt) /\ lastGood' = lastGood
           \/ /\ readerPc = "sampled" /\ readerPc' = "asleep" /\ sampledAt' = sampledAt
              /\ pollerPc = "storing"
              /\ Step(lastGood, sampledAt) /\ lastGood' = lastGood
           \/ /\ readerPc = "loaded" /\ readerPc' = "asleep" /\ sampledAt' = sampledAt
              /\ Step(LoadedView, sampledAt) /\ lastGood' = LoadedView
<1>1. CASE Sample \/ TryLoad
  <2>1. /\ UNCHANGED <<wasPermitted, lastGood, phase, lastStopReaction,
                       hasStopMeasurement, lastSequence>>
    BY <1>1 DEF Sample, TryLoad, cellVars, measurement
  <2>2. measuredOf' = measuredOf
    BY <2>1 DEF Control
  <2> QED
    BY <1>1, <2>1, <2>2 DEF Sample, TryLoad
<1>2. CASE StepUninformed
  BY <1>2 DEF StepUninformed, StepOn
<1>3. CASE StepOnLastGood
  BY <1>3 DEF StepOnLastGood, StepOn
<1>4. CASE StepOnLoaded
  BY <1>4 DEF StepOnLoaded, StepOn, Remember
<1> QED
  BY <1>1, <1>2, <1>3, <1>4 DEF Control, Reader

LEMMA NextEdgeInv == TypeInv /\ EdgeInv /\ [TrialsNext]_trialsVars => EdgeInv'
<1> SUFFICES ASSUME TypeInv, EdgeInv, [TrialsNext]_trialsVars PROVE EdgeInv'
  OBVIOUS
<1>1. CellTypeOK
  BY DEF TypeInv, TrialsTypeOK, TypeOK
<1>2. CASE ~Control
  BY <1>2, OnlyControlStepsTheCell DEF EdgeInv, Moving
<1>3. CASE Control
  <2>1. CASE UNCHANGED <<wasPermitted, lastGood, phase>>
    BY <2>1 DEF EdgeInv, Moving
  <2>2. ASSUME NEW view, Step(view, sampledAt),
               view = NoView \/ lastGood' = view
        PROVE  EdgeInv'
    <3>1. /\ view.permitted \/ ~wasPermitted'
          /\ wasPermitted' => Moving'
      BY <1>1, <2>2, StepMeasures
    <3>2. ~NoView.permitted
      BY DEF NoView
    <3> QED
      BY <2>2, <3>1, <3>2 DEF EdgeInv
  <2> QED
    BY <1>3, <2>1, <2>2, ControlSteps
<1> QED
  BY <1>2, <1>3

LEMMA NextMeasuredInv ==
    ASSUME TypeInv, DateInv, SampleInv, [TrialsNext]_trialsVars
    PROVE  MeasuredInv'
<1> SUFFICES ASSUME mainPc' \in {"tripping", "waiting"}, Measured'
             PROVE  measuredOf' >= PermitAt'
  BY DEF MeasuredInv
<1>1. /\ CellTypeOK /\ now \in Nat /\ sampledAt \in 0 .. now /\ loaded \in SafetySignal
  BY DEF TypeInv, TrialsTypeOK, TypeOK
<1>2. ~Permit
  <2> SUFFICES ASSUME Permit PROVE FALSE
    OBVIOUS
  <2>1. mainPc' = "settling"
    BY Zenon DEF Permit
  <2> QED
    BY <2>1
<1>3. /\ mainPc # "permitting" /\ PermitAt' = PermitAt
      /\ PermitAt \in Nat /\ loaded.asserted \in Nat
  BY <1>1, <1>2, PermitStays, PermitIsPast, SignalFields DEF SampleInv, Instant
<1>4. CASE ~Control
  <2>1. UNCHANGED <<lastStopReaction, hasStopMeasurement, measuredOf>>
    BY <1>4, OnlyControlStepsTheCell
  <2>2. mainPc \in {"tripping", "waiting"} /\ before' = before
    <3>1. ~ReadBefore
      BY <2>1 DEF ReadBefore, Measured
    <3> QED
      BY <1>2, <1>4, <3>1
         DEF TrialsNext, StoreField, ReadField, AssertStop, EndTrial, Link, Time,
             trialsVars, mainVars
  <2> QED
    BY <1>3, <2>1, <2>2 DEF SampleInv, MeasuredInv, Measured
<1>5. CASE Control
  <2>1. /\ mainPc \in {"tripping", "waiting"} /\ before' = before
        /\ now >= PermitAt + 2
    BY <1>3, <1>5, ControlAlone DEF SampleInv, TrialInv
  <2>2. CASE /\ UNCHANGED <<lastStopReaction, hasStopMeasurement>>
             /\ measuredOf' = measuredOf
    BY <1>3, <2>1, <2>2 DEF SampleInv, MeasuredInv, Measured
  <2>3. ASSUME NEW view, Step(view, sampledAt),
               \/ view = NoView
               \/ view = lastGood
               \/ view = LoadedView /\ readerPc = "loaded"
        PROVE  measuredOf' >= PermitAt
    <3>1. CASE /\ UNCHANGED <<lastStopReaction, hasStopMeasurement>>
               /\ phase' = Held => UNCHANGED lastSequence
      <4>1. \/ measuredOf' = measuredOf
            \/ phase' = Held /\ lastSequence' # lastSequence
        BY <1>5 DEF Control
      <4>2. measuredOf' = measuredOf
        BY <3>1, <4>1
      <4> QED
        BY <1>3, <2>2, <3>1, <4>2
    <3>2. CASE /\ view.valid /\ ~view.permitted /\ wasPermitted
               /\ phase' = Held /\ lastSequence' # lastSequence
      <4>1. lastGood.permitted /\ Moving
        BY <3>2 DEF SampleInv, EdgeInv
      <4>2. view = LoadedView /\ readerPc = "loaded"
        BY <2>3, <3>2, <4>1 DEF NoView
      <4>3. measuredOf' = loaded.asserted
        BY <1>5, <3>2, <4>1 DEF Control
      <4>4. ~loaded.permitted
        BY <3>2, <4>2 DEF LoadedView, ViewOf
      <4>5. sampledAt = now
        BY <1>1, <4>2 DEF SampleInv, ClockInv
      <4>6. now > PermitAt /\ sampledAt > PermitAt + 1
        BY <1>1, <1>3, <2>1, <4>5
      <4>7. ~Old(loaded)
        BY <1>3, <3>2, <4>2, <4>6 DEF SampleInv, OldStopInv
      <4> QED
        BY <1>3, <4>3, <4>4, <4>7 DEF Old
    <3> QED
      BY <1>1, <2>3, <3>1, <3>2, StepMeasures
  <2> QED
    BY <1>3, <1>5, <2>2, <2>3, ControlSteps
<1> QED
  BY <1>4, <1>5

LEMMA NextOldStopInv ==
    ASSUME TypeInv, DateInv, SampleInv, [TrialsNext]_trialsVars
    PROVE  OldStopInv'
<1> SUFFICES ASSUME mainPc' # "permitting", now' > PermitAt' PROVE OldStopInv'
  BY DEF OldStopInv
<1>1. /\ CellTypeOK /\ now \in Nat /\ sampledAt \in 0 .. now /\ reply \in SafetySignal
      /\ format = "stamped" /\ Uptime \in Nat
      /\ ClockInv /\ TrialInv /\ OldStopInv
  BY HttpAssumption DEF TypeInv, TrialsTypeOK, TypeOK, SampleInv
<1>2. ~Permit
  <2> SUFFICES ASSUME Permit PROVE FALSE
    OBVIOUS
  <2>1. mainPc' = "settling" /\ Assert(TRUE)
    BY DEF Permit
  <2>2. /\ verdicts' = Append(verdicts, current') /\ current'.asserted = now
        /\ now' = now /\ verdicts \in Seq(SafetySignal)
    BY <2>1, AssertIsAVerdict, StampsAreNumbers
  <2>3. verdicts'[Len(verdicts')] = current'
    BY <2>2
  <2> QED
    BY <1>1, <2>1, <2>2, <2>3 DEF PermitAt
<1>3. /\ mainPc # "permitting" /\ PermitAt' = PermitAt
      /\ PermitAt \in Nat /\ PermitAt <= now /\ PermitAt >= Uptime
  BY <1>1, <1>2, PermitStays, PermitIsPast DEF TrialInv
<1>4. \A s : Old(s)' <=> Old(s)
  BY <1>3 DEF Old
<1>5. CASE Time
  <2>1. /\ pollerPc' = "asleep" /\ readerPc' = "asleep" /\ readerPc = "asleep"
        /\ pollerPc = "asleep" /\ sampledAt = now
        /\ UNCHANGED <<sampledAt, latest, wasPermitted>>
    BY <1>5 DEF Time, Tick, pollerVars, readerVars, linkVars, cellVars
  <2>2. SteppedSince' => SteppedSince /\ now > PermitAt
    BY <1>1, <1>3, <2>1 DEF SteppedSince
  <2>3. Old(latest)' <=> Old(latest)
    BY <1>3, <2>1 DEF Old
  <2> QED
    BY <1>1, <1>3, <2>1, <2>2, <2>3 DEF OldStopInv, Answered
<1> SUFFICES ASSUME ~Time PROVE OldStopInv'
  BY <1>5
<1>6. /\ now' = now /\ now > PermitAt
      /\ \/ pollerPc = "sent" /\ "asserted" \notin unread
         \/ Answered
         => reply.asserted >= PermitAt
      /\ readerPc = "loaded" /\ Old(latest) => Old(loaded)
      /\ SteppedSince /\ Old(latest) /\ pollerPc # "storing" => ~wasPermitted
      /\ sampledAt > PermitAt + 1 /\ readerPc = "loaded" /\ Old(loaded) => ~wasPermitted
  <2>1. now' = now
    BY NowStays
  <2> QED
    BY <1>1, <1>3, <2>1 DEF OldStopInv
<1>7. CASE Control
  <2>1. /\ UNCHANGED <<now, latest, pollerPc, reply, unread>>
    BY <1>7, ControlAlone
  <2>2. Old(latest)' <=> Old(latest)
    BY <1>3, <2>1 DEF Old
  <2>3. \/ pollerPc' = "sent" /\ "asserted" \notin unread'
        \/ Answered'
        => reply'.asserted >= PermitAt'
    BY <1>3, <1>6, <2>1 DEF Answered
  <2>4. CASE /\ readerPc' = "sampled" /\ readerPc = "asleep" /\ sampledAt' = now
             /\ now > sampledAt /\ wasPermitted' = wasPermitted
    <3>1. SteppedSince' => SteppedSince
      BY <1>1, <1>3, <2>4 DEF SteppedSince, ClockInv
    <3> QED
      BY <1>6, <2>1, <2>2, <2>3, <2>4, <3>1 DEF OldStopInv
  <2>5. CASE /\ readerPc = "sampled" /\ readerPc' = "loaded" /\ pollerPc # "storing"
             /\ loaded' = latest /\ sampledAt' = sampledAt /\ wasPermitted' = wasPermitted
    <3>1. Old(loaded)' <=> Old(latest)
      BY <1>3, <2>5 DEF Old
    <3>2. SteppedSince' => SteppedSince
      BY <1>3, <2>5 DEF SteppedSince
    <3>3. sampledAt' > PermitAt' + 1 => SteppedSince
      BY <1>3, <2>5 DEF SteppedSince
    <3> QED
      BY <1>6, <2>1, <2>2, <2>3, <2>5, <3>1, <3>2, <3>3 DEF OldStopInv
  <2>6. CASE readerPc' = "asleep" /\ pollerPc = "storing"
    BY <2>1, <2>3, <2>6 DEF OldStopInv
  <2>7. CASE readerPc' = "asleep" /\ Step(NoView, sampledAt)
    <3>1. ~wasPermitted'
      <4>1. ~NoView.permitted
        BY DEF NoView
      <4> QED
        BY <1>1, <2>7, <4>1, StepMeasures
    <3> QED
      BY <2>3, <2>7, <3>1 DEF OldStopInv
  <2>8. CASE readerPc = "loaded" /\ readerPc' = "asleep" /\ Step(LoadedView, sampledAt)
    <3>1. Old(latest) => ~wasPermitted'
      <4> SUFFICES ASSUME Old(latest) PROVE ~wasPermitted'
        OBVIOUS
      <4>1. ~LoadedView.permitted
        BY <1>6, <2>8 DEF Old, LoadedView, ViewOf
      <4> QED
        BY <1>1, <2>8, <4>1, StepMeasures
    <3> QED
      BY <2>2, <2>3, <2>8, <3>1 DEF OldStopInv
  <2> QED
    BY <1>7, <2>4, <2>5, <2>6, <2>7, <2>8, ControlSteps
<1> SUFFICES ASSUME ~Control PROVE OldStopInv'
  BY <1>7
<1>8. /\ UNCHANGED <<readerPc, sampledAt, loaded, wasPermitted>>
      /\ SteppedSince' <=> SteppedSince
      /\ Old(loaded)' <=> Old(loaded)
  <2>1. UNCHANGED <<readerPc, sampledAt, loaded, wasPermitted>>
    BY OnlyControlStepsTheCell
  <2> QED
    BY <1>3, <2>1 DEF SteppedSince, Old
<1>9. ASSUME NEW f \in Fields, ReadField(f) PROVE OldStopInv'
  <2>1. /\ pollerPc = "sent" /\ reply' = [reply EXCEPT ![f] = http[f]]
        /\ unread' = unread \ {f} /\ f \in unread /\ latest' = latest
        /\ pollerPc' = IF unread' = {} THEN "answered" ELSE "sent"
    BY <1>9 DEF ReadField, linkVars
  <2>2. http.asserted >= PermitAt
    BY <1>1, <1>3, <1>6, WhatIsStoredIsNotOld
  <2>3. "asserted" \notin unread' => reply'.asserted >= PermitAt'
    <3>1. CASE f = "asserted"
      BY <1>1, <1>3, <2>1, <2>2, <3>1 DEF SafetySignal
    <3>2. CASE f # "asserted"
      BY <1>1, <1>3, <1>6, <2>1, <3>2 DEF SafetySignal
    <3> QED
      BY <3>1, <3>2
  <2>4. Answered' => "asserted" \notin unread'
    BY <2>1 DEF Answered
  <2>5. Old(latest)' <=> Old(latest)
    BY <1>3, <2>1 DEF Old
  <2> QED
    BY <1>3, <1>6, <1>8, <2>1, <2>3, <2>4, <2>5 DEF OldStopInv
<1>10. CASE StoreEnd /\ UNCHANGED unread
  <2>1. /\ pollerPc = "storing" /\ pollerPc' = "stored" /\ latest' = reply
        /\ reply' = reply
    BY <1>10 DEF StoreEnd
  <2>2. reply.asserted >= PermitAt
    BY <1>6, <2>1 DEF Answered
  <2>3. ~Old(latest)'
    <3>1. reply.asserted \in Nat
      BY <1>1, SignalFields DEF Instant
    <3> QED
      BY <1>3, <2>1, <2>2, <3>1 DEF Old
  <2> QED
    BY <1>3, <1>6, <1>8, <2>1, <2>2, <2>3 DEF OldStopInv
<1>11. CASE Request \/ FetchFails \/ StampSuccess
  <2>1. /\ latest' = latest /\ pollerPc # "storing"
        /\ \/ pollerPc' = "sent" /\ unread' = Fields
           \/ pollerPc' = "asleep"
    BY <1>11 DEF Request, Fetch, FetchFails, StampSuccess, linkVars
  <2>2. Old(latest)' <=> Old(latest)
    BY <1>3, <2>1 DEF Old
  <2> QED
    BY <1>3, <1>6, <1>8, <2>1, <2>2 DEF OldStopInv, Answered, Fields
<1>12. CASE Receive \/ StoreBegin
  <2>1. /\ latest' = latest /\ Answered /\ reply' = reply
        /\ pollerPc # "storing" /\ pollerPc' # "sent"
    BY <1>1, <1>12 DEF Receive, Received, StoreBegin, Answered, linkVars
  <2>2. Old(latest)' <=> Old(latest)
    BY <1>3, <2>1 DEF Old
  <2> QED
    BY <1>3, <1>6, <1>8, <2>1, <2>2 DEF OldStopInv
<1>13. CASE \/ ReadBefore \/ AssertStop \/ UNCHANGED trialsVars
            \/ \E f \in Fields : StoreField(f)
  <2>1. UNCHANGED <<latest, pollerPc, reply, unread>>
    BY <1>13 DEF ReadBefore, AssertStop, Assert, StoreField, trialsVars, vars, linkVars,
                 pollerVars
  <2>2. Old(latest)' <=> Old(latest)
    BY <1>3, <2>1 DEF Old
  <2> QED
    BY <1>3, <1>6, <1>8, <2>1, <2>2 DEF OldStopInv, Answered
<1>14. ~EndTrial
  BY DEF EndTrial
<1> QED
  BY <1>2, <1>9, <1>10, <1>11, <1>12, <1>13, <1>14 DEF TrialsNext, Link

LEMMA NextSampleInv ==
    ASSUME TypeInv, DateInv, SampleInv, [TrialsNext]_trialsVars
    PROVE  SampleInv'
BY NextClockInv, NextTrialInv, NextOldStopInv, NextEdgeInv, NextMeasuredInv DEF SampleInv

\* Whatever fetches fail and however the threads interleave within a tick, a sample
\* measure() takes is a reaction of its own trial, for every settling time longer
\* than the tick a stop may still be on its way (reaction_benchmark.cpp:178-204).
THEOREM SamplesAreOfTheirTrial == TrialsSpec => []SampleIsOfThisTrial
<1>1. TypeInv /\ DateInv /\ SampleInv => SampleIsOfThisTrial
  <2> SUFFICES ASSUME TypeInv, DateInv, SampleInv, mainPc = "waiting", Measured
               PROVE  measuredOf >= verdicts[current.sequence - 1].asserted
    BY DEF SampleIsOfThisTrial
  <2>1. PermitAt = verdicts[current.sequence - 1].asserted
    BY DEF PermitAt, DateInv, InOrder
  <2> QED
    BY <2>1 DEF SampleInv, MeasuredInv
<1> QED
  BY <1>1, TypeInvHolds, InitDateInv, NextDateInv, InitSampleInv, NextSampleInv, PTL
     DEF TrialsSpec
=============================================================================
