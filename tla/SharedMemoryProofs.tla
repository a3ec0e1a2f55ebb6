------------------------- MODULE SharedMemoryProofs -------------------------
(***************************************************************************)
(* Theorems about the cell on the shared-memory link, for every number of  *)
(* writers, verdicts and ticks, every staleness budget and every geometry. *)
(***************************************************************************)
EXTENDS SharedMemoryCell, CellLemmas

-----------------------------------------------------------------------------
(* Type correctness.  A running thread belongs to a running writer, and a    *)
(* running writer has a region: without that a heartbeat could load from the *)
(* region that does not exist.                                               *)

WriterHasARegion ==
    /\ \A t \in Threads : pc[t] # "off" => up
    /\ up => live \in Regions

LEMMA SignalsAreSignals ==
    /\ ZeroSignal \in SafetySignal
    /\ DefaultSignal \in SafetySignal
    /\ NoView \in SafetyView
BY DEF ZeroSignal, DefaultSignal, NoView, SafetySignal, SafetyView, Instant

LEMMA SignalFields ==
    ASSUME NEW s \in SafetySignal
    PROVE  /\ s.sequence \in Nat /\ s.asserted \in Nat /\ s.published \in Nat
           /\ s.permitted \in BOOLEAN
BY DEF SafetySignal, Instant

LEMMA ExceptKeepsType ==
    ASSUME NEW D, NEW S, NEW f \in [D -> S], NEW d, NEW s \in S
    PROVE  [f EXCEPT ![d] = s] \in [D -> S]
OBVIOUS

\* Whatever the writer is doing, the poll returns a view.
LEMMA PollIsAView ==
    ASSUME TypeOK
    PROVE  /\ Poll \in SafetyView
           /\ Remember(Poll) => lastGood' \in SafetyView
<1>1. CASE mapped = 0
  BY <1>1, SignalsAreSignals DEF Poll, TypeOK, Remember, ReadSucceeds
<1>2. CASE mapped # 0 /\ mapped \in storing
  BY <1>2 DEF Poll, TypeOK, Remember, ReadSucceeds
<1>3. CASE mapped # 0 /\ mapped \notin storing
  <2>1. mapped \in Regions
    BY <1>3, SharedMemoryAssumption DEF TypeOK, Regions
  <2>2. slot[mapped] \in SafetySignal /\ now \in Nat
    BY <2>1 DEF TypeOK
  <2>3. ViewOf(slot[mapped], now, slot[mapped].published) \in SafetyView
    BY <2>2, SignalFields DEF ViewOf, SafetyView, Instant
  <2> QED
    BY <1>3, <2>3 DEF Poll, Remember, ReadSucceeds
<1> QED
  BY <1>1, <1>2, <1>3

\* The cell's own state is touched only by StepCell.
LEMMA CellUnchanged ==
    ASSUME CellTypeOK, UNCHANGED cellVars
    PROVE  CellTypeOK'
BY DEF CellTypeOK, cellVars, motion, measurement

TypeInv == TypeOK /\ WriterHasARegion

LEMMA InitTypeInv == Init => TypeInv
<1> SUFFICES ASSUME Init PROVE TypeInv
  OBVIOUS
<1>1. CellTypeOK
  BY CellInitTypeOK DEF Init
<1>2. /\ slot \in [Regions -> SafetySignal]
      /\ reg \in [Threads -> SafetySignal]
      /\ current \in SafetySignal
      /\ lastGood \in SafetyView
  BY SignalsAreSignals DEF Init
<1>3. /\ pc \in [Threads -> {"off", "idle", "stamp", "begin", "end"}]
      /\ lapsedAt \in [Regions -> 0 .. now]
      /\ diedAt \in [Regions -> 0 .. now]
      /\ live \in 0 .. MaxRegions /\ mapped \in 0 .. live
      /\ now \in Nat /\ sampledAt \in 0 .. now /\ movedAt \in 0 .. sampledAt
      /\ readAt \in 0 .. now
      /\ up = FALSE /\ storing \in SUBSET Regions
      /\ readerPc = "closed"
      /\ \A t \in Threads : pc[t] = "off"
  BY SharedMemoryAssumption DEF Init
<1>4. late \in BOOLEAN
  BY DEF Init
<1> QED
  BY <1>1, <1>2, <1>3, <1>4 DEF TypeInv, TypeOK, WriterHasARegion

LEMMA NextTypeInv == TypeInv /\ [Next]_vars => TypeInv'
<1> SUFFICES ASSUME TypeInv, [Next]_vars PROVE TypeInv'
  OBVIOUS
<1> USE DEF TypeInv
<1>1. CASE Tick
  <2>1. CellTypeOK'
    BY <1>1, CellUnchanged DEF Tick, readerVars, TypeOK
  <2> QED
    BY <1>1, <2>1 DEF Tick, TypeOK, WriterHasARegion, writerVars, readerVars
<1>2. CASE Create
  <2>1. CellTypeOK'
    BY <1>2, CellUnchanged DEF Create, readerVars, TypeOK
  <2>2. live' \in Regions /\ live' \in 0 .. MaxRegions /\ mapped' \in 0 .. live'
    BY <1>2, SharedMemoryAssumption DEF Create, readerVars, TypeOK, Regions
  <2>3. current' \in SafetySignal /\ reg' \in [Threads -> SafetySignal]
    BY <1>2, SignalsAreSignals DEF Create
  <2>4. pc' \in [Threads -> {"off", "idle", "stamp", "begin", "end"}]
    BY <1>2 DEF Create
  <2> QED
    BY <1>2, <2>1, <2>2, <2>3, <2>4
       DEF Create, TypeOK, WriterHasARegion, readerVars
<1>3. ASSUME NEW permitted \in BOOLEAN, Decide(permitted) PROVE TypeInv'
  <2>1. CellTypeOK'
    BY <1>3, CellUnchanged DEF Decide, readerVars, TypeOK
  <2>2. current' \in SafetySignal
    BY <1>3, SignalFields DEF Decide, NewSequence, TypeOK, SafetySignal, Instant
  <2>3. reg' \in [Threads -> SafetySignal]
    BY <1>3, <2>2 DEF Decide, Publish, TypeOK
  <2>4. pc' \in [Threads -> {"off", "idle", "stamp", "begin", "end"}]
    BY <1>3 DEF Decide, Publish, TypeOK
  <2>5. lapsedAt' \in [Regions -> 0 .. now]
    <3>1. now \in 0 .. now /\ lapsedAt \in [Regions -> 0 .. now]
      BY DEF TypeOK
    <3> QED
      BY <1>3, <3>1, ExceptKeepsType DEF Decide
  <2>6. up'
    BY <1>3 DEF Decide, WriterHasARegion, Threads
  <2> QED
    BY <1>3, <2>1, <2>2, <2>3, <2>4, <2>5, <2>6
       DEF Decide, TypeOK, WriterHasARegion, readerVars
<1>4. CASE Heartbeat
  <2>1. CellTypeOK'
    BY <1>4, CellUnchanged DEF Heartbeat, readerVars, TypeOK
  <2>2. up /\ live \in Regions
    BY <1>4 DEF Heartbeat, WriterHasARegion, Threads
  <2>3. reg' \in [Threads -> SafetySignal]
    BY <1>4, <2>2 DEF Heartbeat, TypeOK
  <2>4. pc' \in [Threads -> {"off", "idle", "stamp", "begin", "end"}]
    BY <1>4 DEF Heartbeat, TypeOK
  <2> QED
    BY <1>4, <2>1, <2>2, <2>3, <2>4
       DEF Heartbeat, TypeOK, WriterHasARegion, readerVars
<1>5. ASSUME NEW t \in Threads, Stamp(t) PROVE TypeInv'
  <2>1. CellTypeOK'
    BY <1>5, CellUnchanged DEF Stamp, readerVars, TypeOK
  <2>2. [reg[t] EXCEPT !.published = now] \in SafetySignal
    BY DEF TypeOK, SafetySignal, Instant
  <2>3. reg' \in [Threads -> SafetySignal]
    BY <1>5, <2>2 DEF Stamp, TypeOK
  <2>4. pc' \in [Threads -> {"off", "idle", "stamp", "begin", "end"}]
    BY <1>5 DEF Stamp, TypeOK
  <2>5. up
    BY <1>5 DEF Stamp, WriterHasARegion
  <2> QED
    BY <1>5, <2>1, <2>3, <2>4, <2>5
       DEF Stamp, TypeOK, WriterHasARegion, readerVars
<1>6. ASSUME NEW t \in Threads, StoreBegin(t) PROVE TypeInv'
  <2>1. CellTypeOK'
    BY <1>6, CellUnchanged DEF StoreBegin, readerVars, TypeOK
  <2>2. pc' \in [Threads -> {"off", "idle", "stamp", "begin", "end"}]
    BY <1>6 DEF StoreBegin, TypeOK
  <2>3. up /\ live \in Regions
    BY <1>6 DEF StoreBegin, WriterHasARegion
  <2> QED
    BY <1>6, <2>1, <2>2, <2>3
       DEF StoreBegin, TypeOK, WriterHasARegion, readerVars
<1>7. ASSUME NEW t \in Threads, StoreEnd(t) PROVE TypeInv'
  <2>1. CellTypeOK'
    BY <1>7, CellUnchanged DEF StoreEnd, readerVars, TypeOK
  <2>2. pc' \in [Threads -> {"off", "idle", "stamp", "begin", "end"}]
    BY <1>7 DEF StoreEnd, TypeOK
  <2>3. slot' \in [Regions -> SafetySignal]
    BY <1>7 DEF StoreEnd, TypeOK
  <2>4. up
    BY <1>7 DEF StoreEnd, WriterHasARegion
  <2> QED
    BY <1>7, <2>1, <2>2, <2>3, <2>4
       DEF StoreEnd, TypeOK, WriterHasARegion, readerVars
<1>8. CASE Crash
  <2>1. CellTypeOK'
    BY <1>8, CellUnchanged DEF Crash, readerVars, TypeOK
  <2>2. /\ lapsedAt' \in [Regions -> 0 .. now]
        /\ diedAt' \in [Regions -> 0 .. now]
    <3>1. /\ now \in 0 .. now
          /\ lapsedAt \in [Regions -> 0 .. now]
          /\ diedAt \in [Regions -> 0 .. now]
      BY DEF TypeOK
    <3> QED
      BY <1>8, <3>1, ExceptKeepsType DEF Crash
  <2> QED
    BY <1>8, <2>1, <2>2 DEF Crash, TypeOK, WriterHasARegion, readerVars
<1>9. CASE OpenExisting
  <2>1. CellTypeOK'
    BY <1>9, CellUnchanged DEF OpenExisting, TypeOK
  <2> QED
    BY <1>9, <2>1 DEF OpenExisting, TypeOK, WriterHasARegion, writerVars
<1>10. CASE Sample
  <2>1. CellTypeOK'
    BY <1>10, CellUnchanged DEF Sample, TypeOK
  <2> QED
    BY <1>10, <2>1 DEF Sample, TypeOK, WriterHasARegion, writerVars
<1>11. CASE StepCell
  <2>1. Poll \in SafetyView /\ lastGood' \in SafetyView
    BY <1>11, PollIsAView DEF StepCell
  <2>2. sampledAt \in Nat
    BY DEF TypeOK
  <2>3. CellTypeOK'
    BY <1>11, <2>1, <2>2, StepTypeOK DEF StepCell, TypeOK
  <2>4. movedAt' \in 0 .. sampledAt /\ readAt' \in 0 .. now
    BY <1>11 DEF StepCell, TypeOK
  <2> QED
    BY <1>11, <2>1, <2>3, <2>4 DEF StepCell, TypeOK, WriterHasARegion, writerVars
<1>12. CASE UNCHANGED vars
  <2>1. CellTypeOK'
    BY <1>12, CellUnchanged DEF vars, readerVars, TypeOK
  <2> QED
    BY <1>12, <2>1 DEF vars, TypeOK, WriterHasARegion, writerVars, readerVars
<1> QED
  BY <1>1, <1>2, <1>3, <1>4, <1>5, <1>6, <1>7, <1>8, <1>9, <1>10, <1>11, <1>12
     DEF Next, Writer, Reader

LEMMA TypeInvHolds == Spec => []TypeInv
BY InitTypeInv, NextTypeInv, PTL DEF Spec

\* Every state of writer, region, reader and cell is well-formed: in particular
\* no instant the cell acted on lies in the future of the clock.
THEOREM SharedMemoryTypeCorrect == Spec => []TypeOK
<1>1. TypeInv => TypeOK
  BY DEF TypeInv
<1> QED
  BY <1>1, TypeInvHolds, PTL

-----------------------------------------------------------------------------
(* The lease on the writer being alive.  Nothing the reader can get hold of  *)
(* carries a publish stamp later than the last instant its writer ran, and   *)
(* that instant never moves back, whichever region a new writer creates.     *)

\* The latest instant at which the writer of region r was running.
RegionLastUp(r) == IF up /\ r = live THEN now ELSE diedAt[r]

\* A reader that mapped nothing has seen nothing.
NothingMapped ==
    /\ readerPc = "closed" => mapped = 0
    /\ mapped = 0 => lastGood.published = 0 /\ movedAt = 0

StampsOfTheLiving ==
    /\ \A t \in Threads : reg[t].published <= now
    /\ \A r \in Regions : slot[r].published <= RegionLastUp(r)
    /\ mapped # 0 => lastGood.published <= RegionLastUp(mapped)

AliveInv ==
    /\ NothingMapped
    /\ StampsOfTheLiving
    /\ mapped # 0 => movedAt <= RegionLastUp(mapped) + MaxSafetyAge

LEMMA RegionOfTheReader ==
    ASSUME TypeInv
    PROVE  mapped # 0 => mapped \in Regions
BY SharedMemoryAssumption DEF TypeInv, TypeOK, Regions

\* The last instant a writer ran is not in the future, and never moves back.
LEMMA LastUpNeverMovesBack ==
    ASSUME TypeInv, [Next]_vars
    PROVE  /\ now <= now'
           /\ \A r \in Regions : /\ RegionLastUp(r) <= RegionLastUp(r)'
                                 /\ RegionLastUp(r)' \in Nat
                                 /\ RegionLastUp(r) \in 0 .. now
<1>1. now \in Nat /\ diedAt \in [Regions -> 0 .. now] /\ up \in BOOLEAN
  BY DEF TypeInv, TypeOK
<1>2. CASE Tick
  BY <1>1, <1>2 DEF Tick, writerVars, RegionLastUp
<1>3. CASE Create
  BY <1>1, <1>3 DEF Create, RegionLastUp
<1>4. CASE Crash
  BY <1>1, <1>4 DEF Crash, RegionLastUp
<1>5. CASE UNCHANGED <<now, up, live, diedAt>>
  BY <1>1, <1>5 DEF RegionLastUp
<1>6. \/ Tick \/ Create \/ Crash
      \/ UNCHANGED <<now, up, live, diedAt>>
  BY DEF Next, Writer, Reader, Decide, Heartbeat, Stamp, StoreBegin, StoreEnd,
         OpenExisting, Sample, StepCell, writerVars, vars
<1> QED
  BY <1>2, <1>3, <1>4, <1>5, <1>6

LEMMA InitAliveInv == Init => AliveInv
<1> SUFFICES ASSUME Init PROVE AliveInv
  OBVIOUS
<1>1. /\ ZeroSignal.published = 0 /\ NoView.published = 0
      /\ now \in Nat /\ mapped = 0 /\ movedAt = 0
      /\ \A t \in Threads : reg[t] = ZeroSignal
      /\ \A r \in Regions : slot[r] = ZeroSignal /\ diedAt[r] = 0
      /\ lastGood = NoView
  BY SharedMemoryAssumption DEF Init, ZeroSignal, NoView
<1> QED
  BY <1>1 DEF AliveInv, NothingMapped, StampsOfTheLiving, RegionLastUp

\* The pieces of AliveInv hold of values left alone, as time passes.
LEMMA AliveWhenUntouched ==
    ASSUME TypeInv, TypeInv', AliveInv, [Next]_vars
    PROVE  /\ UNCHANGED reg => \A t \in Threads : reg'[t].published <= now'
           /\ UNCHANGED slot =>
                \A r \in Regions : slot'[r].published <= RegionLastUp(r)'
           /\ UNCHANGED <<mapped, readerPc, lastGood, movedAt>> =>
                /\ NothingMapped'
                /\ mapped' # 0 => lastGood'.published <= RegionLastUp(mapped)'
                /\ mapped' # 0 => movedAt' <= RegionLastUp(mapped)' + MaxSafetyAge
<1>1. /\ \A t \in Threads : reg[t].published \in Nat
      /\ \A r \in Regions : slot[r].published \in Nat
      /\ lastGood.published \in Nat /\ movedAt \in Nat /\ now \in Nat /\ now' \in Nat
  BY SignalFields DEF TypeInv, TypeOK, SafetyView, Instant
<1>2. now <= now'
  BY LastUpNeverMovesBack
<1>3. \A r \in Regions : /\ RegionLastUp(r) <= RegionLastUp(r)'
                         /\ RegionLastUp(r)' \in Nat /\ RegionLastUp(r) \in Nat
  BY LastUpNeverMovesBack
<1>4. ASSUME UNCHANGED reg PROVE \A t \in Threads : reg'[t].published <= now'
  BY <1>1, <1>2, <1>4 DEF AliveInv, StampsOfTheLiving
<1>5. ASSUME UNCHANGED slot
      PROVE  \A r \in Regions : slot'[r].published <= RegionLastUp(r)'
  BY <1>1, <1>3, <1>5 DEF AliveInv, StampsOfTheLiving
<1>6. ASSUME UNCHANGED <<mapped, readerPc, lastGood, movedAt>>
      PROVE  /\ NothingMapped'
             /\ mapped' # 0 => lastGood'.published <= RegionLastUp(mapped)'
             /\ mapped' # 0 => movedAt' <= RegionLastUp(mapped)' + MaxSafetyAge
  <2>1. NothingMapped'
    BY <1>6 DEF AliveInv, NothingMapped
  <2>2. ASSUME mapped # 0
        PROVE  /\ lastGood'.published <= RegionLastUp(mapped)'
               /\ movedAt' <= RegionLastUp(mapped)' + MaxSafetyAge
    <3>1. mapped \in Regions /\ mapped' = mapped
      BY <1>6, <2>2, RegionOfTheReader
    <3>2. /\ RegionLastUp(mapped) <= RegionLastUp(mapped)'
          /\ RegionLastUp(mapped)' \in Nat /\ RegionLastUp(mapped) \in Nat
      <4>1. PICK r \in Regions : r = mapped
        BY <3>1
      <4>2. RegionLastUp(r)' = RegionLastUp(mapped)'
        BY <3>1, <4>1 DEF RegionLastUp
      <4>3. RegionLastUp(r) = RegionLastUp(mapped)
        BY <4>1
      <4> QED
        BY <1>3, <4>1, <4>2, <4>3
    <3> QED
      BY <1>1, <1>6, <2>2, <3>2, CellAssumption DEF AliveInv, StampsOfTheLiving
  <2> QED
    BY <1>6, <2>1, <2>2
<1> QED
  BY <1>4, <1>5, <1>6

LEMMA NextAliveInv == TypeInv /\ TypeInv' /\ AliveInv /\ [Next]_vars => AliveInv'
<1> SUFFICES ASSUME TypeInv, TypeInv', AliveInv, [Next]_vars
             PROVE  AliveInv'
  OBVIOUS
<1> DEFINE RegOK  == \A t \in Threads : reg'[t].published <= now'
           SlotOK == \A r \in Regions : slot'[r].published <= RegionLastUp(r)'
           ReadOK ==
             /\ NothingMapped'
             /\ mapped' # 0 => lastGood'.published <= RegionLastUp(mapped)'
             /\ mapped' # 0 => movedAt' <= RegionLastUp(mapped)' + MaxSafetyAge
<1>1. SUFFICES RegOK /\ SlotOK /\ ReadOK
  BY DEF AliveInv, StampsOfTheLiving
<1>2. /\ UNCHANGED reg => RegOK
      /\ UNCHANGED slot => SlotOK
      /\ UNCHANGED <<mapped, readerPc, lastGood, movedAt>> => ReadOK
  BY AliveWhenUntouched
<1> HIDE DEF ReadOK
<1>3. /\ now \in Nat /\ now' \in Nat /\ now <= now'
      /\ reg \in [Threads -> SafetySignal] /\ slot \in [Regions -> SafetySignal]
      /\ \A r \in Regions : RegionLastUp(r) \in 0 .. now
  BY LastUpNeverMovesBack DEF TypeInv, TypeOK
<1>4. CASE Tick
  BY <1>2, <1>4 DEF Tick, writerVars, readerVars
<1>5. CASE Create
  <2>1. RegOK
    BY <1>3, <1>5 DEF Create, DefaultSignal
  <2> QED
    BY <1>2, <1>5, <2>1 DEF Create, readerVars
<1>6. ASSUME NEW permitted \in BOOLEAN, Decide(permitted)
      PROVE  RegOK /\ SlotOK /\ ReadOK
  <2>1. current'.published = 0
    BY <1>6 DEF Decide
  <2>2. RegOK
    BY <1>3, <1>6, <2>1 DEF Decide, Publish, AliveInv, StampsOfTheLiving
  <2> QED
    BY <1>2, <1>6, <2>2 DEF Decide, readerVars
<1>7. CASE Heartbeat
  <2>1. live \in Regions
    BY <1>7 DEF Heartbeat, TypeInv, WriterHasARegion, Threads
  <2>2. slot[live].published \in Nat /\ slot[live].published <= now
    BY <1>3, <2>1, SignalFields DEF AliveInv, StampsOfTheLiving
  <2>3. RegOK
    BY <1>3, <1>7, <2>2 DEF Heartbeat, AliveInv, StampsOfTheLiving
  <2> QED
    BY <1>2, <1>7, <2>3 DEF Heartbeat, readerVars
<1>8. ASSUME NEW t \in Threads, Stamp(t)
      PROVE  RegOK /\ SlotOK /\ ReadOK
  <2>1. reg'[t].published = now
    BY <1>3, <1>8 DEF Stamp, SafetySignal
  <2>2. RegOK
    BY <1>3, <1>8, <2>1 DEF Stamp, AliveInv, StampsOfTheLiving
  <2> QED
    BY <1>2, <1>8, <2>2 DEF Stamp, readerVars
<1>9. ASSUME NEW t \in Threads, StoreBegin(t)
      PROVE  RegOK /\ SlotOK /\ ReadOK
  BY <1>2, <1>9 DEF StoreBegin, readerVars
<1>10. ASSUME NEW t \in Threads, StoreEnd(t)
       PROVE  RegOK /\ SlotOK /\ ReadOK
  <2>1. up /\ live \in Regions
    BY <1>10 DEF StoreEnd, TypeInv, WriterHasARegion
  <2>2. \A r \in Regions : RegionLastUp(r)' = RegionLastUp(r)
    BY <1>10 DEF StoreEnd, RegionLastUp
  <2>3. RegionLastUp(live)' = now
    BY <1>10, <2>1 DEF StoreEnd, RegionLastUp
  <2>4. slot'[live].published <= RegionLastUp(live)'
    BY <1>3, <1>10, <2>1, <2>3 DEF StoreEnd, AliveInv, StampsOfTheLiving
  <2>5. \A r \in Regions \ {live} : slot'[r] = slot[r]
    BY <1>3, <1>10 DEF StoreEnd
  <2>6. SlotOK
    <3>1. SUFFICES ASSUME NEW r \in Regions
                   PROVE  slot'[r].published <= RegionLastUp(r)'
      OBVIOUS
    <3>2. CASE r = live
      <4>1. RegionLastUp(r)' = now
        BY <1>10, <2>1, <3>2 DEF StoreEnd, RegionLastUp
      <4> QED
        BY <2>3, <2>4, <3>2, <4>1
    <3>3. CASE r # live
      <4>1. slot'[r] = slot[r] /\ RegionLastUp(r)' = RegionLastUp(r)
        BY <2>2, <2>5, <3>3
      <4> QED
        BY <4>1 DEF AliveInv, StampsOfTheLiving
    <3> QED
      BY <3>2, <3>3
  <2> QED
    BY <1>2, <1>10, <2>6 DEF StoreEnd, readerVars
<1>11. CASE Crash
  BY <1>2, <1>11 DEF Crash, readerVars
<1>12. CASE OpenExisting
  <2>1. /\ mapped = 0 /\ lastGood.published = 0 /\ movedAt = 0
    BY <1>12 DEF OpenExisting, AliveInv, NothingMapped
  <2>2. mapped' # 0 => RegionLastUp(mapped)' \in Nat
    <3>1. mapped' # 0 => mapped' \in Regions
      BY RegionOfTheReader, SharedMemoryAssumption DEF TypeInv, TypeOK, Regions
    <3>2. diedAt' \in [Regions -> 0 .. now']
      BY DEF TypeInv, TypeOK
    <3> QED
      BY <1>3, <3>1, <3>2 DEF RegionLastUp
  <2>3. /\ readerPc' = "asleep" /\ UNCHANGED <<lastGood, movedAt, reg, slot>>
    BY <1>12 DEF OpenExisting, writerVars
  <2>4. ReadOK
    BY <2>1, <2>2, <2>3, CellAssumption DEF ReadOK, NothingMapped
  <2> QED
    BY <1>2, <2>3, <2>4
<1>13. CASE Sample
  <2>1. ReadOK
    <3>1. UNCHANGED <<mapped, lastGood, movedAt, now, up, live, diedAt>>
      BY <1>13 DEF Sample, writerVars
    <3>2. readerPc' # "closed"
      BY <1>13 DEF Sample
    <3> QED
      BY <3>1, <3>2
         DEF ReadOK, AliveInv, NothingMapped, StampsOfTheLiving, RegionLastUp
  <2> QED
    BY <1>2, <1>13, <2>1 DEF Sample, writerVars
<1>14. CASE StepCell
  <2>1. /\ UNCHANGED <<now, up, live, diedAt, slot, storing, reg, mapped, sampledAt>>
        /\ readerPc' = "asleep" /\ Step(Poll, sampledAt) /\ Remember(Poll)
        /\ movedAt' = IF phase' = Held THEN movedAt ELSE sampledAt
    BY <1>14 DEF StepCell, writerVars
  <2>2. CASE mapped = 0
    <3>1. phase' = Held
      BY <2>1, <2>2 DEF Poll, NoView, Step, HoldWithoutInformation, EnterHold,
            HoldOnStaleInformation, HoldOnStop, RunOnPermit
    <3>2. UNCHANGED <<lastGood, movedAt>>
      BY <2>1, <2>2, <3>1 DEF Remember, ReadSucceeds
    <3> QED
      BY <1>2, <2>1, <2>2, <3>2 DEF ReadOK, AliveInv, NothingMapped
  <2>3. CASE mapped # 0
    <3>1. mapped \in Regions
      BY <2>3, RegionOfTheReader
    <3>2. /\ Poll.published <= RegionLastUp(mapped)
          /\ lastGood'.published <= RegionLastUp(mapped)
      BY <2>1, <2>3, <3>1
         DEF Poll, ViewOf, Remember, ReadSucceeds, AliveInv, StampsOfTheLiving
    <3>3. RegionLastUp(mapped)' = RegionLastUp(mapped)
      BY <2>1 DEF RegionLastUp
    <3>4. movedAt' <= RegionLastUp(mapped) + MaxSafetyAge
      <4>1. CASE phase' = Held
        BY <2>1, <2>3, <4>1 DEF AliveInv
      <4>2. CASE phase' # Held
        <5>1. Poll \in SafetyView /\ sampledAt \in Nat /\ CellTypeOK
          BY PollIsAView DEF TypeInv, TypeOK
        <5>2. sampledAt <= Poll.published + MaxSafetyAge
          BY <2>1, <4>2, <5>1, StepMovesOnlyOnFreshPermit
        <5>3. Poll.published \in Nat /\ RegionLastUp(mapped) \in Nat
          BY <1>3, <3>1, <5>1 DEF SafetyView, Instant
        <5> QED
          BY <2>1, <3>2, <4>2, <5>1, <5>2, <5>3, CellAssumption
      <4> QED
        BY <4>1, <4>2
    <3> QED
      BY <1>2, <2>1, <2>3, <3>2, <3>3, <3>4 DEF ReadOK, NothingMapped
  <2> QED
    BY <2>2, <2>3
<1>15. CASE UNCHANGED vars
  BY <1>2, <1>15 DEF vars, writerVars, readerVars
<1> QED
  BY <1>4, <1>5, <1>6, <1>7, <1>8, <1>9, <1>10, <1>11, <1>12, <1>13, <1>14, <1>15
     DEF Next, Writer, Reader

LEMMA AliveInvHolds == Spec => []AliveInv
BY InitAliveInv, NextAliveInv, TypeInvHolds, PTL DEF Spec

\* A dead writer stops the cell: for a writer of one thread or two and any number
\* of restarts, no motion begins later than max_safety_age after the death of the
\* writer whose region the cell has mapped.
THEOREM DeadWriterStops == Spec => []DeadWriterStopsTheCell
<1>1. TypeInv /\ AliveInv => DeadWriterStopsTheCell
  BY SharedMemoryAssumption
     DEF TypeInv, TypeOK, AliveInv, RegionLastUp, DeadWriterStopsTheCell
<1> QED
  BY <1>1, TypeInvHolds, AliveInvHolds, PTL

-----------------------------------------------------------------------------
(* The lease on a permit being in force, for a writer of one thread.         *)

\* The latest instant at which the writer of region r had a permit in force.
RegionLastInForce(r) == IF InForce(r) THEN now ELSE lapsedAt[r]

\* What the main thread publishes, or has published, is its current verdict.
CurrentVerdict(s) ==
    /\ s.sequence = current.sequence
    /\ current.sequence > 0 => s.permitted = current.permitted

SameVerdict ==
    /\ pc["main"] = "idle" => CurrentVerdict(slot[live])
    /\ pc["main"] \in {"stamp", "begin", "end"} => CurrentVerdict(reg["main"])
    /\ pc["main"] = "stamp" => current.sequence > 0

PermitsInForce ==
    /\ live \in Regions /\ reg["main"].permitted
         => reg["main"].published <= RegionLastInForce(live)
    /\ \A r \in Regions :
         slot[r].permitted => slot[r].published <= RegionLastInForce(r)
    /\ mapped # 0 /\ lastGood.permitted
         => lastGood.published <= RegionLastInForce(mapped)

PermitInv ==
    /\ NothingMapped
    /\ SameVerdict
    /\ PermitsInForce
    /\ mapped # 0 => movedAt <= RegionLastInForce(mapped) + MaxSafetyAge

\* The last instant a permit was in force is not in the future, and never moves
\* back.
LEMMA LastInForceNeverMovesBack ==
    ASSUME TypeInv, [Next]_vars
    PROVE  \A r \in Regions : /\ RegionLastInForce(r) <= RegionLastInForce(r)'
                              /\ RegionLastInForce(r)' \in Nat
                              /\ RegionLastInForce(r) \in 0 .. now
<1>1. /\ now \in Nat /\ lapsedAt \in [Regions -> 0 .. now]
      /\ up => live \in Regions
  BY DEF TypeInv, TypeOK, WriterHasARegion
<1>2. CASE Tick
  BY <1>1, <1>2 DEF Tick, writerVars, RegionLastInForce, InForce
<1>3. CASE Create
  BY <1>1, <1>3 DEF Create, RegionLastInForce, InForce, ZeroSignal
<1>4. CASE Crash
  BY <1>1, <1>4 DEF Crash, RegionLastInForce, InForce
<1>5. ASSUME NEW permitted \in BOOLEAN, Decide(permitted)
      PROVE  \A r \in Regions : /\ RegionLastInForce(r) <= RegionLastInForce(r)'
                                /\ RegionLastInForce(r)' \in Nat
                                /\ RegionLastInForce(r) \in 0 .. now
  <2>1. up
    BY <1>5 DEF Decide, TypeInv, WriterHasARegion, Threads
  <2>2. current'.permitted = permitted
    BY <1>5 DEF Decide
  <2>3. /\ UNCHANGED <<now, live, up>>
        /\ lapsedAt' = IF current.permitted /\ ~permitted
                         THEN [lapsedAt EXCEPT ![live] = now] ELSE lapsedAt
    BY <1>5 DEF Decide
  <2> QED
    BY <1>1, <2>1, <2>2, <2>3 DEF RegionLastInForce, InForce
<1>6. CASE UNCHANGED <<now, up, live, current, lapsedAt>>
  BY <1>1, <1>6 DEF RegionLastInForce, InForce
<1>7. \/ Tick \/ Create \/ Crash
      \/ \E permitted \in BOOLEAN : Decide(permitted)
      \/ UNCHANGED <<now, up, live, current, lapsedAt>>
  BY DEF Next, Writer, Reader, Heartbeat, Stamp, StoreBegin, StoreEnd,
         OpenExisting, Sample, StepCell, writerVars, vars
<1> QED
  BY <1>2, <1>3, <1>4, <1>5, <1>6, <1>7

LEMMA InitPermitInv == Init => PermitInv
<1> SUFFICES ASSUME Init PROVE PermitInv
  OBVIOUS
<1>1. /\ ZeroSignal.permitted = FALSE /\ NoView.permitted = FALSE
      /\ NoView.published = 0 /\ mapped = 0 /\ movedAt = 0
      /\ reg["main"] = ZeroSignal /\ pc["main"] = "off"
      /\ \A r \in Regions : slot[r] = ZeroSignal
      /\ lastGood = NoView
  BY DEF Init, ZeroSignal, NoView, Threads
<1> QED
  BY <1>1 DEF PermitInv, NothingMapped, SameVerdict, PermitsInForce

\* The pieces of PermitInv hold of values left alone, as time passes.
LEMMA PermitsWhenUntouched ==
    ASSUME TypeInv, TypeInv', PermitInv, [Next]_vars
    PROVE  /\ UNCHANGED <<reg, live>> =>
                (live' \in Regions /\ reg'["main"].permitted
                   => reg'["main"].published <= RegionLastInForce(live)')
           /\ UNCHANGED slot =>
                \A r \in Regions : slot'[r].permitted =>
                    slot'[r].published <= RegionLastInForce(r)'
           /\ UNCHANGED <<mapped, readerPc, lastGood, movedAt>> =>
                /\ NothingMapped'
                /\ mapped' # 0 /\ lastGood'.permitted =>
                     lastGood'.published <= RegionLastInForce(mapped)'
                /\ mapped' # 0 =>
                     movedAt' <= RegionLastInForce(mapped)' + MaxSafetyAge
<1>1. /\ reg["main"].published \in Nat
      /\ \A r \in Regions : slot[r].published \in Nat
      /\ lastGood.published \in Nat /\ movedAt \in Nat
  BY SignalFields DEF TypeInv, TypeOK, SafetyView, Instant, Threads
<1>2. \A r \in Regions : /\ RegionLastInForce(r) <= RegionLastInForce(r)'
                         /\ RegionLastInForce(r)' \in Nat
                         /\ RegionLastInForce(r) \in Nat
  BY LastInForceNeverMovesBack
<1>3. ASSUME UNCHANGED <<reg, live>>, live' \in Regions, reg'["main"].permitted
      PROVE  reg'["main"].published <= RegionLastInForce(live)'
  <2>1. reg["main"].published <= RegionLastInForce(live)
    BY <1>3 DEF PermitInv, PermitsInForce
  <2>2. /\ RegionLastInForce(live) <= RegionLastInForce(live)'
        /\ RegionLastInForce(live)' \in Nat /\ RegionLastInForce(live) \in Nat
    <3>1. live \in Regions /\ live' = live
      BY <1>3
    <3> QED
      <4>1. PICK r \in Regions : r = live
        BY <3>1
      <4>2. RegionLastInForce(r)' = RegionLastInForce(live)'
        BY <3>1, <4>1 DEF RegionLastInForce, InForce
      <4>3. RegionLastInForce(r) = RegionLastInForce(live)
        BY <4>1
      <4> QED
        BY <1>2, <4>1, <4>2, <4>3
  <2> QED
    BY <1>1, <1>3, <2>1, <2>2
<1>4. ASSUME UNCHANGED slot
      PROVE  \A r \in Regions : slot'[r].permitted =>
                 slot'[r].published <= RegionLastInForce(r)'
  BY <1>1, <1>2, <1>4 DEF PermitInv, PermitsInForce
<1>5. ASSUME UNCHANGED <<mapped, readerPc, lastGood, movedAt>>
      PROVE  /\ NothingMapped'
             /\ mapped' # 0 /\ lastGood'.permitted =>
                  lastGood'.published <= RegionLastInForce(mapped)'
             /\ mapped' # 0 =>
                  movedAt' <= RegionLastInForce(mapped)' + MaxSafetyAge
  <2>1. NothingMapped'
    BY <1>5 DEF PermitInv, NothingMapped
  <2>2. ASSUME mapped # 0
        PROVE  /\ lastGood'.permitted =>
                    lastGood'.published <= RegionLastInForce(mapped)'
               /\ movedAt' <= RegionLastInForce(mapped)' + MaxSafetyAge
    <3>1. mapped \in Regions /\ mapped' = mapped
      BY <1>5, <2>2, RegionOfTheReader
    <3>2. /\ RegionLastInForce(mapped) <= RegionLastInForce(mapped)'
          /\ RegionLastInForce(mapped)' \in Nat /\ RegionLastInForce(mapped) \in Nat
      <4>1. PICK r \in Regions : r = mapped
        BY <3>1
      <4>2. RegionLastInForce(r)' = RegionLastInForce(mapped)'
        BY <3>1, <4>1 DEF RegionLastInForce, InForce
      <4>3. RegionLastInForce(r) = RegionLastInForce(mapped)
        BY <4>1
      <4> QED
        BY <1>2, <4>1, <4>2, <4>3
    <3> QED
      BY <1>1, <1>5, <2>2, <3>2, CellAssumption DEF PermitInv, PermitsInForce
  <2> QED
    BY <1>5, <2>1, <2>2
<1> QED
  BY <1>3, <1>4, <1>5

LEMMA NextPermitInv ==
    ASSUME Beater = "main"
    PROVE  TypeInv /\ TypeInv' /\ PermitInv /\ [Next]_vars => PermitInv'
<1> SUFFICES ASSUME TypeInv, TypeInv', PermitInv, [Next]_vars
             PROVE  PermitInv'
  OBVIOUS
<1> DEFINE RegOK ==
             live' \in Regions /\ reg'["main"].permitted
               => reg'["main"].published <= RegionLastInForce(live)'
           SlotOK ==
             \A r \in Regions : slot'[r].permitted =>
                 slot'[r].published <= RegionLastInForce(r)'
           ReadOK ==
             /\ NothingMapped'
             /\ mapped' # 0 /\ lastGood'.permitted =>
                  lastGood'.published <= RegionLastInForce(mapped)'
             /\ mapped' # 0 =>
                  movedAt' <= RegionLastInForce(mapped)' + MaxSafetyAge
<1>1. SUFFICES RegOK /\ SlotOK /\ ReadOK /\ SameVerdict'
  BY DEF PermitInv, PermitsInForce
<1>2. /\ UNCHANGED <<reg, live>> => RegOK
      /\ UNCHANGED slot => SlotOK
      /\ UNCHANGED <<mapped, readerPc, lastGood, movedAt>> => ReadOK
      /\ UNCHANGED <<pc, slot, live, reg, current>> => SameVerdict'
  BY PermitsWhenUntouched DEF PermitInv, SameVerdict, CurrentVerdict
<1> HIDE DEF ReadOK, RegOK
<1>3. /\ Threads = {"main"}
      /\ pc \in [Threads -> {"off", "idle", "stamp", "begin", "end"}]
      /\ reg \in [Threads -> SafetySignal] /\ slot \in [Regions -> SafetySignal]
      /\ current \in SafetySignal
      /\ pc["main"] # "off" => up /\ live \in Regions
  BY DEF TypeInv, TypeOK, WriterHasARegion, Threads
<1>4. CASE Tick
  BY <1>2, <1>4 DEF Tick, writerVars, readerVars
<1>5. CASE Create
  <2>1. reg'["main"] = DefaultSignal /\ pc'["main"] = "begin"
    BY <1>3, <1>5 DEF Create
  <2>2. RegOK
    <3>1. live' \in Regions => RegionLastInForce(live)' \in Nat
      BY DEF RegionLastInForce, TypeInv, TypeOK
    <3> QED
      BY <2>1, <3>1 DEF DefaultSignal, RegOK
  <2>3. SameVerdict'
    BY <1>5, <2>1 DEF Create, SameVerdict, CurrentVerdict, DefaultSignal, ZeroSignal
  <2> QED
    BY <1>2, <1>5, <2>2, <2>3 DEF Create, readerVars
<1>6. ASSUME NEW permitted \in BOOLEAN, Decide(permitted)
      PROVE  RegOK /\ SlotOK /\ ReadOK /\ SameVerdict'
  <2>1. /\ current'.published = 0
        /\ current'.sequence = current.sequence + 1
        /\ reg'["main"] = current' /\ pc'["main"] = "stamp"
    BY <1>3, <1>6 DEF Decide, Publish, NewSequence
  <2>2. RegOK
    <3>1. live' \in Regions => RegionLastInForce(live)' \in Nat
      BY DEF RegionLastInForce, TypeInv, TypeOK
    <3> QED
      BY <2>1, <3>1 DEF RegOK
  <2>3. SameVerdict'
    BY <1>3, <2>1, SignalFields DEF SameVerdict, CurrentVerdict
  <2> QED
    BY <1>2, <1>6, <2>2, <2>3 DEF Decide, readerVars
<1>7. CASE Heartbeat
  <2>1. /\ live \in Regions /\ slot[live].sequence > 0 /\ pc["main"] = "idle"
        /\ reg'["main"] = slot[live] /\ pc'["main"] = "stamp"
        /\ UNCHANGED <<now, live, up, slot, current, lapsedAt>>
    BY <1>3, <1>7 DEF Heartbeat
  <2>2. RegOK
    <3>1. slot[live].permitted => slot[live].published <= RegionLastInForce(live)
      BY <2>1 DEF PermitInv, PermitsInForce
    <3>2. RegionLastInForce(live)' = RegionLastInForce(live)
      BY <2>1 DEF RegionLastInForce, InForce
    <3> QED
      BY <2>1, <3>1, <3>2 DEF RegOK
  <2>3. SameVerdict'
    BY <2>1 DEF PermitInv, SameVerdict, CurrentVerdict
  <2> QED
    BY <1>2, <1>7, <2>2, <2>3 DEF Heartbeat, readerVars
<1>8. ASSUME NEW t \in Threads, Stamp(t)
      PROVE  RegOK /\ SlotOK /\ ReadOK /\ SameVerdict'
  <2>1. /\ pc["main"] = "stamp" /\ pc'["main"] = "begin" /\ up
        /\ reg'["main"].published = now
        /\ reg'["main"].permitted = reg["main"].permitted
        /\ reg'["main"].sequence = reg["main"].sequence
        /\ UNCHANGED <<now, live, up, slot, current, lapsedAt>>
    BY <1>3, <1>8 DEF Stamp, SafetySignal
  <2>2. reg["main"].permitted => current.permitted
    BY <2>1 DEF PermitInv, SameVerdict, CurrentVerdict
  <2>3. RegOK
    <3>1. current.permitted => RegionLastInForce(live)' = now
      BY <2>1 DEF RegionLastInForce, InForce
    <3>2. now <= now
      BY DEF TypeInv, TypeOK
    <3> QED
      BY <2>1, <2>2, <3>1, <3>2 DEF RegOK
  <2>4. SameVerdict'
    BY <2>1 DEF PermitInv, SameVerdict, CurrentVerdict
  <2> QED
    BY <1>2, <1>8, <2>3, <2>4 DEF Stamp, readerVars
<1>9. ASSUME NEW t \in Threads, StoreBegin(t)
      PROVE  RegOK /\ SlotOK /\ ReadOK /\ SameVerdict'
  <2>1. /\ pc["main"] = "begin" /\ pc'["main"] = "end"
        /\ UNCHANGED <<reg, current>>
    BY <1>3, <1>9 DEF StoreBegin
  <2>2. SameVerdict'
    BY <2>1 DEF PermitInv, SameVerdict, CurrentVerdict
  <2> QED
    BY <1>2, <1>9, <2>2 DEF StoreBegin, readerVars
<1>10. ASSUME NEW t \in Threads, StoreEnd(t)
       PROVE  RegOK /\ SlotOK /\ ReadOK /\ SameVerdict'
  <2>1. /\ pc["main"] = "end" /\ pc'["main"] = "idle" /\ live \in Regions
        /\ slot' = [slot EXCEPT ![live] = reg["main"]]
        /\ UNCHANGED <<now, live, up, current, reg, lapsedAt>>
    BY <1>3, <1>10 DEF StoreEnd
  <2>2. \A r \in Regions : RegionLastInForce(r)' = RegionLastInForce(r)
    BY <2>1 DEF RegionLastInForce, InForce
  <2>3. slot'[live] = reg["main"]
    BY <1>3, <2>1
  <2>4. SlotOK
    <3>1. SUFFICES ASSUME NEW r \in Regions, slot'[r].permitted
                   PROVE  slot'[r].published <= RegionLastInForce(r)'
      OBVIOUS
    <3>2. CASE r = live
      <4>1. slot'[r].published <= RegionLastInForce(live)
        BY <2>1, <2>3, <3>1, <3>2 DEF PermitInv, PermitsInForce
      <4>2. RegionLastInForce(r) = RegionLastInForce(live)
        BY <3>2
      <4> QED
        BY <2>2, <4>1, <4>2
    <3>3. CASE r # live
      <4>1. slot'[r] = slot[r]
        BY <1>3, <2>1, <3>3
      <4> QED
        BY <2>2, <3>1, <4>1 DEF PermitInv, PermitsInForce
    <3> QED
      BY <3>2, <3>3
  <2>5. SameVerdict'
    BY <2>1, <2>3 DEF PermitInv, SameVerdict, CurrentVerdict
  <2> QED
    BY <1>2, <1>10, <2>4, <2>5 DEF StoreEnd, readerVars
<1>11. CASE Crash
  <2>1. pc'["main"] = "off"
    BY <1>3, <1>11 DEF Crash
  <2>2. SameVerdict'
    BY <2>1 DEF SameVerdict
  <2> QED
    BY <1>2, <1>11, <2>2 DEF Crash, readerVars
<1>12. CASE OpenExisting
  <2>1. /\ mapped = 0 /\ lastGood.published = 0 /\ movedAt = 0
    BY <1>12 DEF OpenExisting, PermitInv, NothingMapped
  <2>2. mapped' # 0 => RegionLastInForce(mapped)' \in Nat
    <3>1. mapped' # 0 => mapped' \in Regions
      BY SharedMemoryAssumption DEF TypeInv, TypeOK, Regions
    <3>2. lapsedAt' \in [Regions -> 0 .. now'] /\ now' \in Nat
      BY DEF TypeInv, TypeOK
    <3> QED
      BY <3>1, <3>2 DEF RegionLastInForce
  <2>3. /\ readerPc' = "asleep"
        /\ UNCHANGED <<lastGood, movedAt, reg, live, slot, pc, current>>
    BY <1>12 DEF OpenExisting, writerVars
  <2>4. ReadOK
    BY <2>1, <2>2, <2>3, CellAssumption DEF ReadOK, NothingMapped
  <2> QED
    BY <1>2, <2>3, <2>4
<1>13. CASE Sample
  <2>1. /\ UNCHANGED <<mapped, lastGood, movedAt, now, up, live, current, lapsedAt>>
        /\ UNCHANGED <<reg, slot, pc>>
        /\ readerPc' # "closed"
    BY <1>13 DEF Sample, writerVars
  <2>2. ReadOK
    BY <2>1
       DEF ReadOK, PermitInv, NothingMapped, PermitsInForce, RegionLastInForce, InForce
  <2> QED
    BY <1>2, <2>1, <2>2
<1>14. CASE StepCell
  <2>1. /\ UNCHANGED <<now, up, live, current, lapsedAt, slot, storing, reg, pc,
                       mapped, sampledAt>>
        /\ readerPc' = "asleep" /\ Step(Poll, sampledAt) /\ Remember(Poll)
        /\ movedAt' = IF phase' = Held THEN movedAt ELSE sampledAt
    BY <1>14 DEF StepCell, writerVars
  <2>2. CASE mapped = 0
    <3>1. phase' = Held
      BY <2>1, <2>2 DEF Poll, NoView, Step, HoldWithoutInformation, EnterHold,
            HoldOnStaleInformation, HoldOnStop, RunOnPermit
    <3>2. UNCHANGED <<lastGood, movedAt>>
      BY <2>1, <2>2, <3>1 DEF Remember, ReadSucceeds
    <3> QED
      BY <1>2, <2>1, <2>2, <3>2 DEF ReadOK, PermitInv, NothingMapped
  <2>3. CASE mapped # 0
    <3>1. mapped \in Regions
      BY <2>3, RegionOfTheReader
    <3>2. /\ Poll.permitted => Poll.published <= RegionLastInForce(mapped)
          /\ lastGood'.permitted => lastGood'.published <= RegionLastInForce(mapped)
      BY <2>1, <2>3, <3>1
         DEF Poll, ViewOf, Remember, ReadSucceeds, PermitInv, PermitsInForce
    <3>3. RegionLastInForce(mapped)' = RegionLastInForce(mapped)
      BY <2>1 DEF RegionLastInForce, InForce
    <3>4. movedAt' <= RegionLastInForce(mapped) + MaxSafetyAge
      <4>1. CASE phase' = Held
        BY <2>1, <2>3, <4>1 DEF PermitInv
      <4>2. CASE phase' # Held
        <5>1. Poll \in SafetyView /\ sampledAt \in Nat /\ CellTypeOK
          BY PollIsAView DEF TypeInv, TypeOK
        <5>2. Poll.permitted /\ sampledAt <= Poll.published + MaxSafetyAge
          BY <2>1, <4>2, <5>1, StepMovesOnlyOnFreshPermit
        <5>3. Poll.published \in Nat /\ RegionLastInForce(mapped) \in Nat
          BY <3>1, <5>1, LastInForceNeverMovesBack DEF SafetyView, Instant
        <5> QED
          BY <2>1, <3>2, <4>2, <5>1, <5>2, <5>3, CellAssumption
      <4> QED
        BY <4>1, <4>2
    <3> QED
      BY <1>2, <2>1, <2>3, <3>2, <3>3, <3>4 DEF ReadOK, NothingMapped
  <2> QED
    BY <2>2, <2>3
<1>15. CASE UNCHANGED vars
  BY <1>2, <1>15 DEF vars, writerVars, readerVars
<1> QED
  BY <1>4, <1>5, <1>6, <1>7, <1>8, <1>9, <1>10, <1>11, <1>12, <1>13, <1>14, <1>15
     DEF Next, Writer, Reader

LEMMA PermitInvHolds ==
    ASSUME Beater = "main"
    PROVE  Spec => []PermitInv
BY InitPermitInv, NextPermitInv, TypeInvHolds, PTL DEF Spec

\* No motion begins later than max_safety_age after a permit was last in force.
LEMMA PermitInvGivesTheLease == TypeInv /\ PermitInv => Lease!MotionWithinLease
<1> SUFFICES ASSUME TypeInv, PermitInv PROVE Lease!MotionWithinLease
  OBVIOUS
<1>1. CASE mapped = 0
  <2>1. movedAt = 0 /\ LastInForce = 0
    BY <1>1 DEF PermitInv, NothingMapped, LastInForce
  <2> QED
    BY <2>1, CellAssumption DEF Lease!MotionWithinLease
<1>2. CASE mapped # 0
  <2>1. LastInForce = RegionLastInForce(mapped)
    BY <1>2 DEF LastInForce, RegionLastInForce
  <2> QED
    BY <1>2, <2>1 DEF PermitInv, Lease!MotionWithinLease
<1> QED
  BY <1>1, <1>2

\* For a writer of one thread: whenever it is not inside a call, the region holds
\* the verdict it decided last, so that a heartbeat can only restate that one.
THEOREM RegionIsCurrent ==
    ASSUME Beater = "main"
    PROVE  Spec => []RegionHoldsCurrentVerdict
<1>1. PermitInv => RegionHoldsCurrentVerdict
  BY DEF PermitInv, SameVerdict, CurrentVerdict, RegionHoldsCurrentVerdict
<1> QED
  BY <1>1, PermitInvHolds, PTL

\* Time passes in LastInForce as the lease requires.
LEMMA LastInForceElapses ==
    ASSUME TypeInv, TypeInv', PermitInv, [Next]_vars
    PROVE  /\ LastInForce \in Nat /\ LastInForce' \in Nat
           /\ LastInForce <= LastInForce' /\ LastInForce' <= now'
<1>1. /\ now \in Nat /\ now' \in Nat
      /\ mapped # 0 => mapped \in Regions
      /\ mapped' # 0 => mapped' \in Regions
      /\ lapsedAt' \in [Regions -> 0 .. now']
  <2>1. /\ now \in Nat /\ now' \in Nat
        /\ lapsedAt' \in [Regions -> 0 .. now']
    BY DEF TypeInv, TypeOK
  <2>2. /\ live \in 0 .. MaxRegions /\ mapped \in 0 .. live
        /\ live' \in 0 .. MaxRegions /\ mapped' \in 0 .. live'
    BY DEF TypeInv, TypeOK
  <2> QED
    BY <2>1, <2>2, SharedMemoryAssumption DEF Regions
<1>2. LastInForce' \in 0 .. now'
  BY <1>1 DEF LastInForce
<1>3. CASE mapped = 0
  BY <1>1, <1>2, <1>3 DEF LastInForce
<1>4. CASE mapped # 0
  <2>1. mapped' = mapped
    <3>1. OpenExisting => mapped = 0
      BY DEF OpenExisting, PermitInv, NothingMapped
    <3> QED
      BY <1>4, <3>1
         DEF Next, Writer, Reader, Tick, Create, Decide, Heartbeat, Stamp,
             StoreBegin, StoreEnd, Crash, Sample, StepCell, readerVars, vars
  <2>2. PICK r \in Regions : r = mapped
    BY <1>1, <1>4
  <2>3. LastInForce = RegionLastInForce(r) /\ LastInForce' = RegionLastInForce(r)'
    BY <1>4, <2>1, <2>2 DEF LastInForce, RegionLastInForce, InForce
  <2> QED
    BY <1>1, <1>2, <2>3, LastInForceNeverMovesBack
<1> QED
  BY <1>3, <1>4

\* The cell on the shared-memory link implements PermitLease: a step of the cell
\* that moves is the abstract Move, and everything else is time passing.
THEOREM SharedMemoryImplementsLease ==
    ASSUME Beater = "main"
    PROVE  Spec => ImplementsLease
<1>1. Init => Lease!Init
  BY SharedMemoryAssumption DEF Init, Lease!Init, LastInForce
<1>2. /\ TypeInv /\ TypeInv' /\ PermitInv /\ PermitInv' /\ [Next]_vars
      => [Lease!Next]_(Lease!vars)
  <2> SUFFICES ASSUME TypeInv, TypeInv', PermitInv, PermitInv', [Next]_vars
               PROVE  [Lease!Next]_(Lease!vars)
    OBVIOUS
  <2>1. /\ now \in Nat /\ now' \in Nat /\ now <= now'
        /\ LastInForce \in Nat /\ LastInForce' \in Nat
        /\ LastInForce <= LastInForce' /\ LastInForce' <= now'
    BY LastUpNeverMovesBack, LastInForceElapses DEF TypeInv, TypeOK
  <2>2. CASE movedAt' = movedAt
    <3>1. LastInForce' \in LastInForce .. now'
      BY <2>1
    <3> QED
      BY <2>1, <2>2, <3>1 DEF Lease!Next, Lease!Elapse
  <2>3. CASE movedAt' # movedAt
    <3>1. StepCell
      BY <2>3 DEF Next, Writer, Reader, Tick, Create, Decide, Heartbeat, Stamp,
                  StoreBegin, StoreEnd, Crash, OpenExisting, Sample, readerVars, vars
    <3>2. movedAt' = sampledAt
      BY <2>3, <3>1 DEF StepCell
    <3>3. /\ now' = now /\ LastInForce' = LastInForce
      BY <3>1 DEF StepCell, writerVars, LastInForce, InForce
    <3>4. movedAt' \in movedAt .. now
      <4>1. movedAt \in 0 .. sampledAt /\ sampledAt \in 0 .. now
        BY DEF TypeInv, TypeOK
      <4> QED
        BY <2>1, <3>2, <4>1
    <3>5. movedAt' <= LastInForce + MaxSafetyAge
      <4>1. Lease!MotionWithinLease'
        BY PermitInvGivesTheLease, PTL
      <4> QED
        BY <3>3, <4>1 DEF Lease!MotionWithinLease
    <3> QED
      BY <3>3, <3>4, <3>5 DEF Lease!Next, Lease!Move
  <2> QED
    BY <2>2, <2>3
<1>3. Spec => []TypeInv /\ []PermitInv
  BY TypeInvHolds, PermitInvHolds
<1> QED
  BY <1>1, <1>2, <1>3, PTL DEF Spec, ImplementsLease, Lease!Spec

-----------------------------------------------------------------------------
(* Punctuality.  While the running writer's heartbeat has never been overdue, *)
(* what its region holds and what it is about to store are recent; a region  *)
(* not yet created holds nothing.                                            *)

Recent(signal) ==
    signal.sequence > 0 => now <= signal.published + HeartbeatBudget

PunctualInv ==
    /\ \A r \in Regions : r > live => slot[r] = ZeroSignal
    /\ up /\ ~late =>
         /\ Recent(slot[live])
         /\ \A t \in Threads : pc[t] \in {"begin", "end"} => Recent(reg[t])

LEMMA InitPunctualInv == Init => PunctualInv
BY DEF Init, PunctualInv

LEMMA NextPunctualInv == TypeInv /\ TypeInv' /\ PunctualInv /\ [Next]_vars => PunctualInv'
<1> SUFFICES ASSUME TypeInv, TypeInv', PunctualInv, [Next]_vars
             PROVE  PunctualInv'
  OBVIOUS
<1>1. /\ now \in Nat /\ late \in BOOLEAN /\ live \in 0 .. MaxRegions
      /\ slot \in [Regions -> SafetySignal] /\ reg \in [Threads -> SafetySignal]
      /\ pc \in [Threads -> {"off", "idle", "stamp", "begin", "end"}]
      /\ up => live \in Regions
  BY DEF TypeInv, TypeOK, WriterHasARegion
<1>2. HeartbeatBudget \in Nat /\ MaxRegions \in Nat
  BY SharedMemoryAssumption
<1>3. CASE Tick
  <2>1. /\ UNCHANGED <<live, up, slot, pc, reg>> /\ now' = now + 1
        /\ late' = (late \/ Overdue(now'))
    BY <1>3 DEF Tick, writerVars
  <2>2. ASSUME up', ~late' PROVE /\ Recent(slot[live])'
                                 /\ \A t \in Threads :
                                      pc'[t] \in {"begin", "end"} => Recent(reg[t])'
    <3>1. ~Overdue(now') /\ up
      BY <2>1, <2>2
    <3>2. ASSUME NEW s \in SafetySignal,
                 ~(s.sequence > 0 /\ now' > s.published + HeartbeatBudget)
          PROVE  s.sequence > 0 => now' <= s.published + HeartbeatBudget
      <4>1. s.published \in Nat /\ now' \in Nat
        BY <1>1, <2>1, SignalFields
      <4> QED
        BY <1>2, <3>2, <4>1
    <3>3. slot[live] \in SafetySignal /\ \A t \in Threads : reg[t] \in SafetySignal
      BY <1>1, <3>1
    <3> QED
      BY <2>1, <3>1, <3>2, <3>3 DEF Overdue, Recent
  <2> QED
    BY <2>1, <2>2 DEF PunctualInv
<1>4. CASE Create
  <2>1. /\ live' = live + 1 /\ UNCHANGED slot /\ live' \in Regions
        /\ reg' = [t \in Threads |-> DefaultSignal]
    BY <1>1, <1>2, <1>4 DEF Create, Regions
  <2>2. slot'[live'] = ZeroSignal
    BY <1>1, <2>1 DEF PunctualInv
  <2>3. \A r \in Regions : r > live' => slot'[r] = ZeroSignal
    BY <1>1, <2>1 DEF PunctualInv, Regions
  <2> QED
    BY <2>1, <2>2, <2>3 DEF PunctualInv, Recent, ZeroSignal, DefaultSignal
<1>5. ASSUME NEW permitted \in BOOLEAN, Decide(permitted) PROVE PunctualInv'
  <2>1. /\ UNCHANGED <<now, late, live, up, slot>>
        /\ \A t \in Threads : pc'[t] \in {"begin", "end"}
             => pc'[t] = pc[t] /\ reg'[t] = reg[t]
    BY <1>1, <1>5 DEF Decide, Publish
  <2> QED
    BY <2>1 DEF PunctualInv, Recent
<1>6. CASE Heartbeat
  <2>1. /\ UNCHANGED <<now, late, live, up, slot>>
        /\ \A t \in Threads : pc'[t] \in {"begin", "end"}
             => pc'[t] = pc[t] /\ reg'[t] = reg[t]
    BY <1>1, <1>6 DEF Heartbeat
  <2> QED
    BY <2>1 DEF PunctualInv, Recent
<1>7. ASSUME NEW t \in Threads, Stamp(t) PROVE PunctualInv'
  <2>1. /\ UNCHANGED <<now, late, live, up, slot>>
        /\ reg'[t].published = now
        /\ \A u \in Threads : u # t => pc'[u] = pc[u] /\ reg'[u] = reg[u]
    BY <1>1, <1>7 DEF Stamp, SafetySignal
  <2>2. Recent(reg[t])'
    BY <1>1, <1>2, <2>1 DEF Recent
  <2> QED
    BY <2>1, <2>2 DEF PunctualInv, Recent
<1>8. ASSUME NEW t \in Threads, StoreBegin(t) PROVE PunctualInv'
  <2>1. /\ UNCHANGED <<now, late, live, up, slot, reg>> /\ pc[t] = "begin"
        /\ \A u \in Threads : u # t => pc'[u] = pc[u]
    BY <1>1, <1>8 DEF StoreBegin
  <2> QED
    BY <2>1 DEF PunctualInv, Recent
<1>9. ASSUME NEW t \in Threads, StoreEnd(t) PROVE PunctualInv'
  <2>1. /\ UNCHANGED <<now, late, live, up, reg>> /\ pc[t] = "end" /\ pc'[t] = "idle"
        /\ slot' = [slot EXCEPT ![live] = reg[t]]
        /\ \A u \in Threads : u # t => pc'[u] = pc[u]
    BY <1>1, <1>9 DEF StoreEnd
  <2>2. \A r \in Regions : r > live => slot'[r] = slot[r]
    BY <1>1, <2>1 DEF Regions
  <2>3. up => slot'[live] = reg[t]
    BY <1>1, <2>1
  <2> QED
    BY <2>1, <2>2, <2>3 DEF PunctualInv, Recent
<1>10. CASE Crash
  BY <1>10 DEF Crash, PunctualInv
<1>11. CASE Reader \/ UNCHANGED vars
  <2>1. UNCHANGED <<now, late, writerVars>>
    BY <1>11 DEF Reader, OpenExisting, Sample, StepCell, vars
  <2> QED
    BY <2>1 DEF PunctualInv, Recent, writerVars
<1> QED
  BY <1>3, <1>4, <1>5, <1>6, <1>7, <1>8, <1>9, <1>10, <1>11 DEF Next, Writer

LEMMA PunctualInvHolds == Spec => []PunctualInv
BY InitPunctualInv, NextPunctualInv, TypeInvHolds, PTL DEF Spec

\* What a step leaves as the last good reading is the view it acted on, and that is
\* the reading before or the region's signal; without a region the view is invalid.
LEMMA PollIsLastGood ==
    ASSUME StepCell
    PROVE  /\ Step(Poll, sampledAt) /\ readerPc = "sampled"
           /\ UNCHANGED <<now, late, writerVars, mapped, sampledAt>>
           /\ mapped = 0 => ~Poll.valid /\ lastGood' = lastGood
           /\ mapped # 0 =>
                /\ lastGood' = Poll
                /\ \/ Poll = lastGood
                   \/ Poll = ViewOf(slot[mapped], now, slot[mapped].published)
BY DEF StepCell, Poll, Remember, ReadSucceeds, NoView

\* The reading kept was recent when the region was last read.
HeardInv ==
    /\ readerPc = "closed" => mapped = 0
    /\ mapped = 0 => lastGood = NoView
    /\ up /\ ~late /\ mapped = live /\ lastGood.sequence > 0
         => readAt <= lastGood.published + HeartbeatBudget

LEMMA InitHeardInv == Init => HeardInv
BY DEF Init, HeardInv, NoView

\* What a poll returns and keeps was recent at the latest read, the one it makes or
\* the one whose reading it falls back on.
LEMMA PollWasRecent ==
    ASSUME TypeInv, PunctualInv, HeardInv, StepCell, up, ~late, mapped = live,
           Poll.sequence > 0
    PROVE  readAt' <= Poll.published + HeartbeatBudget
<1>1. live \in Regions /\ mapped # 0
  BY SharedMemoryAssumption DEF TypeInv, WriterHasARegion, Regions
<1>2. CASE mapped \in storing
  <2>1. Poll = lastGood /\ readAt' = readAt
    BY <1>1, <1>2 DEF Poll, ReadSucceeds, StepCell
  <2> QED
    BY <2>1 DEF HeardInv
<1>3. CASE mapped \notin storing
  <2>1. Poll = ViewOf(slot[live], now, slot[live].published) /\ readAt' = now
    BY <1>1, <1>3 DEF Poll, ReadSucceeds, StepCell
  <2> QED
    BY <2>1 DEF ViewOf, PunctualInv, Recent
<1> QED
  BY <1>2, <1>3

LEMMA NextHeardInv == TypeInv /\ PunctualInv /\ HeardInv /\ [Next]_vars => HeardInv'
<1> SUFFICES ASSUME TypeInv, PunctualInv, HeardInv, [Next]_vars PROVE HeardInv'
  OBVIOUS
<1>1. live \in Nat /\ mapped \in 0 .. live /\ late \in BOOLEAN
  BY SharedMemoryAssumption DEF TypeInv, TypeOK
<1>2. ASSUME UNCHANGED <<readerPc, mapped, lastGood, readAt, live>>,
             up' => up, late => late'
      PROVE  HeardInv'
  BY <1>2 DEF HeardInv
<1>3. CASE Tick
  BY <1>2, <1>3 DEF Tick, writerVars, readerVars
<1>4. CASE Create
  <2>1. mapped' # live' /\ UNCHANGED <<readerPc, mapped, lastGood>>
    BY <1>1, <1>4 DEF Create, readerVars
  <2> QED
    BY <2>1 DEF HeardInv
<1>5. CASE \/ \E permitted \in BOOLEAN : Decide(permitted)
           \/ Heartbeat
           \/ \E t \in Threads : Stamp(t) \/ StoreBegin(t) \/ StoreEnd(t)
           \/ Crash
  BY <1>2, <1>5 DEF Decide, Heartbeat, Stamp, StoreBegin, StoreEnd, Crash, readerVars
<1>6. CASE OpenExisting
  <2>1. /\ lastGood = NoView /\ UNCHANGED lastGood
        /\ readerPc' = "asleep"
    BY <1>6 DEF OpenExisting, HeardInv
  <2> QED
    BY <2>1 DEF HeardInv, NoView
<1>7. CASE Sample
  <2>1. readerPc = "asleep" /\ readerPc' = "sampled"
        /\ UNCHANGED <<mapped, lastGood, readAt, live, up, late>>
    BY <1>7 DEF Sample, writerVars
  <2> QED
    BY <2>1 DEF HeardInv
<1>8. CASE StepCell
  <2>1. /\ readerPc' = "asleep" /\ UNCHANGED <<mapped, live, up, late>>
        /\ mapped = 0 => lastGood' = lastGood
        /\ mapped # 0 => lastGood' = Poll
    BY <1>8, PollIsLastGood DEF StepCell, writerVars
  <2>2. CASE mapped = 0
    BY <2>1, <2>2 DEF HeardInv, NoView
  <2>3. CASE mapped # 0
    BY <1>8, <2>1, <2>3, PollWasRecent DEF HeardInv
  <2> QED
    BY <2>2, <2>3
<1>9. CASE UNCHANGED vars
  BY <1>2, <1>9 DEF vars, writerVars, readerVars
<1> QED
  BY <1>3, <1>4, <1>5, <1>6, <1>7, <1>8, <1>9 DEF Next, Writer, Reader

\* A reading at most a heartbeat old when it was made stays within the budget for
\* what the heartbeat leaves of it.
LEMMA AgeOfAReading ==
    ASSUME NEW at \in Nat, NEW published \in Nat, NEW read \in Nat,
           NEW beat \in Nat, NEW budget \in Nat,
           read <= published + beat, at + beat <= read + budget
    PROVE  ~(at - published > budget)
OBVIOUS

\* With heartbeats that are never overdue a poll finds the verdict stale only when
\* reads have been torn for what the reader's budget leaves, in whatever order the
\* two processes run.
THEOREM HeartbeatsSuffice == Spec => NoSpuriousStaleness
<1>1. TypeInv /\ TypeInv' /\ PunctualInv /\ HeardInv
      => [StepCell /\ Poll.sequence > 0 /\ up /\ mapped = live /\ ~late
            /\ sampledAt + HeartbeatBudget <= readAt' + MaxSafetyAge
          => ~Stale(Poll, sampledAt)]_vars
  <2> SUFFICES ASSUME TypeInv, TypeInv', PunctualInv, HeardInv,
                      StepCell, Poll.sequence > 0, up, mapped = live, ~late,
                      sampledAt + HeartbeatBudget <= readAt' + MaxSafetyAge
               PROVE  ~Stale(Poll, sampledAt)
    OBVIOUS
  <2>1. readAt' <= Poll.published + HeartbeatBudget
    BY PollWasRecent
  <2>2. Poll.published \in Nat
    BY PollIsAView DEF TypeInv, SafetyView, Instant
  <2>3. sampledAt \in Nat /\ readAt' \in Nat
    BY DEF TypeInv, TypeOK
  <2>4. HeartbeatBudget \in Nat /\ MaxSafetyAge \in Nat
    BY SharedMemoryAssumption, CellAssumption
  <2>5. ~(sampledAt - Poll.published > MaxSafetyAge)
    BY <2>1, <2>2, <2>3, <2>4, AgeOfAReading
  <2> QED
    BY <2>5 DEF Stale
<1>2. Spec => []HeardInv
  BY InitHeardInv, NextHeardInv, PunctualInvHolds, TypeInvHolds, PTL DEF Spec
<1> QED
  BY <1>1, <1>2, PunctualInvHolds, TypeInvHolds, PTL DEF NoSpuriousStaleness

-----------------------------------------------------------------------------
(* The order of verdicts, for a writer of one thread.  Numbers grow from the *)
(* writer through the region to the last good reading, the cell acts on none *)
(* beyond that one, and within a region a number means one verdict.          *)

SameNumberSameVerdict(s, v) ==
    s.sequence = v.sequence /\ s.sequence > 0 => s.permitted = v.permitted

OrderInv ==
    /\ up => /\ slot[live].sequence <= current.sequence
             /\ SameNumberSameVerdict(slot[live], current)
    /\ lastSequence <= lastGood.sequence
    /\ mapped = 0 => lastGood.sequence = 0
    /\ mapped # 0 => /\ lastGood.sequence <= slot[mapped].sequence
                     /\ SameNumberSameVerdict(lastGood, slot[mapped])

LEMMA InitOrderInv == Init => OrderInv
BY DEF Init, CellInit, OrderInv, NoView

\* A step acts on the number of its view or on none.
LEMMA StepNumber ==
    ASSUME NEW view, NEW at, Step(view, at)
    PROVE  \/ lastSequence' = lastSequence
           \/ view.valid /\ lastSequence' = view.sequence
BY DEF Step, HoldWithoutInformation, HoldOnStaleInformation, HoldOnStop,
       MeasureStop, RunOnPermit, measurement

LEMMA NumbersAreNumbers ==
    ASSUME TypeInv
    PROVE  /\ current.sequence \in Nat /\ current.asserted \in Nat
           /\ lastGood.sequence \in Nat /\ lastSequence \in Nat
           /\ \A r \in Regions : slot[r].sequence \in Nat
           /\ \A t \in Threads : reg[t].sequence \in Nat
           /\ now \in Nat /\ (up => live \in Regions)
           /\ mapped # 0 => mapped \in Regions
<1>1. /\ slot \in [Regions -> SafetySignal] /\ reg \in [Threads -> SafetySignal]
      /\ current \in SafetySignal
  BY DEF TypeInv, TypeOK
<1> QED
  BY <1>1, SignalFields, RegionOfTheReader
     DEF TypeInv, TypeOK, WriterHasARegion, CellTypeOK, SafetyView

LEMMA NextOrderInv ==
    ASSUME Beater = "main"
    PROVE  TypeInv /\ TypeInv' /\ PunctualInv /\ PermitInv /\ OrderInv /\ [Next]_vars
             => OrderInv'
<1> SUFFICES ASSUME TypeInv, TypeInv', PunctualInv, PermitInv, OrderInv, [Next]_vars
             PROVE  OrderInv'
  OBVIOUS
<1>1. /\ Threads = {"main"} /\ slot \in [Regions -> SafetySignal]
      /\ reg \in [Threads -> SafetySignal]
      /\ pc \in [Threads -> {"off", "idle", "stamp", "begin", "end"}]
  BY DEF TypeInv, TypeOK, Threads
<1>2. /\ current.sequence \in Nat /\ lastGood.sequence \in Nat /\ lastSequence \in Nat
      /\ \A r \in Regions : slot[r].sequence \in Nat
      /\ (up => live \in Regions) /\ (mapped # 0 => mapped \in Regions)
  BY NumbersAreNumbers
<1>3. UNCHANGED cellVars => lastSequence' = lastSequence
  BY DEF cellVars, measurement
<1>4. CASE UNCHANGED <<live, up, slot, current, mapped, lastGood, cellVars>>
  BY <1>3, <1>4 DEF OrderInv
<1>5. CASE Tick \/ Heartbeat \/ UNCHANGED vars
  BY <1>4, <1>5 DEF Tick, Heartbeat, vars, writerVars, readerVars
<1>6. ASSUME NEW t \in Threads, Stamp(t) \/ StoreBegin(t) PROVE OrderInv'
  BY <1>4, <1>6 DEF Stamp, StoreBegin, readerVars
<1>7. CASE Create
  <2>1. /\ live' = live + 1 /\ current' = ZeroSignal
        /\ UNCHANGED <<slot, mapped, lastGood, cellVars>>
    BY <1>7 DEF Create, readerVars
  <2>2. live' \in Regions /\ live' > live
    BY <1>7, <2>1, SharedMemoryAssumption DEF Create, TypeInv, TypeOK, Regions
  <2>3. slot'[live'] = ZeroSignal
    BY <2>1, <2>2 DEF PunctualInv
  <2> QED
    BY <1>3, <2>1, <2>3 DEF OrderInv, SameNumberSameVerdict, ZeroSignal
<1>8. ASSUME NEW permitted \in BOOLEAN, Decide(permitted) PROVE OrderInv'
  <2>1. /\ UNCHANGED <<live, up, slot, mapped, lastGood, cellVars>>
        /\ current'.sequence = current.sequence + 1
    BY <1>8 DEF Decide, NewSequence, readerVars
  <2>2. up => /\ slot[live].sequence <= current'.sequence
              /\ slot[live].sequence # current'.sequence
    BY <1>2, <2>1 DEF OrderInv
  <2> QED
    BY <1>3, <2>1, <2>2 DEF OrderInv, SameNumberSameVerdict
<1>9. ASSUME NEW t \in Threads, StoreEnd(t) PROVE OrderInv'
  <2>1. /\ pc["main"] = "end" /\ slot' = [slot EXCEPT ![live] = reg["main"]]
        /\ UNCHANGED <<live, up, current, mapped, lastGood, cellVars>>
    BY <1>1, <1>9 DEF StoreEnd, readerVars
  <2>2. up /\ live \in Regions
    BY <1>1, <2>1 DEF TypeInv, WriterHasARegion
  <2>3. CurrentVerdict(slot'[live]) /\ \A r \in Regions : r # live => slot'[r] = slot[r]
    BY <1>1, <2>1, <2>2 DEF PermitInv, SameVerdict
  <2>4. /\ slot'[live].sequence <= current'.sequence
        /\ SameNumberSameVerdict(slot'[live], current')
    BY <1>2, <2>1, <2>3 DEF CurrentVerdict, SameNumberSameVerdict
  <2>5. CASE mapped = live
    <3>1. /\ lastGood.sequence <= slot[live].sequence
          /\ slot[live].sequence <= current.sequence
          /\ SameNumberSameVerdict(lastGood, slot[live])
          /\ SameNumberSameVerdict(slot[live], current)
          /\ slot[live].sequence \in Nat
      BY <1>2, <2>2, <2>5, SharedMemoryAssumption DEF OrderInv, Regions
    <3>2. /\ lastGood.sequence <= slot'[live].sequence
          /\ SameNumberSameVerdict(lastGood, slot'[live])
      BY <1>2, <2>3, <3>1 DEF CurrentVerdict, SameNumberSameVerdict
    <3> QED
      BY <1>3, <2>1, <2>2, <2>4, <2>5, <3>2 DEF OrderInv
  <2>6. CASE mapped # live
    BY <1>2, <1>3, <2>1, <2>2, <2>3, <2>4, <2>6 DEF OrderInv
  <2> QED
    BY <2>5, <2>6
<1>10. CASE Crash
  BY <1>3, <1>10 DEF Crash, OrderInv, readerVars
<1>11. CASE OpenExisting
  <2>1. /\ mapped = 0 /\ mapped' = live /\ lastGood.sequence = 0
        /\ UNCHANGED <<live, up, slot, current, lastGood, cellVars>>
    BY <1>11 DEF OpenExisting, PermitInv, NothingMapped, OrderInv, writerVars
  <2>2. mapped' # 0 => slot'[mapped'].sequence \in Nat
    BY <2>1, NumbersAreNumbers, SharedMemoryAssumption, <1>1
       DEF TypeInv, TypeOK, Regions, SafetySignal
  <2> QED
    BY <1>3, <2>1, <2>2 DEF OrderInv, SameNumberSameVerdict
<1>12. CASE Sample
  BY <1>4, <1>12 DEF Sample, writerVars
<1>13. CASE StepCell
  <2>1. UNCHANGED <<live, up, slot, current, mapped>>
    BY <1>13 DEF StepCell, writerVars
  <2>2. CASE mapped = 0
    <3>1. lastSequence' = lastSequence /\ lastGood' = lastGood
      BY <1>13, <2>2, StepNumber, PollIsLastGood
    <3> QED
      BY <2>1, <2>2, <3>1 DEF OrderInv
  <2>3. CASE mapped # 0
    <3>1. /\ lastGood' = Poll
          /\ Poll = lastGood \/ Poll = ViewOf(slot[mapped], now, slot[mapped].published)
          /\ lastSequence' = lastSequence \/ lastSequence' = Poll.sequence
      BY <1>13, <2>3, StepNumber, PollIsLastGood
    <3>2. /\ lastGood.sequence <= Poll.sequence
          /\ Poll.sequence <= slot[mapped].sequence
          /\ SameNumberSameVerdict(Poll, slot[mapped])
      BY <1>2, <2>3, <3>1 DEF OrderInv, ViewOf, SameNumberSameVerdict
    <3>3. Poll.sequence \in Nat
      BY <1>2, <2>3, <3>1 DEF ViewOf
    <3>4. lastSequence' <= Poll.sequence
      BY <1>2, <3>1, <3>2, <3>3 DEF OrderInv
    <3> QED
      BY <2>1, <2>3, <3>1, <3>2, <3>4 DEF OrderInv
  <2> QED
    BY <2>2, <2>3
<1> QED
  BY <1>5, <1>6, <1>7, <1>8, <1>9, <1>10, <1>11, <1>12, <1>13 DEF Next, Writer, Reader

LEMMA OrderInvHolds ==
    ASSUME Beater = "main"
    PROVE  Spec => []OrderInv
BY InitOrderInv, NextOrderInv, TypeInvHolds, PunctualInvHolds, PermitInvHolds, PTL DEF Spec

\* For a writer of one thread: the cell never falls back to an older verdict, torn
\* reads and a region whose writer is gone included.
THEOREM VerdictsArriveInOrder ==
    ASSUME Beater = "main"
    PROVE  Spec => NeverBackToOlderVerdict
<1>1. TypeInv /\ TypeInv' /\ OrderInv /\ [Next]_vars => [lastSequence' >= lastSequence]_vars
  <2> SUFFICES ASSUME TypeInv, OrderInv, [Next]_vars
               PROVE  lastSequence' >= lastSequence
    OBVIOUS
  <2>1. lastSequence \in Nat /\ lastGood.sequence \in Nat /\ lastSequence <= lastGood.sequence
    BY NumbersAreNumbers DEF OrderInv
  <2>2. CASE lastSequence' = lastSequence
    BY <2>1, <2>2
  <2>3. CASE lastSequence' # lastSequence
    <3>1. StepCell
      BY <2>3 DEF Next, Tick, Writer, Create, Decide, Heartbeat, Stamp, StoreBegin, StoreEnd,
             Crash, Reader, OpenExisting, Sample, readerVars, cellVars, measurement, vars
    <3>2. mapped # 0 /\ lastSequence' = Poll.sequence
      BY <2>3, <3>1, StepNumber, PollIsLastGood
    <3>3. Poll = lastGood \/ Poll.sequence = slot[mapped].sequence
      BY <3>1, <3>2, PollIsLastGood DEF ViewOf
    <3>4. lastGood.sequence <= slot[mapped].sequence /\ slot[mapped].sequence \in Nat
      BY <3>2, NumbersAreNumbers DEF OrderInv
    <3> QED
      BY <2>1, <3>2, <3>3, <3>4
  <2> QED
    BY <2>2, <2>3
<1> QED
  BY <1>1, TypeInvHolds, OrderInvHolds, PTL DEF Spec, NeverBackToOlderVerdict

-----------------------------------------------------------------------------
(* Measured stops, for a writer of one thread.  A cell that moves acted on   *)
(* its last good reading, a permit under a number a writer gave; decisions   *)
(* are stamped before they can be observed.  Signals without a number have   *)
(* no stamp either: no motion rests on one.                                  *)

Stamped(s) == s.sequence = 0 => s.published = 0

StopInv ==
    /\ now >= Uptime
    /\ readerPc = "sampled" => sampledAt >= Uptime
    /\ Stamped(lastGood) /\ Stamped(reg["main"])
    /\ reg["main"].asserted <= now
    /\ \A r \in Regions : Stamped(slot[r]) /\ slot[r].asserted <= now
    /\ Moving => /\ wasPermitted /\ lastGood.permitted
                 /\ lastSequence = lastGood.sequence /\ lastSequence > 0

LEMMA InitStopInv == Init => StopInv
<1> SUFFICES ASSUME Init PROVE StopInv
  OBVIOUS
<1>1. /\ reg["main"] = ZeroSignal /\ \A r \in Regions : slot[r] = ZeroSignal
      /\ now \in Nat /\ now = Uptime
  BY SharedMemoryAssumption DEF Init, Threads
<1> QED
  BY <1>1 DEF Init, CellInit, StopInv, Stamped, Moving, NoView, ZeroSignal

\* A step that moves leaves the number of its view, a fresh permit.
LEMMA StepThatMoves ==
    ASSUME CellTypeOK, NEW view \in SafetyView, NEW at \in Nat, Step(view, at), Moving'
    PROVE  /\ wasPermitted' /\ view.permitted /\ lastSequence' = view.sequence
           /\ at <= view.published + MaxSafetyAge
<1>1. phase' # Held
  BY DEF Moving
<1>2. RunOnPermit(view, at)
  BY <1>1 DEF Step, HoldWithoutInformation, HoldOnStaleInformation, HoldOnStop, EnterHold
<1>3. wasPermitted' = TRUE
  BY <1>2 DEF RunOnPermit
<1> QED
  BY <1>1, <1>2, <1>3, StepMovesOnlyOnFreshPermit DEF RunOnPermit

LEMMA NextStopInv ==
    ASSUME Beater = "main"
    PROVE  TypeInv /\ TypeInv' /\ PermitInv /\ StopInv /\ [Next]_vars => StopInv'
<1> SUFFICES ASSUME TypeInv, TypeInv', PermitInv, StopInv, [Next]_vars
             PROVE  StopInv'
  OBVIOUS
<1>1. /\ Threads = {"main"} /\ slot \in [Regions -> SafetySignal]
      /\ reg \in [Threads -> SafetySignal]
      /\ pc \in [Threads -> {"off", "idle", "stamp", "begin", "end"}]
  BY DEF TypeInv, TypeOK, Threads
<1>2. /\ now \in Nat /\ Uptime \in Nat /\ reg["main"].asserted \in Nat
      /\ \A r \in Regions : slot[r].asserted \in Nat
  BY <1>1, SharedMemoryAssumption, SignalFields DEF TypeInv, TypeOK
<1>3. UNCHANGED cellVars => Moving' = Moving /\ UNCHANGED <<wasPermitted, lastSequence>>
  BY DEF cellVars, measurement, Moving
<1>4. CASE UNCHANGED <<now, slot, reg, readerPc, sampledAt, lastGood, cellVars>>
  BY <1>3, <1>4 DEF StopInv
<1>5. CASE Crash \/ UNCHANGED vars
  BY <1>4, <1>5 DEF Crash, vars, writerVars, readerVars
<1>6. ASSUME NEW t \in Threads, StoreBegin(t) PROVE StopInv'
  BY <1>4, <1>6 DEF StoreBegin, readerVars
<1>7. CASE Tick
  <2>1. /\ UNCHANGED <<slot, reg, readerPc, sampledAt, lastGood, cellVars>>
        /\ now' = now + 1
    BY <1>7 DEF Tick, writerVars, readerVars
  <2>2. /\ now' >= Uptime /\ reg'["main"].asserted <= now'
        /\ \A r \in Regions : slot'[r].asserted <= now'
    BY <1>2, <2>1 DEF StopInv
  <2> QED
    BY <1>3, <2>1, <2>2 DEF StopInv
<1>8. CASE Create
  <2>1. /\ UNCHANGED <<now, slot, readerPc, sampledAt, lastGood, cellVars>>
        /\ reg'["main"] = DefaultSignal
    BY <1>1, <1>8 DEF Create, readerVars
  <2>2. Stamped(reg'["main"]) /\ reg'["main"].asserted <= now'
    BY <1>2, <2>1 DEF Stamped, DefaultSignal
  <2> QED
    BY <1>3, <2>1, <2>2 DEF StopInv
<1>9. ASSUME NEW permitted \in BOOLEAN, Decide(permitted) PROVE StopInv'
  <2>1. /\ UNCHANGED <<now, slot, readerPc, sampledAt, lastGood, cellVars>>
        /\ reg'["main"] = current' /\ current'.asserted = now /\ current'.published = 0
    BY <1>1, <1>9 DEF Decide, Publish, readerVars
  <2>2. Stamped(reg'["main"]) /\ reg'["main"].asserted <= now'
    BY <1>2, <2>1 DEF Stamped
  <2> QED
    BY <1>3, <2>1, <2>2 DEF StopInv
<1>10. CASE Heartbeat
  <2>1. /\ UNCHANGED <<now, slot, readerPc, sampledAt, lastGood, cellVars>>
        /\ reg'["main"] = slot[live] /\ live \in Regions
    BY <1>1, <1>10 DEF Heartbeat, readerVars, TypeInv, WriterHasARegion
  <2>2. Stamped(reg'["main"]) /\ reg'["main"].asserted <= now'
    BY <2>1 DEF StopInv
  <2> QED
    BY <1>3, <2>1, <2>2 DEF StopInv
<1>11. ASSUME NEW t \in Threads, Stamp(t) PROVE StopInv'
  <2>1. /\ UNCHANGED <<now, slot, readerPc, sampledAt, lastGood, cellVars>>
        /\ pc["main"] = "stamp"
        /\ reg'["main"].sequence = reg["main"].sequence
        /\ reg'["main"].asserted = reg["main"].asserted
    BY <1>1, <1>11 DEF Stamp, readerVars, SafetySignal
  <2>2. reg["main"].sequence # 0
    BY <2>1 DEF PermitInv, SameVerdict, CurrentVerdict
  <2>3. Stamped(reg'["main"]) /\ reg'["main"].asserted <= now'
    BY <2>1, <2>2 DEF StopInv, Stamped
  <2> QED
    BY <1>3, <2>1, <2>3 DEF StopInv
<1>12. ASSUME NEW t \in Threads, StoreEnd(t) PROVE StopInv'
  <2>1. /\ UNCHANGED <<now, reg, readerPc, sampledAt, lastGood, cellVars>>
        /\ \A r \in Regions : slot'[r] = slot[r] \/ slot'[r] = reg["main"]
    BY <1>1, <1>12 DEF StoreEnd, readerVars
  <2>2. \A r \in Regions : Stamped(slot'[r]) /\ slot'[r].asserted <= now'
    BY <2>1 DEF StopInv
  <2> QED
    BY <1>3, <2>1, <2>2 DEF StopInv
<1>13. CASE OpenExisting
  <2>1. /\ UNCHANGED <<now, slot, reg, sampledAt, lastGood, cellVars>>
        /\ readerPc' = "asleep"
    BY <1>13 DEF OpenExisting, writerVars
  <2> QED
    BY <1>3, <2>1 DEF StopInv
<1>14. CASE Sample
  <2>1. /\ UNCHANGED <<now, slot, reg, lastGood, cellVars>>
        /\ sampledAt' = now
    BY <1>14 DEF Sample, writerVars
  <2> QED
    BY <1>3, <2>1 DEF StopInv
<1>15. CASE StepCell
  <2>1. /\ UNCHANGED <<now, slot, reg, mapped, sampledAt>>
        /\ readerPc' = "asleep" /\ readerPc = "sampled"
    BY <1>15 DEF StepCell, writerVars
  <2>2. Stamped(lastGood')
    <3>1. CASE mapped = 0
      BY <1>15, <3>1, PollIsLastGood DEF StopInv
    <3>2. CASE mapped # 0
      <4>1. mapped \in Regions
        BY <3>2, RegionOfTheReader
      <4>2. lastGood' = lastGood
              \/ lastGood' = ViewOf(slot[mapped], now, slot[mapped].published)
        BY <1>15, <3>2, PollIsLastGood
      <4> QED
        BY <4>1, <4>2 DEF StopInv, Stamped, ViewOf
    <3> QED
      BY <3>1, <3>2
  <2>3. ASSUME Moving'
        PROVE  /\ wasPermitted' /\ lastGood'.permitted
               /\ lastSequence' = lastGood'.sequence /\ lastSequence' > 0
    <3>1. Poll \in SafetyView /\ sampledAt \in Nat /\ CellTypeOK
      BY PollIsAView DEF TypeInv, TypeOK
    <3>2. /\ wasPermitted' /\ Poll.permitted /\ lastSequence' = Poll.sequence
          /\ sampledAt <= Poll.published + MaxSafetyAge
          /\ Poll.valid
      BY <1>15, <2>3, <3>1, StepThatMoves, StepMovesOnlyOnFreshPermit, PollIsLastGood
         DEF Moving
    <3>3. lastGood' = Poll
      BY <1>15, <3>2, PollIsLastGood
    <3>4. Poll.published > 0
      <4>1. sampledAt >= Uptime /\ Uptime > MaxSafetyAge
        BY <2>1, SharedMemoryAssumption DEF StopInv
      <4>2. Poll.published \in Nat
        BY <3>1 DEF SafetyView, Instant
      <4> QED
        BY <1>2, <3>1, <3>2, <4>1, <4>2, CellAssumption
    <3>5. Poll.sequence > 0
      BY <2>2, <3>1, <3>3, <3>4 DEF Stamped, SafetyView
    <3> QED
      BY <3>2, <3>3, <3>5
  <2> QED
    BY <2>1, <2>2, <2>3 DEF StopInv
<1> QED
  BY <1>5, <1>6, <1>7, <1>8, <1>9, <1>10, <1>11, <1>12, <1>13, <1>14, <1>15
     DEF Next, Writer, Reader

LEMMA StopInvHolds ==
    ASSUME Beater = "main"
    PROVE  Spec => []StopInv
BY InitStopInv, NextStopInv, TypeInvHolds, PermitInvHolds, PTL DEF Spec

\* For a writer of one thread: a stop that ends a motion is new to the cell, and what
\* is measured is the whole interval from the decision stored in the region the reader
\* mapped to the poll that saw it.
THEOREM EveryStopMeasured ==
    ASSUME Beater = "main"
    PROVE  Spec => EveryStopIsMeasured
<1> DEFINE Ends == /\ StepCell /\ Moving /\ phase' = Held
                   /\ Poll.valid /\ ~Stale(Poll, sampledAt)
           Measured == /\ ~Poll.permitted
                       /\ hasStopMeasurement'
                       /\ lastStopReaction' = now - slot[mapped].asserted
<1>1. TypeInv /\ TypeInv' /\ OrderInv /\ StopInv /\ [Next]_vars => [Ends => Measured]_vars
  <2> SUFFICES ASSUME TypeInv, TypeInv', OrderInv, StopInv, Ends
               PROVE  Measured
    OBVIOUS
  <2>1. /\ wasPermitted /\ lastGood.permitted
        /\ lastSequence = lastGood.sequence /\ lastSequence > 0
    BY DEF StopInv
  <2>2. HoldOnStop(Poll, sampledAt)
    <3>1. ~RunOnPermit(Poll, sampledAt)
      <4>1. ASSUME RunOnPermit(Poll, sampledAt) PROVE FALSE
        <5>1. ActivePhase = phase /\ ActivePhase # Held /\ ActivePhase # "idle"
          BY DEF ActivePhase, Moving
        <5>2. CellTypeOK
          BY DEF TypeInv, TypeOK
        <5>3. Step(Poll, sampledAt)
          BY <4>1 DEF Step
        <5>4. wasPermitted' = TRUE
          BY <4>1 DEF RunOnPermit
        <5> QED
          BY <5>2, <5>3, <5>4, StepPhases DEF Held, CyclePhases
      <4> QED
        BY <4>1
    <3> QED
      BY <3>1, PollIsLastGood
         DEF Step, HoldWithoutInformation, HoldOnStaleInformation
  <2>3. ~Poll.permitted
    BY <2>2 DEF HoldOnStop
  <2>4. /\ mapped \in Regions /\ mapped # 0
        /\ Poll = ViewOf(slot[mapped], now, slot[mapped].published)
    BY <2>1, <2>3, PollIsLastGood, RegionOfTheReader
  <2>5. Poll.sequence # lastSequence
    <3>1. SameNumberSameVerdict(lastGood, slot[mapped])
      BY <2>4 DEF OrderInv
    <3> QED
      BY <2>1, <2>3, <2>4, <3>1 DEF SameNumberSameVerdict, ViewOf
  <2>6. /\ lastStopReaction' = IF Poll.observed > Poll.asserted
                                 THEN Poll.observed - Poll.asserted ELSE 0
        /\ hasStopMeasurement' = TRUE
    BY <2>1, <2>2, <2>5 DEF HoldOnStop, MeasureStop, IsFreshStop
  <2>7. lastStopReaction' = now - slot[mapped].asserted
    <3>1. /\ slot[mapped].asserted <= now /\ slot[mapped].asserted \in Nat /\ now \in Nat
      BY <2>4, SignalFields DEF StopInv, TypeInv, TypeOK
    <3>2. Poll.observed = now /\ Poll.asserted = slot[mapped].asserted
      BY <2>4 DEF ViewOf
    <3> QED
      BY <2>6, <3>1, <3>2
  <2> QED
    BY <2>3, <2>6, <2>7
<1> QED
  BY <1>1, TypeInvHolds, OrderInvHolds, StopInvHolds, PTL DEF Spec, EveryStopIsMeasured
=============================================================================
