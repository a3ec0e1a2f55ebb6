---------------------------- MODULE DaemonProofs ----------------------------
(***************************************************************************)
(* Theorems about the life of pickcelld, for every number of clients, size *)
(* of the response buffer and length of the poller's sleep.                *)
(***************************************************************************)
EXTENDS Daemon, TLAPS

-----------------------------------------------------------------------------
(* Type correctness, with what main()'s position says about its locals: they *)
(* are all there from the start of the server until the return, the control  *)
(* thread has ended by then and the poller when main() ends.                 *)

ScopeInv ==
    /\ mainPc = "building" =>
         /\ built < 5
         /\ built = 0 <=> poller = "off"
         /\ built < 4 <=> control = "off"
    /\ mainPc \in {"starting", "waiting", "stopping", "joining", "closing", "draining"}
         => built = 5
    /\ mainPc = "returning" => built >= 1
    /\ mainPc = "unlinking" => built = 1
    /\ mainPc \in {"closing", "draining", "returning", "unlinking", "exited"}
         => control = "ended"
    /\ mainPc = "exited" => poller = "ended"

Inv == TypeOK /\ ScopeInv

LEMMA InitInv == Init => Inv
<1> SUFFICES ASSUME Init PROVE Inv
  OBVIOUS
<1>1. /\ handler \in [Clients -> {"none", "healthz", "ok", "stopping", "metrics"}]
      /\ answer \in [status : {200, 503}, body : {"ok", "stopping"}]
  BY DEF Init
<1>2. filled \in 0 .. Room /\ slept \in 0 .. Slices
  BY DaemonAssumption DEF Init
<1>3. ScopeInv
  BY DEF Init, ScopeInv
<1>4. shutdownRequested \in BOOLEAN /\ running \in BOOLEAN /\ polling \in BOOLEAN
  BY DEF Init
<1>5. /\ mainPc = "building" /\ exitCode = 0 /\ built = 0 /\ control = "off"
      /\ poller = "off" /\ server = "idle" /\ lateSteps = 0 /\ lateFetches = 0
  BY DEF Init
<1> QED
  BY <1>1, <1>2, <1>3, <1>4, <1>5 DEF Inv, TypeOK

LEMMA MainKeepsInv == Inv /\ Main => Inv'
<1> SUFFICES ASSUME Inv, Main PROVE Inv'
  OBVIOUS
<1> USE DEF Inv, TypeOK, ScopeInv, flagVars, controlVars, pollerVars, serverVars
<1>1. CASE Construct
  <2>1. /\ built \in 0 .. 4 /\ built' = built + 1 /\ mainPc = "building"
        /\ UNCHANGED <<exitCode, flagVars, lateSteps, filled, slept, lateFetches, serverVars>>
    BY <1>1 DEF Construct
  <2>2. /\ poller' = IF built = 0 THEN "checking" ELSE poller
        /\ control' = IF built = 3 THEN "checking" ELSE control
        /\ mainPc' = IF built = 4 THEN "starting" ELSE "building"
    BY <1>1, <2>1 DEF Construct, Position
  <2> QED
    BY <2>1, <2>2
<1> DEFINE Flags == /\ shutdownRequested \in BOOLEAN /\ running \in BOOLEAN
                    /\ polling \in BOOLEAN
<1>2. CASE Start
  BY <1>2 DEF Start
<1>3. CASE HearSignal
  BY <1>3 DEF HearSignal
<1>4. CASE StartFails
  <2>1. Flags'
    BY <1>4 DEF StartFails
  <2>2. /\ mainPc = "starting" /\ mainPc' = "joining" /\ exitCode' = 3
        /\ UNCHANGED <<built, controlVars, pollerVars, serverVars>>
    BY <1>4 DEF StartFails
  <2> QED
    BY <2>1, <2>2
<1>5. CASE StopControl
  <2>1. Flags'
    BY <1>5 DEF StopControl
  <2>2. /\ mainPc = "stopping" /\ mainPc' = "joining"
        /\ UNCHANGED <<exitCode, built, controlVars, pollerVars, serverVars>>
    BY <1>5 DEF StopControl
  <2> QED
    BY <2>1, <2>2
<1>6. CASE JoinControl \/ CloseServer \/ DrainServer
  BY <1>6 DEF JoinControl, CloseServer, DrainServer
<1>7. CASE Unwind
  <2>1. /\ built \in 2 .. 5 /\ built' = built - 1
        /\ UNCHANGED <<mainPc, exitCode, flagVars, controlVars, pollerVars, serverVars>>
        /\ mainPc = "returning"
    BY <1>7 DEF Unwind, Position
  <2> QED
    BY <2>1
<1>8. CASE StopPolling
  <2>1. Flags'
    BY <1>8 DEF StopPolling
  <2>2. /\ mainPc = "returning" /\ built = 1 /\ mainPc' = "unlinking"
        /\ UNCHANGED <<exitCode, built, controlVars, pollerVars, serverVars>>
    BY <1>8 DEF StopPolling, Position
  <2> QED
    BY <2>1, <2>2
<1>9. CASE JoinPoller
  BY <1>9 DEF JoinPoller
<1> QED
  BY <1>1, <1>2, <1>3, <1>4, <1>5, <1>6, <1>7, <1>8, <1>9 DEF Main

LEMMA ThreadsKeepInv == Inv /\ (Control \/ Poller) => Inv'
<1> SUFFICES ASSUME Inv, Control \/ Poller PROVE Inv'
  OBVIOUS
<1> USE DEF Inv, TypeOK, ScopeInv, mainVars, flagVars, controlVars, pollerVars, serverVars
<1>1. CASE Control
  BY <1>1 DEF Control, CheckRunning, StepCell, SleepPeriod
<1>2. CASE CheckPolling \/ Connect
  BY <1>2, DaemonAssumption DEF CheckPolling, Connect
<1>3. CASE Read \/ ReadNothing
  BY <1>3, DaemonAssumption DEF Read, ReadNothing
<1>4. CASE SleepSlice \/ WakeUp
  BY <1>4, DaemonAssumption DEF SleepSlice, WakeUp
<1> QED
  BY <1>1, <1>2, <1>3, <1>4 DEF Poller

LEMMA HandlersKeepInv ==
    ASSUME Inv, NEW c \in Clients, Request(c) \/ Handle(c)
    PROVE  Inv'
BY DEF Inv, TypeOK, ScopeInv, mainVars, flagVars, controlVars, pollerVars,
       Request, Handle, HealthzBody, HealthzStatus, Metrics

LEMMA NextInv == Inv /\ [Next]_vars => Inv'
<1> SUFFICES ASSUME Inv, [Next]_vars PROVE Inv'
  OBVIOUS
<1>1. CASE Signal
  BY <1>1 DEF Signal, Inv, TypeOK, ScopeInv, mainVars, controlVars, pollerVars, serverVars
<1>2. CASE UNCHANGED vars
  BY <1>2 DEF vars, Inv, TypeOK, ScopeInv, mainVars, flagVars, controlVars, pollerVars,
              serverVars
<1> QED
  BY <1>1, <1>2, MainKeepsInv, ThreadsKeepInv, HandlersKeepInv DEF Next

LEMMA InvHolds == Spec => []Inv
BY InitInv, NextInv, PTL DEF Spec

\* Flags, threads, handlers and locals are always in one of the states listed.
THEOREM DaemonTypeCorrect == Spec => []TypeOK
BY InvHolds, PTL DEF Inv

-----------------------------------------------------------------------------
(* A handler runs only under a server that was started and not yet drained.  *)

ServerInv ==
    /\ server # "idle"
         => /\ mainPc \in {"waiting", "stopping", "joining", "closing", "draining"}
            /\ exitCode = 0
    /\ \A c \in Clients : handler[c] # "none" => server # "idle"
    /\ mainPc \in {"building", "starting", "waiting", "stopping", "closing"}
         => exitCode = 0

LEMMA NextServerInv == Inv /\ ServerInv /\ [Next]_vars => ServerInv'
<1> SUFFICES ASSUME Inv, ServerInv, [Next]_vars PROVE ServerInv'
  OBVIOUS
<1> USE DEF ServerInv, mainVars, flagVars, controlVars, pollerVars, serverVars
<1>1. CASE Construct \/ Start \/ StartFails \/ HearSignal \/ StopControl \/ JoinControl
  BY <1>1 DEF Construct, Start, StartFails, HearSignal, StopControl, JoinControl
<1>2. CASE CloseServer
  <2>1. /\ mainPc = "closing" /\ mainPc' = "draining" /\ server' = "closing"
        /\ UNCHANGED <<exitCode, handler>> /\ exitCode = 0
    BY <1>2 DEF CloseServer
  <2> QED
    BY <2>1
<1>3. CASE DrainServer
  BY <1>3 DEF DrainServer
<1>4. CASE Unwind \/ StopPolling \/ JoinPoller
  <2>1. server = "idle"
    BY <1>4 DEF Unwind, StopPolling, JoinPoller
  <2>2. UNCHANGED <<exitCode, serverVars>> /\ mainPc' \in {"returning", "unlinking", "exited"}
    BY <1>4 DEF Unwind, StopPolling, JoinPoller
  <2> QED
    BY <2>1, <2>2
<1>5. CASE Signal \/ Control \/ Poller \/ UNCHANGED vars
  <2>1. UNCHANGED <<mainVars, serverVars>>
    BY <1>5 DEF Signal, Control, CheckRunning, StepCell, SleepPeriod, Poller, CheckPolling,
                Connect, Read, ReadNothing, SleepSlice, WakeUp, vars
  <2> QED
    BY <2>1
<1>6. ASSUME NEW c \in Clients, Request(c) \/ Handle(c) PROVE ServerInv'
  <2>1. UNCHANGED <<mainVars, server>>
    BY <1>6 DEF Request, Handle, HealthzBody, HealthzStatus, Metrics
  <2>2. \A d \in Clients : d # c => handler'[d] = handler[d]
    BY <1>6 DEF Request, Handle, HealthzBody, HealthzStatus, Metrics, Inv, TypeOK
  <2>3. server # "idle"
    BY <1>6 DEF Request, Handle, HealthzBody, HealthzStatus, Metrics
  <2> QED
    BY <2>1, <2>2, <2>3
<1> QED
  BY <1>1, <1>2, <1>3, <1>4, <1>5, <1>6 DEF Next, Main

\* main() tears down in an order, and joins, so that no thread and no handler is ever
\* left with an object that is gone.
THEOREM NothingOutlivesItsScope == Spec => []NothingIsUsedOutOfScope
<1>1. Init => ServerInv
  BY DEF Init, ServerInv
<1>2. Spec => []ServerInv
  BY <1>1, NextServerInv, InvHolds, PTL DEF Spec
<1>3. Inv /\ ServerInv => NothingIsUsedOutOfScope
  <2> SUFFICES ASSUME Inv, ServerInv PROVE NothingIsUsedOutOfScope
    OBVIOUS
  <2>1. poller \notin {"off", "ended"} => built >= 1
    BY DEF Inv, TypeOK, ScopeInv
  <2>2. control \notin {"off", "ended"} => built >= 4
    BY DEF Inv, TypeOK, ScopeInv
  <2>3. \A c \in Clients : handler[c] # "none" => built >= 5
    BY DEF Inv, TypeOK, ScopeInv, ServerInv
  <2> QED
    BY <2>1, <2>2, <2>3 DEF NothingIsUsedOutOfScope, InScope, Position
<1> QED
  BY <1>2, <1>3, InvHolds, PTL

-----------------------------------------------------------------------------
(* Check, then act: a thread that has seen its flag cleared acts no more, so *)
(* that only the action it was on its way to comes late.                     *)

LateInv ==
    /\ running \/ control = "stepping" => lateSteps = 0
    /\ polling \/ poller = "connecting" => lateFetches = 0
    /\ AtMostOneMore

LEMMA NextLateInv == Inv /\ LateInv /\ [Next]_vars => LateInv'
<1> SUFFICES ASSUME Inv, LateInv, [Next]_vars PROVE LateInv'
  OBVIOUS
<1> USE DEF LateInv, AtMostOneMore, Inv, TypeOK,
            mainVars, flagVars, controlVars, pollerVars, serverVars
<1>1. CASE Construct \/ Start \/ StartFails \/ HearSignal \/ StopControl \/ JoinControl
  BY <1>1 DEF Construct, Start, StartFails, HearSignal, StopControl, JoinControl
<1>2. CASE CloseServer \/ DrainServer \/ Unwind \/ StopPolling \/ JoinPoller
  BY <1>2 DEF CloseServer, DrainServer, Unwind, StopPolling, JoinPoller
<1>3. CASE Control
  BY <1>3 DEF Control, CheckRunning, StepCell, SleepPeriod
<1>4. CASE Poller
  BY <1>4 DEF Poller, CheckPolling, Connect, Read, ReadNothing, SleepSlice, WakeUp
<1>5. CASE \/ Signal \/ UNCHANGED vars
           \/ \E c \in Clients : Request(c) \/ Handle(c)
  <2>1. UNCHANGED <<running, polling, controlVars, pollerVars>>
    BY <1>5 DEF Signal, Request, Handle, HealthzBody, HealthzStatus, Metrics, vars
  <2> QED
    BY <2>1
<1> QED
  BY <1>1, <1>2, <1>3, <1>4, <1>5 DEF Next, Main

\* Once its flag is cleared the cell takes at most one more step, and the link makes
\* at most one more fetch.
THEOREM OneMoreAtMost == Spec => []AtMostOneMore
<1>1. Init => LateInv
  BY DEF Init, LateInv, AtMostOneMore
<1>2. Spec => []LateInv
  BY <1>1, NextLateInv, InvHolds, PTL DEF Spec
<1> QED
  BY <1>2, PTL DEF LateInv

-----------------------------------------------------------------------------
(* The flag is cleared and never set again, and the body looks at it first.  *)

HealthInv ==
    /\ \A c \in Clients : handler[c] = "stopping" => ~running
    /\ HealthIsHonest

LEMMA NextHealthInv == Inv /\ HealthInv /\ [Next]_vars => HealthInv'
<1> SUFFICES ASSUME Inv, HealthInv, [Next]_vars PROVE HealthInv'
  OBVIOUS
<1> USE DEF HealthInv, HealthIsHonest, mainVars, flagVars, controlVars, pollerVars, serverVars
<1>1. CASE Main \/ Signal \/ Control \/ Poller \/ UNCHANGED vars
  <2>1. UNCHANGED <<handler, answer>> /\ (running' = running \/ ~running')
    BY <1>1 DEF Main, Construct, Start, StartFails, HearSignal, StopControl, JoinControl,
                CloseServer, DrainServer, Unwind, StopPolling, JoinPoller, Signal,
                Control, CheckRunning, StepCell, SleepPeriod, Poller, CheckPolling,
                Connect, Read, ReadNothing, SleepSlice, WakeUp, vars
  <2> QED
    BY <2>1
<1>2. ASSUME NEW c \in Clients, Request(c) \/ Handle(c) PROVE HealthInv'
  <2>1. /\ running' = running
        /\ handler \in [Clients -> {"none", "healthz", "ok", "stopping", "metrics"}]
    BY <1>2 DEF Request, Handle, HealthzBody, HealthzStatus, Metrics, Inv, TypeOK
  <2>2. \A d \in Clients : handler'[d] = "stopping" => ~running
    BY <1>2, <2>1 DEF Request, Handle, HealthzBody, HealthzStatus, Metrics
  <2>3. answer' = answer \/ (answer'.status = 200 => answer'.body = "ok")
    <3>1. CASE HealthzStatus(c)
      BY <2>1, <3>1 DEF HealthzStatus
    <3> QED
      BY <1>2, <3>1 DEF Request, Handle, HealthzBody, Metrics
  <2> QED
    BY <2>1, <2>2, <2>3
<1> QED
  BY <1>1, <1>2 DEF Next

\* An answer of 200 never says "stopping".
THEOREM HealthAnswersHonestly == Spec => []HealthIsHonest
<1>1. Init => HealthInv
  BY DEF Init, HealthInv, HealthIsHonest
<1>2. Spec => []HealthInv
  BY <1>1, NextHealthInv, InvHolds, PTL DEF Spec
<1> QED
  BY <1>2, PTL DEF HealthInv
=============================================================================
