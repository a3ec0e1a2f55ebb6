------------------------------- MODULE Daemon -------------------------------
(***************************************************************************)
(* The life of pickcelld: main() constructs the link (whose poller thread  *)
(* starts at once), the cell, the flag running, the control thread and the *)
(* metrics server, waits for a signal and takes it all down again in the   *)
(* opposite order; or the server fails to start.  The threads share flags  *)
(* and nothing else: each looks at its flag, then acts.  What the cell and *)
(* the link compute is in Cell and HttpCell.                               *)
(*                                                                         *)
(* The server is external (safeedge): once started it runs the handler of  *)
(* every request, some at once; stop() lets no request in any more and     *)
(* waits for the handlers under way.                                       *)
(***************************************************************************)
EXTENDS Naturals

CONSTANTS
    Clients,   \* those who may be asking the server for a page
    Room,      \* the bytes the response buffer takes
    Slices     \* how often the poller looks at its flag in a period's sleep

ASSUME DaemonAssumption == Room \in Nat \ {0} /\ Slices \in Nat

VARIABLES
    mainPc,             \* where main() is
    exitCode,           \* what it returns
    built,              \* how many of its locals are constructed
    shutdownRequested,  \* g_shutdown_requested
    running,            \* running
    polling,            \* running_, the link's
    control,            \* where the control thread is
    poller,             \* where the poller thread is
    filled,             \* bytes of the answer under way
    slept,              \* slices slept of the period under way
    server,             \* "idle", "serving" or "closing"
    handler,            \* handler[c]: "none", "healthz", "ok", "stopping" or "metrics"
    lateSteps,          \* history: steps begun since running was cleared
    lateFetches,        \* history: fetches begun since polling was cleared
    answer              \* history: the latest answer of /healthz

mainVars == <<mainPc, exitCode, built>>
flagVars == <<shutdownRequested, running, polling>>
controlVars == <<control, lateSteps>>
pollerVars == <<poller, filled, slept, lateFetches>>
serverVars == <<server, handler, answer>>
vars == <<mainVars, flagVars, controlVars, pollerVars, serverVars>>

\* main()'s locals in the order of their construction.
Position == [link |-> 1, cell |-> 2, running |-> 3, control |-> 4, server |-> 5]
InScope(object) == Position[object] <= built

TypeOK ==
    /\ mainPc \in {"building", "starting", "waiting", "stopping", "joining", "closing",
                   "draining", "returning", "unlinking", "exited"}
    /\ exitCode \in {0, 3}
    /\ built \in 0 .. 5
    /\ shutdownRequested \in BOOLEAN /\ running \in BOOLEAN /\ polling \in BOOLEAN
    /\ control \in {"off", "checking", "stepping", "sleeping", "ended"}
    /\ poller \in {"off", "checking", "connecting", "reading", "sleeping", "ended"}
    /\ filled \in 0 .. Room
    /\ slept \in 0 .. Slices
    /\ server \in {"idle", "serving", "closing"}
    /\ handler \in [Clients -> {"none", "healthz", "ok", "stopping", "metrics"}]
    /\ lateSteps \in Nat
    /\ lateFetches \in Nat
    /\ answer \in [status : {200, 503}, body : {"ok", "stopping"}]

Init ==
    /\ mainPc = "building"
    /\ exitCode = 0
    /\ built = 0
    /\ shutdownRequested = FALSE
    /\ running = TRUE
    /\ polling = TRUE
    /\ control = "off"
    /\ poller = "off"
    /\ filled = 0
    /\ slept = 0
    /\ server = "idle"
    /\ handler = [c \in Clients |-> "none"]
    /\ lateSteps = 0
    /\ lateFetches = 0
    /\ answer = [status |-> 200, body |-> "ok"]

\* SIGTERM or SIGINT, at any moment from main()'s first statement on.
Signal ==
    /\ mainPc # "exited"
    /\ shutdownRequested' = TRUE
    /\ UNCHANGED <<mainVars, running, polling, controlVars, pollerVars, serverVars>>

-----------------------------------------------------------------------------
(* main(). *)

\* The next local; the link and the control thread start a thread with it.
Construct ==
    /\ mainPc = "building"
    /\ built' = built + 1
    /\ poller' = IF built' = Position.link THEN "checking" ELSE poller
    /\ control' = IF built' = Position.control THEN "checking" ELSE control
    /\ mainPc' = IF built' = Position.server THEN "starting" ELSE "building"
    /\ UNCHANGED <<exitCode, flagVars, lateSteps, filled, slept, lateFetches, serverVars>>

Start ==
    /\ mainPc = "starting"
    /\ server' = "serving"
    /\ mainPc' = "waiting"
    /\ UNCHANGED <<exitCode, built, flagVars, controlVars, pollerVars, handler, answer>>

\* Mutant: the control thread is joined without being told to end.
StartFailsStillRunning ==
    /\ mainPc = "starting"
    /\ exitCode' = 3
    /\ mainPc' = "joining"
    /\ UNCHANGED <<built, flagVars, controlVars, pollerVars, serverVars>>

\* The port is taken, say.
StartFails ==
    /\ mainPc = "starting"
    /\ running' = FALSE
    /\ exitCode' = 3
    /\ mainPc' = "joining"
    /\ UNCHANGED <<built, shutdownRequested, polling, controlVars, pollerVars, serverVars>>

HearSignal ==
    /\ mainPc = "waiting"
    /\ shutdownRequested
    /\ mainPc' = "stopping"
    /\ UNCHANGED <<exitCode, built, flagVars, controlVars, pollerVars, serverVars>>

StopControl ==
    /\ mainPc = "stopping"
    /\ running' = FALSE
    /\ mainPc' = "joining"
    /\ UNCHANGED <<exitCode, built, shutdownRequested, polling, controlVars, pollerVars,
                   serverVars>>

\* Without a server that runs there is nothing to stop: return.
JoinControl ==
    /\ mainPc = "joining"
    /\ control = "ended"
    /\ mainPc' = IF exitCode = 0 THEN "closing" ELSE "returning"
    /\ UNCHANGED <<exitCode, built, flagVars, controlVars, pollerVars, serverVars>>

CloseServer ==
    /\ mainPc = "closing"
    /\ server' = "closing"
    /\ mainPc' = "draining"
    /\ UNCHANGED <<exitCode, built, flagVars, controlVars, pollerVars, handler, answer>>

DrainServer ==
    /\ mainPc = "draining"
    /\ \A c \in Clients : handler[c] = "none"
    /\ server' = "idle"
    /\ mainPc' = "returning"
    /\ UNCHANGED <<exitCode, built, flagVars, controlVars, pollerVars, handler, answer>>

\* The last local but the link goes out of scope.
Unwind ==
    /\ mainPc = "returning"
    /\ built > Position.link
    /\ built' = built - 1
    /\ UNCHANGED <<mainPc, exitCode, flagVars, controlVars, pollerVars, serverVars>>

\* ~HttpPollSafetyLink: the poller is told to end ...
StopPolling ==
    /\ mainPc = "returning"
    /\ built = Position.link
    /\ polling' = FALSE
    /\ mainPc' = "unlinking"
    /\ UNCHANGED <<exitCode, built, shutdownRequested, running, controlVars, pollerVars,
                   serverVars>>

\* Mutant: the link goes without its thread.
LeavePoller ==
    /\ mainPc = "unlinking"
    /\ built' = 0
    /\ mainPc' = "exited"
    /\ UNCHANGED <<exitCode, flagVars, controlVars, pollerVars, serverVars>>

\* ... and joined.
JoinPoller ==
    /\ mainPc = "unlinking"
    /\ poller = "ended"
    /\ built' = 0
    /\ mainPc' = "exited"
    /\ UNCHANGED <<exitCode, flagVars, controlVars, pollerVars, serverVars>>

Main ==
    \/ Construct \/ Start \/ StartFails \/ HearSignal \/ StopControl \/ JoinControl
    \/ CloseServer \/ DrainServer \/ Unwind \/ StopPolling \/ JoinPoller

-----------------------------------------------------------------------------
(* The control thread. *)

CheckRunning ==
    /\ control = "checking"
    /\ control' = IF running THEN "stepping" ELSE "ended"
    /\ UNCHANGED <<mainVars, flagVars, lateSteps, pollerVars, serverVars>>

StepCell ==
    /\ control = "stepping"
    /\ control' = "sleeping"
    /\ lateSteps' = IF running THEN lateSteps ELSE lateSteps + 1
    /\ UNCHANGED <<mainVars, flagVars, pollerVars, serverVars>>

\* Mutant: the loop steps again without looking.
SleepAndStep ==
    /\ control = "sleeping"
    /\ control' = IF running THEN "checking" ELSE "stepping"
    /\ UNCHANGED <<mainVars, flagVars, lateSteps, pollerVars, serverVars>>

SleepPeriod ==
    /\ control = "sleeping"
    /\ control' = "checking"
    /\ UNCHANGED <<mainVars, flagVars, lateSteps, pollerVars, serverVars>>

Control == CheckRunning \/ StepCell \/ SleepPeriod

-----------------------------------------------------------------------------
(* The poller thread: pollLoop and the waiting in fetchOnce. *)

CheckPolling ==
    /\ poller = "checking"
    /\ poller' = IF polling THEN "connecting" ELSE "ended"
    /\ UNCHANGED <<mainVars, flagVars, controlVars, filled, slept, lateFetches, serverVars>>

\* The request goes out, or does not.
Connect ==
    /\ poller = "connecting"
    /\ poller' \in {"reading", "sleeping"}
    /\ filled' = 0
    /\ slept' = 0
    /\ lateFetches' = IF polling THEN lateFetches ELSE lateFetches + 1
    /\ UNCHANGED <<mainVars, flagVars, controlVars, serverVars>>

\* Mutants: no room is kept for the end of the text; what has been read already is
\* forgotten.
ReadPastRoom ==
    /\ poller = "reading"
    /\ filled' \in filled + 1 .. Room + 1
    /\ poller' = IF filled' >= Room THEN "sleeping" ELSE "reading"
    /\ UNCHANGED <<mainVars, flagVars, controlVars, slept, lateFetches, serverVars>>

ReadOver ==
    /\ poller = "reading"
    /\ filled' \in 0 .. Room - 1
    /\ UNCHANGED <<mainVars, flagVars, controlVars, poller, slept, lateFetches, serverVars>>

\* A read brings some bytes in, the last ones that fit perhaps.  Reads go on until
\* then or until one brings nothing.
Read ==
    /\ poller = "reading"
    /\ filled' \in filled + 1 .. Room
    /\ poller' = IF filled' = Room THEN "sleeping" ELSE "reading"
    /\ UNCHANGED <<mainVars, flagVars, controlVars, slept, lateFetches, serverVars>>

\* End of file, an error, or the socket's timeout.
ReadNothing ==
    /\ poller = "reading"
    /\ poller' = "sleeping"
    /\ UNCHANGED <<mainVars, flagVars, controlVars, filled, slept, lateFetches, serverVars>>

SleepSlice ==
    /\ poller = "sleeping"
    /\ polling
    /\ slept < Slices
    /\ slept' = slept + 1
    /\ UNCHANGED <<mainVars, flagVars, controlVars, poller, filled, lateFetches, serverVars>>

WakeUp ==
    /\ poller = "sleeping"
    /\ ~polling \/ slept = Slices
    /\ poller' = "checking"
    /\ UNCHANGED <<mainVars, flagVars, controlVars, filled, slept, lateFetches, serverVars>>

Poller == CheckPolling \/ Connect \/ Read \/ ReadNothing \/ SleepSlice \/ WakeUp

-----------------------------------------------------------------------------
(* The server's handlers. *)

Request(c) ==
    /\ server = "serving"
    /\ handler[c] = "none"
    /\ \E page \in {"healthz", "metrics"} : handler' = [handler EXCEPT ![c] = page]
    /\ UNCHANGED <<mainVars, flagVars, controlVars, pollerVars, server, answer>>

HealthzBody(c) ==
    /\ handler[c] = "healthz"
    /\ handler' = [handler EXCEPT ![c] = IF running THEN "ok" ELSE "stopping"]
    /\ UNCHANGED <<mainVars, flagVars, controlVars, pollerVars, server, answer>>

\* Mutant: the status was computed before the body.
HealthzBodyLast(c) ==
    /\ handler[c] \in {"ok", "stopping"}
    /\ answer' = [body   |-> IF running THEN "ok" ELSE "stopping",
                  status |-> IF handler[c] = "ok" THEN 200 ELSE 503]
    /\ handler' = [handler EXCEPT ![c] = "none"]
    /\ UNCHANGED <<mainVars, flagVars, controlVars, pollerVars, server>>

\* The status is computed after the body, from a second look at the flag.
HealthzStatus(c) ==
    /\ handler[c] \in {"ok", "stopping"}
    /\ answer' = [body   |-> handler[c],
                  status |-> IF running THEN 200 ELSE 503]
    /\ handler' = [handler EXCEPT ![c] = "none"]
    /\ UNCHANGED <<mainVars, flagVars, controlVars, pollerVars, server>>

\* The page is put together from the cell and the link.
Metrics(c) ==
    /\ handler[c] = "metrics"
    /\ handler' = [handler EXCEPT ![c] = "none"]
    /\ UNCHANGED <<mainVars, flagVars, controlVars, pollerVars, server, answer>>

Handle(c) == HealthzBody(c) \/ HealthzStatus(c) \/ Metrics(c)

-----------------------------------------------------------------------------
Next ==
    \/ Main \/ Signal \/ Control \/ Poller
    \/ \E c \in Clients : Request(c) \/ Handle(c)

\* Every thread keeps being scheduled, and every wait of one is bounded: reads by the
\* socket's timeout, sleeps by their length.  No signal and no request need come.
Fairness ==
    /\ WF_vars(Main) /\ WF_vars(Control) /\ WF_vars(Poller)
    /\ \A c \in Clients : WF_vars(Handle(c))

Spec == Init /\ [][Next]_vars /\ Fairness

-----------------------------------------------------------------------------
\* No thread and no handler ever uses one of main()'s locals that is not there yet
\* or is gone, and none of them is still there when what started it goes: on the
\* way out through a signal and on the way out through a failed start alike.
NothingIsUsedOutOfScope ==
    /\ poller \notin {"off", "ended"} => InScope("link")
    /\ control \notin {"off", "ended"} => InScope("control")
    /\ \A c \in Clients : handler[c] # "none" => InScope("server")

\* A thread looks at its flag and then acts: once the flag is cleared, the cell takes
\* at most the one step, and the link makes at most the one fetch, that its thread
\* was on its way to.
AtMostOneMore == lateSteps <= 1 /\ lateFetches <= 1

\* /healthz looks at running twice (pickcelld.cpp:106-107).  In the order in which it
\* does, an answer of 200 never says "stopping", whenever the flag is cleared.
HealthIsHonest == answer.status = 200 => answer.body = "ok"

\* Once a signal has come, the daemon exits, whatever the runtime it polls does: an
\* answer that trickles in for ever fills the buffer in the end.
SignalEndsIt == shutdownRequested ~> mainPc = "exited"

\* A metrics server that does not start ends the daemon with an error and without a
\* signal, although two threads are already running.
FailedStartEndsIt == exitCode = 3 ~> mainPc = "exited"
=============================================================================
