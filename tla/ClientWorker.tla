---------------------------- MODULE ClientWorker ----------------------------
(***************************************************************************)
(* client::ClientWorker (apps/hwpanel-client/backend/client_worker.cpp)    *)
(* with the main function of the client: the threads of the client from    *)
(* worker_thread.start() to the destruction of the worker.                 *)
(*                                                                         *)
(* The GUI thread runs the event loop and, at the end, Stop and the        *)
(* destructors; the worker thread runs Start and then one request at a     *)
(* time; two more threads read the telemetry and the event stream; the     *)
(* monitor is ChannelManager's.  What samples, events and answers say is   *)
(* left out: here it matters when a call returns.  A sleep is the time     *)
(* until the next step and needs none of its own.                          *)
(***************************************************************************)
EXTENDS ChannelManager, Sequences

CONSTANT MaxPosted  \* bound: status changes waiting for the GUI thread

ASSUME MaxPostedAssumption == MaxPosted \in Nat \ {0}

Streams == {"telemetry", "events"}

VARIABLES
  running,    \* running_
  loop,       \* where TelemetryLoop and EventsLoop are
  stream,     \* their streams: none, queued, live or broken
  joinable,   \* the std::thread members that stand for a thread
  worker,     \* where the worker thread is
  call,       \* the request it executes
  gui,        \* where the GUI thread is
  destroying, \* main has returned: the destructors run
  quitting,   \* worker_thread.quit() was called
  posted,     \* the ConnectionChanged signals on their way to the GUI thread
  shown,      \* ConnectionStatus
  raced,      \* observer: Stop overlapped Start
  waitedOut   \* observer: wait(3000) gave up

streamVars == <<loop, stream>>
workerVars == <<worker, call>>
guiVars == <<gui, destroying, quitting, shown, raced, waitedOut>>
vars == <<mgrVars, running, streamVars, joinable, workerVars, guiVars, posted>>

Init ==
  /\ ManagerInit
  /\ running = FALSE
  /\ loop = [t \in Streams |-> "none"]
  /\ stream = [t \in Streams |-> "none"]
  /\ joinable = {}
  /\ worker = "start"
  /\ call = "none"
  /\ gui = "exec"
  /\ destroying = FALSE
  /\ quitting = FALSE
  /\ posted = <<>>
  /\ shown = "disconnected"
  /\ raced = FALSE
  /\ waitedOut = FALSE

-----------------------------------------------------------------------------
(* Start, on the worker thread, before its event loop.                     *)

StartSetsRunning ==
  /\ worker = "start"
  /\ running' = TRUE
  /\ worker' = "start manager"
  /\ UNCHANGED <<mgrVars, streamVars, joinable, call, guiVars, posted>>

StartStartsManager ==
  /\ worker = "start manager"
  /\ StartManager
  /\ joinable' = joinable \cup {"monitor"}
  /\ worker' = "start telemetry"
  /\ UNCHANGED <<running, streamVars, call, guiVars, posted>>

StartThread(t, next) ==
  /\ loop' = [loop EXCEPT ![t] = "top"]
  /\ joinable' = joinable \cup {t}
  /\ worker' = next
  /\ UNCHANGED <<mgrVars, running, stream, call, guiVars, posted>>

StartTelemetry == worker = "start telemetry" /\ StartThread("telemetry", "start events")
StartEvents == worker = "start events" /\ StartThread("events", "loop")

(* A request the GUI thread has posted (RefreshProfiles by its timer or by *)
(* the user, SwitchProfile by the user) starts.  Without a channel it is   *)
(* over at once; an idle channel is asked to connect.                      *)
BeginCall(kind) ==
  /\ worker = "loop" /\ call = "none"
  /\ ~quitting
  /\ channel # "none"
  /\ call' = kind
  /\ channel' = Connecting(channel)
  /\ UNCHANGED <<netVars, monitorVars, running, streamVars, joinable, worker, guiVars, posted>>

(* It returns, at its deadline at the latest.  After a switch that went    *)
(* well the same request goes on with RefreshProfilesInternal.             *)
CallReturns ==
  /\ call # "none"
  /\ \/ call' = "none" /\ UNCHANGED channel
     \/ call = "switch" /\ call' = "refresh" /\ channel' = Connecting(channel)
  /\ UNCHANGED <<netVars, monitorVars, running, streamVars, joinable, worker, guiVars, posted>>

(* The event loop ends between two requests.                               *)
WorkerFinishes ==
  /\ worker = "loop" /\ call = "none"
  /\ quitting
  /\ worker' = "finished"
  /\ UNCHANGED <<mgrVars, running, streamVars, joinable, call, guiVars, posted>>

WorkerThread ==
  \/ StartSetsRunning \/ StartStartsManager \/ StartTelemetry \/ StartEvents
  \/ CallReturns \/ WorkerFinishes

-----------------------------------------------------------------------------
(* TelemetryLoop and EventsLoop                                            *)

LoopStep(t, next) ==
  /\ loop' = [loop EXCEPT ![t] = next]
  /\ UNCHANGED <<netVars, monitorVars, running, joinable, workerVars, guiVars, posted>>

(* Without a channel that is READY the loop sleeps and comes back here.    *)
LoopTop(t) ==
  /\ loop[t] = "top"
  /\ running => channel = "READY"
  /\ LoopStep(t, IF running THEN "open" ELSE "done")
  /\ UNCHANGED <<channel, stream>>

(* What becomes of a call that does not wait for the channel.              *)
Attempt ==
  CASE channel = "READY" -> IF linked THEN "live" ELSE "broken"
    [] channel = "TRANSIENT_FAILURE" -> "broken"
    [] OTHER -> "queued"

OpenStream(t) ==
  /\ loop[t] = "open"
  /\ stream' = [stream EXCEPT ![t] = Attempt]
  /\ channel' = Connecting(channel)
  /\ LoopStep(t, "reading")

(* The stub has no reader to give.                                         *)
NoReader(t) ==
  /\ loop[t] = "open"
  /\ LoopStep(t, "top")
  /\ UNCHANGED <<channel, stream>>

(* Reading on without a look at running_.                                  *)
TestRunningOnlyOnce(t) ==
  /\ loop[t] = "reading"
  /\ LoopStep(t, "read")
  /\ UNCHANGED <<channel, stream>>

(* The first half of the condition of the inner loop.  At the end of the   *)
(* outer one, after a sleep, the reader and its context are destroyed.     *)
TestRunning(t) ==
  /\ loop[t] = "reading"
  /\ LoopStep(t, IF running THEN "read" ELSE "top")
  /\ stream' = IF running THEN stream ELSE [stream EXCEPT ![t] = "none"]
  /\ UNCHANGED channel

(* Read has a message.                                                     *)
ReadMessage(t) ==
  /\ loop[t] = "read"
  /\ stream[t] = "live"
  /\ LoopStep(t, "reading")
  /\ UNCHANGED <<channel, stream>>

(* A thread that ends with its stream.                                     *)
ReadFailsForGood(t) ==
  /\ loop[t] = "read"
  /\ stream[t] = "broken"
  /\ stream' = [stream EXCEPT ![t] = "none"]
  /\ LoopStep(t, "done")
  /\ UNCHANGED channel

(* Read finds that the stream has ended.                                   *)
ReadFails(t) ==
  /\ loop[t] = "read"
  /\ stream[t] = "broken"
  /\ stream' = [stream EXCEPT ![t] = "none"]
  /\ LoopStep(t, "top")
  /\ UNCHANGED channel

(* All that does not wait for the service.                                 *)
StreamThread(t) ==
  LoopTop(t) \/ OpenStream(t) \/ NoReader(t) \/ TestRunning(t) \/ ReadFails(t)

-----------------------------------------------------------------------------
(* The monitor thread; a change of state is posted to the GUI thread, and  *)
(* nobody is left to receive it once the GUI's event loop has ended.       *)
Monitor ==
  /\ Len(posted) < MaxPosted
  /\ MonitorLoop
  /\ posted' = IF state' # state /\ gui = "exec" THEN Append(posted, state') ELSE posted
  /\ UNCHANGED <<running, streamVars, joinable, workerVars, guiVars>>

-----------------------------------------------------------------------------
(* The GUI thread                                                          *)

GuiStep == UNCHANGED <<streamVars, worker, call>>

(* ConnectionStatus::SetState                                              *)
SetState ==
  /\ gui = "exec"
  /\ posted # <<>>
  /\ shown' = Head(posted)
  /\ posted' = Tail(posted)
  /\ GuiStep
  /\ UNCHANGED <<mgrVars, running, joinable, gui, destroying, quitting, raced, waitedOut>>

(* app.exec() returns.                                                     *)
Quit ==
  /\ gui = "exec"
  /\ gui' = "stop"
  /\ posted' = <<>>
  /\ GuiStep
  /\ UNCHANGED <<mgrVars, running, joinable, destroying, quitting, shown, raced,
                 waitedOut>>

(* Where Stop returns to, from main or from the destructor.                *)
AfterStop == IF destroying THEN "returned" ELSE "quit"

(* Stop does nothing unless running_; the destructor goes on to manager_.  *)
Stop ==
  /\ gui = "stop"
  /\ running' = FALSE
  /\ raced' = (raced \/ (running /\ worker \notin {"loop", "finished"}))
  /\ gui' = IF running THEN "telemetry" ELSE IF destroying THEN "manager" ELSE "quit"
  /\ GuiStep
  /\ UNCHANGED <<mgrVars, joinable, destroying, quitting, posted, shown, waitedOut>>

(* Stop that joins the telemetry thread alone.                             *)
JoinTelemetryOnly(t) ==
  /\ gui = t
  /\ t = "telemetry" /\ t \in joinable => loop[t] = "done"
  /\ joinable' = joinable \ ({t} \cap {"telemetry"})
  /\ gui' = IF t = "telemetry" THEN "events" ELSE "manager"
  /\ GuiStep
  /\ UNCHANGED <<mgrVars, running, destroying, quitting, posted, shown, raced, waitedOut>>

(* Stop joins the two threads, telemetry first.                            *)
JoinStream(t) ==
  /\ gui = t
  /\ t \in joinable => loop[t] = "done"
  /\ joinable' = joinable \ {t}
  /\ gui' = IF t = "telemetry" THEN "events" ELSE "manager"
  /\ GuiStep
  /\ UNCHANGED <<mgrVars, running, destroying, quitting, posted, shown, raced, waitedOut>>

(* manager_.Stop()                                                         *)
StopsManager ==
  /\ gui = "manager"
  /\ gui' = IF mgrRunning THEN "monitor" ELSE AfterStop
  /\ StopManager
  /\ GuiStep
  /\ UNCHANGED <<running, joinable, destroying, quitting, posted, shown, raced, waitedOut>>

JoinMonitor ==
  /\ gui = "monitor"
  /\ monitor = "done"
  /\ joinable' = joinable \ {"monitor"}
  /\ gui' = AfterStop
  /\ GuiStep
  /\ UNCHANGED <<mgrVars, running, destroying, quitting, posted, shown, raced, waitedOut>>

QuitWorkerThread ==
  /\ gui = "quit"
  /\ quitting' = TRUE
  /\ gui' = "wait"
  /\ GuiStep
  /\ UNCHANGED <<mgrVars, running, joinable, destroying, posted, shown, raced, waitedOut>>

(* worker_thread.wait(3000): a request may take longer.  Then main returns *)
(* and ~ClientWorker calls Stop again.                                     *)
WaitForWorkerThread ==
  /\ gui = "wait"
  /\ worker = "finished" \/ call # "none"
  /\ waitedOut' = (worker # "finished")
  /\ gui' = "stop"
  /\ destroying' = TRUE
  /\ GuiStep
  /\ UNCHANGED <<mgrVars, running, joinable, quitting, posted, shown, raced>>

Shutdown ==
  \/ Stop \/ (\E t \in Streams : JoinStream(t)) \/ StopsManager \/ JoinMonitor
  \/ QuitWorkerThread \/ WaitForWorkerThread

-----------------------------------------------------------------------------
(* External: the service and the transport.                                *)

OnlyNet == UNCHANGED <<running, loop, joinable, workerVars, guiVars, posted>>

(* The service goes away and every open stream with it.                    *)
ServiceGoes ==
  /\ ServiceStops
  /\ stream' = [t \in Streams |-> IF stream[t] = "live" THEN "broken" ELSE stream[t]]
  /\ OnlyNet

ServiceComes == ServiceStarts /\ OnlyNet /\ UNCHANGED stream

(* A stream that waits for the channel gets through or fails.              *)
QueuedStream(t) ==
  /\ stream[t] = "queued"
  /\ channel \in {"READY", "TRANSIENT_FAILURE"}
  /\ stream' = [stream EXCEPT ![t] = Attempt]
  /\ OnlyNet /\ UNCHANGED mgrVars

Transport ==
  /\ \/ ChannelConnects
     \/ ChannelBreaks
     \/ ChannelRetries /\ \A t \in Streams : stream[t] # "queued"
  /\ OnlyNet /\ UNCHANGED stream

-----------------------------------------------------------------------------
(* The process is over when the destructors have returned.                 *)
Next ==
  /\ gui # "returned"
  /\ \/ WorkerThread \/ Monitor
     \/ \E kind \in {"refresh", "switch"} : BeginCall(kind)
     \/ SetState \/ Quit \/ Shutdown
     \/ ServiceGoes \/ ServiceComes \/ Transport
     \/ \E t \in Streams : StreamThread(t) \/ ReadMessage(t) \/ QueuedStream(t)

Spec == Init /\ [][Next]_vars

(* Every thread of the client runs, a call ends at its deadline, gRPC does *)
(* its part, and a stub that is asked again and again gives a reader.  The *)
(* service need not send anything, no request need be made, and the user   *)
(* need not quit.                                                          *)
FairSpec ==
  /\ Spec
  /\ WF_vars(WorkerThread)
  /\ WF_vars(Monitor)
  /\ WF_vars(SetState)
  /\ WF_vars(Shutdown)
  /\ WF_vars(Transport)
  /\ \A t \in Streams :
       WF_vars(StreamThread(t)) /\ SF_vars(OpenStream(t)) /\ WF_vars(QueuedStream(t))

-----------------------------------------------------------------------------
(* The process ends without a thread of its own: unless Stop came while    *)
(* Start was creating the threads, or a request outlasted wait(3000), no   *)
(* std::thread is destroyed joinable and the worker is not destroyed under *)
(* its own thread.                                                         *)
CleanExit ==
  gui = "returned" /\ ~raced /\ ~waitedOut =>
    /\ joinable = {}
    /\ worker = "finished"
    /\ monitor \in {"none", "done"}
    /\ \A t \in Streams : loop[t] \in {"none", "done"}

(* The status bar follows the service: one that stays is found, whatever   *)
(* happened to it before, and one that is gone does not stay "connected",  *)
(* though the monitor passes over IDLE, the first state after a loss.      *)
StatusFollows ==
  /\ <>[](up /\ gui = "exec") => <>[](shown = "connected")
  /\ <>[](~up /\ gui = "exec") => <>[](shown # "connected")

(* Both loops survive lost streams and missing readers: with a service     *)
(* that stays, both streams are open in the end.                           *)
StreamsResume ==
  <>[](up /\ gui = "exec") => <>[](\A t \in Streams : stream[t] = "live")

(* Quitting ends, if the service sends on every stream again or goes away: *)
(* Stop joins threads that only Read can wake.                             *)
QuitEnds ==
  (\A t \in Streams : []<><<ReadMessage(t)>>_vars \/ []<>(stream[t] # "live"))
    => (gui = "stop" ~> gui = "returned")
=============================================================================
