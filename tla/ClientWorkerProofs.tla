------------------------- MODULE ClientWorkerProofs -------------------------
(***************************************************************************)
(* The client's shutdown never leaves a thread behind: CleanExit is proved *)
(* for every number of restarts of the service and of posted signals.      *)
(*                                                                         *)
(* Nothing in the code says in one place which threads exist: it follows   *)
(* from running_, from ChannelManager's running_, from how far Start has   *)
(* come on the worker thread and from how far Stop has come on the GUI     *)
(* thread.  The invariant is this bookkeeping.                             *)
(***************************************************************************)
EXTENDS ClientWorker, TLAPS

(* The threads that Start creates and Stop joins.                          *)
Members == Streams \cup {"monitor"}

(* The steps of Stop that join a thread, in their order.                   *)
Joining == {"telemetry", "events", "manager", "monitor"}

Types ==
  /\ running \in BOOLEAN
  /\ mgrRunning \in BOOLEAN
  /\ destroying \in BOOLEAN
  /\ raced \in BOOLEAN
  /\ waitedOut \in BOOLEAN
  /\ loop \in [Streams -> {"none", "top", "open", "reading", "read", "done"}]
  /\ monitor \in {"none", "create", "loop", "done"}
  /\ worker \in {"start", "start manager", "start telemetry", "start events", "loop", "finished"}
  /\ gui \in Joining \cup {"exec", "stop", "quit", "wait", "returned"}
  /\ joinable \subseteq Members

(* A thread runs only while its std::thread stands for it, races or not.   *)
Owned ==
  /\ \A t \in Streams : t \notin joinable => loop[t] \in {"none", "done"}
  /\ "monitor" \notin joinable => monitor \in {"none", "done"}

(* Only the event loop of the worker thread executes requests.             *)
Requests == call # "none" => worker = "loop"

(* The destructors come after wait(3000), and Start is over by then.       *)
Destructors ==
  /\ destroying => gui \in Joining \cup {"stop", "returned"}
  /\ destroying => worker \in {"loop", "finished"}
  /\ destroying /\ ~waitedOut => worker = "finished"
  /\ gui = "returned" => destroying

(* What Start has created when it has come this far.                       *)
Starting ==
  /\ worker = "start" => ~running /\ ~mgrRunning /\ joinable = {}
  /\ worker = "start manager" => running /\ ~mgrRunning /\ joinable = {}
  /\ worker = "start telemetry" => running /\ mgrRunning /\ joinable = {"monitor"}
  /\ worker = "start events" => running /\ mgrRunning /\ joinable = {"monitor", "telemetry"}

(* While running_ is set nobody joins anything.                            *)
Serving ==
  running =>
    /\ gui \in {"exec", "stop", "quit", "wait"}
    /\ worker \in {"loop", "finished"} => mgrRunning /\ joinable = Members

(* What is left to join when Stop has come this far; after it, and before  *)
(* the second one, nothing.                                                *)
Stopping ==
  ~running /\ worker \in {"loop", "finished"} =>
    /\ gui # "exec"
    /\ gui = "telemetry" => mgrRunning /\ joinable = Members
    /\ gui = "events" => mgrRunning /\ joinable = {"events", "monitor"}
    /\ gui = "manager" => joinable = IF mgrRunning THEN {"monitor"} ELSE {}
    /\ gui = "monitor" => ~mgrRunning /\ joinable = {"monitor"}
    /\ gui \notin Joining => ~mgrRunning /\ joinable = {}

(* Stop joins only what Start has finished creating.                       *)
Ordered == gui \in Joining => worker \in {"loop", "finished"}

Inv ==
  /\ Types
  /\ Owned
  /\ Requests
  /\ Destructors
  /\ ~raced => Starting /\ Serving /\ Stopping /\ Ordered

-----------------------------------------------------------------------------
(* What the invariant speaks of.                                           *)
control ==
  <<running, mgrRunning, destroying, raced, waitedOut, loop, monitor, worker, call, gui, joinable>>

LEMMA InitInv == Init => Inv
<1> SUFFICES ASSUME Init PROVE Inv
  OBVIOUS
<1>1. /\ running = FALSE /\ mgrRunning = FALSE /\ destroying = FALSE /\ raced = FALSE
      /\ waitedOut = FALSE /\ loop = [t \in Streams |-> "none"] /\ monitor = "none"
      /\ worker = "start" /\ call = "none" /\ gui = "exec" /\ joinable = {}
  BY DEF Init, ManagerInit
<1> QED
  BY ONLY <1>1 DEF Inv, Types, Owned, Requests, Destructors, Starting, Serving, Stopping, Ordered,
                   Joining, Members

(* A step that leaves the control state alone.                             *)
LEMMA SameControl ==
  ASSUME Inv, UNCHANGED control
  PROVE  Inv'
<1>1. /\ running' = running /\ mgrRunning' = mgrRunning /\ destroying' = destroying
      /\ raced' = raced /\ waitedOut' = waitedOut /\ loop' = loop /\ monitor' = monitor
      /\ worker' = worker /\ call' = call /\ gui' = gui /\ joinable' = joinable
  BY DEF control
<1>2. Types'
  BY <1>1 DEF Inv, Types
<1>3. Owned' /\ Requests' /\ Destructors'
  BY <1>1 DEF Inv, Owned, Requests, Destructors
<1>4. raced' = raced /\ (~raced => Starting' /\ Serving' /\ Stopping' /\ Ordered')
  BY <1>1 DEF Inv, Starting, Serving, Stopping, Ordered
<1> QED
  BY <1>2, <1>3, <1>4 DEF Inv

(* Start creates one thread after the other.                               *)
LEMMA StartInv ==
  ASSUME Inv, StartSetsRunning \/ StartStartsManager \/ StartTelemetry \/ StartEvents
  PROVE  Inv'
<1>1. /\ UNCHANGED <<destroying, raced, waitedOut, call, gui>>
      /\ worker \in {"start", "start manager", "start telemetry", "start events"}
  BY DEF StartSetsRunning, StartStartsManager, StartTelemetry, StartEvents, StartThread, guiVars
<1>2. call = "none" /\ ~destroying
  BY <1>1 DEF Inv, Requests, Destructors
<1>3. CASE StartSetsRunning
  <2>1. /\ worker = "start" /\ worker' = "start manager" /\ running' = TRUE
        /\ UNCHANGED <<mgrRunning, monitor, loop, joinable>>
    BY <1>3 DEF StartSetsRunning, mgrVars, monitorVars, streamVars
  <2> QED
    BY <1>1, <1>2, <2>1 DEF Inv, Types, Owned, Requests, Destructors, Starting, Serving, Stopping,
                            Ordered, Joining
<1>4. CASE StartStartsManager
  <2>1. /\ worker = "start manager" /\ worker' = "start telemetry" /\ mgrRunning' = TRUE
        /\ monitor' = "create" /\ joinable' = joinable \cup {"monitor"}
        /\ UNCHANGED <<running, loop>>
    BY <1>4 DEF StartStartsManager, StartManager, streamVars
  <2> QED
    BY <1>1, <1>2, <2>1 DEF Inv, Types, Owned, Requests, Destructors, Starting, Serving, Stopping,
                            Ordered, Joining, Members
<1>5. CASE StartTelemetry
  <2>1. /\ worker = "start telemetry" /\ worker' = "start events"
        /\ loop' = [loop EXCEPT !["telemetry"] = "top"]
        /\ joinable' = joinable \cup {"telemetry"}
        /\ UNCHANGED <<running, mgrRunning, monitor>>
    BY <1>5 DEF StartTelemetry, StartThread, mgrVars, monitorVars
  <2> QED
    BY <1>1, <1>2, <2>1 DEF Inv, Types, Owned, Requests, Destructors, Starting, Serving, Stopping,
                            Ordered, Joining, Members, Streams
<1>6. CASE StartEvents
  <2>1. /\ worker = "start events" /\ worker' = "loop"
        /\ loop' = [loop EXCEPT !["events"] = "top"]
        /\ joinable' = joinable \cup {"events"}
        /\ UNCHANGED <<running, mgrRunning, monitor>>
    BY <1>6 DEF StartEvents, StartThread, mgrVars, monitorVars
  <2> QED
    BY <1>1, <1>2, <2>1 DEF Inv, Types, Owned, Requests, Destructors, Starting, Serving, Stopping,
                            Ordered, Joining, Members, Streams
<1> QED
  BY <1>3, <1>4, <1>5, <1>6

(* The event loop of the worker thread.                                    *)
LEMMA RequestInv ==
  ASSUME Inv, (\E kind \in {"refresh", "switch"} : BeginCall(kind)) \/ CallReturns \/ WorkerFinishes
  PROVE  Inv'
<1>1. /\ UNCHANGED <<running, mgrRunning, destroying, raced, waitedOut, loop, monitor, gui>>
      /\ UNCHANGED joinable
  BY DEF BeginCall, CallReturns, WorkerFinishes, mgrVars, monitorVars, streamVars, guiVars
<1>2. worker = "loop" /\ (worker' = "loop" \/ (worker' = "finished" /\ call' = "none"))
  BY DEF BeginCall, CallReturns, WorkerFinishes, Inv, Requests
<1> QED
  BY <1>1, <1>2 DEF Inv, Types, Owned, Requests, Destructors, Starting, Serving, Stopping, Ordered

(* A loop that runs is owned, wherever it goes.                            *)
LEMMA StreamInv ==
  ASSUME Inv, NEW t \in Streams, StreamThread(t) \/ ReadMessage(t)
  PROVE  Inv'
<1>1. /\ UNCHANGED <<running, mgrRunning, destroying, raced, waitedOut, monitor, worker, call, gui>>
      /\ UNCHANGED joinable
      /\ loop[t] \in {"top", "open", "reading", "read"}
      /\ \E next \in {"top", "open", "reading", "read", "done"} : loop' = [loop EXCEPT ![t] = next]
  BY DEF StreamThread, LoopTop, OpenStream, NoReader, TestRunning, ReadFails, ReadMessage, LoopStep,
         monitorVars, workerVars, guiVars
<1>2. t \in joinable
  BY <1>1 DEF Inv, Owned
<1>3. loop' \in [Streams -> {"none", "top", "open", "reading", "read", "done"}]
  BY <1>1 DEF Inv, Types
<1>4. Types'
  BY <1>1, <1>3 DEF Inv, Types
<1>5. Owned'
  BY <1>1, <1>2 DEF Inv, Types, Owned
<1>6. Requests' /\ Destructors'
  BY <1>1 DEF Inv, Requests, Destructors
<1>7. raced' = raced /\ (~raced => Starting' /\ Serving' /\ Stopping' /\ Ordered')
  BY <1>1 DEF Inv, Starting, Serving, Stopping, Ordered
<1> QED
  BY <1>4, <1>5, <1>6, <1>7 DEF Inv

(* So is the monitor.                                                      *)
LEMMA MonitorInv ==
  ASSUME Inv, Monitor
  PROVE  Inv'
<1>1. /\ UNCHANGED <<running, mgrRunning, destroying, raced, waitedOut, loop, worker, call, gui>>
      /\ UNCHANGED joinable
      /\ monitor \in {"create", "loop"} /\ monitor' \in {"create", "loop", "done"}
  BY DEF Monitor, MonitorLoop, CreateChannel, Probe, MonitorExits, streamVars, workerVars, guiVars
<1>2. "monitor" \in joinable
  BY <1>1 DEF Inv, Owned
<1>3. Types'
  BY <1>1 DEF Inv, Types
<1>4. Owned' /\ Requests' /\ Destructors'
  BY <1>1, <1>2 DEF Inv, Owned, Requests, Destructors
<1>5. raced' = raced /\ (~raced => Starting' /\ Serving' /\ Stopping' /\ Ordered')
  BY <1>1 DEF Inv, Starting, Serving, Stopping, Ordered
<1> QED
  BY <1>3, <1>4, <1>5 DEF Inv

(* The GUI thread: the end of the event loop, Stop, and the wait for the   *)
(* worker thread.                                                          *)
LEMMA ShutdownInv ==
  ASSUME Inv, Quit \/ Shutdown
  PROVE  Inv'
<1>1. UNCHANGED <<loop, monitor, worker, call>>
  BY DEF Quit, Shutdown, Stop, JoinStream, StopsManager, JoinMonitor, QuitWorkerThread,
         WaitForWorkerThread, GuiStep, StopManager, streamVars, mgrVars, monitorVars
<1>2. CASE Quit
  <2>1. /\ gui = "exec" /\ gui' = "stop"
        /\ UNCHANGED <<running, mgrRunning, joinable, destroying, raced, waitedOut>>
    BY <1>2 DEF Quit, mgrVars, monitorVars
  <2> QED
    BY <1>1, <2>1 DEF Inv, Types, Owned, Requests, Destructors, Starting, Serving, Stopping,
                      Ordered, Joining
<1>3. CASE Stop
  <2>1. /\ gui = "stop" /\ running' = FALSE
        /\ gui' = IF running THEN "telemetry" ELSE IF destroying THEN "manager" ELSE "quit"
        /\ UNCHANGED <<mgrRunning, joinable, destroying, waitedOut>>
    BY <1>3 DEF Stop, mgrVars, monitorVars
  <2>2. raced' \in BOOLEAN
    BY <1>3 DEF Stop
  <2>3. ~raced' => ~raced /\ (running => worker \in {"loop", "finished"})
    BY <1>3 DEF Stop
  <2>4. Types' /\ Owned' /\ Requests' /\ Destructors'
    BY <1>1, <2>1, <2>2 DEF Inv, Types, Owned, Requests, Destructors, Joining
  <2>5. ASSUME ~raced' PROVE Starting' /\ Serving' /\ Stopping' /\ Ordered'
    <3>1. Starting /\ Serving /\ Stopping /\ Ordered
      BY <2>3, <2>5 DEF Inv
    <3>2. CASE running
      <4>1. worker \in {"loop", "finished"} /\ mgrRunning /\ joinable = Members
        BY <2>3, <2>5, <3>1, <3>2 DEF Serving
      <4> QED
        BY <1>1, <2>1, <3>2, <4>1 DEF Starting, Serving, Stopping, Ordered, Joining
    <3>3. CASE ~running
      <4>1. destroying => worker \in {"loop", "finished"}
        BY DEF Inv, Destructors
      <4> QED
        BY <1>1, <2>1, <3>1, <3>3, <4>1 DEF Starting, Serving, Stopping, Ordered, Joining
    <3> QED
      BY <3>2, <3>3
  <2> QED
    BY <2>4, <2>5 DEF Inv
<1>4. ASSUME NEW t \in Streams, JoinStream(t) PROVE Inv'
  <2>1. /\ gui = t /\ (t \in joinable => loop[t] = "done") /\ joinable' = joinable \ {t}
        /\ gui' = IF t = "telemetry" THEN "events" ELSE "manager"
        /\ UNCHANGED <<running, mgrRunning, destroying, raced, waitedOut>>
    BY <1>4 DEF JoinStream, mgrVars, monitorVars
  <2>2. Types' /\ Requests' /\ Destructors'
    BY <1>1, <2>1 DEF Inv, Types, Requests, Destructors, Joining, Streams
  <2>3. Owned'
    BY <1>1, <2>1 DEF Inv, Owned, Streams
  <2>4. ASSUME ~raced PROVE Starting' /\ Serving' /\ Stopping' /\ Ordered'
    <3>1. Starting /\ Serving /\ Stopping /\ Ordered
      BY <2>4 DEF Inv
    <3>2. worker \in {"loop", "finished"} /\ ~running
      BY <2>1, <3>1 DEF Serving, Ordered, Joining, Streams
    <3> QED
      BY <1>1, <2>1, <3>1, <3>2 DEF Starting, Serving, Stopping, Ordered, Joining, Members, Streams
  <2> QED
    BY <2>1, <2>2, <2>3, <2>4 DEF Inv
<1>5. CASE StopsManager
  <2>1. /\ gui = "manager" /\ gui' = (IF mgrRunning THEN "monitor" ELSE AfterStop)
        /\ mgrRunning' = FALSE
        /\ UNCHANGED <<running, joinable, destroying, raced, waitedOut>>
    BY <1>5 DEF StopsManager, StopManager
  <2>2. Types' /\ Owned' /\ Requests' /\ Destructors'
    BY <1>1, <2>1 DEF Inv, Types, Owned, Requests, Destructors, Joining, AfterStop
  <2>3. ASSUME ~raced PROVE Starting' /\ Serving' /\ Stopping' /\ Ordered'
    <3>1. Starting /\ Serving /\ Stopping /\ Ordered
      BY <2>3 DEF Inv
    <3>2. worker \in {"loop", "finished"} /\ ~running
      BY <2>1, <3>1 DEF Serving, Ordered, Joining
    <3> QED
      BY <1>1, <2>1, <3>1, <3>2 DEF Starting, Serving, Stopping, Ordered, Joining, AfterStop
  <2> QED
    BY <2>1, <2>2, <2>3 DEF Inv
<1>6. CASE JoinMonitor
  <2>1. /\ gui = "monitor" /\ gui' = AfterStop /\ monitor = "done"
        /\ joinable' = joinable \ {"monitor"}
        /\ UNCHANGED <<running, mgrRunning, destroying, raced, waitedOut>>
    BY <1>6 DEF JoinMonitor, mgrVars, monitorVars
  <2>2. Types' /\ Owned' /\ Requests' /\ Destructors'
    BY <1>1, <2>1 DEF Inv, Types, Owned, Requests, Destructors, Joining, AfterStop, Streams
  <2>3. ASSUME ~raced PROVE Starting' /\ Serving' /\ Stopping' /\ Ordered'
    <3>1. Starting /\ Serving /\ Stopping /\ Ordered
      BY <2>3 DEF Inv
    <3>2. worker \in {"loop", "finished"} /\ ~running
      BY <2>1, <3>1 DEF Serving, Ordered, Joining
    <3> QED
      BY <1>1, <2>1, <3>1, <3>2 DEF Starting, Serving, Stopping, Ordered, Joining, AfterStop
  <2> QED
    BY <2>1, <2>2, <2>3 DEF Inv
<1>7. CASE QuitWorkerThread
  <2>1. /\ gui = "quit" /\ gui' = "wait"
        /\ UNCHANGED <<running, mgrRunning, joinable, destroying, raced, waitedOut>>
    BY <1>7 DEF QuitWorkerThread, mgrVars, monitorVars
  <2> QED
    BY <1>1, <2>1 DEF Inv, Types, Owned, Requests, Destructors, Starting, Serving, Stopping,
                      Ordered, Joining
<1>8. CASE WaitForWorkerThread
  <2>1. /\ gui = "wait" /\ gui' = "stop" /\ destroying' = TRUE
        /\ worker = "finished" \/ call # "none"
        /\ UNCHANGED <<running, mgrRunning, joinable, raced>>
    BY <1>8 DEF WaitForWorkerThread, mgrVars, monitorVars
  <2>2. waitedOut' \in BOOLEAN /\ (~waitedOut' => worker = "finished")
    BY <1>8 DEF WaitForWorkerThread
  <2>3. worker \in {"loop", "finished"}
    BY <2>1 DEF Inv, Requests
  <2>4. Types' /\ Owned' /\ Requests' /\ Destructors'
    BY <1>1, <2>1, <2>2, <2>3 DEF Inv, Types, Owned, Requests, Destructors, Joining
  <2>5. ~raced => Starting' /\ Serving' /\ Stopping' /\ Ordered'
    BY <1>1, <2>1, <2>3 DEF Inv, Starting, Serving, Stopping, Ordered, Joining
  <2> QED
    BY <2>1, <2>4, <2>5 DEF Inv
<1> QED
  BY <1>2, <1>3, <1>4, <1>5, <1>6, <1>7, <1>8 DEF Shutdown

(* The service, the transport, the streams' state and the status bar are   *)
(* no business of the threads' bookkeeping.                                *)
LEMMA OutsideControl ==
  ASSUME SetState \/ ServiceGoes \/ ServiceComes \/ Transport \/ \E t \in Streams : QueuedStream(t)
  PROVE  UNCHANGED control
<1>1. CASE SetState
  BY <1>1 DEF SetState, GuiStep, mgrVars, monitorVars, streamVars, control
<1>2. CASE ServiceGoes \/ ServiceComes
  BY <1>2 DEF ServiceGoes, ServiceComes, ServiceStops, ServiceStarts, OnlyNet, monitorVars,
              workerVars, guiVars, control
<1>3. CASE Transport
  BY <1>3 DEF Transport, ChannelConnects, ChannelBreaks, ChannelRetries, OnlyNet, monitorVars,
              workerVars, guiVars, control
<1>4. CASE \E t \in Streams : QueuedStream(t)
  BY <1>4 DEF QueuedStream, OnlyNet, mgrVars, monitorVars, workerVars, guiVars, control
<1> QED
  BY <1>1, <1>2, <1>3, <1>4

LEMMA NextInv == Inv /\ [Next]_vars => Inv'
<1> SUFFICES ASSUME Inv, [Next]_vars PROVE Inv'
  OBVIOUS
<1>1. CASE WorkerThread \/ \E kind \in {"refresh", "switch"} : BeginCall(kind)
  BY <1>1, StartInv, RequestInv DEF WorkerThread
<1>2. CASE Monitor
  BY <1>2, MonitorInv
<1>3. CASE Quit \/ Shutdown
  BY <1>3, ShutdownInv
<1>4. CASE \E t \in Streams : StreamThread(t) \/ ReadMessage(t)
  BY <1>4, StreamInv
<1>5. CASE SetState \/ ServiceGoes \/ ServiceComes \/ Transport \/ \E t \in Streams : QueuedStream(t)
  BY <1>5, OutsideControl, SameControl
<1>6. CASE UNCHANGED vars
  BY <1>6, SameControl DEF vars, mgrVars, monitorVars, streamVars, workerVars, guiVars, control
<1> QED
  BY <1>1, <1>2, <1>3, <1>4, <1>5, <1>6 DEF Next

(* The bookkeeping of the threads holds in every run.                      *)
THEOREM InvHolds == Spec => []Inv
  BY InitInv, NextInv, PTL DEF Spec

(* ~ClientWorker returns with every thread joined and the worker thread    *)
(* finished, unless Stop came while Start was creating threads or a        *)
(* request outlasted wait(3000), however often the service came and went.  *)
THEOREM ExitIsClean == Spec => []CleanExit
<1>1. Inv => CleanExit
  <2> SUFFICES ASSUME Inv, gui = "returned", ~raced, ~waitedOut
               PROVE  /\ joinable = {} /\ worker = "finished" /\ monitor \in {"none", "done"}
                      /\ \A t \in Streams : loop[t] \in {"none", "done"}
    BY DEF CleanExit
  <2>1. worker = "finished"
    BY DEF Inv, Destructors
  <2>2. ~running
    BY DEF Inv, Serving
  <2>3. joinable = {}
    BY <2>1, <2>2 DEF Inv, Stopping, Joining
  <2> QED
    BY <2>1, <2>3 DEF Inv, Owned
<1> QED
  BY <1>1, InvHolds, PTL
=============================================================================
