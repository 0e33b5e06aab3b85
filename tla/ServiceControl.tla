--------------------------- MODULE ServiceControl ---------------------------
(***************************************************************************)
(* service::ServiceController (apps/hwpanel-service/service_controller.cpp) *)
(* with RunService of main.cpp: the service under the Windows Service      *)
(* Control Manager.                                                        *)
(*                                                                         *)
(* ServiceMain runs in one thread, the control handler in another; both    *)
(* report the state and call the host under state_mutex_.  The SCM sends   *)
(* one control at a time, and none while STOP_PENDING or after STOPPED has *)
(* been reported, but a control may already be on its way by then.         *)
(***************************************************************************)
EXTENDS ServiceHost, Naturals

CONSTANTS MaxControls,    \* bound: controls sent
          NoOne           \* the holder of a free mutex

ASSUME CallersAssumption == Callers = {"main", "handler"}
ASSUME MaxControlsAssumption == MaxControls \in Nat
ASSUME NoOneAssumption == NoOne \notin Callers

VARIABLES
  status,     \* status_.dwCurrentState as last reported
  mutex,      \* state_mutex_
  startDone,  \* start_done_
  pauseReq,   \* pause_requested_
  stopReq,    \* stop_requested_
  exitEvent,  \* exit_event_ is signaled
  main,       \* where ServiceMain is
  handler,    \* where the control handler is
  control,    \* the control it has in hand
  controls,   \* the number of controls sent
  early       \* observer: a PAUSE or CONTINUE was sent while START_PENDING

ctrlVars == <<status, mutex, startDone, pauseReq, stopReq, exitEvent, main, handler, control,
              controls, early>>
vars == <<hostVars, ctrlVars>>

Init ==
  /\ HostInit
  /\ status = "none"
  /\ mutex = NoOne
  /\ startDone = FALSE
  /\ pauseReq = FALSE
  /\ stopReq = FALSE
  /\ exitEvent = FALSE
  /\ main = "register"
  /\ handler = "idle"
  /\ control = "none"
  /\ controls = 0
  /\ early = FALSE

(* A call into the host, all else in it unchanged.                         *)
CallHost(c, method) ==
  /\ Goto(c, method)
  /\ UNCHANGED <<running, paused, server, endpoint, sampling, worker, watch>>

-----------------------------------------------------------------------------
(* ServiceMainThunk                                                        *)

ReportStartPending ==
  /\ main = "register"
  /\ status' = "START_PENDING"
  /\ main' = "starting"
  /\ CallHost("main", "start")
  /\ UNCHANGED <<mutex, startDone, pauseReq, stopReq, exitEvent, handler, control, controls, early>>

(* The handler cannot be registered: ServiceMain returns, nothing has been *)
(* reported or started.                                                    *)
RegisterFails ==
  /\ main = "register"
  /\ main' = "unregistered"
  /\ UNCHANGED <<hostVars, status, mutex, startDone, pauseReq, stopReq, exitEvent, handler,
                 control, controls, early>>

(* FinalizeStart that reports RUNNING whatever came in meanwhile.          *)
FinalizeStartRunning ==
  /\ main = "starting"
  /\ Returned("main")
  /\ mutex = NoOne
  /\ startDone' = TRUE
  /\ IF stopReq
       THEN /\ status' = "STOP_PENDING"
            /\ CallHost("main", "stop")
            /\ mutex' = "main" /\ main' = "finalizing"
       ELSE /\ status' = "RUNNING"
            /\ CallHost("main", "none")
            /\ mutex' = mutex /\ main' = "waiting"
  /\ UNCHANGED <<pauseReq, stopReq, exitEvent, handler, control, controls, early>>

(* FinalizeStart, up to on_stop_ or on_pause_: a stop that came in during  *)
(* startup goes before a pause.  A Start that failed has only been logged. *)
FinalizeStart ==
  /\ main = "starting"
  /\ Returned("main")
  /\ mutex = NoOne
  /\ startDone' = TRUE
  /\ IF stopReq \/ pauseReq
       THEN /\ status' = IF stopReq THEN "STOP_PENDING" ELSE "PAUSE_PENDING"
            /\ CallHost("main", IF stopReq THEN "stop" ELSE "pause")
            /\ mutex' = "main" /\ main' = "finalizing"
       ELSE /\ status' = "RUNNING"
            /\ CallHost("main", "none")
            /\ mutex' = mutex /\ main' = "waiting"
  /\ UNCHANGED <<pauseReq, stopReq, exitEvent, handler, control, controls, early>>

FinalizeReturns ==
  /\ main = "finalizing"
  /\ Returned("main")
  /\ status' = IF status = "PAUSE_PENDING" THEN "PAUSED" ELSE status
  /\ mutex' = NoOne
  /\ main' = "waiting"
  /\ CallHost("main", "none")
  /\ UNCHANGED <<startDone, pauseReq, stopReq, exitEvent, handler, control, controls, early>>

(* WaitForSingleObject(exit_event_), ReportState(SERVICE_STOPPED)          *)
ReportStopped ==
  /\ main = "waiting"
  /\ exitEvent
  /\ mutex = NoOne
  /\ status' = "STOPPED"
  /\ main' = "done"
  /\ UNCHANGED <<hostVars, mutex, startDone, pauseReq, stopReq, exitEvent, handler, control,
                 controls, early>>

ServiceMain ==
  \/ ReportStartPending \/ RegisterFails \/ FinalizeStart \/ FinalizeReturns \/ ReportStopped
  \/ HostStep("main") /\ UNCHANGED ctrlVars

-----------------------------------------------------------------------------
(* The SCM sends a control; PRESHUTDOWN is a STOP.  The code is prepared   *)
(* for any control while START_PENDING, although the documented SCM sends  *)
(* only STOP then.                                                         *)
Send(c) ==
  /\ handler = "idle"
  /\ main # "done"
  /\ controls < MaxControls
  /\ status \in {"START_PENDING", "RUNNING", "PAUSE_PENDING", "PAUSED"}
  /\ handler' = "lock"
  /\ control' = c
  /\ controls' = controls + 1
  /\ early' = (early \/ (status = "START_PENDING" /\ c # "STOP"))
  /\ UNCHANGED <<hostVars, status, mutex, startDone, pauseReq, stopReq, exitEvent, main>>

(* The handler has the mutex, reports and calls the host.                  *)
HandlerCalls(pending, method) ==
  /\ status' = pending
  /\ CallHost("handler", method)
  /\ mutex' = "handler"
  /\ handler' = "calling"

(* A STOP during startup that leaves the signal to FinalizeStart as well.  *)
HandleStopNoSignal ==
  /\ handler = "lock" /\ control = "STOP"
  /\ mutex = NoOne
  /\ stopReq' = TRUE
  /\ IF startDone
       THEN HandlerCalls("STOP_PENDING", "stop")
       ELSE handler' = "idle" /\ UNCHANGED <<hostVars, status, mutex>>
  /\ UNCHANGED <<startDone, pauseReq, exitEvent, main, control, controls, early>>

(* STOP: before start_done_ it is left to FinalizeStart.                   *)
HandleStop ==
  /\ handler = "lock" /\ control = "STOP"
  /\ mutex = NoOne
  /\ stopReq' = TRUE
  /\ IF startDone
       THEN HandlerCalls("STOP_PENDING", "stop") /\ UNCHANGED exitEvent
       ELSE /\ exitEvent' = TRUE
            /\ handler' = "idle"
            /\ UNCHANGED <<hostVars, status, mutex>>
  /\ UNCHANGED <<startDone, pauseReq, main, control, controls, early>>

(* A pause that does not ask whether startup is over.                      *)
HandlePauseAtOnce ==
  /\ handler = "lock" /\ control = "PAUSE"
  /\ mutex = NoOne
  /\ pauseReq' = TRUE
  /\ HandlerCalls("PAUSE_PENDING", "pause")
  /\ UNCHANGED <<startDone, stopReq, exitEvent, main, control, controls, early>>

(* PAUSE: before start_done_ it is left to FinalizeStart.                  *)
HandlePause ==
  /\ handler = "lock" /\ control = "PAUSE"
  /\ mutex = NoOne
  /\ pauseReq' = TRUE
  /\ IF startDone
       THEN HandlerCalls("PAUSE_PENDING", "pause")
       ELSE handler' = "idle" /\ UNCHANGED <<hostVars, status, mutex>>
  /\ UNCHANGED <<startDone, stopReq, exitEvent, main, control, controls, early>>

(* CONTINUE: before start_done_ it only takes back a pause.                *)
HandleContinue ==
  /\ handler = "lock" /\ control = "CONTINUE"
  /\ mutex = NoOne
  /\ pauseReq' = FALSE
  /\ IF startDone
       THEN HandlerCalls("CONTINUE_PENDING", "continue")
       ELSE handler' = "idle" /\ UNCHANGED <<hostVars, status, mutex>>
  /\ UNCHANGED <<startDone, stopReq, exitEvent, main, control, controls, early>>

(* The host has done it: report, signal ServiceMain after a STOP, unlock.  *)
HandlerReturns ==
  /\ handler = "calling"
  /\ Returned("handler")
  /\ status' = CASE control = "PAUSE" -> "PAUSED"
                 [] control = "CONTINUE" -> "RUNNING"
                 [] OTHER -> status
  /\ exitEvent' = (exitEvent \/ control = "STOP")
  /\ mutex' = NoOne
  /\ handler' = "idle"
  /\ CallHost("handler", "none")
  /\ UNCHANGED <<startDone, pauseReq, stopReq, main, control, controls, early>>

HandlerThread ==
  \/ HandleStop \/ HandlePause \/ HandleContinue \/ HandlerReturns
  \/ HostStep("handler") /\ UNCHANGED ctrlVars

Pipeline == Loop /\ UNCHANGED ctrlVars

Next ==
  \/ ServiceMain \/ HandlerThread \/ Pipeline
  \/ \E c \in {"STOP", "PAUSE", "CONTINUE"} : Send(c)

Spec == Init /\ [][Next]_vars

(* Both threads and the pipeline run, and no call into Windows hangs.  The *)
(* SCM need not send anything.                                             *)
FairSpec ==
  /\ Spec
  /\ WF_vars(ServiceMain)
  /\ WF_vars(HandlerThread)
  /\ WF_vars(Pipeline)

-----------------------------------------------------------------------------
(* No transition of the service is under way and none has ended it.        *)
Settled == startDone /\ mutex = NoOne /\ ~stopReq

(* A pause or a continue that comes in during a slow start is not lost to  *)
(* the RUNNING report that ends it: once settled, the reported state is    *)
(* what the last control asked for.                                        *)
LastControlWins == Settled => status = IF pauseReq THEN "PAUSED" ELSE "RUNNING"

(* What is reported is true: PAUSED means no collector runs and nothing is *)
(* published any more, RUNNING that the pipeline thread is at work, and    *)
(* the gRPC server answers in both, with the same state, unless it could   *)
(* not be started.                                                         *)
ReportIsTrue ==
  Settled =>
    /\ status = "PAUSED" => worker = "none"
    /\ status = "RUNNING" => sampling /\ worker \in {"test", "collect", "publish", "sleep"}
    /\ endpoint # "none" => server = endpoint /\ StateName = status

(* A host that was started has let go of everything when ServiceMain is    *)
(* through, and no late control brings any of it back, unless a pause or a *)
(* continue came in during startup.                                        *)
StoppedIsDown ==
  main = "done" /\ endpoint # "none" /\ ~early =>
    server = "down" /\ ~sampling /\ worker = "none" /\ ~watch /\ ~running

(* The handler always returns to the SCM: the join of the pipeline that it *)
(* waits for under the mutex ends.                                         *)
ControlsReturn == handler # "idle" ~> handler = "idle"

(* A STOP at any moment, during startup too, ends with SERVICE_STOPPED.    *)
StopIsReported == stopReq ~> main = "done"
=============================================================================
