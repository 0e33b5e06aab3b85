---------------------------- MODULE ConsoleMode -----------------------------
(***************************************************************************)
(* RunConsole of apps/hwpanel-service/main.cpp: the service in the         *)
(* foreground, stopped from the keyboard.  The main thread is the only     *)
(* caller of the host.                                                     *)
(***************************************************************************)
EXTENDS ServiceHost

VARIABLES main,       \* where the main thread is
          stopEvent,  \* stop_event is signaled
          ctrlC       \* the user has pressed Ctrl+C on a running service

vars == <<hostVars, main, stopEvent, ctrlC>>

Init == HostInit /\ main = "begin" /\ stopEvent = FALSE /\ ctrlC = FALSE

CallHost(method) ==
  Goto("main", method) /\ UNCHANGED <<running, paused, server, endpoint, sampling, worker, watch>>

StartConsole ==
  /\ main = "begin"
  /\ main' = "starting"
  /\ CallHost("start")
  /\ UNCHANGED <<stopEvent, ctrlC>>

(* Without a server the process ends, else it waits for stop_event.        *)
StartReturned ==
  /\ main = "starting"
  /\ Returned("main")
  /\ main' = IF call["main"] = "ok" THEN "waiting" ELSE "exited"
  /\ CallHost("none")
  /\ UNCHANGED <<stopEvent, ctrlC>>

(* The wait is over: host.Stop(), return 0.                                *)
StopEventSeen ==
  /\ main = "waiting"
  /\ stopEvent
  /\ main' = "stopping"
  /\ CallHost("stop")
  /\ UNCHANGED <<stopEvent, ctrlC>>

StopReturned ==
  /\ main = "stopping"
  /\ Returned("main")
  /\ main' = "exited"
  /\ CallHost("none")
  /\ UNCHANGED <<stopEvent, ctrlC>>

(* Ctrl+C: the handler tells Windows that it is taken care of.             *)
CtrlC ==
  /\ main \in {"waiting", "stopping"}
  /\ ctrlC' = TRUE
  /\ UNCHANGED <<hostVars, main, stopEvent>>

(* The console window is closed, or Ctrl+C comes before the handler is     *)
(* installed: Windows ends the process.                                    *)
Killed ==
  /\ main \in {"starting", "waiting", "stopping"}
  /\ main' = "exited"
  /\ UNCHANGED <<hostVars, stopEvent, ctrlC>>

MainThread ==
  \/ StartConsole \/ StartReturned \/ StopEventSeen \/ StopReturned
  \/ HostStep("main") /\ main # "exited" /\ UNCHANGED <<main, stopEvent, ctrlC>>

Pipeline == Loop /\ main # "exited" /\ UNCHANGED <<main, stopEvent, ctrlC>>

Next == MainThread \/ Pipeline \/ CtrlC \/ Killed

(* The threads of the process run; the user need not do anything.          *)
FairSpec == Init /\ [][Next]_vars /\ WF_vars(MainThread) /\ WF_vars(Pipeline)

-----------------------------------------------------------------------------
(* main.cpp: "Ctrl+C terminates the process".                              *)
CtrlCTerminates == ctrlC ~> main = "exited"
=============================================================================
