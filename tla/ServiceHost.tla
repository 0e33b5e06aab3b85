---------------------------- MODULE ServiceHost -----------------------------
(***************************************************************************)
(* service::ServiceHost (apps/hwpanel-service/service_host.cpp), the       *)
(* composition root of the service, and the life of the threads it owns:   *)
(* the gRPC server, the collector pipeline (plugins/collectors/pipeline.cpp)*)
(* and the file watch.                                                     *)
(*                                                                         *)
(* The host has no lock of its own.  Its methods run in the threads that   *)
(* call them, in the steps below, while the pipeline thread and the RPC    *)
(* handlers go on.  ServiceControl and ConsoleMode are its two callers.    *)
(***************************************************************************)
CONSTANTS Callers,    \* the threads that call the host
          Requested   \* options.endpoint: "pipe" or "tcp"

ASSUME RequestedAssumption == Requested \in {"pipe", "tcp"}

VARIABLES
  call,      \* where each caller is in a method of the host, "none" outside
  running,   \* running_
  paused,    \* paused_
  server,    \* the address server_ listens on, "none" before, "down" after
  endpoint,  \* endpoint_, "none" while empty
  sampling,  \* CollectorPipeline::running_
  worker,    \* the pipeline thread, "none" while thread_ is not joinable
  watch      \* the file watch is on

hostVars == <<call, running, paused, server, endpoint, sampling, worker, watch>>

HostInit ==
  /\ call = [c \in Callers |-> "none"]
  /\ running = FALSE
  /\ paused = FALSE
  /\ server = "none"
  /\ endpoint = "none"
  /\ sampling = FALSE
  /\ worker = "none"
  /\ watch = FALSE

Goto(c, label) == call' = [call EXCEPT ![c] = label]

Returned(c) == call[c] \in {"ok", "failed"}

-----------------------------------------------------------------------------
(* CollectorPipeline                                                       *)

(* Start.  Assigning to a std::thread that is still joinable ends the      *)
(* process.                                                                *)
PipelineStart ==
  IF sampling
    THEN UNCHANGED <<sampling, worker>>
    ELSE /\ sampling' = TRUE
         /\ worker' = IF worker = "none" THEN "test" ELSE "terminated"

(* Where Stop goes on in its caller, PauseCollectors or ServiceHost::Stop. *)
AfterPipelineStop(label) ==
  IF label \in {"pause pipeline", "pause join"} THEN "ok" ELSE "stop watch"

(* A join before the flag is lowered.                                      *)
StopPipelineJoinsFirst(c) ==
  /\ call[c] \in {"pause pipeline", "stop pipeline"}
  /\ Goto(c, IF call[c] = "pause pipeline" THEN "pause join" ELSE "stop join")
  /\ UNCHANGED <<running, paused, server, endpoint, sampling, worker, watch>>

(* Stop: nothing more to do unless the flag was up.                        *)
StopPipeline(c) ==
  /\ call[c] \in {"pause pipeline", "stop pipeline"}
  /\ sampling' = FALSE
  /\ Goto(c, IF ~sampling THEN AfterPipelineStop(call[c])
             ELSE IF call[c] = "pause pipeline" THEN "pause join" ELSE "stop join")
  /\ UNCHANGED <<running, paused, server, endpoint, worker, watch>>

(* thread_.join() returns once the loop has ended.                         *)
JoinPipeline(c) ==
  /\ call[c] \in {"pause join", "stop join"}
  /\ worker = "exited"
  /\ worker' = "none"
  /\ Goto(c, AfterPipelineStop(call[c]))
  /\ UNCHANGED <<running, paused, server, endpoint, sampling, watch>>

(* The pipeline thread: while (running_) { collect; publish; sleep }.  A   *)
(* collector that throws is skipped; the sleep ends early on Stop.         *)
Loop ==
  /\ \/ worker = "test" /\ worker' = IF sampling THEN "collect" ELSE "exited"
     \/ worker = "collect" /\ worker' = "publish"
     \/ worker = "publish" /\ worker' = "sleep"
     \/ worker = "sleep" /\ worker' = "test"
  /\ UNCHANGED <<call, running, paused, server, endpoint, sampling, watch>>

-----------------------------------------------------------------------------
(* ServiceHost::Start                                                      *)

StartPipeline(c) ==
  /\ call[c] = "start"
  /\ IF running
       THEN Goto(c, "ok") /\ UNCHANGED <<sampling, worker>>
       ELSE Goto(c, "start watch") /\ PipelineStart
  /\ UNCHANGED <<running, paused, server, endpoint, watch>>

(* StartFileWatch gives up when the directory cannot be opened.            *)
StartWatch(c) ==
  /\ call[c] = "start watch"
  /\ watch' \in BOOLEAN
  /\ Goto(c, "bind")
  /\ UNCHANGED <<running, paused, server, endpoint, sampling, worker>>

(* BuildServer(options.endpoint): from here on RPCs are answered.          *)
Bind(c) ==
  /\ call[c] = "bind"
  /\ \/ server' = Requested /\ Goto(c, "bound")
     \/ server' = server /\ Goto(c, IF Requested = "pipe" THEN "fallback" ELSE "failed")
  /\ UNCHANGED <<running, paused, endpoint, sampling, worker, watch>>

(* The named pipe failed: once more on loopback TCP.                       *)
Fallback(c) ==
  /\ call[c] = "fallback"
  /\ \/ server' = "tcp" /\ Goto(c, "bound")
     \/ server' = server /\ Goto(c, "failed")
  /\ UNCHANGED <<running, paused, endpoint, sampling, worker, watch>>

SetEndpoint(c) ==
  /\ call[c] = "bound"
  /\ endpoint' = server
  /\ Goto(c, "listening")
  /\ UNCHANGED <<running, paused, server, sampling, worker, watch>>

SetRunning(c) ==
  /\ call[c] = "listening"
  /\ running' = TRUE
  /\ Goto(c, "ok")
  /\ UNCHANGED <<paused, server, endpoint, sampling, worker, watch>>

-----------------------------------------------------------------------------
(* ServiceHost::Stop, nothing when the host is not running                 *)

StopHost(c) ==
  /\ call[c] = "stop"
  /\ running' = FALSE
  /\ Goto(c, IF running THEN "shutdown" ELSE "ok")
  /\ UNCHANGED <<paused, server, endpoint, sampling, worker, watch>>

(* server_->Shutdown: open calls are cancelled after a second.             *)
ShutdownServer(c) ==
  /\ call[c] = "shutdown"
  /\ server' = "down"
  /\ Goto(c, "stop pipeline")
  /\ UNCHANGED <<running, paused, endpoint, sampling, worker, watch>>

(* A Stop that forgets the file watch.                                     *)
StopWatchForgotten(c) ==
  /\ call[c] = "stop watch"
  /\ Goto(c, "ok")
  /\ UNCHANGED <<running, paused, server, endpoint, sampling, worker, watch>>

StopWatch(c) ==
  /\ call[c] = "stop watch"
  /\ watch' = FALSE
  /\ Goto(c, "ok")
  /\ UNCHANGED <<running, paused, server, endpoint, sampling, worker>>

-----------------------------------------------------------------------------
(* PauseCollectors and ResumeCollectors                                    *)

PauseCollectors(c) ==
  /\ call[c] = "pause"
  /\ paused' = TRUE
  /\ Goto(c, IF paused THEN "ok" ELSE "pause pipeline")
  /\ UNCHANGED <<running, server, endpoint, sampling, worker, watch>>

ResumeCollectors(c) ==
  /\ call[c] = "continue"
  /\ paused' = FALSE
  /\ Goto(c, "ok")
  /\ IF paused THEN PipelineStart ELSE UNCHANGED <<sampling, worker>>
  /\ UNCHANGED <<running, server, endpoint, watch>>

HostStep(c) ==
  \/ StartPipeline(c) \/ StartWatch(c) \/ Bind(c) \/ Fallback(c) \/ SetEndpoint(c)
  \/ SetRunning(c) \/ StopHost(c) \/ ShutdownServer(c) \/ StopPipeline(c)
  \/ JoinPipeline(c) \/ StopWatch(c) \/ PauseCollectors(c) \/ ResumeCollectors(c)

(* StateName, the state in the answer of GetStatus.                        *)
StateName == IF ~running THEN "STOPPED" ELSE IF paused THEN "PAUSED" ELSE "RUNNING"
=============================================================================
