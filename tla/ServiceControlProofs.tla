------------------------ MODULE ServiceControlProofs ------------------------
(***************************************************************************)
(* For any number of controls in any order, during startup too: what the   *)
(* service reports to the SCM is what was asked of it last and what the    *)
(* host really does, and a host that was stopped has let go of everything. *)
(***************************************************************************)
EXTENDS ServiceControl, TLAPS

(* The program points of the methods of the host.                          *)
StartLabels == {"start", "start watch", "bind", "fallback", "bound", "listening", "ok", "failed"}
StopLabels == {"stop", "shutdown", "stop pipeline", "stop join", "stop watch", "ok"}
PauseLabels == {"pause", "pause pipeline", "pause join", "ok"}
ContinueLabels == {"continue", "ok"}
Labels == {"none"} \cup StartLabels \cup StopLabels \cup PauseLabels \cup ContinueLabels
JoinLabels == {"pause join", "stop join"}

Alive == {"test", "collect", "publish", "sleep"}

(* Type invariant.                                                         *)
Types ==
  /\ call \in [Callers -> Labels]
  /\ running \in BOOLEAN /\ paused \in BOOLEAN /\ sampling \in BOOLEAN /\ watch \in BOOLEAN
  /\ server \in {"none", "pipe", "tcp", "down"}
  /\ endpoint \in {"none", "pipe", "tcp"}
  /\ worker \in {"none", "exited"} \cup Alive
  /\ status \in {"none", "START_PENDING", "RUNNING", "PAUSE_PENDING", "PAUSED",
                 "CONTINUE_PENDING", "STOP_PENDING", "STOPPED"}
  /\ mutex \in Callers \cup {NoOne}
  /\ startDone \in BOOLEAN /\ pauseReq \in BOOLEAN /\ stopReq \in BOOLEAN
  /\ exitEvent \in BOOLEAN /\ early \in BOOLEAN
  /\ main \in {"register", "unregistered", "starting", "finalizing", "waiting", "done"}
  /\ handler \in {"idle", "lock", "calling"}
  /\ control \in {"none", "STOP", "PAUSE", "CONTINUE"}
  /\ controls \in Nat

(* The two threads: who holds state_mutex_, who is inside the host, and    *)
(* since when start_done_ is set.  Once it is, a thread is inside the host *)
(* only with the mutex.                                                    *)
Locked ==
  /\ mutex = "main" <=> main = "finalizing"
  /\ mutex = "handler" <=> handler = "calling"
  /\ call["main"] # "none" <=> main \in {"starting", "finalizing"}
  /\ call["handler"] # "none" <=> handler = "calling"
  /\ startDone <=> main \in {"finalizing", "waiting", "done"}
  /\ handler = "calling" => startDone
  /\ exitEvent => stopReq
  /\ main = "done" => exitEvent

(* What ServiceMain is doing in the host, and what it has reported.        *)
MainAt ==
  /\ main \in {"register", "unregistered"} => status = "none"
  /\ main = "starting" => status = "START_PENDING" /\ call["main"] \in StartLabels
  /\ main = "finalizing" =>
       \/ stopReq /\ status = "STOP_PENDING" /\ call["main"] \in StopLabels
       \/ ~stopReq /\ pauseReq /\ status = "PAUSE_PENDING" /\ call["main"] \in PauseLabels

(* What the handler is doing in the host.                                  *)
HandlerAt ==
  handler = "calling" =>
    \/ control = "STOP" /\ stopReq /\ status = "STOP_PENDING" /\ call["handler"] \in StopLabels
    \/ control = "PAUSE" /\ pauseReq /\ call["handler"] \in PauseLabels
    \/ control = "CONTINUE" /\ ~pauseReq /\ call["handler"] \in ContinueLabels

(* A caller of the host waits for the pipeline thread to end.              *)
Joining == call["main"] \in JoinLabels \/ call["handler"] \in JoinLabels

(* The pipeline thread lives while its flag is up and until it is joined;  *)
(* Start never finds the old one.                                          *)
Thread ==
  /\ sampling => worker \in Alive
  /\ Joining => ~sampling /\ worker # "none"
  /\ ~sampling /\ ~Joining => worker = "none"

(* Where Start has got to.                                                 *)
Starting ==
  ~startDone =>
    /\ ~paused
    /\ running <=> main = "starting" /\ call["main"] = "ok"
    /\ sampling <=> main = "starting" /\ call["main"] # "start"
    /\ endpoint = IF main = "starting" /\ call["main"] \in {"listening", "ok"} THEN server
                                                                               ELSE "none"
    /\ server # "none" <=> main = "starting" /\ call["main"] \in {"bound", "listening", "ok"}
    /\ server # "down"

(* Until a STOP the host runs if it could be started, and its collectors   *)
(* unless they are paused.                                                 *)
Pausing == call["main"] = "pause pipeline" \/ call["handler"] = "pause pipeline"

Serving ==
  startDone /\ ~stopReq =>
    /\ running <=> endpoint # "none"
    /\ endpoint # "none" => server = endpoint
    /\ sampling <=> ~paused \/ Pausing
    /\ \A c \in Callers : call[c] \in {"pause pipeline", "pause join"} => paused
    /\ main = "finalizing" /\ call["main"] = "ok" => paused
    /\ handler = "calling" /\ call["handler"] = "ok" => (paused <=> pauseReq)
    /\ mutex = NoOne => (paused <=> pauseReq)

(* No control but STOP is in hand after a STOP, unless it was sent during  *)
(* startup.                                                                *)
Punctual ==
  ~early =>
    /\ handler # "idle" /\ control # "STOP" => startDone /\ ~stopReq
    /\ startDone /\ stopReq => status \in {"STOP_PENDING", "STOPPED"}

(* The host has let go of everything.                                      *)
Down == server = "down" /\ ~sampling /\ worker = "none" /\ ~watch /\ ~running

(* What a caller that is stopping the host has done so far.                *)
StopAt(c) ==
  /\ call[c] = "stop" => running \/ Down
  /\ call[c] \in StopLabels \ {"stop"} => ~running
  /\ call[c] \in {"stop pipeline", "stop join", "stop watch"} => server = "down"
  /\ call[c] = "stop watch" => ~sampling /\ worker = "none"
  /\ call[c] = "ok" => Down

Stopping ==
  startDone /\ stopReq /\ ~early /\ endpoint # "none" =>
    /\ mutex \in Callers => StopAt(mutex)
    /\ mutex = NoOne => Down
    /\ main = "done" => Down

(* The inductive invariant.                                                *)
Inv ==
  /\ Types
  /\ Locked
  /\ MainAt
  /\ HandlerAt
  /\ Thread
  /\ Starting
  /\ Serving
  /\ Punctual
  /\ Stopping
  /\ LastControlWins

(* The service starts with nothing under way.                              *)
LEMMA InitInv == Init => Inv
<1> SUFFICES ASSUME Init PROVE Inv
  OBVIOUS
<1> USE CallersAssumption, NoOneAssumption
<1>1. /\ call["main"] = "none" /\ call["handler"] = "none" /\ call \in [Callers -> Labels]
      /\ ~running /\ ~paused /\ ~sampling /\ ~watch
      /\ server = "none" /\ endpoint = "none" /\ worker = "none"
  BY DEF Init, HostInit, Labels
<1>2. Types
  BY <1>1 DEF Init, HostInit, Types
<1>3. Locked /\ MainAt /\ HandlerAt
  BY <1>1 DEF Init, Locked, MainAt, HandlerAt
<1>4. Thread /\ Starting
  BY <1>1 DEF Init, Thread, Starting, Joining, JoinLabels
<1>5. Serving /\ Punctual /\ Stopping /\ LastControlWins
  BY DEF Init, Serving, Punctual, Stopping, LastControlWins, Settled
<1> QED
  BY <1>2, <1>3, <1>4, <1>5 DEF Inv

(* A step of one caller leaves the other where it is.                      *)
LEMMA OneMoves ==
  ASSUME Types, NEW c \in Callers, NEW label, Goto(c, label)
  PROVE  /\ call' = [call EXCEPT ![c] = label]
         /\ call'[c] = label
         /\ \A d \in Callers \ {c} : call'[d] = call[d]
  BY DEF Types, Goto

(* Only one thread at a time is inside the host.                           *)
LEMMA OnlyOne ==
  ASSUME Inv, NEW c \in Callers, call[c] # "none"
  PROVE  \A d \in Callers \ {c} : call[d] = "none"
  BY CallersAssumption, NoOneAssumption DEF Inv, Locked

(* The program points that a step inside the host may lead to.             *)
SameMethod(from, to) ==
  \/ from \in StartLabels \ {"ok"} /\ to \in StartLabels
  \/ from \in StopLabels \ {"ok"} /\ to \in StopLabels
  \/ from \in PauseLabels \ {"ok"} /\ to \in PauseLabels
  \/ from \in ContinueLabels \ {"ok"} /\ to \in ContinueLabels

(* A step inside the host leaves the controller's books alone.             *)
LEMMA HostControl ==
  ASSUME Inv, NEW c \in Callers, NEW label, SameMethod(call[c], label), Goto(c, label),
         UNCHANGED ctrlVars
  PROVE  /\ call' \in [Callers -> Labels]
         /\ call'[c] = label
         /\ \A d \in Callers \ {c} : call[d] = "none" /\ call'[d] = "none"
         /\ Locked' /\ MainAt' /\ HandlerAt' /\ Punctual' /\ LastControlWins'
<1> USE CallersAssumption, NoOneAssumption
<1>1. label \in Labels /\ label # "none" /\ call[c] # "none" /\ call \in [Callers -> Labels]
  BY DEF SameMethod, Labels, StartLabels, StopLabels, PauseLabels, ContinueLabels, Inv, Types
<1>2. /\ call' \in [Callers -> Labels] /\ call'[c] = label
      /\ \A d \in Callers \ {c} : call'[d] = call[d]
  BY <1>1 DEF Goto
<1>3. \A d \in Callers \ {c} : call[d] = "none"
  BY <1>1, OnlyOne
<1>4. Locked'
  BY <1>1, <1>2, <1>3 DEF Inv, Locked, ctrlVars
<1>5. MainAt'
  <2>1. CASE c = "main"
    BY <1>2, <1>3, <2>1 DEF Inv, MainAt, SameMethod, ctrlVars, StartLabels, StopLabels, PauseLabels,
                            ContinueLabels
  <2>2. CASE c = "handler"
    BY <1>2, <2>2 DEF Inv, MainAt, ctrlVars
  <2> QED
    BY <2>1, <2>2
<1>6. HandlerAt'
  <2>1. CASE c = "main"
    BY <1>2, <2>1 DEF Inv, HandlerAt, ctrlVars
  <2>2. CASE c = "handler"
    BY <1>2, <2>2 DEF Inv, HandlerAt, SameMethod, ctrlVars, StartLabels, StopLabels, PauseLabels,
                      ContinueLabels
  <2> QED
    BY <2>1, <2>2
<1>7. Punctual' /\ LastControlWins'
  BY DEF Inv, Punctual, LastControlWins, Settled, ctrlVars
<1> QED
  BY <1>2, <1>3, <1>4, <1>5, <1>6, <1>7

(* The steps of ServiceHost::Start, which only ServiceMain calls.          *)
LEMMA StartInv ==
  ASSUME Inv, NEW c \in Callers, UNCHANGED ctrlVars,
         \/ StartPipeline(c) \/ StartWatch(c) \/ Bind(c) \/ Fallback(c) \/ SetEndpoint(c)
         \/ SetRunning(c)
  PROVE  Inv'
<1> USE CallersAssumption, NoOneAssumption
<1>0. call \in [Callers -> Labels]
  BY DEF Inv, Types
<1>1. call[c] \in {"start", "start watch", "bind", "fallback", "bound", "listening"}
  BY DEF StartPipeline, StartWatch, Bind, Fallback, SetEndpoint, SetRunning
<1>2. c = "main" /\ main = "starting" /\ ~startDone
  BY <1>1 DEF Inv, Locked, MainAt, HandlerAt, StartLabels, StopLabels, PauseLabels,
              ContinueLabels
<1>3. PICK label \in StartLabels : Goto(c, label) /\ label # "start"
  BY <1>1, RequestedAssumption
  DEF StartPipeline, StartWatch, Bind, Fallback, SetEndpoint, SetRunning, StartLabels
<1>4. SameMethod(call[c], label)
  BY <1>1 DEF SameMethod, StartLabels
<1>5. /\ call' \in [Callers -> Labels] /\ call'["main"] = label
      /\ call["handler"] = "none" /\ call'["handler"] = "none"
      /\ Locked' /\ MainAt' /\ HandlerAt' /\ Punctual' /\ LastControlWins'
  BY <1>2, <1>3, <1>4, HostControl
<1>6. /\ main' = "starting" /\ ~startDone'
  BY <1>2 DEF ctrlVars
<1>7. Starting' /\ Thread'
  <2>1. Starting /\ Thread /\ ~Joining /\ ~Joining'
    BY <1>1, <1>2, <1>3, <1>5 DEF Inv, Joining, JoinLabels, StartLabels
  <2>2. CASE StartPipeline(c)
    BY <1>0, <1>2, <1>5, <1>6, <2>1, <2>2
    DEF Goto, StartPipeline, PipelineStart, Starting, Thread, Alive
  <2>3. CASE StartWatch(c)
    BY <1>0, <1>2, <1>5, <1>6, <2>1, <2>3 DEF Goto, StartWatch, Starting, Thread
  <2>4. CASE Bind(c)
    BY <1>0, <1>2, <1>5, <1>6, <2>1, <2>4, RequestedAssumption
    DEF Goto, Bind, Starting, Thread
  <2>5. CASE Fallback(c)
    BY <1>0, <1>2, <1>5, <1>6, <2>1, <2>5 DEF Goto, Fallback, Starting, Thread
  <2>6. CASE SetEndpoint(c)
    BY <1>0, <1>2, <1>5, <1>6, <2>1, <2>6 DEF Goto, SetEndpoint, Starting, Thread
  <2>7. CASE SetRunning(c)
    BY <1>0, <1>2, <1>5, <1>6, <2>1, <2>7 DEF Goto, SetRunning, Starting, Thread
  <2> QED
    BY <2>2, <2>3, <2>4, <2>5, <2>6, <2>7
<1>8. Types'
  <2>1. server' \in {"none", "pipe", "tcp", "down"} /\ endpoint' \in {"none", "pipe", "tcp"}
    BY RequestedAssumption, <1>2
    DEF StartPipeline, StartWatch, Bind, Fallback, SetEndpoint, SetRunning, Types, Inv, Starting
  <2>2. worker' \in {"none", "exited"} \cup Alive
    BY <1>2, <1>5, <1>1
    DEF StartPipeline, StartWatch, Bind, Fallback, SetEndpoint, SetRunning, Types, Inv, Alive,
        Starting, Thread, Joining, JoinLabels, PipelineStart
  <2>3. /\ running' \in BOOLEAN /\ paused' \in BOOLEAN /\ sampling' \in BOOLEAN
        /\ watch' \in BOOLEAN
    BY Zenon
    DEF StartPipeline, StartWatch, Bind, Fallback, SetEndpoint, SetRunning, Types, Inv,
        PipelineStart
  <2> QED
    BY <1>5, <2>1, <2>2, <2>3 DEF Types, ctrlVars, Inv
<1>9. Serving' /\ Stopping'
  BY <1>6 DEF Serving, Stopping
<1> QED
  BY <1>5, <1>7, <1>8, <1>9 DEF Inv

(* The steps of ServiceHost::Stop, by FinalizeStart or by the handler.     *)
LEMMA StopInv ==
  ASSUME Inv, NEW c \in Callers, UNCHANGED ctrlVars, call[c] \in StopLabels,
         StopHost(c) \/ ShutdownServer(c) \/ StopPipeline(c) \/ JoinPipeline(c) \/ StopWatch(c)
  PROVE  Inv'
<1> USE CallersAssumption, NoOneAssumption
<1>0. call \in [Callers -> Labels]
  BY DEF Inv, Types
<1>1. call[c] \in {"stop", "shutdown", "stop pipeline", "stop join", "stop watch"}
  BY DEF StopHost, ShutdownServer, StopPipeline, JoinPipeline, StopWatch, StopLabels
<1>2. startDone /\ stopReq /\ mutex = c
  BY <1>1 DEF Inv, Locked, MainAt, HandlerAt, StartLabels, PauseLabels, ContinueLabels
<1>3. PICK label \in StopLabels : Goto(c, label) /\ label # "stop"
  BY <1>1
  DEF StopHost, ShutdownServer, StopPipeline, JoinPipeline, StopWatch, StopLabels,
      AfterPipelineStop
<1>4. SameMethod(call[c], label)
  BY <1>1 DEF SameMethod, StopLabels
<1>5. /\ call' \in [Callers -> Labels] /\ call'[c] = label
      /\ \A d \in Callers \ {c} : call[d] = "none" /\ call'[d] = "none"
      /\ Locked' /\ MainAt' /\ HandlerAt' /\ Punctual' /\ LastControlWins'
  BY <1>3, <1>4, HostControl
<1>6. startDone' /\ stopReq' /\ mutex' = c /\ early' = early /\ main' = main
  BY <1>2 DEF ctrlVars
<1>7. /\ Joining <=> call[c] = "stop join"
      /\ Joining' <=> label = "stop join"
  BY <1>1, <1>3, <1>5 DEF Joining, JoinLabels, StopLabels
<1>8. Thread'
  <2>1. Thread
    BY DEF Inv
  <2>2. CASE StopHost(c)
    BY <1>0, <1>5, <1>7, <2>1, <2>2 DEF Goto, StopHost, Thread
  <2>3. CASE ShutdownServer(c)
    BY <1>0, <1>5, <1>7, <2>1, <2>3 DEF Goto, ShutdownServer, Thread
  <2>4. CASE StopPipeline(c)
    BY <1>0, <1>1, <1>5, <1>7, <2>1, <2>4
    DEF Goto, StopPipeline, AfterPipelineStop, Thread, Alive
  <2>5. CASE JoinPipeline(c)
    BY <1>0, <1>1, <1>5, <1>7, <2>1, <2>5 DEF Goto, JoinPipeline, AfterPipelineStop, Thread
  <2>6. CASE StopWatch(c)
    BY <1>0, <1>5, <1>7, <2>1, <2>6 DEF Goto, StopWatch, Thread
  <2> QED
    BY <2>2, <2>3, <2>4, <2>5, <2>6
<1>9. Stopping'
  <2> SUFFICES ASSUME ~early, endpoint' # "none"
               PROVE  StopAt(c)' /\ (main' = "done" => Down')
    BY <1>6, NoOneAssumption DEF Stopping, StopAt
  <2>1. endpoint' = endpoint
    BY DEF StopHost, ShutdownServer, StopPipeline, JoinPipeline, StopWatch
  <2>2. StopAt(c) /\ (main = "done" => Down)
    BY <1>2, <2>1 DEF Inv, Stopping, StopAt
  <2>3. Thread
    BY DEF Inv
  <2>4. CASE StopHost(c)
    BY <1>0, <1>5, <1>6, <2>2, <2>4 DEF Goto, StopHost, StopAt, Down, StopLabels
  <2>5. CASE ShutdownServer(c)
    BY <1>0, <1>5, <1>6, <2>2, <2>5 DEF Goto, ShutdownServer, StopAt, Down, StopLabels
  <2>6. CASE StopPipeline(c)
    BY <1>0, <1>1, <1>5, <1>6, <1>7, <2>2, <2>3, <2>6
    DEF Goto, StopPipeline, AfterPipelineStop, StopAt, Down, StopLabels, Thread
  <2>7. CASE JoinPipeline(c)
    BY <1>0, <1>1, <1>5, <1>6, <1>7, <2>2, <2>3, <2>7
    DEF Goto, JoinPipeline, AfterPipelineStop, StopAt, Down, StopLabels, Thread
  <2>8. CASE StopWatch(c)
    BY <1>0, <1>5, <1>6, <2>2, <2>8 DEF Goto, StopWatch, StopAt, Down, StopLabels
  <2> QED
    BY <2>4, <2>5, <2>6, <2>7, <2>8
<1>10. Types'
  <2>1. server' \in {"none", "pipe", "tcp", "down"} /\ endpoint' \in {"none", "pipe", "tcp"}
    BY DEF StopHost, ShutdownServer, StopPipeline, JoinPipeline, StopWatch, Types, Inv
  <2>2. worker' \in {"none", "exited"} \cup Alive
    BY DEF StopHost, ShutdownServer, StopPipeline, JoinPipeline, StopWatch, Types, Inv
  <2>3. /\ running' \in BOOLEAN /\ paused' \in BOOLEAN /\ sampling' \in BOOLEAN
        /\ watch' \in BOOLEAN
    BY Zenon DEF StopHost, ShutdownServer, StopPipeline, JoinPipeline, StopWatch, Types, Inv
  <2> QED
    BY <1>5, <2>1, <2>2, <2>3 DEF Types, ctrlVars, Inv
<1>11. Serving' /\ Starting'
  BY <1>6 DEF Serving, Starting
<1> QED
  BY <1>5, <1>8, <1>9, <1>10, <1>11 DEF Inv

(* The steps of PauseCollectors and ResumeCollectors.  Unless a control    *)
(* came in during startup, no STOP has been accepted before them.          *)
LEMMA PauseInv ==
  ASSUME Inv, NEW c \in Callers, UNCHANGED ctrlVars,
         \/ PauseCollectors(c) \/ ResumeCollectors(c)
         \/ call[c] \in PauseLabels /\ (StopPipeline(c) \/ JoinPipeline(c))
  PROVE  Inv'
<1> USE CallersAssumption, NoOneAssumption
<1>0. call \in [Callers -> Labels]
  BY DEF Inv, Types
<1>1. call[c] \in {"pause", "pause pipeline", "pause join", "continue"}
  BY DEF PauseCollectors, ResumeCollectors, StopPipeline, JoinPipeline, PauseLabels
<1>2. startDone /\ mutex = c /\ (stopReq => early)
  BY <1>1 DEF Inv, Locked, MainAt, HandlerAt, Punctual, StartLabels, StopLabels
<1>3. PICK label \in PauseLabels : Goto(c, label) /\ label # "pause"
  BY <1>1 DEF PauseCollectors, ResumeCollectors, StopPipeline, JoinPipeline, PauseLabels,
              AfterPipelineStop
<1>4. SameMethod(call[c], label)
  <2>1. call[c] = "continue" => label = "ok"
    BY <1>0, <1>1, <1>3 DEF PauseCollectors, ResumeCollectors, StopPipeline, JoinPipeline, Goto,
                            PauseLabels
  <2> QED
    BY <1>1, <2>1 DEF SameMethod, PauseLabels, ContinueLabels
<1>5. /\ call' \in [Callers -> Labels] /\ call'[c] = label
      /\ \A d \in Callers \ {c} : call[d] = "none" /\ call'[d] = "none"
      /\ Locked' /\ MainAt' /\ HandlerAt' /\ Punctual' /\ LastControlWins'
  BY <1>3, <1>4, HostControl
<1>6. startDone' /\ mutex' = c /\ (stopReq' => early') /\ UNCHANGED <<stopReq, pauseReq>>
  BY <1>2 DEF ctrlVars
<1>7. /\ Joining <=> call[c] = "pause join"
      /\ Joining' <=> label = "pause join"
      /\ Pausing <=> call[c] = "pause pipeline"
      /\ Pausing' <=> label = "pause pipeline"
  BY <1>1, <1>3, <1>5 DEF Joining, JoinLabels, PauseLabels, Pausing
<1>8. Thread'
  <2>1. Thread
    BY DEF Inv
  <2>2. CASE PauseCollectors(c)
    BY <1>0, <1>5, <1>7, <2>1, <2>2 DEF Goto, PauseCollectors, Thread
  <2>3. CASE ResumeCollectors(c)
    BY <1>0, <1>5, <1>7, <2>1, <2>3 DEF Goto, ResumeCollectors, PipelineStart, Thread, Alive
  <2>4. CASE StopPipeline(c)
    BY <1>0, <1>1, <1>5, <1>7, <2>1, <2>4
    DEF Goto, StopPipeline, AfterPipelineStop, Thread, Alive
  <2>5. CASE JoinPipeline(c)
    BY <1>0, <1>1, <1>5, <1>7, <2>1, <2>5 DEF Goto, JoinPipeline, AfterPipelineStop, Thread
  <2> QED
    BY <2>2, <2>3, <2>4, <2>5
<1>9. Serving'
  <2> SUFFICES ASSUME ~stopReq PROVE Serving'
    BY <1>6 DEF Serving
  <2>1. /\ running <=> endpoint # "none"
        /\ endpoint # "none" => server = endpoint
        /\ sampling <=> ~paused \/ Pausing
        /\ call[c] \in {"pause pipeline", "pause join"} => paused
    BY <1>2 DEF Inv, Serving
  <2>2. UNCHANGED <<running, endpoint, server>>
    BY DEF PauseCollectors, ResumeCollectors, StopPipeline, JoinPipeline
  <2>3. call[c] = "continue" <=> ~pauseReq
    BY <1>1, <1>2 DEF Inv, Locked, MainAt, HandlerAt, StartLabels, StopLabels, PauseLabels,
                      ContinueLabels
  <2>4. /\ sampling' <=> ~paused' \/ Pausing'
        /\ label \in {"pause pipeline", "pause join"} => paused'
        /\ label = "ok" => (paused' <=> pauseReq)
    <3>1. CASE PauseCollectors(c)
      BY <1>0, <1>5, <1>7, <2>1, <2>3, <3>1 DEF Goto, PauseCollectors
    <3>2. CASE ResumeCollectors(c)
      BY <1>0, <1>5, <1>7, <2>1, <2>3, <3>2 DEF Goto, ResumeCollectors, PipelineStart
    <3>3. CASE StopPipeline(c)
      BY <1>0, <1>1, <1>5, <1>7, <2>1, <2>3, <3>3 DEF Goto, StopPipeline, AfterPipelineStop
    <3>4. CASE JoinPipeline(c)
      BY <1>0, <1>1, <1>5, <1>7, <2>1, <2>3, <3>4 DEF Goto, JoinPipeline, AfterPipelineStop
    <3> QED
      BY <3>1, <3>2, <3>3, <3>4
  <2>5. main' = "finalizing" /\ call'["main"] = "ok" => pauseReq
    BY <1>5, <1>6 DEF MainAt
  <2> QED
    BY <1>5, <1>6, <2>1, <2>2, <2>4, <2>5 DEF Serving, Locked
<1>10. Types'
  <2>1. worker' \in {"none", "exited"} \cup Alive
    BY <1>1, <1>7
    DEF PauseCollectors, ResumeCollectors, PipelineStart, StopPipeline, JoinPipeline, Types, Inv,
        Thread, Alive
  <2>2. paused' \in BOOLEAN /\ sampling' \in BOOLEAN
    BY Zenon DEF PauseCollectors, ResumeCollectors, PipelineStart, StopPipeline, JoinPipeline,
                 Types, Inv
  <2>3. UNCHANGED <<running, server, endpoint, watch>>
    BY DEF PauseCollectors, ResumeCollectors, StopPipeline, JoinPipeline
  <2> QED
    BY <1>5, <2>1, <2>2, <2>3 DEF Types, ctrlVars, Inv
<1>11. Stopping' /\ Starting'
  BY <1>6 DEF Stopping, Starting
<1> QED
  BY <1>5, <1>8, <1>9, <1>10, <1>11 DEF Inv

(* Every step of a thread inside the host keeps the invariant.             *)
LEMMA HostInv ==
  ASSUME Inv, NEW c \in Callers, HostStep(c), UNCHANGED ctrlVars
  PROVE  Inv'
<1>1. CASE StopPipeline(c) \/ JoinPipeline(c)
  <2>1. call[c] \in StopLabels \/ call[c] \in PauseLabels
    BY <1>1 DEF StopPipeline, JoinPipeline, StopLabels, PauseLabels
  <2> QED
    BY <1>1, <2>1, StopInv, PauseInv
<1>2. CASE StopHost(c) \/ ShutdownServer(c) \/ StopWatch(c)
  <2>1. call[c] \in StopLabels
    BY <1>2 DEF StopHost, ShutdownServer, StopWatch, StopLabels
  <2> QED
    BY <1>2, <2>1, StopInv
<1> QED
  BY <1>1, <1>2, StartInv, PauseInv DEF HostStep

(* The pipeline thread ends only when its flag is down.                    *)
LEMMA LoopInv ==
  ASSUME Inv, Pipeline
  PROVE  Inv'
<1>1. UNCHANGED <<call, running, paused, server, endpoint, sampling, watch>>
  BY DEF Pipeline, Loop
<1>2. UNCHANGED ctrlVars
  BY DEF Pipeline
<1>3. worker # "none" /\ worker' # "none"
  BY DEF Pipeline, Loop
<1>4. Types'
  <2>1. worker' \in {"none", "exited"} \cup Alive
    BY DEF Pipeline, Loop, Alive
  <2> QED
    BY <1>1, <1>2, <2>1 DEF Inv, Types, ctrlVars
<1>5. Thread'
  BY <1>1 DEF Inv, Thread, Joining, Pipeline, Loop, Alive
<1>6. Stopping'
  BY <1>1, <1>2, <1>3 DEF Inv, Stopping, StopAt, Down, ctrlVars
<1> QED
  BY <1>1, <1>2, <1>4, <1>5, <1>6
  DEF Inv, Locked, MainAt, HandlerAt, Starting, Serving, Punctual, LastControlWins, Settled,
      Pausing, ctrlVars

(* A call or a return of thread c.                                         *)
LEMMA CallFacts ==
  ASSUME Inv, NEW c \in Callers, NEW label \in Labels, CallHost(c, label)
  PROVE  /\ call' \in [Callers -> Labels] /\ call'[c] = label
         /\ \A d \in Callers \ {c} : call'[d] = call[d]
         /\ UNCHANGED <<running, paused, server, endpoint, sampling, worker, watch>>
  BY DEF CallHost, Goto, Inv, Types

(* ServiceMain outside the host.                                           *)
LEMMA MainInv ==
  ASSUME Inv, \/ ReportStartPending \/ RegisterFails
              \/ FinalizeStart \/ FinalizeReturns \/ ReportStopped
  PROVE  Inv'
<1> USE CallersAssumption, NoOneAssumption
<1> USE DEF Inv
<1>0. {"none", "start", "stop", "pause"} \subseteq Labels
  BY DEF Labels, StartLabels, StopLabels, PauseLabels
<1>1. CASE ReportStartPending
  <2>1. /\ main = "register" /\ status' = "START_PENDING" /\ main' = "starting"
        /\ call' \in [Callers -> Labels]
        /\ call'["main"] = "start" /\ call'["handler"] = call["handler"]
        /\ UNCHANGED <<running, paused, server, endpoint, sampling, worker, watch>>
        /\ UNCHANGED <<mutex, startDone, pauseReq, stopReq, exitEvent, handler, control,
                       controls, early>>
    BY <1>0, <1>1, CallFacts DEF ReportStartPending
  <2>2. Types'
    BY <2>1 DEF Types
  <2>3. Locked' /\ MainAt' /\ HandlerAt'
    BY <2>1 DEF Types, Locked, MainAt, HandlerAt, StartLabels
  <2>4. Thread' /\ Starting'
    BY <2>1 DEF Types, Locked, Thread, Starting, Joining, JoinLabels
  <2>5. Serving' /\ Punctual' /\ Stopping' /\ LastControlWins'
    BY <2>1 DEF Types, Locked, Serving, Punctual, Stopping, LastControlWins, Settled
  <2> QED
    BY <2>2, <2>3, <2>4, <2>5
<1>2. CASE FinalizeStart
  <2>1. /\ main = "starting" /\ call["main"] \in {"ok", "failed"} /\ mutex = NoOne /\ startDone'
        /\ UNCHANGED <<pauseReq, stopReq, exitEvent, handler, control, controls, early>>
    BY <1>2 DEF FinalizeStart, Returned
  <2>2. /\ call["handler"] = "none" /\ ~startDone /\ handler # "calling"
        /\ ~paused /\ sampling /\ worker \in Alive
        /\ running <=> endpoint # "none"
        /\ endpoint # "none" => server = endpoint
        /\ call["main"] = "failed" => ~running
    BY <2>1 DEF Locked, Starting, Thread, Types
  <2>3. CASE stopReq \/ pauseReq
    <3>1. /\ status' = IF stopReq THEN "STOP_PENDING" ELSE "PAUSE_PENDING"
          /\ call' \in [Callers -> Labels]
          /\ call'["main"] = IF stopReq THEN "stop" ELSE "pause"
          /\ call'["handler"] = "none"
          /\ UNCHANGED <<running, paused, server, endpoint, sampling, worker, watch>>
          /\ mutex' = "main" /\ main' = "finalizing"
      BY <1>0, <1>2, <2>2, <2>3, CallFacts DEF FinalizeStart
    <3>2. Types'
      BY <2>1, <3>1 DEF Types
    <3>3. Locked' /\ MainAt' /\ HandlerAt'
      BY <2>1, <2>2, <2>3, <3>1 DEF Locked, MainAt, HandlerAt, StopLabels, PauseLabels
    <3>4. Thread' /\ Starting'
      BY <2>1, <2>2, <3>1 DEF Thread, Starting, Joining, JoinLabels
    <3>5. Serving' /\ LastControlWins' /\ Punctual'
      BY <2>1, <2>2, <2>3, <3>1 DEF Serving, Pausing, LastControlWins, Settled, Punctual
    <3>6. Stopping'
      BY <2>1, <2>2, <2>3, <3>1 DEF Stopping, StopAt, StopLabels
    <3> QED
      BY <3>2, <3>3, <3>4, <3>5, <3>6
  <2>4. CASE ~(stopReq \/ pauseReq)
    <3>1. /\ status' = "RUNNING"
          /\ call' \in [Callers -> Labels]
          /\ call'["main"] = "none" /\ call'["handler"] = "none"
          /\ UNCHANGED <<running, paused, server, endpoint, sampling, worker, watch>>
          /\ mutex' = mutex /\ main' = "waiting"
      BY <1>0, <1>2, <2>2, <2>4, CallFacts DEF FinalizeStart
    <3>2. Types'
      BY <2>1, <3>1 DEF Types
    <3>3. Locked' /\ MainAt' /\ HandlerAt'
      BY <2>1, <2>2, <2>4, <3>1 DEF Locked, MainAt, HandlerAt
    <3>4. Thread' /\ Starting'
      BY <2>1, <2>2, <3>1 DEF Thread, Starting, Joining, JoinLabels
    <3>5. Serving' /\ LastControlWins' /\ Punctual' /\ Stopping'
      BY <2>1, <2>2, <2>4, <3>1
      DEF Serving, Pausing, LastControlWins, Settled, Punctual, Stopping
    <3> QED
      BY <3>2, <3>3, <3>4, <3>5
  <2> QED
    BY <2>3, <2>4
<1>3. CASE FinalizeReturns
  <2>1. /\ main = "finalizing" /\ call["main"] \in {"ok", "failed"}
        /\ status' = IF status = "PAUSE_PENDING" THEN "PAUSED" ELSE status
        /\ mutex' = NoOne /\ main' = "waiting"
        /\ call' \in [Callers -> Labels]
        /\ call'["main"] = "none" /\ call'["handler"] = call["handler"]
        /\ UNCHANGED <<running, paused, server, endpoint, sampling, worker, watch>>
        /\ UNCHANGED <<startDone, pauseReq, stopReq, exitEvent, handler, control, controls,
                       early>>
    BY <1>0, <1>3, CallFacts DEF FinalizeReturns, Returned
  <2>2. /\ call["main"] = "ok" /\ mutex = "main" /\ startDone /\ call["handler"] = "none"
        /\ handler # "calling"
    BY <2>1 DEF Locked, MainAt, StopLabels, PauseLabels
  <2>3. Types'
    BY <2>1 DEF Types
  <2>4. Locked' /\ MainAt' /\ HandlerAt'
    BY <2>1, <2>2 DEF Locked, MainAt, HandlerAt
  <2>5. Thread' /\ Starting'
    BY <2>1, <2>2 DEF Thread, Starting, Joining, JoinLabels
  <2>6. Serving' /\ LastControlWins'
    BY <2>1, <2>2 DEF Serving, Pausing, MainAt, LastControlWins, Settled
  <2>7. Punctual'
    BY <2>1, <2>2 DEF Punctual, MainAt
  <2>8. Stopping'
    BY <2>1, <2>2 DEF Stopping, StopAt, Down
  <2> QED
    BY <2>3, <2>4, <2>5, <2>6, <2>7, <2>8
<1>4. CASE ReportStopped
  <2>1. /\ main = "waiting" /\ exitEvent /\ mutex = NoOne
        /\ status' = "STOPPED" /\ main' = "done"
        /\ UNCHANGED call
        /\ UNCHANGED <<running, paused, server, endpoint, sampling, worker, watch>>
        /\ UNCHANGED <<mutex, startDone, pauseReq, stopReq, exitEvent, handler, control,
                       controls, early>>
    BY <1>4 DEF ReportStopped, hostVars
  <2>2. stopReq /\ startDone /\ handler # "calling"
    BY <2>1 DEF Locked
  <2>3. Types'
    BY <2>1 DEF Types
  <2>4. Locked' /\ MainAt' /\ HandlerAt'
    BY <2>1, <2>2 DEF Locked, MainAt, HandlerAt
  <2>5. Thread' /\ Starting' /\ Serving' /\ LastControlWins' /\ Punctual'
    BY <2>1, <2>2 DEF Thread, Starting, Joining, JoinLabels, Serving, LastControlWins, Settled,
                      Punctual
  <2>6. Stopping'
    BY <2>1, <2>2 DEF Stopping, Down
  <2> QED
    BY <2>3, <2>4, <2>5, <2>6
<1>5. CASE RegisterFails
  <2>1. /\ main = "register" /\ main' = "unregistered"
        /\ UNCHANGED call
        /\ UNCHANGED <<running, paused, server, endpoint, sampling, worker, watch>>
        /\ UNCHANGED <<status, mutex, startDone, pauseReq, stopReq, exitEvent, handler, control,
                       controls, early>>
    BY <1>5 DEF RegisterFails, hostVars
  <2>2. Types'
    BY <2>1 DEF Types
  <2>3. Locked' /\ MainAt' /\ HandlerAt'
    BY <2>1 DEF Locked, MainAt, HandlerAt
  <2>4. Thread' /\ Starting' /\ Serving' /\ LastControlWins' /\ Punctual'
    BY <2>1 DEF Locked, Thread, Starting, Joining, JoinLabels, Serving, LastControlWins, Settled,
                Punctual
  <2>5. Stopping'
    BY <2>1 DEF Locked, Stopping
  <2> QED
    BY <2>2, <2>3, <2>4, <2>5
<1> QED
  BY <1>1, <1>2, <1>3, <1>4, <1>5

(* A control is on its way to the handler.                                 *)
LEMMA SendInv ==
  ASSUME Inv, NEW c \in {"STOP", "PAUSE", "CONTINUE"}, Send(c)
  PROVE  Inv'
<1> USE CallersAssumption, NoOneAssumption
<1> USE DEF Inv
<1>1. /\ handler = "idle" /\ handler' = "lock" /\ control' = c /\ controls' = controls + 1
      /\ status \in {"START_PENDING", "RUNNING", "PAUSE_PENDING", "PAUSED"}
      /\ early' = (early \/ (status = "START_PENDING" /\ c # "STOP"))
      /\ UNCHANGED call
      /\ UNCHANGED <<running, paused, server, endpoint, sampling, worker, watch>>
      /\ UNCHANGED <<status, mutex, startDone, pauseReq, stopReq, exitEvent, main>>
  BY DEF Send, hostVars
<1>2. Types'
  <2>1. controls' \in Nat
    BY <1>1 DEF Types
  <2>2. early' \in BOOLEAN
    BY <1>1
  <2> QED
    BY <1>1, <2>1, <2>2 DEF Types
<1>3. Locked' /\ MainAt' /\ HandlerAt'
  BY <1>1 DEF Locked, MainAt, HandlerAt
<1>4. Thread' /\ Starting' /\ Serving' /\ LastControlWins'
  BY <1>1 DEF Thread, Starting, Joining, Serving, Pausing, LastControlWins, Settled
<1>5. Punctual'
  <2>1. CASE early'
    BY <2>1 DEF Punctual
  <2>2. CASE ~early'
    <3>1. ~early /\ (status # "START_PENDING" \/ c = "STOP")
      BY <1>1, <2>2
    <3>2. startDone /\ stopReq => status \in {"STOP_PENDING", "STOPPED"}
      BY <3>1 DEF Punctual
    <3>3. status \in {"RUNNING", "PAUSE_PENDING", "PAUSED"} => startDone
      BY DEF Locked, MainAt, Types
    <3> QED
      BY <1>1, <3>1, <3>2, <3>3 DEF Punctual
  <2> QED
    BY <2>1, <2>2
<1>6. Stopping'
  BY <1>1 DEF Stopping, StopAt, Down
<1> QED
  BY <1>2, <1>3, <1>4, <1>5, <1>6

(* The handler gets the mutex: before start_done_ it only leaves a note    *)
(* for FinalizeStart, afterwards it reports and calls the host.            *)
LEMMA HandleInv ==
  ASSUME Inv, HandleStop \/ HandlePause \/ HandleContinue
  PROVE  Inv'
<1> USE CallersAssumption, NoOneAssumption
<1> USE DEF Inv
<1>0. {"stop", "pause", "continue"} \subseteq Labels
  BY DEF Labels, StopLabels, PauseLabels, ContinueLabels
<1>1. /\ handler = "lock" /\ mutex = NoOne
      /\ control \in {"STOP", "PAUSE", "CONTINUE"}
      /\ stopReq' = (stopReq \/ control = "STOP")
      /\ pauseReq' = IF control = "PAUSE" THEN TRUE
                     ELSE IF control = "CONTINUE" THEN FALSE ELSE pauseReq
      /\ exitEvent' = (exitEvent \/ (~startDone /\ control = "STOP"))
      /\ UNCHANGED <<startDone, main, control, controls, early>>
  BY DEF HandleStop, HandlePause, HandleContinue, Types
<1>2. call["handler"] = "none" /\ main # "finalizing" /\ (startDone => call["main"] = "none")
  BY <1>1 DEF Locked
<1>3. stopReq' \in BOOLEAN /\ pauseReq' \in BOOLEAN /\ exitEvent' \in BOOLEAN
  BY <1>1 DEF Types
<1>4. UNCHANGED <<startDone, main, control, controls, early>>
  BY <1>1
<1>5. CASE ~startDone
  <2>1. /\ handler' = "idle" /\ UNCHANGED <<call, status, mutex>>
        /\ UNCHANGED <<running, paused, server, endpoint, sampling, worker, watch>>
    BY <1>5 DEF HandleStop, HandlePause, HandleContinue, hostVars
  <2>2. Types'
    BY <1>3, <1>4, <2>1 DEF Types
  <2>3. Locked' /\ MainAt' /\ HandlerAt'
    BY <1>1, <1>2, <1>5, <2>1 DEF Locked, MainAt, HandlerAt
  <2>4. Thread' /\ Starting'
    BY <1>1, <2>1 DEF Thread, Starting, Joining
  <2>5. Serving' /\ LastControlWins' /\ Punctual' /\ Stopping'
    BY <1>1, <1>5, <2>1 DEF Serving, LastControlWins, Settled, Punctual, Stopping
  <2> QED
    BY <2>2, <2>3, <2>4, <2>5
<1>6. CASE startDone
  <2>1. PICK label \in {"stop", "pause", "continue"} :
          /\ CallHost("handler", label)
          /\ label = "stop" <=> control = "STOP"
          /\ label = "pause" <=> control = "PAUSE"
          /\ label = "continue" <=> control = "CONTINUE"
    BY <1>6 DEF HandleStop, HandlePause, HandleContinue, HandlerCalls
  <2>2. /\ handler' = "calling" /\ mutex' = "handler"
        /\ status' \in {"STOP_PENDING", "PAUSE_PENDING", "CONTINUE_PENDING"}
        /\ control = "STOP" => status' = "STOP_PENDING"
        /\ call' \in [Callers -> Labels] /\ call'["handler"] = label
        /\ call'["main"] = "none"
        /\ UNCHANGED <<running, paused, server, endpoint, sampling, worker, watch>>
    BY <1>0, <1>2, <1>6, <2>1, CallFacts DEF HandleStop, HandlePause, HandleContinue, HandlerCalls
  <2>3. Types'
    BY <1>3, <1>4, <2>2 DEF Types
  <2>4. Locked' /\ MainAt' /\ HandlerAt'
    BY <1>1, <1>2, <1>6, <2>1, <2>2
    DEF Locked, MainAt, HandlerAt, StopLabels, PauseLabels, ContinueLabels
  <2>5. Thread' /\ Starting'
    BY <1>1, <1>2, <1>6, <2>1, <2>2 DEF Thread, Starting, Joining, JoinLabels
  <2>6. Serving' /\ LastControlWins'
    BY <1>1, <1>2, <1>6, <2>1, <2>2 DEF Serving, Pausing, LastControlWins, Settled, Locked
  <2>7. Punctual'
    BY <1>1, <1>6, <2>1, <2>2 DEF Punctual
  <2>8. Stopping'
    <3> SUFFICES ASSUME stopReq', ~early, endpoint # "none"
                 PROVE  StopAt("handler")' /\ (main = "done" => Down')
      BY <1>1, <2>2 DEF Stopping, StopAt
    <3>1. label = "stop"
      BY <1>1, <1>6, <2>1 DEF Punctual
    <3>2. running \/ Down
      BY <1>1, <1>6 DEF Serving, Stopping
    <3>3. main = "done" => Down
      BY <1>1, <1>6 DEF Stopping, Locked
    <3> QED
      BY <2>2, <3>1, <3>2, <3>3 DEF StopAt, Down, StopLabels
  <2> QED
    BY <2>3, <2>4, <2>5, <2>6, <2>7, <2>8
<1> QED
  BY <1>5, <1>6

(* The handler is back from the host: it reports, signals and unlocks.     *)
LEMMA HandlerReturnsInv ==
  ASSUME Inv, HandlerReturns
  PROVE  Inv'
<1> USE CallersAssumption, NoOneAssumption
<1> USE DEF Inv
<1>0. "none" \in Labels
  BY DEF Labels
<1>1. /\ handler = "calling" /\ call["handler"] \in {"ok", "failed"}
      /\ mutex' = NoOne /\ handler' = "idle"
      /\ exitEvent' = (exitEvent \/ control = "STOP")
      /\ call' \in [Callers -> Labels] /\ call'["handler"] = "none"
      /\ call'["main"] = call["main"]
      /\ UNCHANGED <<running, paused, server, endpoint, sampling, worker, watch>>
      /\ UNCHANGED <<startDone, pauseReq, stopReq, main, control, controls, early>>
  BY <1>0, CallFacts DEF HandlerReturns, Returned
<1>2. status' = IF control = "PAUSE" THEN "PAUSED"
                ELSE IF control = "CONTINUE" THEN "RUNNING" ELSE status
  BY DEF HandlerReturns
<1>3. /\ call["handler"] = "ok" /\ mutex = "handler" /\ startDone /\ call["main"] = "none"
      /\ main # "finalizing"
  BY <1>1 DEF Locked, HandlerAt, StopLabels, PauseLabels, ContinueLabels
<1>4. Types'
  <2>1. exitEvent' \in BOOLEAN
    BY <1>1
  <2> QED
    BY <1>1, <1>2, <2>1 DEF Types
<1>5. Locked' /\ MainAt' /\ HandlerAt'
  BY <1>1, <1>3 DEF Locked, MainAt, HandlerAt
<1>6. Thread' /\ Starting'
  BY <1>1, <1>3 DEF Thread, Starting, Joining, JoinLabels
<1>7. Serving' /\ LastControlWins'
  BY <1>1, <1>2, <1>3 DEF Serving, Pausing, HandlerAt, LastControlWins, Settled
<1>8. Punctual'
  BY <1>1, <1>2, <1>3 DEF Punctual, HandlerAt
<1>9. Stopping'
  BY <1>1, <1>3 DEF Stopping, StopAt, Down
<1> QED
  BY <1>4, <1>5, <1>6, <1>7, <1>8, <1>9

(* Every step of either thread, of the pipeline and of the SCM.            *)
LEMMA NextInv == Inv /\ [Next]_vars => Inv'
<1> SUFFICES ASSUME Inv, [Next]_vars PROVE Inv'
  OBVIOUS
<1>1. CASE ServiceMain
  BY <1>1, MainInv, HostInv, CallersAssumption DEF ServiceMain
<1>2. CASE HandlerThread
  BY <1>2, HandleInv, HandlerReturnsInv, HostInv, CallersAssumption DEF HandlerThread
<1>3. CASE Pipeline
  BY <1>3, LoopInv
<1>4. ASSUME NEW c \in {"STOP", "PAUSE", "CONTINUE"}, Send(c) PROVE Inv'
  BY <1>4, SendInv
<1>5. CASE UNCHANGED vars
  <2>1. Types'
    BY <1>5 DEF vars, hostVars, ctrlVars, Inv, Types
  <2>2. Locked' /\ MainAt' /\ HandlerAt' /\ Thread' /\ Starting'
    BY <1>5 DEF vars, hostVars, ctrlVars, Inv, Locked, MainAt, HandlerAt, Thread, Joining, Starting
  <2>3. Serving' /\ Punctual' /\ Stopping' /\ LastControlWins'
    BY <1>5 DEF vars, hostVars, ctrlVars, Inv, Serving, Pausing, Punctual, Stopping, StopAt, Down,
                LastControlWins, Settled
  <2> QED
    BY <2>1, <2>2, <2>3 DEF Inv
<1> QED
  BY <1>1, <1>2, <1>3, <1>4, <1>5 DEF Next

(* The invariant holds from the first report to the SCM to the last.       *)
LEMMA InvAlways == Spec => []Inv
  BY InitInv, NextInv, PTL DEF Spec

(* A pause or a continue is never lost to the report that ends a slow      *)
(* start: with no transition under way and no STOP accepted, the state     *)
(* that the SCM shows is the one that the last control asked for.          *)
THEOREM LastControlIsReported == Spec => []LastControlWins
<1>1. Inv => LastControlWins
  BY DEF Inv
<1> QED
  BY InvAlways, <1>1, PTL

(* PAUSED is reported only when the pipeline thread has been joined,       *)
(* RUNNING only while it is at work, and the gRPC status agrees with the   *)
(* one of the SCM whenever the host could be started.                      *)
THEOREM ReportsAreTrue == Spec => []ReportIsTrue
<1>1. Inv => ReportIsTrue
  <2> SUFFICES ASSUME Inv, Settled PROVE ReportIsTrue
    BY DEF ReportIsTrue
  <2>1. call["main"] = "none" /\ call["handler"] = "none"
    BY CallersAssumption, NoOneAssumption DEF Inv, Locked, Settled
  <2>2. ~Joining /\ ~Pausing
    BY <2>1 DEF Joining, JoinLabels, Pausing
  <2>3. /\ running <=> endpoint # "none"
        /\ endpoint # "none" => server = endpoint
        /\ sampling <=> ~paused
        /\ paused <=> pauseReq
    BY <2>2 DEF Inv, Serving, Settled
  <2>4. status = IF pauseReq THEN "PAUSED" ELSE "RUNNING"
    BY DEF Inv, LastControlWins
  <2> QED
    BY <2>2, <2>3, <2>4 DEF Inv, Thread, Alive, ReportIsTrue, StateName
<1> QED
  BY InvAlways, <1>1, PTL

(* When ServiceMain is through, a host that was started has shut its       *)
(* server down, joined its pipeline thread and stopped its file watch, and *)
(* no control that was still on its way starts any of it again, unless a   *)
(* pause or a continue came in during startup.                             *)
THEOREM StopIsComplete == Spec => []StoppedIsDown
<1>1. Inv => StoppedIsDown
  BY DEF Inv, Stopping, Down, StoppedIsDown, Locked
<1> QED
  BY InvAlways, <1>1, PTL
=============================================================================
