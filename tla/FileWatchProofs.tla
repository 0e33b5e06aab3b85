--------------------------- MODULE FileWatchProofs ---------------------------
(***************************************************************************)
(* Proofs about the event bus and the file watch, for any number of        *)
(* streams, any capacity and any number of events: no event is skipped,    *)
(* timestamps are out of order only between publishers that overlap, each  *)
(* event is delivered or dropped once, and StopFileWatch leaves nothing    *)
(* behind.                                                                 *)
(***************************************************************************)
EXTENDS FileWatch, TLAPS

(* Nothing is queued or subscribed at a later time than the clock shows,   *)
(* and a thread that publishes nothing has collected nobody.               *)
Stamped ==
  /\ \A p \in Publishers : event[p] <= clock /\ (event[p] = 0 => pending[p] = NotCollected)
  /\ \A s \in Streams : since[s] <= clock /\ \A i \in 1..Len(log[s]) : log[s][i] <= clock

(* An event in flight overlaps every event stamped after it.               *)
InFlightSeen ==
  \A p \in Publishers : event[p] # 0 =>
    \A e \in (event[p] + 1)..clock : event[p] \in overlap[e]

(* The subscriber of a handler at work is registered and open.             *)
Registered ==
  \A s \in Streams : (closed[s] => pc[s] = "done") /\ (Held(s) => s \in registered)

InLog(e, s) == \E i \in 1..Len(log[s]) : log[s][i] = e

(* A publisher that has collected still has to deliver to every stream     *)
(* older than its event, or has done so.                                   *)
Awaiting ==
  \A p \in Publishers, s \in Streams :
    event[p] > since[s] /\ pending[p] # NotCollected /\ Held(s)
      => s \in pending[p] \/ InLog(event[p], s)

(* The inductive invariant of the bus.                                     *)
BusInv ==
  /\ EventTypeOK
  /\ Stamped /\ InFlightSeen /\ Registered /\ Awaiting
  /\ RealTimeOrder /\ NoneSkipped

-----------------------------------------------------------------------------
(* A vector of subscribers is told from one that is not built yet.         *)
LEMMA Told == NotCollected # {} /\ \A live \in SUBSET Streams : live # NotCollected
  BY StreamsAssumption DEF NotCollected

(* Initially nothing has happened.                                         *)
LEMMA BusInit == EventInit => BusInv
<1> SUFFICES ASSUME EventInit PROVE BusInv
  OBVIOUS
<1> USE MaxEventsAssumption, QueueCapacityAssumption DEF EventInit
<1>1. /\ queue \in [Streams -> Seq(Events)] /\ log \in [Streams -> Seq(Events)]
      /\ written \in [Streams -> Seq(Events)] /\ \A s \in Streams : Len(queue[s]) <= QueueCapacity
  BY DEF Events
<1>2. /\ pending \in [Publishers -> (SUBSET Streams) \cup {NotCollected}]
      /\ event \in [Publishers -> 0..MaxEvents] /\ overlap \in [Events -> SUBSET Events]
      /\ lost \in [Streams -> SUBSET Events]
  OBVIOUS
<1>3. EventTypeOK
  BY <1>1, <1>2 DEF EventTypeOK
<1>4. Stamped /\ InFlightSeen /\ Registered /\ Awaiting
  BY DEF Stamped, InFlightSeen, Registered, Awaiting, Held
<1>5. RealTimeOrder /\ NoneSkipped
  BY DEF RealTimeOrder, NoneSkipped, Held
<1> QED BY <1>3, <1>4, <1>5 DEF BusInv

(* A step that leaves the bus alone.                                       *)
LEMMA BusUnchanged == BusInv /\ UNCHANGED eventVars => BusInv'
<1> SUFFICES ASSUME BusInv, UNCHANGED eventVars PROVE BusInv'
  OBVIOUS
<1> USE DEF BusInv, eventVars, pubVars, busVars
<1>1. EventTypeOK'
  BY DEF EventTypeOK
<1>2. Stamped' /\ InFlightSeen' /\ Registered' /\ Awaiting'
  BY DEF Stamped, InFlightSeen, Registered, Awaiting, Held, InLog
<1>3. RealTimeOrder' /\ NoneSkipped'
  BY DEF RealTimeOrder, NoneSkipped, Held, Busy
<1> QED BY <1>1, <1>2, <1>3

(* A new event is the latest, and overlaps all that are in flight.         *)
LEMMA PublishNowKeeps ==
  ASSUME BusInv, NEW p \in Publishers, PublishNow(p)
  PROVE  BusInv'
<1> USE MaxEventsAssumption, QueueCapacityAssumption DEF BusInv, PublishNow, busVars
<1>1. EventTypeOK'
  <2>1. Busy \in SUBSET Events
    BY DEF EventTypeOK, Events, Busy
  <2>2. clock' \in 0..MaxEvents /\ clock' \in Events
    BY DEF EventTypeOK, Events
  <2>3. event' \in [Publishers -> 0..MaxEvents] /\ overlap' \in [Events -> SUBSET Events]
    BY <2>1, <2>2 DEF EventTypeOK
  <2> QED BY <2>2, <2>3 DEF EventTypeOK
<1>2. Stamped'
  BY DEF EventTypeOK, Events, Stamped
<1>3. InFlightSeen'
  <2> SUFFICES ASSUME NEW q \in Publishers, event'[q] # 0, NEW e \in (event'[q] + 1)..clock'
               PROVE  event'[q] \in overlap'[e]
    BY DEF InFlightSeen
  <2>1. q # p /\ event'[q] = event[q]
    BY DEF EventTypeOK, Events
  <2>2. CASE e = clock'
    BY <2>1, <2>2 DEF EventTypeOK, Events, Busy
  <2>3. CASE e # clock'
    BY <2>1, <2>3 DEF EventTypeOK, Events, InFlightSeen
  <2> QED BY <2>2, <2>3
<1>4. Registered'
  BY DEF Registered, Held
<1>5. Awaiting'
  BY DEF EventTypeOK, Stamped, Awaiting, InLog, Held
<1>6. RealTimeOrder'
  <2>1. \A s \in Streams : \A i \in 1..Len(log[s]) :
          log[s][i] \in Events /\ overlap'[log[s][i]] = overlap[log[s][i]]
    BY DEF EventTypeOK, Events, Stamped
  <2> QED BY <2>1 DEF RealTimeOrder
<1>7. NoneSkipped'
  <2> SUFFICES ASSUME NEW s \in Streams, Held(s), ~closed[s], NEW e \in (since[s] + 1)..clock'
               PROVE  e \in Busy' \/ \E i \in 1..Len(log[s]) : log[s][i] = e
    BY DEF NoneSkipped, Held
  <2>1. CASE e = clock'
    BY <2>1 DEF EventTypeOK, Busy
  <2>2. CASE e # clock'
    <3>1. e \in (since[s] + 1)..clock
      BY <2>2 DEF EventTypeOK
    <3>2. e \in Busy => e \in Busy'
      BY DEF EventTypeOK, Busy
    <3> QED BY <3>1, <3>2 DEF NoneSkipped
  <2> QED BY <2>1, <2>2
<1> QED BY <1>1, <1>2, <1>3, <1>4, <1>5, <1>6, <1>7

(* A handler at work is registered, so Collect finds it.                   *)
LEMMA CollectKeeps ==
  ASSUME BusInv, NEW p \in Publishers, Collect(p)
  PROVE  BusInv'
<1> USE DEF BusInv, Collect
<1>1. EventTypeOK' /\ Stamped'
  BY DEF EventTypeOK, Events, Stamped
<1>2. InFlightSeen' /\ Registered' /\ RealTimeOrder' /\ NoneSkipped'
  BY DEF InFlightSeen, Registered, RealTimeOrder, NoneSkipped, Held, Busy
<1>3. Awaiting'
  BY DEF EventTypeOK, Registered, Awaiting, InLog, Held
<1> QED BY <1>1, <1>2, <1>3

(* An event that is delivered behind a later one overlaps it.              *)
LEMMA DeliverKeeps ==
  ASSUME BusInv, NEW p \in Publishers, NEW s \in Streams, Deliver(p, s)
  PROVE  BusInv'
<1> USE QueueCapacityAssumption DEF BusInv, Deliver
<1>1. CASE closed[s]
  <2>1. EventTypeOK' /\ Stamped' /\ InFlightSeen' /\ Registered'
    BY <1>1 DEF EventTypeOK, Events, Stamped, InFlightSeen, Registered, Held
  <2>2. RealTimeOrder' /\ NoneSkipped'
    BY <1>1 DEF RealTimeOrder, NoneSkipped, Held, Busy
  <2>3. Awaiting'
    BY <1>1 DEF EventTypeOK, Registered, Awaiting, InLog, Held
  <2> QED BY <2>1, <2>2, <2>3
<1>2. CASE ~closed[s]
  <2> DEFINE e == event[p]
  <2>1. e \in Events /\ e <= clock /\ log[s] \in Seq(Events) /\ queue[s] \in Seq(Events)
    BY DEF EventTypeOK, Events, Stamped
  <2>2. /\ log' = [log EXCEPT ![s] = Append(log[s], e)]
        /\ log'[s] \in Seq(Events)
        /\ Len(log'[s]) = Len(log[s]) + 1
        /\ log'[s][Len(log[s]) + 1] = e
        /\ \A i \in 1..Len(log[s]) : log'[s][i] = log[s][i]
        /\ \A r \in Streams : r # s => log'[r] = log[r]
    <3>1. log' = [log EXCEPT ![s] = Append(log[s], e)] /\ log \in [Streams -> Seq(Events)]
      BY <1>2 DEF EventTypeOK
    <3>2. log'[s] = Append(log[s], e) /\ \A r \in Streams : r # s => log'[r] = log[r]
      BY <3>1
    <3> HIDE DEF e
    <3> QED BY <2>1, <3>1, <3>2
  <2>3. Enqueue(queue[s], e) \in Seq(Events) /\ Len(Enqueue(queue[s], e)) <= QueueCapacity
    BY <2>1 DEF EventTypeOK, Enqueue
  <2>4. queue[s] # << >> => Head(queue[s]) \in Events
    BY <2>1
  <2>5. EventTypeOK'
    <3>1. queue' \in [Streams -> Seq(Events)] /\ \A r \in Streams : Len(queue'[r]) <= QueueCapacity
      <4>1. queue' = [queue EXCEPT ![s] = Enqueue(queue[s], e)] /\ queue \in [Streams -> Seq(Events)]
        BY <1>2 DEF EventTypeOK
      <4> HIDE DEF e
      <4> QED BY <4>1, <2>3 DEF EventTypeOK
    <3>2. log' \in [Streams -> Seq(Events)]
      BY <2>2 DEF EventTypeOK
    <3>3. lost' \in [Streams -> SUBSET Events]
      <4>1. Len(queue[s]) >= QueueCapacity => Head(queue[s]) \in Events
        BY <2>1, <2>4
      <4>2. lost \in [Streams -> SUBSET Events]
        BY DEF EventTypeOK
      <4>3. lost' = [lost EXCEPT ![s] = IF Len(queue[s]) >= QueueCapacity
                                          THEN lost[s] \cup {Head(queue[s])} ELSE lost[s]]
        BY <1>2
      <4> QED BY <4>1, <4>2, <4>3
    <3>4. pending' \in [Publishers -> (SUBSET Streams) \cup {NotCollected}]
      BY DEF EventTypeOK
    <3> QED BY <3>1, <3>2, <3>3, <3>4 DEF EventTypeOK, Events
  <2>6. Stamped'
    BY <2>1, <2>2 DEF EventTypeOK, Stamped
  <2>7. InFlightSeen' /\ Registered'
    BY DEF InFlightSeen, Registered, Held
  <2>8. \A x \in Events, r \in Streams : InLog(x, r) => InLog(x, r)'
    BY <2>1, <2>2 DEF InLog
  <2>9. InLog(e, s)'
    BY <2>1, <2>2 DEF InLog
  <2>10. Awaiting'
    <3> SUFFICES ASSUME NEW q \in Publishers, NEW r \in Streams,
                        event[q] > since[r], pending'[q] # NotCollected, Held(r)
                 PROVE  r \in pending'[q] \/ InLog(event[q], r)'
      BY DEF Awaiting, Held, InLog
    <3>1. event[q] \in Events
      BY DEF EventTypeOK, Events
    <3>2. pending[q] # NotCollected
      BY DEF EventTypeOK
    <3>3. r \in pending[q] \/ InLog(event[q], r)
      BY <3>2 DEF Awaiting
    <3>4. CASE q = p /\ r = s
      BY <3>4, <2>9
    <3>5. CASE ~(q = p /\ r = s)
      BY <3>1, <3>3, <3>5, <2>8 DEF EventTypeOK
    <3> QED BY <3>4, <3>5
  <2>11. RealTimeOrder'
    <3> SUFFICES ASSUME NEW r \in Streams, NEW i \in 1..Len(log'[r]), NEW j \in 1..Len(log'[r]),
                        i < j, log'[r][j] < log'[r][i]
                 PROVE  log'[r][j] \in overlap[log'[r][i]]
      BY DEF RealTimeOrder
    <3>1. CASE r # s \/ j <= Len(log[s])
      BY <3>1, <2>1, <2>2 DEF EventTypeOK, RealTimeOrder
    <3>2. CASE r = s /\ j = Len(log[s]) + 1
      <4>1. log'[s][j] = e /\ i \in 1..Len(log[s]) /\ log'[s][i] = log[s][i]
        BY <3>2, <2>1, <2>2
      <4>2. log[s][i] \in Events /\ log[s][i] <= clock
        BY <4>1, <2>1 DEF Stamped
      <4>3. log[s][i] \in (e + 1)..clock
        BY <3>2, <4>1, <4>2, <2>1 DEF EventTypeOK, Events
      <4> QED BY <3>2, <4>1, <4>3 DEF InFlightSeen
    <3> QED BY <3>1, <3>2, <2>1, <2>2
  <2>12. NoneSkipped'
    <3> SUFFICES ASSUME NEW r \in Streams, Held(r), ~closed[r], NEW x \in (since[r] + 1)..clock,
                        x \notin Busy
                 PROVE  InLog(x, r)'
      BY DEF NoneSkipped, Held, Busy, InLog
    <3>1. x \in Events
      BY MaxEventsAssumption DEF EventTypeOK, Events
    <3>2. InLog(x, r)
      BY DEF NoneSkipped, InLog
    <3> QED BY <3>1, <3>2, <2>8
  <2> QED BY <2>5, <2>6, <2>7, <2>10, <2>11, <2>12
<1> QED BY <1>1, <1>2

(* A Publish that returns has delivered to every older stream.             *)
LEMMA PublishReturnsKeeps ==
  ASSUME BusInv, NEW p \in Publishers, PublishReturns(p)
  PROVE  BusInv'
<1> USE MaxEventsAssumption DEF BusInv, PublishReturns, busVars
<1>1. EventTypeOK' /\ Stamped'
  <2>1. /\ event' \in [Publishers -> 0..MaxEvents]
        /\ pending' \in [Publishers -> (SUBSET Streams) \cup {NotCollected}]
    BY DEF EventTypeOK
  <2>2. EventTypeOK'
    BY <2>1 DEF EventTypeOK
  <2>3. Stamped'
    BY DEF EventTypeOK, Stamped
  <2> QED BY <2>2, <2>3
<1>2. InFlightSeen' /\ Registered' /\ RealTimeOrder'
  BY DEF EventTypeOK, InFlightSeen, Registered, RealTimeOrder, Held
<1>3. Awaiting'
  BY DEF EventTypeOK, Awaiting, InLog, Held
<1>4. NoneSkipped'
  <2> SUFFICES ASSUME NEW s \in Streams, Held(s), ~closed[s], NEW e \in (since[s] + 1)..clock,
                      e \notin Busy'
               PROVE  InLog(e, s)
    BY DEF NoneSkipped, Held, InLog
  <2>1. CASE e = event[p]
    <3>1. event[p] > since[s] /\ pending[p] # NotCollected
      BY <2>1, Told DEF EventTypeOK
    <3> QED BY <3>1, <2>1 DEF Awaiting
  <2>2. CASE e # event[p]
    <3>1. e \notin Busy
      BY <2>2 DEF EventTypeOK, Busy
    <3> QED BY <3>1 DEF NoneSkipped, InLog
  <2> QED BY <2>1, <2>2
<1> QED BY <1>1, <1>2, <1>3, <1>4

(* A new stream is owed only what is stamped from now on.                  *)
LEMMA SubscribeKeeps ==
  ASSUME BusInv, NEW s \in Streams, Subscribe(s)
  PROVE  BusInv'
<1> USE MaxEventsAssumption DEF BusInv, Subscribe, pubVars
<1>1. EventTypeOK' /\ Stamped'
  BY DEF EventTypeOK, Events, Stamped
<1>2. InFlightSeen' /\ RealTimeOrder'
  BY DEF InFlightSeen, RealTimeOrder
<1>3. Registered'
  BY DEF EventTypeOK, Registered, Held
<1>4. Awaiting'
  BY DEF EventTypeOK, Stamped, Awaiting, InLog, Held
<1>5. NoneSkipped'
  BY DEF EventTypeOK, NoneSkipped, Held, Busy
<1> QED BY <1>1, <1>2, <1>3, <1>4, <1>5

(* A handler and its client change nothing of what the publishers see but  *)
(* that a stream is closed for good.                                       *)
LEMMA HandlerKeeps ==
  ASSUME BusInv, NEW s \in Streams, Handler(s) \/ ClientCancels(s)
  PROVE  BusInv'
<1> USE DEF BusInv
<1>1. /\ UNCHANGED <<clock, event, pending, overlap, registered, since, log>>
      /\ \A r \in Streams : Held(r)' => Held(r)
      /\ \A r \in Streams : closed'[r] /\ ~closed[r] => pc'[r] = "done"
      /\ \A r \in Streams : pc[r] = "done" => pc'[r] = "done"
      /\ \A r \in Streams : closed[r] => closed'[r]
  BY DEF Handler, ClientCancels, CheckCancelled, Pop, Write, Close, Held, EventTypeOK, pubVars,
         busVars
<1>2. EventTypeOK'
  <2>1. CASE CheckCancelled(s)
    BY <2>1 DEF CheckCancelled, EventTypeOK, Events, pubVars, busVars
  <2>2. CASE Pop(s)
    <3>1. CASE queue[s] = << >>
      BY <3>1, <2>2 DEF Pop, EventTypeOK, Events, pubVars
    <3>2. CASE queue[s] # << >>
      <4>1. queue[s] \in Seq(Events) /\ Head(queue[s]) \in Events /\ Tail(queue[s]) \in Seq(Events)
              /\ Len(Tail(queue[s])) <= QueueCapacity
        BY <3>2, QueueCapacityAssumption DEF EventTypeOK
      <4>2. /\ hand' = [hand EXCEPT ![s] = Head(queue[s])]
            /\ queue' = [queue EXCEPT ![s] = Tail(queue[s])]
            /\ pc' = [pc EXCEPT ![s] = "write"]
            /\ UNCHANGED <<clock, event, pending, overlap, registered, closed, since, log, lost,
                           cancelled, written>>
        BY <2>2, <3>2 DEF Pop, pubVars
      <4>3. queue' \in [Streams -> Seq(Events)] /\ \A r \in Streams : Len(queue'[r]) <= QueueCapacity
        BY <4>1, <4>2 DEF EventTypeOK
      <4>4. hand' \in [Streams -> 0..MaxEvents] /\ \A r \in Streams : pc'[r] = "write" => hand'[r] # 0
        BY <4>1, <4>2 DEF EventTypeOK, Events
      <4> QED BY <4>2, <4>3, <4>4 DEF EventTypeOK, Events
    <3> QED BY <3>1, <3>2
  <2>3. CASE Write(s)
    <3>1. hand[s] \in Events /\ written[s] \in Seq(Events)
      BY <2>3 DEF Write, EventTypeOK, Events
    <3>2. Append(written[s], hand[s]) \in Seq(Events)
      BY <3>1
    <3>3. written' \in [Streams -> Seq(Events)]
      <4>1. written \in [Streams -> Seq(Events)]
        BY DEF EventTypeOK
      <4>2. written' = written \/ written' = [written EXCEPT ![s] = Append(written[s], hand[s])]
        BY <2>3 DEF Write
      <4> QED BY <4>1, <4>2, <3>2
    <3>4. hand' \in [Streams -> 0..MaxEvents]
      BY <2>3, MaxEventsAssumption DEF Write, EventTypeOK
    <3> QED BY <3>3, <3>4, <2>3 DEF Write, EventTypeOK, Events, pubVars, busVars
  <2>4. CASE Close(s)
    BY <2>4 DEF Close, EventTypeOK, Events, pubVars
  <2>5. CASE ClientCancels(s)
    BY <2>5 DEF ClientCancels, EventTypeOK, Events, pubVars, busVars
  <2> QED BY <2>1, <2>2, <2>3, <2>4, <2>5 DEF Handler
<1>3. Stamped' /\ InFlightSeen' /\ RealTimeOrder'
  BY <1>1 DEF Stamped, InFlightSeen, RealTimeOrder
<1>4. Registered' /\ Awaiting' /\ NoneSkipped'
  BY <1>1 DEF Registered, Awaiting, InLog, NoneSkipped, Busy
<1> QED BY <1>2, <1>3, <1>4

(* The steps of Publish together.                                          *)
LEMMA PublishKeeps ==
  ASSUME BusInv, NEW p \in Publishers, Publish(p)
  PROVE  BusInv'
  BY CollectKeeps, DeliverKeeps, PublishReturnsKeeps DEF Publish

(* The steps of a stream together.                                         *)
LEMMA StreamKeeps ==
  ASSUME BusInv, NEW s \in Streams, StreamStep(s)
  PROVE  BusInv'
  BY SubscribeKeeps, HandlerKeeps DEF StreamStep

-----------------------------------------------------------------------------
(* The watch thread publishes exactly while it is in PublishNow; before    *)
(* StartFileWatch and after StopFileWatch nothing is open or pending; once *)
(* StopFileWatch is at work watching_ is false; and a thread that has seen *)
(* it false leaves the rest to StopFileWatch.                              *)
WatchInv ==
  /\ event["watch"] # 0 <=> watch = "publishing"
  /\ stopper = "idle" => watch = "none" /\ ~watching
  /\ stopper = "started" => (watching <=> watch # "none")
  /\ stopper \in {"cancel", "join", "stopped"} => ~watching
  /\ watch = "none" => ~dir /\ ~hEvent /\ io # "pending"
  /\ stopper = "stopped" => watch \in {"none", "exited"} /\ ~dir /\ ~hEvent /\ io # "pending"
  /\ watch = "exited" /\ io = "pending" => stopper \in {"cancel", "join"}

Inv == TypeOK /\ BusInv /\ WatchInv

(* What the two properties of the bus and StopIsFinal need.                *)
LEMMA InvImplies == Inv => NoneSkipped /\ RealTimeOrder /\ StopIsFinal
  BY PublishersAssumption DEF Inv, BusInv, WatchInv, StopIsFinal, TypeOK, EventTypeOK

(* The initial state satisfies it.                                         *)
LEMMA InvInit == Init => Inv
<1> SUFFICES ASSUME Init PROVE Inv
  OBVIOUS
<1>1. BusInv
  BY BusInit DEF Init
<1>2. TypeOK
  <2>1. /\ watching \in BOOLEAN /\ dir \in BOOLEAN /\ hEvent \in BOOLEAN
        /\ unannounced \in BOOLEAN /\ missed \in BOOLEAN
    BY Zenon DEF Init
  <2>2. changes \in 0..MaxChanges /\ switches \in 0..MaxSwitches
    BY BoundsAssumption DEF Init
  <2>3. EventTypeOK
    BY <1>1 DEF BusInv
  <2> QED BY <2>1, <2>2, <2>3 DEF Init, TypeOK
<1>3. WatchInv
  BY PublishersAssumption DEF Init, EventInit, WatchInv
<1> QED BY <1>1, <1>2, <1>3 DEF Inv

(* A step of others leaves the state of the watch well typed.              *)
LEMMA WatchTypeUnchanged ==
  ASSUME TypeOK, EventTypeOK', switches' \in 0..MaxSwitches,
         UNCHANGED <<watching, dir, hEvent, watch, stopper, io, kernel, changes, unannounced,
                     missed>>
  PROVE  TypeOK'
<1>1. /\ watching' \in BOOLEAN /\ dir' \in BOOLEAN /\ hEvent' \in BOOLEAN
      /\ unannounced' \in BOOLEAN /\ missed' \in BOOLEAN
  BY DEF TypeOK
<1>2. /\ watch' \in {"none", "first arm", "test", "wait", "woken", "publish",
                    "publishing", "arm", "exited"}
      /\ stopper' \in {"idle", "started", "cancel", "join", "stopped"}
      /\ io' \in {"none", "pending", "changes", "overflow", "aborted"}
      /\ kernel' \in {"off", "empty", "changes", "overflow"}
  BY DEF TypeOK
<1>3. changes' \in 0..MaxChanges
  BY DEF TypeOK
<1> QED BY <1>1, <1>2, <1>3 DEF TypeOK

(* Only WatchLoop publishes for the watch thread.                          *)
LEMMA OthersPublish ==
  ASSUME Inv, PublishNow("switch") \/ Publish("switch") \/ \E s \in Streams : StreamStep(s)
  PROVE  event'["watch"] = event["watch"]
  BY PublishersAssumption
  DEF Inv, TypeOK, EventTypeOK, PublishNow, Publish, Collect, Deliver, PublishReturns, StreamStep,
      Subscribe, Handler, CheckCancelled, Pop, Write, Close, ClientCancels, pubVars

(* Every step keeps the invariant.                                         *)
LEMMA InvNext == Inv /\ [Next]_vars => Inv'
<1> SUFFICES ASSUME Inv, [Next]_vars PROVE Inv'
  OBVIOUS
<1> USE PublishersAssumption, BoundsAssumption DEF Inv
<1>1. ASSUME UNCHANGED eventVars, TypeOK', WatchInv' PROVE Inv'
  BY <1>1, BusUnchanged
<1>2. CASE StartFileWatch
  <2>1. UNCHANGED eventVars
    BY <1>2 DEF StartFileWatch
  <2>2. EventTypeOK'
    BY <2>1, BusUnchanged DEF BusInv
  <2>3. TypeOK'
    BY <1>2, <2>2 DEF StartFileWatch, TypeOK
  <2>4. WatchInv'
    <3>1. event' = event /\ io' = io /\ stopper' = "started" /\ io # "pending" /\ ~watching
            /\ watch = "none" /\ ~dir /\ ~hEvent
      BY <1>2 DEF StartFileWatch, WatchInv, eventVars, pubVars
    <3>2. CASE watching' = TRUE /\ dir' = TRUE /\ watch' = "first arm"
      BY <3>1, <3>2 DEF WatchInv
    <3>3. CASE UNCHANGED <<watching, dir, hEvent, watch>>
      BY <3>1, <3>3 DEF WatchInv
    <3> QED BY <1>2, <3>2, <3>3 DEF StartFileWatch
  <2> QED BY <1>1, <2>1, <2>3, <2>4
<1>3. CASE StopFileWatch
  <2>1. UNCHANGED eventVars
    BY <1>3 DEF StopFileWatch
  <2>2. EventTypeOK'
    BY <2>1, BusUnchanged DEF BusInv
  <2>3. TypeOK'
    <3>1. stopper' \in {"cancel", "stopped"} /\ watching' = FALSE
      BY <1>3 DEF StopFileWatch
    <3>2. UNCHANGED <<dir, hEvent, watch, io, kernel, changes, switches, unannounced, missed>>
      BY <1>3 DEF StopFileWatch
    <3>3. /\ watching' \in BOOLEAN /\ dir' \in BOOLEAN /\ hEvent' \in BOOLEAN
          /\ unannounced' \in BOOLEAN /\ missed' \in BOOLEAN
      BY <3>1, <3>2, Zenon DEF TypeOK
    <3>4. /\ watch' \in {"none", "first arm", "test", "wait", "woken", "publish",
                         "publishing", "arm", "exited"}
          /\ io' \in {"none", "pending", "changes", "overflow", "aborted"}
          /\ kernel' \in {"off", "empty", "changes", "overflow"}
          /\ changes' \in 0..MaxChanges /\ switches' \in 0..MaxSwitches
      BY <3>2 DEF TypeOK
    <3> QED BY <2>2, <3>1, <3>3, <3>4 DEF TypeOK
  <2>4. WatchInv'
    BY <1>3 DEF StopFileWatch, TypeOK, WatchInv, eventVars, pubVars
  <2> QED BY <1>1, <2>1, <2>3, <2>4
<1>4. CASE Stopping
  <2>1. UNCHANGED eventVars
    BY <1>4 DEF Stopping, CancelIo, CloseHandles
  <2>2. EventTypeOK'
    BY <2>1, BusUnchanged DEF BusInv
  <2>3. TypeOK'
    BY <1>4, <2>2 DEF Stopping, CancelIo, CloseHandles, TypeOK
  <2>4. WatchInv'
    <3>1. CASE CancelIo
      <4>1. /\ io' \in {io, "aborted"} /\ stopper' = "join"
            /\ UNCHANGED <<event, watching, dir, hEvent, watch>>
        BY <3>1 DEF CancelIo, eventVars, pubVars
      <4>2. ~watching
        BY <3>1 DEF CancelIo, WatchInv
      <4> QED BY <4>1, <4>2 DEF WatchInv
    <3>2. CASE CloseHandles
      <4>1. io' # "pending" /\ stopper' = "stopped" /\ ~dir' /\ ~hEvent' /\ watch = "exited"
              /\ UNCHANGED <<event, watching, watch>>
        BY <3>2 DEF CloseHandles, eventVars, pubVars
      <4>2. ~watching
        BY <3>2 DEF CloseHandles, WatchInv
      <4> QED BY <4>1, <4>2 DEF WatchInv
    <3> QED BY <1>4, <3>1, <3>2 DEF Stopping
  <2> QED BY <1>1, <2>1, <2>3, <2>4
<1>5. CASE Arm \/ TestWatching \/ Wait \/ AfterWait
  <2>1. UNCHANGED eventVars
    BY <1>5 DEF Arm, TestWatching, Wait, AfterWait
  <2>2. EventTypeOK'
    BY <2>1, BusUnchanged DEF BusInv
  <2>3. TypeOK'
    <3>1. UNCHANGED <<watching, dir, hEvent, stopper, changes, switches, unannounced, missed>>
      BY <1>5 DEF Arm, TestWatching, Wait, AfterWait
    <3>2. /\ watch' \in {"test", "wait", "woken", "publish", "arm", "exited"}
          /\ io' \in {"none", "pending", "changes", "overflow", "aborted"}
          /\ kernel' \in {"off", "empty", "changes", "overflow"}
      BY <1>5 DEF Arm, TestWatching, Wait, AfterWait, TypeOK
    <3> QED BY <2>2, <3>1, <3>2 DEF TypeOK
  <2>4. WatchInv'
    <3>1. CASE Arm
      BY <3>1 DEF Arm, TypeOK, WatchInv, eventVars, pubVars
    <3>2. CASE TestWatching
      BY <3>2 DEF TestWatching, TypeOK, WatchInv, eventVars, pubVars
    <3>3. CASE Wait
      BY <3>3 DEF Wait, Signaled, TypeOK, WatchInv, eventVars, pubVars
    <3>4. CASE AfterWait
      <4>1. watch' \in {"exited", "publish", "arm"} /\ (watch' = "exited" => ~watching)
        BY <3>4 DEF AfterWait
      <4> QED BY <3>4, <4>1 DEF AfterWait, TypeOK, WatchInv, eventVars, pubVars
    <3> QED BY <1>5, <3>1, <3>2, <3>3, <3>4
  <2> QED BY <1>1, <2>1, <2>3, <2>4
<1>6. CASE Announce
  <2>1. BusInv'
    BY <1>6, PublishNowKeeps DEF Announce
  <2>2. event'["watch"] # 0
    BY <1>6 DEF Announce, PublishNow, TypeOK, EventTypeOK
  <2> QED BY <1>6, <2>1, <2>2 DEF Announce, BusInv, TypeOK, WatchInv
<1>7. CASE WatchPublishes
  <2>1. BusInv'
    BY <1>7, PublishKeeps DEF WatchPublishes
  <2>2. event["watch"] # 0
    BY <1>7 DEF WatchPublishes, Publish, Collect, Deliver, PublishReturns
  <2> QED BY <1>7, <2>1, <2>2 DEF WatchPublishes, BusInv, TypeOK, WatchInv
<1>8. CASE DirectoryChanges
  <2>1. UNCHANGED eventVars
    BY <1>8 DEF DirectoryChanges
  <2>2. EventTypeOK'
    BY <2>1, BusUnchanged DEF BusInv
  <2>3. TypeOK'
    <3>1. changes' \in 0..MaxChanges
      <4>1. changes \in 0..MaxChanges
        BY DEF TypeOK
      <4>2. changes < MaxChanges /\ changes' = changes + 1
        BY <1>8 DEF DirectoryChanges
      <4> QED BY <4>1, <4>2
    <3>2. unannounced' \in BOOLEAN /\ missed' \in BOOLEAN
      BY <1>8, Zenon DEF DirectoryChanges, TypeOK
    <3>3. io' \in {"none", "pending", "changes", "overflow", "aborted"}
            /\ kernel' \in {"off", "empty", "changes", "overflow"}
      BY <1>8 DEF DirectoryChanges, TypeOK
    <3> QED BY <1>8, <2>2, <3>1, <3>2, <3>3 DEF DirectoryChanges, TypeOK
  <2>4. WatchInv'
    BY <1>8 DEF DirectoryChanges, TypeOK, WatchInv, eventVars, pubVars
  <2> QED BY <1>1, <2>1, <2>3, <2>4
<1>9. CASE SwitchPublishes
  <2>1. BusInv'
    BY <1>9, PublishNowKeeps, PublishKeeps DEF SwitchPublishes
  <2>2. event'["watch"] = event["watch"]
    BY <1>9, OthersPublish DEF SwitchPublishes
  <2>3. TypeOK'
    <3>1. switches' \in 0..MaxSwitches
      <4>1. switches \in 0..MaxSwitches
        BY DEF TypeOK
      <4>2. (switches < MaxSwitches /\ switches' = switches + 1) \/ switches' = switches
        BY <1>9 DEF SwitchPublishes
      <4> QED BY <4>1, <4>2
    <3>2. UNCHANGED <<watching, dir, hEvent, watch, stopper, io, kernel, changes, unannounced,
                     missed>>
      BY <1>9 DEF SwitchPublishes
    <3>3. EventTypeOK'
      BY <2>1 DEF BusInv
    <3> QED BY <3>1, <3>2, <3>3, WatchTypeUnchanged
  <2>4. WatchInv'
    BY <1>9, <2>2 DEF SwitchPublishes, WatchInv
  <2> QED BY <2>1, <2>3, <2>4
<1>10. CASE \E s \in Streams : StreamStep(s) /\ UNCHANGED watchVars
  <2>1. BusInv'
    BY <1>10, StreamKeeps
  <2>2. event'["watch"] = event["watch"]
    BY <1>10, OthersPublish
  <2>3. TypeOK'
    BY <1>10, <2>1 DEF watchVars, BusInv, TypeOK
  <2>4. WatchInv'
    BY <1>10, <2>2 DEF watchVars, WatchInv
  <2> QED BY <2>1, <2>3, <2>4
<1>11. CASE UNCHANGED vars
  <2>1. UNCHANGED eventVars /\ UNCHANGED watchVars
    BY <1>11 DEF vars
  <2>2. BusInv'
    BY <2>1, BusUnchanged
  <2>3. TypeOK'
    <3>1. EventTypeOK'
      BY <2>2 DEF BusInv
    <3>2. switches' \in 0..MaxSwitches
      BY <2>1 DEF watchVars, TypeOK
    <3> QED BY <2>1, <3>1, <3>2, WatchTypeUnchanged DEF watchVars
  <2>4. WatchInv'
    BY <2>1 DEF watchVars, eventVars, pubVars, WatchInv
  <2> QED BY <2>2, <2>3, <2>4
<1> QED BY <1>2, <1>3, <1>4, <1>5, <1>6, <1>7, <1>8, <1>9, <1>10, <1>11 DEF Next, WatchLoop

(* So it always holds.                                                     *)
LEMMA InvAlways == Spec => []Inv
  BY InvInit, InvNext, PTL DEF Spec

(* For any streams and capacities, and while the watch and SwitchTo        *)
(* publish at the same time, every event stamped after a stream subscribed *)
(* has reached its queue when Publish returns.                             *)
THEOREM NoEventSkipped == Spec => []NoneSkipped
  BY InvAlways, InvImplies, PTL

(* Under the same conditions events come out against their timestamps only *)
(* when their publishers overlapped.                                       *)
THEOREM OrderIsRealTime == Spec => []RealTimeOrder
  BY InvAlways, InvImplies, PTL

(* StopFileWatch, whenever it comes in and whatever the thread is doing,   *)
(* leaves no thread, handle, pending read or publication behind.           *)
THEOREM StopLeavesNothing == Spec => []StopIsFinal
  BY InvAlways, InvImplies, PTL

-----------------------------------------------------------------------------
(* Once or dropped.  Two threads never publish the same event; what a      *)
(* publisher has still to deliver is not in the queue's log; and a full    *)
(* queue drops only what went into it.                                     *)
Distinct(q) == \A i, j \in 1..Len(q) : i # j => q[i] # q[j]

Undelivered ==
  /\ \A p, q \in Publishers : p # q /\ event[p] # 0 => event[p] # event[q]
  /\ \A p \in Publishers, s \in Streams :
       event[p] # 0 /\ (pending[p] = NotCollected \/ s \in pending[p])
         => event[p] \notin Elements(log[s])

Dropped ==
  \A s \in Streams : pc[s] \notin {"close", "done"} => lost[s] \subseteq Elements(log[s])

OnceInv == Undelivered /\ Dropped /\ OnceOrDropped

(* One more element at the end.                                            *)
LEMMA ElementsAppend ==
  ASSUME NEW S, NEW q \in Seq(S), NEW e \in S
  PROVE  /\ Append(q, e) \in Seq(S) /\ Len(Append(q, e)) = Len(q) + 1
         /\ \A i \in 1..Len(q) : Append(q, e)[i] = q[i]
         /\ Append(q, e)[Len(q) + 1] = e
         /\ Elements(Append(q, e)) = Elements(q) \cup {e}
         /\ Distinct(q) /\ e \notin Elements(q) => Distinct(Append(q, e))
<1>1. /\ Append(q, e) \in Seq(S) /\ Len(Append(q, e)) = Len(q) + 1 /\ Len(q) \in Nat
      /\ \A i \in 1..Len(q) : Append(q, e)[i] = q[i]
      /\ Append(q, e)[Len(q) + 1] = e
  OBVIOUS
<1> DEFINE r == Append(q, e)
<1> HIDE DEF r
<1>2. Elements(r) = Elements(q) \cup {e}
  BY <1>1 DEF Elements, r
<1>3. Distinct(q) /\ e \notin Elements(q) => Distinct(r)
  BY <1>1 DEF Elements, Distinct, r
<1> QED BY <1>1, <1>2, <1>3 DEF r

(* What goes to the end of both.                                           *)
LEMMA RemainsAppend ==
  ASSUME NEW S, NEW out \in Seq(S), NEW all \in Seq(S), NEW e \in S, NEW dropped,
         Remains(out, all, dropped), e \notin dropped
  PROVE  Remains(Append(out, e), Append(all, e), dropped)
<1> DEFINE o == Append(out, e)
           a == Append(all, e)
<1>1. /\ Len(out) \in Nat /\ Len(all) \in Nat
      /\ Len(o) = Len(out) + 1 /\ Len(a) = Len(all) + 1
      /\ \A i \in 1..Len(out) : o[i] = out[i]
      /\ \A i \in 1..Len(all) : a[i] = all[i]
      /\ o[Len(out) + 1] = e /\ a[Len(all) + 1] = e
      /\ Elements(o) = Elements(out) \cup {e} /\ Elements(a) = Elements(all) \cup {e}
  BY ElementsAppend
<1> HIDE DEF o, a
<1>2. Elements(o) = Elements(a) \ dropped
  BY <1>1 DEF Remains
<1>3. ASSUME NEW k \in 1..Len(o), NEW l \in 1..Len(o), k < l
      PROVE  \E i, j \in 1..Len(a) : i < j /\ a[i] = o[k] /\ a[j] = o[l]
  <2>1. CASE l <= Len(out)
    <3>1. k \in 1..Len(out) /\ l \in 1..Len(out)
      BY <1>1, <1>3, <2>1
    <3>2. PICK i, j \in 1..Len(all) : i < j /\ all[i] = out[k] /\ all[j] = out[l]
      BY <1>3, <3>1 DEF Remains
    <3> QED BY <1>1, <3>1, <3>2
  <2>2. CASE l = Len(out) + 1
    <3>1. k \in 1..Len(out)
      BY <1>1, <1>3, <2>2
    <3>2. out[k] \in Elements(all)
      BY <3>1 DEF Remains, Elements
    <3>3. PICK i \in 1..Len(all) : all[i] = out[k]
      BY <3>2 DEF Elements
    <3> QED BY <1>1, <2>2, <3>1, <3>3
  <2> QED BY <1>1, <1>3, <2>1, <2>2
<1> QED BY <1>2, <1>3 DEF Remains, o, a

(* Remains leaves no element out twice.                                    *)
LEMMA RemainsDistinct ==
  ASSUME NEW S, NEW out \in Seq(S), NEW all \in Seq(S), NEW dropped,
         Remains(out, all, dropped), Distinct(all)
  PROVE  Distinct(out)
<1>1. Len(out) \in Nat /\ Len(all) \in Nat
  OBVIOUS
<1>2. ASSUME NEW k \in 1..Len(out), NEW l \in 1..Len(out), k < l PROVE out[k] # out[l]
  <2>1. PICK i, j \in 1..Len(all) : i < j /\ all[i] = out[k] /\ all[j] = out[l]
    BY <1>2 DEF Remains
  <2> QED BY <1>1, <2>1 DEF Distinct
<1>3. ASSUME NEW k \in 1..Len(out), NEW l \in 1..Len(out), k # l PROVE out[k] # out[l]
  <2>1. k < l \/ l < k
    BY <1>1, <1>3
  <2> QED BY <1>2, <2>1
<1> QED BY <1>3 DEF Distinct

(* What is taken out of the middle has been dropped.                       *)
LEMMA RemainsWithout ==
  ASSUME NEW S, NEW out \in Seq(S), NEW all \in Seq(S), NEW dropped,
         Remains(out, all, dropped), Distinct(all),
         NEW d \in 1..Len(out), NEW o \in Seq(S), Len(o) = Len(out) - 1,
         \A k \in 1..Len(o) : o[k] = IF k < d THEN out[k] ELSE out[k + 1]
  PROVE  Remains(o, all, dropped \cup {out[d]})
<1>1. Len(out) \in Nat /\ Len(o) \in Nat /\ Len(all) \in Nat
  OBVIOUS
<1>2. Distinct(out)
  BY RemainsDistinct
<1>3. Elements(o) = Elements(out) \ {out[d]}
  <2>1. ASSUME NEW k \in 1..Len(o) PROVE o[k] \in Elements(out) /\ o[k] # out[d]
    <3>1. PICK m \in 1..Len(out) : m # d /\ o[k] = out[m]
      <4>1. CASE k < d
        <5>1. k \in 1..Len(out) /\ k # d /\ o[k] = out[k]
          BY <1>1, <4>1
        <5> QED BY <5>1
      <4>2. CASE ~(k < d)
        <5>1. k + 1 \in 1..Len(out) /\ k + 1 # d /\ o[k] = out[k + 1]
          BY <1>1, <4>2
        <5> QED BY <5>1
      <4> QED BY <4>1, <4>2
    <3> QED BY <3>1, <1>2 DEF Elements, Distinct
  <2>2. ASSUME NEW k \in 1..Len(out), out[k] # out[d] PROVE out[k] \in Elements(o)
    <3>1. CASE k < d
      <4>1. k \in 1..Len(o) /\ o[k] = out[k]
        BY <1>1, <3>1
      <4> QED BY <4>1 DEF Elements
    <3>2. CASE k > d
      <4>1. k - 1 \in 1..Len(o) /\ o[k - 1] = out[k]
        BY <1>1, <3>2
      <4> QED BY <4>1 DEF Elements
    <3> QED BY <1>1, <2>2, <3>1, <3>2
  <2> QED BY <2>1, <2>2 DEF Elements
<1>4. ASSUME NEW k \in 1..Len(o), NEW l \in 1..Len(o), k < l
      PROVE  \E i, j \in 1..Len(all) : i < j /\ all[i] = o[k] /\ all[j] = o[l]
  <2> DEFINE kk == IF k < d THEN k ELSE k + 1
             ll == IF l < d THEN l ELSE l + 1
  <2>1. kk \in 1..Len(out) /\ ll \in 1..Len(out) /\ kk < ll /\ o[k] = out[kk] /\ o[l] = out[ll]
    BY <1>1, <1>4
  <2> HIDE DEF kk, ll
  <2>2. PICK i, j \in 1..Len(all) : i < j /\ all[i] = out[kk] /\ all[j] = out[ll]
    BY <2>1 DEF Remains
  <2> QED BY <2>1, <2>2
<1>5. Elements(o) = Elements(all) \ (dropped \cup {out[d]})
  BY <1>3 DEF Remains
<1> QED BY <1>4, <1>5 DEF Remains

(* Initially.                                                              *)
LEMMA OnceInit == EventInit => OnceInv
<1> SUFFICES ASSUME EventInit PROVE OnceInv
  OBVIOUS
<1>1. Undelivered /\ Dropped
  BY DEF EventInit, Undelivered, Dropped
<1>2. ASSUME NEW s \in Streams PROVE log[s] = << >> /\ Sent(s) = << >>
  BY DEF EventInit, Sent, InHand
<1>3. Remains(<< >>, << >>, {})
  BY DEF Remains, Elements
<1>4. OnceOrDropped
  BY <1>2, <1>3 DEF OnceOrDropped, EventInit
<1> QED BY <1>1, <1>4 DEF OnceInv

(* A step that changes neither what went into the queues nor what goes out *)
(* of them.                                                                *)
LEMMA SameSent ==
  ASSUME Dropped, OnceOrDropped, UNCHANGED <<log, lost>>,
         \A s \in Streams : pc'[s] \notin {"close", "done"} =>
           pc[s] \notin {"close", "done"} /\ Sent(s)' = Sent(s)
  PROVE  Dropped' /\ OnceOrDropped'
  BY DEF Dropped, OnceOrDropped

(* A new event is in no log.                                               *)
LEMMA PublishNowOnce ==
  ASSUME BusInv, OnceInv, NEW p \in Publishers, PublishNow(p)
  PROVE  OnceInv'
<1> USE DEF OnceInv
<1>1. /\ event[p] = 0 /\ event' = [event EXCEPT ![p] = clock + 1] /\ clock \in Nat
      /\ UNCHANGED <<pending, log, lost, queue, written, pc, hand>>
      /\ event \in [Publishers -> 0..MaxEvents]
  BY DEF PublishNow, BusInv, EventTypeOK, busVars
<1>2. /\ \A q \in Publishers : event[q] <= clock
      /\ \A s \in Streams : clock + 1 \notin Elements(log[s])
  <2>1. ASSUME NEW s \in Streams, NEW i \in 1..Len(log[s]) PROVE log[s][i] # clock + 1
    <3>1. log[s] \in Seq(Events) /\ log[s][i] <= clock
      BY DEF BusInv, Stamped, EventTypeOK
    <3>2. log[s][i] \in Events
      BY <3>1
    <3> QED BY <1>1, <3>1, <3>2 DEF Events
  <2>2. \A q \in Publishers : event[q] <= clock
    BY DEF BusInv, Stamped
  <2> QED BY <2>1, <2>2 DEF Elements
<1>3. Undelivered'
  <2>1. ASSUME NEW q \in Publishers, NEW r \in Publishers, q # r, event'[q] # 0
        PROVE  event'[q] # event'[r]
    BY <1>1, <1>2, <2>1 DEF Undelivered
  <2>2. ASSUME NEW q \in Publishers, NEW s \in Streams, event'[q] # 0,
               pending'[q] = NotCollected \/ s \in pending'[q]
        PROVE  event'[q] \notin Elements(log'[s])
    BY <1>1, <1>2, <2>2 DEF Undelivered
  <2> QED BY <2>1, <2>2 DEF Undelivered
<1>4. \A s \in Streams : Sent(s)' = Sent(s)
  BY <1>1 DEF Sent, InHand
<1> QED BY <1>1, <1>3, <1>4, SameSent

(* A publisher that collects has delivered to nobody yet.                  *)
LEMMA CollectOnce ==
  ASSUME BusInv, OnceInv, NEW p \in Publishers, Collect(p)
  PROVE  OnceInv'
<1> USE DEF OnceInv
<1>1. /\ pending[p] = NotCollected
      /\ pending' = [pending EXCEPT ![p] = registered']
      /\ UNCHANGED <<event, log, lost, queue, written, pc, hand>>
      /\ pending \in [Publishers -> (SUBSET Streams) \cup {NotCollected}]
  BY DEF Collect, BusInv, EventTypeOK
<1>2. Undelivered'
  BY <1>1 DEF Undelivered
<1>3. \A s \in Streams : Sent(s)' = Sent(s)
  BY <1>1 DEF Sent, InHand
<1> QED BY <1>1, <1>2, <1>3, SameSent

(* A Publish that returns has nothing left to deliver.                     *)
LEMMA PublishReturnsOnce ==
  ASSUME BusInv, OnceInv, NEW p \in Publishers, PublishReturns(p)
  PROVE  OnceInv'
<1> USE DEF OnceInv
<1>1. /\ event' = [event EXCEPT ![p] = 0]
      /\ pending' = [pending EXCEPT ![p] = NotCollected]
      /\ UNCHANGED <<log, lost, queue, written, pc, hand>>
      /\ pending \in [Publishers -> (SUBSET Streams) \cup {NotCollected}]
      /\ event \in [Publishers -> 0..MaxEvents]
  BY DEF PublishReturns, BusInv, EventTypeOK, busVars
<1>2. Undelivered'
  BY <1>1 DEF Undelivered
<1>3. \A s \in Streams : Sent(s)' = Sent(s)
  BY <1>1 DEF Sent, InHand
<1> QED BY <1>1, <1>2, <1>3, SameSent

(* A handler takes from the front what the client gets at the end.         *)
LEMMA StreamOnce ==
  ASSUME BusInv, OnceInv, NEW s \in Streams, StreamStep(s)
  PROVE  OnceInv'
<1> USE DEF OnceInv
<1>1. /\ UNCHANGED <<event, pending, log, lost>>
      /\ pc \in [Streams -> {"new", "loop", "pop", "write", "close", "done"}]
      /\ queue[s] \in Seq(Events) /\ written[s] \in Seq(Events)
      /\ queue \in [Streams -> Seq(Events)] /\ written \in [Streams -> Seq(Events)]
      /\ hand \in [Streams -> 0..MaxEvents]
  BY DEF StreamStep, Subscribe, Handler, CheckCancelled, Pop, Write, Close, ClientCancels, BusInv,
         EventTypeOK, pubVars, busVars
<1>2. Undelivered'
  BY <1>1 DEF Undelivered
<1>3. ASSUME UNCHANGED <<queue, written>>, pc[s] # "write", pc'[s] # "write",
             \A r \in Streams : r # s => pc'[r] = pc[r],
             hand' = hand, pc[s] \notin {"close", "done"}
      PROVE  Dropped' /\ OnceOrDropped'
  <2>1. \A r \in Streams : Sent(r)' = Sent(r)
    BY <1>1, <1>3 DEF Sent, InHand
  <2> QED BY <1>1, <1>3, <2>1, SameSent
<1>4. CASE Subscribe(s)
  <2>1. /\ UNCHANGED <<queue, written, hand>> /\ pc[s] = "new" /\ pc'[s] = "loop"
        /\ \A r \in Streams : r # s => pc'[r] = pc[r]
    BY <1>1, <1>4 DEF Subscribe
  <2> QED BY <1>2, <1>3, <2>1
<1>5. CASE CheckCancelled(s)
  <2>1. /\ UNCHANGED <<queue, written, hand>> /\ pc[s] = "loop" /\ pc'[s] \in {"close", "pop"}
        /\ \A r \in Streams : r # s => pc'[r] = pc[r]
    BY <1>1, <1>5 DEF CheckCancelled, busVars
  <2> QED BY <1>2, <1>3, <2>1
<1>6. CASE Pop(s)
  <2>1. CASE queue[s] = << >>
    <3>1. /\ UNCHANGED <<queue, written, hand>> /\ pc[s] = "pop" /\ pc'[s] = "loop"
          /\ \A r \in Streams : r # s => pc'[r] = pc[r]
      BY <1>1, <1>6, <2>1 DEF Pop
    <3> QED BY <1>2, <1>3, <3>1
  <2>2. CASE queue[s] # << >>
    <3>1. /\ pc[s] = "pop" /\ pc' = [pc EXCEPT ![s] = "write"]
          /\ hand' = [hand EXCEPT ![s] = Head(queue[s])]
          /\ queue' = [queue EXCEPT ![s] = Tail(queue[s])] /\ written' = written
      BY <1>6, <2>2 DEF Pop
    <3>2. Sent(s) = written[s] \o << >> \o queue[s]
      BY <3>1 DEF Sent, InHand
    <3>3. Sent(s)' = written[s] \o <<Head(queue[s])>> \o Tail(queue[s])
      BY <1>1, <3>1 DEF Sent, InHand
    <3>4. Sent(s)' = Sent(s)
      BY <1>1, <2>2, <3>2, <3>3
    <3>5. \A r \in Streams : r # s => Sent(r)' = Sent(r) /\ pc'[r] = pc[r]
      BY <1>1, <3>1 DEF Sent, InHand
    <3> QED BY <1>1, <1>2, <3>1, <3>4, <3>5, SameSent
  <2> QED BY <2>1, <2>2, <1>2
<1>7. CASE Write(s)
  <2>1. CASE written' = [written EXCEPT ![s] = Append(written[s], hand[s])] /\ pc' = [pc EXCEPT ![s] = "loop"]
    <3>1. /\ pc[s] = "write" /\ queue' = queue /\ hand' = [hand EXCEPT ![s] = 0]
      BY <1>7 DEF Write, busVars
    <3>2. Sent(s) = written[s] \o <<hand[s]>> \o queue[s]
      BY <3>1 DEF Sent, InHand
    <3>3. Sent(s)' = Append(written[s], hand[s]) \o << >> \o queue[s]
      BY <1>1, <2>1, <3>1 DEF Sent, InHand
    <3>4. Sent(s)' = Sent(s)
      <4>1. hand[s] \in Events
        BY <3>1 DEF BusInv, EventTypeOK, Events
      <4> QED BY <1>1, <4>1, <3>2, <3>3
    <3>5. \A r \in Streams : r # s => Sent(r)' = Sent(r) /\ pc'[r] = pc[r]
      BY <1>1, <2>1, <3>1 DEF Sent, InHand
    <3> QED BY <1>1, <1>2, <3>1, <3>4, <3>5, SameSent
  <2>2. CASE written' = written /\ pc' = [pc EXCEPT ![s] = "close"]
    <3>1. queue' = queue /\ hand' = [hand EXCEPT ![s] = 0]
      BY <1>7 DEF Write, busVars
    <3>2. pc'[s] = "close" /\ \A r \in Streams : r # s => Sent(r)' = Sent(r) /\ pc'[r] = pc[r]
      BY <1>1, <2>2, <3>1 DEF Sent, InHand
    <3> QED BY <1>1, <1>2, <3>2, SameSent
  <2> QED BY <2>1, <2>2, <1>7 DEF Write
<1>8. CASE Close(s)
  <2>1. pc' = [pc EXCEPT ![s] = "done"] /\ UNCHANGED <<queue, hand, written>>
    BY <1>8 DEF Close
  <2>2. pc'[s] = "done" /\ \A r \in Streams : r # s => Sent(r)' = Sent(r) /\ pc'[r] = pc[r]
    BY <1>1, <2>1 DEF Sent, InHand
  <2> QED BY <1>1, <1>2, <2>2, SameSent
<1>9. CASE ClientCancels(s)
  <2>1. UNCHANGED <<queue, written, pc, hand>>
    BY <1>9 DEF ClientCancels, busVars
  <2>2. \A r \in Streams : Sent(r)' = Sent(r)
    BY <2>1 DEF Sent, InHand
  <2> QED BY <1>1, <1>2, <2>1, <2>2, SameSent
<1> QED BY <1>2, <1>4, <1>5, <1>6, <1>7, <1>8, <1>9 DEF StreamStep, Handler

(* An event goes to the end of the queue, whose front a full queue drops.  *)
LEMMA DeliverOnce ==
  ASSUME BusInv, OnceInv, NEW p \in Publishers, NEW s \in Streams, Deliver(p, s)
  PROVE  OnceInv'
<1> USE DEF OnceInv
<1>1. /\ event[p] # 0 /\ s \in pending[p] /\ pending[p] # NotCollected
      /\ pending' = [pending EXCEPT ![p] = pending[p] \ {s}]
      /\ UNCHANGED <<event, pc, hand, written>>
      /\ pending \in [Publishers -> (SUBSET Streams) \cup {NotCollected}]
      /\ event \in [Publishers -> 0..MaxEvents]
      /\ queue \in [Streams -> Seq(Events)] /\ log \in [Streams -> Seq(Events)]
      /\ lost \in [Streams -> SUBSET Events]
      /\ written[s] \in Seq(Events) /\ queue[s] \in Seq(Events) /\ log[s] \in Seq(Events)
  BY DEF Deliver, BusInv, EventTypeOK
<1>2. \A q \in Publishers, r \in Streams :
        pending'[q] = NotCollected \/ r \in pending'[q] =>
          (pending[q] = NotCollected \/ r \in pending[q]) /\ ~(q = p /\ r = s)
  <2>1. pending[p] \ {s} # NotCollected
    BY <1>1, Told
  <2> QED BY <1>1, <2>1
<1>3. CASE closed[s]
  <2>1. UNCHANGED <<queue, log, lost>>
    BY <1>3 DEF Deliver
  <2>2. \A r \in Streams : Sent(r)' = Sent(r)
    BY <1>1, <2>1 DEF Sent, InHand
  <2>3. Undelivered'
    BY <1>1, <1>2, <2>1 DEF Undelivered
  <2> QED BY <1>1, <2>1, <2>2, <2>3, SameSent
<1>4. CASE ~closed[s]
  <2> DEFINE e == event[p]
             q == queue[s]
             a == written[s] \o InHand(s)
             full == Len(q) >= QueueCapacity
             drop == IF full THEN {Head(q)} ELSE {}
  <2>1. /\ e \in Events /\ e \notin Elements(log[s])
    BY <1>1 DEF Undelivered, Events
  <2>2. /\ log' = [log EXCEPT ![s] = Append(log[s], e)]
        /\ queue' = [queue EXCEPT ![s] = Append(IF full THEN Tail(q) ELSE q, e)]
    BY <1>4 DEF Deliver, Enqueue
  <2>3. lost' = [lost EXCEPT ![s] = lost[s] \cup drop]
    <3>1. lost' = [lost EXCEPT ![s] = IF full THEN lost[s] \cup {Head(q)} ELSE lost[s]]
      BY <1>4 DEF Deliver
    <3>2. (IF full THEN lost[s] \cup {Head(q)} ELSE lost[s]) = lost[s] \cup drop
      OBVIOUS
    <3> QED BY <3>1, <3>2
  <2>4. full => q # << >>
    BY <1>1, QueueCapacityAssumption
  <2>5. a \in Seq(Events) /\ q \in Seq(Events) /\ Sent(s) = a \o q
    <3>1. InHand(s) \in Seq(Events)
      <4>1. pc[s] = "write" => hand[s] \in Events
        BY DEF BusInv, EventTypeOK, Events
      <4> QED BY <4>1 DEF InHand
    <3> QED BY <1>1, <3>1 DEF Sent
  <2>6. Sent(s)' = a \o Append(IF full THEN Tail(q) ELSE q, e)
    <3>1. InHand(s)' = InHand(s)
      BY <1>1 DEF InHand
    <3> QED BY <1>1, <2>2, <3>1 DEF Sent
  <2>7. /\ log'[s] = Append(log[s], e)
        /\ lost'[s] = lost[s] \cup drop
        /\ \A r \in Streams : r # s => log'[r] = log[r] /\ lost'[r] = lost[r] /\ Sent(r)' = Sent(r)
    BY <1>1, <2>2, <2>3 DEF Sent, InHand
  <2> HIDE DEF e, q, a, full, drop
  <2>8. Elements(log'[s]) = Elements(log[s]) \cup {e} /\ (Distinct(log[s]) => Distinct(log'[s]))
    BY <1>1, <2>1, <2>7, ElementsAppend
  <2>9. Distinct(log[s])
    BY DEF OnceOrDropped, Distinct
  <2>10. Undelivered'
    <3>1. ASSUME NEW x \in Publishers, NEW r \in Streams, event'[x] # 0,
                 pending'[x] = NotCollected \/ r \in pending'[x]
          PROVE  event'[x] \notin Elements(log'[r])
      <4>1. event[x] \notin Elements(log[r]) /\ ~(x = p /\ r = s)
        BY <1>1, <1>2, <3>1 DEF Undelivered
      <4>2. r = s => event[x] # e
        BY <1>1, <3>1, <4>1 DEF Undelivered, e
      <4> QED BY <1>1, <2>7, <2>8, <4>1, <4>2
    <3>2. \A x, y \in Publishers : x # y /\ event'[x] # 0 => event'[x] # event'[y]
      BY <1>1 DEF Undelivered
    <3> QED BY <3>1, <3>2 DEF Undelivered
  <2>11. ASSUME pc[s] \notin {"close", "done"}
         PROVE  lost'[s] \subseteq Elements(log'[s]) /\ Remains(Sent(s)', log'[s], lost'[s])
    <3>1. Remains(a \o q, log[s], lost[s]) /\ lost[s] \subseteq Elements(log[s])
      BY <2>5, <2>11 DEF OnceOrDropped, Dropped
    <3>2. CASE ~full
      <4>1. drop = {} /\ lost'[s] = lost[s]
        BY <2>7, <3>2 DEF drop
      <4>2. a \o q \in Seq(Events) /\ a \o Append(q, e) = Append(a \o q, e)
        BY <2>1, <2>5
      <4>3. Remains(Append(a \o q, e), Append(log[s], e), lost[s])
        BY <1>1, <2>1, <3>1, <4>2, RemainsAppend
      <4> QED BY <2>6, <2>7, <2>8, <3>1, <3>2, <4>1, <4>2, <4>3
    <3>3. CASE full
      <4> DEFINE o == a \o Tail(q)
                 d == Len(a) + 1
      <4>1. q # << >> /\ drop = {Head(q)}
        BY <2>4, <3>3 DEF drop
      <4>2. /\ a \o q \in Seq(Events) /\ o \in Seq(Events)
            /\ d \in 1..Len(a \o q) /\ (a \o q)[d] = Head(q)
            /\ Len(o) = Len(a \o q) - 1
            /\ a \o Append(Tail(q), e) = Append(o, e)
        BY <2>1, <2>5, <4>1
      <4>3. \A k \in 1..Len(o) : o[k] = IF k < d THEN (a \o q)[k] ELSE (a \o q)[k + 1]
        BY <2>1, <2>5, <4>1
      <4> HIDE DEF o, d
      <4>4. Remains(o, log[s], lost[s] \cup {(a \o q)[d]})
        BY <1>1, <2>9, <3>1, <4>2, <4>3, RemainsWithout
      <4>5. Head(q) \in Elements(log[s])
        <5>1. Head(q) \in Elements(a \o q)
          BY <4>2 DEF Elements
        <5> QED BY <5>1, <3>1 DEF Remains
      <4>6. Remains(Append(o, e), Append(log[s], e), lost[s] \cup {Head(q)})
        <5>1. e \notin lost[s] \cup {Head(q)}
          BY <2>1, <3>1, <4>5
        <5> QED BY <1>1, <2>1, <4>2, <4>4, <5>1, RemainsAppend
      <4> QED BY <2>6, <2>7, <2>8, <3>1, <3>3, <4>1, <4>2, <4>5, <4>6
    <3> QED BY <3>2, <3>3
  <2>12. Dropped'
    BY <1>1, <2>7, <2>11 DEF Dropped
  <2>13. OnceOrDropped'
    <3> SUFFICES ASSUME NEW r \in Streams
                 PROVE  Distinct(log'[r]) /\ (pc[r] \notin {"close", "done"}
                                                => Remains(Sent(r)', log'[r], lost'[r]))
      BY <1>1 DEF OnceOrDropped, Distinct
    <3>1. CASE r = s
      BY <3>1, <2>8, <2>9, <2>11
    <3>2. CASE r # s
      BY <3>2, <2>7 DEF OnceOrDropped, Distinct
    <3> QED BY <3>1, <3>2
  <2> QED BY <2>10, <2>12, <2>13
<1> QED BY <1>3, <1>4

(* Every step of the watch, of SwitchTo and of the streams.                *)
LEMMA OnceNext == Inv /\ OnceInv /\ [Next]_vars => OnceInv'
<1> SUFFICES ASSUME Inv, OnceInv, [Next]_vars PROVE OnceInv'
  OBVIOUS
<1>1. BusInv
  BY DEF Inv
<1>2. ASSUME UNCHANGED eventVars PROVE OnceInv'
  <2>1. UNCHANGED <<event, pending, log, lost, queue, written, pc, hand>>
    BY <1>2 DEF eventVars, pubVars, busVars
  <2>2. \A r \in Streams : Sent(r)' = Sent(r)
    BY <2>1 DEF Sent, InHand
  <2>3. Undelivered'
    BY <2>1 DEF OnceInv, Undelivered
  <2> QED BY <2>1, <2>2, <2>3, SameSent DEF OnceInv
<1>3. ASSUME NEW p \in Publishers, Publish(p) PROVE OnceInv'
  BY <1>1, <1>3, CollectOnce, DeliverOnce, PublishReturnsOnce DEF Publish
<1>4. CASE StartFileWatch \/ StopFileWatch \/ Stopping \/ DirectoryChanges
  BY <1>2, <1>4 DEF StartFileWatch, StopFileWatch, Stopping, CancelIo, CloseHandles,
                    DirectoryChanges
<1>5. CASE WatchLoop
  <2>1. CASE Arm \/ TestWatching \/ Wait \/ AfterWait
    BY <1>2, <2>1 DEF Arm, TestWatching, Wait, AfterWait
  <2>2. CASE Announce
    BY <1>1, <2>2, PublishersAssumption, PublishNowOnce DEF Announce
  <2>3. CASE WatchPublishes
    BY <1>3, <2>3, PublishersAssumption DEF WatchPublishes
  <2> QED BY <1>5, <2>1, <2>2, <2>3 DEF WatchLoop
<1>6. CASE SwitchPublishes
  BY <1>1, <1>3, <1>6, PublishersAssumption, PublishNowOnce DEF SwitchPublishes
<1>7. CASE \E s \in Streams : StreamStep(s) /\ UNCHANGED watchVars
  BY <1>1, <1>7, StreamOnce
<1>8. CASE UNCHANGED vars
  BY <1>2, <1>8 DEF vars
<1> QED BY <1>4, <1>5, <1>6, <1>7, <1>8 DEF Next

(* For any streams and capacities, and while the watch and SwitchTo        *)
(* publish at the same time, a client gets each event at most once, in the *)
(* order of its queue, and lacks only what the full queue dropped.         *)
THEOREM EachEventOnce == Spec => []OnceOrDropped
<1>1. Init => OnceInv
  BY OnceInit DEF Init
<1>2. OnceInv => OnceOrDropped
  BY DEF OnceInv
<1> QED BY <1>1, <1>2, InvAlways, OnceNext, PTL DEF Spec
=============================================================================
