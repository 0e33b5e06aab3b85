---------------------------- MODULE TelemetryHub ----------------------------
(***************************************************************************)
(* core::TelemetryHub (libs/core/src/telemetry_hub.cpp) together with its  *)
(* two users in the service: the pipeline thread that calls Publish and    *)
(* the gRPC handler threads of TelemetryServiceImpl::Subscribe, one per    *)
(* open stream.                                                            *)
(*                                                                         *)
(* A sample is the number of its tick, 1, 2, 3, ...  A critical section is *)
(* one step: Publish takes the hub's mutex once and then the mutex of each *)
(* live subscriber in turn, so everything else may happen in between.      *)
(* There is one publisher: CollectorPipeline::Stop joins the old thread    *)
(* before Start may create the next.                                       *)
(*                                                                         *)
(* history_ is the ring of RingBuffer (buf, head, total), built with       *)
(* RequestedCapacity = kDefaultHistoryCapacity and never cleared; total is *)
(* the number of the last tick.                                            *)
(***************************************************************************)
EXTENDS RingBuffer

CONSTANTS Subs,             \* the streams that clients may open
          QueueCapacity,    \* kSubscriberQueueCapacity
          Hz                \* interval_hz of each stream, as <<numerator, denominator>>

ASSUME QueueCapacityAssumption == QueueCapacity \in Nat \ {0}
ASSUME ValueAssumption == Value = 1..MaxTotal
ASSUME HzAssumption == \A s \in Subs : Hz[s] \in Int \X (Nat \ {0})

VARIABLES
  pub,        \* where the publisher is in Publish
  pending,    \* live subscribers Publish has not visited yet
  registered, \* subscribers_: the weak_ptrs
  queue,      \* Subscriber::queue_ of each stream
  closed,     \* Subscriber::closed_
  pc,         \* where the handler of each stream is in Subscribe
  sample,     \* the handler's local variable sample
  index,      \* the handler's local variable index: samples popped
  cancelled,  \* the client has cancelled or gone away
  lastSent,   \* observer: last tick written to the client, 0 before the first
  first,      \* observer: first tick that Publish owes the stream
  dropped     \* observer: samples dropped from the stream's queue

pubVars == <<ringVars, pub, pending>>
handlerVars == <<pc, sample, index, lastSent>>
vars == <<pubVars, registered, queue, closed, handlerVars, cancelled, first, dropped>>

Clamp(x, lo, hi) == IF x < lo THEN lo ELSE IF x > hi THEN hi ELSE x

(* lround(1.0 / interval_hz) for 0 < interval_hz < 1, 1 otherwise.         *)
Decimate(s) ==
  LET num == Hz[s][1]
      den == Hz[s][2]
  IN  IF num > 0 /\ num < den THEN (2 * den + num) \div (2 * num) ELSE 1

(* The queue's limit with > for >=.                                        *)
FullOffByOne(q) == Len(q) > QueueCapacity

Full(q) == Len(q) >= QueueCapacity

(* A push onto a full queue that gives up the new sample.                  *)
EnqueueDropsNewest(q, v) == IF Full(q) THEN q ELSE Append(q, v)

(* Slow consumer: a full queue loses its oldest sample.                    *)
Enqueue(q, v) == Append(IF Full(q) THEN Tail(q) ELSE q, v)

(* The decimation test inverted.                                           *)
DueInverted(s) == index[s] % Decimate(s) # 0

(* index++ % decimate == 0: this sample goes out.                          *)
Due(s) == index[s] % Decimate(s) = 0

(* The handler still holds its shared_ptr: the weak_ptr can be locked.     *)
Held(s) == pc[s] \notin {"new", "done"}

Init ==
  /\ RingInit
  /\ pub = "idle"
  /\ pending = {}
  /\ registered = {}
  /\ queue = [s \in Subs |-> << >>]
  /\ closed = [s \in Subs |-> FALSE]
  /\ pc = [s \in Subs |-> "new"]
  /\ sample = [s \in Subs |-> 0]
  /\ index = [s \in Subs |-> 0]
  /\ cancelled = [s \in Subs |-> FALSE]
  /\ lastSent = [s \in Subs |-> 0]
  /\ first = [s \in Subs |-> 0]
  /\ dropped = [s \in Subs |-> 0]

-----------------------------------------------------------------------------
(* TelemetryHub::Publish, called by the pipeline once per tick.            *)

PublishHistory ==
  /\ pub = "idle"
  /\ Push(total + 1)
  /\ pub' = "pushed"
  /\ UNCHANGED <<pending, registered, queue, closed, handlerVars, cancelled, first, dropped>>

(* Under the hub's mutex: collect the live subscribers, erase the rest.    *)
PublishCollect ==
  /\ pub = "pushed"
  /\ registered' = {s \in registered : Held(s)}
  /\ pending' = registered'
  /\ pub' = "deliver"
  /\ UNCHANGED <<ringVars, queue, closed, handlerVars, cancelled, first, dropped>>

(* A delivery that waits for the consumer to make room.                    *)
DeliverBlocks(s) ==
  /\ pub = "deliver"
  /\ s \in pending
  /\ ~Full(queue[s])
  /\ pending' = pending \ {s}
  /\ queue' = [queue EXCEPT ![s] = IF closed[s] THEN @ ELSE Append(@, total)]
  /\ UNCHANGED <<dropped>>
  /\ UNCHANGED <<ringVars, pub, registered, closed, handlerVars, cancelled, first>>

(* Under the subscriber's mutex: skip a closed one; a full queue loses its *)
(* oldest sample.  The order of the vector does not matter: the visits     *)
(* touch disjoint state.                                                   *)
Deliver(s) ==
  /\ pub = "deliver"
  /\ s \in pending
  /\ pending' = pending \ {s}
  /\ IF closed[s]
       THEN UNCHANGED <<queue, dropped>>
       ELSE /\ queue' = [queue EXCEPT ![s] = Enqueue(@, total)]
            /\ dropped' = [dropped EXCEPT ![s] = IF Full(queue[s]) THEN @ + 1 ELSE @]
  /\ UNCHANGED <<ringVars, pub, registered, closed, handlerVars, cancelled, first>>

PublishReturn ==
  /\ pub = "deliver"
  /\ pending = {}
  /\ pub' = "idle"
  /\ UNCHANGED <<ringVars, pending, registered, queue, closed, handlerVars,
                 cancelled, first, dropped>>

Publisher ==
  \/ PublishHistory
  \/ PublishCollect
  \/ \E s \in Subs : Deliver(s)
  \/ PublishReturn

-----------------------------------------------------------------------------
(* TelemetryServiceImpl::Subscribe, one handler thread per stream.         *)

(* hub_.Subscribe().  The stream is owed the tick in progress only if      *)
(* Publish has not collected its subscribers yet.                          *)
Subscribe(s) ==
  /\ pc[s] = "new"
  /\ pc' = [pc EXCEPT ![s] = "check"]
  /\ registered' = registered \cup {s}
  /\ first' = [first EXCEPT ![s] = IF pub = "pushed" THEN total ELSE total + 1]
  /\ UNCHANGED <<pubVars, queue, closed, sample, index, lastSent, cancelled, dropped>>

(* while (!context->IsCancelled())                                         *)
CheckCancelled(s) ==
  /\ pc[s] = "check"
  /\ pc' = [pc EXCEPT ![s] = IF cancelled[s] THEN "close" ELSE "pop"]
  /\ UNCHANGED <<pubVars, registered, queue, closed, sample, index, lastSent, cancelled,
                 first, dropped>>

(* A Pop that waits without a timeout.                                     *)
PopWaitsForever(s) ==
  /\ pc[s] = "pop"
  /\ queue[s] = << >>
  /\ closed[s]
  /\ pc' = [pc EXCEPT ![s] = "check"]
  /\ UNCHANGED <<pubVars, registered, queue, closed, sample, index, lastSent, cancelled,
                 first, dropped>>

(* Pop gives up after 250 ms with nothing in the queue.                    *)
PopTimeout(s) ==
  /\ pc[s] = "pop"
  /\ queue[s] = << >>
  /\ pc' = [pc EXCEPT ![s] = "check"]
  /\ UNCHANGED <<pubVars, registered, queue, closed, sample, index, lastSent, cancelled,
                 first, dropped>>

(* Pop takes the oldest sample; every Decimate-th one goes on to Write.    *)
PopSample(s) ==
  /\ pc[s] = "pop"
  /\ queue[s] # << >>
  /\ sample' = [sample EXCEPT ![s] = Head(queue[s])]
  /\ queue' = [queue EXCEPT ![s] = Tail(@)]
  /\ index' = [index EXCEPT ![s] = @ + 1]
  /\ pc' = [pc EXCEPT ![s] = IF Due(s) THEN "write" ELSE "check"]
  /\ UNCHANGED <<pubVars, registered, closed, lastSent, cancelled, first, dropped>>

(* Write accepts the sample: at once, or after blocking on flow control.   *)
WriteOk(s) ==
  /\ pc[s] = "write"
  /\ lastSent' = [lastSent EXCEPT ![s] = sample[s]]
  /\ pc' = [pc EXCEPT ![s] = "check"]
  /\ UNCHANGED <<pubVars, registered, queue, closed, sample, index, cancelled, first, dropped>>

(* Write returns false once the client is gone.                            *)
WriteFails(s) ==
  /\ pc[s] = "write"
  /\ cancelled[s]
  /\ pc' = [pc EXCEPT ![s] = "close"]
  /\ UNCHANGED <<pubVars, registered, queue, closed, sample, index, lastSent, cancelled,
                 first, dropped>>

(* subscriber->Close(), then the handler returns and drops its shared_ptr. *)
Close(s) ==
  /\ pc[s] = "close"
  /\ closed' = [closed EXCEPT ![s] = TRUE]
  /\ pc' = [pc EXCEPT ![s] = "done"]
  /\ UNCHANGED <<pubVars, registered, queue, sample, index, lastSent, cancelled, first, dropped>>

Handler(s) ==
  \/ CheckCancelled(s)
  \/ PopTimeout(s)
  \/ PopSample(s)
  \/ WriteFails(s)
  \/ Close(s)

(* The client cancels the stream, or its connection breaks.                *)
ClientCancels(s) ==
  /\ Held(s)
  /\ ~cancelled[s]
  /\ cancelled' = [cancelled EXCEPT ![s] = TRUE]
  /\ UNCHANGED <<pubVars, registered, queue, closed, handlerVars, first, dropped>>

Next ==
  \/ Publisher
  \/ \E s \in Subs : Subscribe(s) \/ Handler(s) \/ WriteOk(s) \/ ClientCancels(s)

Spec == Init /\ [][Next]_vars

(* The pipeline thread and the handler threads keep running.  Nothing is   *)
(* assumed of the clients: a Write to one that has not cancelled may block *)
(* for ever, and no client ever has to cancel.                             *)
FairSpec ==
  /\ Spec
  /\ WF_vars(Publisher)
  /\ \A s \in Subs : WF_vars(Handler(s))

-----------------------------------------------------------------------------
(* TelemetryHub::History without the clamp: a negative argument becomes a  *)
(* huge size_t and the whole history is returned.                          *)
HistoryUnclamped(seconds) == LastN(IF seconds < 0 THEN Cap + 1 ELSE seconds)

(* TelemetryHub::History: the argument is clamped to 0..Capacity.          *)
History(seconds) == LastN(Clamp(seconds, 0, Cap))

-----------------------------------------------------------------------------
Ticks == 0..MaxTotal

(* Type invariant: queues stay within kSubscriberQueueCapacity.            *)
TypeOK ==
  /\ total \in Ticks
  /\ pub \in {"idle", "pushed", "deliver"}
  /\ pending \subseteq registered
  /\ registered \subseteq Subs
  /\ queue \in [Subs -> Seq(Ticks)]
  /\ \A s \in Subs : Len(queue[s]) <= QueueCapacity
  /\ closed \in [Subs -> BOOLEAN]
  /\ pc \in [Subs -> {"new", "check", "pop", "write", "close", "done"}]
  /\ sample \in [Subs -> Ticks]
  /\ index \in [Subs -> Nat]
  /\ cancelled \in [Subs -> BOOLEAN]
  /\ lastSent \in [Subs -> Ticks]
  /\ first \in [Subs -> 0..(MaxTotal + 1)]
  /\ dropped \in [Subs -> Nat]

(* Publish still has to visit s for the tick in progress.                  *)
Owed(s) == pub = "pushed" \/ s \in pending

(* The last tick whose delivery to s is over.                              *)
Delivered(s) == IF Owed(s) THEN total - 1 ELSE total

(* Nothing is lost, repeated or reordered between Publish and Pop, however *)
(* subscribing, popping and closing interleave with the fan-out: the queue *)
(* of an open stream is a run of consecutive ticks that starts right after *)
(* what was popped or dropped and ends with the last one delivered.        *)
Conservation ==
  \A s \in Subs : Held(s) =>
    /\ first[s] + index[s] + dropped[s] + Len(queue[s]) = Delivered(s) + 1
    /\ \A i \in 1..Len(queue[s]) :
         queue[s][i] = first[s] + index[s] + dropped[s] + i - 1

(* A consumer never sees time run backwards and is never sent samples      *)
(* closer than its decimation asks for; as long as its queue dropped       *)
(* nothing, it gets exactly every Decimate-th tick from the first one on.  *)
Pacing ==
  [][\A s \in Subs : lastSent'[s] # lastSent[s] =>
       /\ lastSent[s] # 0 => lastSent'[s] >= lastSent[s] + Decimate(s)
       /\ dropped[s] = 0 =>
            lastSent'[s] = IF lastSent[s] = 0 THEN first[s]
                                              ELSE lastSent[s] + Decimate(s)]_vars

(* GetHistory answers any seconds argument, negative or huge, with that    *)
(* many of the latest ticks, clamped to what is retained; a tick is in the *)
(* history before any stream can see it.                                   *)
HistoryComplete ==
  /\ \A seconds \in -1..(Cap + 1) :
       LET k == Clamp(seconds, 0, MinNat(total, Cap))
       IN  History(seconds) = [i \in 1..k |-> total - k + i]
  /\ \A s \in Subs : \A i \in 1..Len(queue[s]) : queue[s][i] <= total

(* Slow consumers never block the producer: Publish returns even when      *)
(* every handler is stuck in a Write that nobody reads.                    *)
PublishReturns == pub # "idle" ~> pub = "idle"

(* A handler whose client is gone leaves its loop, even when no sample     *)
(* ever arrives: it wakes up by the timeout of Pop.                        *)
CancelledStreamEnds == \A s \in Subs : cancelled[s] ~> pc[s] = "done"
=============================================================================
