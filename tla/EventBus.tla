------------------------------ MODULE EventBus ------------------------------
(***************************************************************************)
(* core::EventBus (libs/core/src/event_bus.cpp) with what is at its two    *)
(* ends: the threads that call PublishNow, and for each open WatchEvents   *)
(* stream its gRPC handler with its client.                                *)
(*                                                                         *)
(* An event is the number of its timestamp: PublishNow reads the clock     *)
(* before it takes any lock, so two threads may overtake each other on the *)
(* way to the queues.  A critical section is one step, as in TelemetryHub. *)
(***************************************************************************)
EXTENDS Naturals, Sequences

CONSTANTS Publishers,     \* the threads that publish
          Streams,        \* the streams that clients open
          QueueCapacity,  \* kSubscriberQueueCapacity
          MaxEvents       \* bound: events published

ASSUME QueueCapacityAssumption == QueueCapacity \in Nat \ {0}
ASSUME MaxEventsAssumption == MaxEvents \in Nat
ASSUME StreamsAssumption == "not collected" \notin Streams

VARIABLES
  clock,       \* events stamped so far
  event,       \* the event each thread is publishing, 0 for none
  pending,     \* the vector live of each Publish, NotCollected before it is built
  registered,  \* subscribers_
  queue,       \* Subscriber::queue_
  closed,      \* Subscriber::closed_
  pc,          \* where the handler of each stream is in WatchEvents
  hand,        \* the handler's local variable event
  cancelled,   \* the client has cancelled or gone away
  overlap,     \* observer: the events in flight when each event was stamped
  since,       \* observer: the clock when the stream subscribed
  log,         \* observer: the events put into each queue, in that order
  lost,        \* observer: the events that a full queue dropped
  written      \* observer: the events written to the client, in that order

pubVars == <<clock, event, pending, overlap>>
busVars == <<registered, queue, closed, since, log, lost>>
eventVars == <<pubVars, busVars, pc, hand, cancelled, written>>

Events == 1..MaxEvents
NotCollected == {"not collected"}
Busy == {event[p] : p \in Publishers} \ {0}

(* The handler still holds its shared_ptr.                                 *)
Held(s) == pc[s] \notin {"new", "done"}

EventInit ==
  /\ clock = 0
  /\ event = [p \in Publishers |-> 0]
  /\ pending = [p \in Publishers |-> NotCollected]
  /\ registered = {}
  /\ queue = [s \in Streams |-> << >>]
  /\ closed = [s \in Streams |-> FALSE]
  /\ pc = [s \in Streams |-> "new"]
  /\ hand = [s \in Streams |-> 0]
  /\ cancelled = [s \in Streams |-> FALSE]
  /\ overlap = [e \in Events |-> {}]
  /\ since = [s \in Streams |-> 0]
  /\ log = [s \in Streams |-> << >>]
  /\ lost = [s \in Streams |-> {}]
  /\ written = [s \in Streams |-> << >>]

-----------------------------------------------------------------------------
(* PublishNow and Publish of thread p.                                     *)

(* PublishNow reads the clock.                                             *)
PublishNow(p) ==
  /\ event[p] = 0
  /\ clock < MaxEvents
  /\ clock' = clock + 1
  /\ event' = [event EXCEPT ![p] = clock']
  /\ overlap' = [overlap EXCEPT ![clock'] = Busy]
  /\ UNCHANGED <<pending, busVars, pc, hand, cancelled, written>>

(* Under the bus's mutex: collect the live subscribers, erase the rest.    *)
Collect(p) ==
  /\ event[p] # 0
  /\ pending[p] = NotCollected
  /\ registered' = {s \in registered : Held(s)}
  /\ pending' = [pending EXCEPT ![p] = registered']
  /\ UNCHANGED <<clock, event, overlap, queue, closed, since, log, lost, pc, hand, cancelled,
                 written>>

(* A full queue that gives up the new event.                               *)
EnqueueDropsNewest(q, e) == IF Len(q) >= QueueCapacity THEN q ELSE Append(q, e)

(* Slow consumer: a full queue loses its oldest event.                     *)
Enqueue(q, e) == Append(IF Len(q) >= QueueCapacity THEN Tail(q) ELSE q, e)

(* push_front: what Pop takes next is the newest event.                    *)
DeliverInFront(p, s) ==
  /\ event[p] # 0
  /\ pending[p] # NotCollected
  /\ s \in pending[p]
  /\ pending' = [pending EXCEPT ![p] = @ \ {s}]
  /\ queue' = [queue EXCEPT ![s] = SubSeq(<<event[p]>> \o @, 1, QueueCapacity)]
  /\ log' = [log EXCEPT ![s] = SubSeq(@, 1, Len(@) - Len(queue[s])) \o <<event[p]>> \o queue[s]]
  /\ lost' = [lost EXCEPT ![s] = IF Len(queue[s]) >= QueueCapacity
                                   THEN @ \cup {queue[s][Len(queue[s])]} ELSE @]
  /\ UNCHANGED <<clock, event, overlap, registered, closed, since, pc, hand, cancelled,
                 written>>

(* Under the subscriber's mutex.                                           *)
Deliver(p, s) ==
  /\ event[p] # 0
  /\ pending[p] # NotCollected
  /\ s \in pending[p]
  /\ pending' = [pending EXCEPT ![p] = @ \ {s}]
  /\ IF closed[s]
       THEN UNCHANGED <<queue, log, lost>>
       ELSE /\ queue' = [queue EXCEPT ![s] = Enqueue(@, event[p])]
            /\ log' = [log EXCEPT ![s] = Append(@, event[p])]
            /\ lost' = [lost EXCEPT ![s] = IF Len(queue[s]) >= QueueCapacity
                                             THEN @ \cup {Head(queue[s])} ELSE @]
  /\ UNCHANGED <<clock, event, overlap, registered, closed, since, pc, hand, cancelled,
                 written>>

(* A Publish that returns after its first subscriber.                      *)
PublishReturnsEarly(p) ==
  /\ event[p] # 0
  /\ pending[p] # NotCollected
  /\ event' = [event EXCEPT ![p] = 0]
  /\ pending' = [pending EXCEPT ![p] = NotCollected]
  /\ UNCHANGED <<clock, overlap, busVars, pc, hand, cancelled, written>>

PublishReturns(p) ==
  /\ event[p] # 0
  /\ pending[p] = {}
  /\ event' = [event EXCEPT ![p] = 0]
  /\ pending' = [pending EXCEPT ![p] = NotCollected]
  /\ UNCHANGED <<clock, overlap, busVars, pc, hand, cancelled, written>>

Publish(p) == Collect(p) \/ (\E s \in Streams : Deliver(p, s)) \/ PublishReturns(p)

-----------------------------------------------------------------------------
(* CommandServiceImpl::WatchEvents                                         *)

Subscribe(s) ==
  /\ pc[s] = "new"
  /\ pc' = [pc EXCEPT ![s] = "loop"]
  /\ registered' = registered \cup {s}
  /\ since' = [since EXCEPT ![s] = clock]
  /\ UNCHANGED <<pubVars, queue, closed, log, lost, hand, cancelled, written>>

(* while (!context->IsCancelled())                                         *)
CheckCancelled(s) ==
  /\ pc[s] = "loop"
  /\ pc' = [pc EXCEPT ![s] = IF cancelled[s] THEN "close" ELSE "pop"]
  /\ UNCHANGED <<pubVars, busVars, hand, cancelled, written>>

(* Pop: the oldest event, or after 250 ms without one back to the loop.    *)
Pop(s) ==
  /\ pc[s] = "pop"
  /\ IF queue[s] = << >>
       THEN pc' = [pc EXCEPT ![s] = "loop"] /\ UNCHANGED <<hand, queue>>
       ELSE /\ hand' = [hand EXCEPT ![s] = Head(queue[s])]
            /\ queue' = [queue EXCEPT ![s] = Tail(@)]
            /\ pc' = [pc EXCEPT ![s] = "write"]
  /\ UNCHANGED <<pubVars, registered, closed, since, log, lost, cancelled, written>>

(* Write, of the event that ToProto copies; false once the client is gone. *)
Write(s) ==
  /\ pc[s] = "write"
  /\ \/ /\ written' = [written EXCEPT ![s] = Append(@, hand[s])]
        /\ pc' = [pc EXCEPT ![s] = "loop"]
     \/ /\ cancelled[s]
        /\ pc' = [pc EXCEPT ![s] = "close"]
        /\ UNCHANGED written
  /\ hand' = [hand EXCEPT ![s] = 0]
  /\ UNCHANGED <<pubVars, busVars, cancelled>>

Close(s) ==
  /\ pc[s] = "close"
  /\ closed' = [closed EXCEPT ![s] = TRUE]
  /\ pc' = [pc EXCEPT ![s] = "done"]
  /\ UNCHANGED <<pubVars, registered, queue, since, log, lost, hand, cancelled, written>>

Handler(s) ==
  CheckCancelled(s) \/ Pop(s) \/ Write(s) \/ Close(s)

(* The client cancels the stream, or its connection breaks.                *)
ClientCancels(s) ==
  /\ Held(s) /\ ~cancelled[s]
  /\ cancelled' = [cancelled EXCEPT ![s] = TRUE]
  /\ UNCHANGED <<pubVars, busVars, pc, hand, written>>

StreamStep(s) ==
  Subscribe(s) \/ Handler(s) \/ ClientCancels(s)

-----------------------------------------------------------------------------
EventTypeOK ==
  /\ clock \in 0..MaxEvents
  /\ event \in [Publishers -> 0..MaxEvents]
  /\ pending \in [Publishers -> (SUBSET Streams) \cup {NotCollected}]
  /\ registered \subseteq Streams
  /\ queue \in [Streams -> Seq(Events)]
  /\ \A s \in Streams : Len(queue[s]) <= QueueCapacity
  /\ closed \in [Streams -> BOOLEAN]
  /\ pc \in [Streams -> {"new", "loop", "pop", "write", "close", "done"}]
  /\ hand \in [Streams -> 0..MaxEvents]
  /\ \A s \in Streams : pc[s] = "write" => hand[s] # 0
  /\ cancelled \in [Streams -> BOOLEAN]
  /\ overlap \in [Events -> SUBSET Events]
  /\ since \in [Streams -> 0..MaxEvents]
  /\ log \in [Streams -> Seq(Events)]
  /\ lost \in [Streams -> SUBSET Events]
  /\ written \in [Streams -> Seq(Events)]

(* The event that the handler has popped and not written yet.              *)
InHand(s) == IF pc[s] = "write" THEN <<hand[s]>> ELSE << >>

(* What the client has got, is about to be sent and will be sent.          *)
Sent(s) == written[s] \o InHand(s) \o queue[s]

Elements(q) == {q[i] : i \in 1..Len(q)}

(* The sequence out is the sequence all without what was dropped of it.    *)
Remains(out, all, dropped) ==
  /\ Elements(out) = Elements(all) \ dropped
  /\ \A k, l \in 1..Len(out) : k < l =>
       \E i, j \in 1..Len(all) : i < j /\ all[i] = out[k] /\ all[j] = out[l]

(* A client is sent each event at most once and in the order of its queue, *)
(* and lacks only what the full queue dropped: whatever went into the      *)
(* queue has been sent, is about to be, is still queued, or was dropped.   *)
OnceOrDropped ==
  \A s \in Streams :
    /\ \A i, j \in 1..Len(log[s]) : i # j => log[s][i] # log[s][j]
    /\ pc[s] \notin {"close", "done"} => Remains(Sent(s), log[s], lost[s])

(* Every event stamped after the stream subscribed is in its queue when    *)
(* Publish has returned, whatever the other publishers do meanwhile.       *)
NoneSkipped ==
  \A s \in Streams : Held(s) /\ ~closed[s] =>
    \A e \in (since[s] + 1)..clock : e \in Busy \/ \E i \in 1..Len(log[s]) : log[s][i] = e

(* Timestamps may come out of order only between threads that published at *)
(* the same time: what was over before an event began is in front of it.   *)
RealTimeOrder ==
  \A s \in Streams : \A i, j \in 1..Len(log[s]) :
    i < j /\ log[s][j] < log[s][i] => log[s][j] \in overlap[log[s][i]]
=============================================================================
