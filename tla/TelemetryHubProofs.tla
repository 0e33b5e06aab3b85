------------------------- MODULE TelemetryHubProofs -------------------------
(***************************************************************************)
(* For any number of streams, any queue and history capacity and any       *)
(* number of ticks: the hub is type correct and neither loses, repeats nor *)
(* reorders a sample between Publish and Pop, except by the counted drops  *)
(* of a full queue; its history is complete, and streams are paced.        *)
(***************************************************************************)
EXTENDS TelemetryHub, RingBufferProofs

(* What the code knows at each program point: a stream not yet opened has  *)
(* nothing, an open one is registered and not closed, and Publish has      *)
(* something left to visit only while it delivers.                         *)
Stages ==
  /\ pub # "deliver" => pending = {}
  /\ pub # "idle" => total > 0
  /\ \A s \in Subs :
       /\ pc[s] = "new" => /\ queue[s] = << >> /\ index[s] = 0 /\ dropped[s] = 0
                           /\ ~closed[s] /\ s \notin registered
       /\ Held(s) => s \in registered /\ ~closed[s]

(* The inductive invariant.                                                *)
Inv == TypeOK /\ Stages /\ Conservation

USE DEF Ticks, ringVars

(* The bounded queue after one delivery.                                   *)
LEMMA EnqueueType ==
  ASSUME NEW q \in Seq(Ticks), Len(q) <= QueueCapacity, NEW v \in Ticks
  PROVE  /\ Enqueue(q, v) \in Seq(Ticks)
         /\ Len(Enqueue(q, v)) = IF Full(q) THEN Len(q) ELSE Len(q) + 1
         /\ Len(Enqueue(q, v)) <= QueueCapacity
         /\ Enqueue(q, v)[Len(Enqueue(q, v))] = v
         /\ ~Full(q) => \A i \in 1..Len(q) : Enqueue(q, v)[i] = q[i]
         /\ Full(q) => \A i \in 1..(Len(q) - 1) : Enqueue(q, v)[i] = q[i + 1]
<1>1. CASE Full(q)
  <2>1. Len(q) = QueueCapacity /\ Len(q) > 0 /\ q # << >>
    BY <1>1, QueueCapacityAssumption DEF Full
  <2>2. /\ Tail(q) \in Seq(Ticks)
        /\ Len(Tail(q)) = Len(q) - 1
        /\ \A i \in 1..(Len(q) - 1) : Tail(q)[i] = q[i + 1]
    BY <2>1, HeadTailProperties
  <2>3. Enqueue(q, v) = Append(Tail(q), v)
    BY <1>1 DEF Enqueue
  <2> QED
    BY <1>1, <2>1, <2>2, <2>3, AppendProperties
<1>2. CASE ~Full(q)
  <2>1. Enqueue(q, v) = Append(q, v)
    BY <1>2 DEF Enqueue
  <2>2. Len(q) + 1 <= QueueCapacity /\ Len(q) \in Nat
    BY <1>2, QueueCapacityAssumption DEF Full
  <2> QED
    BY <1>2, <2>1, <2>2, AppendProperties
<1> QED
  BY <1>1, <1>2

(* What the ring holds is unchanged when the ring is.                      *)
LEMMA SameRing ==
  ASSUME UNCHANGED ringVars
  PROVE  Contents' = Contents /\ total' = total /\ (RingTypeOK => RingTypeOK')
  BY DEF ringVars, Contents, LastN, RingTypeOK

(* The types of the ring in the hub.                                       *)
LEMMA RingTypes ==
  ASSUME RingTypeOK
  PROVE  /\ Contents \in Seq(Ticks) /\ Len(Contents) = Len(buf) /\ Len(Contents) \in Nat
         /\ Len(Contents) <= Cap /\ Cap \in Nat \ {0}
<1>1. Contents \in Seq(Value) /\ Len(Contents) = Len(buf) /\ Len(buf) <= Cap
  BY ContentsSlots DEF ReadsSlots, RingTypeOK
<1>2. Contents \in Seq(Ticks)
  BY <1>1, ValueAssumption, MaxTotalAssumption
<1> QED
  BY <1>1, <1>2, CapPositive

(* Publish pushes the next tick into the history.                          *)
LEMMA RingPushed ==
  ASSUME RingTypeOK, total \in Ticks, PublishHistory
  PROVE  /\ RingTypeOK' /\ total + 1 \in Ticks
         /\ total' = total + 1 /\ Contents' = Bounded!Pushed(Contents, total + 1)
<1>1. Push(total + 1) /\ total < MaxTotal
  BY DEF PublishHistory, Push
<1>2. total + 1 \in Value /\ total + 1 \in Ticks
  BY <1>1, ValueAssumption, MaxTotalAssumption
<1>3. RingTypeOK'
  BY <1>1, <1>2, PushType
<1>4. Bounded!Push(total + 1)
  BY <1>1, <1>2, <1>3, PushRefines
<1> QED
  BY <1>2, <1>3, <1>4 DEF Bounded!Push

(* The hub starts empty.                                                   *)
LEMMA InitInv == Init => Inv
<1> SUFFICES ASSUME Init PROVE Inv
  OBVIOUS
<1>1. TypeOK
  BY QueueCapacityAssumption, CapPositive, MaxTotalAssumption, EmptySeq
     DEF Init, RingInit, TypeOK
<1>2. Stages
  BY DEF Init, RingInit, Stages, Held
<1>3. Conservation
  BY DEF Init, Conservation, Held
<1> QED
  BY <1>1, <1>2, <1>3 DEF Inv

(* The steps of Publish that visit no subscriber.                          *)
LEMMA PublisherInv ==
  ASSUME Inv, PublishHistory \/ PublishCollect \/ PublishReturn
  PROVE  Inv'
<1> USE DEF Inv
<1>1. CASE PublishHistory
  <2>1. total' = total + 1 /\ total < MaxTotal
    BY <1>1 DEF PublishHistory, Push
  <2>2. total + 1 \in Ticks
    BY <2>1, MaxTotalAssumption DEF TypeOK
  <2>4. TypeOK'
    BY <1>1, <2>1, <2>2 DEF PublishHistory, TypeOK, handlerVars
  <2>5. Stages'
    BY <1>1, <2>1 DEF PublishHistory, TypeOK, Stages, Held, handlerVars
  <2>6. Conservation'
    <3>1. \A s \in Subs : Delivered(s)' = Delivered(s)
      BY <1>1, <2>1 DEF PublishHistory, Delivered, Owed, Stages, TypeOK
    <3> QED
      BY <1>1, <3>1 DEF PublishHistory, Conservation, Held, handlerVars
  <2> QED
    BY <2>4, <2>5, <2>6
<1>2. CASE PublishCollect
  <2>1. TypeOK'
    BY <1>2 DEF PublishCollect, TypeOK, handlerVars
  <2>2. Stages'
    BY <1>2 DEF PublishCollect, Stages, Held, handlerVars
  <2>3. Conservation'
    <3>1. \A s \in Subs : Held(s) => Delivered(s)' = Delivered(s)
      BY <1>2 DEF PublishCollect, Delivered, Owed, Stages, Held
    <3> QED
      BY <1>2, <3>1 DEF PublishCollect, Conservation, Held, handlerVars
  <2> QED
    BY <2>1, <2>2, <2>3
<1>3. CASE PublishReturn
  <2>1. TypeOK'
    BY <1>3 DEF PublishReturn, TypeOK, handlerVars
  <2>2. Stages'
    BY <1>3 DEF PublishReturn, Stages, Held, handlerVars
  <2>3. Conservation'
    <3>1. \A s \in Subs : Delivered(s)' = Delivered(s)
      BY <1>3 DEF PublishReturn, Delivered, Owed
    <3> QED
      BY <1>3, <3>1 DEF PublishReturn, Conservation, Held, handlerVars
  <2> QED
    BY <2>1, <2>2, <2>3
<1> QED
  BY <1>1, <1>2, <1>3

(* A visit to one live subscriber, whether its handler has just closed it, *)
(* is popping, or has let the queue fill up.                               *)
LEMMA DeliverInv ==
  ASSUME Inv, NEW s \in Subs, Deliver(s)
  PROVE  Inv'
<1> USE DEF Inv
<1>1. /\ pub = "deliver" /\ s \in pending /\ pending' = pending \ {s}
      /\ UNCHANGED <<ringVars, pub, registered, closed, handlerVars, cancelled, first>>
  BY DEF Deliver
<1>2. /\ queue[s] \in Seq(Ticks) /\ Len(queue[s]) <= QueueCapacity
      /\ total \in Ticks
  BY DEF TypeOK
<1> DEFINE q == Enqueue(queue[s], total)
<1>3. /\ q \in Seq(Ticks) /\ Len(q) <= QueueCapacity
      /\ Len(q) = IF Full(queue[s]) THEN Len(queue[s]) ELSE Len(queue[s]) + 1
      /\ q[Len(q)] = total
      /\ ~Full(queue[s]) => \A i \in 1..Len(queue[s]) : q[i] = queue[s][i]
      /\ Full(queue[s]) => \A i \in 1..(Len(queue[s]) - 1) : q[i] = queue[s][i + 1]
  BY <1>2, EnqueueType
<1> HIDE DEF q
<1>4. \A t \in Subs : t # s \/ closed[s] => queue'[t] = queue[t] /\ dropped'[t] = dropped[t]
  BY DEF Deliver, TypeOK
<1>5. ~closed[s] => /\ queue'[s] = q
                    /\ dropped'[s] = IF Full(queue[s]) THEN dropped[s] + 1 ELSE dropped[s]
  BY DEF Deliver, TypeOK, q
<1>6. TypeOK'
  <2>1. queue' \in [Subs -> Seq(Ticks)] /\ \A t \in Subs : Len(queue'[t]) <= QueueCapacity
    <3>1. CASE closed[s]
      BY <3>1 DEF Deliver, TypeOK
    <3>2. CASE ~closed[s]
      <4>1. queue' = [queue EXCEPT ![s] = q]
        BY <3>2 DEF Deliver, q
      <4> QED
        BY <1>3, <4>1 DEF TypeOK
    <3> QED
      BY <3>1, <3>2
  <2>2. dropped' \in [Subs -> Nat]
    <3>1. CASE closed[s]
      BY <3>1 DEF Deliver, TypeOK
    <3>2. CASE ~closed[s]
      <4>1. dropped' = [dropped EXCEPT ![s] = IF Full(queue[s]) THEN @ + 1 ELSE @]
        BY <3>2 DEF Deliver
      <4> QED
        BY <4>1 DEF TypeOK
    <3> QED
      BY <3>1, <3>2
  <2> QED
    BY <1>1, <2>1, <2>2 DEF TypeOK, handlerVars
<1>7. Stages'
  <2>1. ASSUME NEW t \in Subs, pc[t] = "new" PROVE t # s
    BY <1>1, <2>1 DEF Stages, TypeOK
  <2> QED
    BY <1>1, <1>4, <2>1 DEF Stages, Held, handlerVars
<1>8. Conservation'
  <2> SUFFICES ASSUME NEW t \in Subs, Held(t)'
               PROVE  /\ first'[t] + index'[t] + dropped'[t] + Len(queue'[t]) = Delivered(t)' + 1
                      /\ \A i \in 1..Len(queue'[t]) :
                           queue'[t][i] = first'[t] + index'[t] + dropped'[t] + i - 1
    BY DEF Conservation
  <2>1. Held(t) /\ ~closed[t] /\ first'[t] = first[t] /\ index'[t] = index[t]
    BY <1>1 DEF Held, handlerVars, Stages
  <2>2. /\ first[t] + index[t] + dropped[t] + Len(queue[t]) = Delivered(t) + 1
        /\ \A i \in 1..Len(queue[t]) : queue[t][i] = first[t] + index[t] + dropped[t] + i - 1
    BY <2>1 DEF Conservation
  <2>3. CASE t # s
    <3>1. Delivered(t)' = Delivered(t)
      BY <1>1, <2>3 DEF Delivered, Owed
    <3> QED
      BY <1>4, <2>1, <2>2, <2>3, <3>1
  <2>4. CASE t = s
    <3>1. Delivered(s) = total - 1 /\ Delivered(s)' = total
      BY <1>1 DEF Delivered, Owed
    <3> DEFINE b == first[s] + index[s] + dropped[s]
    <3>2. b \in Nat /\ Len(queue[s]) \in Nat /\ total \in Nat
      <4>1. first[s] \in Nat /\ index[s] \in Nat /\ dropped[s] \in Nat
        BY MaxTotalAssumption DEF TypeOK
      <4>2. b \in Nat
        BY ONLY <4>1
      <4>3. Len(queue[s]) \in Nat
        BY <1>2
      <4>4. total \in Nat
        BY MaxTotalAssumption DEF TypeOK, Ticks
      <4> QED
        BY ONLY <4>2, <4>3, <4>4
    <3>3. /\ b + Len(queue[s]) = total
          /\ \A i \in 1..Len(queue[s]) : queue[s][i] = b + i - 1
      <4>1. b + Len(queue[s]) = Delivered(s) + 1
        BY <2>2, <2>4
      <4> QED
        BY <2>2, <2>4, <3>1, <3>2, <4>1
    <3>4. first'[s] + index'[s] + dropped'[s] = IF Full(queue[s]) THEN b + 1 ELSE b
      <4>1. first[s] \in Nat /\ index[s] \in Nat /\ dropped[s] \in Nat
        BY MaxTotalAssumption DEF TypeOK
      <4>2. /\ first'[s] = first[s] /\ index'[s] = index[s]
            /\ dropped'[s] = IF Full(queue[s]) THEN dropped[s] + 1 ELSE dropped[s]
        BY <1>5, <2>1, <2>4
      <4> QED
        BY ONLY <4>1, <4>2
    <3> HIDE DEF b
    <3>5. CASE Full(queue[s])
      <4>1. queue'[s] = q /\ Len(q) = Len(queue[s])
        BY <1>3, <1>5, <2>1, <2>4, <3>5
      <4>2. ASSUME NEW i \in 1..Len(q) PROVE q[i] = b + 1 + i - 1
        <5>1. CASE i = Len(q)
          <6>1. q[i] = b + i /\ b \in Nat /\ i \in Nat
            BY <1>3, <3>2, <3>3, <4>1, <5>1
          <6> QED
            BY ONLY <6>1
        <5>2. CASE i # Len(q)
          <6>1. i \in 1..(Len(queue[s]) - 1) /\ i + 1 \in 1..Len(queue[s])
            BY <3>2, <4>1, <5>2
          <6> QED
            BY <1>3, <3>2, <3>3, <3>5, <6>1
        <5> QED
          BY <5>1, <5>2
      <4>3. b + 1 + Len(q) = total + 1
        <5>1. b + Len(q) = total
          BY <3>3, <4>1
        <5>2. b \in Nat /\ Len(q) \in Nat
          BY <3>2, <4>1
        <5> QED
          BY ONLY <5>1, <5>2
      <4> QED
        BY <2>4, <3>1, <3>4, <3>5, <4>1, <4>2, <4>3
    <3>6. CASE ~Full(queue[s])
      <4>1. queue'[s] = q /\ Len(q) = Len(queue[s]) + 1
        BY <1>3, <1>5, <2>1, <2>4, <3>6
      <4>2. ASSUME NEW i \in 1..Len(q) PROVE q[i] = b + i - 1
        <5>1. CASE i = Len(q)
          BY <1>3, <3>2, <3>3, <4>1, <5>1
        <5>2. CASE i # Len(q)
          <6>1. i \in 1..Len(queue[s])
            BY <3>2, <4>1, <5>2
          <6> QED
            BY <1>3, <3>3, <3>6, <6>1
        <5> QED
          BY <5>1, <5>2
      <4>3. b + Len(q) = total + 1
        BY <3>2, <3>3, <4>1
      <4> QED
        BY <2>4, <3>1, <3>4, <3>6, <4>1, <4>2, <4>3
    <3> QED
      BY <3>5, <3>6
  <2> QED
    BY <2>3, <2>4
<1> QED
  BY <1>6, <1>7, <1>8

(* Opening a stream: the first tick it is owed is the first that Publish   *)
(* will queue for it.                                                      *)
LEMMA SubscribeInv ==
  ASSUME Inv, NEW s \in Subs, Subscribe(s)
  PROVE  Inv'
<1> USE DEF Inv
<1>1. TypeOK'
  <2>1. first' \in [Subs -> 0..(MaxTotal + 1)]
    <3>1. total \in 0..(MaxTotal + 1) /\ total + 1 \in 0..(MaxTotal + 1)
      BY MaxTotalAssumption DEF TypeOK
    <3> QED
      BY <3>1 DEF Subscribe, TypeOK
  <2> QED
    BY <2>1 DEF Subscribe, TypeOK, pubVars
<1>2. Stages'
  BY DEF Subscribe, TypeOK, Stages, Held, pubVars
<1>3. Conservation'
  <2> SUFFICES ASSUME NEW t \in Subs, Held(t)'
               PROVE  /\ first'[t] + index'[t] + dropped'[t] + Len(queue'[t]) = Delivered(t)' + 1
                      /\ \A i \in 1..Len(queue'[t]) :
                           queue'[t][i] = first'[t] + index'[t] + dropped'[t] + i - 1
    BY DEF Conservation
  <2>1. /\ index'[t] = index[t] /\ dropped'[t] = dropped[t] /\ queue'[t] = queue[t]
        /\ Delivered(t)' = Delivered(t)
    BY DEF Subscribe, pubVars, Delivered, Owed
  <2>2. CASE t # s
    <3>1. Held(t) /\ first'[t] = first[t]
      BY <2>2 DEF Subscribe, Held, TypeOK
    <3> QED
      BY <2>1, <3>1 DEF Conservation
  <2>3. CASE t = s
    <3>1. index[s] = 0 /\ dropped[s] = 0 /\ queue[s] = << >> /\ s \notin pending
      BY DEF Subscribe, Stages, TypeOK
    <3>2. first'[s] = Delivered(s) + 1 /\ Delivered(s) + 1 \in Nat
      BY <3>1, MaxTotalAssumption DEF Subscribe, Delivered, Owed, TypeOK
    <3>3. Len(queue'[s]) = 0
      BY <2>1, <2>3, <3>1
    <3> QED
      BY <2>1, <2>3, <3>1, <3>2, <3>3
  <2> QED
    BY <2>2, <2>3
<1> QED
  BY <1>1, <1>2, <1>3

(* Popping moves the head of the queue into the count of popped samples.   *)
LEMMA PopInv ==
  ASSUME Inv, NEW s \in Subs, PopSample(s)
  PROVE  Inv'
<1> USE DEF Inv
<1>1. queue[s] \in Seq(Ticks) /\ queue[s] # << >>
  BY DEF PopSample, TypeOK
<1>2. /\ Head(queue[s]) \in Ticks
      /\ Tail(queue[s]) \in Seq(Ticks)
      /\ Len(Tail(queue[s])) = Len(queue[s]) - 1
      /\ \A i \in 1..Len(Tail(queue[s])) : Tail(queue[s])[i] = queue[s][i + 1]
  BY <1>1, HeadTailProperties
<1>7. Len(queue[s]) \in Nat /\ Len(Tail(queue[s])) \in Nat
  BY <1>1, <1>2
<1>3. TypeOK'
  <2>1. Len(Tail(queue[s])) <= QueueCapacity
    BY <1>2, <1>7, QueueCapacityAssumption DEF TypeOK
  <2>2. queue' \in [Subs -> Seq(Ticks)] /\ \A t \in Subs : Len(queue'[t]) <= QueueCapacity
    BY <1>2, <2>1 DEF PopSample, TypeOK
  <2>3. sample' \in [Subs -> Ticks] /\ index' \in [Subs -> Nat]
    BY <1>2 DEF PopSample, TypeOK
  <2>4. pc' \in [Subs -> {"new", "check", "pop", "write", "close", "done"}]
    BY DEF PopSample, TypeOK
  <2> QED
    BY <2>2, <2>3, <2>4 DEF PopSample, TypeOK, pubVars
<1>4. /\ \A t \in Subs \ {s} : /\ queue'[t] = queue[t] /\ index'[t] = index[t]
                              /\ pc'[t] = pc[t]
      /\ queue'[s] = Tail(queue[s]) /\ index'[s] = index[s] + 1
      /\ pc[s] = "pop" /\ pc'[s] \in {"write", "check"}
      /\ UNCHANGED <<pubVars, registered, closed, first, dropped>>
  BY DEF PopSample, TypeOK
<1>5. Stages'
  BY <1>4 DEF Stages, Held, pubVars
<1>6. Conservation'
  <2> SUFFICES ASSUME NEW t \in Subs, Held(t)'
               PROVE  /\ first'[t] + index'[t] + dropped'[t] + Len(queue'[t]) = Delivered(t)' + 1
                      /\ \A i \in 1..Len(queue'[t]) :
                           queue'[t][i] = first'[t] + index'[t] + dropped'[t] + i - 1
    BY DEF Conservation
  <2>1. /\ first'[t] = first[t] /\ dropped'[t] = dropped[t] /\ Delivered(t)' = Delivered(t)
        /\ Held(t)
    BY <1>4 DEF pubVars, Delivered, Owed, Held
  <2>2. CASE t # s
    BY <1>4, <2>1, <2>2 DEF Conservation
  <2>3. CASE t = s
    <3> DEFINE b == first[s] + index[s] + dropped[s]
    <3>1. b \in Nat /\ b + 1 = first'[s] + index'[s] + dropped'[s]
      <4>1. first[s] \in Nat /\ index[s] \in Nat /\ dropped[s] \in Nat
        BY MaxTotalAssumption DEF TypeOK
      <4>2. first'[s] = first[s] /\ index'[s] = index[s] + 1 /\ dropped'[s] = dropped[s]
        BY <1>4, <2>1, <2>3
      <4> QED
        BY ONLY <4>1, <4>2
    <3>2. /\ b + Len(queue[s]) = Delivered(s) + 1
          /\ \A i \in 1..Len(queue[s]) : queue[s][i] = b + i - 1
      BY <2>1, <2>3 DEF Conservation
    <3> HIDE DEF b
    <3>3. b + 1 + Len(queue'[s]) = Delivered(s) + 1
      <4>1. b + 1 + Len(Tail(queue[s])) = b + Len(queue[s])
        <5>1. /\ b \in Nat /\ Len(queue[s]) \in Nat
              /\ Len(Tail(queue[s])) = Len(queue[s]) - 1
          BY <1>2, <1>7, <3>1
        <5>2. \A c, n \in Nat : \A m : m = n - 1 => c + 1 + m = c + n
          OBVIOUS
        <5> QED
          BY ONLY <5>1, <5>2, Zenon
      <4> QED
        BY <1>4, <3>2, <4>1
    <3>4. ASSUME NEW i \in 1..Len(queue'[s]) PROVE queue'[s][i] = b + 1 + i - 1
      <4>1. i + 1 \in 1..Len(queue[s]) /\ i \in Nat
        BY <1>2, <1>7, <1>4
      <4>2. queue'[s][i] = b + (i + 1) - 1
        BY <1>2, <1>4, <3>2, <4>1
      <4> QED
        BY ONLY <3>1, <4>1, <4>2
    <3> QED
      BY <2>1, <2>3, <3>1, <3>3, <3>4
  <2> QED
    BY <2>2, <2>3
<1> QED
  BY <1>3, <1>5, <1>6

(* The other steps of a handler and of its client leave the queue alone.   *)
LEMMA HandlerInv ==
  ASSUME Inv, NEW s \in Subs,
         \/ CheckCancelled(s) \/ PopTimeout(s) \/ WriteOk(s) \/ WriteFails(s)
         \/ Close(s) \/ ClientCancels(s)
  PROVE  Inv'
<1> USE DEF Inv
<1>1. UNCHANGED <<pubVars, registered, queue, index, first, dropped>>
  BY DEF CheckCancelled, PopTimeout, WriteOk, WriteFails, Close, ClientCancels, handlerVars
<1>2. /\ \A t \in Subs : Held(t)' => Held(t) /\ closed'[t] = closed[t]
      /\ \A t \in Subs : pc'[t] = "new" => pc[t] = "new" /\ closed'[t] = closed[t]
  BY DEF CheckCancelled, PopTimeout, WriteOk, WriteFails, Close, ClientCancels,
         handlerVars, Held, TypeOK
<1>3. TypeOK'
  <2>1. pc' \in [Subs -> {"new", "check", "pop", "write", "close", "done"}]
    BY DEF CheckCancelled, PopTimeout, WriteOk, WriteFails, Close, ClientCancels,
           handlerVars, TypeOK
  <2>2. sample' \in [Subs -> Ticks] /\ lastSent' \in [Subs -> Ticks]
    BY DEF CheckCancelled, PopTimeout, WriteOk, WriteFails, Close, ClientCancels,
           handlerVars, TypeOK
  <2>3. closed' \in [Subs -> BOOLEAN] /\ cancelled' \in [Subs -> BOOLEAN]
    BY Zenon DEF CheckCancelled, PopTimeout, WriteOk, WriteFails, Close, ClientCancels,
           handlerVars, TypeOK
  <2> QED
    BY <1>1, <2>1, <2>2, <2>3 DEF TypeOK, pubVars
<1>4. Stages'
  BY <1>1, <1>2 DEF Stages, pubVars
<1>5. Conservation'
  <2>1. \A t \in Subs : Delivered(t)' = Delivered(t)
    BY <1>1 DEF Delivered, Owed, pubVars
  <2> QED
    BY <1>1, <1>2, <2>1 DEF Conservation
<1> QED
  BY <1>3, <1>4, <1>5

(* Every step of the hub, of a handler or of a client keeps the invariant. *)
LEMMA NextInv == Inv /\ [Next]_vars => Inv'
<1> SUFFICES ASSUME Inv, [Next]_vars PROVE Inv'
  OBVIOUS
<1>1. CASE Publisher
  BY <1>1, PublisherInv, DeliverInv DEF Publisher
<1>2. ASSUME NEW s \in Subs, Subscribe(s) \/ Handler(s) \/ WriteOk(s) \/ ClientCancels(s)
      PROVE  Inv'
  BY <1>2, SubscribeInv, PopInv, HandlerInv DEF Handler
<1>3. CASE UNCHANGED vars
  BY <1>3 DEF Inv, TypeOK, Stages, Conservation, Held, Delivered, Owed,
              vars, pubVars, handlerVars
<1> QED
  BY <1>1, <1>2, <1>3 DEF Next

(* Every state of the service keeps its queues and its history within      *)
(* their capacities, whatever the clients do.                              *)
THEOREM TypeCorrect == Spec => []TypeOK
  BY InitInv, NextInv, PTL DEF Spec, Inv

(* No sample is lost, repeated or reordered on its way from Publish to     *)
(* Pop, other than by the drops of a full queue: for every number of       *)
(* streams and every interleaving with Publish, Subscribe and Close.       *)
THEOREM ConservationHolds == Spec => []Conservation
  BY InitInv, NextInv, PTL DEF Spec, Inv

-----------------------------------------------------------------------------
(* The history holds the latest ticks, as many as it has room for, and no  *)
(* queue is ahead of it.                                                   *)
Retained ==
  /\ RingTypeOK
  /\ Len(Contents) = IF total < Cap THEN total ELSE Cap
  /\ \A i \in 1..Len(Contents) : Contents[i] = total - Len(Contents) + i
  /\ \A s \in Subs : \A i \in 1..Len(queue[s]) : queue[s][i] <= total

(* What no queue was ahead of, none is ahead of a tick later.              *)
LEMMA AheadOfNone ==
  ASSUME Inv, Retained
  PROVE  \A s \in Subs : \A i \in 1..Len(queue[s]) : queue[s][i] <= total + 1
<1> SUFFICES ASSUME NEW s \in Subs, NEW i \in 1..Len(queue[s])
             PROVE  queue[s][i] <= total + 1
  OBVIOUS
<1>1. queue[s] \in Seq(Ticks) /\ total \in Ticks
  BY DEF Inv, TypeOK
<1>2. queue[s][i] \in Ticks /\ queue[s][i] <= total
  BY <1>1, ElementOfSeq DEF Retained
<1> QED
  BY <1>1, <1>2, MaxTotalAssumption

(* The history after one more tick.                                        *)
LEMMA PushRetained ==
  ASSUME Inv, Retained, PublishHistory
  PROVE  Retained'
<1> DEFINE n == Len(Contents)
           h == Bounded!Pushed(Contents, total + 1)
<1>1. /\ Contents' = h /\ total' = total + 1 /\ queue' = queue
      /\ RingTypeOK' /\ total + 1 \in Ticks
  BY RingPushed DEF PublishHistory, Inv, TypeOK, Retained
<1>2. /\ Contents \in Seq(Ticks) /\ n \in Nat /\ total \in Nat /\ total + 1 \in Ticks
      /\ Cap \in Nat \ {0}
  BY <1>1, RingTypes, MaxTotalAssumption DEF Inv, TypeOK, Retained
<1>3. /\ n = IF total < Cap THEN total ELSE Cap
      /\ \A i \in 1..n : Contents[i] = total - n + i
  BY DEF Retained
<1>4. CASE n < Cap
  <2>1. h = Append(Contents, total + 1)
    BY <1>4 DEF Bounded!Pushed
  <2>2. /\ Len(h) = n + 1 /\ h[n + 1] = total + 1
        /\ \A i \in 1..n : h[i] = Contents[i]
    BY <1>2, <2>1, AppendProperties
  <2>3. total = n
    BY <1>2, <1>3, <1>4
  <2> HIDE DEF h, n
  <2>4. ASSUME NEW i \in 1..Len(h) PROVE h[i] = total + 1 - Len(h) + i
    <3>1. CASE i = n + 1
      BY <1>2, <2>2, <3>1
    <3>2. CASE i # n + 1
      <4>1. i \in 1..n
        BY <1>2, <2>2, <3>2
      <4>2. h[i] = total - n + i
        BY <1>3, <2>2, <4>1
      <4> QED
        BY <1>2, <2>2, <4>1, <4>2
    <3> QED
      BY <3>1, <3>2
  <2>5. Len(h) = IF total + 1 < Cap THEN total + 1 ELSE Cap
    BY <1>2, <1>4, <2>2, <2>3
  <2> QED
    BY <1>1, <1>2, <2>4, <2>5, AheadOfNone DEF Retained
<1>5. CASE ~(n < Cap)
  <2>1. n = Cap /\ ~(total < Cap) /\ Contents # << >>
    BY <1>2, <1>3, <1>5
  <2>2. h = Append(Tail(Contents), total + 1)
    BY <1>5 DEF Bounded!Pushed
  <2>3. /\ Tail(Contents) \in Seq(Ticks) /\ Len(Tail(Contents)) = n - 1
        /\ \A i \in 1..(n - 1) : Tail(Contents)[i] = Contents[i + 1]
    BY <1>2, <2>1, HeadTailProperties
  <2>4. /\ Len(h) = (n - 1) + 1 /\ h[(n - 1) + 1] = total + 1
        /\ \A i \in 1..(n - 1) : h[i] = Tail(Contents)[i]
    BY <1>2, <2>2, <2>3, AppendProperties
  <2> HIDE DEF h, n
  <2>5. ASSUME NEW i \in 1..Len(h) PROVE h[i] = total + 1 - Len(h) + i
    <3>1. CASE i = n
      BY <1>2, <2>4, <3>1
    <3>2. CASE i # n
      <4>1. i \in 1..(n - 1) /\ i + 1 \in 1..n
        BY <1>2, <2>4, <3>2
      <4>2. h[i] = Contents[i + 1]
        BY <2>3, <2>4, <4>1
      <4>3. h[i] = total - n + (i + 1)
        BY <1>3, <4>1, <4>2
      <4> QED
        BY <1>2, <2>4, <4>1, <4>3
    <3> QED
      BY <3>1, <3>2
  <2>6. Len(h) = IF total + 1 < Cap THEN total + 1 ELSE Cap
    BY <1>2, <2>1, <2>4
  <2> QED
    BY <1>1, <1>2, <2>5, <2>6, AheadOfNone DEF Retained
<1> QED
  BY <1>4, <1>5

(* Every step keeps the history complete and the queues behind it.         *)
LEMMA RetainedNext ==
  ASSUME Inv, Retained, [Next]_vars
  PROVE  Retained'
<1>1. CASE PublishHistory
  BY <1>1, PushRetained
<1>2. ASSUME NEW s \in Subs, Deliver(s) PROVE Retained'
  <2>1. UNCHANGED <<Contents, total>> /\ RingTypeOK'
    BY <1>2, SameRing DEF Deliver, Retained
  <2>2. ASSUME NEW t \in Subs, NEW i \in 1..Len(queue'[t]) PROVE queue'[t][i] <= total
    <3>1. CASE t # s \/ closed[s]
      <4>1. queue'[t] = queue[t]
        BY <1>2, <3>1 DEF Deliver, Inv, TypeOK
      <4> QED
        BY <2>2, <4>1 DEF Retained
    <3>2. CASE t = s /\ ~closed[s]
      <4> DEFINE q == Enqueue(queue[s], total)
      <4>1. queue'[t] = q
        BY <1>2, <3>2 DEF Deliver, Inv, TypeOK
      <4>2. /\ queue[s] \in Seq(Ticks) /\ Len(queue[s]) <= QueueCapacity /\ total \in Ticks
            /\ Len(queue[s]) \in Nat /\ total \in Nat
        BY MaxTotalAssumption DEF Inv, TypeOK
      <4>3. /\ Len(q) = IF Full(queue[s]) THEN Len(queue[s]) ELSE Len(queue[s]) + 1
            /\ q[Len(q)] = total
            /\ ~Full(queue[s]) => \A j \in 1..Len(queue[s]) : q[j] = queue[s][j]
            /\ Full(queue[s]) => \A j \in 1..(Len(queue[s]) - 1) : q[j] = queue[s][j + 1]
        BY <4>2, EnqueueType
      <4> HIDE DEF q
      <4>4. \A j \in 1..Len(queue[s]) : queue[s][j] <= total
        BY DEF Retained
      <4>5. CASE i = Len(q)
        BY <4>1, <4>2, <4>3, <4>5
      <4>6. CASE i # Len(q) /\ Full(queue[s])
        <5>1. i \in 1..(Len(queue[s]) - 1) /\ i + 1 \in 1..Len(queue[s])
          BY <2>2, <4>1, <4>2, <4>3, <4>6
        <5> QED
          BY <4>1, <4>3, <4>4, <4>6, <5>1
      <4>7. CASE i # Len(q) /\ ~Full(queue[s])
        <5>1. i \in 1..Len(queue[s])
          BY <2>2, <4>1, <4>2, <4>3, <4>7
        <5> QED
          BY <4>1, <4>3, <4>4, <4>7, <5>1
      <4> QED
        BY <4>5, <4>6, <4>7
    <3> QED
      BY <3>1, <3>2
  <2> QED
    BY <2>1, <2>2 DEF Retained
<1>3. ASSUME NEW s \in Subs, PopSample(s) PROVE Retained'
  <2>1. /\ UNCHANGED <<Contents, total>> /\ RingTypeOK'
        /\ queue' = [queue EXCEPT ![s] = Tail(queue[s])]
    BY <1>3, SameRing DEF PopSample, pubVars, Retained
  <2>2. queue[s] \in Seq(Ticks) /\ queue[s] # << >>
    BY <1>3 DEF PopSample, Inv, TypeOK
  <2>3. /\ Len(Tail(queue[s])) = Len(queue[s]) - 1 /\ Len(queue[s]) \in Nat
        /\ \A i \in 1..Len(Tail(queue[s])) : Tail(queue[s])[i] = queue[s][i + 1]
    BY <2>2, HeadTailProperties
  <2>4. ASSUME NEW t \in Subs, NEW i \in 1..Len(queue'[t]) PROVE queue'[t][i] <= total
    <3>1. CASE t # s
      <4>1. queue'[t] = queue[t]
        BY <2>1, <3>1 DEF Inv, TypeOK
      <4> QED
        BY <2>4, <4>1 DEF Retained
    <3>2. CASE t = s
      <4>1. queue'[t] = Tail(queue[s])
        BY <2>1, <3>2 DEF Inv, TypeOK
      <4>2. i + 1 \in 1..Len(queue[s])
        BY <2>3, <2>4, <4>1
      <4> QED
        BY <2>3, <2>4, <4>1, <4>2 DEF Retained
    <3> QED
      BY <3>1, <3>2
  <2> QED
    BY <2>1, <2>4 DEF Retained
<1>4. CASE PublishCollect \/ PublishReturn
  BY <1>4, SameRing DEF PublishCollect, PublishReturn, Retained
<1>5. ASSUME NEW s \in Subs,
             \/ Subscribe(s) \/ CheckCancelled(s) \/ PopTimeout(s) \/ WriteOk(s) \/ WriteFails(s)
             \/ Close(s) \/ ClientCancels(s)
      PROVE  Retained'
  <2>1. UNCHANGED <<Contents, total, queue>> /\ RingTypeOK'
    BY <1>5, SameRing DEF Retained, Subscribe, CheckCancelled, PopTimeout, WriteOk, WriteFails, Close, ClientCancels,
                pubVars
  <2> QED
    BY <2>1 DEF Retained
<1>6. CASE UNCHANGED vars
  BY <1>6, SameRing DEF vars, pubVars, Retained
<1> QED
  BY <1>1, <1>2, <1>3, <1>4, <1>5, <1>6 DEF Next, Publisher, Handler

(* GetHistory answers every seconds argument with the latest ticks, and    *)
(* every tick a stream can see is in the history first: for every capacity *)
(* and however Publish interleaves with the handlers.                      *)
THEOREM HistoryIsComplete == Spec => []HistoryComplete
<1>1. Init => Inv /\ Retained
  <2>1. Init => Retained
    <3> SUFFICES ASSUME Init PROVE Retained
      OBVIOUS
    <3>1. RingTypeOK /\ buf = << >> /\ total = 0
      BY CapPositive DEF Init, RingInit, RingTypeOK
    <3>2. Len(Contents) = 0
      BY <3>1, RingTypes
    <3> QED
      BY <3>1, <3>2, CapPositive DEF Init, Retained
  <2> QED
    BY <2>1, InitInv
<1>2. Inv /\ Retained /\ [Next]_vars => (Inv /\ Retained)'
  BY NextInv, RetainedNext
<1>3. Inv /\ Retained => HistoryComplete
  <2> SUFFICES ASSUME Inv, Retained, NEW seconds \in -1..(Cap + 1)
               PROVE  LET k == Clamp(seconds, 0, MinNat(total, Cap))
                      IN  History(seconds) = [i \in 1..k |-> total - k + i]
    BY DEF HistoryComplete, Retained
  <2> DEFINE n == Len(Contents)
             k == Clamp(seconds, 0, n)
  <2>1. /\ Contents \in Seq(Ticks) /\ n \in Nat /\ total \in Nat /\ seconds \in Int
        /\ Cap \in Nat \ {0} /\ n <= Cap /\ Len(buf) = n
    BY RingTypes, MaxTotalAssumption DEF Inv, TypeOK, Retained
  <2>2. /\ n = IF total < Cap THEN total ELSE Cap
        /\ \A i \in 1..n : Contents[i] = total - n + i
    BY DEF Retained
  <2>3. /\ MinNat(Clamp(seconds, 0, Cap), n) = k /\ k \in 0..n
        /\ Clamp(seconds, 0, Cap) \in 0..(Cap + 1)
    <3> HIDE DEF n
    <3> QED
      BY <2>1 DEF Clamp, MinNat
  <2>4. History(seconds) = SubSeq(Contents, n - k + 1, n)
    <3>1. LastNIsLatest
      BY LastNLatest DEF Retained
    <3> QED
      BY <2>1, <2>3, <3>1 DEF History, LastNIsLatest, Bounded!Latest
  <2> HIDE DEF k
  <2>5. ASSUME NEW i \in 1..k
        PROVE  n - k + i \in 1..n /\ (n - k + 1) + i - 1 = n - k + i
               /\ total - n + (n - k + i) = total - k + i
    <3> HIDE DEF n
    <3> QED
      BY <2>1, <2>3
  <2>6. n - (n - k + 1) + 1 = k
    BY <2>1, <2>3
  <2>7. SubSeq(Contents, n - k + 1, n) = [i \in 1..k |-> Contents[n - k + i]]
    BY <2>1, <2>3, <2>5, <2>6, SMTT(30)
  <2>8. [i \in 1..k |-> Contents[n - k + i]] = [i \in 1..k |-> total - k + i]
    BY <2>2, <2>5
  <2>9. MinNat(total, Cap) = n
    BY <2>1, <2>2 DEF MinNat
  <2> QED
    BY <2>4, <2>7, <2>8, <2>9 DEF k
<1> QED
  BY <1>1, <1>2, <1>3, PTL DEF Spec

(* In the hub too, history_ only ever changes by the Push of a ring: what  *)
(* RingBufferProofs shows of the ring holds of it.                         *)
THEOREM HubHistoryIsBounded == Spec => ImplementsHistory
<1>1. Init => RingInit
  BY DEF Init
<1>2. Inv /\ [Next]_vars => [RingNext]_ringVars
  <2> SUFFICES ASSUME Inv, [Next]_vars PROVE RingNext \/ UNCHANGED ringVars
    OBVIOUS
  <2>1. CASE PublishHistory
    <3>1. Push(total + 1) /\ total < MaxTotal /\ total \in Ticks
      BY <2>1 DEF PublishHistory, Push, Inv, TypeOK
    <3>2. total + 1 \in Value
      BY <3>1, ValueAssumption, MaxTotalAssumption
    <3> QED
      BY <3>1, <3>2 DEF RingNext
  <2>2. CASE PublishCollect \/ PublishReturn \/ UNCHANGED vars
    BY <2>2 DEF PublishCollect, PublishReturn, vars, pubVars
  <2>3. ASSUME NEW s \in Subs,
               \/ Deliver(s) \/ Subscribe(s) \/ Handler(s) \/ WriteOk(s) \/ ClientCancels(s)
        PROVE  UNCHANGED ringVars
    BY <2>3 DEF Deliver, Subscribe, Handler, CheckCancelled, PopTimeout, PopSample, WriteOk,
                WriteFails, Close, ClientCancels, pubVars
  <2> QED
    BY <2>1, <2>2, <2>3 DEF Next, Publisher
<1>3. Spec => RingSpec
  BY <1>1, <1>2, InitInv, NextInv, PTL DEF Spec, RingSpec
<1> QED
  BY <1>3, RingImplementsHistory, PTL

-----------------------------------------------------------------------------
(* The tick that the next Pop of an open stream returns: all before it     *)
(* were popped or dropped.                                                 *)
NextTick(s) == first[s] + index[s] + dropped[s]

(* The samples popped since the last one that was due.                     *)
PassedOver(s) == (index[s] - 1) % Decimate(s)

(* b is at least d ticks after a, exactly d when the queue of s has        *)
(* dropped nothing.                                                        *)
Apart(s, a, d, b) == a + d <= b /\ (dropped[s] = 0 => b = a + d)

(* How far a handler is behind what it sent last: between two samples it   *)
(* has passed over as many as index says, and the sample about to be       *)
(* written is a whole decimation step after the last one.                  *)
PacedStream(s) ==
  /\ Held(s) => first[s] >= 1
  /\ pc[s] = "new" => lastSent[s] = 0
  /\ pc[s] \in {"check", "pop"} =>
       IF index[s] = 0
         THEN lastSent[s] = 0
         ELSE lastSent[s] # 0 /\ Apart(s, lastSent[s], PassedOver(s) + 1, NextTick(s))
  /\ pc[s] = "write" =>
       /\ index[s] > 0 /\ PassedOver(s) = 0
       /\ sample[s] # 0 /\ Apart(s, sample[s], 1, NextTick(s))
       /\ lastSent[s] = 0 => (dropped[s] = 0 => sample[s] = first[s])
       /\ lastSent[s] # 0 => Apart(s, lastSent[s], Decimate(s), sample[s])

Paced == \A s \in Subs : PacedStream(s)

(* Division of naturals: quotient and remainder.                           *)
LEMMA DivMod ==
  ASSUME NEW n \in Nat, NEW d \in Nat \ {0}
  PROVE  n = d * (n \div d) + (n % d) /\ n % d \in 0..(d - 1) /\ n \div d \in Nat
OBVIOUS

(* No other number will do for the remainder.                              *)
LEMMA Remainder ==
  ASSUME NEW d \in Nat \ {0}, NEW q \in Int, NEW r \in 0..(d - 1)
  PROVE  (d * q + r) % d = r
OBVIOUS

(* The remainder of the next number.                                       *)
LEMMA NextRemainder ==
  ASSUME NEW n \in Nat, NEW d \in Nat \ {0}
  PROVE  (n + 1) % d = IF n % d = d - 1 THEN 0 ELSE (n % d) + 1
<1> DEFINE q == n \div d
           r == n % d
<1>1. n = d * q + r /\ r \in 0..(d - 1) /\ q \in Nat
  BY DivMod
<1> HIDE DEF q, r
<1>2. CASE r = d - 1
  <2>1. n + 1 = d * (q + 1) + 0
    BY <1>1, <1>2
  <2>2. (d * (q + 1) + 0) % d = 0
    <3>1. q + 1 \in Int /\ 0 \in 0..(d - 1)
      BY <1>1
    <3> QED
      BY ONLY <3>1, Remainder
  <2>3. (n + 1) % d = 0
    BY <2>1, <2>2
  <2> QED
    BY <1>2, <2>3, Zenon DEF r
<1>3. CASE r # d - 1
  <2>1. n + 1 = d * q + (r + 1) /\ r + 1 \in 0..(d - 1)
    BY <1>1, <1>3
  <2>2. (d * q + (r + 1)) % d = r + 1
    <3>1. q \in Int
      BY <1>1
    <3> QED
      BY ONLY <2>1, <3>1, Remainder
  <2>3. (n + 1) % d = r + 1
    BY <2>1, <2>2
  <2> QED
    BY <1>3, <2>3, Zenon DEF r
<1> QED
  BY <1>2, <1>3

(* A quotient that is not zero.                                            *)
LEMMA Quotient ==
  ASSUME NEW a \in Nat, NEW b \in Nat \ {0}, a >= b
  PROVE  a \div b \in Nat \ {0}
OBVIOUS

(* Whatever rate a client asks for, some samples are sent.                 *)
LEMMA DecimateType ==
  ASSUME NEW s \in Subs
  PROVE  Decimate(s) \in Nat \ {0}
<1> DEFINE num == Hz[s][1]
           den == Hz[s][2]
<1>1. num \in Int /\ den \in Nat \ {0}
  BY HzAssumption
<1>2. Decimate(s) = IF num > 0 /\ num < den THEN (2 * den + num) \div (2 * num) ELSE 1
  BY DEF Decimate
<1> HIDE DEF num, den
<1>3. CASE num > 0 /\ num < den
  <2>1. 2 * den + num \in Nat /\ 2 * num \in Nat \ {0} /\ 2 * den + num >= 2 * num
    BY <1>1, <1>3
  <2> QED
    BY <1>2, <1>3, <2>1, Quotient
<1>4. CASE ~(num > 0 /\ num < den)
  BY <1>2, <1>4
<1> QED
  BY <1>3, <1>4

(* What the arithmetic below needs of the types.                           *)
LEMMA StreamTypes ==
  ASSUME Inv, NEW s \in Subs
  PROVE  /\ first[s] \in Nat /\ index[s] \in Nat /\ dropped[s] \in Nat /\ lastSent[s] \in Nat
         /\ sample[s] \in Nat /\ NextTick(s) \in Nat /\ total \in Nat
<1>1. /\ first[s] \in Nat /\ index[s] \in Nat /\ dropped[s] \in Nat /\ lastSent[s] \in Nat
      /\ sample[s] \in Nat /\ total \in Nat
  BY MaxTotalAssumption DEF Inv, TypeOK
<1> QED
  BY <1>1 DEF NextTick

(* A step that is no business of the stream.                               *)
LEMMA SamePace ==
  ASSUME NEW s \in Subs, PacedStream(s), pc'[s] = pc[s], first'[s] = first[s],
         index'[s] = index[s], dropped'[s] = dropped[s], lastSent'[s] = lastSent[s],
         sample'[s] = sample[s]
  PROVE  PacedStream(s)'
  BY DEF PacedStream, Held, Apart, PassedOver, NextTick

(* A drop only widens the gaps.                                            *)
LEMMA DropPace ==
  ASSUME Inv, NEW s \in Subs, PacedStream(s), pc'[s] = pc[s], first'[s] = first[s],
         index'[s] = index[s], dropped'[s] = dropped[s] + 1, lastSent'[s] = lastSent[s],
         sample'[s] = sample[s]
  PROVE  PacedStream(s)'
<1> DEFINE d == PassedOver(s)
           D == Decimate(s)
<1>1. /\ first[s] \in Nat /\ index[s] \in Nat /\ dropped[s] \in Nat /\ lastSent[s] \in Nat
      /\ sample[s] \in Nat /\ NextTick(s) \in Nat
  BY StreamTypes
<1>2. NextTick(s)' = NextTick(s) + 1 /\ dropped'[s] # 0
  BY <1>1 DEF NextTick
<1>3. PassedOver(s)' = d
  BY DEF PassedOver
<1>4. d \in Int /\ D \in Nat
  BY <1>1, DecimateType DEF PassedOver
<1> HIDE DEF d, D
<1>5. \A a, m \in Int : Apart(s, a, m, NextTick(s)) => Apart(s, a, m, NextTick(s))'
  BY <1>1, <1>2 DEF Apart
<1>6. Apart(s, lastSent[s], D, sample[s]) => Apart(s, lastSent[s], D, sample[s])'
  BY <1>2 DEF Apart
<1> QED
  BY <1>1, <1>2, <1>3, <1>4, <1>5, <1>6 DEF PacedStream, Held, d, D, Apart

(* Pop: the head of the queue is NextTick, and it is due exactly when a    *)
(* whole decimation step has been passed over.                             *)
LEMMA PopPace ==
  ASSUME Inv, NEW s \in Subs, PacedStream(s), PopSample(s)
  PROVE  PacedStream(s)'
<1> DEFINE n == index[s]
           D == Decimate(s)
           b == NextTick(s)
<1>1. /\ first[s] \in Nat /\ n \in Nat /\ dropped[s] \in Nat /\ lastSent[s] \in Nat /\ b \in Nat
      /\ D \in Nat \ {0}
  BY StreamTypes, DecimateType
<1>2. /\ pc[s] = "pop" /\ queue[s] # << >>
      /\ sample'[s] = Head(queue[s]) /\ index'[s] = n + 1
      /\ pc'[s] = IF n % D = 0 THEN "write" ELSE "check"
      /\ UNCHANGED <<lastSent, first, dropped>>
  BY DEF PopSample, Due, Inv, TypeOK
<1>3. sample'[s] = b
  <2>1. queue[s] \in Seq(Ticks) /\ Len(queue[s]) \in Nat /\ Len(queue[s]) # 0
    BY <1>2, EmptySeq DEF Inv, TypeOK
  <2>2. 1 \in 1..Len(queue[s]) /\ Head(queue[s]) = queue[s][1]
    BY <1>2, <2>1
  <2>3. queue[s][1] = b + 1 - 1
    BY <1>2, <2>2 DEF Inv, Conservation, Held, NextTick
  <2> HIDE DEF b
  <2> QED
    BY <1>1, <1>2, <2>2, <2>3
<1>4. NextTick(s)' = b + 1
  <2>1. first'[s] = first[s] /\ index'[s] = index[s] + 1 /\ dropped'[s] = dropped[s]
    BY <1>2
  <2>2. first[s] \in Nat /\ index[s] \in Nat /\ dropped[s] \in Nat
    BY <1>1
  <2> QED
    BY ONLY <2>1, <2>2 DEF NextTick
<1>5. first[s] >= 1 /\ b >= 1
  BY <1>1, <1>2 DEF PacedStream, Held, NextTick
<1>6. PassedOver(s)' = n % D
  <2>1. index'[s] - 1 = n
    BY <1>1, <1>2
  <2> QED
    BY <2>1 DEF PassedOver
<1>7. CASE n = 0
  <2>1. n % D = 0
    BY <1>1, <1>7, Remainder
  <2>2. lastSent[s] = 0 /\ (dropped[s] = 0 => b = first[s])
    BY <1>1, <1>2, <1>7 DEF PacedStream, NextTick
  <2> HIDE DEF n, D, b
  <2> QED
    BY <1>1, <1>2, <1>3, <1>4, <1>5, <1>6, <1>7, <2>1, <2>2 DEF PacedStream, Held, Apart
<1>8. CASE n # 0
  <2> DEFINE r == (n - 1) % D
  <2>1. n - 1 \in Nat /\ (n - 1) + 1 = n
    BY <1>1, <1>8
  <2>2. r \in 0..(D - 1)
    BY <1>1, <2>1, DivMod
  <2>3. n % D = IF r = D - 1 THEN 0 ELSE r + 1
    BY <1>1, <2>1, NextRemainder
  <2>4. lastSent[s] # 0 /\ Apart(s, lastSent[s], r + 1, b)
    BY <1>2, <1>8 DEF PacedStream, PassedOver
  <2> HIDE DEF n, D, b, r
  <2>5. CASE n % D = 0
    <3>1. r + 1 = D
      BY <1>1, <2>2, <2>3, <2>5
    <3>2. Apart(s, lastSent[s], D, b) /\ Apart(s, b, 1, b + 1)
      BY <1>1, <2>4, <3>1 DEF Apart
    <3> QED
      BY <1>1, <1>2, <1>3, <1>4, <1>5, <1>6, <2>4, <2>5, <3>2 DEF PacedStream, Held, Apart, D
  <2>6. CASE n % D # 0
    <3>1. PassedOver(s)' = r + 1
      BY <1>6, <2>3, <2>6
    <3>2. Apart(s, lastSent[s], r + 2, b + 1)
      BY <1>1, <2>2, <2>4 DEF Apart
    <3>3. Apart(s, lastSent[s], PassedOver(s) + 1, NextTick(s))'
      BY <1>1, <1>2, <1>4, <2>2, <3>1, <3>2 DEF Apart
    <3> QED
      BY <1>1, <1>2, <1>5, <2>4, <2>6, <3>3 DEF PacedStream, Held
  <2> QED
    BY <2>5, <2>6
<1> QED
  BY <1>7, <1>8

(* Every step keeps every stream's pace.                                   *)
LEMMA PacedNext ==
  ASSUME Inv, Paced, [Next]_vars
  PROVE  Paced'
<1> SUFFICES ASSUME NEW s \in Subs PROVE PacedStream(s)'
  BY DEF Paced
<1>1. PacedStream(s)
  BY DEF Paced
<1>2. CASE PublishHistory \/ PublishCollect \/ PublishReturn \/ UNCHANGED vars
  <2>1. UNCHANGED <<pc, sample, index, lastSent, first, dropped>>
    BY <1>2 DEF PublishHistory, PublishCollect, PublishReturn, vars, handlerVars
  <2> QED
    BY <1>1, <2>1, SamePace
<1>3. ASSUME NEW t \in Subs, Deliver(t) PROVE PacedStream(s)'
  <2>1. UNCHANGED <<pc, sample, index, lastSent, first>>
    BY <1>3 DEF Deliver, handlerVars
  <2>2. dropped'[s] = dropped[s] \/ dropped'[s] = dropped[s] + 1
    BY <1>3 DEF Deliver, Inv, TypeOK
  <2> QED
    BY <1>1, <2>1, <2>2, SamePace, DropPace
<1>4. ASSUME NEW t \in Subs, t # s,
             Subscribe(t) \/ Handler(t) \/ WriteOk(t) \/ ClientCancels(t)
      PROVE  PacedStream(s)'
  <2>1. /\ pc'[s] = pc[s] /\ sample'[s] = sample[s] /\ index'[s] = index[s]
        /\ lastSent'[s] = lastSent[s] /\ first'[s] = first[s] /\ dropped'[s] = dropped[s]
    BY <1>4 DEF Subscribe, Handler, CheckCancelled, PopTimeout, PopSample, WriteOk, WriteFails,
                Close, ClientCancels, handlerVars, Inv, TypeOK
  <2> QED
    BY <1>1, <2>1, SamePace
<1>5. CASE Subscribe(s)
  <2>1. /\ pc[s] = "new" /\ pc'[s] = "check" /\ UNCHANGED <<index, lastSent>>
        /\ first'[s] = IF pub = "pushed" THEN total ELSE total + 1
    BY <1>5 DEF Subscribe, Inv, TypeOK
  <2>2. index[s] = 0 /\ (pub = "pushed" => total > 0)
    BY <2>1 DEF Inv, Stages
  <2>3. total \in Nat
    BY StreamTypes
  <2>4. first'[s] >= 1
    BY <2>1, <2>2, <2>3
  <2> QED
    BY <1>1, <2>1, <2>2, <2>4 DEF PacedStream
<1>6. CASE CheckCancelled(s) \/ PopTimeout(s) \/ WriteFails(s) \/ Close(s) \/ ClientCancels(s)
  <2>1. UNCHANGED <<sample, index, lastSent, first, dropped>>
    BY <1>6 DEF CheckCancelled, PopTimeout, WriteFails, Close, ClientCancels, handlerVars
  <2>2. \/ pc'[s] = pc[s]
        \/ pc[s] \in {"check", "pop"} /\ pc'[s] \in {"check", "pop", "close"}
        \/ pc[s] = "write" /\ pc'[s] = "close"
        \/ pc[s] = "close" /\ pc'[s] = "done"
    BY <1>6 DEF CheckCancelled, PopTimeout, WriteFails, Close, ClientCancels, handlerVars,
                Inv, TypeOK
  <2> QED
    BY <1>1, <2>1, <2>2 DEF PacedStream, Held, Apart, PassedOver, NextTick
<1>7. CASE PopSample(s)
  BY <1>1, <1>7, PopPace
<1>8. CASE WriteOk(s)
  <2>1. /\ pc[s] = "write" /\ pc'[s] = "check" /\ lastSent'[s] = sample[s]
        /\ UNCHANGED <<sample, index, first, dropped>>
    BY <1>8 DEF WriteOk, Inv, TypeOK
  <2>2. /\ first[s] >= 1 /\ index[s] > 0 /\ PassedOver(s) = 0 /\ sample[s] # 0
        /\ Apart(s, sample[s], 1, NextTick(s))
    BY <1>1, <2>1 DEF PacedStream, Held
  <2>3. /\ PassedOver(s)' = 0 /\ NextTick(s)' = NextTick(s) /\ dropped'[s] = dropped[s]
        /\ index'[s] = index[s] /\ first'[s] = first[s] /\ index[s] \in Nat
    BY <2>1, <2>2, StreamTypes DEF PassedOver, NextTick
  <2>4. Apart(s, lastSent[s], PassedOver(s) + 1, NextTick(s))'
    BY <2>1, <2>2, <2>3 DEF Apart
  <2> QED
    BY <2>1, <2>2, <2>3, <2>4 DEF PacedStream
<1> QED
  BY <1>2, <1>3, <1>4, <1>5, <1>6, <1>7, <1>8 DEF Next, Publisher, Handler

(* Subscribe sends every Decimate-th tick in order and never closer than   *)
(* that, for every rate, queue capacity and interleaving: the step that    *)
(* sends a sample finds the gap that Paced keeps.                          *)
THEOREM PacingHolds == Spec => Pacing
<1>1. Init => Inv /\ Paced
  <2>1. Init => Paced
    BY DEF Init, Paced, PacedStream, Held
  <2> QED
    BY <2>1, InitInv
<1>2. Inv /\ Paced /\ [Next]_vars => (Inv /\ Paced)'
  BY NextInv, PacedNext
<1>3. ASSUME Inv, Paced, [Next]_vars, NEW s \in Subs, lastSent'[s] # lastSent[s]
      PROVE  /\ lastSent[s] # 0 => lastSent'[s] >= lastSent[s] + Decimate(s)
             /\ dropped[s] = 0 => lastSent'[s] = IF lastSent[s] = 0 THEN first[s]
                                                 ELSE lastSent[s] + Decimate(s)
  <2>1. WriteOk(s)
    <3>1. ASSUME NEW t \in Subs, Subscribe(t) \/ Handler(t) \/ ClientCancels(t) \/ Deliver(t)
          PROVE  FALSE
      <4>1. UNCHANGED lastSent
        BY <3>1 DEF Subscribe, Handler, CheckCancelled, PopTimeout, PopSample, WriteFails, Close,
                    ClientCancels, Deliver, handlerVars
      <4> QED
        BY <1>3, <4>1
    <3>2. ASSUME PublishHistory \/ PublishCollect \/ PublishReturn \/ UNCHANGED vars
          PROVE  FALSE
      <4>1. UNCHANGED lastSent
        BY <3>2 DEF PublishHistory, PublishCollect, PublishReturn, vars, handlerVars
      <4> QED
        BY <1>3, <4>1
    <3>3. ASSUME NEW t \in Subs, WriteOk(t) PROVE t = s
      BY <1>3, <3>3 DEF WriteOk, Inv, TypeOK
    <3>4. Next
      BY <1>3, <3>2
    <3>5. \E t \in Subs : WriteOk(t)
      BY <3>1, <3>2, <3>4 DEF Next, Publisher
    <3> QED
      BY <3>3, <3>5
  <2>2. pc[s] = "write" /\ lastSent'[s] = sample[s]
    <3>1. Subs = DOMAIN lastSent
      BY <1>3 DEF Inv, TypeOK
    <3> QED
      BY <2>1, <3>1 DEF WriteOk
  <2>3. /\ lastSent[s] = 0 => (dropped[s] = 0 => sample[s] = first[s])
        /\ lastSent[s] # 0 => Apart(s, lastSent[s], Decimate(s), sample[s])
    BY <1>3, <2>2 DEF Paced, PacedStream
  <2>4. lastSent[s] \in Nat /\ sample[s] \in Nat /\ Decimate(s) \in Nat
    BY <1>3, StreamTypes, DecimateType
  <2> QED
    BY <2>2, <2>3, <2>4 DEF Apart
<1>4. Inv /\ Paced /\ [Next]_vars =>
        [\A s \in Subs : lastSent'[s] # lastSent[s] =>
           /\ lastSent[s] # 0 => lastSent'[s] >= lastSent[s] + Decimate(s)
           /\ dropped[s] = 0 => lastSent'[s] = IF lastSent[s] = 0 THEN first[s]
                                               ELSE lastSent[s] + Decimate(s)]_vars
  BY <1>3
<1> QED
  BY <1>1, <1>2, <1>4, PTL DEF Spec, Pacing
=============================================================================
