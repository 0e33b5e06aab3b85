----------------------------- MODULE RingBuffer -----------------------------
(***************************************************************************)
(* core::RingBuffer<T> (libs/core/include/hwpanel/core/ring_buffer.h): the *)
(* circular vector behind the service's five minutes of telemetry history. *)
(* Every method holds the buffer's mutex for its whole body, so each one   *)
(* is a single step.  The vector buf_ is a sequence, its C++ index i being *)
(* the TLA+ index i + 1.  TelemetryHub extends this module: its history_   *)
(* is the ring.                                                            *)
(***************************************************************************)
EXTENDS Integers, Sequences

CONSTANTS Value,              \* the element type T
          RequestedCapacity,  \* the constructor's argument
          MaxTotal            \* bound: pushes since the last Clear

ASSUME RequestedCapacityAssumption == RequestedCapacity \in Nat
ASSUME MaxTotalAssumption == MaxTotal \in Nat

VARIABLES buf,    \* buf_
          head,   \* head_: index of the oldest element once the vector is full
          total   \* total_

ringVars == <<buf, head, total>>

(* The constructor never builds an empty ring.                             *)
Cap == IF RequestedCapacity = 0 THEN 1 ELSE RequestedCapacity

MinNat(a, b) == IF a <= b THEN a ELSE b

-----------------------------------------------------------------------------
RingInit == buf = << >> /\ head = 0 /\ total = 0

(* A Push that overwrites the oldest slot but leaves head_ where it was.   *)
PushForgetsHead(v) ==
  /\ total < MaxTotal
  /\ IF Len(buf) < Cap THEN buf' = Append(buf, v)
                       ELSE buf' = [buf EXCEPT ![head + 1] = v]
  /\ head' = head
  /\ total' = total + 1

(* A Push that grows the vector to one element more than the capacity.     *)
PushOffByOne(v) ==
  /\ total < MaxTotal
  /\ IF Len(buf) <= Cap
       THEN buf' = Append(buf, v) /\ head' = head
       ELSE /\ buf' = [buf EXCEPT ![head + 1] = v]
            /\ head' = (head + 1) % Cap
  /\ total' = total + 1

Push(v) ==
  /\ total < MaxTotal
  /\ IF Len(buf) < Cap
       THEN buf' = Append(buf, v) /\ head' = head
       ELSE /\ buf' = [buf EXCEPT ![head + 1] = v]
            /\ head' = (head + 1) % Cap
  /\ total' = total + 1

Clear == buf' = << >> /\ head' = 0 /\ total' = 0

RingNext == Clear \/ \E v \in Value : Push(v)

RingSpec == RingInit /\ [][RingNext]_ringVars

-----------------------------------------------------------------------------
(* LastN that starts at the front of the ring instead of size - count.     *)
LastNFromFront(n) ==
  LET count == MinNat(n, Len(buf))
  IN  [j \in 1..count |-> buf[((head + (j - 1)) % Cap) + 1]]

(* LastN(n): the loop index i runs from size - count to size - 1, and each *)
(* turn appends buf_[(head_ + i) % cap_].                                  *)
LastN(n) ==
  LET count == MinNat(n, Len(buf))
  IN  [j \in 1..count |-> buf[((head + (Len(buf) - count + j - 1)) % Cap) + 1]]

(* All() is LastN(Size()), under two separate locks: the size it passes    *)
(* may be stale, which is why LastNIsLatest is about every n.              *)
Contents == LastN(Len(buf))

-----------------------------------------------------------------------------
(* Type invariant: the vector never outgrows the capacity, and head_ only  *)
(* leaves 0 once the vector is full.                                       *)
RingTypeOK ==
  /\ buf \in Seq(Value)
  /\ Len(buf) <= Cap
  /\ head \in 0..(Cap - 1)
  /\ Len(buf) < Cap => head = 0
  /\ total \in Nat

Bounded == INSTANCE BoundedHistory WITH Capacity <- Cap, window <- Contents

(* The ring is a bounded history: read through LastN(Size()), it always    *)
(* holds exactly the Cap most recent pushes in the order they were made,   *)
(* however often head_ has wrapped around.                                 *)
ImplementsHistory == Bounded!Spec

(* A reader that asks for n values, with n larger or smaller than what is  *)
(* there (a stale Size() in All(), GetHistory's clamped seconds), gets the *)
(* most recent ones in chronological order.                                *)
LastNIsLatest ==
  \A n \in 0..(Cap + 1) :
    LastN(n) = Bounded!Latest(Contents, MinNat(n, Len(buf)))
=============================================================================
