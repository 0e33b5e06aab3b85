-------------------------- MODULE RingBufferProofs --------------------------
(***************************************************************************)
(* For every capacity and every element type: the circular vector of       *)
(* RingBuffer is well formed, and read through LastN it implements the     *)
(* bounded history that the rest of the service relies on.                 *)
(***************************************************************************)
EXTENDS RingBuffer, SequenceTheorems, TLAPS

(* The slot that (head_ + i) % cap_ selects, without the modulo.           *)
Slot(h, j) == IF h + j <= Cap THEN h + j ELSE h + j - Cap

(* The constructor's capacity is a positive number.                        *)
LEMMA CapPositive == Cap \in Nat /\ Cap > 0
  BY RequestedCapacityAssumption DEF Cap

(* Indices of the ring wrap at most once: head_ + i is below 2 * cap_.     *)
LEMMA Wrap ==
  ASSUME NEW a \in Nat, a < 2 * Cap
  PROVE  a % Cap = IF a < Cap THEN a ELSE a - Cap
  BY CapPositive

(* Push keeps the ring well formed, at the moment it wraps around too.     *)
LEMMA PushType ==
  ASSUME RingTypeOK, NEW v \in Value, Push(v)
  PROVE  RingTypeOK'
<1>1. CASE Len(buf) < Cap
  BY <1>1, CapPositive DEF Push, RingTypeOK
<1>2. CASE ~(Len(buf) < Cap)
  <2>1. head + 1 \in 1..Len(buf) /\ Len(buf) = Cap
    BY <1>2, CapPositive DEF RingTypeOK
  <2>2. (head + 1) % Cap \in 0..(Cap - 1)
    BY CapPositive, Wrap DEF RingTypeOK
  <2>3. buf' = [buf EXCEPT ![head + 1] = v] /\ buf \in Seq(Value)
    BY <1>2 DEF Push, RingTypeOK
  <2>4. buf' \in Seq(Value) /\ Len(buf') = Len(buf)
    BY <2>1, <2>3, ExceptSeq
  <2> QED
    BY <1>2, <2>1, <2>2, <2>4 DEF Push, RingTypeOK
<1> QED
  BY <1>1, <1>2

(* Every action of the ring keeps it well formed: the vector within its    *)
(* capacity, head_ inside the vector and 0 until the vector is full.       *)
THEOREM RingTypeCorrect == RingSpec => []RingTypeOK
<1>1. RingInit => RingTypeOK
  BY CapPositive DEF RingInit, RingTypeOK
<1>2. RingTypeOK /\ [RingNext]_ringVars => RingTypeOK'
  <2> SUFFICES ASSUME RingTypeOK, [RingNext]_ringVars PROVE RingTypeOK'
    OBVIOUS
  <2>1. CASE Clear
    BY <2>1, CapPositive DEF Clear, RingTypeOK
  <2>2. ASSUME NEW v \in Value, Push(v) PROVE RingTypeOK'
    BY <2>2, PushType
  <2>3. CASE UNCHANGED ringVars
    BY <2>3 DEF ringVars, RingTypeOK
  <2> QED
    BY <2>1, <2>2, <2>3 DEF RingNext
<1> QED
  BY <1>1, <1>2, PTL DEF RingSpec

(* What LastN(Size()) reads, slot by slot.                                 *)
ReadsSlots ==
  /\ Contents \in Seq(Value)
  /\ Len(Contents) = Len(buf)
  /\ \A j \in 1..Len(buf) : Contents[j] = buf[Slot(head, j)]

(* In a well-formed ring LastN(Size()) reads the slots in ring order.      *)
LEMMA ContentsSlots == RingTypeOK => ReadsSlots
<1> SUFFICES ASSUME RingTypeOK PROVE ReadsSlots
  OBVIOUS
<1>1. MinNat(Len(buf), Len(buf)) = Len(buf)
  BY DEF MinNat
<1>2. ASSUME NEW j \in 1..Len(buf)
      PROVE  ((head + (Len(buf) - Len(buf) + j - 1)) % Cap) + 1 = Slot(head, j)
  <2> DEFINE a == head + (Len(buf) - Len(buf) + j - 1)
  <2>1. a \in Nat /\ a = head + j - 1 /\ a < 2 * Cap
    BY CapPositive DEF RingTypeOK
  <2>2. a % Cap = IF a < Cap THEN a ELSE a - Cap
    BY ONLY <2>1, Wrap
  <2> HIDE DEF a
  <2>3. (a % Cap) + 1 = Slot(head, j)
    BY <2>1, <2>2, CapPositive DEF Slot, RingTypeOK
  <2> QED
    BY <2>3 DEF a
<1>3. Contents = [j \in 1..Len(buf) |-> buf[Slot(head, j)]]
  BY <1>1, <1>2 DEF Contents, LastN
<1>4. ASSUME NEW j \in 1..Len(buf) PROVE Slot(head, j) \in 1..Len(buf)
  BY CapPositive DEF Slot, RingTypeOK
<1>5. \A j \in 1..Len(buf) : buf[Slot(head, j)] \in Value
  BY <1>4, ElementOfSeq DEF RingTypeOK
<1>6. Len(buf) \in Nat
  BY DEF RingTypeOK
<1> QED
  BY <1>3, <1>5, <1>6, IsASeq DEF ReadsSlots

(* The slot of element j moves down by one when head_ advances, and the    *)
(* slot that was just overwritten becomes the last.                        *)
LEMMA SlotShift ==
  ASSUME NEW h \in 0..(Cap - 1), NEW j \in 1..Cap
  PROVE  /\ Slot(h, j) \in 1..Cap
         /\ j < Cap => /\ Slot((h + 1) % Cap, j) = Slot(h, j + 1)
                       /\ Slot((h + 1) % Cap, j) # h + 1
         /\ Slot((h + 1) % Cap, Cap) = h + 1
<1>1. (h + 1) % Cap = IF h + 1 < Cap THEN h + 1 ELSE h + 1 - Cap
  BY CapPositive, Wrap
<1> QED
  BY <1>1, CapPositive DEF Slot

(* A Push is the Push of the bounded history.                              *)
LEMMA PushRefines ==
  ASSUME RingTypeOK, RingTypeOK', NEW v \in Value, Push(v)
  PROVE  Bounded!Push(v)
<1> DEFINE after == Bounded!Pushed(Contents, v)
<1>0. ReadsSlots /\ ReadsSlots'
  BY ContentsSlots, PTL
<1>1. /\ Contents \in Seq(Value)
      /\ Len(Contents) = Len(buf)
      /\ \A j \in 1..Len(buf) : Contents[j] = buf[Slot(head, j)]
  BY <1>0 DEF ReadsSlots
<1>2. /\ Contents' \in Seq(Value)
      /\ Len(Contents') = Len(buf')
      /\ \A j \in 1..Len(buf') : Contents'[j] = buf'[Slot(head', j)]
  BY <1>0 DEF ReadsSlots
<1>3. CASE Len(buf) < Cap
  <2>1. buf' = Append(buf, v) /\ head' = 0 /\ head = 0 /\ Len(buf') = Len(buf) + 1
    BY <1>3, AppendProperties DEF Push, RingTypeOK
  <2>2. after = Append(Contents, v)
    BY <1>1, <1>3 DEF Bounded!Pushed
  <2>3. after \in Seq(Value) /\ Len(after) = Len(buf) + 1
    BY <1>1, <2>2, AppendProperties
  <2>4. ASSUME NEW j \in 1..Len(buf') PROVE Contents'[j] = after[j]
    <3>1. Slot(0, j) = j
      BY <2>1, <1>3, CapPositive DEF Slot, RingTypeOK
    <3>2. Contents'[j] = Append(buf, v)[j]
      BY <1>2, <2>1, <3>1
    <3>3. CASE j = Len(buf) + 1
      BY <1>1, <2>2, <3>2, <3>3, AppendProperties DEF RingTypeOK
    <3>4. CASE j \in 1..Len(buf)
      BY <1>1, <2>1, <2>2, <3>1, <3>2, <3>4, AppendProperties DEF RingTypeOK
    <3> QED
      BY <2>1, <3>3, <3>4 DEF RingTypeOK
  <2> HIDE DEF after
  <2>5. Contents' = after
    BY <1>2, <2>1, <2>3, <2>4, SeqEqual
  <2> QED
    BY <2>5 DEF after, Bounded!Push, Push
<1>4. CASE ~(Len(buf) < Cap)
  <2>1. /\ Len(buf) = Cap
        /\ head \in 0..(Cap - 1)
        /\ head + 1 \in 1..Len(buf)
        /\ buf' = [buf EXCEPT ![head + 1] = v]
        /\ head' = (head + 1) % Cap
    BY <1>4, CapPositive DEF Push, RingTypeOK
  <2>2. /\ Len(buf') = Cap
        /\ \A j \in 1..Cap : buf'[j] = IF j = head + 1 THEN v ELSE buf[j]
    BY <2>1, ExceptSeq DEF RingTypeOK
  <2>3. after = Append(Tail(Contents), v)
    BY <1>1, <1>4, <2>1 DEF Bounded!Pushed
  <2>4. /\ Tail(Contents) \in Seq(Value)
        /\ Len(Tail(Contents)) = Cap - 1
        /\ \A j \in 1..(Cap - 1) : Tail(Contents)[j] = Contents[j + 1]
    BY <1>1, <2>1, CapPositive, HeadTailProperties, EmptySeq
  <2>5. /\ after \in Seq(Value)
        /\ Len(after) = Cap
        /\ \A j \in 1..(Cap - 1) : after[j] = Contents[j + 1]
        /\ after[Cap] = v
    BY <2>3, <2>4, CapPositive, AppendProperties
  <2> HIDE DEF after
  <2>6. ASSUME NEW j \in 1..Cap PROVE Contents'[j] = after[j]
    <3>1. Contents'[j] = buf'[Slot(head', j)]
      BY <1>2, <2>2
    <3>2. CASE j = Cap
      <4>1. Slot(head', j) = head + 1
        BY <2>1, <3>2, SlotShift
      <4> QED
        BY <2>1, <2>2, <2>5, <3>1, <3>2, <4>1
    <3>3. CASE j # Cap
      <4>1. /\ Slot(head', j) = Slot(head, j + 1)
            /\ Slot(head', j) # head + 1
        <5>1. j < Cap
          BY <3>3, CapPositive
        <5> QED
          BY <2>1, <5>1, SlotShift
      <4>2. j \in 1..(Cap - 1) /\ j + 1 \in 1..Cap
        BY <3>3, CapPositive
      <4>3. Slot(head, j + 1) \in 1..Cap
        BY <2>1, <4>2, SlotShift
      <4>4. buf'[Slot(head', j)] = buf[Slot(head, j + 1)]
        BY <2>2, <4>1, <4>3
      <4>5. Contents[j + 1] = buf[Slot(head, j + 1)]
        BY <1>1, <2>1, <4>2
      <4> QED
        BY <2>5, <3>1, <4>2, <4>4, <4>5
    <3> QED
      BY <3>2, <3>3
  <2>7. Contents' = after
    BY <1>2, <2>2, <2>5, <2>6, SeqEqual
  <2> QED
    BY <2>7 DEF after, Bounded!Push, Push
<1> QED
  BY <1>3, <1>4

(* Read through LastN(Size()), the ring implements the bounded history:    *)
(* the Cap most recent pushes in order, for every capacity (a requested 0  *)
(* counts as 1) and any number of wrap-arounds.                            *)
THEOREM RingImplementsHistory == RingSpec => ImplementsHistory
<1>1. RingInit => Bounded!Init
  <2> SUFFICES ASSUME RingInit PROVE Bounded!Init
    OBVIOUS
  <2>1. RingTypeOK /\ buf = << >> /\ Len(buf) = 0
    BY CapPositive DEF RingInit, RingTypeOK
  <2>2. Contents \in Seq(Value) /\ Len(Contents) = 0
    BY <2>1, ContentsSlots DEF ReadsSlots
  <2> QED
    BY <2>2, EmptySeq DEF RingInit, Bounded!Init
<1>2. ASSUME RingTypeOK, RingTypeOK', [RingNext]_ringVars
      PROVE  [Bounded!Next]_<<Contents, total>>
  <2>1. CASE Clear
    <3>1. buf' = << >> /\ Len(buf') = 0 /\ total' = 0
      BY <2>1 DEF Clear
    <3>2. Contents' \in Seq(Value) /\ Len(Contents') = Len(buf')
      <4>1. ReadsSlots'
        BY <1>2, ContentsSlots, PTL
      <4> QED
        BY <4>1 DEF ReadsSlots
    <3>3. Contents' = << >>
      BY <3>1, <3>2, EmptySeq
    <3> QED
      BY <3>1, <3>3 DEF Bounded!Next, Bounded!Clear
  <2>2. ASSUME NEW v \in Value, Push(v) PROVE Bounded!Push(v)
    BY <1>2, <2>2, PushRefines
  <2>3. CASE UNCHANGED ringVars
    BY <2>3 DEF ringVars, Contents, LastN
  <2> QED
    BY <1>2, <2>1, <2>2, <2>3 DEF RingNext, Bounded!Next
<1> QED
  BY <1>1, <1>2, RingTypeCorrect, PTL DEF RingSpec, ImplementsHistory, Bounded!Spec

(* A well-formed ring answers every LastN(n) with its latest values.       *)
LEMMA LastNLatest == RingTypeOK => LastNIsLatest
<1>1. RingTypeOK => LastNIsLatest
  <2> SUFFICES ASSUME RingTypeOK, NEW n \in 0..(Cap + 1)
               PROVE  LastN(n) = Bounded!Latest(Contents, MinNat(n, Len(buf)))
    BY DEF LastNIsLatest
  <2> DEFINE c == MinNat(n, Len(buf))
  <2>1. c \in 0..Len(buf) /\ Len(buf) \in Nat
    BY CapPositive DEF MinNat, RingTypeOK
  <2>2. /\ Len(Contents) = Len(buf)
        /\ \A j \in 1..Len(buf) : Contents[j] = buf[Slot(head, j)]
    BY ContentsSlots DEF ReadsSlots
  <2>3. LastN(n) = [j \in 1..c |-> buf[((head + (Len(buf) - c + j - 1)) % Cap) + 1]]
    BY DEF LastN
  <2> HIDE DEF c
  <2>4. ASSUME NEW j \in 1..c
        PROVE  /\ ((head + (Len(buf) - c + j - 1)) % Cap) + 1
                     = Slot(head, Len(buf) - c + j)
               /\ Len(buf) - c + j \in 1..Len(buf)
    <3> DEFINE a == head + (Len(buf) - c + j - 1)
    <3>1. a \in Nat /\ a < 2 * Cap /\ a = head + (Len(buf) - c + j) - 1
      BY <2>1, CapPositive DEF RingTypeOK
    <3>2. a % Cap = IF a < Cap THEN a ELSE a - Cap
      BY ONLY <3>1, Wrap
    <3> HIDE DEF a
    <3>3. (a % Cap) + 1 = Slot(head, Len(buf) - c + j)
      BY <2>1, <3>1, <3>2, CapPositive DEF Slot, RingTypeOK
    <3> QED
      BY <2>1, <3>3 DEF a
  <2>5. LastN(n) = [j \in 1..c |-> Contents[Len(buf) - c + j]]
    BY <2>2, <2>3, <2>4
  <2>6. ASSUME NEW j \in 1..c
        PROVE  (Len(buf) - c + 1) + j - 1 = Len(buf) - c + j
    BY <2>1
  <2>7. Len(buf) - (Len(buf) - c + 1) + 1 = c
    BY <2>1
  <2>8. SubSeq(Contents, Len(buf) - c + 1, Len(buf))
          = [j \in 1..c |-> Contents[Len(buf) - c + j]]
    BY <2>1, <2>2, <2>6, <2>7, SMTT(30)
  <2> QED
    BY <2>2, <2>5, <2>8 DEF c, Bounded!Latest
<1> QED
  BY <1>1

(* Whatever count a reader passes to LastN, it gets that many of the most  *)
(* recent values (all of them when it asks for more), oldest first.        *)
THEOREM LastNCorrect == RingSpec => []LastNIsLatest
  BY LastNLatest, RingTypeCorrect, PTL
=============================================================================
