--------------------------- MODULE MsgRing_proofs ---------------------------
(***************************************************************************)
(* The ring of MsgQ is a FIFO queue: what Push, Front and Pop do to the    *)
(* slots, stated on Contents, for every MAX_MSG.                           *)
(***************************************************************************)
EXTENDS MsgRing, TLAPS

(* Remainders below and just above the modulus, the only two cases that    *)
(* the indices of the ring meet.                                           *)
LEMMA ModBelow ==
    ASSUME NEW n \in Nat \ {0}, NEW x \in 0 .. n - 1
    PROVE  x % n = x
OBVIOUS

LEMMA ModAbove ==
    ASSUME NEW n \in Nat \ {0}, NEW x \in n .. 2 * n - 1
    PROVE  x % n = x - n
OBVIOUS

(* The slot of every position is a slot of the array.                      *)
LEMMA SlotInSlots ==
    ASSUME NEW r \in MsgQ, NEW i \in 0 .. MAX_MSG
    PROVE  Slot(r, i) \in Slots
<1>1. r.head \in 0 .. MAX_MSG - 1
  BY DEF MsgQ, Slots
<1>2. CASE r.head + i < MAX_MSG
  BY <1>1, <1>2, ModBelow, RingAssumption DEF Slot, Slots
<1>3. CASE r.head + i >= MAX_MSG
  <2>1. r.head + i \in MAX_MSG .. 2 * MAX_MSG - 1
    BY <1>1, <1>3, RingAssumption
  <2>2. Slot(r, i) = r.head + i - MAX_MSG
    BY <1>1, <2>1, ModAbove, RingAssumption DEF Slot
  <2> QED BY <1>1, <1>3, <2>2, RingAssumption DEF Slots
<1> QED BY <1>1, <1>2, <1>3, RingAssumption

(* Two positions less than MAX_MSG apart never share a slot.               *)
LEMMA SlotInjective ==
    ASSUME NEW r \in MsgQ, NEW i \in 0 .. MAX_MSG - 1, NEW j \in 0 .. MAX_MSG - 1,
           Slot(r, i) = Slot(r, j)
    PROVE  i = j
<1>1. r.head \in 0 .. MAX_MSG - 1 /\ MAX_MSG \in Nat \ {0}
  BY RingAssumption DEF MsgQ, Slots
<1>2. \A k \in 0 .. MAX_MSG - 1 :
         Slot(r, k) = IF r.head + k < MAX_MSG THEN r.head + k ELSE r.head + k - MAX_MSG
  <2> SUFFICES ASSUME NEW k \in 0 .. MAX_MSG - 1
               PROVE  Slot(r, k) = IF r.head + k < MAX_MSG THEN r.head + k
                                   ELSE r.head + k - MAX_MSG
    OBVIOUS
  <2>1. CASE r.head + k < MAX_MSG
    <3>1. r.head + k \in 0 .. MAX_MSG - 1
      BY <1>1, <2>1
    <3> QED BY <2>1, <3>1, ModBelow, <1>1 DEF Slot
  <2>2. CASE r.head + k >= MAX_MSG
    <3>1. r.head + k \in MAX_MSG .. 2 * MAX_MSG - 1
      BY <1>1, <2>2
    <3> QED BY <1>1, <2>2, <3>1, ModAbove DEF Slot
  <2> QED BY <1>1, <2>1, <2>2
<1> QED BY <1>1, <1>2

(* SendMessage on a queue with room keeps the queue well formed and puts   *)
(* the message behind all the others.                                      *)
LEMMA PushAppends ==
    ASSUME NEW r \in MsgQ, NEW m \in Msgs, ~IsFull(r)
    PROVE  /\ Push(r, m) \in MsgQ
           /\ Contents(Push(r, m)) = Append(Contents(r), m)
<1> DEFINE p == Push(r, m)
<1>1. r.size \in 0 .. MAX_MSG - 1 /\ r.head \in Slots /\ MAX_MSG \in Nat \ {0}
  BY RingAssumption DEF MsgQ, IsFull
<1>2. Slot(r, r.size) \in Slots
  BY <1>1, SlotInSlots
<1>3. p = [q |-> [r.q EXCEPT ![Slot(r, r.size)] = m], head |-> r.head, size |-> r.size + 1]
  BY DEF Push
<1>4. p \in MsgQ
  BY <1>1, <1>2, <1>3 DEF MsgQ
<1>5. \A i \in 0 .. MAX_MSG : Slot(p, i) = Slot(r, i)
  BY <1>3 DEF Slot
<1>6. \A i \in 1 .. r.size : p.q[Slot(p, i - 1)] = r.q[Slot(r, i - 1)]
  <2> SUFFICES ASSUME NEW i \in 1 .. r.size
               PROVE  p.q[Slot(p, i - 1)] = r.q[Slot(r, i - 1)]
    OBVIOUS
  <2>1. i - 1 \in 0 .. MAX_MSG - 1 /\ i - 1 # r.size
    BY <1>1
  <2>2. Slot(r, i - 1) \in Slots /\ Slot(r, i - 1) # Slot(r, r.size)
    BY <1>1, <2>1, SlotInSlots, SlotInjective
  <2>3. r.q \in [Slots -> Msgs \cup {NoMsg}]
    BY DEF MsgQ
  <2> QED BY <1>1, <1>3, <1>5, <2>1, <2>2, <2>3
<1>7. p.q[Slot(p, r.size)] = m
  <2>1. r.q \in [Slots -> Msgs \cup {NoMsg}]
    BY DEF MsgQ
  <2> QED BY <1>1, <1>2, <1>3, <1>5, <2>1
<1>8. Contents(p) = [i \in 1 .. r.size + 1 |-> p.q[Slot(p, i - 1)]]
  BY <1>3 DEF Contents
<1>9. Append(Contents(r), m) = [i \in 1 .. r.size + 1 |-> IF i = r.size + 1 THEN m
                                                          ELSE r.q[Slot(r, i - 1)]]
  <2>1. \A i \in 1 .. r.size : r.q[Slot(r, i - 1)] \in Msgs \cup {NoMsg}
    BY <1>1, SlotInSlots DEF MsgQ
  <2>2. Contents(r) \in Seq(Msgs \cup {NoMsg}) /\ Len(Contents(r)) = r.size
    BY <1>1, <2>1 DEF Contents
  <2> QED BY <1>1, <2>2 DEF Contents
<1>10. \A i \in 1 .. r.size + 1 :
          p.q[Slot(p, i - 1)] = IF i = r.size + 1 THEN m ELSE r.q[Slot(r, i - 1)]
  BY <1>1, <1>6, <1>7
<1> QED BY <1>4, <1>8, <1>9, <1>10

(* PopMessage on a queue with a message takes the oldest one off it.       *)
LEMMA PopTakesOldest ==
    ASSUME NEW r \in MsgQ, r.size # 0
    PROVE  /\ Pop(r) \in MsgQ
           /\ Contents(r) # <<>>
           /\ Front(r) = Head(Contents(r))
           /\ Contents(Pop(r)) = Tail(Contents(r))
<1> DEFINE p == Pop(r)
<1>1. r.size \in 1 .. MAX_MSG /\ r.head \in 0 .. MAX_MSG - 1 /\ MAX_MSG \in Nat \ {0}
  BY RingAssumption DEF MsgQ, Slots
<1>2. (r.head + 1) % MAX_MSG \in Slots
  BY <1>1, SlotInSlots DEF Slot
<1>3. p = [q |-> r.q, head |-> (r.head + 1) % MAX_MSG, size |-> r.size - 1]
  BY DEF Pop
<1>4. p \in MsgQ
  BY <1>1, <1>2, <1>3 DEF MsgQ
<1>5. \A i \in 0 .. MAX_MSG - 1 : Slot(p, i) = Slot(r, i + 1)
  <2> SUFFICES ASSUME NEW i \in 0 .. MAX_MSG - 1
               PROVE  Slot(p, i) = Slot(r, i + 1)
    OBVIOUS
  <2>1. CASE r.head + 1 < MAX_MSG
    <3>1. p.head = r.head + 1
      <4>1. r.head + 1 \in 0 .. MAX_MSG - 1
        BY <1>1, <2>1
      <4> QED BY <1>1, <1>3, <4>1, ModBelow
    <3> QED BY <1>1, <3>1 DEF Slot
  <2>2. CASE r.head + 1 = MAX_MSG
    <3>1. p.head = 0
      <4>1. MAX_MSG \in MAX_MSG .. 2 * MAX_MSG - 1
        BY <1>1
      <4>2. MAX_MSG % MAX_MSG = MAX_MSG - MAX_MSG
        BY <1>1, <4>1, ModAbove
      <4> QED BY <1>1, <1>3, <2>2, <4>2
    <3>2. Slot(p, i) = i
      BY <1>1, <3>1, ModBelow DEF Slot
    <3>3. r.head + (i + 1) = MAX_MSG + i /\ MAX_MSG + i \in MAX_MSG .. 2 * MAX_MSG - 1
      BY <1>1, <2>2
    <3>4. Slot(r, i + 1) = i
      BY <1>1, <3>3, ModAbove DEF Slot
    <3> QED BY <3>2, <3>4
  <2> QED BY <1>1, <2>1, <2>2
<1>6. \A i \in 1 .. r.size : r.q[Slot(r, i - 1)] \in Msgs \cup {NoMsg}
  BY <1>1, SlotInSlots DEF MsgQ
<1>7. Contents(r) \in Seq(Msgs \cup {NoMsg}) /\ Len(Contents(r)) = r.size
  BY <1>1, <1>6 DEF Contents
<1>8. Front(r) = Head(Contents(r))
  <2>1. Slot(r, 0) = r.head
    BY <1>1, ModBelow DEF Slot
  <2>2. Head(Contents(r)) = r.q[Slot(r, 0)]
    BY <1>1, <1>7 DEF Contents
  <2> QED BY <2>1, <2>2 DEF Front
<1>9. Tail(Contents(r)) = [i \in 1 .. r.size - 1 |-> r.q[Slot(r, i)]]
  BY <1>1, <1>7 DEF Contents
<1>10. Contents(p) = [i \in 1 .. r.size - 1 |-> r.q[Slot(r, i)]]
  <2>1. \A i \in 1 .. r.size - 1 : p.q[Slot(p, i - 1)] = r.q[Slot(r, i)]
    BY <1>1, <1>3, <1>5
  <2> QED BY <1>3, <2>1 DEF Contents
<1>11. Contents(r) # <<>>
  BY <1>1, <1>7
<1> QED BY <1>4, <1>8, <1>9, <1>10, <1>11

(* The queue holds exactly size messages, and at the start none.           *)
LEMMA ContentsLen ==
    ASSUME NEW r \in MsgQ
    PROVE  Contents(r) \in Seq(Msgs \cup {NoMsg}) /\ Len(Contents(r)) = r.size
<1>1. r.size \in 0 .. MAX_MSG /\ MAX_MSG \in Nat \ {0}
  BY RingAssumption DEF MsgQ
<1>2. \A i \in 1 .. r.size : r.q[Slot(r, i - 1)] \in Msgs \cup {NoMsg}
  BY <1>1, SlotInSlots DEF MsgQ
<1> QED BY <1>1, <1>2 DEF Contents

LEMMA EmptyIsEmpty == EmptyQ \in MsgQ /\ Contents(EmptyQ) = <<>>
<1>1. EmptyQ \in MsgQ
  BY RingAssumption DEF EmptyQ, MsgQ, Slots
<1>2. Len(Contents(EmptyQ)) = 0
  BY <1>1, ContentsLen DEF EmptyQ
<1> QED BY <1>1, <1>2, ContentsLen

=============================================================================
