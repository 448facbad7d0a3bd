------------------------------ MODULE MsgRing ------------------------------
(***************************************************************************)
(* The circular message queue of mm-venc-omx-test: struct MsgQ and the     *)
(* statements of SendMessage and PopMessage that touch it.  The queue is a *)
(* value here; the mutex and the condition variable that guard it belong   *)
(* to the threads and are modelled where the threads are, in VencEncode.   *)
(***************************************************************************)
EXTENDS Integers, Sequences

CONSTANTS
    MAX_MSG,    \* number of slots of MsgQ.q
    InBufs,     \* m_pInBuffers, the headers of the input port
    OutBufs     \* m_pOutBuffers, the headers of the output port

ASSUME RingAssumption == MAX_MSG \in Nat \ {0}

Slots == 0 .. MAX_MSG - 1

(* Msg: an id and a header; a callback announces a header of its port.     *)
Msgs == [id : {"INPUT_FRAME_DONE"}, buf : InBufs]
          \cup [id : {"OUTPUT_FRAME_DONE"}, buf : OutBufs]

(* A slot never written yet: m_sMsgQ is zeroed, and 0 is the first MsgId.  *)
NoMsg == [id |-> "OUTPUT_FRAME_DONE", buf |-> "NULL"]

MsgQ == [q : [Slots -> Msgs \cup {NoMsg}], head : Slots, size : 0 .. MAX_MSG]

EmptyQ == [q |-> [s \in Slots |-> NoMsg], head |-> 0, size |-> 0]

IsFullTooSoon(r) == r.size >= MAX_MSG - 1
IsFull(r) == r.size >= MAX_MSG

(* The slot that holds the i-th message from the head, or the next free    *)
(* slot when i = size.                                                     *)
Slot(r, i) == (r.head + i) % MAX_MSG

Push(r, m) == [q    |-> [r.q EXCEPT ![Slot(r, r.size)] = m],
               head |-> r.head,
               size |-> r.size + 1]

FrontNewest(r) == r.q[Slot(r, r.size - 1)]
Front(r) == r.q[r.head]

PopNoWrap(r) == [q |-> r.q, head |-> r.head + 1, size |-> r.size - 1]
PopKeepsHead(r) == [q |-> r.q, head |-> r.head, size |-> r.size - 1]
Pop(r) == [q    |-> r.q,
           head |-> (r.head + 1) % MAX_MSG,
           size |-> r.size - 1]

(* What the queue stands for: its messages, oldest first.                  *)
Contents(r) == [i \in 1 .. r.size |-> r.q[Slot(r, i - 1)]]

=============================================================================
