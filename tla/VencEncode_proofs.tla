-------------------------- MODULE VencEncode_proofs --------------------------
(***************************************************************************)
(* Theorems about VencEncode, for any number of headers, callback threads, *)
(* frames and queue slots that VencAssumption allows.                      *)
(***************************************************************************)
EXTENDS VencEncode, MsgRing_proofs, FiniteSetTheorems

(* What TypeOK needs to be inductive: the header a step works on belongs   *)
(* to the port that step deals with, only real messages are queued, and    *)
(* the only input header in circulation is FirstIn.                        *)
InMsgs == [id : {"INPUT_FRAME_DONE"}, buf : {FirstIn}]
OutMsgs == [id : {"OUTPUT_FRAME_DONE"}, buf : OutBufs]
LiveMsgs == InMsgs \cup OutMsgs

MainTyped ==
    /\ pc \in {"first", "read", "lock", "etb"} => msg \in InMsgs
    /\ pc \in {"write", "refill"} => msg \in OutMsgs
    /\ pc \in {"use_in", "unmap", "free_in"} => todo \subseteq InBufs
    /\ pc \in {"use_out", "fill", "free_out"} => todo \subseteq OutBufs

MsgsTyped ==
    /\ \A i \in 1 .. m_sMsgQ.size : Contents(m_sMsgQ)[i] \in LiveMsgs
    /\ \A t \in CbThreads : cb[t].at = "posting" => cb[t].msg \in LiveMsgs
    /\ omx.in \subseteq {FirstIn}

ITyped == TypeOK /\ MainTyped /\ MsgsTyped

LEMMA LiveMsgsAreMsgs == LiveMsgs \subseteq Msgs
BY VencAssumption DEF LiveMsgs, InMsgs, OutMsgs, Msgs

LEMMA InitTyped == Init => ITyped
<1> SUFFICES ASSUME Init PROVE ITyped
  OBVIOUS
<1>1. m_sMsgQ \in MsgQ /\ m_sMsgQ.size = 0
  BY EmptyIsEmpty DEF Init, EmptyQ
<1>2. MsgsTyped
  BY <1>1 DEF Init, MsgsTyped, IdleCb
<1>3. MainTyped
  BY DEF Init, MainTyped
<1>4. TypeOK
  <2>1. cb \in [CbThreads -> [at : {"idle", "posting"}, msg : Msgs \cup {NoMsg}]]
    BY DEF Init, IdleCb
  <2>2. omx \in Component
    BY DEF Init, Component, States
  <2>3. yuv \in [InBufs -> {0} \cup Frames] /\ bitstream \in [OutBufs -> Seq({0} \cup Frames)]
    BY DEF Init
  <2>4. waiting \in BOOLEAN /\ bQuit \in BOOLEAN
    BY DEF Init
  <2>5. outFile \in Seq({0} \cup Frames) /\ filePos \in 0 .. NumFrames
    BY VencAssumption DEF Init
  <2>6. m_eState \in States /\ pc \in PCs
    BY DEF Init, PCs, States
  <2> QED BY <1>1, <2>1, <2>2, <2>3, <2>4, <2>5, <2>6 DEF Init, TypeOK
<1> QED BY <1>2, <1>3, <1>4 DEF ITyped

(* Steps of main that leave the queue and the callbacks alone.             *)
LEMMA MainTypedStep ==
    ASSUME ITyped, MainStep, ~PopMessage
    PROVE  ITyped'
<1> USE VencAssumption DEF ITyped, Goto, mainVars, queueVars, memVars
<1>1. CASE SendIdle
  BY <1>1 DEF SendIdle, TypeOK, Component, MainTyped, MsgsTyped, PCs, States
<1>2. CASE SetExecuting
  BY <1>2 DEF SetExecuting, TypeOK, Component, MainTyped, MsgsTyped, PCs, States
<1>3. CASE NowExecuting
  BY <1>3 DEF NowExecuting, TypeOK, Component, MainTyped, MsgsTyped, PCs, States
<1>4. CASE ReadFrame
  BY <1>4 DEF ReadFrame, TypeOK, Component, MainTyped, MsgsTyped, PCs, States, InMsgs, Frames
<1>5. CASE ReadFails
  <2>1. CASE pc = "first"
    BY <1>5, <2>1 DEF ReadFails, TypeOK, Component, MainTyped, MsgsTyped, PCs, States
  <2>2. CASE pc = "read"
    BY <1>5, <2>2 DEF ReadFails, TypeOK, Component, MainTyped, MsgsTyped, PCs, States
  <2> QED BY <1>5, <2>1, <2>2 DEF ReadFails
<1>6. CASE LockToEncode
  BY <1>6 DEF LockToEncode, TypeOK, Component, MainTyped, MsgsTyped, PCs, States
<1>7. CASE EmptyThisBuffer
  BY <1>7, ZenonT(60) DEF EmptyThisBuffer, TypeOK, Component, MainTyped, MsgsTyped, PCs, States, InMsgs
<1>8. CASE UnlockAfterEncode
  BY <1>8 DEF UnlockAfterEncode, TypeOK, Component, MainTyped, MsgsTyped, PCs, States
<1>9. CASE CondWait
  BY <1>9 DEF CondWait, TypeOK, Component, MainTyped, MsgsTyped, PCs, States
<1>10. CASE WriteOutput
  BY <1>10 DEF WriteOutput, TypeOK, Component, MainTyped, MsgsTyped, PCs, States, OutMsgs, Frames
<1>11. CASE FillThisBuffer
  BY <1>11 DEF FillThisBuffer, TypeOK, Component, MainTyped, MsgsTyped, PCs, States, OutMsgs
<1>12. CASE CountOutput
  <2>1. CASE IsLast(m_nFrameOut + 1)
    BY <1>12, <2>1 DEF CountOutput, TypeOK, Component, MainTyped, MsgsTyped, PCs, States
  <2>2. CASE ~IsLast(m_nFrameOut + 1)
    BY <1>12, <2>2 DEF CountOutput, TypeOK, Component, MainTyped, MsgsTyped, PCs, States
  <2> QED BY <2>1, <2>2
<1>13. CASE SendLoaded
  BY <1>13 DEF SendLoaded, TypeOK, Component, MainTyped, MsgsTyped, PCs, States
<1>14. CASE FreeHandle
  BY <1>14 DEF FreeHandle, TypeOK, Component, MainTyped, MsgsTyped, PCs, States
<1>15. ASSUME NEW b \in InBufs, RegisterYUVBuffer(b) PROVE ITyped'
  <2>1. CASE todo = {b}
    BY <1>15, <2>1 DEF RegisterYUVBuffer, LoopOver, TypeOK, Component, MainTyped, MsgsTyped, PCs, States
  <2>2. CASE todo # {b}
    BY <1>15, <2>2 DEF RegisterYUVBuffer, LoopOver, TypeOK, Component, MainTyped, MsgsTyped, PCs, States
  <2> QED BY <2>1, <2>2
<1>16. ASSUME NEW b \in InBufs, PmemFree(b) PROVE ITyped'
  <2>1. CASE todo = {b}
    BY <1>16, <2>1 DEF PmemFree, LoopOver, TypeOK, Component, MainTyped, MsgsTyped, PCs, States
  <2>2. CASE todo # {b}
    BY <1>16, <2>2 DEF PmemFree, LoopOver, TypeOK, Component, MainTyped, MsgsTyped, PCs, States
  <2> QED BY <2>1, <2>2
<1>17. ASSUME NEW b \in OutBufs, UseOutputBuffer(b) PROVE ITyped'
  <2>1. CASE todo = {b}
    BY <1>17, <2>1 DEF UseOutputBuffer, LoopOver, TypeOK, Component, MainTyped, MsgsTyped, PCs, States
  <2>2. CASE todo # {b}
    BY <1>17, <2>2 DEF UseOutputBuffer, LoopOver, TypeOK, Component, MainTyped, MsgsTyped, PCs, States
  <2> QED BY <2>1, <2>2
<1>18. ASSUME NEW b \in OutBufs, FillFirst(b) PROVE ITyped'
  <2>1. CASE todo = {b}
    BY <1>18, <2>1 DEF FillFirst, LoopOver, TypeOK, Component, MainTyped, MsgsTyped, PCs, States, InMsgs, Msgs
  <2>2. CASE todo # {b}
    BY <1>18, <2>2, ZenonT(60) DEF FillFirst, LoopOver, TypeOK, Component, MainTyped, MsgsTyped, PCs, States, InMsgs, Msgs
  <2> QED BY <2>1, <2>2
<1>19. ASSUME NEW b \in InBufs \cup OutBufs, FreeBuffer(b) PROVE ITyped'
  <2>1. CASE todo = {b}
    BY <1>19, <2>1, ZenonT(60) DEF FreeBuffer, LoopOver, TypeOK, Component, MainTyped, MsgsTyped, PCs, States
  <2>2. CASE todo # {b}
    BY <1>19, <2>2, ZenonT(60) DEF FreeBuffer, LoopOver, TypeOK, Component, MainTyped, MsgsTyped, PCs, States
  <2> QED BY <2>1, <2>2
<1> QED BY <1>1, <1>2, <1>3, <1>4, <1>5, <1>6, <1>7, <1>8, <1>9, <1>10, <1>11, <1>12, <1>13, <1>14, <1>15, <1>16, <1>17, <1>18, <1>19 DEF MainStep

(* Popping gives main the message at the head, and the others stay.        *)
LEMMA PopTypedStep ==
    ASSUME ITyped, PopMessage
    PROVE  ITyped'
<1> DEFINE c == Contents(m_sMsgQ)
<1>1. m_sMsgQ \in MsgQ /\ m_sMsgQ.size \in Nat /\ m_sMsgQ.size # 0 /\ m_sMsgQ' = Pop(m_sMsgQ)
  BY DEF ITyped, TypeOK, PopMessage, MsgQ
<1>2. c \in Seq(Msgs \cup {NoMsg}) /\ Len(c) = m_sMsgQ.size
  BY <1>1, ContentsLen
<1>3. m_sMsgQ' \in MsgQ /\ Contents(m_sMsgQ)' = Tail(c) /\ msg' = Head(c)
  BY <1>1, PopTakesOldest DEF PopMessage
<1>4. m_sMsgQ'.size = m_sMsgQ.size - 1
  BY <1>1 DEF Pop
<1>5. msg' \in LiveMsgs
  BY <1>1, <1>2, <1>3 DEF ITyped, MsgsTyped
<1>6. \A i \in 1 .. m_sMsgQ'.size : Contents(m_sMsgQ)'[i] \in LiveMsgs
  <2> SUFFICES ASSUME NEW i \in 1 .. m_sMsgQ'.size
               PROVE  Contents(m_sMsgQ)'[i] \in LiveMsgs
    OBVIOUS
  <2>1. Contents(m_sMsgQ)'[i] = c[i + 1] /\ i + 1 \in 1 .. m_sMsgQ.size
    BY <1>1, <1>2, <1>3, <1>4
  <2> QED BY <2>1 DEF ITyped, MsgsTyped
<1>7. MsgsTyped'
  BY <1>6 DEF MsgsTyped, ITyped, PopMessage
<1>8. MainTyped'
  BY <1>5 DEF PopMessage, Goto, MainTyped, LiveMsgs, InMsgs, OutMsgs
<1>9. TypeOK'
  BY <1>3, <1>5, LiveMsgsAreMsgs DEF ITyped, TypeOK, PopMessage, Goto, PCs, memVars
<1> QED BY <1>7, <1>8, <1>9 DEF ITyped

(* Posting puts the callback's message behind the others.                  *)
LEMMA PostTypedStep ==
    ASSUME ITyped, NEW t \in CbThreads, SendMessage(t)
    PROVE  ITyped'
<1> DEFINE c == Contents(m_sMsgQ)
<1>1. m_sMsgQ \in MsgQ /\ m_sMsgQ.size \in Nat
  BY DEF ITyped, TypeOK, MsgQ
<1>2. c \in Seq(Msgs \cup {NoMsg}) /\ Len(c) = m_sMsgQ.size
  BY <1>1, ContentsLen
<1>3. cb[t].msg \in LiveMsgs /\ cb[t].msg \in Msgs
  BY LiveMsgsAreMsgs DEF ITyped, MsgsTyped, SendMessage
<1>4. /\ m_sMsgQ' \in MsgQ
      /\ \A i \in 1 .. m_sMsgQ'.size : Contents(m_sMsgQ)'[i] \in LiveMsgs
  <2>1. CASE IsFull(m_sMsgQ)
    BY <1>1, <2>1 DEF SendMessage, ITyped, MsgsTyped
  <2>2. CASE ~IsFull(m_sMsgQ)
    <3>1. m_sMsgQ' = Push(m_sMsgQ, cb[t].msg)
      BY <2>2 DEF SendMessage
    <3>2. m_sMsgQ' \in MsgQ /\ Contents(m_sMsgQ)' = Append(c, cb[t].msg)
      BY <1>1, <1>3, <2>2, <3>1, PushAppends
    <3>3. m_sMsgQ'.size = m_sMsgQ.size + 1
      BY <3>1 DEF Push
    <3> QED BY <1>1, <1>2, <1>3, <3>2, <3>3 DEF ITyped, MsgsTyped
  <2> QED BY <2>1, <2>2
<1>5. /\ cb' \in [CbThreads -> [at : {"idle", "posting"}, msg : Msgs \cup {NoMsg}]]
      /\ \A u \in CbThreads : cb'[u].at = "posting" => cb'[u].msg \in LiveMsgs
  BY DEF ITyped, TypeOK, MsgsTyped, SendMessage, IdleCb
<1>6. MsgsTyped'
  BY <1>4, <1>5 DEF MsgsTyped, ITyped, SendMessage
<1>7. MainTyped'
  BY DEF MainTyped, ITyped, SendMessage, mainVars
<1>8. mutex' \in {"none", "main"} \cup CbThreads /\ waiting' \in BOOLEAN
  BY DEF SendMessage, Signal, ITyped, TypeOK
<1>9. TypeOK'
  BY <1>4, <1>5, <1>8 DEF ITyped, TypeOK, SendMessage, mainVars, memVars
<1> QED BY <1>6, <1>7, <1>9 DEF ITyped

(* A callback announces a header that the component had.                   *)
LEMMA CallbackTypedStep ==
    ASSUME ITyped, NEW t \in CbThreads, NEW m \in LiveMsgs, Callback(t, m)
    PROVE  /\ cb' \in [CbThreads -> [at : {"idle", "posting"}, msg : Msgs \cup {NoMsg}]]
           /\ \A u \in CbThreads : cb'[u].at = "posting" => cb'[u].msg \in LiveMsgs
BY LiveMsgsAreMsgs DEF ITyped, TypeOK, MsgsTyped, Callback

LEMMA ComponentTypedStep ==
    ASSUME ITyped, NEW t \in CbThreads, ComponentStep(t)
    PROVE  ITyped'
<1> USE DEF ITyped, MainTyped, mainVars, queueVars, memVars
<1>1. ASSUME NEW b \in InBufs, Encode(t, b) PROVE ITyped'
  <2>1. [id |-> "INPUT_FRAME_DONE", buf |-> b] \in LiveMsgs
    BY <1>1 DEF Encode, MsgsTyped, LiveMsgs, InMsgs
  <2>2. yuv[b] \in {0} \cup Frames
    BY DEF TypeOK
  <2>3. Append(omx.frames, yuv[b]) \in Seq({0} \cup Frames)
    BY <2>2 DEF TypeOK, Component
  <2>4. omx' \in Component /\ omx'.in \subseteq {FirstIn}
    BY <1>1, <2>3 DEF Encode, TypeOK, Component, MsgsTyped
  <2> HIDE DEF ITyped
  <2>5. /\ cb' \in [CbThreads -> [at : {"idle", "posting"}, msg : Msgs \cup {NoMsg}]]
        /\ \A u \in CbThreads : cb'[u].at = "posting" => cb'[u].msg \in LiveMsgs
    BY <1>1, <2>1, CallbackTypedStep DEF Encode, EBD_CB
  <2> QED BY <1>1, <2>3, <2>4, <2>5 DEF Encode, TypeOK, MsgsTyped, ITyped
<1>2. ASSUME NEW b \in InBufs, FlushInput(t, b) PROVE ITyped'
  <2>1. [id |-> "INPUT_FRAME_DONE", buf |-> b] \in LiveMsgs
    BY <1>2 DEF FlushInput, MsgsTyped, LiveMsgs, InMsgs
  <2> QED BY <1>2, <2>1, CallbackTypedStep, ZenonT(60) DEF FlushInput, EBD_CB, TypeOK, Component, MsgsTyped
<1>3. ASSUME NEW b \in OutBufs PROVE [id |-> "OUTPUT_FRAME_DONE", buf |-> b] \in LiveMsgs
  BY DEF LiveMsgs, OutMsgs
<1>4. ASSUME NEW b \in OutBufs, Produce(t, b) PROVE ITyped'
  <2>1. Head(omx.frames) \in {0} \cup Frames /\ Tail(omx.frames) \in Seq({0} \cup Frames)
    BY <1>4 DEF Produce, TypeOK, Component
  <2>2. bitstream' \in [OutBufs -> Seq({0} \cup Frames)]
    <3>1. <<Head(omx.frames)>> \in Seq({0} \cup Frames) /\ <<>> \in Seq({0} \cup Frames)
      BY <2>1
    <3>2. PICK data \in Seq({0} \cup Frames) : bitstream' = [bitstream EXCEPT ![b] = data]
      BY <1>4, <3>1 DEF Produce
    <3> QED BY <3>2 DEF TypeOK
  <2> QED BY <1>3, <1>4, <2>1, <2>2, CallbackTypedStep, ZenonT(60) DEF Produce, FBD_CB, TypeOK, Component, MsgsTyped
<1>5. ASSUME NEW b \in OutBufs, ProduceConfig(t, b) PROVE ITyped'
  <2>1. <<0>> \in Seq({0} \cup Frames)
    OBVIOUS
  <2>2. bitstream' \in [OutBufs -> Seq({0} \cup Frames)]
    BY <1>5, <2>1 DEF ProduceConfig, TypeOK
  <2> QED BY <1>3, <1>5, <2>2, CallbackTypedStep, ZenonT(60) DEF ProduceConfig, FBD_CB, TypeOK, Component, MsgsTyped
<1>6. ASSUME NEW b \in OutBufs, FlushOutput(t, b) PROVE ITyped'
  <2>1. <<>> \in Seq({0} \cup Frames)
    OBVIOUS
  <2>2. bitstream' \in [OutBufs -> Seq({0} \cup Frames)]
    BY <1>6, <2>1 DEF FlushOutput, TypeOK
  <2> QED BY <1>3, <1>6, <2>2, CallbackTypedStep, ZenonT(60) DEF FlushOutput, FBD_CB, TypeOK, Component, MsgsTyped
<1> QED BY <1>1, <1>2, <1>4, <1>5, <1>6 DEF ComponentStep

LEMMA NextTyped == ITyped /\ [Next]_vars => ITyped'
<1> SUFFICES ASSUME ITyped, [Next]_vars PROVE ITyped'
  OBVIOUS
<1>1. CASE MainStep
  BY <1>1, MainTypedStep, PopTypedStep
<1>2. CASE SpuriousWakeup
  BY <1>2 DEF SpuriousWakeup, ITyped, TypeOK, MainTyped, MsgsTyped, mainVars, memVars
<1>3. CASE CallFails
  BY <1>3 DEF CallFails, Goto, ITyped, TypeOK, MainTyped, MsgsTyped, queueVars, memVars, PCs
<1>4. CASE EVT_CB
  BY <1>4 DEF EVT_CB, ITyped, TypeOK, Component, MainTyped, MsgsTyped, mainVars, queueVars, memVars
<1>5. CASE UNCHANGED vars
  BY <1>5 DEF vars, mainVars, queueVars, memVars, ITyped, TypeOK, MainTyped, MsgsTyped
<1>6. ASSUME NEW t \in CbThreads, SendMessage(t) \/ ComponentStep(t) PROVE ITyped'
  BY <1>6, PostTypedStep, ComponentTypedStep
<1> QED BY <1>1, <1>2, <1>3, <1>4, <1>5, <1>6 DEF Next, Terminated

(* Type correctness.                                                       *)
THEOREM TypeCorrect == Spec => []TypeOK
<1>1. Spec => []ITyped
  BY InitTyped, NextTyped, PTL DEF Spec
<1> QED BY <1>1, PTL DEF ITyped

-----------------------------------------------------------------------------
(* The queue is a FIFO channel on which main never oversleeps, and the     *)
(* loop stops at the count of option -n.                                   *)

(* Every step of the threads is a step of the channel or leaves it alone.  *)
LEMMA StepIsFifo ==
    ASSUME ITyped, [Next]_vars
    PROVE  [Fifo!Send \/ Fifo!Receive]_(Contents(m_sMsgQ))
<1>1. m_sMsgQ \in MsgQ /\ m_sMsgQ.size \in Nat
  BY DEF ITyped, TypeOK, MsgQ
<1>2. CASE PopMessage
  <2>1. m_sMsgQ.size # 0 /\ m_sMsgQ' = Pop(m_sMsgQ)
    BY <1>2 DEF PopMessage
  <2>2. Contents(m_sMsgQ) # <<>> /\ Contents(m_sMsgQ)' = Tail(Contents(m_sMsgQ))
    BY <1>1, <2>1, PopTakesOldest
  <2> QED BY <2>2 DEF Fifo!Receive
<1>3. ASSUME NEW t \in CbThreads, SendMessage(t)
      PROVE  [Fifo!Send \/ Fifo!Receive]_(Contents(m_sMsgQ))
  <2>1. CASE IsFull(m_sMsgQ)
    BY <1>3, <2>1 DEF SendMessage
  <2>2. CASE ~IsFull(m_sMsgQ)
    <3>1. cb[t].msg \in Msgs /\ m_sMsgQ' = Push(m_sMsgQ, cb[t].msg)
      BY <1>3, <2>2, LiveMsgsAreMsgs DEF SendMessage, ITyped, MsgsTyped
    <3>2. Contents(m_sMsgQ)' = Append(Contents(m_sMsgQ), cb[t].msg)
      BY <1>1, <2>2, <3>1, PushAppends
    <3> QED BY <3>1, <3>2 DEF Fifo!Send
  <2> QED BY <2>1, <2>2
<1>4. ASSUME UNCHANGED m_sMsgQ PROVE UNCHANGED Contents(m_sMsgQ)
  BY <1>4
<1>5. CASE MainStep /\ ~PopMessage
  <2>1. UNCHANGED m_sMsgQ
    BY <1>5 DEF MainStep, SendIdle, SetExecuting, NowExecuting, RegisterYUVBuffer, PmemFree,
       UseOutputBuffer, FillFirst, ReadFrame, ReadFails, LockToEncode, EmptyThisBuffer,
       UnlockAfterEncode, CondWait, WriteOutput, FillThisBuffer, CountOutput,
       SendLoaded, FreeBuffer, FreeHandle, queueVars
  <2> QED BY <1>4, <2>1
<1>6. ASSUME NEW t \in CbThreads, ComponentStep(t) PROVE UNCHANGED m_sMsgQ
  BY <1>6 DEF ComponentStep, Encode, FlushInput, Produce, ProduceConfig, FlushOutput, queueVars
<1>7. CASE SpuriousWakeup \/ CallFails \/ EVT_CB \/ UNCHANGED vars
  <2>1. UNCHANGED m_sMsgQ
    BY <1>7 DEF SpuriousWakeup, CallFails, EVT_CB, vars, queueVars
  <2> QED BY <1>4, <2>1
<1> QED BY <1>2, <1>3, <1>4, <1>5, <1>6, <1>7 DEF Next, Terminated

(* SendMessage and PopMessage neither lose, duplicate nor reorder messages:*)
(* the ring under m_mutex implements the abstract channel.                 *)
THEOREM QueueRefinesFifo == Spec => QueueIsFifo
<1>1. Init => Fifo!Init
  BY EmptyIsEmpty DEF Init, Fifo!Init
<1>2. Spec => []ITyped
  BY InitTyped, NextTyped, PTL DEF Spec
<1>3. ITyped /\ [Next]_vars => [Fifo!Send \/ Fifo!Receive]_(Contents(m_sMsgQ))
  BY StepIsFifo
<1> QED BY <1>1, <1>2, <1>3, PTL DEF Spec, QueueIsFifo, Fifo!Spec

(* PopMessage never sleeps on a queue that has a message: a callback that  *)
(* fills an empty queue wakes main in the same critical section.           *)
THEOREM WakeupsAreNotLost == Spec => []NoLostWakeup
<1>1. Init => NoLostWakeup
  BY DEF Init, NoLostWakeup
<1>2. ITyped /\ NoLostWakeup /\ [Next]_vars => NoLostWakeup'
  <2> SUFFICES ASSUME ITyped, NoLostWakeup, [Next]_vars PROVE NoLostWakeup'
    OBVIOUS
  <2>1. CASE PopMessage
    BY <2>1 DEF PopMessage, NoLostWakeup
  <2>2. CASE CondWait
    BY <2>2 DEF CondWait, NoLostWakeup
  <2>3. ASSUME NEW t \in CbThreads, SendMessage(t) PROVE NoLostWakeup'
    BY <2>3 DEF SendMessage, Signal, NoLostWakeup
  <2>4. CASE MainStep /\ ~PopMessage /\ ~CondWait
    BY <2>4 DEF MainStep, SendIdle, SetExecuting, NowExecuting, RegisterYUVBuffer, PmemFree,
       UseOutputBuffer, FillFirst, ReadFrame, ReadFails, LockToEncode, EmptyThisBuffer,
       UnlockAfterEncode, WriteOutput, FillThisBuffer, CountOutput,
       SendLoaded, FreeBuffer, FreeHandle, queueVars, NoLostWakeup
  <2>5. ASSUME NEW t \in CbThreads, ComponentStep(t) PROVE NoLostWakeup'
    BY <2>5 DEF ComponentStep, Encode, FlushInput, Produce, ProduceConfig, FlushOutput,
       queueVars, NoLostWakeup
  <2>6. CASE SpuriousWakeup \/ CallFails \/ EVT_CB \/ UNCHANGED vars
    BY <2>6 DEF SpuriousWakeup, CallFails, EVT_CB, vars, queueVars, NoLostWakeup
  <2> QED BY <2>1, <2>2, <2>3, <2>4, <2>5, <2>6 DEF Next, Terminated
<1>3. Spec => []ITyped
  BY InitTyped, NextTyped, PTL DEF Spec
<1> QED BY <1>1, <1>2, <1>3, PTL DEF Spec

=============================================================================
