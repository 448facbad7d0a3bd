-------------------------- MODULE VencOwner_proofs --------------------------
(***************************************************************************)
(* Every header of VencEncode has one owner at a time; hence the queue is  *)
(* never full when a callback posts, m_mutex is never left locked, and no  *)
(* header leaks.  With the states of the component that main waits for,    *)
(* the encoder has no header it must not have when main ends.  And with    *)
(* one callback thread the program writes frames in the order it read      *)
(* them: VencEncode implements EncodePipeline.                             *)
(***************************************************************************)
EXTENDS VencEncode_proofs

(* The headers that someone has: nothing else can bring them back.         *)
Held == Queued \cup InCallback \cup AtOmx \cup AtMain

(* Before main fills the first output buffer, no header moves; until the   *)
(* first frame is read, FirstIn has not left main.                         *)
NotStarted == pc \in {"start", "use_in", "use_out", "wait_idle", "wait_exec"}

Quiet ==
    /\ NotStarted => Queued = {} /\ InCallback = {} /\ AtOmx = {}
    /\ pc = "fill" => FirstIn \notin Queued \cup InCallback \cup AtOmx

IOwner == ITyped /\ OneOwner /\ Quiet /\ MutexNeverLeaked

LEMMA InitOwner == Init => IOwner
<1> SUFFICES ASSUME Init PROVE IOwner
  OBVIOUS
<1>1. m_sMsgQ.size = 0
  BY DEF Init, EmptyQ
<1>2. Queued = {} /\ NoneQueuedTwice
  BY <1>1 DEF Queued, NoneQueuedTwice
<1>3. Posting = {}
  BY DEF Init, Posting, IdleCb
<1>4. InCallback = {} /\ NoneAnnouncedTwice
  BY <1>3 DEF InCallback, NoneAnnouncedTwice
<1>5. AtOmx = {} /\ AtMain = {}
  BY DEF Init, AtOmx, AtMain
<1> QED BY <1>2, <1>4, <1>5, InitTyped, VencAssumption
        DEF Init, IOwner, OneOwner, Quiet, NotStarted, MutexNeverLeaked

(* main's own steps move headers between main and the component only.      *)
LEMMA MainOwnerStep ==
    ASSUME IOwner, MainStep, ~PopMessage
    PROVE  OneOwner' /\ Quiet'
<1> USE VencAssumption DEF Goto
<1>1. UNCHANGED <<m_sMsgQ, cb>>
  BY DEF MainStep, SendIdle, SetExecuting, NowExecuting, RegisterYUVBuffer, PmemFree,
     UseOutputBuffer, FillFirst, ReadFrame, ReadFails, LockToEncode, EmptyThisBuffer,
     UnlockAfterEncode, CondWait, WriteOutput, FillThisBuffer, CountOutput,
     SendLoaded, FreeBuffer, FreeHandle, mainVars, queueVars
<1>2. /\ Queued' = Queued /\ InCallback' = InCallback
      /\ NoneQueuedTwice' = NoneQueuedTwice /\ NoneAnnouncedTwice' = NoneAnnouncedTwice
  BY <1>1 DEF Queued, InCallback, Posting, NoneQueuedTwice, NoneAnnouncedTwice
<1> SUFFICES /\ (Queued \cup InCallback) \cap AtOmx' = {}
             /\ (Queued \cup InCallback \cup AtOmx') \cap AtMain' = {}
             /\ Quiet'
  BY <1>2 DEF IOwner, OneOwner
<1>3. CASE \/ SendIdle \/ SetExecuting \/ LockToEncode \/ UnlockAfterEncode \/ CondWait
           \/ WriteOutput \/ CountOutput \/ SendLoaded \/ FreeHandle \/ ReadFrame \/ ReadFails
  <2>1. AtOmx' = AtOmx
    BY <1>3 DEF AtOmx, SendIdle, SetExecuting, LockToEncode, UnlockAfterEncode, CondWait,
       WriteOutput, CountOutput, SendLoaded, FreeHandle, ReadFrame, ReadFails, IOwner,
       ITyped, TypeOK, Component
  <2>2. AtMain' \subseteq AtMain /\ pc' # "fill" /\ (NotStarted' => NotStarted)
    BY <1>3 DEF AtMain, SendIdle, SetExecuting, LockToEncode, UnlockAfterEncode, CondWait,
       WriteOutput, CountOutput, SendLoaded, FreeHandle, ReadFrame, ReadFails, mainVars, NotStarted
  <2> QED BY <1>2, <2>1, <2>2 DEF IOwner, OneOwner, Quiet
<1>4. CASE NowExecuting
  BY <1>2, <1>4 DEF NowExecuting, IOwner, Quiet, NotStarted, AtOmx, AtMain, OneOwner, ITyped, MsgsTyped
<1>5. CASE EmptyThisBuffer \/ FillThisBuffer
  <2>1. AtOmx' \subseteq AtOmx \cup AtMain
    BY <1>5 DEF EmptyThisBuffer, FillThisBuffer, AtOmx, AtMain, IOwner, ITyped, TypeOK, Component
  <2>2. AtMain' = {} /\ pc' # "fill" /\ ~NotStarted'
    BY <1>5 DEF EmptyThisBuffer, FillThisBuffer, AtMain, NotStarted
  <2> QED BY <1>2, <2>1, <2>2 DEF IOwner, OneOwner, Quiet
<1>6. ASSUME NEW b \in OutBufs, FillFirst(b)
      PROVE  /\ (Queued \cup InCallback) \cap AtOmx' = {}
             /\ (Queued \cup InCallback \cup AtOmx') \cap AtMain' = {}
             /\ Quiet'
  <2>1. AtOmx' = AtOmx \cup {b} /\ AtMain = todo /\ b \in todo
    BY <1>6 DEF FillFirst, AtOmx, AtMain, IOwner, ITyped, TypeOK, Component
  <2>2. FirstIn \notin Queued \cup InCallback \cup AtOmx'
    BY <1>6, <2>1 DEF FillFirst, IOwner, Quiet
  <2>3. AtMain' \subseteq (todo \ {b}) \cup {FirstIn}
    BY <1>6 DEF FillFirst, AtMain, LoopOver
  <2>4. ~NotStarted'
    BY <1>6 DEF FillFirst, LoopOver, NotStarted
  <2> QED BY <1>2, <2>1, <2>2, <2>3, <2>4 DEF IOwner, OneOwner, Quiet
<1>7. ASSUME \/ \E b \in InBufs : RegisterYUVBuffer(b) \/ PmemFree(b)
             \/ \E b \in OutBufs : UseOutputBuffer(b)
             \/ \E b \in InBufs \cup OutBufs : FreeBuffer(b)
      PROVE  /\ (Queued \cup InCallback) \cap AtOmx' = {}
             /\ (Queued \cup InCallback \cup AtOmx') \cap AtMain' = {}
             /\ Quiet'
  <2>1. AtOmx' = AtOmx
    BY <1>7 DEF RegisterYUVBuffer, PmemFree, UseOutputBuffer, FreeBuffer, AtOmx,
       IOwner, ITyped, TypeOK, Component
  <2>2. AtMain' = {} /\ pc' # "fill" /\ (NotStarted' => NotStarted)
    BY <1>7 DEF RegisterYUVBuffer, PmemFree, UseOutputBuffer, FreeBuffer, LoopOver, AtMain, NotStarted
  <2> QED BY <1>2, <2>1, <2>2 DEF IOwner, OneOwner, Quiet
<1> QED BY <1>3, <1>4, <1>5, <1>6, <1>7 DEF MainStep

(* PopMessage hands main the header at the front of the queue.             *)
LEMMA PopOwnerStep ==
    ASSUME IOwner, PopMessage
    PROVE  OneOwner' /\ Quiet' /\ Held \subseteq Held'
<1> DEFINE c == Contents(m_sMsgQ)
           n == m_sMsgQ.size
<1>1. m_sMsgQ \in MsgQ /\ n \in Nat /\ n # 0 /\ m_sMsgQ' = Pop(m_sMsgQ)
  BY DEF IOwner, ITyped, TypeOK, PopMessage, MsgQ
<1>2. c \in Seq(Msgs \cup {NoMsg}) /\ Len(c) = n
  BY <1>1, ContentsLen
<1>3. Contents(m_sMsgQ)' = Tail(c) /\ msg' = c[1] /\ m_sMsgQ'.size = n - 1
  BY <1>1, <1>2, PopTakesOldest DEF PopMessage, Pop
<1>4. \A i \in 1 .. n - 1 : Contents(m_sMsgQ)'[i] = c[i + 1]
  BY <1>1, <1>2, <1>3
<1>5. \A i, j \in 1 .. n : c[i].buf = c[j].buf => i = j
  BY DEF IOwner, OneOwner, NoneQueuedTwice
<1>6. NoneQueuedTwice'
  <2> SUFFICES ASSUME NEW i \in 1 .. n - 1, NEW j \in 1 .. n - 1,
                      Contents(m_sMsgQ)'[i].buf = Contents(m_sMsgQ)'[j].buf
               PROVE  i = j
    BY <1>3 DEF NoneQueuedTwice
  <2>1. i + 1 \in 1 .. n /\ j + 1 \in 1 .. n
    BY <1>1
  <2> HIDE DEF n, c
  <2> QED BY <1>4, <1>5, <2>1
<1>7. Queued' \subseteq Queued /\ msg'.buf \in Queued /\ msg'.buf \notin Queued'
  <2>1. ASSUME NEW i \in 1 .. n - 1
        PROVE  /\ Contents(m_sMsgQ)'[i].buf \in Queued
               /\ Contents(m_sMsgQ)'[i].buf # c[1].buf
    <3>1. i + 1 \in 1 .. n /\ 1 \in 1 .. n /\ i + 1 # 1
      BY <1>1
    <3>2. Contents(m_sMsgQ)'[i].buf = c[i + 1].buf
      BY <1>4
    <3> QED BY <1>5, <3>1, <3>2 DEF Queued
  <2>2. 1 \in 1 .. n
    BY <1>1
  <2>3. Queued' = {Contents(m_sMsgQ)'[i].buf : i \in 1 .. n - 1}
    BY <1>3 DEF Queued
  <2> QED BY <1>3, <2>1, <2>2, <2>3 DEF Queued
<1>8. InCallback' = InCallback /\ NoneAnnouncedTwice' = NoneAnnouncedTwice /\ AtOmx' = AtOmx
  BY DEF PopMessage, InCallback, Posting, NoneAnnouncedTwice, AtOmx
<1>9. AtMain' = {msg'.buf} /\ AtMain = {} /\ pc' # "fill" /\ ~NotStarted'
  BY DEF PopMessage, Goto, AtMain, NotStarted
<1>10. Queued \subseteq Queued' \cup {msg'.buf}
  <2> SUFFICES ASSUME NEW i \in 1 .. n, i # 1 PROVE c[i].buf \in Queued'
    BY <1>3 DEF Queued
  <2>1. i - 1 \in 1 .. n - 1 /\ (i - 1) + 1 = i
    BY <1>1
  <2>2. Contents(m_sMsgQ)'[i - 1] = c[i]
    BY <1>4, <2>1
  <2>3. Queued' = {Contents(m_sMsgQ)'[j].buf : j \in 1 .. n - 1}
    BY <1>3 DEF Queued
  <2> QED BY <2>1, <2>2, <2>3
<1>11. Held \subseteq Held'
  BY <1>8, <1>9, <1>10 DEF Held
<1> QED BY <1>6, <1>7, <1>8, <1>9, <1>11 DEF IOwner, OneOwner, Quiet

(* The counting argument: the headers queued are distinct, circulate, and  *)
(* are not the one being posted, so at most |OutBufs| of them.             *)
LEMMA RoomToPost ==
    ASSUME IOwner, NEW t \in CbThreads, cb[t].at = "posting"
    PROVE  ~IsFull(m_sMsgQ)
<1> DEFINE n == m_sMsgQ.size
           h == cb[t].msg.buf
           Others == (OutBufs \cup {FirstIn}) \ {h}
           f == [i \in 1 .. n |-> Contents(m_sMsgQ)[i].buf]
<1>1. n \in Nat
  BY DEF IOwner, ITyped, TypeOK, MsgQ
<1>2. t \in Posting /\ h \in InCallback /\ h \in OutBufs \cup {FirstIn}
  BY DEF Posting, InCallback, IOwner, ITyped, MsgsTyped, LiveMsgs, InMsgs, OutMsgs
<1>3. f \in [1 .. n -> Others]
  <2> SUFFICES ASSUME NEW i \in 1 .. n PROVE Contents(m_sMsgQ)[i].buf \in Others
    OBVIOUS
  <2>1. Contents(m_sMsgQ)[i].buf \in OutBufs \cup {FirstIn}
    BY DEF IOwner, ITyped, MsgsTyped, LiveMsgs, InMsgs, OutMsgs
  <2>2. Contents(m_sMsgQ)[i].buf \in Queued
    BY DEF Queued
  <2>3. h \notin Queued
    BY <1>2 DEF IOwner, OneOwner
  <2> QED BY <2>1, <2>2, <2>3
<1>4. IsFiniteSet(Others) /\ Cardinality(Others) = Cardinality(OutBufs)
  <2>1. FirstIn \notin OutBufs /\ IsFiniteSet(OutBufs) /\ Cardinality(OutBufs) \in Nat
    BY VencAssumption, FS_CardinalityType
  <2>2. IsFiniteSet(OutBufs \cup {FirstIn})
        /\ Cardinality(OutBufs \cup {FirstIn}) = Cardinality(OutBufs) + 1
    BY <2>1, FS_AddElement
  <2> DEFINE Circulating == OutBufs \cup {FirstIn}
  <2>3. h \in Circulating /\ IsFiniteSet(Circulating)
        /\ Cardinality(Circulating) = Cardinality(OutBufs) + 1
    BY <1>2, <2>2
  <2> HIDE DEF Circulating, h
  <2>4. IsFiniteSet(Circulating \ {h}) /\ Cardinality(Circulating \ {h}) = Cardinality(Circulating) - 1
    BY <2>3, FS_RemoveElement
  <2> QED BY <2>1, <2>3, <2>4 DEF Circulating
<1>5. \A i, j \in 1 .. n : f[i] = f[j] => i = j
  BY DEF IOwner, OneOwner, NoneQueuedTwice
<1>6. IsFiniteSet(1 .. n) /\ Cardinality(1 .. n) = n
  <2>1. n \in Nat /\ 1 \in Int
    BY <1>1
  <2> HIDE DEF n
  <2>2. IsFiniteSet(1 .. n) /\ Cardinality(1 .. n) = IF 1 > n THEN 0 ELSE n - 1 + 1
    BY <2>1, FS_Interval
  <2> QED BY <2>1, <2>2
<1>7. n <= Cardinality(OutBufs)
  <2> SUFFICES ASSUME Cardinality(OutBufs) < n PROVE FALSE
    BY <1>1, VencAssumption, FS_CardinalityType
  <2> HIDE DEF f, Others, n
  <2>1. \E x, y \in 1 .. n : x # y /\ f[x] = f[y]
    <3>1. Cardinality(Others) < Cardinality(1 .. n)
      BY <1>4, <1>6
    <3>2. IsFiniteSet(Others) /\ IsFiniteSet(1 .. n) /\ f \in [1 .. n -> Others]
      BY <1>3, <1>4, <1>6
    <3> QED BY ONLY <3>1, <3>2, FS_PigeonHole, Zenon
  <2> QED BY <1>5, <2>1
<1> QED BY <1>1, <1>7, VencAssumption, RingAssumption, FS_CardinalityType DEF IsFull

(* SendMessage moves the callback's header to the end of the queue.        *)
LEMMA PostOwnerStep ==
    ASSUME IOwner, NEW t \in CbThreads, SendMessage(t)
    PROVE  OneOwner' /\ Quiet' /\ MutexNeverLeaked' /\ Held \subseteq Held'
<1> DEFINE c == Contents(m_sMsgQ)
           n == m_sMsgQ.size
           h == cb[t].msg.buf
<1>1. ~IsFull(m_sMsgQ)
  BY RoomToPost DEF SendMessage
<1>2. m_sMsgQ \in MsgQ /\ n \in Nat /\ m_sMsgQ' = Push(m_sMsgQ, cb[t].msg) /\ UNCHANGED mutex
  BY <1>1 DEF SendMessage, IOwner, ITyped, TypeOK, MsgQ
<1>3. cb[t].msg \in Msgs
  BY LiveMsgsAreMsgs DEF SendMessage, IOwner, ITyped, MsgsTyped
<1>4. c \in Seq(Msgs \cup {NoMsg}) /\ Len(c) = n
  BY <1>2, ContentsLen
<1>5. Contents(m_sMsgQ)' = Append(c, cb[t].msg) /\ m_sMsgQ'.size = n + 1
  BY <1>1, <1>2, <1>3, PushAppends DEF Push
<1>6. \A i \in 1 .. n + 1 : Contents(m_sMsgQ)'[i] = IF i = n + 1 THEN cb[t].msg ELSE c[i]
  BY <1>2, <1>3, <1>4, <1>5
<1>7. t \in Posting /\ h \in InCallback
  BY DEF SendMessage, Posting, InCallback
<1>8. Queued' = Queued \cup {h}
  <2>1. Queued' = {Contents(m_sMsgQ)'[i].buf : i \in 1 .. n + 1}
    BY <1>5 DEF Queued
  <2>2. Queued' \subseteq Queued \cup {h}
    BY <1>2, <1>6, <2>1 DEF Queued
  <2>3. h \in Queued'
    <3>1. n + 1 \in 1 .. n + 1
      BY <1>2
    <3> QED BY <1>6, <2>1, <3>1
  <2>4. ASSUME NEW i \in 1 .. n PROVE c[i].buf \in Queued'
    <3>1. i \in 1 .. n + 1 /\ i # n + 1
      BY <1>2
    <3> QED BY <1>6, <2>1, <3>1
  <2> QED BY <2>2, <2>3, <2>4 DEF Queued
<1>9. NoneQueuedTwice'
  <2>1. \A i \in 1 .. n : c[i].buf # h
    BY <1>7 DEF IOwner, OneOwner, Queued
  <2>2. \A i, j \in 1 .. n : c[i].buf = c[j].buf => i = j
    BY DEF IOwner, OneOwner, NoneQueuedTwice
  <2> SUFFICES ASSUME NEW i \in 1 .. n + 1, NEW j \in 1 .. n + 1,
                      Contents(m_sMsgQ)'[i].buf = Contents(m_sMsgQ)'[j].buf
               PROVE  i = j
    BY <1>5 DEF NoneQueuedTwice
  <2>3. (i \in 1 .. n \/ i = n + 1) /\ (j \in 1 .. n \/ j = n + 1)
    BY <1>2
  <2> QED BY <1>2, <1>6, <2>1, <2>2, <2>3
<1>10. Posting' = Posting \ {t} /\ \A u \in Posting' : cb'[u] = cb[u]
  BY DEF SendMessage, Posting, IdleCb, IOwner, ITyped, TypeOK
<1>11. NoneAnnouncedTwice'
  BY <1>10 DEF NoneAnnouncedTwice, IOwner, OneOwner
<1>12. InCallback' \subseteq InCallback \ {h}
  BY <1>7, <1>10 DEF InCallback, NoneAnnouncedTwice, IOwner, OneOwner
<1>13. AtOmx' = AtOmx /\ AtMain' = AtMain /\ UNCHANGED pc
  BY DEF SendMessage, AtOmx, AtMain, mainVars
<1>14. OneOwner'
  BY <1>7, <1>8, <1>9, <1>11, <1>12, <1>13 DEF IOwner, OneOwner
<1>15. Quiet'
  BY <1>7, <1>8, <1>12, <1>13 DEF IOwner, Quiet, NotStarted
<1>16. InCallback \subseteq InCallback' \cup {h}
  <2>1. \A u \in Posting : u # t => u \in Posting' /\ cb'[u] = cb[u]
    BY <1>10
  <2> QED BY <2>1 DEF InCallback
<1>17. Held \subseteq Held'
  BY <1>8, <1>13, <1>16 DEF Held
<1> QED BY <1>2, <1>14, <1>15, <1>17 DEF IOwner, MutexNeverLeaked

(* A component step moves a header it had into a callback.                 *)
LEMMA ComponentOwnerStep ==
    ASSUME IOwner, NEW t \in CbThreads, ComponentStep(t)
    PROVE  OneOwner' /\ Quiet' /\ MutexNeverLeaked' /\ Held \subseteq Held'
<1>1. UNCHANGED <<pc, todo, msg, mutex, m_sMsgQ>>
  BY DEF ComponentStep, Encode, FlushInput, Produce, ProduceConfig, FlushOutput, mainVars, queueVars
<1> DEFINE Hands(b, id) == Callback(t, [id |-> id, buf |-> b]) /\ AtOmx' = AtOmx \ {b}
<1> DEFINE Ids == {"INPUT_FRAME_DONE", "OUTPUT_FRAME_DONE"}
<1>a. ASSUME NEW b \in InBufs, Encode(t, b) \/ FlushInput(t, b)
      PROVE  b \in AtOmx /\ Hands(b, "INPUT_FRAME_DONE")
  <2>1. /\ b \in omx.in /\ b \notin omx.out
        /\ omx'.in = omx.in \ {b} /\ omx'.out = omx.out
        /\ Callback(t, [id |-> "INPUT_FRAME_DONE", buf |-> b])
    BY <1>a, VencAssumption DEF Encode, FlushInput, EBD_CB, IOwner, ITyped, TypeOK, Component
  <2> QED BY <2>1 DEF AtOmx
<1>b. ASSUME NEW b \in OutBufs, Produce(t, b) \/ ProduceConfig(t, b) \/ FlushOutput(t, b)
      PROVE  b \in AtOmx /\ Hands(b, "OUTPUT_FRAME_DONE")
  <2>1. /\ b \in omx.out /\ b \notin omx.in
        /\ omx'.out = omx.out \ {b} /\ omx'.in = omx.in
        /\ Callback(t, [id |-> "OUTPUT_FRAME_DONE", buf |-> b])
    BY <1>b, VencAssumption DEF Produce, ProduceConfig, FlushOutput, FBD_CB, IOwner,
       ITyped, TypeOK, Component
  <2> QED BY <2>1 DEF AtOmx
<1>2. PICK b \in AtOmx, id \in Ids : Hands(b, id)
  <2> HIDE DEF Hands
  <2> QED BY <1>a, <1>b DEF ComponentStep
<1>3. Queued' = Queued /\ NoneQueuedTwice' = NoneQueuedTwice /\ AtMain' = AtMain
  BY <1>1 DEF Queued, NoneQueuedTwice, AtMain
<1>4. /\ t \notin Posting /\ Posting' = Posting \cup {t}
      /\ cb'[t].msg.buf = b /\ \A u \in Posting : cb'[u] = cb[u]
  BY <1>2 DEF Callback, Posting, IOwner, ITyped, TypeOK
<1>5. InCallback' = InCallback \cup {b} /\ b \notin InCallback
  BY <1>4 DEF InCallback, IOwner, OneOwner
<1>6. NoneAnnouncedTwice'
  <2>1. \A u \in Posting : cb[u].msg.buf # b
    BY <1>5 DEF InCallback
  <2> QED BY <1>4, <2>1 DEF NoneAnnouncedTwice, IOwner, OneOwner
<1>7. Held \subseteq Held'
  BY <1>2, <1>3, <1>5 DEF Held
<1> QED BY <1>1, <1>2, <1>3, <1>5, <1>6, <1>7
        DEF IOwner, OneOwner, Quiet, NotStarted, MutexNeverLeaked

LEMMA NextOwner == IOwner /\ [Next]_vars => IOwner'
<1> SUFFICES ASSUME IOwner, [Next]_vars PROVE OneOwner' /\ Quiet' /\ MutexNeverLeaked'
  BY NextTyped DEF IOwner
<1>1. CASE MainStep
  <2>1. mutex' \in {mutex, "none", "main"}
    BY <1>1 DEF MainStep, SendIdle, SetExecuting, NowExecuting, RegisterYUVBuffer, PmemFree,
       UseOutputBuffer, FillFirst, ReadFrame, ReadFails, LockToEncode, EmptyThisBuffer,
       UnlockAfterEncode, PopMessage, CondWait, WriteOutput, FillThisBuffer, CountOutput,
       SendLoaded, FreeBuffer, FreeHandle, queueVars
  <2> QED BY <1>1, <2>1, MainOwnerStep, PopOwnerStep, VencAssumption DEF IOwner, MutexNeverLeaked
<1>2. ASSUME UNCHANGED <<todo, msg, mutex, m_sMsgQ, cb, omx.in, omx.out>>,
             pc' = pc \/ pc' = "exited"
      PROVE  OneOwner' /\ Quiet' /\ MutexNeverLeaked'
  <2>1. /\ Queued' = Queued /\ InCallback' = InCallback
        /\ NoneQueuedTwice' = NoneQueuedTwice /\ NoneAnnouncedTwice' = NoneAnnouncedTwice
    BY <1>2 DEF Queued, InCallback, Posting, NoneQueuedTwice, NoneAnnouncedTwice
  <2>2. AtOmx' = AtOmx /\ AtMain' \subseteq AtMain
    BY <1>2 DEF AtOmx, AtMain
  <2> QED BY <1>2, <2>1, <2>2 DEF IOwner, OneOwner, Quiet, NotStarted, MutexNeverLeaked
<1>3. CASE SpuriousWakeup \/ CallFails \/ EVT_CB \/ UNCHANGED vars
  BY <1>2, <1>3 DEF SpuriousWakeup, CallFails, EVT_CB, vars, mainVars, queueVars, memVars, Goto,
     IOwner, ITyped, TypeOK, Component
<1>4. ASSUME NEW t \in CbThreads, SendMessage(t) \/ ComponentStep(t)
      PROVE  OneOwner' /\ Quiet' /\ MutexNeverLeaked'
  BY <1>4, PostOwnerStep, ComponentOwnerStep
<1> QED BY <1>1, <1>3, <1>4 DEF Next, Terminated

(* A header is in one place only, whatever the interleaving of main with   *)
(* any number of callback threads.                                         *)
THEOREM HeadersHaveOneOwner == Spec => []OneOwner
<1>1. Spec => []IOwner
  BY InitOwner, NextOwner, PTL DEF Spec
<1> QED BY <1>1, PTL DEF IOwner

(* The early return of SendMessage that keeps m_mutex is never taken.      *)
THEOREM MutexIsNeverLeaked == Spec => []MutexNeverLeaked
<1>1. Spec => []IOwner
  BY InitOwner, NextOwner, PTL DEF Spec
<1> QED BY <1>1, PTL DEF IOwner

-----------------------------------------------------------------------------
(* From the first FillThisBuffer on, no output header leaks, nor FirstIn   *)
(* once a frame was read.                                                  *)
BeforeFrames == NotStarted \/ pc \in {"fill", "first"}

Circulating ==
    /\ pc \in {"fill", "first"} \/ InLoop => OutBufs \subseteq Held
    /\ InLoop /\ filePos > 0 => FirstIn \in Held
    /\ BeforeFrames => filePos = 0

LEMMA MainCirculates ==
    ASSUME IOwner, Circulating, MainStep, ~PopMessage
    PROVE  Circulating'
<1> USE VencAssumption DEF Goto
<1>1. UNCHANGED <<m_sMsgQ, cb>>
  BY DEF MainStep, SendIdle, SetExecuting, NowExecuting, RegisterYUVBuffer, PmemFree,
     UseOutputBuffer, FillFirst, ReadFrame, ReadFails, LockToEncode, EmptyThisBuffer,
     UnlockAfterEncode, CondWait, WriteOutput, FillThisBuffer, CountOutput,
     SendLoaded, FreeBuffer, FreeHandle, mainVars, queueVars
<1>2. Queued' = Queued /\ InCallback' = InCallback
  BY <1>1 DEF Queued, InCallback, Posting
<1>3. CASE SendIdle \/ SetExecuting \/ SendLoaded \/ FreeHandle
  BY <1>3 DEF SendIdle, SetExecuting, SendLoaded, FreeHandle, Circulating, InLoop,
     BeforeFrames, NotStarted
<1>4. CASE NowExecuting
  BY <1>4 DEF NowExecuting, Circulating, InLoop, BeforeFrames, NotStarted, Held, AtMain
<1>5. CASE LockToEncode \/ UnlockAfterEncode \/ CondWait \/ WriteOutput \/ CountOutput \/ ReadFails
  <2>1. AtOmx' = AtOmx
    BY <1>5 DEF AtOmx, LockToEncode, UnlockAfterEncode, CondWait, WriteOutput, CountOutput,
       ReadFails, mainVars
  <2>2. /\ pc' \notin {"fill", "first"} /\ ~BeforeFrames' /\ UNCHANGED filePos
        /\ InLoop' => (InLoop \/ (pc = "first" /\ ReadFails))
    BY <1>5 DEF LockToEncode, UnlockAfterEncode, CondWait, WriteOutput, CountOutput,
       ReadFails, mainVars, InLoop, BeforeFrames, NotStarted
  <2>3. ASSUME InLoop' PROVE AtMain' = AtMain \/ (AtMain = {FirstIn} /\ filePos = 0)
    BY <1>5, <2>3 DEF LockToEncode, UnlockAfterEncode, CondWait, WriteOutput, CountOutput,
       ReadFails, mainVars, InLoop, AtMain, Circulating, BeforeFrames, IOwner, ITyped,
       MainTyped, InMsgs
  <2> QED BY <1>2, <2>1, <2>2, <2>3 DEF Circulating, Held, BeforeFrames
<1>6. CASE ReadFrame
  <2>1. /\ AtOmx' = AtOmx /\ AtMain' = AtMain /\ FirstIn \in AtMain
        /\ InLoop' /\ ~BeforeFrames' /\ pc' \notin {"fill", "first"}
    BY <1>6 DEF ReadFrame, AtOmx, AtMain, InLoop, BeforeFrames, NotStarted, IOwner, ITyped,
       MainTyped, InMsgs
  <2> QED BY <1>2, <1>6, <2>1 DEF Circulating, Held, ReadFrame, InLoop
<1>7. CASE EmptyThisBuffer \/ FillThisBuffer
  <2>1. AtOmx' = AtOmx \cup AtMain
    BY <1>7 DEF EmptyThisBuffer, FillThisBuffer, AtOmx, AtMain, IOwner, ITyped, TypeOK, Component
  <2>2. InLoop /\ InLoop' /\ ~BeforeFrames' /\ pc' \notin {"fill", "first"} /\ UNCHANGED filePos
    BY <1>7 DEF EmptyThisBuffer, FillThisBuffer, InLoop, BeforeFrames, NotStarted
  <2> QED BY <1>2, <2>1, <2>2 DEF Circulating, Held
<1>8. ASSUME NEW b \in OutBufs, FillFirst(b) PROVE Circulating'
  <2>1. AtOmx' = AtOmx \cup {b} /\ AtMain = todo /\ pc = "fill" /\ UNCHANGED filePos
    BY <1>8 DEF FillFirst, AtOmx, AtMain, IOwner, ITyped, TypeOK, Component
  <2>2. todo \ {b} \subseteq AtMain' /\ pc' \in {"fill", "first"}
    BY <1>8 DEF FillFirst, AtMain, LoopOver
  <2> QED BY <1>2, <2>1, <2>2 DEF Circulating, Held, InLoop, BeforeFrames, NotStarted
<1>9. ASSUME \/ \E b \in InBufs : RegisterYUVBuffer(b) \/ PmemFree(b)
             \/ \E b \in OutBufs : UseOutputBuffer(b)
             \/ \E b \in InBufs \cup OutBufs : FreeBuffer(b)
      PROVE  Circulating'
  BY <1>9 DEF RegisterYUVBuffer, PmemFree, UseOutputBuffer, FreeBuffer, LoopOver,
     Circulating, InLoop, BeforeFrames, NotStarted
<1> QED BY <1>3, <1>4, <1>5, <1>6, <1>7, <1>8, <1>9 DEF MainStep

LEMMA NextCirculates == IOwner /\ Circulating /\ [Next]_vars => Circulating'
<1> SUFFICES ASSUME IOwner, Circulating, [Next]_vars PROVE Circulating'
  OBVIOUS
<1>1. CASE PopMessage
  BY <1>1, PopOwnerStep DEF PopMessage, Goto, Circulating, InLoop, BeforeFrames, NotStarted
<1>2. CASE MainStep /\ ~PopMessage
  BY <1>2, MainCirculates
<1>3. ASSUME UNCHANGED <<pc, filePos>>, Held \subseteq Held' PROVE Circulating'
  BY <1>3 DEF Circulating, InLoop, BeforeFrames, NotStarted
<1>4. ASSUME NEW t \in CbThreads, SendMessage(t) \/ ComponentStep(t) PROVE Circulating'
  <2>1. UNCHANGED <<pc, filePos>>
    BY <1>4 DEF SendMessage, ComponentStep, Encode, FlushInput, Produce, ProduceConfig,
       FlushOutput, mainVars
  <2> QED BY <1>3, <1>4, <2>1, PostOwnerStep, ComponentOwnerStep
<1>5. CASE SpuriousWakeup \/ EVT_CB \/ UNCHANGED vars
  <2>1. UNCHANGED <<pc, filePos, todo, msg, m_sMsgQ, cb, omx.in, omx.out>>
    BY <1>5 DEF SpuriousWakeup, EVT_CB, vars, mainVars, queueVars, memVars, IOwner, ITyped,
       TypeOK, Component
  <2>2. Queued' = Queued /\ InCallback' = InCallback /\ AtOmx' = AtOmx /\ AtMain' = AtMain
    BY <2>1 DEF Queued, InCallback, Posting, AtOmx, AtMain
  <2> QED BY <1>3, <2>1, <2>2 DEF Held
<1>6. CASE CallFails
  BY <1>6 DEF CallFails, Goto, Circulating, InLoop, BeforeFrames, NotStarted
<1> QED BY <1>1, <1>2, <1>4, <1>5, <1>6 DEF Next, Terminated

(* While main loops, every output header and the input header that is fed  *)
(* keep going round: main, the callbacks and the queue never drop one.     *)
THEOREM NoHeaderIsLost == Spec => []NothingLost
<1>1. Spec => []IOwner
  BY InitOwner, NextOwner, PTL DEF Spec
<1>2. Init => Circulating
  BY DEF Init, Circulating, InLoop
<1>3. Circulating => NothingLost
  BY DEF Circulating, NothingLost, Held
<1> QED BY <1>1, <1>2, <1>3, NextCirculates, PTL DEF Spec

-----------------------------------------------------------------------------
(* The states of the component.  main asks for one (target), sleeps until  *)
(* EVT_CB has reported it in m_eState, and uses buffers in Executing only; *)
(* outside that state the component has none and makes no callback.        *)
Ending == {"free_in", "free_out", "wait_loaded", "done"}

Life ==
    /\ m_eState = omx.state \/ (m_eState = "Invalid" /\ omx.state = "Loaded")
    /\ omx.state # "Executing" => AtOmx = {} /\ Posting = {}
    /\ omx.target = "Loaded" => omx.state # "Executing"
    /\ pc = "wait_exec" => omx.target = "Executing"
    /\ pc \in {"fill", "first", "unmap"} \/ InLoop =>
          omx.state = "Executing" /\ omx.target = "Executing"
    /\ pc \in Ending => omx.target = "Loaded"
    /\ mutex = "main" => pc \in {"etb", "unlock", "exited"}

LEMMA NextLife == ITyped /\ MutexNeverLeaked' /\ Life /\ [Next]_vars => Life'
<1> SUFFICES ASSUME ITyped, MutexNeverLeaked', Life, [Next]_vars PROVE Life'
  OBVIOUS
<1>t. omx \in Component
  BY DEF ITyped, TypeOK
<1> USE DEF Goto, Life, InLoop, Ending
<1>1. CASE SendIdle \/ SetExecuting \/ SendLoaded
  BY <1>1, <1>t DEF SendIdle, SetExecuting, SendLoaded, Reached, queueVars, AtOmx, Posting,
     Component
<1>2. CASE EmptyThisBuffer \/ FillThisBuffer
  BY <1>2, <1>t DEF EmptyThisBuffer, FillThisBuffer, queueVars, Component
<1>3. ASSUME NEW b \in OutBufs, FillFirst(b) PROVE Life'
  BY <1>3, <1>t DEF FillFirst, LoopOver, queueVars, Component
<1>4. ASSUME NEW b \in InBufs, PmemFree(b) PROVE Life'
  BY <1>4, <1>t DEF PmemFree, LoopOver, queueVars, Component
<1>5. ASSUME \/ \E b \in InBufs : RegisterYUVBuffer(b)
             \/ \E b \in OutBufs : UseOutputBuffer(b)
             \/ \E b \in InBufs \cup OutBufs : FreeBuffer(b)
      PROVE  Life'
  BY <1>5, <1>t DEF RegisterYUVBuffer, UseOutputBuffer, FreeBuffer, LoopOver, queueVars,
     AtOmx, Posting, Component
<1>6. CASE \/ ReadFrame \/ ReadFails \/ LockToEncode \/ UnlockAfterEncode \/ PopMessage
           \/ CondWait \/ WriteOutput \/ CountOutput \/ FreeHandle \/ NowExecuting
  BY <1>6 DEF ReadFrame, ReadFails, LockToEncode, UnlockAfterEncode, PopMessage, CondWait,
     WriteOutput, CountOutput, FreeHandle, NowExecuting, Reached, mainVars, queueVars,
     AtOmx, Posting
<1>7. CASE EVT_CB
  <2>1. UNCHANGED <<pc, mutex, cb>> /\ AtOmx' = AtOmx /\ Posting' = Posting
    BY <1>7, <1>t DEF EVT_CB, mainVars, queueVars, AtOmx, Posting, Component
  <2>2. /\ omx'.state = omx.target /\ omx'.target = omx.target /\ m_eState' = omx.target
        /\ omx.target # omx.state /\ MayEnter(omx.target)
    BY <1>7, <1>t DEF EVT_CB, Component
  <2>3. ASSUME omx.target # "Executing" PROVE AtOmx = {} /\ Posting = {}
    BY <1>t, <2>2, <2>3 DEF MayEnter, AtOmx, Posting, Component, States
  <2> QED BY <2>1, <2>2, <2>3
<1>8. ASSUME NEW t \in CbThreads, SendMessage(t) PROVE Life'
  <2>1. Posting # {} /\ UNCHANGED <<pc, m_eState, omx>>
    BY <1>8 DEF SendMessage, Posting, mainVars
  <2>2. mutex' # "main"
    BY <1>8, VencAssumption DEF SendMessage
  <2> QED BY <2>1, <2>2
<1>9. ASSUME NEW t \in CbThreads, ComponentStep(t) PROVE Life'
  <2>1. /\ UNCHANGED <<pc, mutex, m_eState>> /\ omx.state = "Executing"
        /\ omx'.state = omx.state /\ omx'.target = omx.target
    BY <1>9, <1>t DEF ComponentStep, Encode, FlushInput, Produce, ProduceConfig, FlushOutput,
       Encoding, Flushing, mainVars, queueVars, Component
  <2> QED BY <2>1
<1>10. CASE SpuriousWakeup \/ CallFails \/ UNCHANGED vars
  BY <1>10 DEF SpuriousWakeup, CallFails, vars, mainVars, queueVars, AtOmx, Posting, CallOf
<1> QED BY <1>1, <1>2, <1>3, <1>4, <1>5, <1>6, <1>7, <1>8, <1>9, <1>10
        DEF Next, MainStep, Terminated

(* When VencTest_Exit frees headers, the encoder has none, no callback is  *)
(* under way and m_mutex is free.                                          *)
THEOREM TeardownIsQuiet == Spec => []TeardownQuiet
<1>1. Spec => []IOwner
  BY InitOwner, NextOwner, PTL DEF Spec
<1>2. Init => Life
  BY DEF Init, Life, AtOmx, Posting, IdleCb, InLoop, Ending
<1>3. IOwner /\ Life /\ [Next]_vars => Life'
  BY NextOwner, NextLife DEF IOwner
<1>4. IOwner /\ Life => TeardownQuiet
  BY DEF IOwner, ITyped, TypeOK, MutexNeverLeaked, Life, TeardownQuiet, Ending, AtOmx
<1> QED BY <1>1, <1>2, <1>3, <1>4, PTL DEF Spec

(* What main maps before it uses a buffer stays mapped until the loop has  *)
(* ended, and then the encoder has no input, unless the count ended it.    *)
Mapping ==
    /\ pc = "use_in" => InBufs \subseteq mapped \cup todo
    /\ pc \in {"use_out", "wait_idle", "wait_exec", "fill", "first"} \/ InLoop => mapped = InBufs
    /\ pc \in {"unmap", "stop"} \cup Ending => CountReached \/ omx.in = {}

IMapped == EofUnmapsSafely /\ Mapping

LEMMA NextMapped == IOwner /\ IMapped /\ [Next]_vars => IMapped'
<1> SUFFICES ASSUME IOwner, IMapped, [Next]_vars PROVE IMapped'
  OBVIOUS
<1>t. omx \in Component /\ omx.in \subseteq {FirstIn} /\ mapped \subseteq InBufs
  BY DEF IOwner, ITyped, TypeOK, MsgsTyped
<1>n. NotStarted => omx.in = {}
  BY DEF IOwner, Quiet, AtOmx
<1> USE VencAssumption DEF Goto, IMapped, EofUnmapsSafely, Mapping, CountReached, InLoop, Ending
<1>1. CASE \/ SendIdle \/ SetExecuting \/ NowExecuting \/ SendLoaded \/ FreeHandle
           \/ ReadFrame \/ LockToEncode \/ UnlockAfterEncode \/ CondWait \/ PopMessage
           \/ WriteOutput \/ FillThisBuffer
  BY <1>1, <1>t DEF SendIdle, SetExecuting, NowExecuting, SendLoaded, FreeHandle, ReadFrame,
     LockToEncode, UnlockAfterEncode, CondWait, PopMessage, WriteOutput, FillThisBuffer,
     mainVars, Component
<1>2. ASSUME NEW b \in InBufs, RegisterYUVBuffer(b) PROVE IMapped'
  <2>1. omx.in = {} /\ omx'.in = {}
    BY <1>2, <1>n, <1>t DEF RegisterYUVBuffer, NotStarted, Component
  <2>2. InBufs \subseteq mapped' \cup (todo \ {b}) /\ mapped' \subseteq InBufs
    BY <1>2, <1>t DEF RegisterYUVBuffer
  <2> QED BY <1>2, <2>1, <2>2 DEF RegisterYUVBuffer, LoopOver
<1>3. ASSUME NEW b \in InBufs, PmemFree(b) PROVE IMapped'
  BY <1>3, <1>t DEF PmemFree, LoopOver, Component
<1>4. ASSUME \/ \E b \in OutBufs : UseOutputBuffer(b) \/ FillFirst(b)
             \/ \E b \in InBufs \cup OutBufs : FreeBuffer(b)
      PROVE  IMapped'
  BY <1>4, <1>t DEF UseOutputBuffer, FillFirst, FreeBuffer, LoopOver, Component
<1>5. CASE EmptyThisBuffer
  BY <1>5, <1>t DEF EmptyThisBuffer, Component, IOwner, ITyped, MainTyped, InMsgs
<1>6. CASE ReadFails
  <2>1. CASE pc = "first"
    BY <1>6, <1>t, <2>1 DEF ReadFails
  <2>2. CASE pc = "read"
    <3>1. FirstIn \notin omx.in
      BY <2>2 DEF IOwner, OneOwner, AtOmx, AtMain, ITyped, MainTyped, InMsgs
    <3> QED BY <1>6, <1>t, <2>2, <3>1 DEF ReadFails
  <2> QED BY <1>6, <2>1, <2>2 DEF ReadFails
<1>7. CASE CountOutput
  BY <1>7, <1>t DEF CountOutput, IsLast
<1>8. ASSUME NEW t \in CbThreads, SendMessage(t) \/ ComponentStep(t) PROVE IMapped'
  <2>1. UNCHANGED mainVars /\ omx'.in \subseteq omx.in
    BY <1>8, <1>t, ZenonT(60) DEF SendMessage, ComponentStep, Encode, FlushInput, Produce, ProduceConfig,
       FlushOutput, Component
  <2> QED BY <2>1 DEF mainVars
<1>9. CASE SpuriousWakeup \/ CallFails \/ EVT_CB \/ UNCHANGED vars
  BY <1>9, <1>t DEF SpuriousWakeup, CallFails, EVT_CB, vars, mainVars, Component
<1> QED BY <1>1, <1>2, <1>3, <1>4, <1>5, <1>6, <1>7, <1>8, <1>9
        DEF Next, MainStep, Terminated

(* Unmapping the input memory before the encoder is stopped is harmless    *)
(* when the loop ended on a short read: the only input header that ever    *)
(* circulates is main's by then.                                           *)
THEOREM ShortReadUnmapsSafely == Spec => []EofUnmapsSafely
<1>1. Spec => []IOwner
  BY InitOwner, NextOwner, PTL DEF Spec
<1>2. Init => IMapped
  BY DEF Init, IMapped, EofUnmapsSafely, Mapping, InLoop, Ending
<1>3. IMapped => EofUnmapsSafely
  BY DEF IMapped
<1> QED BY <1>1, <1>2, <1>3, NextMapped, PTL DEF Spec

-----------------------------------------------------------------------------
(* The order of frames, with one callback thread.                          *)

Less(A, B) == \A x \in A, y \in B : x < y

Values(s) == {s[i] : i \in 1 .. Len(s)}

(* The items on their way, from the file back to the encoder: written,     *)
(* main's, in the queue, in a callback, encoded.                           *)
Data(m) == IF m.id = "OUTPUT_FRAME_DONE" THEN Values(bitstream[m.buf]) ELSE {}

Written == Values(outFile)
Writing == IF pc = "write" THEN Data(msg) ELSE {}
InSlot(i) == Data(Contents(m_sMsgQ)[i])
InQueue == UNION {InSlot(i) : i \in 1 .. m_sMsgQ.size}
Called == UNION {Data(cb[t].msg) : t \in Posting}
Encoded == Values(omx.frames)

Delivered == Written \cup Writing \cup InQueue \cup Called

(* Each stage holds later items than the stages ahead of it.               *)
InOrder ==
    /\ Less(Written, Writing)
    /\ \A i \in 1 .. m_sMsgQ.size : Less(Written \cup Writing, InSlot(i))
    /\ \A i, j \in 1 .. m_sMsgQ.size : i < j => Less(InSlot(i), InSlot(j))
    /\ Less(Written \cup Writing \cup InQueue, Called)
    /\ Less(Delivered, Encoded)
    /\ \A i, j \in 1 .. Len(omx.frames) : i < j => omx.frames[i] < omx.frames[j]

(* Items are frames that were read, a frame that was read and not encoded  *)
(* yet is later than all of them, and the codec configuration comes once.  *)
Numbered ==
    /\ Delivered \subseteq 0 .. filePos /\ Encoded \subseteq 1 .. filePos
    /\ pc \in {"lock", "etb"} \/ omx.in # {} =>
          filePos > 0 /\ filePos \notin Delivered \cup Encoded
    /\ ~omx.config => 0 \notin Delivered
    /\ yuv[FirstIn] = filePos
    /\ m_nFrameIn = IF pc = "lock" THEN filePos - 1 ELSE filePos
    /\ \A b \in OutBufs : Len(bitstream[b]) <= 1

IOrder == IOwner /\ InOrder /\ Numbered

LEMMA InQueueHas ==
    \A x : x \in InQueue <=> \E i \in 1 .. m_sMsgQ.size : x \in InSlot(i)
BY DEF InQueue

LEMMA InitOrder == Init => IOrder
<1> SUFFICES ASSUME Init PROVE IOrder
  OBVIOUS
<1>1. m_sMsgQ.size = 0 /\ Posting = {} /\ outFile = <<>> /\ omx.frames = <<>> /\ pc = "start"
  BY DEF Init, EmptyQ, Posting, IdleCb
<1>2. InQueue = {} /\ Called = {} /\ Writing = {}
  BY <1>1 DEF InQueue, Called, Writing
<1>3. Len(outFile) = 0 /\ Len(omx.frames) = 0 /\ 1 .. 0 = {}
  BY <1>1
<1>4. Written = {} /\ Encoded = {}
  BY <1>3 DEF Written, Encoded, Values
<1>5. InOrder
  BY <1>1, <1>2, <1>3, <1>4 DEF InOrder, Less, Delivered
<1>6. Delivered = {}
  BY <1>2, <1>4 DEF Delivered
<1>7. Numbered
  BY <1>1, <1>4, <1>6, VencAssumption DEF Init, Numbered
<1> QED BY <1>5, <1>7, InitOwner DEF IOrder

(* Steps that move no item.                                                *)
LEMMA SameData ==
    ASSUME InOrder, UNCHANGED <<outFile, m_sMsgQ, cb, bitstream, omx.frames>>,
           Writing' = Writing
    PROVE  InOrder' /\ Delivered' = Delivered /\ Encoded' = Encoded
<1>1. Written' = Written /\ Encoded' = Encoded
  BY DEF Written, Encoded
<1>2. \A i : InSlot(i)' = InSlot(i)
  BY DEF InSlot, Data
<1>3. InQueue' = InQueue
  BY <1>2 DEF InQueue
<1>4. Called' = Called
  BY DEF Called, Data, Posting
<1>5. Delivered' = Delivered
  BY <1>1, <1>3, <1>4 DEF Delivered
<1> QED BY <1>1, <1>2, <1>3, <1>4, <1>5 DEF InOrder

(* main's steps other than PopMessage and WriteOutput.                     *)
LEMMA MainOrderStep ==
    ASSUME IOrder, MainStep, ~PopMessage, ~WriteOutput
    PROVE  InOrder' /\ Numbered'
<1>t. /\ omx \in Component /\ filePos \in Nat /\ m_nFrameIn \in Nat
      /\ yuv \in [InBufs -> {0} \cup Frames] /\ FirstIn \in InBufs
      /\ omx.in \subseteq {FirstIn}
  BY VencAssumption DEF IOrder, IOwner, ITyped, TypeOK, MsgsTyped
<1>1. /\ UNCHANGED <<outFile, m_sMsgQ, cb, bitstream>>
      /\ omx'.frames = omx.frames /\ omx'.config = omx.config
  BY <1>t DEF MainStep, SendIdle, SetExecuting, NowExecuting, RegisterYUVBuffer, PmemFree,
     UseOutputBuffer, FillFirst, ReadFrame, ReadFails, LockToEncode, EmptyThisBuffer,
     UnlockAfterEncode, CondWait, FillThisBuffer, CountOutput,
     SendLoaded, FreeBuffer, FreeHandle, mainVars, queueVars, memVars, Component
<1>2. pc # "write" /\ pc' # "write"
  BY DEF MainStep, SendIdle, SetExecuting, NowExecuting, RegisterYUVBuffer, PmemFree,
     UseOutputBuffer, FillFirst, ReadFrame, ReadFails, LockToEncode, EmptyThisBuffer,
     UnlockAfterEncode, CondWait, FillThisBuffer, CountOutput,
     SendLoaded, FreeBuffer, FreeHandle, mainVars, Goto, LoopOver
<1>3. Writing' = Writing
  BY <1>2 DEF Writing
<1>4. InOrder' /\ Delivered' = Delivered /\ Encoded' = Encoded
  BY <1>1, <1>3, SameData DEF IOrder
<1> USE DEF IOrder, Numbered
<1>5. CASE ReadFrame
  <2>1. msg.buf = FirstIn /\ omx.in = {}
    BY <1>t, <1>5 DEF ReadFrame, IOwner, ITyped, MainTyped, InMsgs, OneOwner, AtOmx, AtMain
  <2>2. /\ filePos' = filePos + 1 /\ pc' = "lock" /\ pc # "lock" /\ omx'.in = {}
        /\ UNCHANGED m_nFrameIn /\ yuv' = [yuv EXCEPT ![FirstIn] = filePos + 1]
    BY <1>5, <2>1 DEF ReadFrame, Goto
  <2>3. filePos' > 0 /\ filePos' \notin Delivered \cup Encoded
    BY <1>t, <2>2
  <2>4. Delivered \subseteq 0 .. filePos' /\ Encoded \subseteq 1 .. filePos'
    BY <1>t, <2>2
  <2>5. yuv'[FirstIn] = filePos' /\ m_nFrameIn' = filePos' - 1
    BY <1>t, <2>2
  <2> QED BY <1>1, <1>4, <2>2, <2>3, <2>4, <2>5
<1>6. CASE LockToEncode
  BY <1>1, <1>4, <1>6, <1>t DEF LockToEncode, Goto, memVars
<1>7. CASE EmptyThisBuffer
  BY <1>1, <1>4, <1>7, <1>t DEF EmptyThisBuffer, Goto, memVars
<1>8. CASE MainStep /\ ~PopMessage /\ ~WriteOutput /\ ~ReadFrame /\ ~LockToEncode /\ ~EmptyThisBuffer
  <2>1. /\ UNCHANGED <<filePos, yuv, m_nFrameIn>> /\ omx'.in = omx.in
        /\ pc # "lock" /\ pc' \notin {"lock", "etb"}
    BY <1>8, <1>t DEF MainStep, SendIdle, SetExecuting, NowExecuting, RegisterYUVBuffer,
       PmemFree, UseOutputBuffer, FillFirst, ReadFails, UnlockAfterEncode, CondWait,
       FillThisBuffer, CountOutput, SendLoaded, FreeBuffer, FreeHandle, mainVars, memVars,
       Goto, LoopOver, Component
  <2> QED BY <1>1, <1>4, <2>1
<1> QED BY <1>4, <1>5, <1>6, <1>7, <1>8

(* Writing appends main's item, if there is one, to the file.              *)
LEMMA WriteOrderStep ==
    ASSUME IOrder, WriteOutput
    PROVE  /\ InOrder' /\ Numbered'
           /\ outFile' = outFile \/ \E f \in Writing : outFile' = Append(outFile, f)
<1> DEFINE d == bitstream[msg.buf]
<1>1. /\ msg.id = "OUTPUT_FRAME_DONE" /\ msg.buf \in OutBufs
      /\ d \in Seq({0} \cup Frames) /\ Len(d) <= 1
      /\ outFile \in Seq({0} \cup Frames) /\ filePos \in Nat
      /\ pc = "write" /\ pc' = "refill" /\ outFile' = outFile \o d
  BY DEF IOrder, IOwner, ITyped, TypeOK, MainTyped, OutMsgs, Numbered, WriteOutput, Goto
<1>2. Writing = Values(d) /\ Writing' = {}
  BY <1>1 DEF Writing, Data
<1>3. Len(d) \in Nat /\ Len(outFile) \in Nat
  BY <1>1
<1>4. /\ Written' = Written \cup Writing
      /\ outFile' = outFile \/ \E f \in Writing : outFile' = Append(outFile, f)
  <2>1. CASE Len(d) = 0
    <3>1. d = <<>> /\ 1 .. Len(d) = {}
      BY <1>1, <2>1
    <3>2. outFile' = outFile /\ Values(d) = {}
      BY <1>1, <3>1 DEF Values
    <3> QED BY <1>2, <3>2 DEF Written
  <2>2. CASE Len(d) = 1
    <3>1. 1 .. Len(d) = {1} /\ d = <<d[1]>>
      BY <1>1, <2>2
    <3>2. Values(d) = {d[1]}
      BY <3>1 DEF Values
    <3>3. outFile' = Append(outFile, d[1])
      BY <1>1, <3>1
    <3>4. /\ Len(outFile') = Len(outFile) + 1 /\ outFile'[Len(outFile) + 1] = d[1]
          /\ \A i \in 1 .. Len(outFile) : outFile'[i] = outFile[i]
      BY <1>1, <3>3
    <3>5. 1 .. Len(outFile) + 1 = (1 .. Len(outFile)) \cup {Len(outFile) + 1}
      BY <1>3
    <3>6. Values(outFile') = Values(outFile) \cup {d[1]}
      BY <3>4, <3>5 DEF Values
    <3> QED BY <1>2, <3>2, <3>3, <3>6 DEF Written
  <2>3. Len(d) = 0 \/ Len(d) = 1
    <3>1. \A k \in Nat : k <= 1 => k = 0 \/ k = 1
      OBVIOUS
    <3> QED BY <1>1, <1>3, <3>1, Zenon
  <2> QED BY <2>1, <2>2, <2>3
<1>5. UNCHANGED <<m_sMsgQ, cb, bitstream, omx, filePos, yuv, m_nFrameIn>>
  BY DEF WriteOutput, queueVars, memVars
<1>6. \A i : InSlot(i)' = InSlot(i)
  BY <1>5 DEF InSlot, Data
<1>7. InQueue' = InQueue /\ Called' = Called /\ Encoded' = Encoded
  BY <1>5, <1>6 DEF InQueue, Called, Encoded, Data, Posting
<1>8. Delivered' = Delivered
  BY <1>2, <1>4, <1>7 DEF Delivered
<1>9. InOrder'
  BY <1>2, <1>4, <1>5, <1>6, <1>7, <1>8 DEF IOrder, InOrder, Less
<1>10. Numbered'
  BY <1>1, <1>5, <1>7, <1>8 DEF IOrder, Numbered
<1> QED BY <1>4, <1>9, <1>10

(* PopMessage gives main the item at the front of the queue.               *)
LEMMA PopOrderStep ==
    ASSUME IOrder, PopMessage
    PROVE  InOrder' /\ Numbered'
<1> DEFINE c == Contents(m_sMsgQ)
           n == m_sMsgQ.size
<1>1. m_sMsgQ \in MsgQ /\ n \in Nat /\ n # 0 /\ m_sMsgQ' = Pop(m_sMsgQ)
  BY DEF IOrder, IOwner, ITyped, TypeOK, PopMessage, MsgQ
<1>2. c \in Seq(Msgs \cup {NoMsg}) /\ Len(c) = n
  BY <1>1, ContentsLen
<1>3. Contents(m_sMsgQ)' = Tail(c) /\ msg' = c[1] /\ m_sMsgQ'.size = n - 1
  BY <1>1, <1>2, PopTakesOldest DEF PopMessage, Pop
<1>4. \A i \in 1 .. n - 1 : Contents(m_sMsgQ)'[i] = c[i + 1]
  BY <1>1, <1>2, <1>3
<1>5. /\ UNCHANGED <<outFile, cb, bitstream, omx, filePos, yuv, m_nFrameIn>>
      /\ pc = "pop" /\ pc' = IF msg'.id = "INPUT_FRAME_DONE" THEN "read" ELSE "write"
  BY DEF PopMessage, Goto, memVars
<1>6. 1 \in 1 .. n /\ c[1] \in LiveMsgs
  BY <1>1 DEF IOrder, IOwner, ITyped, MsgsTyped
<1>7. Writing = {} /\ Writing' = InSlot(1)
  BY <1>3, <1>5, <1>6 DEF Writing, InSlot, Data, LiveMsgs, InMsgs, OutMsgs
<1>8. \A i \in 1 .. n - 1 : InSlot(i)' = InSlot(i + 1) /\ i + 1 \in 1 .. n
  BY <1>1, <1>4, <1>5 DEF InSlot, Data
<1>9. \A i \in 1 .. n : i = 1 \/ (i - 1 \in 1 .. n - 1 /\ (i - 1) + 1 = i)
  BY <1>1
<1>10. Written' = Written /\ Called' = Called /\ Encoded' = Encoded
  BY <1>5 DEF Written, Called, Encoded, Data, Posting
<1>11. InQueue' \subseteq InQueue /\ InQueue \subseteq InQueue' \cup Writing'
  <2>1. \A x : x \in InQueue' <=> \E i \in 1 .. n - 1 : x \in InSlot(i)'
    BY <1>3 DEF InQueue
  <2>2. InQueue' \subseteq InQueue
    BY <1>8, <2>1, InQueueHas
  <2>3. ASSUME NEW i \in 1 .. n, i # 1 PROVE InSlot(i) \subseteq InQueue'
    BY <1>8, <1>9, <2>1, <2>3
  <2> QED BY <1>7, <2>2, <2>3, InQueueHas
<1>12. Delivered' = Delivered
  <2>1. InSlot(1) \subseteq InQueue
    BY <1>6, InQueueHas
  <2> QED BY <1>7, <1>10, <1>11, <2>1 DEF Delivered
<1>13. InOrder'
  <2>1. Less(Written, Writing') /\ Less(Written \cup Writing' \cup InQueue', Called)
    BY <1>6, <1>7, <1>11, InQueueHas DEF IOrder, InOrder, Less
  <2>2. ASSUME NEW i \in 1 .. n - 1 PROVE Less(Written \cup Writing', InSlot(i)')
    <3>1. 1 < i + 1
      BY <1>1
    <3>2. Less(InSlot(1), InSlot(i + 1)) /\ Less(Written, InSlot(i + 1))
      BY <1>6, <1>8, <3>1 DEF IOrder, InOrder, Less
    <3> QED BY <1>7, <1>8, <3>2 DEF Less
  <2>3. ASSUME NEW i \in 1 .. n - 1, NEW j \in 1 .. n - 1, i < j
        PROVE  Less(InSlot(i)', InSlot(j)')
    <3>1. i + 1 < j + 1
      BY <2>3
    <3> QED BY <1>8, <3>1 DEF IOrder, InOrder
  <2> QED BY <1>3, <1>5, <1>10, <1>12, <2>1, <2>2, <2>3 DEF IOrder, InOrder
<1>14. Numbered'
  BY <1>5, <1>10, <1>12 DEF IOrder, Numbered
<1> QED BY <1>13, <1>14

(* SendMessage moves the callback's item to the end of the queue.          *)
LEMMA PostOrderStep ==
    ASSUME IOrder, NEW t \in CbThreads, CbThreads = {t}, SendMessage(t)
    PROVE  InOrder' /\ Numbered'
<1> DEFINE c == Contents(m_sMsgQ)
<1> PICK n \in Nat : n = m_sMsgQ.size
  BY DEF IOrder, IOwner, ITyped, TypeOK, MsgQ
<1>1. ~IsFull(m_sMsgQ)
  BY RoomToPost DEF SendMessage, IOrder
<1>2. m_sMsgQ \in MsgQ /\ n = m_sMsgQ.size /\ m_sMsgQ' = Push(m_sMsgQ, cb[t].msg)
  BY <1>1 DEF SendMessage, IOrder, IOwner, ITyped, TypeOK, MsgQ
<1>3. cb[t].msg \in Msgs /\ cb[t].msg \in LiveMsgs
  BY LiveMsgsAreMsgs DEF SendMessage, IOrder, IOwner, ITyped, MsgsTyped
<1>4. c \in Seq(Msgs \cup {NoMsg}) /\ Len(c) = n
  BY <1>2, ContentsLen
<1>5. Contents(m_sMsgQ)' = Append(c, cb[t].msg) /\ m_sMsgQ'.size = n + 1
  BY <1>1, <1>2, <1>3, PushAppends DEF Push
<1>6. /\ n + 1 \in 1 .. n + 1 /\ Contents(m_sMsgQ)'[n + 1] = cb[t].msg
      /\ \A i \in 1 .. n : Contents(m_sMsgQ)'[i] = c[i]
      /\ \A i \in 1 .. n + 1 : i = n + 1 \/ (i \in 1 .. n /\ i < n + 1)
      /\ 1 .. n \subseteq 1 .. n + 1
  BY <1>2, <1>3, <1>4, <1>5
<1>7. UNCHANGED <<pc, msg, outFile, bitstream, omx, filePos, yuv, m_nFrameIn>>
  BY DEF SendMessage, mainVars, memVars
<1>8. Posting = {t} /\ Posting' = {}
  BY DEF SendMessage, Posting, IdleCb, IOrder, IOwner, ITyped, TypeOK
<1>9. InSlot(n + 1)' = Called /\ Called' = {}
  <2>1. Called = Data(cb[t].msg) /\ Called' = {}
    BY <1>8 DEF Called
  <2>2. InSlot(n + 1)' = Data(cb[t].msg)
    BY <1>6, <1>7 DEF InSlot, Data
  <2> QED BY <2>1, <2>2
<1>10. \A i \in 1 .. n : InSlot(i)' = InSlot(i)
  BY <1>6, <1>7 DEF InSlot, Data
<1>11. Written' = Written /\ Writing' = Writing /\ Encoded' = Encoded
  BY <1>7 DEF Written, Writing, Encoded, Data
<1>12. InQueue' = InQueue \cup Called
  <2>1. \A x : x \in InQueue' <=> \E i \in 1 .. n + 1 : x \in InSlot(i)'
    BY <1>5 DEF InQueue
  <2> QED BY <1>6, <1>9, <1>10, <2>1, InQueueHas
<1>13. Delivered' = Delivered
  BY <1>9, <1>11, <1>12 DEF Delivered
<1>14. InOrder'
  <2>1. \A i \in 1 .. n : Less(InSlot(i), Called)
    BY InQueueHas DEF IOrder, InOrder, Less
  <2>2. Less(Written \cup Writing, Called)
    BY DEF IOrder, InOrder, Less
  <2>3. ASSUME NEW i \in 1 .. n + 1 PROVE Less(Written \cup Writing, InSlot(i)')
    BY <1>6, <1>9, <1>10, <2>2 DEF IOrder, InOrder
  <2>4. ASSUME NEW i \in 1 .. n + 1, NEW j \in 1 .. n + 1, i < j
        PROVE  Less(InSlot(i)', InSlot(j)')
    <3>1. i \in 1 .. n
      BY <1>2, <2>4
    <3> QED BY <1>6, <1>9, <1>10, <2>1, <2>4, <3>1 DEF IOrder, InOrder
  <2>5. Less(Written \cup Writing \cup InQueue', Called')
    BY <1>9 DEF Less
  <2> QED BY <1>5, <1>7, <1>11, <1>13, <2>3, <2>4, <2>5 DEF IOrder, InOrder
<1>15. Numbered'
  BY <1>7, <1>11, <1>13 DEF IOrder, Numbered
<1> QED BY <1>14, <1>15

(* A callback from an idle thread, the only one: nothing was in a callback *)
(* before it.                                                              *)
LEMMA OnlyCallback ==
    ASSUME IOrder, NEW t \in CbThreads, CbThreads = {t}, NEW m \in LiveMsgs, Callback(t, m)
    PROVE  Called = {} /\ Called' = Data(m)'
<1>1. Posting = {} /\ Posting' = {t} /\ cb'[t].msg = m
  BY DEF Callback, Posting, IOrder, IOwner, ITyped, TypeOK
<1> QED BY <1>1 DEF Called, Data

(* FBD_CB on a header the component had: what it put in the header's       *)
(* memory is announced, and no item that is on its way is overwritten.     *)
LEMMA Deliver ==
    ASSUME IOrder, NEW t \in CbThreads, CbThreads = {t}, NEW b \in OutBufs, b \in omx.out,
           FBD_CB(t, b), NEW data, bitstream' = [bitstream EXCEPT ![b] = data],
           UNCHANGED <<pc, msg, outFile, m_sMsgQ>>
    PROVE  /\ Written' = Written /\ Writing' = Writing /\ InQueue' = InQueue
           /\ \A i \in 1 .. m_sMsgQ.size : InSlot(i)' = InSlot(i)
           /\ Called = {} /\ Called' = Values(data)
<1>1. b \in AtOmx
  BY DEF AtOmx
<1>2. ASSUME NEW x, x # b PROVE bitstream'[x] = bitstream[x]
  BY <1>2 DEF IOrder, IOwner, ITyped, TypeOK
<1>3. Written' = Written
  BY DEF Written
<1>4. Writing' = Writing
  <2>1. pc = "write" => msg.buf # b
    BY <1>1 DEF IOrder, IOwner, OneOwner, AtMain
  <2> QED BY <1>2, <2>1 DEF Writing, Data
<1>5. ASSUME NEW i \in 1 .. m_sMsgQ.size PROVE InSlot(i)' = InSlot(i)
  <2>1. Contents(m_sMsgQ)[i].buf # b
    BY <1>1 DEF IOrder, IOwner, OneOwner, Queued
  <2> QED BY <1>2, <2>1 DEF InSlot, Data
<1>6. InQueue' = InQueue
  BY <1>5 DEF InQueue
<1>7. [id |-> "OUTPUT_FRAME_DONE", buf |-> b] \in LiveMsgs
  BY DEF LiveMsgs, OutMsgs
<1>8. Called = {} /\ Called' = Data([id |-> "OUTPUT_FRAME_DONE", buf |-> b])'
  BY <1>7, OnlyCallback DEF FBD_CB
<1>9. bitstream'[b] = data
  BY DEF IOrder, IOwner, ITyped, TypeOK
<1> QED BY <1>3, <1>4, <1>5, <1>6, <1>8, <1>9 DEF Data

(* EBD_CB announces an input header, which carries no item.                *)
LEMMA HandBack ==
    ASSUME IOrder, NEW t \in CbThreads, CbThreads = {t}, EBD_CB(t, FirstIn),
           UNCHANGED <<pc, msg, outFile, m_sMsgQ, bitstream>>
    PROVE  /\ Written' = Written /\ Writing' = Writing /\ InQueue' = InQueue
           /\ \A i \in 1 .. m_sMsgQ.size : InSlot(i)' = InSlot(i)
           /\ Called = {} /\ Called' = {}
<1>1. [id |-> "INPUT_FRAME_DONE", buf |-> FirstIn] \in LiveMsgs
  BY DEF LiveMsgs, InMsgs
<1>2. Called = {} /\ Called' = Data([id |-> "INPUT_FRAME_DONE", buf |-> FirstIn])'
  BY <1>1, OnlyCallback DEF EBD_CB
<1>3. \A i : InSlot(i)' = InSlot(i)
  BY DEF InSlot, Data
<1> QED BY <1>2, <1>3 DEF Written, Writing, InQueue, Data

(* The first frame in the encoder's own order.                             *)
LEMMA FirstFrame ==
    ASSUME NEW s \in Seq(Nat), s # <<>>,
           \A i, j \in 1 .. Len(s) : i < j => s[i] < s[j]
    PROVE  /\ Head(s) \in Values(s) /\ Values(Tail(s)) \subseteq Values(s)
           /\ \A x \in Values(Tail(s)) : Head(s) < x
           /\ \A i, j \in 1 .. Len(Tail(s)) : i < j => Tail(s)[i] < Tail(s)[j]
<1>1. /\ Len(s) \in Nat /\ Len(s) # 0 /\ Len(Tail(s)) = Len(s) - 1 /\ Head(s) = s[1]
      /\ \A i \in 1 .. Len(s) - 1 : Tail(s)[i] = s[i + 1]
  OBVIOUS
<1>2. 1 \in 1 .. Len(s) /\ \A i \in 1 .. Len(s) - 1 : i + 1 \in 1 .. Len(s) /\ 1 < i + 1
  BY <1>1
<1>3. Values(Tail(s)) = {s[i + 1] : i \in 1 .. Len(s) - 1}
  BY <1>1 DEF Values
<1>4. ASSUME NEW i \in 1 .. Len(s) - 1, NEW j \in 1 .. Len(s) - 1, i < j
      PROVE  Tail(s)[i] < Tail(s)[j]
  <2>1. i + 1 < j + 1
    BY <1>4
  <2> QED BY <1>1, <1>2, <2>1
<1> QED BY <1>1, <1>2, <1>3, <1>4 DEF Values

(* What a step of the component must show: the item it announces is later  *)
(* than all those delivered, and earlier than those still encoded.         *)
LEMMA ComponentKeepsOrder ==
    ASSUME IOrder, UNCHANGED m_sMsgQ,
           Written' = Written, Writing' = Writing, InQueue' = InQueue, Called = {},
           \A i \in 1 .. m_sMsgQ.size : InSlot(i)' = InSlot(i),
           Less(Delivered, Called'), Less(Delivered \cup Called', Encoded'),
           \A i, j \in 1 .. Len(omx'.frames) : i < j => omx'.frames[i] < omx'.frames[j]
    PROVE  InOrder' /\ Delivered' = Delivered \cup Called'
<1>1. Delivered = Written \cup Writing \cup InQueue
  BY DEF Delivered
<1>2. Delivered' = Delivered \cup Called'
  BY <1>1 DEF Delivered
<1> QED BY <1>1, <1>2 DEF IOrder, InOrder

LEMMA ComponentOrderStep ==
    ASSUME IOrder, NEW t \in CbThreads, CbThreads = {t}, ComponentStep(t)
    PROVE  InOrder' /\ Numbered'
<1>t. /\ omx \in Component /\ filePos \in Nat /\ omx.in \subseteq {FirstIn}
      /\ bitstream \in [OutBufs -> Seq({0} \cup Frames)]
  BY DEF IOrder, IOwner, ITyped, TypeOK, MsgsTyped
<1>1. UNCHANGED <<pc, msg, outFile, m_sMsgQ, filePos, m_nFrameIn, yuv>>
  BY DEF ComponentStep, Encode, FlushInput, Produce, ProduceConfig, FlushOutput, mainVars,
     queueVars, memVars
<1>2. /\ omx.frames \in Seq(Nat) /\ Delivered \subseteq Nat /\ Encoded \subseteq Nat
      /\ Less(Delivered, Encoded)
      /\ \A i, j \in 1 .. Len(omx.frames) : i < j => omx.frames[i] < omx.frames[j]
  <2>1. {0} \cup Frames \subseteq Nat /\ omx.frames \in Seq({0} \cup Frames)
    BY <1>t, VencAssumption DEF Frames, Component
  <2> QED BY <1>t, <2>1 DEF IOrder, InOrder, Numbered
<1>3. ASSUME NEW b \in InBufs, Encode(t, b) PROVE InOrder' /\ Numbered'
  <2>1. /\ b = FirstIn /\ omx.in = {FirstIn} /\ omx'.in = {} /\ omx'.config = omx.config
        /\ omx'.frames = Append(omx.frames, yuv[FirstIn]) /\ EBD_CB(t, FirstIn)
        /\ UNCHANGED bitstream
    BY <1>3, <1>t DEF Encode, Component, memVars
  <2>2. omx'.frames = Append(omx.frames, filePos)
    BY <2>1 DEF IOrder, Numbered
  <2>3. filePos > 0 /\ filePos \notin Delivered \cup Encoded /\ pc \notin {"lock", "etb"}
    BY <2>1 DEF IOrder, Numbered, IOwner, OneOwner, AtOmx, AtMain, ITyped, MainTyped, InMsgs
  <2>4. /\ Written' = Written /\ Writing' = Writing /\ InQueue' = InQueue
        /\ \A i \in 1 .. m_sMsgQ.size : InSlot(i)' = InSlot(i)
        /\ Called = {} /\ Called' = {}
    BY <1>1, <2>1, HandBack
  <2>5. /\ Len(omx'.frames) = Len(omx.frames) + 1 /\ omx'.frames[Len(omx.frames) + 1] = filePos
        /\ \A i \in 1 .. Len(omx.frames) : omx'.frames[i] = omx.frames[i]
        /\ \A i \in 1 .. Len(omx.frames) + 1 : i \in 1 .. Len(omx.frames) \/ i = Len(omx.frames) + 1
        /\ Len(omx.frames) + 1 \in 1 .. Len(omx.frames) + 1
        /\ 1 .. Len(omx.frames) \subseteq 1 .. Len(omx.frames) + 1
        /\ Len(omx.frames) \in Nat
    BY <1>2, <1>t, <2>2
  <2>6. Encoded' = Encoded \cup {filePos}
    BY <2>5 DEF Encoded, Values
  <2>7. \A x \in Delivered \cup Encoded : x \in Nat /\ x < filePos
    <3>1. \A x \in Delivered \cup Encoded : x \in 0 .. filePos
      BY <1>t DEF IOrder, Numbered
    <3> QED BY <1>t, <2>3, <3>1
  <2>8. \A i, j \in 1 .. Len(omx'.frames) : i < j => omx'.frames[i] < omx'.frames[j]
    <3>1. ASSUME NEW i \in 1 .. Len(omx.frames) PROVE omx.frames[i] < filePos
      BY <2>7 DEF Encoded, Values
    <3>2. ASSUME NEW i \in 1 .. Len(omx.frames) + 1, NEW j \in 1 .. Len(omx.frames) + 1, i < j
          PROVE  omx'.frames[i] < omx'.frames[j]
      <4>1. i \in 1 .. Len(omx.frames)
        BY <2>5, <3>2
      <4>2. CASE j \in 1 .. Len(omx.frames)
        BY <1>2, <2>5, <3>2, <4>1, <4>2
      <4>3. CASE j = Len(omx.frames) + 1
        BY <2>5, <3>1, <4>1, <4>3
      <4> QED BY <2>5, <4>2, <4>3
    <3> QED BY <2>5, <3>2
  <2>9. Less(Delivered, Called') /\ Less(Delivered \cup Called', Encoded')
    BY <1>2, <2>4, <2>6, <2>7 DEF Less
  <2>10. InOrder' /\ Delivered' = Delivered
    BY <1>1, <2>4, <2>8, <2>9, ComponentKeepsOrder
  <2>11. Numbered'
    BY <1>1, <1>t, <2>1, <2>3, <2>6, <2>10 DEF IOrder, Numbered
  <2> QED BY <2>10, <2>11
<1>4. ASSUME NEW b \in InBufs, FlushInput(t, b) PROVE InOrder' /\ Numbered'
  <2>1. /\ b = FirstIn /\ omx'.in \subseteq omx.in /\ omx'.config = omx.config
        /\ omx'.frames = omx.frames /\ EBD_CB(t, FirstIn) /\ UNCHANGED bitstream
    BY <1>4, <1>t DEF FlushInput, Component, memVars
  <2>2. /\ Written' = Written /\ Writing' = Writing /\ InQueue' = InQueue
        /\ \A i \in 1 .. m_sMsgQ.size : InSlot(i)' = InSlot(i)
        /\ Called = {} /\ Called' = {}
    BY <1>1, <2>1, HandBack
  <2>3. Encoded' = Encoded
    BY <2>1 DEF Encoded
  <2>4. Less(Delivered, Called') /\ Less(Delivered \cup Called', Encoded')
    BY <1>2, <2>2, <2>3 DEF Less
  <2>5. InOrder' /\ Delivered' = Delivered
    BY <1>1, <1>2, <2>1, <2>2, <2>4, ComponentKeepsOrder
  <2>6. omx'.in # {} => omx.in # {}
    BY <2>1
  <2> QED BY <1>1, <2>1, <2>3, <2>5, <2>6 DEF IOrder, Numbered
<1>5. ASSUME NEW b \in OutBufs, b \in omx.out, FBD_CB(t, b),
             NEW d \in Seq(Nat), bitstream' = [bitstream EXCEPT ![b] = d],
             Len(d) <= 1, omx'.in = omx.in,
             Less(Delivered, Values(d)), Less(Delivered \cup Values(d), Encoded'),
             \A i, j \in 1 .. Len(omx'.frames) : i < j => omx'.frames[i] < omx'.frames[j],
             Encoded' \subseteq Encoded, omx.config => omx'.config,
             Values(d) \subseteq Encoded \/ (Values(d) = {0} /\ omx'.config)
      PROVE  InOrder' /\ Numbered'
  <2>1. /\ Written' = Written /\ Writing' = Writing /\ InQueue' = InQueue
        /\ \A i \in 1 .. m_sMsgQ.size : InSlot(i)' = InSlot(i)
        /\ Called = {} /\ Called' = Values(d)
    BY <1>1, <1>5, Deliver
  <2>2. InOrder' /\ Delivered' = Delivered \cup Values(d)
    BY <1>1, <1>5, <2>1, ComponentKeepsOrder
  <2>3. \A x \in OutBufs : Len(bitstream'[x]) <= 1
    BY <1>5, <1>t DEF IOrder, Numbered
  <2>4. Encoded \subseteq 1 .. filePos /\ Delivered \subseteq 0 .. filePos /\ 0 \notin Encoded
    BY <1>t DEF IOrder, Numbered
  <2>5. Delivered' \subseteq 0 .. filePos' /\ Encoded' \subseteq 1 .. filePos'
    <3>1. Values(d) \subseteq 0 .. filePos
      <4>1. 1 .. filePos \subseteq 0 .. filePos /\ 0 \in 0 .. filePos
        BY <1>t
      <4>2. Values(d) \subseteq Encoded \cup {0}
        BY <1>5
      <4> QED BY <2>4, <4>1, <4>2
    <3> QED BY <1>1, <1>5, <2>2, <2>4, <3>1
  <2>6. ~omx'.config => 0 \notin Delivered'
    BY <1>5, <2>2, <2>4 DEF IOrder, Numbered
  <2>7. pc' \in {"lock", "etb"} \/ omx'.in # {} =>
           filePos' > 0 /\ filePos' \notin Delivered' \cup Encoded'
    <3> SUFFICES ASSUME pc \in {"lock", "etb"} \/ omx.in # {}
                 PROVE  filePos > 0 /\ filePos \notin Delivered' \cup Encoded'
      BY <1>1, <1>5
    <3>1. filePos > 0 /\ filePos \notin Delivered \cup Encoded
      BY DEF IOrder, Numbered
    <3>2. filePos \notin Values(d)
      BY <1>5, <1>t, <3>1
    <3> QED BY <1>5, <2>2, <3>1, <3>2
  <2>8. yuv'[FirstIn] = filePos' /\ m_nFrameIn' = IF pc' = "lock" THEN filePos' - 1 ELSE filePos'
    BY <1>1 DEF IOrder, Numbered
  <2> QED BY <2>2, <2>3, <2>5, <2>6, <2>7, <2>8 DEF Numbered
<1>6. ASSUME NEW b \in OutBufs, Produce(t, b) PROVE InOrder' /\ Numbered'
  <2> DEFINE s == omx.frames
  <2>1. /\ b \in omx.out /\ FBD_CB(t, b) /\ s # <<>> /\ omx'.in = omx.in
        /\ omx'.config = omx.config /\ omx'.frames = Tail(s)
    BY <1>6, <1>t DEF Produce, Component
  <2>2. /\ Head(s) \in Encoded /\ Encoded' \subseteq Encoded
        /\ \A x \in Encoded' : Head(s) < x
        /\ \A i, j \in 1 .. Len(omx'.frames) : i < j => omx'.frames[i] < omx'.frames[j]
    <3>1. \A i, j \in 1 .. Len(s) : i < j => s[i] < s[j]
      BY <1>2
    <3>2. s \in Seq(Nat) /\ s # <<>>
      BY <1>2, <2>1
    <3>3. Encoded = Values(s) /\ Encoded' = Values(Tail(s))
      BY <2>1 DEF Encoded
    <3> HIDE DEF s
    <3> QED BY <2>1, <3>1, <3>2, <3>3, FirstFrame
  <2>3. PICK d \in {<<Head(s)>>, <<>>} : bitstream' = [bitstream EXCEPT ![b] = d]
    BY <1>6 DEF Produce
  <2>4. Head(s) \in Nat
    BY <1>2, <2>2
  <2>5. d \in Seq(Nat) /\ Len(d) <= 1 /\ Values(d) \subseteq {Head(s)}
    <3> HIDE DEF s
    <3>1. CASE d = <<>>
      <4>1. Len(d) = 0 /\ 1 .. 0 = {}
        BY <3>1
      <4> QED BY <3>1, <4>1 DEF Values
    <3>2. CASE d = <<Head(s)>>
      <4>1. Len(d) = 1 /\ d[1] = Head(s) /\ 1 .. 1 = {1} /\ d \in Seq(Nat)
        BY <2>4, <3>2
      <4> QED BY <4>1 DEF Values
    <3> QED BY <2>3, <3>1, <3>2
  <2>6. Less(Delivered, Values(d)) /\ Less(Delivered \cup Values(d), Encoded')
    BY <1>2, <2>2, <2>5 DEF Less
  <2>7. Values(d) \subseteq Encoded
    BY <2>2, <2>5
  <2> QED BY <1>5, <2>1, <2>2, <2>3, <2>5, <2>6, <2>7
<1>7. ASSUME NEW b \in OutBufs, ProduceConfig(t, b) PROVE InOrder' /\ Numbered'
  <2> DEFINE d == <<0>>
  <2>1. /\ b \in omx.out /\ FBD_CB(t, b) /\ omx.frames = <<1>> /\ ~omx.config
        /\ omx'.in = omx.in /\ omx'.config /\ omx'.frames = omx.frames
        /\ bitstream' = [bitstream EXCEPT ![b] = d]
    BY <1>7, <1>t DEF ProduceConfig, Component
  <2>2. Encoded = {1} /\ Encoded' = Encoded
    <3>1. Len(omx.frames) = 1 /\ omx.frames[1] = 1 /\ 1 .. 1 = {1}
      BY <2>1
    <3> QED BY <2>1, <3>1 DEF Encoded, Values
  <2>3. Delivered = {}
    <3>1. 0 \notin Delivered
      BY <2>1 DEF IOrder, Numbered
    <3>2. \A x \in Delivered : x \in Nat /\ x < 1
      BY <1>2, <2>2 DEF Less
    <3> QED BY <3>1, <3>2
  <2>4. d \in Seq(Nat) /\ Len(d) <= 1 /\ Values(d) = {0}
    <3>1. Len(d) = 1 /\ d[1] = 0 /\ 1 .. 1 = {1}
      OBVIOUS
    <3> QED BY <3>1 DEF Values
  <2>5. Less(Delivered, Values(d)) /\ Less(Delivered \cup Values(d), Encoded')
    BY <2>2, <2>3, <2>4 DEF Less
  <2> HIDE DEF d
  <2> QED BY <1>2, <1>5, <2>1, <2>2, <2>4, <2>5
<1>8. ASSUME NEW b \in OutBufs, FlushOutput(t, b) PROVE InOrder' /\ Numbered'
  <2> DEFINE d == <<>>
  <2>1. /\ b \in omx.out /\ FBD_CB(t, b) /\ omx'.in = omx.in /\ omx'.config = omx.config
        /\ omx'.frames = omx.frames /\ bitstream' = [bitstream EXCEPT ![b] = d]
    BY <1>8, <1>t DEF FlushOutput, Component
  <2>2. Encoded' = Encoded
    BY <2>1 DEF Encoded
  <2>3. d \in Seq(Nat) /\ Len(d) <= 1 /\ Values(d) = {}
    <3>1. Len(d) = 0 /\ 1 .. 0 = {} /\ d \in Seq(Nat)
      OBVIOUS
    <3> QED BY <3>1 DEF Values
  <2>4. Less(Delivered, Values(d)) /\ Less(Delivered \cup Values(d), Encoded')
    BY <1>2, <2>2, <2>3 DEF Less
  <2> HIDE DEF d
  <2> QED BY <1>2, <1>5, <2>1, <2>2, <2>3, <2>4
<1> QED BY <1>3, <1>4, <1>6, <1>7, <1>8 DEF ComponentStep

LEMMA NextOrder ==
    ASSUME NEW t \in CbThreads, CbThreads = {t}, IOrder, [Next]_vars
    PROVE  IOrder'
<1> SUFFICES InOrder' /\ Numbered'
  BY NextOwner DEF IOrder
<1>1. CASE MainStep
  BY <1>1, MainOrderStep, WriteOrderStep, PopOrderStep
<1>2. CASE SpuriousWakeup \/ CallFails \/ EVT_CB \/ UNCHANGED vars
  <2>1. /\ UNCHANGED <<outFile, m_sMsgQ, cb, bitstream, omx.frames, omx.in, omx.config,
                       filePos, yuv, m_nFrameIn, msg>>
        /\ pc' = pc \/ (pc' = "exited" /\ pc \in DOMAIN CallOf)
    BY <1>2 DEF SpuriousWakeup, CallFails, EVT_CB, vars, mainVars, queueVars, memVars, Goto,
       IOrder, IOwner, ITyped, TypeOK, Component
  <2>2. pc' = pc \/ (pc' = "exited" /\ pc \notin {"write", "lock"})
    BY <2>1 DEF CallOf
  <2>3. Writing' = Writing
    BY <2>1, <2>2 DEF Writing, Data
  <2>4. InOrder' /\ Delivered' = Delivered /\ Encoded' = Encoded
    BY <2>1, <2>3, SameData DEF IOrder
  <2> QED BY <2>1, <2>2, <2>4 DEF IOrder, Numbered
<1>3. ASSUME NEW u \in CbThreads, SendMessage(u) \/ ComponentStep(u) PROVE InOrder' /\ Numbered'
  <2>1. u = t
    OBVIOUS
  <2> QED BY <1>3, <2>1, PostOrderStep, ComponentOrderStep
<1> QED BY <1>1, <1>2, <1>3 DEF Next, Terminated

(* Every step feeds one frame, writes one later item, or does neither.     *)
LEMMA StepIsPipe ==
    ASSUME IOrder, [Next]_vars
    PROVE  [Pipe!Feed \/ Pipe!Write]_<<m_nFrameIn, outFile>>
<1>1. CASE WriteOutput
  <2>1. UNCHANGED m_nFrameIn /\ pc = "write" /\ filePos \in Nat
    BY <1>1 DEF WriteOutput, IOrder, IOwner, ITyped, TypeOK
  <2>2. ASSUME NEW f \in Writing, outFile' = Append(outFile, f) PROVE Pipe!Write
    <3>1. f \in 0 .. filePos /\ m_nFrameIn = filePos
      BY <2>1 DEF IOrder, Numbered, Delivered
    <3>2. outFile # <<>> => Pipe!Last(outFile) < f
      <4>1. outFile # <<>> => Len(outFile) \in 1 .. Len(outFile)
        BY DEF IOrder, IOwner, ITyped, TypeOK
      <4>2. outFile # <<>> => outFile[Len(outFile)] \in Written
        BY <4>1 DEF Written, Values
      <4> QED BY <4>2 DEF IOrder, InOrder, Less, Pipe!Last
    <3> QED BY <2>1, <2>2, <3>1, <3>2 DEF Pipe!Write
  <2> QED BY <1>1, <2>1, <2>2, WriteOrderStep
<1>2. CASE LockToEncode
  BY <1>2 DEF LockToEncode, Pipe!Feed
<1>3. CASE [Next]_vars /\ ~WriteOutput /\ ~LockToEncode
  <2>1. UNCHANGED <<m_nFrameIn, outFile>>
    BY <1>3 DEF Next, MainStep, SendIdle, SetExecuting, NowExecuting, RegisterYUVBuffer,
       PmemFree, UseOutputBuffer, FillFirst, ReadFrame, ReadFails, EmptyThisBuffer,
       UnlockAfterEncode, PopMessage, CondWait, FillThisBuffer, CountOutput, SendLoaded,
       FreeBuffer, FreeHandle, SpuriousWakeup, CallFails, EVT_CB, Terminated, SendMessage,
       ComponentStep, Encode, FlushInput, Produce, ProduceConfig, FlushOutput, mainVars, vars
  <2> QED BY <2>1, SMTT(30)
<1> QED BY <1>1, <1>2, <1>3

(* With one callback thread the output file grows by frames that were fed, *)
(* each one later than the last, and never repeats one, whatever the       *)
(* number of headers, of frames and of frames the encoder holds back.      *)
THEOREM OneThreadWritesInOrder ==
    ASSUME NEW t \in CbThreads, CbThreads = {t}
    PROVE  Spec => WritesInOrder
<1>1. Init => Pipe!Init
  BY DEF Init, Pipe!Init
<1>2. IOrder /\ [Next]_vars => IOrder'
  BY NextOrder
<1>3. IOrder /\ [Next]_vars => [Pipe!Feed \/ Pipe!Write]_<<m_nFrameIn, outFile>>
  BY StepIsPipe
<1> QED BY <1>1, <1>2, <1>3, InitOrder, PTL DEF Spec, WritesInOrder, Pipe!Spec

=============================================================================
