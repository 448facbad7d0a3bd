------------------------- MODULE SecBufPool_proofs -------------------------
(***************************************************************************)
(* What SecBufPool promises for any capacity and number of frames.  Where  *)
(* an allocation may fail, two buffers have the same buf_idx and nothing   *)
(* of this holds but the types.                                            *)
(***************************************************************************)
EXTENDS SecBufPool, TLAPS, SequenceTheorems, WellFoundedInduction

(* Every action, for the proofs that a step preserves an invariant.        *)
LEMMA Steps ==
    ASSUME [Next]_vars
    PROVE  \/ NeedData \/ Claim \/ NoneFree \/ Sleep \/ ReadFrame \/ CryptoCopy
           \/ Push \/ EndOfStream \/ Deliver \/ PostEmptied \/ PostEOS \/ PostError
           \/ MsgHandler \/ SetStateNull \/ FreeAll \/ UNCHANGED vars
  BY DEF Next, Streaming, Pipeline, Main, Terminated

(* A nonempty set of buffers has a first one.                              *)
LEMMA FirstOf ==
    ASSUME NEW S \in SUBSET Bufs, S # {}
    PROVE  \E b \in S : \A c \in S : b <= c
<1>1. S \subseteq Nat
  BY SecAssumption DEF Bufs
<1>2. PICK b \in S : \A c \in S : <<c, b>> \notin OpToRel(<, Nat)
  BY <1>1, WFMin, NatLessThanWellFounded, Zenon
<1>3. \A c \in S : ~(c < b)
  BY <1>1, <1>2, Zenon DEF OpToRel
<1> QED BY <1>1, <1>3

LEMMA ClaimsAFreeBuffer ==
    ASSUME Claim
    PROVE  buf' \in Bufs /\ ~used[buf'] /\ used' = [used EXCEPT ![buf'] = TRUE]
<1>1. Claimable \in SUBSET Bufs /\ Claimable # {}
  BY DEF Claim, Claimable, Free
<1>2. PICK b \in Claimable : \A c \in Claimable : b <= c
  BY <1>1, FirstOf
<1>3. buf' \in Claimable
  BY <1>2 DEF Claim
<1> QED BY <1>3 DEF Claim, Claimable, Free

-----------------------------------------------------------------------------
(* Types.                                                                  *)

LEMMA FirstBuffer == 0 \in Bufs
  BY SecAssumption DEF Bufs

(* onNeedData copies and pushes a frame that it has read.                  *)
ITyped == TypeOK /\ (at \in {"copy", "push"} => frame \in Frames)

LEMMA InitTyped == Init => ITyped
<1> SUFFICES ASSUME Init PROVE ITyped
  OBVIOUS
<1>1. buf_idx \in [Bufs -> Bufs]
  BY FirstBuffer DEF Init
<1>2. queue \in Seq(Entries) /\ bus \in Seq(Messages)
  BY EmptySeq DEF Init
<1>3. 0 \in 0 .. NumFrames
  BY SecAssumption
<1> QED BY <1>1, <1>2, <1>3, FirstBuffer DEF Init, ITyped, TypeOK

(* A message of the bus is one of these.                                   *)
LEMMA MessageForms ==
    /\ \A b \in Bufs : [type |-> "etbd", idx |-> b] \in Messages
    /\ [type |-> "EOS"] \in Messages /\ [type |-> "ERROR"] \in Messages
    /\ \A m \in Messages : /\ m.type = "etbd" => m.idx \in Bufs
                           /\ m.type \in {"etbd", "EOS", "ERROR"}
  BY DEF Messages

LEMMA TypedStep == ITyped /\ [Next]_vars => ITyped'
<1> SUFFICES ASSUME ITyped, [Next]_vars PROVE ITyped'
  OBVIOUS
<1> USE DEF poolVars, needVars, pipeVars, ITyped
<1>1. CASE NeedData
  BY <1>1 DEF NeedData, TypeOK
<1>2. CASE Claim
  BY <1>2, ClaimsAFreeBuffer DEF Claim, TypeOK
<1>3. CASE NoneFree
  BY <1>3 DEF NoneFree, TypeOK
<1>4. CASE Sleep
  BY <1>4 DEF Sleep, TypeOK
<1>5. CASE ReadFrame
  <2>1. filePos \in 0 .. NumFrames /\ NumFrames \in Nat
    BY SecAssumption DEF TypeOK
  <2>2. filePos < NumFrames => filePos + 1 \in Frames /\ filePos + 1 \in 0 .. NumFrames
    BY <2>1 DEF Frames
  <2> QED BY <1>5, <2>1, <2>2 DEF ReadFrame, TypeOK
<1>6. CASE CryptoCopy
  <2>1. PICK f \in {0} \cup Frames : secure' = [secure EXCEPT ![buf] = f]
    BY <1>6 DEF CryptoCopy, TypeOK
  <2>2. copied' \in BOOLEAN
    BY <1>6 DEF CryptoCopy
  <2>3. secure' \in [Bufs -> {0} \cup Frames]
    BY <2>1 DEF TypeOK
  <2>4. at = "copy" /\ at' = "push"
        /\ UNCHANGED <<used, buf_idx, buf, frame, filePos, pipeVars, bus, loop>>
    BY <1>6 DEF CryptoCopy
  <2> QED BY <2>2, <2>3, <2>4 DEF TypeOK
<1>7. CASE Push
  <2>1. [slot |-> buf, idx |-> buf_idx[buf], frame |-> frame, copied |-> copied]
           \in Entries
    BY <1>7 DEF Push, Entries, TypeOK
  <2>2. queue' \in Seq(Entries)
    BY <1>7, <2>1, AppendProperties DEF Push, TypeOK
  <2> QED BY <1>7, <2>2 DEF Push, TypeOK
<1>8. CASE EndOfStream
  BY <1>8 DEF EndOfStream, TypeOK
<1>9. CASE Deliver
  <2>1. Head(queue) \in Entries /\ Tail(queue) \in Seq(Entries)
    BY <1>9, HeadTailProperties DEF Deliver, TypeOK
  <2> QED BY <1>9, <2>1 DEF Deliver, TypeOK
<1>10. CASE PostEmptied
  <2>1. PICK e \in decoder : decoder' = decoder \ {e}
                             /\ bus' = Append(bus, [type |-> "etbd", idx |-> e.idx])
    BY <1>10 DEF PostEmptied
  <2>2. e.idx \in Bufs
    BY <2>1 DEF TypeOK, Entries
  <2>3. bus' \in Seq(Messages)
    BY <2>1, <2>2, MessageForms, AppendProperties DEF TypeOK
  <2> QED BY <1>10, <2>1, <2>3 DEF PostEmptied, TypeOK
<1>11. CASE PostEOS
  <2>1. bus' \in Seq(Messages)
    BY <1>11, MessageForms, AppendProperties DEF PostEOS, TypeOK
  <2> QED BY <1>11, <2>1 DEF PostEOS, TypeOK
<1>12. CASE PostError
  <2>1. bus' \in Seq(Messages)
    BY <1>12, MessageForms, AppendProperties DEF PostError, TypeOK
  <2> QED BY <1>12, <2>1 DEF PostError, TypeOK
<1>13. CASE MsgHandler
  <2>1. Head(bus) \in Messages /\ bus' \in Seq(Messages)
    BY <1>13, HeadTailProperties DEF MsgHandler, TypeOK
  <2>2. CASE Head(bus).type = "etbd"
    BY <1>13, <2>1, <2>2 DEF MsgHandler, FreeAndBroadcast, TypeOK
  <2>3. CASE Head(bus).type # "etbd"
    BY <1>13, <2>1, <2>3 DEF MsgHandler, QuitOn, Quit, TypeOK
  <2> QED BY <2>2, <2>3
<1>14. CASE SetStateNull
  BY <1>14 DEF SetStateNull, TypeOK
<1>15. CASE FreeAll
  <2>1. queue' \in Seq(Entries) /\ bus' \in Seq(Messages) /\ decoder' = {}
    BY <1>15, EmptySeq DEF FreeAll
  <2> QED BY <1>15, <2>1 DEF FreeAll, TypeOK
<1>16. CASE UNCHANGED vars
  BY <1>16 DEF vars, TypeOK
<1> QED BY Steps, <1>1, <1>2, <1>3, <1>4, <1>5, <1>6, <1>7, <1>8, <1>9, <1>10, <1>11,
           <1>12, <1>13, <1>14, <1>15, <1>16

(* Every variable of secureappsrc keeps its type, also where allocations   *)
(* fail.                                                                   *)
THEOREM TypeCorrect == Spec => []TypeOK
<1>1. ITyped => TypeOK
  BY DEF ITyped
<1> QED BY <1>1, InitTyped, TypedStep, PTL DEF Spec

-----------------------------------------------------------------------------
(* Where the buffers are, when no allocation has failed.                   *)

(* A call is made when the queue is empty, before EOS, and main waits for  *)
(* it before it frees the pool.                                            *)
Calls ==
    /\ Len(queue) <= 1
    /\ at # "idle" => queue = <<>> /\ ~eos /\ loop # "done"

SameIndex ==
    /\ \A b \in Bufs : buf_idx[b] = b
    /\ \A i \in 1 .. Len(queue) : queue[i].idx = queue[i].slot
    /\ \A e \in decoder : e.idx = e.slot

Marked == Playing => \A b \in InHand \cup InQueue \cup InDecoder \cup InBus : used[b]

Apart ==
    /\ InHand \cap (InQueue \cup InDecoder \cup InBus) = {}
    /\ InQueue \cap (InDecoder \cup InBus) = {} /\ InDecoder \cap InBus = {}

DecodedOnce == \A d, e \in decoder : d.slot = e.slot => d = e
ReleasedOnce == \A i, j \in Etbds : bus[i].idx = bus[j].idx => i = j

IHolder ==
    /\ ITyped /\ Calls /\ SameIndex
    /\ Marked /\ Apart /\ DecodedOnce /\ ReleasedOnce /\ NoneLeaks

(* How the messages of the bus change.                                     *)
BusPlaces == UNCHANGED <<Etbds, InBus>> /\ (ReleasedOnce => ReleasedOnce')

LEMMA BusStays ==
    ASSUME UNCHANGED bus
    PROVE  BusPlaces
  BY DEF BusPlaces, Etbds, InBus, ReleasedOnce

LEMMA OtherPosted ==
    ASSUME TypeOK, NEW m \in Messages, m.type # "etbd", bus' = Append(bus, m)
    PROVE  BusPlaces
<1>1. /\ Len(bus') = Len(bus) + 1 /\ bus'[Len(bus) + 1] = m /\ Len(bus) \in Nat
      /\ \A i \in 1 .. Len(bus) : bus'[i] = bus[i]
  BY AppendProperties DEF TypeOK
<1>2. Etbds' = Etbds
  BY <1>1 DEF Etbds
<1>3. \A i \in Etbds : bus'[i] = bus[i]
  BY <1>1 DEF Etbds
<1>4. InBus' = InBus
  BY <1>2, <1>3 DEF InBus
<1>5. ASSUME ReleasedOnce, NEW i \in Etbds', NEW j \in Etbds', bus'[i].idx = bus'[j].idx
      PROVE  i = j
  <2>1. i \in Etbds /\ j \in Etbds /\ bus'[i] = bus[i] /\ bus'[j] = bus[j]
    BY <1>2, <1>3
  <2> QED BY <1>5, <2>1 DEF ReleasedOnce
<1> QED BY <1>2, <1>4, <1>5 DEF BusPlaces, ReleasedOnce

LEMMA ReleasePosted ==
    ASSUME TypeOK, NEW b \in Bufs, bus' = Append(bus, [type |-> "etbd", idx |-> b])
    PROVE  /\ InBus' = InBus \cup {b}
           /\ ReleasedOnce /\ b \notin InBus => ReleasedOnce'
<1> DEFINE n == Len(bus) + 1
<1>1. /\ Len(bus') = n /\ bus'[n] = [type |-> "etbd", idx |-> b] /\ n \in Nat
      /\ \A i \in 1 .. Len(bus) : bus'[i] = bus[i]
  BY MessageForms, AppendProperties DEF TypeOK
<1>2. Etbds' = Etbds \cup {n}
  BY <1>1 DEF Etbds
<1>3. (\A i \in Etbds : bus'[i] = bus[i]) /\ bus'[n].idx = b
  BY <1>1 DEF Etbds
<1>4. InBus' = InBus \cup {b}
  BY <1>2, <1>3 DEF InBus
<1>5. ASSUME ReleasedOnce, b \notin InBus,
             NEW i \in Etbds', NEW j \in Etbds', bus'[i].idx = bus'[j].idx
      PROVE  i = j
  <2>1. \A e \in Etbds : bus[e].idx # b /\ bus'[e].idx = bus[e].idx
    BY <1>3, <1>5 DEF InBus
  <2>2. CASE i \in Etbds /\ j \in Etbds
    BY <1>5, <2>1, <2>2 DEF ReleasedOnce
  <2>3. CASE i = n \/ j = n
    BY <1>2, <1>3, <1>5, <2>1, <2>3
  <2> QED BY <1>2, <2>2, <2>3
<1> QED BY <1>4, <1>5 DEF ReleasedOnce

LEMMA FirstHandled ==
    ASSUME TypeOK, ReleasedOnce, bus # <<>>, bus' = Tail(bus)
    PROVE  /\ ReleasedOnce'
           /\ Head(bus).type # "etbd" => InBus' = InBus
           /\ Head(bus).type = "etbd" => /\ Head(bus).idx \in InBus
                                         /\ InBus' = InBus \ {Head(bus).idx}
<1>1. /\ Len(bus') = Len(bus) - 1 /\ Len(bus) \in Nat \ {0} /\ bus[1] = Head(bus)
      /\ \A i \in 1 .. Len(bus') : bus'[i] = bus[i + 1]
  BY HeadTailProperties DEF TypeOK
<1>2. \A i \in Etbds' : /\ i \in 1 .. Len(bus') /\ i + 1 \in Etbds
                        /\ bus'[i] = bus[i + 1] /\ i + 1 # 1
  BY <1>1 DEF Etbds
<1>3. \A i \in Etbds : i # 1 => i - 1 \in Etbds' /\ bus'[i - 1] = bus[i]
  <2>1. SUFFICES ASSUME NEW i \in Etbds, i # 1
                 PROVE  i - 1 \in Etbds' /\ bus'[i - 1] = bus[i]
    OBVIOUS
  <2>2. i - 1 \in 1 .. Len(bus') /\ (i - 1) + 1 = i /\ bus[i].type = "etbd"
    BY <1>1, <2>1 DEF Etbds
  <2>3. bus'[i - 1] = bus[i]
    BY <1>1, <2>2
  <2> QED BY <2>2, <2>3 DEF Etbds
<1>4. 1 \in Etbds <=> Head(bus).type = "etbd"
  BY <1>1 DEF Etbds
<1>5. ReleasedOnce'
  <2>1. SUFFICES ASSUME NEW i \in Etbds', NEW j \in Etbds', bus'[i].idx = bus'[j].idx
                 PROVE  i = j
    BY DEF ReleasedOnce
  <2>2. i + 1 = j + 1 /\ i \in Nat /\ j \in Nat
    BY <1>1, <1>2, <2>1 DEF ReleasedOnce
  <2> QED BY <2>2
<1>6. InBus' \subseteq InBus
  BY <1>2 DEF InBus
<1>7. ASSUME NEW b \in InBus, b \notin InBus' PROVE 1 \in Etbds /\ b = Head(bus).idx
  <2>1. PICK i \in Etbds : b = bus[i].idx
    BY <1>7 DEF InBus
  <2>2. i = 1
    BY <1>3, <1>7, <2>1 DEF InBus
  <2> QED BY <1>1, <2>1, <2>2
<1>8. ASSUME 1 \in Etbds PROVE Head(bus).idx \in InBus \ InBus'
  <2>1. Head(bus).idx \in InBus
    BY <1>1, <1>8 DEF InBus
  <2>2. ASSUME NEW i \in Etbds', bus'[i].idx = Head(bus).idx PROVE FALSE
    BY <1>1, <1>2, <1>8, <2>2 DEF ReleasedOnce
  <2> QED BY <2>1, <2>2 DEF InBus
<1> QED BY <1>4, <1>5, <1>6, <1>7, <1>8

(* The queue of appsrc has one buffer at most.                             *)
LEMMA QueueHolds ==
    ASSUME TypeOK, Calls
    PROVE  /\ queue = <<>> => InQueue = {}
           /\ queue # <<>> => /\ InQueue = {Head(queue).slot} /\ Tail(queue) = <<>>
                              /\ queue[1] = Head(queue) /\ Len(queue) = 1
                              /\ Head(queue) \in Entries
<1>1. CASE queue = <<>>
  BY <1>1 DEF InQueue
<1>2. CASE queue # <<>>
  <2>1. Len(queue) \in Nat \ {0} /\ queue[1] = Head(queue) /\ Head(queue) \in Entries
        /\ Tail(queue) \in Seq(Entries) /\ Len(Tail(queue)) = Len(queue) - 1
    BY <1>2, HeadTailProperties DEF TypeOK
  <2>2. Len(queue) = 1 /\ Len(Tail(queue)) = 0
    BY <2>1 DEF Calls
  <2>3. Tail(queue) = <<>>
    BY <2>1, <2>2, EmptySeq
  <2> QED BY <1>2, <2>1, <2>2, <2>3 DEF InQueue
<1> QED BY <1>1, <1>2

(* A step that leaves queue and decoder alone, and posts no release.       *)
LEMMA PipeStays ==
    ASSUME IHolder, UNCHANGED <<buf_idx, queue, decoder>>, BusPlaces
    PROVE  /\ UNCHANGED <<InQueue, InDecoder, InBus>> /\ SameIndex'
           /\ DecodedOnce' /\ ReleasedOnce'
  BY DEF IHolder, BusPlaces, InQueue, InDecoder, SameIndex, DecodedOnce

LEMMA PlacesAreBuffers ==
    ASSUME TypeOK
    PROVE  InHand \cup InQueue \cup InDecoder \cup InBus \subseteq Bufs
<1>1. InHand \subseteq Bufs /\ InDecoder \subseteq Bufs
  BY DEF TypeOK, InHand, InDecoder, Entries
<1>2. \A i \in 1 .. Len(queue) : queue[i] \in Entries
  BY ElementOfSeq DEF TypeOK
<1>3. \A i \in 1 .. Len(bus) : bus[i] \in Messages
  BY ElementOfSeq DEF TypeOK
<1>4. InQueue \subseteq Bufs
  BY <1>2 DEF InQueue, Entries
<1>5. InBus \subseteq Bufs
  BY <1>3, MessageForms DEF InBus, Etbds
<1> QED BY <1>1, <1>4, <1>5

LEMMA HolderStep == IHolder /\ [Next]_vars => IHolder'
<1> SUFFICES ASSUME IHolder, [Next]_vars PROVE IHolder'
  OBVIOUS
<1> USE DEF poolVars, needVars, pipeVars
<1>0. ITyped' /\ ITyped /\ TypeOK
  BY TypedStep DEF IHolder, ITyped
<1>a. /\ used \in [Bufs -> BOOLEAN] /\ buf \in Bufs /\ decoder \subseteq Entries
      /\ queue \in Seq(Entries)
  BY <1>0 DEF TypeOK
<1> SUFFICES /\ Calls' /\ SameIndex' /\ Marked' /\ Apart' /\ DecodedOnce'
             /\ ReleasedOnce' /\ NoneLeaks'
  BY <1>0 DEF IHolder
(* A step that leaves every buffer where it is, but for the last one.      *)
<1>b. ASSUME InHand' = InHand \/ (InHand = {buf} /\ InHand' = {} /\ eos'),
             UNCHANGED <<used, buf_idx, buf, queue, decoder>>, eos => eos',
             BusPlaces, Playing' => Playing, loop' = "running" => loop = "running", Calls'
      PROVE  /\ Calls' /\ SameIndex' /\ Marked' /\ Apart' /\ DecodedOnce'
             /\ ReleasedOnce' /\ NoneLeaks'
  <2>1. /\ UNCHANGED <<InQueue, InDecoder, InBus>> /\ SameIndex'
        /\ DecodedOnce' /\ ReleasedOnce'
    BY <1>b, PipeStays
  <2>2. Apart'
    BY <1>b, <2>1 DEF IHolder, Apart
  <2>3. Marked'
    BY <1>b, <2>1 DEF IHolder, Marked
  <2>4. NoneLeaks'
    BY <1>b, <2>1 DEF IHolder, NoneLeaks
  <2> QED BY <1>b, <2>1, <2>2, <2>3, <2>4
<1>1. CASE NeedData
  BY <1>1, <1>b, BusStays DEF NeedData, InHand, Calls, Playing, IHolder
<1>2. CASE Claim
  <2>1. /\ buf' \in Bufs /\ ~used[buf'] /\ used' = [used EXCEPT ![buf'] = TRUE]
        /\ at = "scan" /\ at' = "read" /\ UNCHANGED <<buf_idx, queue, eos, decoder, bus, loop>>
    BY <1>2, ClaimsAFreeBuffer DEF Claim
  <2>2. /\ UNCHANGED <<InQueue, InDecoder, InBus>> /\ SameIndex'
        /\ DecodedOnce' /\ ReleasedOnce'
    BY <2>1, PipeStays, BusStays
  <2>3. InHand = {} /\ InHand' = {buf'} /\ Playing /\ Calls'
    BY <2>1 DEF InHand, IHolder, Calls, Playing
  <2>4. buf' \notin InQueue \cup InDecoder \cup InBus
    BY <2>1, <2>3 DEF IHolder, Marked
  <2>5. Apart'
    BY <2>2, <2>3, <2>4 DEF IHolder, Apart
  <2>6. \A b \in Bufs : used'[b] <=> (used[b] \/ b = buf')
    BY <1>a, <2>1
  <2>7. InQueue \cup InDecoder \cup InBus \subseteq Bufs
    BY <1>0, PlacesAreBuffers
  <2>8. Marked'
    BY <2>1, <2>2, <2>3, <2>6, <2>7 DEF IHolder, Marked
  <2>9. NoneLeaks'
    BY <2>1, <2>2, <2>3, <2>6 DEF IHolder, NoneLeaks, Calls
  <2> QED BY <2>2, <2>3, <2>5, <2>8, <2>9
<1>3. CASE NoneFree
  BY <1>3, <1>b, BusStays DEF NoneFree, InHand, Calls, Playing, IHolder
<1>4. CASE Sleep
  BY <1>4, <1>b, BusStays DEF Sleep, InHand, Calls, Playing, IHolder
<1>5. CASE ReadFrame
  BY <1>5, <1>b, BusStays DEF ReadFrame, InHand, Calls, Playing, IHolder
<1>6. CASE CryptoCopy
  BY <1>6, <1>b, BusStays DEF CryptoCopy, InHand, Calls, Playing, IHolder
<1>7. CASE Push
  <2> DEFINE e == [slot |-> buf, idx |-> buf_idx[buf], frame |-> frame, copied |-> copied]
  <2>1. /\ at = "push" /\ at' = "idle" /\ queue = <<>> /\ e \in Entries
        /\ UNCHANGED <<used, buf_idx, buf, eos, decoder, bus, loop>>
    BY <1>0, <1>7 DEF Push, IHolder, Calls, ITyped, TypeOK, Entries
  <2>2. Len(queue') = 1 /\ queue'[1] = e
    BY <1>a, <1>7, <2>1, AppendProperties, EmptySeq DEF Push
  <2>3. InHand = {buf} /\ InHand' = {} /\ InQueue = {} /\ InQueue' = {buf}
    BY <2>1, <2>2 DEF InHand, InQueue
  <2>4. UNCHANGED <<InDecoder, InBus>> /\ DecodedOnce' /\ ReleasedOnce'
    BY <2>1, BusStays DEF InDecoder, IHolder, BusPlaces, DecodedOnce
  <2>5. SameIndex'
    BY <1>a, <2>1, <2>2 DEF IHolder, SameIndex
  <2>6. Apart'
    BY <2>3, <2>4 DEF IHolder, Apart
  <2>7. Marked'
    BY <2>1, <2>3, <2>4 DEF IHolder, Marked, Playing
  <2>8. NoneLeaks'
    BY <2>1, <2>3, <2>4 DEF IHolder, NoneLeaks
  <2> QED BY <2>1, <2>2, <2>4, <2>5, <2>6, <2>7, <2>8 DEF Calls
<1>8. CASE EndOfStream
  BY <1>8, <1>b, BusStays DEF EndOfStream, InHand, Calls, Playing, IHolder
<1>9. CASE Deliver
  <2> DEFINE e == Head(queue)
  <2>1. /\ at = "idle" /\ at' = "idle" /\ decoder' = decoder \cup {e}
        /\ queue # <<>> /\ queue' = Tail(queue)
        /\ UNCHANGED <<used, buf_idx, buf, eos, bus, loop>>
    BY <1>9 DEF Deliver
  <2>2. /\ InQueue = {e.slot} /\ queue' = <<>> /\ queue[1] = e /\ Len(queue) = 1
    BY <1>0, <2>1, QueueHolds DEF IHolder
  <2>9. Len(queue') = 0
    BY <2>2, EmptySeq
  <2>10. InQueue' = {}
    BY <2>9 DEF InQueue
  <2>3. InDecoder' = InDecoder \cup {e.slot} /\ UNCHANGED InBus /\ ReleasedOnce'
    BY <2>1, BusStays DEF InDecoder, IHolder, BusPlaces
  <2>4. InHand' = {} /\ InHand = {}
    BY <2>1 DEF InHand
  <2>5. SameIndex'
    <3>1. e.idx = e.slot
      BY <2>2 DEF IHolder, SameIndex
    <3> QED BY <2>1, <2>9, <3>1 DEF IHolder, SameIndex
  <2>6. Apart'
    BY <2>2, <2>3, <2>4, <2>10 DEF IHolder, Apart
  <2>7. Marked'
    BY <2>1, <2>2, <2>3, <2>4, <2>10 DEF IHolder, Marked, Playing
  <2>8. DecodedOnce'
    <3>1. \A d \in decoder : d.slot # e.slot
      BY <2>2 DEF IHolder, Apart, InDecoder
    <3> QED BY <2>1, <3>1 DEF IHolder, DecodedOnce
  <2>11. Calls'
    BY <2>1, <2>9 DEF Calls
  <2>12. NoneLeaks'
    BY <2>1, <2>2, <2>3, <2>4, <2>10 DEF IHolder, NoneLeaks
  <2> QED BY <2>3, <2>5, <2>6, <2>7, <2>8, <2>11, <2>12
<1>10. CASE PostEmptied
  <2>1. PICK e \in decoder : decoder' = decoder \ {e}
                             /\ bus' = Append(bus, [type |-> "etbd", idx |-> e.idx])
    BY <1>10 DEF PostEmptied
  <2>2. UNCHANGED <<used, buf_idx, at, buf, queue, eos, loop>>
    BY <1>10 DEF PostEmptied
  <2>3. e.idx = e.slot /\ e.slot \in Bufs /\ e.slot \in InDecoder
    BY <1>a, <2>1 DEF IHolder, SameIndex, Entries, InDecoder
  <2>4. InDecoder' = InDecoder \ {e.slot} /\ DecodedOnce'
    BY <2>1 DEF InDecoder, IHolder, DecodedOnce
  <2>5. InBus' = InBus \cup {e.slot} /\ ReleasedOnce'
    BY <1>0, <2>1, <2>3, ReleasePosted DEF IHolder, Apart
  <2>6. UNCHANGED <<InHand, InQueue>>
    BY <2>2 DEF InHand, InQueue
  <2>7. SameIndex' /\ Calls'
    BY <2>1, <2>2 DEF IHolder, SameIndex, Calls
  <2>8. Apart'
    BY <2>3, <2>4, <2>5, <2>6 DEF IHolder, Apart
  <2>9. Marked'
    BY <2>2, <2>3, <2>4, <2>5, <2>6 DEF IHolder, Marked, Playing
  <2>10. NoneLeaks'
    BY <2>2, <2>3, <2>4, <2>5, <2>6 DEF IHolder, NoneLeaks
  <2> QED BY <2>4, <2>5, <2>7, <2>8, <2>9, <2>10
<1>11. CASE PostEOS
  <2>1. BusPlaces
    BY <1>0, <1>11, MessageForms, OtherPosted DEF PostEOS
  <2> QED BY <1>11, <1>b, <2>1 DEF PostEOS, InHand, Calls, Playing, IHolder
<1>12. CASE PostError
  <2>1. BusPlaces
    BY <1>0, <1>12, MessageForms, OtherPosted DEF PostError
  <2> QED BY <1>12, <1>b, <2>1 DEF PostError, InHand, Calls, Playing, IHolder
<1>13. CASE MsgHandler
  <2>1. /\ bus # <<>> /\ bus' = Tail(bus) /\ loop = "running"
        /\ UNCHANGED <<buf_idx, buf, queue, eos, decoder>>
        /\ at' \in {at, "scan"} /\ (at' # at => at = "asleep")
    BY <1>13 DEF MsgHandler, FreeAndBroadcast, QuitOn, Quit
  <2>2. Head(bus) \in Messages
    BY <1>0, <2>1, HeadTailProperties DEF TypeOK
  <2>3. /\ ReleasedOnce'
        /\ Head(bus).type # "etbd" => InBus' = InBus
        /\ Head(bus).type = "etbd" => /\ Head(bus).idx \in InBus
                                      /\ InBus' = InBus \ {Head(bus).idx}
    BY <1>0, <2>1, FirstHandled DEF IHolder
  <2>4. UNCHANGED <<InHand, InQueue, InDecoder>> /\ SameIndex' /\ DecodedOnce'
    BY <2>1 DEF InHand, InQueue, InDecoder, SameIndex, DecodedOnce, IHolder
  <2>5. Calls'
    BY <1>13, <2>1 DEF MsgHandler, FreeAndBroadcast, QuitOn, Quit, Calls, IHolder
  <2>6. Apart'
    BY <2>3, <2>4 DEF IHolder, Apart
  <2>7. CASE Head(bus).type = "etbd"
    <3>1. used' = [used EXCEPT ![Head(bus).idx] = FALSE]
      BY <1>13, <2>7 DEF MsgHandler, FreeAndBroadcast
    <3>2. Head(bus).idx \notin (InHand \cup InQueue \cup InDecoder \cup InBus)'
      BY <2>3, <2>4, <2>7 DEF IHolder, Apart
    <3>3. InHand \cup InQueue \cup InDecoder \cup InBus \subseteq Bufs
      BY <1>0, PlacesAreBuffers
    <3>4. \A b \in Bufs : b # Head(bus).idx => used'[b] = used[b]
      BY <1>a, <3>1
    <3>5. Marked'
      BY <2>1, <2>3, <2>4, <2>7, <3>2, <3>3, <3>4 DEF IHolder, Marked, Playing
    <3>6. ~used'[Head(bus).idx]
      BY <1>a, <2>3, <2>7, <3>1, <3>3
    <3>7. NoneLeaks'
      BY <2>1, <2>3, <2>4, <2>7, <3>4, <3>6 DEF IHolder, NoneLeaks
    <3> QED BY <2>3, <2>4, <2>5, <2>6, <3>5, <3>7
  <2>8. CASE Head(bus).type # "etbd"
    <3>1. used' = used
      BY <1>13, <2>8 DEF MsgHandler, QuitOn, Quit
    <3>2. Marked'
      BY <2>1, <2>3, <2>4, <2>8, <3>1 DEF IHolder, Marked, Playing
    <3>3. loop' = "quit"
      BY <1>13, <2>8 DEF MsgHandler, QuitOn, Quit
    <3> QED BY <2>3, <2>4, <2>5, <2>6, <3>2, <3>3 DEF NoneLeaks
  <2> QED BY <2>7, <2>8
<1>14. CASE SetStateNull
  BY <1>14, <1>b, BusStays DEF SetStateNull, InHand, Calls, Playing, IHolder
<1>15. CASE FreeAll
  <2>1. /\ at' = "idle" /\ queue' = <<>> /\ decoder' = {} /\ bus' = <<>> /\ buf_idx' = buf_idx
        /\ loop' = "done"
    BY <1>15 DEF FreeAll
  <2>2. InHand' = {} /\ InQueue' = {} /\ InDecoder' = {} /\ Etbds' = {} /\ InBus' = {}
    BY <2>1 DEF InHand, InQueue, InDecoder, Etbds, InBus
  <2> QED BY <2>1, <2>2
          DEF Calls, SameIndex, Marked, Apart, DecodedOnce, ReleasedOnce, NoneLeaks, IHolder
<1>16. CASE UNCHANGED vars
  BY <1>16, <1>b, BusStays DEF vars, InHand, Calls, Playing, IHolder
<1> QED BY Steps, <1>1, <1>2, <1>3, <1>4, <1>5, <1>6, <1>7, <1>8, <1>9, <1>10, <1>11,
           <1>12, <1>13, <1>14, <1>15, <1>16

LEMMA InitHolder == "alloc" \notin Faults /\ Init => IHolder
<1> SUFFICES ASSUME "alloc" \notin Faults, Init PROVE IHolder
  OBVIOUS
<1>1. \A b \in Bufs : buf_idx[b] = b
  BY DEF Init
<1>2. InHand = {} /\ InQueue = {} /\ InDecoder = {} /\ Etbds = {} /\ InBus = {}
  BY DEF Init, InHand, InQueue, InDecoder, Etbds, InBus
<1>3. Calls /\ SameIndex
  BY <1>1 DEF Init, Calls, SameIndex
<1>4. Marked /\ Apart /\ DecodedOnce /\ ReleasedOnce
  BY <1>2 DEF Init, Marked, Apart, DecodedOnce, ReleasedOnce
<1>5. NoneLeaks
  BY DEF Init, NoneLeaks
<1> QED BY <1>3, <1>4, <1>5, InitTyped DEF IHolder

(* A buffer has one holder, who finds it marked, if every allocation has   *)
(* succeeded: only the main loop frees one, and only the one whose release *)
(* it takes off the bus.                                                   *)
THEOREM BuffersHaveOneHolder == "alloc" \notin Faults /\ Spec => []OneHolder
<1>1. IHolder => OneHolder
  BY DEF IHolder, OneHolder, Marked, Apart, DecodedOnce, ReleasedOnce
<1> QED BY <1>1, InitHolder, HolderStep, PTL DEF Spec

(* No buffer is lost to the pool, but the one claimed when the file has    *)
(* ended: one that is marked is in a place from which it comes back.       *)
THEOREM PoolKeepsItsBuffers == "alloc" \notin Faults /\ Spec => []NoneLeaks
<1>1. IHolder => NoneLeaks
  BY DEF IHolder
<1> QED BY <1>1, InitHolder, HolderStep, PTL DEF Spec

-----------------------------------------------------------------------------
(* What the memory of the buffers holds.                                   *)

Lies(e) == e.copied => secure[e.slot] = e.frame

FramesLie ==
    /\ at = "push" /\ copied => secure[buf] = frame
    /\ \A i \in 1 .. Len(queue) : Lies(queue[i])
    /\ \A e \in decoder : Lies(e)

IFrames == IHolder /\ FramesLie

LEMMA FramesStep == IFrames /\ [Next]_vars => IFrames'
<1> SUFFICES ASSUME IFrames, [Next]_vars PROVE IFrames'
  OBVIOUS
<1> USE DEF poolVars, needVars, pipeVars
<1>0. IHolder' /\ IHolder /\ TypeOK /\ FramesLie
  BY HolderStep DEF IFrames, IHolder, ITyped
<1> SUFFICES FramesLie'
  BY <1>0 DEF IFrames
<1>a. ASSUME UNCHANGED <<secure, queue, decoder>>, at' # "push"
      PROVE  FramesLie'
  BY <1>0, <1>a DEF FramesLie, Lies
<1>1. CASE NeedData
  BY <1>1, <1>a DEF NeedData
<1>2. CASE Claim
  BY <1>2, <1>a DEF Claim
<1>3. CASE NoneFree
  BY <1>3, <1>a DEF NoneFree
<1>4. CASE Sleep
  BY <1>4, <1>a DEF Sleep
<1>5. CASE ReadFrame
  BY <1>5, <1>a DEF ReadFrame
(* The copy goes into the buffer in hand, which nobody else holds.         *)
<1>6. CASE CryptoCopy
  <2>1. /\ at = "copy" /\ queue = <<>> /\ queue' = queue /\ decoder' = decoder
        /\ UNCHANGED <<buf, frame>>
    BY <1>0, <1>6 DEF CryptoCopy, IHolder, Calls
  <2>2. \A b \in Bufs : b # buf => secure'[b] = secure[b]
    BY <1>0, <1>6 DEF CryptoCopy, TypeOK
  <2>3. \A e \in decoder : e.slot \in Bufs /\ e.slot # buf
    BY <1>0, <2>1 DEF IHolder, Apart, InHand, InDecoder, TypeOK, Entries
  <2>4. copied' => secure'[buf] = frame
    BY <1>0, <1>6 DEF CryptoCopy, TypeOK
  <2>5. \A e \in decoder : Lies(e)'
    BY <1>0, <2>2, <2>3 DEF FramesLie, Lies
  <2>6. 1 .. Len(queue') = {}
    BY <2>1
  <2> QED BY <2>1, <2>4, <2>5, <2>6 DEF FramesLie
<1>7. CASE Push
  <2> DEFINE e == [slot |-> buf, idx |-> buf_idx[buf], frame |-> frame, copied |-> copied]
  <2>1. /\ at = "push" /\ at' = "idle" /\ queue = <<>> /\ e \in Entries
        /\ UNCHANGED <<secure, decoder>>
    BY <1>0, <1>7 DEF Push, IHolder, Calls, ITyped, TypeOK, Entries
  <2>2. Len(queue') = 1 /\ queue'[1] = e
    BY <1>0, <1>7, <2>1, AppendProperties, EmptySeq DEF Push
  <2>3. e.copied => secure'[e.slot] = e.frame
    BY <1>0, <2>1 DEF FramesLie
  <2>4. \A i \in 1 .. Len(queue') : queue'[i] = e
    BY <2>2
  <2>5. \A i \in 1 .. Len(queue') : queue'[i].copied =>
                                     secure'[queue'[i].slot] = queue'[i].frame
    BY <2>3, <2>4
  <2> QED BY <1>0, <2>1, <2>5 DEF FramesLie, Lies
<1>8. CASE EndOfStream
  BY <1>8, <1>a DEF EndOfStream
<1>9. CASE Deliver
  <2>1. /\ at' = "idle" /\ decoder' = decoder \cup {Head(queue)} /\ secure' = secure
        /\ queue # <<>> /\ queue' = Tail(queue)
    BY <1>9 DEF Deliver
  <2>2. queue' = <<>> /\ queue[1] = Head(queue) /\ Len(queue) = 1
    BY <1>0, <2>1, QueueHolds DEF IHolder
  <2>3. 1 .. Len(queue') = {}
    BY <2>2, EmptySeq
  <2>4. Lies(Head(queue))
    BY <1>0, <2>2 DEF FramesLie
  <2>5. \A e \in decoder' : Lies(e)'
    BY <1>0, <2>1, <2>4 DEF FramesLie, Lies
  <2> QED BY <2>1, <2>3, <2>5 DEF FramesLie
<1>10. CASE PostEmptied
  BY <1>0, <1>10 DEF PostEmptied, FramesLie, Lies
<1>11. CASE PostEOS
  BY <1>0, <1>11 DEF PostEOS, FramesLie, Lies
<1>12. CASE PostError
  BY <1>0, <1>12 DEF PostError, FramesLie, Lies
<1>13. CASE MsgHandler
  <2>1. UNCHANGED <<secure, buf, frame, copied, queue, decoder>> /\ (at' = "push" => at = at')
    BY <1>13 DEF MsgHandler, FreeAndBroadcast, QuitOn, Quit
  <2> QED BY <1>0, <2>1 DEF FramesLie, Lies
<1>14. CASE SetStateNull
  BY <1>0, <1>14 DEF SetStateNull, FramesLie, Lies
<1>15. CASE FreeAll
  <2>1. at' = "idle" /\ queue' = <<>> /\ decoder' = {}
    BY <1>15 DEF FreeAll
  <2>2. 1 .. Len(queue') = {}
    BY <2>1
  <2> QED BY <2>1, <2>2 DEF FramesLie
<1>16. CASE UNCHANGED vars
  BY <1>0, <1>16 DEF vars, FramesLie, Lies
<1> QED BY Steps, <1>1, <1>2, <1>3, <1>4, <1>5, <1>6, <1>7, <1>8, <1>9, <1>10, <1>11,
           <1>12, <1>13, <1>14, <1>15, <1>16

(* The decoder reads the frame it was sent, or one whose copy failed: no   *)
(* later frame is copied over it before it is released.                    *)
THEOREM DecoderReadsItsFrame ==
    "alloc" \notin Faults /\ Spec => []DecoderSeesItsFrame
<1>1. IFrames => DecoderSeesItsFrame
  BY DEF IFrames, FramesLie, Lies, DecoderSeesItsFrame
<1>2. "alloc" \notin Faults /\ Init => IFrames
  <2>1. Init => FramesLie
    BY DEF Init, FramesLie
  <2> QED BY <2>1, InitHolder DEF IFrames
<1> QED BY <1>1, <1>2, FramesStep, PTL DEF Spec

=============================================================================
