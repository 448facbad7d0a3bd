------------------------ MODULE BlendQueues_proofs -------------------------
(***************************************************************************)
(* What BlendQueues promises for any times, rates and number of buffers:   *)
(* downstream gets the background in order and nothing after EOS, a        *)
(* regular background frame by frame, and a foreground of its time.        *)
(***************************************************************************)
EXTENDS BlendQueues, TLAPS

(* Every action, for the proofs that a step preserves an invariant.        *)
LEMMA Steps ==
    ASSUME [Next]_vars
    PROVE  \/ \E p \in Pads : Chain(p) \/ Eos(p)
           \/ SetCaps
           \/ SegmentDone
           \/ /\ ~NoFrameRate
              /\ \E p \in Pads : \/ NeedTimestamp(p) \/ DropPast(p) \/ Queue(p)
                                 \/ Drop(p) \/ Take(p) \/ Keep(p)
                                 \/ EndOfBackground(p) \/ EndOfForeground(p)
           \/ NeedMoreData \/ BlendAndPush \/ Restart \/ UNCHANGED vars
  BY DEF Next, Turn, Visit

-----------------------------------------------------------------------------
(* Types.                                                                  *)

Typed(d) == d \in [Pads -> [ts : Stamps, dur : Nat \cup {NONE}]]

ITyped ==
    /\ Typed(data)
    /\ eos \subseteq Pads /\ paused \subseteq Pads
    /\ queued \in [Pads -> Stamps] /\ buffer \in [Pads -> Stamps]
    /\ start_time \in [Pads -> Nat \cup {NONE}]
    /\ end_time \in [Pads -> Nat \cup {NONE}]
    /\ \A p \in Pads : /\ buffer[p] # NONE <=> start_time[p] # NONE
                       /\ start_time[p] <= end_time[p]
    /\ rate \in Rates /\ position \in Nat /\ nframes \in Nat
    /\ at \in {Idle, Background, Foreground, Decide} /\ caller \in Pads
    /\ need_more_data \in BOOLEAN /\ regular \in BOOLEAN
    /\ ended \in {"no", "segment_done", "background"}
    /\ regular => rate # 0
    /\ pushed \in Stamps
    /\ sent \in [Pads -> Nat] /\ \A p \in Pads : sent[p] <= Frames[p]
    /\ restarts \in 0 .. MaxRestarts

LEMMA StampsAreTimes ==
    NONE \in Stamps /\ \A t \in Stamps : t \in Int /\ t >= NONE
<1>1. ASSUME NEW n \in 0 .. Frames[Background], NEW r \in Rates
      PROVE  SegStart + n * r \in Nat
  <2>1. n \in Nat /\ r \in Nat /\ SegStart \in Nat
    BY BlendQueuesAssumption DEF Background
  <2> QED BY <2>1
<1>2. Times \subseteq Nat
  BY BlendQueuesAssumption
<1> QED BY <1>1, <1>2 DEF Stamps, NONE

LEMMA RatesAreNat == Rates \subseteq Nat
  BY BlendQueuesAssumption

LEMMA InitTyped == Init => ITyped
<1> SUFFICES ASSUME Init PROVE ITyped
  OBVIOUS
<1>1. Typed(data)
  BY StampsAreTimes DEF Init, Typed, NoBuffer
<1>2. \A p \in Pads : Frames[p] \in Nat
  BY BlendQueuesAssumption DEF Pads, Background, Foreground
<1>3. sent \in [Pads -> Nat] /\ \A p \in Pads : sent[p] <= Frames[p]
  BY <1>2 DEF Init
<1>4. /\ queued \in [Pads -> Stamps] /\ buffer \in [Pads -> Stamps]
      /\ start_time \in [Pads -> Nat \cup {NONE}]
      /\ end_time \in [Pads -> Nat \cup {NONE}]
      /\ \A p \in Pads : /\ buffer[p] # NONE <=> start_time[p] # NONE
                         /\ start_time[p] <= end_time[p]
  BY StampsAreTimes DEF Init, Nothing, NONE
<1>5. Background \in Pads /\ restarts \in 0 .. MaxRestarts
  BY BlendQueuesAssumption DEF Init, Pads
<1> QED BY <1>1, <1>3, <1>4, <1>5, StampsAreTimes DEF Init, ITyped

(* The end of a turn.                                                      *)
LEMMA EndTurnTyped ==
    ASSUME ITyped, NEW ok \in BOOLEAN, NEW d, Typed(d), EndTurn(ok, d)
    PROVE  /\ Typed(data') /\ paused' \subseteq Pads
           /\ at' \in {Idle, Background} /\ need_more_data' \in BOOLEAN
<1>1. NoBuffer \in [ts : Stamps, dur : Nat \cup {NONE}]
  BY StampsAreTimes DEF NoBuffer
<1> QED BY <1>1 DEF EndTurn, Typed, ITyped

LEMMA EndStreamTyped ==
    ASSUME ITyped, EndStream
    PROVE  /\ Typed(data') /\ paused' \subseteq Pads
           /\ at' = Idle /\ need_more_data' = FALSE
<1>1. NoBuffer \in [ts : Stamps, dur : Nat \cup {NONE}]
  BY StampsAreTimes DEF NoBuffer
<1> QED BY <1>1 DEF EndStream, Typed, ITyped

(* A buffer leaves the collect pads.                                       *)
LEMMA PoppedTyped ==
    ASSUME ITyped, NEW p \in Pads, Popped(p) PROVE Typed(data')
  BY StampsAreTimes DEF ITyped, Typed, Popped, NoBuffer

(* What Offers offers has a timestamp of the model.                        *)
LEMMA OffersTyped ==
    ASSUME ITyped, NEW p \in Pads, sent[p] < Frames[p], NEW b \in Offers(p)
    PROVE  b \in [ts : Stamps, dur : Nat \cup {NONE}]
<1>1. CASE regular /\ p = Background
  <2>1. SegStart + sent[Background] * rate \in Stamps
    <3>1. sent[Background] \in 0 .. Frames[Background] /\ rate \in Rates
      BY <1>1, BlendQueuesAssumption DEF ITyped, Pads, Background, Foreground
    <3> QED BY <3>1 DEF Stamps
  <2> QED BY <1>1, <2>1, RatesAreNat DEF Offers, Regular, ITyped
<1>2. CASE ~(regular /\ p = Background)
  <2>1. Times \subseteq Stamps /\ Durations \subseteq Nat /\ NONE \in Stamps
    BY BlendQueuesAssumption DEF Stamps
  <2>2. Offers(p) = Buffers
    BY <1>2 DEF Offers
  <2>3. Untimed \in [ts : Stamps, dur : Nat \cup {NONE}]
    BY <2>1 DEF Untimed
  <2>4. [ts : Times, dur : Durations \cup {NONE}]
           \subseteq [ts : Stamps, dur : Nat \cup {NONE}]
    BY <2>1
  <2> QED BY <2>2, <2>3, <2>4 DEF Buffers
<1> QED BY <1>1, <1>2

(* Running times of a buffer that is taken.                                *)
LEMMA RunTyped ==
    ASSUME ITyped, NEW p \in Pads, Usable(p)
    PROVE  /\ RunStart(p) \in Nat /\ RunEnd(p) \in Nat /\ RunStart(p) <= RunEnd(p)
           /\ Stamp(p) \in Stamps /\ Stamp(p) # NONE
           /\ Stamp(p) >= buffer[p] \/ queued[p] # NONE
<1> USE DEF NONE
<1>1. /\ data[p].ts \in Int /\ data[p].ts # NONE /\ data[p].ts >= queued[p]
      /\ data[p].ts >= buffer[p] /\ data[p].ts \in Stamps
      /\ data[p].dur \in Nat \cup {NONE}
      /\ queued[p] # NONE \/ data[p].dur # NONE
  <2>1. data[p] \in [ts : Stamps, dur : Nat \cup {NONE}]
    BY DEF ITyped, Typed
  <2>2. /\ data[p].ts # NONE /\ ~Past(p)
        /\ queued[p] # NONE \/ data[p].dur # NONE
    BY DEF Usable, Timed, Accepted
  <2>3. queued[p] \in Stamps /\ buffer[p] \in Stamps
    BY DEF ITyped
  <2> QED BY <2>1, <2>2, <2>3, StampsAreTimes DEF Past
<1>2. queued[p] \in Int /\ queued[p] >= NONE /\ queued[p] \in Stamps
  BY StampsAreTimes DEF ITyped
<1>3. Stamp(p) \in Int /\ Stamp(p) \in Stamps /\ Stamp(p) # NONE /\ Lasts(p) \in Nat
  BY <1>1, <1>2 DEF Stamp, Lasts
<1>4. EndStamp(p) \in Int /\ EndStamp(p) >= Stamp(p)
  BY <1>3 DEF EndStamp
<1>5. Stamp(p) < SegStop /\ EndStamp(p) >= SegStart
  BY DEF Usable, InSegment
<1>6. RunStart(p) \in Nat /\ RunEnd(p) \in Nat /\ RunStart(p) <= RunEnd(p)
  BY <1>3, <1>4, <1>5, BlendQueuesAssumption DEF RunStart, RunEnd
<1> QED BY <1>1, <1>3, <1>6 DEF Stamp

LEMMA RemoveTyped ==
    ASSUME ITyped, NEW p \in Pads, Remove(p)
    PROVE  Typed(data') /\ queued' \in [Pads -> Stamps]
  BY PoppedTyped, StampsAreTimes DEF Remove, ITyped

LEMMA TypedStep == ITyped /\ [Next]_vars => ITyped'
<1> SUFFICES ASSUME ITyped, [Next]_vars PROVE ITyped'
  OBVIOUS
<1> USE DEF colVars, clock, upstream
<1> DEFINE Ats == {Idle, Background, Foreground, Decide}
<1>n. NoBuffer \in [ts : Stamps, dur : Nat \cup {NONE}]
  BY StampsAreTimes DEF NoBuffer
<1>a. \A p \in Pads : p + 1 \in Ats
  BY DEF Pads, Background, Foreground, Decide
<1>1. ASSUME NEW p \in Pads, Chain(p) PROVE ITyped'
  <2>1. PICK b \in Offers(p) : Arrive(p, [data EXCEPT ![p] = b], eos)
    BY <1>1 DEF Chain
  <2>2. b \in [ts : Stamps, dur : Nat \cup {NONE}]
    BY <1>1, OffersTyped DEF Chain
  <2>3. Typed(data')
    BY <2>1, <2>2 DEF ITyped, Typed, Arrive
  <2>4. /\ sent' = [sent EXCEPT ![p] = @ + 1] /\ sent[p] < Frames[p]
        /\ UNCHANGED paused
    BY <1>1 DEF Chain
  <2>5. sent' \in [Pads -> Nat] /\ \A q \in Pads : sent'[q] <= Frames[q]
    BY <2>4, BlendQueuesAssumption DEF ITyped, Pads, Background, Foreground
  <2>6. /\ eos' = eos /\ caller' = p /\ at' \in Ats /\ need_more_data' = FALSE
        /\ UNCHANGED <<colVars, clock, pushed, ended, regular, restarts>>
    BY <2>1 DEF Arrive
  <2> QED BY <2>3, <2>4, <2>5, <2>6 DEF ITyped
<1>2. ASSUME NEW p \in Pads, Eos(p) PROVE ITyped'
  BY <1>2 DEF Eos, Arrive, ITyped
<1>3. CASE SetCaps
  BY <1>3 DEF SetCaps, ITyped
<1>4. ASSUME NEW p \in Pads, NeedTimestamp(p) PROVE ITyped'
  <2>1. /\ Typed(data') /\ paused' \subseteq Pads
        /\ at' \in Ats /\ need_more_data' \in BOOLEAN
    BY <1>4, EndTurnTyped DEF NeedTimestamp, ITyped
  <2> QED BY <1>4, <2>1 DEF NeedTimestamp, ITyped
<1>5. ASSUME NEW p \in Pads, DropPast(p) PROVE ITyped'
  BY <1>5, <1>a, PoppedTyped DEF DropPast, MoreData, InTurn, ITyped
<1>6. ASSUME NEW p \in Pads, Queue(p) PROVE ITyped'
  <2>1. data[p].ts \in Stamps
    BY DEF ITyped, Typed
  <2> QED BY <1>6, <1>a, <2>1, PoppedTyped DEF Queue, MoreData, InTurn, ITyped
<1>7. ASSUME NEW p \in Pads, Drop(p) PROVE ITyped'
  BY <1>7, <1>a, RemoveTyped DEF Drop, MoreData, InTurn, ITyped
<1>8. ASSUME NEW p \in Pads, Take(p) PROVE ITyped'
  <2>1. /\ RunStart(p) \in Nat /\ RunEnd(p) \in Nat /\ RunStart(p) <= RunEnd(p)
        /\ Stamp(p) \in Stamps /\ Stamp(p) # NONE
    BY <1>8, RunTyped DEF Take
  <2>2. Typed(data') /\ queued' \in [Pads -> Stamps]
    BY <1>8, RemoveTyped DEF Take
  <2>3. /\ buffer' = [buffer EXCEPT ![p] = Stamp(p)]
        /\ start_time' = [start_time EXCEPT ![p] = RunStart(p)]
        /\ end_time' = [end_time EXCEPT ![p] = RunEnd(p)]
        /\ at' = p + 1
        /\ UNCHANGED <<need_more_data, eos, paused, clock, caller, pushed, ended, upstream>>
    BY <1>8 DEF Take, Visited, InTurn
  <2>4. /\ buffer' \in [Pads -> Stamps]
        /\ start_time' \in [Pads -> Nat \cup {NONE}]
        /\ end_time' \in [Pads -> Nat \cup {NONE}]
    BY <2>1, <2>3 DEF ITyped
  <2>5. ASSUME NEW q \in Pads
        PROVE  /\ buffer'[q] # NONE <=> start_time'[q] # NONE
               /\ start_time'[q] <= end_time'[q]
    BY <2>1, <2>3 DEF ITyped, NONE
  <2> QED BY <1>a, <2>2, <2>3, <2>4, <2>5 DEF ITyped
<1>9. ASSUME NEW p \in Pads, Keep(p) PROVE ITyped'
  BY <1>9, <1>a DEF Keep, Visited, InTurn, ITyped
<1>10. ASSUME NEW p \in Pads, NoData(p)
       PROVE  /\ buffer' \in [Pads -> Stamps]
              /\ start_time' \in [Pads -> Nat \cup {NONE}]
              /\ end_time' \in [Pads -> Nat \cup {NONE}]
              /\ \A q \in Pads : /\ buffer'[q] # NONE <=> start_time'[q] # NONE
                                 /\ start_time'[q] <= end_time'[q]
  BY <1>10, StampsAreTimes DEF NoData, ITyped, NONE
<1>11. ASSUME NEW p \in Pads, EndOfBackground(p) PROVE ITyped'
  <2>1. /\ Typed(data') /\ paused' \subseteq Pads
        /\ at' \in Ats /\ need_more_data' \in BOOLEAN
    BY <1>11, EndStreamTyped DEF EndOfBackground
  <2> QED BY <1>10, <1>11, <2>1 DEF EndOfBackground, ITyped
<1>12. ASSUME NEW p \in Pads, EndOfForeground(p) PROVE ITyped'
  BY <1>10, <1>12, <1>a DEF EndOfForeground, Visited, InTurn, ITyped
<1>13. CASE NeedMoreData
  <2>1. /\ Typed(data') /\ paused' \subseteq Pads
        /\ at' \in Ats /\ need_more_data' \in BOOLEAN
    BY <1>13, EndTurnTyped DEF NeedMoreData, ITyped
  <2> QED BY <1>13, <2>1 DEF NeedMoreData, ITyped
<1>14. CASE BlendAndPush
  <2>1. PICK ok \in BOOLEAN : EndTurn(ok, data)
    BY <1>14 DEF BlendAndPush
  <2>2. /\ Typed(data') /\ paused' \subseteq Pads
        /\ at' \in Ats /\ need_more_data' \in BOOLEAN
    BY <2>1, EndTurnTyped DEF ITyped
  <2>3. pushed' \in Stamps
    BY <1>14 DEF BlendAndPush, ITyped, Pads
  <2>4. position' \in Nat /\ nframes' \in Nat
    BY <1>14, RatesAreNat DEF BlendAndPush, output_end_time, NextFrame, ITyped
  <2> QED BY <1>14, <2>2, <2>3, <2>4 DEF BlendAndPush, ITyped
<1>15. CASE Restart
  <2>1. Typed(data')
    BY <1>15, <1>n DEF Restart, Typed
  <2>2. /\ buffer' \in [Pads -> Stamps]
        /\ start_time' \in [Pads -> Nat \cup {NONE}]
        /\ end_time' \in [Pads -> Nat \cup {NONE}]
        /\ \A q \in Pads : /\ buffer'[q] # NONE <=> start_time'[q] # NONE
                           /\ start_time'[q] <= end_time'[q]
    BY <1>15, StampsAreTimes DEF Restart, Nothing, NONE
  <2>3. sent' \in [Pads -> Nat] /\ \A q \in Pads : sent'[q] <= Frames[q]
    BY <1>15, BlendQueuesAssumption DEF Restart, Pads, Background, Foreground
  <2>4. restarts' \in 0 .. MaxRestarts
    BY <1>15, BlendQueuesAssumption DEF Restart, ITyped
  <2> QED BY <1>15, <2>1, <2>2, <2>3, <2>4, StampsAreTimes DEF Restart, ITyped
<1>16. CASE SegmentDone
  <2>1. /\ Typed(data') /\ paused' \subseteq Pads
        /\ at' \in Ats /\ need_more_data' \in BOOLEAN
    BY <1>16, EndStreamTyped DEF SegmentDone
  <2> QED BY <1>16, <2>1 DEF SegmentDone, ITyped
<1>17. CASE UNCHANGED vars
  BY <1>17 DEF vars, ITyped
<1> QED BY Steps, <1>1, <1>2, <1>3, <1>4, <1>5, <1>6, <1>7, <1>8, <1>9, <1>11, <1>12,
           <1>13, <1>14, <1>15, <1>16, <1>17

LEMMA TypedIsTypeOK == ITyped => TypeOK
<1> SUFFICES ASSUME ITyped PROVE TypeOK
  OBVIOUS
<1>1. \A p \in Pads : data[p].ts \in Stamps
  BY DEF ITyped, Typed
<1>2. \A p \in Pads : buffer[p] # NONE <=> 0 <= start_time[p]
  BY DEF ITyped, NONE
<1>3. \A p \in Pads : sent[p] \in 0 .. Frames[p]
  BY BlendQueuesAssumption DEF ITyped, Pads, Background, Foreground
<1> QED BY <1>1, <1>2, <1>3 DEF ITyped, TypeOK

(* The state of BlendQueues is well typed, and a buffer ends no sooner     *)
(* than it starts, for all times, segments and rates.                      *)
THEOREM TypeCorrect == Spec => []TypeOK
  BY InitTyped, TypedStep, TypedIsTypeOK, PTL DEF Spec

-----------------------------------------------------------------------------
(* Order.                                                                  *)

(* A pad that has ended has no buffer, and a turn begins when each pad has *)
(* one or has ended.  So once the background has ended no turn gets past   *)
(* it, and without a frame rate none gets to a pad: nothing is pushed.     *)
EosIsLast ==
    /\ \A p \in eos : data[p] = NoBuffer
    /\ at = Background => Complete(data, eos)
    /\ ended # "no" => at \in {Idle, Background}
    /\ ended = "background" => Background \in eos
    /\ ended = "segment_done" => rate = 0

(* What was pushed, what will be pushed next, and what waits for an end.   *)
Ascending ==
    /\ ended # "background" => pushed <= buffer[Background]
    /\ queued[Background] # NONE => buffer[Background] <= queued[Background]

IOrder == ITyped /\ EosIsLast /\ Ascending

LEMMA InitOrder == Init => IOrder
<1> SUFFICES ASSUME Init PROVE IOrder
  OBVIOUS
<1>1. ITyped
  BY InitTyped
<1> QED BY <1>1 DEF Init, IOrder, EosIsLast, Ascending, Nothing, Pads, Background,
           Idle, NONE

LEMMA EndTurnOrder ==
    ASSUME IOrder, NEW ok \in BOOLEAN, EndTurn(ok, data), UNCHANGED eos
    PROVE  /\ \A p \in eos' : data'[p] = NoBuffer
           /\ at' = Background => Complete(data', eos')
           /\ at' \in {Idle, Background}
<1>1. caller \in Pads /\ eos \subseteq Pads
  BY DEF IOrder, ITyped
<1>2. CASE ok
  BY <1>2 DEF EndTurn, IOrder, EosIsLast, Idle, Background
<1>3. CASE ~ok
  <2>1. at' = Idle /\ data' = [data EXCEPT ![caller] = NoBuffer]
    BY <1>3 DEF EndTurn
  <2> QED BY <1>1, <2>1 DEF IOrder, EosIsLast, ITyped, Typed, Idle, Background
<1> QED BY <1>2, <1>3

LEMMA EndStreamOrder ==
    ASSUME IOrder, EndStream, UNCHANGED eos
    PROVE  \A p \in eos' : data'[p] = NoBuffer
<1>1. caller \in Pads /\ eos \subseteq Pads
  BY DEF IOrder, ITyped
<1>2. data' = [data EXCEPT ![caller] = NoBuffer]
  BY DEF EndStream
<1> QED BY <1>1, <1>2 DEF IOrder, EosIsLast, ITyped, Typed

(* A visit that leaves the pad takes buffers away, if anything.            *)
LEMMA VisitOrder ==
    ASSUME IOrder, NEW p \in Pads, at = p, at' = p + 1, UNCHANGED <<eos, ended>>,
           ~(ended # "no" /\ p = Background),
           UNCHANGED data \/ Popped(p)
    PROVE  EosIsLast'
<1>1. \A q \in eos' : data'[q] = NoBuffer
  BY DEF Popped, IOrder, EosIsLast, ITyped, Typed
<1>2. at' # Background /\ ended = "no"
  BY DEF Pads, Background, Foreground, Idle, IOrder, EosIsLast
<1> QED BY <1>1, <1>2 DEF EosIsLast

LEMMA OrderStep == IOrder /\ [Next]_vars => IOrder'
<1> SUFFICES ASSUME IOrder, [Next]_vars PROVE IOrder'
  OBVIOUS
<1> USE DEF colVars, clock, upstream
<1>0. ITyped' /\ ITyped
  BY TypedStep DEF IOrder
<1>b. \A p \in Pads : /\ queued[p] \in Int /\ queued[p] >= NONE
                      /\ buffer[p] \in Int /\ buffer[p] >= NONE
                      /\ data[p].ts \in Int
  BY <1>0, StampsAreTimes DEF ITyped, Typed
<1>c. pushed \in Int /\ Background \in Pads
  BY <1>0, StampsAreTimes DEF ITyped, Pads
<1> SUFFICES EosIsLast' /\ Ascending'
  BY <1>0 DEF IOrder
<1>d. ASSUME UNCHANGED pushed, ended = "background" => ended' = "background",
             queued'[Background] \in {queued[Background], NONE},
             UNCHANGED buffer
      PROVE  Ascending'
  BY <1>d DEF IOrder, Ascending
<1>1. ASSUME NEW p \in Pads, Chain(p) PROVE EosIsLast' /\ Ascending'
  <2>1. PICK b \in Offers(p) : Arrive(p, [data EXCEPT ![p] = b], eos)
    BY <1>1 DEF Chain
  <2>2. /\ p \notin eos /\ eos' = eos /\ data' = [data EXCEPT ![p] = b]
        /\ UNCHANGED <<colVars, clock, pushed, ended>>
    BY <1>1, <2>1 DEF Chain, Arrive
  <2>3. /\ at' \in {Idle, Background}
        /\ at' = Background => Complete(data', eos')
    BY <2>1, <2>2 DEF Arrive, Idle, Background
  <2>4. \A q \in eos : data'[q] = data[q]
    BY <1>0, <2>2 DEF ITyped, Typed
  <2> QED BY <1>d, <2>2, <2>3, <2>4 DEF IOrder, EosIsLast
<1>2. ASSUME NEW p \in Pads, Eos(p) PROVE EosIsLast' /\ Ascending'
  BY <1>2, <1>d DEF Eos, Arrive, IOrder, EosIsLast, Idle, Background
<1>3. CASE SetCaps
  BY <1>3, <1>d DEF SetCaps, IOrder, EosIsLast, Idle, Background
<1>4. ASSUME NEW p \in Pads, NeedTimestamp(p) PROVE EosIsLast' /\ Ascending'
  BY <1>4, <1>d, EndTurnOrder DEF NeedTimestamp, IOrder, EosIsLast
<1>e. ASSUME NEW p \in Pads, Peek(p), ~NoFrameRate
      PROVE  ~(ended # "no" /\ p = Background)
  BY <1>0, <1>e DEF Peek, IOrder, EosIsLast, ITyped, NoFrameRate
<1>5. ASSUME NEW p \in Pads, DropPast(p), ~NoFrameRate PROVE EosIsLast' /\ Ascending'
  BY <1>5, <1>d, <1>e, VisitOrder DEF DropPast, Peek, MoreData, InTurn
<1>6. ASSUME NEW p \in Pads, Queue(p), ~NoFrameRate PROVE EosIsLast' /\ Ascending'
  <2>1. EosIsLast'
    BY <1>6, <1>e, VisitOrder DEF Queue, Accepted, Peek, MoreData, InTurn
  <2>2. /\ data[p].ts >= buffer[p]
        /\ queued' = [queued EXCEPT ![p] = data[p].ts]
        /\ UNCHANGED <<buffer, pushed, ended>>
    BY <1>6, <1>b DEF Queue, Accepted, Past, InTurn
  <2> QED BY <1>0, <1>b, <2>1, <2>2 DEF IOrder, Ascending, ITyped
<1>7. ASSUME NEW p \in Pads, Remove(p)
      PROVE  /\ UNCHANGED data \/ Popped(p)
             /\ queued'[Background] \in {queued[Background], NONE}
             /\ queued'[p] = NONE
  BY <1>7, <1>0, <1>c DEF Remove, ITyped
<1>8. ASSUME NEW p \in Pads, Drop(p), ~NoFrameRate PROVE EosIsLast' /\ Ascending'
  BY <1>8, <1>7, <1>d, <1>e, VisitOrder DEF Drop, Timed, Accepted, Peek, MoreData, InTurn
<1>9. ASSUME NEW p \in Pads, Take(p), ~NoFrameRate PROVE EosIsLast' /\ Ascending'
  <2>1. EosIsLast'
    BY <1>9, <1>7, <1>e, VisitOrder
       DEF Take, Usable, Timed, Accepted, Peek, Visited, InTurn
  <2>2. /\ buffer' = [buffer EXCEPT ![p] = Stamp(p)] /\ UNCHANGED <<pushed, ended>>
        /\ Remove(p) /\ Usable(p)
    BY <1>9 DEF Take, InTurn
  <2>3. CASE p = Background
    <3>1. buffer'[p] = Stamp(p) /\ Stamp(p) \in Int
      BY <1>0, <2>2, RunTyped, StampsAreTimes DEF ITyped
    <3>2. Stamp(p) >= buffer[p]
      BY <1>b, <2>2, <2>3, <1>0, RunTyped DEF Stamp, IOrder, Ascending
    <3> QED BY <1>7, <1>b, <1>c, <2>1, <2>2, <2>3, <3>1, <3>2 DEF IOrder, Ascending
  <2>4. CASE p # Background
    <3>1. buffer'[Background] = buffer[Background]
      BY <1>0, <1>c, <2>2, <2>4 DEF ITyped
    <3> QED BY <1>7, <2>1, <2>2, <3>1 DEF IOrder, Ascending
  <2> QED BY <2>3, <2>4
<1>10. ASSUME NEW p \in Pads, Keep(p), ~NoFrameRate PROVE EosIsLast' /\ Ascending'
  BY <1>10, <1>d, <1>e, VisitOrder
     DEF Keep, Usable, Timed, Accepted, Peek, Visited, InTurn
<1>11. ASSUME NEW p \in Pads, EndOfBackground(p) PROVE EosIsLast' /\ Ascending'
  <2>1. p = Background /\ at = Background /\ data[Background] = NoBuffer
    BY <1>11 DEF EndOfBackground, EndsOutput, NoData
  <2>2. Background \in eos
    BY <1>c, <2>1 DEF IOrder, EosIsLast, Complete
  <2>3. EosIsLast'
    BY <1>0, <1>11, <2>2, EndStreamOrder, EndStreamTyped
       DEF EndOfBackground, EosIsLast, Idle, Background
  <2>4. buffer'[Background] \in {buffer[Background], NONE}
    BY <1>0, <1>11, <1>c, <2>1 DEF EndOfBackground, NoData, ITyped
  <2> QED BY <1>b, <1>c, <1>11, <2>3, <2>4 DEF EndOfBackground, IOrder, Ascending, NONE
<1>12. ASSUME NEW p \in Pads, EndOfForeground(p) PROVE EosIsLast' /\ Ascending'
  <2>1. p # Background
    BY <1>12 DEF EndOfForeground, EndsOutput
  <2>2. EosIsLast'
    BY <1>12, <2>1, VisitOrder DEF EndOfForeground, NoData, Visited, InTurn
  <2>3. buffer'[Background] = buffer[Background]
    BY <1>0, <1>12, <1>c, <2>1 DEF EndOfForeground, NoData, ITyped
  <2> QED BY <1>12, <2>2, <2>3 DEF EndOfForeground, InTurn, IOrder, Ascending
<1>13. CASE NeedMoreData
  BY <1>13, <1>d, EndTurnOrder
     DEF NeedMoreData, IOrder, EosIsLast, Decide, Idle, Background
<1>14. CASE BlendAndPush
  <2>1. PICK ok \in BOOLEAN : EndTurn(ok, data)
    BY <1>14 DEF BlendAndPush
  <2>2. EosIsLast' /\ ended # "background"
    BY <1>14, <2>1, EndTurnOrder
       DEF BlendAndPush, IOrder, EosIsLast, Decide, Idle, Background
  <2>3. pushed' \in {pushed, buffer[Background]} /\ UNCHANGED <<buffer, queued>>
    BY <1>14 DEF BlendAndPush
  <2>4. pushed' <= buffer[Background]
    BY <1>b, <1>c, <2>2, <2>3 DEF IOrder, Ascending
  <2> QED BY <2>2, <2>3, <2>4 DEF IOrder, Ascending
<1>15. CASE Restart
  BY <1>15, <1>b, <1>c
     DEF Restart, EosIsLast, Ascending, Nothing, Idle, Background, NONE
<1>16. CASE SegmentDone
  <2>1. rate' = 0 /\ UNCHANGED eos /\ EndStream /\ IOrder
    BY <1>16 DEF SegmentDone, NoFrameRate
  <2>2. at' = Idle /\ \A p \in eos' : data'[p] = NoBuffer
    BY <1>0, <2>1, EndStreamOrder, EndStreamTyped
  <2>3. ended' = "background" => ended = "background"
    BY <1>16 DEF SegmentDone
  <2>4. EosIsLast'
    BY <2>1, <2>2, <2>3 DEF IOrder, EosIsLast, Idle, Background
  <2> QED BY <1>16, <1>d, <2>4 DEF SegmentDone
<1>17. CASE UNCHANGED vars
  BY <1>17 DEF vars, IOrder, EosIsLast, Ascending, Complete
<1> QED BY Steps, <1>1, <1>2, <1>3, <1>4, <1>5, <1>6, <1>8, <1>9, <1>10, <1>11, <1>12,
           <1>13, <1>14, <1>15, <1>16, <1>17

(* Only a turn that blends pushes, and it does so before EOS; Restart      *)
(* forgets what was pushed.                                                *)
LEMMA PushStep ==
    ASSUME IOrder, [Next]_vars
    PROVE  \/ pushed' = pushed
           \/ Restart
           \/ BlendAndPush /\ pushed' = buffer[Background] /\ ended = "no"
<1>1. CASE BlendAndPush
  <2>1. at = Decide /\ pushed' \in {pushed, buffer[Background]}
    BY <1>1 DEF BlendAndPush
  <2>2. ended = "no"
    BY <2>1 DEF IOrder, EosIsLast, Decide, Idle, Background
  <2> QED BY <1>1, <2>1, <2>2
<1> QED BY <1>1, Steps DEF Chain, Eos, Arrive, SetCaps, SegmentDone, NeedTimestamp, DropPast, Queue,
           Drop, Take, Keep, EndOfBackground, EndOfForeground, InTurn, NeedMoreData, vars

(* Downstream gets the buffers of the background in the order of their     *)
(* timestamps, whatever upstream sends.                                    *)
THEOREM OrderOfPushes == Spec => PushedInOrder
<1>1. ASSUME IOrder, [Next]_vars, restarts' = restarts PROVE pushed' >= pushed
  <2>1. pushed \in Int /\ restarts \in Int
    BY <1>1, StampsAreTimes DEF IOrder, ITyped
  <2>2. ~Restart
    BY <1>1, <2>1 DEF Restart
  <2>3. buffer[Background] \in Int
    BY <1>1, StampsAreTimes DEF IOrder, ITyped, Pads
  <2> QED BY <1>1, <2>1, <2>2, <2>3, PushStep DEF IOrder, Ascending
<1> QED BY <1>1, InitOrder, OrderStep, PTL DEF Spec, PushedInOrder

(* No buffer is pushed after EOS at the end of the background, and none    *)
(* after the EOS of a background without frame rate before it has one.     *)
THEOREM SilentAfterEos == Spec => NoBufferAfterEos
<1>1. ASSUME IOrder, [Next]_vars, ended # "no", ended' # "no" PROVE pushed' = pushed
  BY <1>1, PushStep DEF Restart
<1> QED BY <1>1, InitOrder, OrderStep, PTL DEF Spec, NoBufferAfterEos

-----------------------------------------------------------------------------
(* The foreground and the time of a turn.                                  *)

FgBegun ==
    regular /\ buffer[Foreground] # NONE =>
        start_time[Foreground] < (nframes + 1) * rate

IForeground == ITyped /\ FgBegun /\ ForegroundOfThisTime

LEMMA FgStep == IForeground /\ [Next]_vars => IForeground'
<1> SUFFICES ASSUME IForeground, [Next]_vars PROVE IForeground'
  OBVIOUS
<1> USE DEF colVars, clock, upstream
<1>0. ITyped' /\ ITyped
  BY TypedStep DEF IForeground
<1>a. /\ rate \in Nat /\ nframes \in Nat /\ position \in Nat
      /\ Foreground \in Pads /\ Background \in Pads
  BY <1>0, RatesAreNat DEF ITyped, Pads
<1>b. (nframes + 1) * rate \in Nat /\ (regular => (nframes + 1) * rate > 0)
  BY <1>0, <1>a DEF ITyped
<1> SUFFICES FgBegun' /\ ForegroundOfThisTime'
  BY <1>0 DEF IForeground
(* A step that leaves the foreground's buffer and the clock alone.         *)
<1>c. ASSUME buffer'[Foreground] = buffer[Foreground],
             start_time'[Foreground] = start_time[Foreground],
             UNCHANGED clock, regular' => regular, at' # Decide
      PROVE  FgBegun' /\ ForegroundOfThisTime'
  BY <1>c DEF IForeground, FgBegun, ForegroundOfThisTime, Blends
<1>1. ASSUME NEW p \in Pads, Chain(p) PROVE FgBegun' /\ ForegroundOfThisTime'
  BY <1>1, <1>c DEF Chain, Arrive, Idle, Background, Decide
<1>2. ASSUME NEW p \in Pads, Eos(p) PROVE FgBegun' /\ ForegroundOfThisTime'
  BY <1>2, <1>c DEF Eos, Arrive, Idle, Background, Decide
<1>3. CASE SetCaps
  BY <1>3 DEF SetCaps, FgBegun, ForegroundOfThisTime
<1>14. CASE SegmentDone
  BY <1>0, <1>14 DEF SegmentDone, NoFrameRate, ITyped, FgBegun, ForegroundOfThisTime
<1>d. ASSUME NEW ok, NEW d, EndTurn(ok, d) PROVE at' # Decide
  BY <1>d DEF EndTurn, Idle, Background, Decide
<1>4. ASSUME NEW p \in Pads, NeedTimestamp(p) PROVE FgBegun' /\ ForegroundOfThisTime'
  BY <1>4, <1>c, <1>d DEF NeedTimestamp
(* A step that asks for more data.                                         *)
<1>e. ASSUME UNCHANGED <<buffer, start_time, clock, regular>>, need_more_data' = TRUE
      PROVE  FgBegun' /\ ForegroundOfThisTime'
  BY <1>e DEF IForeground, FgBegun, ForegroundOfThisTime, Blends
<1>5. ASSUME NEW p \in Pads, DropPast(p) \/ Queue(p) \/ Drop(p)
      PROVE  FgBegun' /\ ForegroundOfThisTime'
  BY <1>5, <1>e DEF DropPast, Queue, Drop, MoreData, InTurn
<1>f. ASSUME at = Background, at' = Background + 1 PROVE at' # Decide
  BY <1>f DEF Background, Decide
<1>6. ASSUME NEW p \in Pads, Take(p) PROVE FgBegun' /\ ForegroundOfThisTime'
  <2>1. /\ at = p /\ at' = p + 1 /\ UNCHANGED <<clock, regular>>
        /\ buffer' = [buffer EXCEPT ![p] = Stamp(p)]
        /\ start_time' = [start_time EXCEPT ![p] = RunStart(p)]
        /\ end_time' = [end_time EXCEPT ![p] = RunEnd(p)]
        /\ BeginsBeforeTheEnd(p) /\ NotOver(p)
    BY <1>6 DEF Take, Usable, Timed, Accepted, Peek, Visited, InTurn
  <2>2. CASE p = Foreground
    BY <1>0, <2>1, <2>2 DEF ITyped, BeginsBeforeTheEnd, NotOver, FgBegun,
       ForegroundOfThisTime, output_end_time, output_start_time
  <2>3. CASE p # Foreground
    BY <1>0, <1>a, <1>c, <1>f, <2>1, <2>3 DEF ITyped, Pads
  <2> QED BY <2>2, <2>3
<1>7. ASSUME NEW p \in Pads, Keep(p) PROVE FgBegun' /\ ForegroundOfThisTime'
  <2>1. /\ at = p /\ at' = p + 1 /\ UNCHANGED <<clock, regular, data, colVars>>
        /\ Usable(p) /\ ~BeginsBeforeTheEnd(p)
    BY <1>7 DEF Keep, Usable, Timed, Accepted, Peek, Visited, InTurn
  <2>2. CASE p = Foreground
    <3>1. data[p].ts \in Int /\ queued[p] \in Int /\ data[p].ts >= queued[p]
      BY <1>0, <2>1, StampsAreTimes DEF ITyped, Typed, Usable, Timed, Accepted, Past
    <3>2. RunStart(p) \in Nat /\ Stamp(p) \in Int /\ Stamp(p) <= data[p].ts
      BY <1>0, <2>1, <3>1, RunTyped DEF Stamp
    <3>3. RunStart(p) >= (nframes + 1) * rate
      BY <1>b, <2>1, <3>2 DEF BeginsBeforeTheEnd, output_end_time
    <3>4. regular => Stamp(p) - SegStart >= (nframes + 1) * rate
      BY <1>b, <3>2, <3>3, BlendQueuesAssumption DEF RunStart
    <3>5. regular => data[p].ts - SegStart >= (nframes + 1) * rate
      BY <1>b, <3>1, <3>2, <3>4, BlendQueuesAssumption
    <3> QED BY <2>1, <2>2, <3>5
            DEF IForeground, FgBegun, ForegroundOfThisTime, output_end_time
  <2>3. CASE p # Foreground
    BY <1>c, <1>f, <2>1, <2>3 DEF Pads
  <2> QED BY <2>2, <2>3
<1>8. ASSUME NEW p \in Pads, EndOfBackground(p) PROVE FgBegun' /\ ForegroundOfThisTime'
  <2>1. p = Background /\ p # Foreground
    BY <1>8 DEF EndOfBackground, EndsOutput, Background, Foreground
  <2>2. /\ buffer'[Foreground] = buffer[Foreground]
        /\ start_time'[Foreground] = start_time[Foreground]
    BY <1>0, <1>8, <1>a, <2>1 DEF EndOfBackground, NoData, ITyped
  <2>3. at' # Decide
    BY <1>0, <1>8, EndStreamTyped DEF EndOfBackground, Idle, Decide
  <2> QED BY <1>8, <1>c, <2>2, <2>3 DEF EndOfBackground
<1>9. ASSUME NEW p \in Pads, EndOfForeground(p) PROVE FgBegun' /\ ForegroundOfThisTime'
  <2>1. p = Foreground
    BY <1>9 DEF EndOfForeground, EndsOutput, Pads
  <2>2. UNCHANGED <<clock, regular>>
    BY <1>9 DEF EndOfForeground, InTurn
  <2>3. CASE Over(p)
    <3>1. buffer'[Foreground] = NONE
      BY <1>0, <1>9, <1>a, <2>1, <2>3 DEF EndOfForeground, NoData, ITyped
    <3> QED BY <3>1 DEF FgBegun, ForegroundOfThisTime
  <2>4. CASE ~Over(p)
    <3>1. UNCHANGED <<buffer, start_time, end_time>>
      BY <1>9, <2>4 DEF EndOfForeground, NoData
    <3>2. buffer[Foreground] # NONE => end_time[Foreground] >= position
      BY <1>0, <1>a, <2>1, <2>4 DEF Over, ITyped, NONE, output_start_time
    <3> QED BY <2>2, <3>1, <3>2
            DEF IForeground, FgBegun, ForegroundOfThisTime, output_start_time,
                output_end_time
  <2> QED BY <2>3, <2>4
<1>10. CASE NeedMoreData
  BY <1>10, <1>c, <1>d DEF NeedMoreData
<1>11. CASE BlendAndPush
  <2>1. /\ at' # Decide /\ nframes' = nframes + 1
        /\ UNCHANGED <<buffer, start_time, rate, regular>>
    BY <1>11, <1>d DEF BlendAndPush, NextFrame
  <2>2. (nframes + 1) * rate <= (nframes' + 1) * rate
    <3>1. (nframes + 2) * rate = (nframes + 1) * rate + rate
      BY <1>a
    <3> QED BY <1>a, <1>b, <2>1, <3>1
  <2>3. (nframes' + 1) * rate \in Nat
    BY <1>a, <2>1
  <2>4. start_time[Foreground] \in Int
    BY <1>0, <1>a DEF ITyped, NONE
  <2> QED BY <1>b, <2>1, <2>2, <2>3, <2>4
          DEF IForeground, FgBegun, ForegroundOfThisTime, Blends
<1>12. CASE Restart
  BY <1>12, <1>a DEF Restart, Nothing, FgBegun, ForegroundOfThisTime
<1>13. CASE UNCHANGED vars
  BY <1>13 DEF vars, IForeground, FgBegun, ForegroundOfThisTime, Blends,
     output_start_time, output_end_time
<1> QED BY Steps, <1>1, <1>2, <1>3, <1>4, <1>5, <1>6, <1>7, <1>8, <1>9, <1>10, <1>11,
           <1>12, <1>13, <1>14

(* The foreground that is blended belongs to the time of the turn, when    *)
(* the background is regular.                                              *)
THEOREM ForegroundInTime == Spec => []ForegroundOfThisTime
<1>1. Init => IForeground
  <2> SUFFICES ASSUME Init PROVE IForeground
    OBVIOUS
  <2>1. ITyped
    BY InitTyped
  <2> QED BY <2>1 DEF Init, IForeground, FgBegun, ForegroundOfThisTime, Nothing, Pads
<1> QED BY <1>1, FgStep, PTL DEF Spec, IForeground

-----------------------------------------------------------------------------
(* A regular background.                                                   *)

(* Frame i, and the number of the one that is taken next: of those sent,   *)
(* the collect pad may hold one, and one may wait for its end.             *)
Frame(i) == SegStart + i * rate
Held == IF data[Background] # NoBuffer THEN 1 ELSE 0
Waiting == IF queued[Background] # NONE THEN 1 ELSE 0
NextIndex == sent[Background] - Held - Waiting

(* The background comes: it has neither ended nor failed.                  *)
Comes == regular /\ Background \notin eos \cup paused

InSequence ==
    /\ NextIndex >= 0
    /\ data[Background] # NoBuffer =>
          /\ data[Background].ts = Frame(NextIndex + Waiting)
          /\ data[Background].dur \in {rate, NONE}
    /\ queued[Background] # NONE => queued[Background] = Frame(NextIndex)

LastPushed == IF nframes = 0 THEN NONE ELSE Frame(nframes - 1)

(* Frame n is taken for turn n, or will be ...                             *)
Taken ==
    /\ NextIndex = nframes + 1 /\ buffer[Background] = Frame(nframes)
    /\ end_time[Background] <= Frame(nframes + 1) - SegStart
    /\ pushed = LastPushed

ToTake ==
    /\ NextIndex = nframes /\ buffer[Background] = LastPushed
    /\ end_time[Background] <= Frame(nframes) - SegStart
    /\ pushed = LastPushed

(* ... until the segment ends: no turn gets past the background then.      *)
SegmentOver == NextIndex >= 1 /\ Frame(NextIndex - 1) >= SegStop

InStep == Taken \/ ToTake \/ SegmentOver

Turns ==
    /\ \A p \in paused : data[p] = NoBuffer
    /\ at \in {Foreground, Decide} => Background \notin eos \cup paused
    /\ regular => position = nframes * rate
    /\ buffer[Background] < SegStop
    /\ Comes => InSequence /\ InStep
    /\ regular /\ at \in {Foreground, Decide} /\ ~need_more_data => Taken

IRegular == IOrder /\ Turns

(* Arithmetic of frames.                                                   *)
LEMMA FrameFacts ==
    ASSUME rate \in Nat
    PROVE  /\ \A i \in Nat : Frame(i) \in Nat /\ Frame(i + 1) = Frame(i) + rate
           /\ \A i \in Nat : Frame(i) = SegStart + i * rate
           /\ Frame(0) = SegStart
<1>1. ASSUME NEW i \in Nat
      PROVE  /\ i * rate \in Nat /\ (i + 1) * rate = i * rate + rate
  OBVIOUS
<1> QED BY <1>1, BlendQueuesAssumption DEF Frame

(* The visit of a regular background that has a buffer.                    *)
LEMMA RegularVisit ==
    ASSUME IRegular, regular, Peek(Background)
    PROVE  /\ Comes /\ InSequence /\ InStep
           /\ Held = 1 /\ data[Background].ts \in Nat
           /\ NextIndex \in Nat /\ sent[Background] = NextIndex + Waiting + 1
           /\ ~Past(Background)
           /\ Timed(Background) =>
                 /\ Stamp(Background) = Frame(NextIndex)
                 /\ EndStamp(Background) = Frame(NextIndex + 1)
<1> USE DEF NONE
<1>1. at = Background /\ data[Background] # NoBuffer
  BY DEF Peek
<1>2. Background \in Pads /\ rate \in Nat /\ sent[Background] \in Nat /\ nframes \in Nat
  BY RatesAreNat DEF IRegular, IOrder, ITyped, Pads
<1>3. Background \notin eos \cup paused
  BY <1>1 DEF IRegular, IOrder, EosIsLast, Turns
<1>4. Comes /\ InSequence /\ InStep
  BY <1>3 DEF Comes, IRegular, Turns
<1>5. Held = 1 /\ Waiting \in {0, 1}
  BY <1>1 DEF Held, Waiting
<1>6. NextIndex \in Nat /\ sent[Background] = NextIndex + Waiting + 1
  BY <1>2, <1>4, <1>5 DEF InSequence, NextIndex
<1>7. /\ Frame(NextIndex) \in Nat /\ Frame(NextIndex + 1) = Frame(NextIndex) + rate
      /\ data[Background].ts = Frame(NextIndex + Waiting)
      /\ data[Background].dur \in {rate, NONE}
      /\ queued[Background] # NONE => queued[Background] = Frame(NextIndex)
  BY <1>1, <1>2, <1>4, <1>6, FrameFacts DEF InSequence
<1>8. /\ queued[Background] = NONE => data[Background].ts = Frame(NextIndex)
      /\ queued[Background] # NONE => data[Background].ts = Frame(NextIndex) + rate
  BY <1>6, <1>7 DEF Waiting
<1>9. data[Background].ts \in Nat /\ data[Background].ts >= queued[Background]
  BY <1>2, <1>7, <1>8
<1>10. buffer[Background] <= Frame(NextIndex)
  <2>1. buffer[Background] \in Int
    BY <1>2, StampsAreTimes DEF IRegular, IOrder, ITyped
  <2>2. CASE Taken
    BY <1>2, <1>7, <2>1, <2>2, FrameFacts DEF Taken
  <2>3. CASE ToTake
    <3>1. CASE nframes = 0
      BY <1>7, <2>3, <3>1 DEF ToTake, LastPushed
    <3>2. CASE nframes # 0
      <4>1. nframes - 1 \in Nat /\ nframes = (nframes - 1) + 1
        BY <1>2, <3>2
      <4>2. Frame(nframes) = Frame(nframes - 1) + rate /\ Frame(nframes - 1) \in Nat
        BY <1>2, <4>1, FrameFacts
      <4> QED BY <1>2, <2>3, <3>2, <4>2 DEF ToTake, LastPushed
    <3> QED BY <3>1, <3>2
  <2>4. CASE SegmentOver
    <3>1. NextIndex - 1 \in Nat /\ NextIndex = (NextIndex - 1) + 1
      BY <1>6, <2>4 DEF SegmentOver
    <3>2. Frame(NextIndex) = Frame(NextIndex - 1) + rate /\ Frame(NextIndex - 1) \in Nat
      BY <1>2, <3>1, FrameFacts
    <3> QED BY <1>2, <2>1, <2>4, <3>2, BlendQueuesAssumption DEF SegmentOver, IRegular, Turns
  <2> QED BY <1>4, <2>2, <2>3, <2>4 DEF InStep
<1>11. ~Past(Background)
  <2>1. buffer[Background] \in Int /\ queued[Background] \in Int
    BY <1>2, StampsAreTimes DEF IRegular, IOrder, ITyped
  <2> QED BY <1>2, <1>7, <1>8, <1>9, <1>10, <2>1 DEF Past
<1>12. ASSUME Timed(Background)
       PROVE  /\ Stamp(Background) = Frame(NextIndex)
              /\ EndStamp(Background) = Frame(NextIndex + 1)
  BY <1>2, <1>7, <1>8, <1>12 DEF Timed, Stamp, Lasts, EndStamp
<1> QED BY <1>4, <1>5, <1>6, <1>9, <1>11, <1>12

(* When its frame is dropped, taken or kept.                               *)
LEMMA RegularTimes ==
    ASSUME IRegular, regular, Peek(Background), Timed(Background)
    PROVE  /\ Drop(Background) => Frame(NextIndex) >= SegStop
           /\ Take(Background) => /\ ToTake
                                 /\ RunEnd(Background) <= Frame(nframes + 1) - SegStart
           /\ Keep(Background) => Taken
           /\ Frame(NextIndex) \in Nat /\ Stamp(Background) = Frame(NextIndex)
<1>1. /\ InStep /\ NextIndex \in Nat
      /\ Stamp(Background) = Frame(NextIndex)
      /\ EndStamp(Background) = Frame(NextIndex + 1)
  BY RegularVisit
<1>2. /\ Background \in Pads /\ rate \in Nat \ {0} /\ nframes \in Nat
      /\ SegStart \in Nat /\ SegStop \in Nat
  BY RatesAreNat, BlendQueuesAssumption DEF IRegular, IOrder, ITyped, Pads
<1>3. end_time[Background] \in Int
  BY <1>2 DEF IRegular, IOrder, ITyped, NONE
<1>4. /\ Frame(NextIndex) = SegStart + NextIndex * rate
      /\ Frame(NextIndex) \in Nat /\ NextIndex * rate \in Nat
      /\ Frame(NextIndex + 1) = Frame(NextIndex) + rate
  BY <1>1, <1>2, FrameFacts
<1>5. /\ Frame(nframes) = SegStart + nframes * rate /\ nframes * rate \in Nat
      /\ Frame(nframes + 1) = Frame(nframes) + rate
      /\ output_end_time = nframes * rate + rate
      /\ output_start_time = nframes * rate
  <2>1. output_start_time = nframes * rate
    BY DEF IRegular, Turns, output_start_time
  <2>2. (nframes + 1) * rate = nframes * rate + rate /\ nframes * rate \in Nat
    BY <1>2
  <2> QED BY <1>2, <2>1, <2>2, FrameFacts DEF output_end_time
<1>6. InSegment(Background) <=> Frame(NextIndex) < SegStop
  BY <1>1, <1>2, <1>4 DEF InSegment
<1>7. ASSUME InSegment(Background)
      PROVE  /\ RunStart(Background) = NextIndex * rate
             /\ RunEnd(Background) \in Int
             /\ RunEnd(Background) >= NextIndex * rate
             /\ RunEnd(Background) <= NextIndex * rate + rate
  BY <1>1, <1>2, <1>4, <1>6, <1>7 DEF RunStart, RunEnd
<1>8. CASE SegmentOver
  <2>1. NextIndex - 1 \in Nat /\ NextIndex = (NextIndex - 1) + 1
    BY <1>1, <1>8 DEF SegmentOver
  <2>2. Frame(NextIndex) = Frame(NextIndex - 1) + rate /\ Frame(NextIndex - 1) \in Nat
    BY <1>2, <2>1, FrameFacts
  <2>3. ~InSegment(Background)
    BY <1>2, <1>6, <1>8, <2>2 DEF SegmentOver
  <2> QED BY <1>1, <1>2, <1>4, <1>6, <2>3 DEF Take, Keep, Usable
<1>9. CASE Taken
  <2>1. NextIndex * rate = nframes * rate + rate
    BY <1>2, <1>9 DEF Taken
  <2>2. InSegment(Background) =>
          /\ Later(Background) /\ ~BeginsBeforeTheEnd(Background)
          /\ NotOver(Background)
    <3>1. end_time[Background] <= NextIndex * rate
      BY <1>2, <1>3, <1>5, <1>9, <2>1 DEF Taken
    <3> QED BY <1>2, <1>3, <1>4, <1>5, <1>7, <2>1, <3>1
            DEF Later, BeginsBeforeTheEnd, NotOver
  <2> QED BY <1>1, <1>2, <1>4, <1>6, <1>9, <2>2 DEF Drop, Take, Usable
<1>10. CASE ToTake
  <2>1. NextIndex = nframes
    BY <1>10 DEF ToTake
  <2>2. InSegment(Background) =>
          /\ Later(Background) /\ BeginsBeforeTheEnd(Background)
          /\ NotOver(Background)
          /\ RunEnd(Background) <= Frame(nframes + 1) - SegStart
    <3>1. end_time[Background] <= NextIndex * rate
      BY <1>2, <1>3, <1>5, <1>10, <2>1 DEF ToTake
    <3> QED BY <1>2, <1>3, <1>4, <1>5, <1>7, <2>1, <3>1
            DEF Later, BeginsBeforeTheEnd, NotOver
  <2> QED BY <1>1, <1>2, <1>4, <1>6, <1>10, <2>2 DEF Drop, Take, Keep, Usable
<1> QED BY <1>1, <1>8, <1>9, <1>10 DEF InStep

-----------------------------------------------------------------------------
(* A step that leaves the background and the clock as they are.            *)
BackgroundAlone ==
    /\ data'[Background] = data[Background] /\ queued'[Background] = queued[Background]
    /\ buffer'[Background] = buffer[Background]
    /\ end_time'[Background] = end_time[Background]
    /\ sent'[Background] = sent[Background]
    /\ UNCHANGED <<rate, nframes, pushed>>

LEMMA AloneKeeps ==
    ASSUME BackgroundAlone
    PROVE  /\ InSequence => InSequence'
           /\ InStep => InStep'
           /\ Taken => Taken'
<1>1. Held' = Held /\ Waiting' = Waiting /\ NextIndex' = NextIndex
  BY DEF BackgroundAlone, Held, Waiting, NextIndex
<1> QED BY <1>1 DEF BackgroundAlone, InSequence, InStep, Taken, ToTake, SegmentOver,
           LastPushed, Frame

LEMMA EndTurnRegular ==
    ASSUME IRegular, NEW ok \in BOOLEAN, EndTurn(ok, data), UNCHANGED <<eos, regular>>
    PROVE  /\ \A p \in paused' : data'[p] = NoBuffer
           /\ at' \notin {Foreground, Decide}
           /\ Comes' => Comes /\ data'[Background] = data[Background]
<1>1. caller \in Pads /\ Background \in Pads /\ paused \subseteq Pads
  BY DEF IRegular, IOrder, ITyped, Pads
<1>2. at' \notin {Foreground, Decide}
  BY DEF EndTurn, Idle, Background, Foreground, Decide
<1>3. CASE ok
  BY <1>2, <1>3 DEF EndTurn, IRegular, Turns, Comes
<1>4. CASE ~ok
  <2>1. data' = [data EXCEPT ![caller] = NoBuffer] /\ paused' = paused \cup {caller}
    BY <1>4 DEF EndTurn
  <2> QED BY <1>1, <1>2, <2>1 DEF IRegular, IOrder, ITyped, Typed, Turns, Comes
<1> QED BY <1>3, <1>4

LEMMA EndStreamRegular ==
    ASSUME IRegular, EndStream
    PROVE  /\ \A p \in paused' : data'[p] = NoBuffer
           /\ at' \notin {Foreground, Decide}
<1>1. caller \in Pads /\ paused \subseteq Pads
  BY DEF IRegular, IOrder, ITyped
<1>2. data' = [data EXCEPT ![caller] = NoBuffer] /\ paused' \subseteq paused \cup {caller}
  BY DEF EndStream
<1>3. \A p \in paused' : data'[p] = NoBuffer
  BY <1>1, <1>2 DEF IRegular, IOrder, ITyped, Typed, Turns
<1> QED BY <1>3 DEF EndStream, Idle, Foreground, Decide

(* The buffer that is decided on leaves its place.                         *)
LEMMA RemoveRegular ==
    ASSUME IRegular, regular, Peek(Background), Timed(Background), Remove(Background),
           UNCHANGED <<sent, rate>>
    PROVE  InSequence' /\ NextIndex' = NextIndex + 1
<1>1. /\ InSequence /\ Held = 1 /\ NextIndex \in Nat
      /\ sent[Background] = NextIndex + Waiting + 1
  BY RegularVisit
<1>2. Background \in Pads /\ data[Background] # NoBuffer
  BY DEF Peek, Pads
<1>3. CASE queued[Background] # NONE
  <2>1. queued'[Background] = NONE /\ data' = data
    BY <1>2, <1>3 DEF Remove, IRegular, IOrder, ITyped
  <2>2. Waiting = 1 /\ Waiting' = 0 /\ Held' = 1
    BY <1>2, <1>3, <2>1 DEF Waiting, Held
  <2>3. NextIndex' = NextIndex + 1
    BY <1>1, <2>2 DEF NextIndex
  <2>4. NextIndex' + Waiting' = NextIndex + Waiting
    BY <1>1, <2>2, <2>3
  <2> QED BY <1>1, <1>2, <2>1, <2>3, <2>4 DEF InSequence, Frame
<1>4. CASE queued[Background] = NONE
  <2>1. data'[Background] = NoBuffer /\ queued' = queued
    BY <1>2, <1>4 DEF Remove, Popped, IRegular, IOrder, ITyped, Typed
  <2>2. Waiting = 0 /\ Waiting' = 0 /\ Held' = 0
    BY <1>4, <2>1 DEF Waiting, Held
  <2>3. NextIndex' = NextIndex + 1
    BY <1>1, <2>2 DEF NextIndex
  <2> QED BY <1>1, <1>4, <2>1, <2>3 DEF InSequence
<1> QED BY <1>3, <1>4

LEMMA TurnsStep == IRegular /\ [Next]_vars => IRegular'
<1> SUFFICES ASSUME IRegular, [Next]_vars PROVE IRegular'
  OBVIOUS
<1> USE DEF colVars, clock, upstream
<1>0. IOrder' /\ IOrder /\ ITyped
  BY OrderStep DEF IRegular, IOrder
<1> SUFFICES Turns'
  BY <1>0 DEF IRegular
<1>a. /\ Background \in Pads /\ Foreground \in Pads /\ Background # Foreground
      /\ rate \in Nat /\ nframes \in Nat /\ eos \subseteq Pads
      /\ sent[Background] \in Nat /\ buffer[Background] \in Int
      /\ end_time[Background] \in Int /\ paused \subseteq Pads
      /\ SegStop \in Nat /\ SegStart \in Nat
  BY <1>0, RatesAreNat, StampsAreTimes, BlendQueuesAssumption
     DEF ITyped, Pads, Background, Foreground, NONE
(* A step between turns, or one that ends a turn, that leaves the          *)
(* background and the clock alone.                                         *)
<1>b. ASSUME \A p \in paused' : data'[p] = NoBuffer,
             at' \notin {Foreground, Decide}, BackgroundAlone,
             UNCHANGED position, regular' = regular, Comes' => Comes
      PROVE  Turns'
  BY <1>b, AloneKeeps DEF IRegular, Turns, BackgroundAlone
<1>c. ASSUME NEW ok \in BOOLEAN, EndTurn(ok, data), UNCHANGED <<eos, regular>>,
             UNCHANGED <<colVars, clock, pushed, sent>>
      PROVE  Turns'
  <2>1. Comes' => Comes /\ BackgroundAlone
    BY <1>c, EndTurnRegular DEF BackgroundAlone
  <2>2. Comes' => InSequence' /\ InStep'
    BY <2>1, AloneKeeps DEF IRegular, Turns
  <2> QED BY <1>c, <2>2, EndTurnRegular DEF IRegular, Turns
<1>1. ASSUME NEW p \in Pads, Chain(p) PROVE Turns'
  <2>1. PICK b \in Offers(p) : Arrive(p, [data EXCEPT ![p] = b], eos)
    BY <1>1 DEF Chain
  <2>2. /\ p \notin eos \cup paused /\ data[p] = NoBuffer
        /\ sent' = [sent EXCEPT ![p] = @ + 1]
        /\ data' = [data EXCEPT ![p] = b]
        /\ UNCHANGED <<eos, paused, colVars, clock, pushed, regular>>
    BY <1>1, <2>1 DEF Chain, Arrive
  <2>3. at' \notin {Foreground, Decide} /\ (Comes' => Comes)
    BY <2>1, <2>2 DEF Arrive, Comes, Idle, Background, Foreground, Decide
  <2>4. \A q \in paused' : data'[q] = NoBuffer
    BY <1>0, <1>a, <2>2 DEF IRegular, Turns, ITyped, Typed
  <2>5. CASE p # Background
    BY <1>0, <1>a, <1>b, <2>2, <2>3, <2>4, <2>5 DEF BackgroundAlone, ITyped, Typed
  <2>6. CASE p = Background
    <3>1. ASSUME Comes PROVE InSequence' /\ NextIndex' = NextIndex
      <4>1. /\ b.ts = SegStart + sent[Background] * rate
            /\ b.dur \in {rate, NONE}
        BY <2>1, <2>6, <3>1 DEF Offers, Regular, Comes
      <4>2. SegStart + sent[Background] * rate \in Nat
        BY <1>a, FrameFacts
      <4>3. data'[Background] = b /\ b # NoBuffer
        BY <1>0, <2>2, <2>6, <4>1, <4>2 DEF ITyped, Typed, NoBuffer, NONE
      <4>4. sent'[Background] = sent[Background] + 1
        BY <1>0, <2>2, <2>6 DEF ITyped
      <4>5. Held = 0 /\ Held' = 1 /\ Waiting' = Waiting /\ Waiting \in {0, 1}
        BY <2>2, <2>6, <4>3 DEF Held, Waiting
      <4>6. NextIndex' = NextIndex /\ NextIndex + Waiting = sent[Background]
            /\ NextIndex' + Waiting' = sent[Background]
        <5>1. sent[Background] \in Nat /\ Waiting \in Int /\ Waiting' = Waiting
          BY <1>a, <4>5
        <5>2. NextIndex = sent[Background] - 0 - Waiting
          BY <4>5, Zenon DEF NextIndex
        <5>3. NextIndex' = (sent[Background] + 1) - 1 - Waiting
          BY <4>4, <4>5, Zenon DEF NextIndex
        <5>4. NextIndex = sent[Background] - Waiting
          BY <5>1, <5>2
        <5>5. NextIndex' = sent[Background] - Waiting
          BY <5>1, <5>3
        <5> QED BY <5>1, <5>4, <5>5
      <4>7. InSequence
        BY <3>1 DEF IRegular, Turns
      <4> QED BY <2>2, <4>1, <4>3, <4>6, <4>7 DEF InSequence, Frame
    <3>2. ASSUME Comes PROVE InStep'
      <4>1. InStep
        BY <3>2 DEF IRegular, Turns
      <4> QED BY <2>2, <3>1, <3>2, <4>1
              DEF InStep, Taken, ToTake, SegmentOver, LastPushed, Frame
    <3> QED BY <2>2, <2>3, <2>4, <3>1, <3>2 DEF IRegular, Turns
  <2> QED BY <2>5, <2>6
<1>2. ASSUME NEW p \in Pads, Eos(p) PROVE Turns'
  BY <1>2, <1>b DEF Eos, Arrive, BackgroundAlone, IRegular, Turns, Comes, Idle,
     Background, Foreground, Decide
<1>3. CASE SetCaps
  BY <1>3 DEF SetCaps, IRegular, Turns, Comes, Idle, Foreground, Decide
<1>4. ASSUME NEW p \in Pads, NeedTimestamp(p) PROVE Turns'
  BY <1>4, <1>c DEF NeedTimestamp
(* A visit.                                                                *)
<1>d. ASSUME NEW p \in Pads, at = p, at' = p + 1, UNCHANGED <<eos, paused>>,
             UNCHANGED data \/ Popped(p),
             p = Background => data[p] # NoBuffer
      PROVE  /\ \A q \in paused' : data'[q] = NoBuffer
             /\ at' \in {Foreground, Decide}
             /\ Background \notin eos' \cup paused'
  <2>1. \A q \in paused' : data'[q] = NoBuffer
    BY <1>0, <1>d DEF IRegular, Turns, Popped, ITyped, Typed
  <2>2. at' \in {Foreground, Decide}
    BY <1>d DEF Pads, Background, Foreground, Decide
  <2>3. Background \notin eos \cup paused
    BY <1>0, <1>d DEF IRegular, Turns, IOrder, EosIsLast, Pads
  <2> QED BY <1>d, <2>1, <2>2, <2>3
(* A visit of the foreground.                                              *)
<1>e. ASSUME at = Foreground, at' = Foreground + 1,
             UNCHANGED <<eos, paused, clock, pushed, upstream>>,
             UNCHANGED data \/ Popped(Foreground),
             queued'[Background] = queued[Background],
             buffer'[Background] = buffer[Background],
             end_time'[Background] = end_time[Background],
             need_more_data' \in {need_more_data, TRUE}
      PROVE  Turns'
  <2>1. data'[Background] = data[Background]
    BY <1>0, <1>a, <1>e DEF Popped, ITyped, Typed
  <2>2. BackgroundAlone
    BY <1>e, <2>1 DEF BackgroundAlone
  <2>3. /\ \A q \in paused' : data'[q] = NoBuffer
        /\ at' \in {Foreground, Decide} /\ Background \notin eos' \cup paused'
    BY <1>a, <1>d, <1>e
  <2>4. Comes' => InSequence' /\ InStep'
    BY <1>e, <2>2, AloneKeeps DEF IRegular, Turns, Comes
  <2>5. regular' /\ ~need_more_data' => Taken'
    <3>1. regular' => regular
      BY <1>e
    <3>2. ~need_more_data' => ~need_more_data
      BY <1>e, Zenon
    <3>3. Taken => Taken'
      BY <2>2, AloneKeeps
    <3> QED BY <1>e, <3>1, <3>2, <3>3 DEF IRegular, Turns
  <2>6. (regular' => position' = nframes' * rate') /\ buffer'[Background] < SegStop
    BY <1>e DEF IRegular, Turns
  <2> QED BY <2>3, <2>4, <2>5, <2>6 DEF Turns
(* A visit of a background that is not regular.                            *)
<1>f. ASSUME at = Background, at' = Background + 1, data[Background] # NoBuffer,
             UNCHANGED <<eos, paused, regular>>,
             UNCHANGED data \/ Popped(Background),
             buffer'[Background] < SegStop, ~regular
      PROVE  Turns'
  BY <1>a, <1>d, <1>f DEF Turns, Comes
<1>5. ASSUME NEW p \in Pads, DropPast(p) PROVE Turns'
  <2>1. CASE p = Foreground
    BY <1>5, <1>e, <2>1 DEF DropPast, Peek, MoreData, InTurn
  <2>2. CASE p = Background
    <3>1. ~regular
      BY <1>5, <2>2, RegularVisit DEF DropPast
    <3> QED BY <1>5, <1>f, <2>2, <3>1
            DEF DropPast, Peek, MoreData, InTurn, IRegular, Turns
  <2> QED BY <2>1, <2>2 DEF Pads
<1>6. ASSUME NEW p \in Pads, Queue(p) PROVE Turns'
  <2>1. CASE p = Foreground
    <3>1. queued'[Background] = queued[Background]
      BY <1>0, <1>6, <1>a, <2>1 DEF Queue, ITyped
    <3> QED BY <1>6, <1>e, <2>1, <3>1 DEF Queue, Accepted, Peek, MoreData, InTurn
  <2>2. CASE p = Background /\ ~regular
    BY <1>6, <1>f, <2>2 DEF Queue, Accepted, Peek, MoreData, InTurn, IRegular, Turns
  <2>3. CASE p = Background /\ regular
    <3>1. /\ Peek(Background) /\ at = Background /\ at' = Background + 1
          /\ queued[Background] = NONE /\ data[Background] # NoBuffer
          /\ queued' = [queued EXCEPT ![Background] = data[Background].ts]
          /\ Popped(Background) /\ need_more_data' = TRUE
          /\ UNCHANGED <<buffer, end_time, eos, paused, clock, pushed, upstream>>
      BY <1>6, <2>3 DEF Queue, Accepted, Peek, MoreData, InTurn
    <3>2. /\ Comes /\ InSequence /\ InStep /\ Held = 1
          /\ data[Background].ts \in Nat /\ NextIndex \in Nat
          /\ sent[Background] = NextIndex + Waiting + 1
      BY <2>3, <3>1, RegularVisit
    <3>3. /\ data'[Background] = NoBuffer
          /\ queued'[Background] = data[Background].ts
          /\ queued'[Background] # NONE
      BY <1>0, <1>a, <3>1, <3>2 DEF Popped, ITyped, Typed, NONE
    <3>4. Waiting = 0 /\ Waiting' = 1 /\ Held' = 0
      BY <3>1, <3>3 DEF Waiting, Held
    <3>5. NextIndex' = NextIndex /\ NextIndex + Waiting = NextIndex
      BY <3>1, <3>2, <3>4 DEF NextIndex
    <3>6. InSequence'
      BY <3>1, <3>2, <3>3, <3>5 DEF InSequence, Frame
    <3>7. InStep'
      BY <3>1, <3>2, <3>5 DEF InStep, Taken, ToTake, SegmentOver, LastPushed, Frame
    <3> QED BY <1>a, <1>d, <3>1, <3>6, <3>7 DEF IRegular, Turns
  <2> QED BY <2>1, <2>2, <2>3 DEF Pads
<1>g. ASSUME NEW p \in Pads, Remove(p) PROVE UNCHANGED data \/ Popped(p)
  BY <1>g DEF Remove
<1>h. ASSUME Remove(Foreground) PROVE queued'[Background] = queued[Background]
  BY <1>0, <1>a, <1>h DEF Remove, ITyped
<1>7. ASSUME NEW p \in Pads, Drop(p) PROVE Turns'
  <2>0. /\ at = p /\ at' = p + 1 /\ Peek(p) /\ Timed(p) /\ data[p] # NoBuffer
        /\ Remove(p) /\ need_more_data' = TRUE
        /\ UNCHANGED <<buffer, end_time, eos, paused, clock, pushed, upstream>>
    BY <1>7 DEF Drop, Timed, Accepted, Peek, MoreData, InTurn
  <2>1. CASE p = Foreground
    BY <1>e, <1>g, <1>h, <2>0, <2>1
  <2>2. CASE p = Background /\ ~regular
    BY <1>f, <1>g, <2>0, <2>2 DEF IRegular, Turns
  <2>3. CASE p = Background /\ regular
    <3>1. InSequence' /\ NextIndex' = NextIndex + 1 /\ NextIndex \in Nat
      BY <2>0, <2>3, RemoveRegular, RegularVisit
    <3>2. Frame(NextIndex) >= SegStop
      BY <1>7, <2>0, <2>3, RegularTimes
    <3>3. SegmentOver'
      <4>1. NextIndex' - 1 = NextIndex /\ NextIndex' >= 1
        BY <3>1
      <4> QED BY <2>0, <3>2, <4>1 DEF SegmentOver, Frame
    <3> QED BY <1>a, <1>d, <1>g, <2>0, <2>3, <3>1, <3>3 DEF IRegular, Turns, InStep
  <2> QED BY <2>1, <2>2, <2>3 DEF Pads
<1>8. ASSUME NEW p \in Pads, Take(p) PROVE Turns'
  <2>0. /\ at = p /\ at' = p + 1 /\ Peek(p) /\ Timed(p) /\ data[p] # NoBuffer
        /\ Remove(p) /\ need_more_data' = need_more_data /\ Usable(p)
        /\ buffer' = [buffer EXCEPT ![p] = Stamp(p)]
        /\ end_time' = [end_time EXCEPT ![p] = RunEnd(p)]
        /\ UNCHANGED <<eos, paused, clock, pushed, upstream>>
    BY <1>8 DEF Take, Usable, Timed, Accepted, Peek, Visited, InTurn
  <2>1. CASE p = Foreground
    <3>1. /\ buffer'[Background] = buffer[Background]
          /\ end_time'[Background] = end_time[Background]
      BY <1>0, <1>a, <2>0, <2>1 DEF ITyped
    <3> QED BY <1>e, <1>g, <1>h, <2>0, <2>1, <3>1
  <2>2. CASE p = Background
    <3>1. /\ buffer'[Background] = Stamp(Background)
          /\ end_time'[Background] = RunEnd(Background)
          /\ buffer'[Background] < SegStop
      BY <1>0, <2>0, <2>2 DEF ITyped, Usable, InSegment
    <3>2. CASE ~regular
      BY <1>f, <1>g, <2>0, <2>2, <3>1, <3>2
    <3>3. CASE regular
      <4>1. InSequence' /\ NextIndex' = NextIndex + 1
        BY <2>0, <2>2, <3>3, RemoveRegular
      <4>2. /\ ToTake /\ Stamp(Background) = Frame(NextIndex)
            /\ RunEnd(Background) <= Frame(nframes + 1) - SegStart
        BY <1>8, <2>0, <2>2, <3>3, RegularTimes
      <4>3. NextIndex = nframes /\ NextIndex' = nframes + 1
        BY <4>1, <4>2 DEF ToTake
      <4>4. Taken'
        BY <2>0, <3>1, <4>2, <4>3 DEF Taken, ToTake, LastPushed, Frame
      <4> QED BY <1>a, <1>d, <1>g, <2>0, <2>2, <3>1, <4>1, <4>4
              DEF IRegular, Turns, InStep
    <3> QED BY <3>2, <3>3
  <2> QED BY <2>1, <2>2 DEF Pads
<1>9. ASSUME NEW p \in Pads, Keep(p) PROVE Turns'
  <2>0. /\ at = p /\ at' = p + 1 /\ Peek(p) /\ Timed(p) /\ data[p] # NoBuffer
        /\ need_more_data' = need_more_data
        /\ UNCHANGED <<data, colVars, eos, paused, clock, pushed, upstream>>
    BY <1>9 DEF Keep, Usable, Timed, Accepted, Peek, Visited, InTurn
  <2>1. CASE p = Foreground
    BY <1>e, <2>0, <2>1
  <2>2. CASE p = Background /\ ~regular
    BY <1>f, <2>0, <2>2 DEF IRegular, Turns
  <2>3. CASE p = Background /\ regular
    <3>1. Taken /\ Comes /\ InSequence
      BY <1>9, <2>0, <2>3, RegularTimes, RegularVisit
    <3>2. BackgroundAlone
      BY <2>0 DEF BackgroundAlone
    <3> QED BY <1>a, <1>d, <2>0, <2>3, <3>1, <3>2, AloneKeeps DEF IRegular, Turns, InStep
  <2> QED BY <2>1, <2>2, <2>3 DEF Pads
<1>10. ASSUME NEW p \in Pads, EndOfBackground(p) PROVE Turns'
  <2>1. /\ p = Background /\ at = Background /\ data[Background] = NoBuffer
        /\ EndStream /\ UNCHANGED <<eos, queued, clock, pushed, upstream>>
    BY <1>10 DEF EndOfBackground, EndsOutput, NoData
  <2>2. Background \in eos
    BY <1>0, <1>a, <2>1 DEF IOrder, EosIsLast, Complete
  <2>3. buffer'[Background] \in {buffer[Background], NONE}
    BY <1>0, <1>10, <1>a, <2>1 DEF EndOfBackground, NoData, ITyped
  <2>4. buffer'[Background] < SegStop
    BY <1>a, <2>3 DEF IRegular, Turns, NONE
  <2> QED BY <2>1, <2>2, <2>4, EndStreamRegular DEF IRegular, Turns, Comes
<1>11. ASSUME NEW p \in Pads, EndOfForeground(p) PROVE Turns'
  <2>1. p = Foreground
    BY <1>11 DEF EndOfForeground, EndsOutput, Pads
  <2>2. /\ buffer'[Background] = buffer[Background]
        /\ end_time'[Background] = end_time[Background]
    BY <1>0, <1>11, <1>a, <2>1 DEF EndOfForeground, NoData, ITyped
  <2> QED BY <1>11, <1>e, <2>1, <2>2 DEF EndOfForeground, NoData, Visited, InTurn
<1>12. CASE NeedMoreData
  BY <1>12, <1>c DEF NeedMoreData
<1>13. CASE BlendAndPush
  <2>1. PICK ok \in BOOLEAN : EndTurn(ok, data)
    BY <1>13 DEF BlendAndPush
  <2>2. /\ at = Decide /\ ~need_more_data /\ nframes' = nframes + 1
        /\ position' = (nframes + 1) * rate
        /\ UNCHANGED <<eos, colVars, rate, regular, sent>>
    BY <1>13 DEF BlendAndPush, NextFrame, output_end_time
  <2>3. regular' => position' = nframes' * rate'
    BY <2>2
  <2>4. /\ \A p \in paused' : data'[p] = NoBuffer
        /\ at' \notin {Foreground, Decide}
        /\ Comes' => Comes /\ data'[Background] = data[Background]
    BY <2>1, <2>2, EndTurnRegular
  <2>5. ASSUME Comes' PROVE InSequence' /\ ToTake'
    <3>1. Comes /\ InSequence /\ Taken
      BY <2>2, <2>4, <2>5 DEF IRegular, Turns, Comes
    <3>2. Held' = Held /\ Waiting' = Waiting /\ NextIndex' = NextIndex
      BY <2>2, <2>4, <2>5 DEF Held, Waiting, NextIndex
    <3>3. InSequence'
      BY <2>2, <2>4, <2>5, <3>1, <3>2 DEF InSequence, Frame
    <3>4. buffer[Background] # NONE
      BY <1>a, <3>1, FrameFacts DEF Taken, NONE
    <3>5. pushed' = buffer[Background]
      BY <1>13, <3>4 DEF BlendAndPush
    <3>6. nframes' # 0 /\ nframes' - 1 = nframes
      BY <1>a, <2>2
    <3> QED BY <2>2, <3>1, <3>2, <3>3, <3>5, <3>6 DEF Taken, ToTake, LastPushed, Frame
  <2> QED BY <2>2, <2>3, <2>4, <2>5 DEF IRegular, Turns, InStep
<1>14. CASE Restart
  <2>1. /\ data' = [p \in Pads |-> NoBuffer] /\ buffer' = Nothing /\ end_time' = Nothing
        /\ position' = 0 /\ nframes' = 0 /\ pushed' = NONE
        /\ sent' = [p \in Pads |-> 0] /\ UNCHANGED <<rate, queued>>
        /\ at' = Idle /\ eos' = {} /\ paused' = {}
        /\ regular' => regular /\ queued[Background] = NONE
    BY <1>14 DEF Restart
  <2>2. buffer'[Background] = NONE /\ end_time'[Background] = NONE
        /\ data'[Background] = NoBuffer /\ sent'[Background] = 0
    BY <1>a, <2>1 DEF Nothing
  <2>3. regular' => position' = nframes' * rate'
    BY <1>a, <2>1
  <2>4. ASSUME regular' PROVE InSequence' /\ ToTake'
    <3>1. NextIndex' = 0 /\ Waiting' = 0
      BY <2>1, <2>2, <2>4 DEF NextIndex, Held, Waiting
    <3>2. InSequence'
      BY <2>1, <2>2, <2>4, <3>1 DEF InSequence
    <3>3. nframes' * rate' = 0
      BY <1>a, <2>1
    <3>4. Frame(nframes)' = SegStart
      BY <1>a, <3>3 DEF Frame
    <3>5. LastPushed' = NONE
      BY <2>1 DEF LastPushed
    <3>6. end_time'[Background] <= Frame(nframes)' - SegStart
      BY <1>a, <2>2, <3>4 DEF NONE
    <3>7. NextIndex' = nframes' /\ buffer'[Background] = LastPushed' /\ pushed' = LastPushed'
      BY <2>1, <2>2, <3>1, <3>5
    <3> QED BY <3>2, <3>6, <3>7 DEF ToTake
  <2> QED BY <1>a, <2>1, <2>2, <2>3, <2>4
          DEF Turns, Comes, InStep, Idle, Foreground, Decide, NONE
<1>15. CASE SegmentDone
  <2>1. ~regular' /\ EndStream /\ UNCHANGED <<buffer, regular>>
    BY <1>0, <1>15 DEF SegmentDone, NoFrameRate, ITyped
  <2> QED BY <2>1, EndStreamRegular DEF IRegular, Turns, Comes
<1>16. CASE UNCHANGED vars
  BY <1>16, AloneKeeps DEF vars, IRegular, Turns, BackgroundAlone, Comes
<1> QED BY Steps, <1>1, <1>2, <1>3, <1>4, <1>5, <1>6, <1>7, <1>8, <1>9, <1>10, <1>11,
           <1>12, <1>13, <1>14, <1>15, <1>16

LEMMA InitRegular == Init => IRegular
<1> SUFFICES ASSUME Init PROVE IRegular
  OBVIOUS
<1>1. IOrder
  BY InitOrder
<1>2. /\ Background \in Pads /\ rate \in Nat /\ SegStart \in Nat /\ SegStop \in Nat
      /\ position = 0 /\ nframes = 0 /\ pushed = NONE /\ at = Idle /\ paused = {}
      /\ sent[Background] = 0 /\ data[Background] = NoBuffer
      /\ queued[Background] = NONE /\ buffer[Background] = NONE
      /\ end_time[Background] = NONE
  BY RatesAreNat, BlendQueuesAssumption DEF Init, Nothing, Pads
<1>3. Held = 0 /\ Waiting = 0
  BY <1>2 DEF Held, Waiting
<1>4. NextIndex = 0
  BY <1>2, <1>3 DEF NextIndex
<1>5. InSequence
  BY <1>2, <1>4 DEF InSequence
<1>6. LastPushed = NONE
  BY <1>2 DEF LastPushed
<1>7. Frame(nframes) = SegStart
  BY <1>2, FrameFacts
<1>8. ToTake
  BY <1>2, <1>4, <1>6, <1>7 DEF ToTake, NONE
<1>9. position = nframes * rate /\ buffer[Background] < SegStop
  BY <1>2 DEF NONE
<1> QED BY <1>1, <1>2, <1>5, <1>8, <1>9
        DEF IRegular, Turns, InStep, Idle, Foreground, Decide

(* Frames of a regular background are pushed one after the other: every    *)
(* turn that blends has taken the frame of its number, and pushes it.      *)
THEOREM RegularPushes == Spec => RegularPushedOnce
<1>1. ASSUME IRegular, regular, Blends, Turn
      PROVE  pushed' = IF pushed = NONE THEN SegStart ELSE pushed + rate
  <2>1. BlendAndPush
    <3>1. ASSUME NEW p \in Pads, Visit(p) PROVE at = p
      BY <3>1 DEF Visit, NeedTimestamp, DropPast, Queue, Drop, Take, Keep, Usable, Timed,
         Accepted, Peek, EndOfBackground, EndOfForeground, NoData
    <3>2. at = Decide /\ Decide \notin Pads
      BY <1>1 DEF Blends, Pads, Background, Foreground, Decide
    <3>3. ~NeedMoreData
      BY <1>1 DEF Blends, NeedMoreData
    <3>4. ~SegmentDone
      BY <3>2 DEF SegmentDone, Background, Decide
    <3> QED BY <1>1, <3>1, <3>2, <3>3, <3>4 DEF Turn
  <2>2. Taken
    BY <1>1 DEF IRegular, Turns, Blends
  <2>3. rate \in Nat /\ nframes \in Nat /\ SegStart \in Nat
    BY <1>1, RatesAreNat, BlendQueuesAssumption DEF IRegular, IOrder, ITyped
  <2>4. Frame(nframes) \in Nat /\ buffer[Background] = Frame(nframes)
    BY <2>2, <2>3, FrameFacts DEF Taken
  <2>5. pushed' = Frame(nframes)
    <3>1. buffer[Background] # NONE
      BY <2>4 DEF NONE
    <3> QED BY <2>1, <2>4, <3>1 DEF BlendAndPush
  <2>6. CASE nframes = 0
    BY <2>2, <2>3, <2>5, <2>6, FrameFacts DEF Taken, LastPushed
  <2>7. CASE nframes # 0
    <3>1. nframes - 1 \in Nat /\ (nframes - 1) + 1 = nframes
      BY <2>3, <2>7
    <3>2. Frame(nframes - 1) \in Nat /\ Frame(nframes) = Frame(nframes - 1) + rate
      BY <2>3, <3>1, FrameFacts
    <3>3. pushed = Frame(nframes - 1)
      BY <2>2, <2>7 DEF Taken, LastPushed
    <3> QED BY <2>5, <3>2, <3>3 DEF NONE
  <2> QED BY <2>6, <2>7
<1>2. IRegular => (regular /\ ended = "no" /\ Blends /\ Turn =>
                    pushed' = IF pushed = NONE THEN SegStart ELSE pushed + rate)
  BY <1>1
<1> QED BY <1>2, InitRegular, TurnsStep, PTL DEF Spec, RegularPushedOnce

=============================================================================
