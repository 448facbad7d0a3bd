---------------------------- MODULE BlendQueues ----------------------------
(***************************************************************************)
(* videoblend: how a turn of the blend element chooses by time what it     *)
(* blends (gst_videoblend_fill_queues and the part of collected around     *)
(* it), for the two pads, background and foreground.  Turns run under the  *)
(* stream lock, so buffers arrive between them only (module BlendPads has  *)
(* the locks).  Time is in ticks; GstCollectPads and both neighbours are   *)
(* external.  A definition named for a mistake, above the one it distorts, *)
(* is a seeded fault.                                                      *)
(***************************************************************************)
EXTENDS Integers, FiniteSets

CONSTANTS
    Times, Durations,   \* timestamps and durations upstream may send
    SegStart, SegStop,  \* segment of both pads
    Rates,              \* ticks per frame of the caps upstream may set;
                        \* 0 stands for framerate 0/1
    Frames,             \* buffers an upstream may send, per pad
    MaxRestarts

ASSUME BlendQueuesAssumption ==
    /\ Times \subseteq Nat /\ Durations \subseteq Nat /\ Rates \subseteq Nat
    /\ SegStart \in Nat /\ SegStop \in Nat /\ SegStart <= SegStop
    /\ Frames \in [0 .. 1 -> Nat] /\ MaxRestarts \in Nat

VARIABLES
    data, eos, paused,      \* collect pads: buffer queued, EOS, upstream stopped
    queued, buffer, start_time, end_time,   \* GstVideoBlendCollect
    rate, position, nframes,                \* of blend->info and blend->segment
    at, caller, need_more_data,             \* of a turn
    pushed, ended,          \* downstream: last timestamp, EOS and what for
    regular, sent,          \* is the background; buffers so far, per pad
    restarts

colVars == <<queued, buffer, start_time, end_time>>
clock == <<rate, position, nframes>>
upstream == <<regular, sent, restarts>>
vars == <<data, eos, paused, colVars, clock, at, caller, need_more_data,
          pushed, ended, upstream>>

NONE == -1                  \* GST_CLOCK_TIME_NONE, and no buffer
Background == 0
Foreground == 1
Pads == {Background, Foreground}
Idle == -1                  \* at: no turn, a pad to visit, or
Decide == 2                 \* all visited

NoBuffer == [ts |-> NONE, dur |-> NONE]
Untimed == [ts |-> NONE, dur |-> 1]
Buffers == [ts : Times, dur : Durations \cup {NONE}] \cup {Untimed}

Nothing == [p \in Pads |-> NONE]

Init ==
    /\ data = [p \in Pads |-> NoBuffer] /\ eos = {} /\ paused = {}
    /\ queued = Nothing /\ buffer = Nothing
    /\ start_time = Nothing /\ end_time = Nothing
    /\ rate \in Rates /\ position = 0 /\ nframes = 0
    /\ at = Idle /\ caller = Background /\ need_more_data = FALSE
    /\ pushed = NONE /\ ended = "no"
    /\ regular \in {rate # 0, FALSE} /\ sent = [p \in Pads |-> 0] /\ restarts = 0

-----------------------------------------------------------------------------
(* GstCollectPads and upstream (external).                                 *)

Complete(d, e) == \A p \in Pads : d[p] # NoBuffer \/ p \in e

Arrive(p, d, e) ==
    /\ data' = d /\ eos' = e /\ caller' = p
    /\ at' = IF Complete(d, e) THEN Background ELSE Idle
    /\ need_more_data' = FALSE
    /\ UNCHANGED <<colVars, clock, pushed, ended, regular, restarts>>

(* Frame n of a regular background begins and ends with turn n; its        *)
(* duration may be missing.                                                *)
Regular == [ts : {SegStart + sent[Background] * rate}, dur : {rate, NONE}]
Offers(p) == IF regular /\ p = Background THEN Regular ELSE Buffers

Chain(p) ==
    /\ at = Idle /\ data[p] = NoBuffer /\ p \notin eos \cup paused
    /\ sent[p] < Frames[p]
    /\ \E b \in Offers(p) : Arrive(p, [data EXCEPT ![p] = b], eos)
    /\ sent' = [sent EXCEPT ![p] = @ + 1]
    /\ UNCHANGED paused

Eos(p) ==
    /\ at = Idle /\ data[p] = NoBuffer /\ p \notin eos
    /\ Arrive(p, data, eos \cup {p})
    /\ UNCHANGED <<paused, sent>>

(* A caps event of the background may change the frame rate of the output. *)
SetCaps ==
    /\ at = Idle /\ data[Background] = NoBuffer
    /\ ~regular /\ Background \notin eos \cup paused
    /\ rate' \in Rates \ {rate}
    /\ ended' = IF ended = "segment_done" THEN "no" ELSE ended
    /\ UNCHANGED <<data, eos, paused, colVars, position, nframes, at, caller,
                   need_more_data, pushed, upstream>>

(* Turns follow while every pad has a buffer or EOS, and one has a buffer. *)
(* After an error the caller's buffer is dropped and its upstream stops.   *)
EndTurn(ok, d) ==
    /\ data' = IF ok THEN d ELSE [d EXCEPT ![caller] = NoBuffer]
    /\ paused' = IF ok THEN paused ELSE paused \cup {caller}
    /\ at' = IF ok /\ Complete(d, eos) /\ \E p \in Pads : d[p] # NoBuffer
             THEN Background ELSE Idle
    /\ need_more_data' = FALSE

(* After GST_FLOW_EOS the buffer is dropped too; upstream may go on.       *)
EndStream ==
    /\ data' = [data EXCEPT ![caller] = NoBuffer]
    /\ paused' \in {paused, paused \cup {caller}}
    /\ at' = Idle /\ need_more_data' = FALSE

(* Framerate 0/1 makes the end of the turn the largest time, which is past *)
(* the segment: EOS is pushed, and no pad is visited.                      *)
NoFrameRate == rate = 0

SegmentDone ==
    /\ at = Background /\ NoFrameRate
    /\ ended' = IF ended = "background" THEN ended ELSE "segment_done"
    /\ EndStream
    /\ UNCHANGED <<eos, colVars, clock, caller, pushed, upstream>>

-----------------------------------------------------------------------------
(* gst_videoblend_fill_queues, pad by pad.                                 *)

output_start_time == position
output_end_time == (nframes + 1) * rate

Peek(p) == at = p /\ data[p] # NoBuffer

(* continue: a buffer is missed, and the visit of the pad ends.            *)
MoreData(p) == need_more_data' = TRUE /\ at' = p + 1
Visited(p) == at' = p + 1 /\ UNCHANGED need_more_data
Popped(p) == data' = [data EXCEPT ![p] = NoBuffer]
InTurn == UNCHANGED <<eos, paused, clock, caller, pushed, ended, upstream>>

(* A buffer without a timestamp fails the turn.                            *)
NeedTimestamp(p) ==
    /\ Peek(p) /\ data[p].ts = NONE
    /\ EndTurn(FALSE, data)
    /\ UNCHANGED <<eos, colVars, clock, caller, pushed, ended, upstream>>

PastOfQueued(p) == data[p].ts < queued[p]
Past(p) == data[p].ts < buffer[p] \/ data[p].ts < queued[p]

DropPast(p) ==
    /\ Peek(p) /\ data[p].ts # NONE /\ Past(p)
    /\ Popped(p) /\ MoreData(p)
    /\ UNCHANGED colVars /\ InTurn

Accepted(p) == Peek(p) /\ data[p].ts # NONE /\ ~Past(p)

(* Without a duration a buffer lasts until the next.                       *)
Queue(p) ==
    /\ Accepted(p) /\ queued[p] = NONE /\ data[p].dur = NONE
    /\ queued' = [queued EXCEPT ![p] = data[p].ts]
    /\ Popped(p) /\ MoreData(p)
    /\ UNCHANGED <<buffer, start_time, end_time>> /\ InTurn

Timed(p) == Accepted(p) /\ (queued[p] # NONE \/ data[p].dur # NONE)

(* The buffer to decide on: the queued one, or the one just peeked at.     *)
Stamp(p) == IF queued[p] # NONE THEN queued[p] ELSE data[p].ts
Lasts(p) == IF queued[p] # NONE THEN data[p].ts - queued[p] ELSE data[p].dur
DurationAsEnd(p) == Lasts(p)
EndStamp(p) == Stamp(p) + Lasts(p)

RemoveBoth(p) == queued' = [queued EXCEPT ![p] = NONE] /\ Popped(p)
Remove(p) ==
    IF queued[p] # NONE
    THEN queued' = [queued EXCEPT ![p] = NONE] /\ UNCHANGED data
    ELSE Popped(p) /\ UNCHANGED queued

(* Clipped to the segment and converted to running time.                   *)
InSegment(p) == Stamp(p) < SegStop /\ EndStamp(p) >= SegStart
RunStart(p) == (IF Stamp(p) > SegStart THEN Stamp(p) ELSE SegStart) - SegStart
RunEnd(p) == (IF EndStamp(p) < SegStop THEN EndStamp(p) ELSE SegStop) - SegStart

Later(p) == end_time[p] = NONE \/ end_time[p] <= RunEnd(p)
BeginsBeforeTheEnd(p) == RunStart(p) < output_end_time
NotOver(p) == RunEnd(p) >= output_start_time

Usable(p) == Timed(p) /\ InSegment(p) /\ Later(p)

(* Outside the segment, from the past, or too old.                         *)
Drop(p) ==
    /\ Timed(p)
    /\ ~Usable(p) \/ (BeginsBeforeTheEnd(p) /\ ~NotOver(p))
    /\ Remove(p) /\ MoreData(p)
    /\ UNCHANGED <<buffer, start_time, end_time>> /\ InTurn

Take(p) ==
    /\ Usable(p) /\ BeginsBeforeTheEnd(p) /\ NotOver(p)
    /\ buffer' = [buffer EXCEPT ![p] = Stamp(p)]
    /\ start_time' = [start_time EXCEPT ![p] = RunStart(p)]
    /\ end_time' = [end_time EXCEPT ![p] = RunEnd(p)]
    /\ Remove(p) /\ Visited(p) /\ InTurn

(* It stays with the collect pads until its time comes.                    *)
Keep(p) ==
    /\ Usable(p) /\ ~BeginsBeforeTheEnd(p)
    /\ Visited(p)
    /\ UNCHANGED <<data, colVars>> /\ InTurn

(* A pad that has ended loses its last buffer when that is over ...        *)
OverBefore(p) == end_time[p] # NONE /\ end_time[p] < output_start_time - rate
Over(p) == end_time[p] # NONE /\ end_time[p] <= output_start_time

NoData(p) ==
    /\ at = p /\ data[p] = NoBuffer
    /\ IF Over(p)
       THEN /\ buffer' = [buffer EXCEPT ![p] = NONE]
            /\ start_time' = [start_time EXCEPT ![p] = NONE]
            /\ end_time' = [end_time EXCEPT ![p] = NONE]
       ELSE UNCHANGED <<buffer, start_time, end_time>>

EndsOnce(p) == p = Background /\ ended = "no"
EndsOutput(p) == p = Background

(* ... and if it is the background, the output ends.                       *)
EndOfBackground(p) ==
    /\ NoData(p) /\ EndsOutput(p)
    /\ ended' = "background"
    /\ EndStream
    /\ UNCHANGED <<eos, queued, clock, caller, pushed, upstream>>

EndOfForeground(p) ==
    /\ NoData(p) /\ ~EndsOutput(p)
    /\ Visited(p)
    /\ UNCHANGED <<data, queued>> /\ InTurn

-----------------------------------------------------------------------------
(* The rest of gst_videoblend_collected, and gst_videoblend_blend_buffers  *)
(* as far as it pushes the buffer of the background.                       *)

NeedMoreData ==
    /\ at = Decide /\ need_more_data
    /\ EndTurn(TRUE, data)
    /\ UNCHANGED <<eos, colVars, clock, caller, pushed, ended, upstream>>

CountPushed == IF buffer[Background] = NONE THEN nframes ELSE nframes + 1
NextFrame == nframes + 1

BlendAndPush ==
    /\ at = Decide /\ ~need_more_data
    /\ position' = output_end_time /\ nframes' = NextFrame
    /\ IF buffer[Background] = NONE
       THEN EndTurn(TRUE, data) /\ UNCHANGED pushed
       ELSE /\ pushed' = buffer[Background]
            /\ \E ok \in BOOLEAN : EndTurn(ok, data)
    /\ UNCHANGED <<eos, colVars, rate, caller, ended, upstream>>

(* PAUSED to READY (the collect pads stop, gst_videoblend_reset) and READY *)
(* to PAUSED.  A queued buffer survives; after one of the background       *)
(* nothing is promised of it.                                              *)
Restart ==
    /\ at = Idle /\ restarts < MaxRestarts
    /\ data' = [p \in Pads |-> NoBuffer] /\ eos' = {} /\ paused' = {}
    /\ buffer' = Nothing /\ start_time' = Nothing /\ end_time' = Nothing
    /\ position' = 0 /\ nframes' = 0
    /\ pushed' = NONE /\ ended' = "no"
    /\ regular' = (regular /\ queued[Background] = NONE) /\ sent' = [p \in Pads |-> 0]
    /\ restarts' = restarts + 1
    /\ UNCHANGED <<queued, rate, at, caller, need_more_data>>

-----------------------------------------------------------------------------
Visit(p) ==
    \/ NeedTimestamp(p) \/ DropPast(p) \/ Queue(p)
    \/ Drop(p) \/ Take(p) \/ Keep(p)
    \/ EndOfBackground(p) \/ EndOfForeground(p)

Turn ==
    \/ SegmentDone
    \/ ~NoFrameRate /\ \E p \in Pads : Visit(p)
    \/ NeedMoreData \/ BlendAndPush

Next ==
    \/ \E p \in Pads : Chain(p) \/ Eos(p)
    \/ SetCaps \/ Turn \/ Restart

Spec == Init /\ [][Next]_vars

(* A thread that collects is scheduled; upstream may rest.                 *)
FairSpec == Spec /\ WF_vars(Turn)

-----------------------------------------------------------------------------
(* Properties.                                                             *)

Stamps == {NONE} \cup Times
          \cup {SegStart + n * r : n \in 0 .. Frames[Background], r \in Rates}

(* Every variable has its type; a buffer ends no sooner than it starts.    *)
TypeOK ==
    /\ \A p \in Pads : data[p] = Untimed \/ data[p].ts \in Stamps
    /\ eos \subseteq Pads /\ paused \subseteq Pads
    /\ \A p \in Pads : {queued[p], buffer[p], pushed} \subseteq Stamps
    /\ \A p \in Pads : buffer[p] # NONE <=> 0 <= start_time[p]
    /\ \A p \in Pads : start_time[p] <= end_time[p]
    /\ rate \in Rates /\ position \in Nat /\ nframes \in Nat
    /\ at \in {Idle, Background, Foreground, Decide} /\ caller \in Pads
    /\ ended \in {"no", "segment_done", "background"}
    /\ {need_more_data, regular} \subseteq BOOLEAN
    /\ \A p \in Pads : sent[p] \in 0 .. Frames[p]
    /\ restarts \in 0 .. MaxRestarts

Blends == at = Decide /\ ~need_more_data

(* Whatever upstream sends, after drops, repeats and changes of the rate,  *)
(* downstream gets buffers of the background in the order of their         *)
(* timestamps, until the element is restarted ...                          *)
PushedInOrder ==
    [][restarts' = restarts => pushed' >= pushed]_vars

(* ... and none after EOS: the end of the background is final, and the EOS *)
(* of a background without frame rate ("Segment done") is until it has     *)
(* caps with one.  (What upstream sends after such caps is pushed.)        *)
NoBufferAfterEos ==
    [][ended # "no" /\ ended' # "no" => pushed' = pushed]_vars

(* Frames of a regular background are pushed one after the other, with     *)
(* none repeated or left out in between, however the foreground comes and  *)
(* however often a turn needs more data.                                   *)
RegularPushedOnce ==
    [][regular /\ ended = "no" /\ Blends /\ Turn =>
        pushed' = IF pushed = NONE THEN SegStart ELSE pushed + rate]_vars

(* The foreground that is blended has begun, and is not over while the     *)
(* next could have been taken.  (A change of the rate moves the end of a   *)
(* turn after a buffer was taken for it.)                                  *)
ForegroundOfThisTime ==
    regular /\ Blends /\ buffer[Foreground] # NONE =>
        /\ start_time[Foreground] < output_end_time
        /\ \/ end_time[Foreground] >= output_start_time
           \/ data[Foreground].ts - SegStart >= output_end_time

(* When the foreground has ended, a buffer of the background that lies     *)
(* ahead is still taken: turns without new data bring its time nearer,     *)
(* unless it has no frame rate (which ends the stream) or a turn failed.   *)
BackgroundGoesOn ==
    (eos = {Foreground} /\ data[Background] # NoBuffer)
        ~> (data[Background] = NoBuffer \/ paused # {} \/ ended # "no")

=============================================================================
