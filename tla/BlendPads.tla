----------------------------- MODULE BlendPads -----------------------------
(***************************************************************************)
(* videoblend: the pads of the blend element, their negotiation and the    *)
(* turns in which it collects from them, with the locks around both.       *)
(* Threads: one upstream of each sink pad (caps, buffers and EOS arrive on *)
(* it, and GstCollectPads calls collected on one of them) and the thread   *)
(* of the application (pads, positions, state changes).                    *)
(* Locks: blend->lock, blend->setcaps_lock, the stream lock of the collect *)
(* pads.  GstCollectPads, upstream and downstream are external.  What a    *)
(* turn does with the buffers is in BlendQueues and BlendBuffers.  A       *)
(* definition named for a mistake, above the one it distorts, is a seeded  *)
(* fault.                                                                  *)
(***************************************************************************)
EXTENDS Integers, SequencesExt

CONSTANTS
    Pads,               \* identities of sink pads
    Caps,               \* caps an upstream may set
    Supported,          \* those whose format init_gbm_buffers knows
    Shape,              \* pixel aspect ratio and interlace mode of caps
    Positions,          \* values of xpos and ypos together; 0 is the origin
    MaxKeeps            \* frames a buffer may lie ahead of the output

VARIABLES
    lock, setcaps_lock, stream,     \* the thread that has it, or Nobody
    sinkpads, numpads, type, pos,   \* pads: their list, count, properties
    info,                           \* pad->info
    blend_info, current_caps, send_caps, newseg_pending, c2d_loaded,
    pc, caps,                       \* per thread; caps of the event it handles
    data, eos,                      \* collect pads: buffer queued, EOS seen
    keeps,                          \* turns since a buffer was popped
    sent,                           \* caps downstream was sent
    playing, removed                \* state of the element; pad in release_pad

locks == <<lock, setcaps_lock, stream>>
padVars == <<sinkpads, numpads, type, pos>>
capsVars == <<blend_info, current_caps, send_caps>>
collectVars == <<data, eos, keeps>>
appVars == <<playing, removed>>
vars == <<locks, padVars, info, capsVars, newseg_pending, c2d_loaded,
          pc, caps, collectVars, sent, appVars>>

App == "app"
Nobody == "nobody"
NoCaps == "unknown"
NoPad == "no pad"

ASSUME BlendPadsAssumption ==
    /\ {App, Nobody, NoPad} \cap Pads = {}
    /\ Supported \subseteq Caps /\ NoCaps \notin Caps
    /\ DOMAIN Shape = Caps
    /\ 0 \in Positions
    /\ MaxKeeps \in Nat

Threads == Pads \cup {App}

Init ==
    /\ lock = Nobody /\ setcaps_lock = Nobody /\ stream = Nobody
    /\ sinkpads = <<>> /\ numpads = 0
    /\ type = [p \in Pads |-> 0] /\ pos = [p \in Pads |-> 0]
    /\ info = [p \in Pads |-> NoCaps]
    /\ blend_info = NoCaps /\ current_caps = NoCaps /\ send_caps = FALSE
    /\ newseg_pending = TRUE /\ c2d_loaded \in BOOLEAN
    /\ pc = [t \in Threads |-> "idle"] /\ caps = [p \in Pads |-> NoCaps]
    /\ data = {} /\ eos = {} /\ keeps = 0
    /\ sent = NoCaps
    /\ playing = FALSE /\ removed = NoPad

Goto(t, l) == pc' = [pc EXCEPT ![t] = l]
Listed == ToSet(sinkpads)
Leaving == pc[App] \in {"uncollect", "uncollect and update"}
Background == {p \in Listed : type[p] = 0}
Known(p) == info[p] # NoCaps

-----------------------------------------------------------------------------
(* Source caps and conversion buffers.                                     *)

StoreOnly(c) == current_caps' = c /\ UNCHANGED send_caps

(* gst_videoblend_src_setcaps: caps that differ are sent in the next turn. *)
SrcSetcaps(c) ==
    IF c # current_caps THEN current_caps' = c /\ send_caps' = TRUE
                        ELSE UNCHANGED <<current_caps, send_caps>>

(* gst_videoblend_update_src_caps, under setcaps_lock: the caps of the     *)
(* background become those of the output.  A background off the origin is  *)
(* an element error, and the return keeps the lock.                        *)
Misplaced == \E p \in Background : Known(p) /\ pos[p] # 0

UpdateSrcCaps(t, done, failed) ==
    /\ setcaps_lock = Nobody
    /\ IF Misplaced
       THEN setcaps_lock' = t /\ Goto(t, failed) /\ UNCHANGED capsVars
       ELSE /\ Goto(t, done)
            /\ \/ \E p \in Background :
                    Known(p) /\ blend_info' = info[p] /\ SrcSetcaps(info[p])
               \/ /\ \A p \in Background : ~Known(p)
                  /\ UNCHANGED blend_info
                  /\ IF blend_info # NoCaps THEN SrcSetcaps(blend_info)
                     ELSE UNCHANGED <<current_caps, send_caps>>
            /\ UNCHANGED setcaps_lock
    /\ UNCHANGED <<lock, padVars, info, newseg_pending, c2d_loaded,
                   caps, collectVars, sent, appVars>>

(* gst_videoblend_init_gbm_buffers, under blend->lock (its buffers are in  *)
(* BlendBuffers): a format without a conversion ends it, the lock kept.    *)
Convertible == \A p \in Listed : Known(p) => info[p] \in Supported

InitGbmBuffers(t, done, failed) ==
    /\ lock = Nobody
    /\ IF Convertible THEN Goto(t, done) /\ UNCHANGED lock
                      ELSE lock' = t /\ Goto(t, failed)
    /\ UNCHANGED <<setcaps_lock, padVars, info, capsVars, newseg_pending,
                   c2d_loaded, caps, collectVars, sent, appVars>>

-----------------------------------------------------------------------------
(* gst_videoblend_pad_sink_setcaps, on the thread upstream of the pad.     *)

(* The chain function of a buffer that was popped or flushed returns when  *)
(* it has the stream lock.                                                 *)
Ready(p) == pc[p] = "idle" \/ (pc[p] = "queued" /\ p \notin data /\ stream = Nobody)

SetCaps(p) ==
    /\ playing /\ p \in Listed /\ p \notin eos /\ Ready(p)
    /\ \E c \in Caps : caps' = [caps EXCEPT ![p] = c]
    /\ Goto(p, "setcaps")
    /\ UNCHANGED <<locks, padVars, info, capsVars, newseg_pending,
                   c2d_loaded, collectVars, sent, appVars>>

RefusedCaps(c) == blend_info # NoCaps /\ Shape[c] # Shape[blend_info]

RefuseLocked(p) == Goto(p, "paused") /\ lock' = p /\ UNCHANGED info
Refuse(p) == Goto(p, "paused") /\ UNCHANGED <<info, lock>>

(* Caps of another aspect ratio or interlacing are refused, others stored. *)
StoreInfo(p) ==
    /\ pc[p] = "setcaps" /\ lock = Nobody
    /\ IF RefusedCaps(caps[p])
       THEN Refuse(p)
       ELSE /\ info' = [info EXCEPT ![p] = caps[p]]
            /\ lock' = p /\ Goto(p, "stream")
    /\ caps' = [caps EXCEPT ![p] = NoCaps]
    /\ UNCHANGED <<setcaps_lock, stream, padVars, capsVars,
                   newseg_pending, c2d_loaded, collectVars, sent,
                   appVars>>

(* The stream lock is taken before blend->lock is released.                *)
TakeStream(p) ==
    /\ pc[p] = "stream" /\ stream = Nobody
    /\ stream' = p /\ lock' = Nobody
    /\ Goto(p, "update")
    /\ UNCHANGED <<setcaps_lock, padVars, info, capsVars,
                   newseg_pending, c2d_loaded, caps, collectVars, sent,
                   appVars>>

(* It is released with the call; upstream of caps that failed stops.       *)
UpdateInSetCaps(p) ==
    /\ pc[p] = "update"
    /\ UpdateSrcCaps(p, IF c2d_loaded THEN "gbm" ELSE "paused", "paused")
    /\ stream' = IF pc'[p] = "gbm" THEN p ELSE Nobody

GbmInSetCaps(p) ==
    /\ pc[p] = "gbm"
    /\ InitGbmBuffers(p, "idle", "paused")
    /\ stream' = Nobody

-----------------------------------------------------------------------------
(* GstCollectPads (external): a buffer or EOS is noted under the stream    *)
(* lock; the thread that completes the set calls collected.                *)

Collecting == Listed \cup (IF Leaving THEN {removed} ELSE {})
Complete(d, e) == Collecting # {} /\ Collecting \subseteq d \cup e

Arrive(p, d, e) ==
    /\ stream = Nobody
    /\ data' = d /\ eos' = e
    /\ IF Complete(d, e)
       THEN stream' = p /\ Goto(p, "collected")
       ELSE Goto(p, IF p \in d THEN "queued" ELSE "paused") /\ UNCHANGED stream
    /\ UNCHANGED <<lock, setcaps_lock, padVars, info, capsVars,
                   newseg_pending, c2d_loaded, caps, keeps, sent, appVars>>

Chain(p) ==
    /\ playing /\ p \in Listed /\ p \notin eos /\ Ready(p) /\ Known(p)
    /\ Arrive(p, data \cup {p}, eos)

Eos(p) ==
    /\ playing /\ p \in Listed /\ p \notin eos
    /\ Ready(p) \/ pc[p] = "paused"
    /\ Arrive(p, data, eos \cup {p})

(* With d left after a turn, GstCollectPads calls collected again while    *)
(* every pad still has a buffer, or releases the stream lock.  After an    *)
(* error the caller's buffer is dropped and its upstream stops.            *)
EndTurn(t, ok, d) ==
    /\ data' = IF ok THEN d ELSE d \ {t}
    /\ IF ok /\ d # {} /\ Complete(d, eos)
       THEN Goto(t, "collected") /\ UNCHANGED stream
       ELSE /\ stream' = Nobody
            /\ Goto(t, IF ok /\ t \notin eos THEN "queued" ELSE "paused")

-----------------------------------------------------------------------------
(* gst_videoblend_collected.                                               *)

(* Without caps there is nothing to do; a RECONFIGURE event of downstream  *)
(* since the last turn updates them.                                       *)
BeginTurn(t) ==
    /\ pc[t] = "collected"
    /\ \/ blend_info = NoCaps /\ EndTurn(t, FALSE, data)
       \/ /\ blend_info # NoCaps
          /\ Goto(t, "sendcaps") \/ Goto(t, "reupdate")
          /\ UNCHANGED <<stream, data>>
    /\ UNCHANGED <<lock, setcaps_lock, padVars, info, capsVars,
                   newseg_pending, c2d_loaded, caps, eos, keeps, sent, appVars>>

UpdateInTurn(t) ==
    /\ pc[t] = "reupdate"
    /\ UpdateSrcCaps(t, IF c2d_loaded THEN "regbm" ELSE "sendcaps", "sendcaps")
    /\ UNCHANGED stream

GbmInTurn(t) == pc[t] = "regbm" /\ InitGbmBuffers(t, "sendcaps", "sendcaps") /\ UNCHANGED stream

PushCaps(t) ==
    /\ pc[t] = "sendcaps"
    /\ sent' = IF send_caps THEN current_caps ELSE sent
    /\ Goto(t, IF send_caps THEN "capssent" ELSE "lock")
    /\ UNCHANGED <<locks, padVars, info, capsVars, newseg_pending,
                   c2d_loaded, caps, collectVars, appVars>>

ClearSendCaps(t) ==
    /\ pc[t] = "capssent"
    /\ send_caps' = FALSE
    /\ Goto(t, "lock")
    /\ UNCHANGED <<locks, padVars, info, blend_info, current_caps,
                   newseg_pending, c2d_loaded, caps, collectVars, sent,
                   appVars>>

SegmentLocked(t) == Goto(t, "segment") /\ lock' = t

(* A pending segment is pushed without blend->lock.                        *)
SegmentFirst(t) == Goto(t, "segment") /\ UNCHANGED lock

LockToBlend(t) ==
    /\ pc[t] = "lock" /\ lock = Nobody
    /\ IF newseg_pending THEN SegmentFirst(t)
                         ELSE Goto(t, "blend") /\ lock' = t
    /\ UNCHANGED <<setcaps_lock, stream, padVars, info, capsVars,
                   newseg_pending, c2d_loaded, caps, collectVars, sent,
                   appVars>>

PushSegment(t) ==
    /\ pc[t] = "segment"
    /\ \/ /\ lock = Nobody /\ lock' = t
          /\ newseg_pending' = FALSE
          /\ Goto(t, "blend") /\ UNCHANGED <<stream, data>>
       \/ /\ EndTurn(t, FALSE, data)
          /\ UNCHANGED <<lock, newseg_pending>>
    /\ UNCHANGED <<setcaps_lock, padVars, info, capsVars, c2d_loaded,
                   caps, eos, keeps, sent, appVars>>

(* Under blend->lock a turn ends the stream when its output period lies    *)
(* past the segment ("Segment done") or when fill_queues finds the         *)
(* background at its end or a buffer without a timestamp.  Periods and     *)
(* timestamps are not in this module, so that any turn may end so, ...     *)
EndStream(t) ==
    /\ pc[t] = "blend"
    /\ lock' = Nobody
    /\ EndTurn(t, FALSE, data)
    /\ UNCHANGED <<setcaps_lock, padVars, info, capsVars,
                   newseg_pending, c2d_loaded, caps, eos, keeps, sent,
                   appVars>>

Pop(d) ==
    /\ d \subseteq data \cap Listed
    /\ d = {} /\ data \cap Listed # {} => keeps < MaxKeeps
    /\ keeps' = IF d = {} /\ data \cap Listed # {} THEN keeps + 1 ELSE 0

(* ... buffers that are dropped or queued are replaced first, ...          *)
NeedMoreData(t) ==
    /\ pc[t] = "blend"
    /\ \A p \in Background : p \notin eos \ data
    /\ \E d \in SUBSET data \ {{}} : Pop(d) /\ EndTurn(t, TRUE, data \ d)
    /\ lock' = Nobody
    /\ UNCHANGED <<setcaps_lock, padVars, info, capsVars,
                   newseg_pending, c2d_loaded, caps, eos, sent, appVars>>

(* ... or the buffers are blended.  The caps of a background with ION      *)
(* memory become the caps of the output.                                   *)
Blend(t) ==
    /\ pc[t] = "blend"
    /\ \A p \in Background : p \notin eos \ data
    /\ \E d \in SUBSET data : Pop(d) /\ data' = data \ d
    /\ blend_info' \in {blend_info} \cup {info[p] : p \in {q \in Background : Known(q)}}
    /\ lock' = Nobody
    /\ Goto(t, "push")
    /\ UNCHANGED <<setcaps_lock, stream, padVars, info, current_caps,
                   send_caps, newseg_pending, c2d_loaded, caps, eos, sent,
                   appVars>>

(* Downstream takes the buffer, or ends the stream.                        *)
PushBuffer(t) ==
    /\ pc[t] = "push"
    /\ \E ok \in BOOLEAN : EndTurn(t, ok, data)
    /\ UNCHANGED <<lock, setcaps_lock, padVars, info, capsVars,
                   newseg_pending, c2d_loaded, caps, eos, keeps, sent,
                   appVars>>

Collected(t) ==
    \/ BeginTurn(t) \/ UpdateInTurn(t) \/ GbmInTurn(t)
    \/ PushCaps(t) \/ ClearSendCaps(t) \/ LockToBlend(t) \/ PushSegment(t)
    \/ EndStream(t) \/ NeedMoreData(t) \/ Blend(t) \/ PushBuffer(t)

-----------------------------------------------------------------------------
(* The application's thread.                                               *)

ListAtHead(p) == <<p>> \o sinkpads
NumberedFromOne == numpads + 1

(* gst_videoblend_request_new_pad: at most two, listed by type.            *)
NewType == numpads
ListByType(p) == InsertAt(sinkpads, numpads + 1, p)

RequestNewPad(p) ==
    /\ pc[App] = "idle"
    /\ p \notin Listed /\ pc[p] = "idle"
    /\ numpads < 2 /\ lock = Nobody
    /\ type' = [type EXCEPT ![p] = NewType]
    /\ sinkpads' = ListByType(p)
    /\ numpads' = numpads + 1
    /\ UNCHANGED <<locks, pos, info, capsVars, newseg_pending, c2d_loaded,
                   pc, caps, collectVars, sent, playing, removed>>

WithoutLock == TRUE
WithLock == lock = Nobody

(* gst_videoblend_release_pad: the pad leaves the list under blend->lock,  *)
(* then the collect pads; the source caps are updated without it; and the  *)
(* pad is deactivated, and its object freed, once its thread has left.      *)
ReleasePad(p) ==
    /\ pc[App] = "idle" /\ WithLock
    /\ \E i \in DOMAIN sinkpads :
        sinkpads[i] = p /\ sinkpads' = RemoveAt(sinkpads, i)
    /\ numpads' = numpads - 1
    /\ removed' = p
    /\ Goto(App, IF blend_info # NoCaps THEN "uncollect and update" ELSE "uncollect")
    /\ UNCHANGED <<locks, type, pos, info, capsVars, newseg_pending,
                   c2d_loaded, caps, collectVars, sent, playing>>

CollectPadsRemovePad ==
    /\ Leaving
    /\ data' = data \ {removed} /\ eos' = eos \ {removed}
    /\ Goto(App, IF pc[App] = "uncollect" THEN "deactivate" ELSE "reupdate")
    /\ UNCHANGED <<locks, padVars, info, capsVars, newseg_pending,
                   c2d_loaded, caps, keeps, sent, appVars>>

UpdateInRelease ==
    /\ pc[App] = "reupdate"
    /\ UpdateSrcCaps(App, "deactivate", "deactivate")
    /\ UNCHANGED stream

DeactivatePad ==
    /\ pc[App] = "deactivate"
    /\ Ready(removed) \/ pc[removed] = "paused"
    /\ pc' = [pc EXCEPT ![App] = "idle", ![removed] = "idle"]
    /\ removed' = NoPad
    /\ type' = [type EXCEPT ![removed] = 0]
    /\ pos' = [pos EXCEPT ![removed] = 0]
    /\ info' = [info EXCEPT ![removed] = NoCaps]
    /\ UNCHANGED <<locks, sinkpads, numpads, capsVars, newseg_pending,
                   c2d_loaded, caps, collectVars, sent, playing>>

(* gst_videoblend_pad_set_property: the position of either pad is written  *)
(* without a lock, while a turn may be reading it.                         *)
SetPosition(p) ==
    /\ pc[App] = "idle" /\ p \in Listed
    /\ \E x \in Positions : pos' = [pos EXCEPT ![p] = x]
    /\ UNCHANGED <<locks, sinkpads, numpads, type, info, capsVars,
                   newseg_pending, c2d_loaded, pc, caps, collectVars, sent,
                   appVars>>

(* gst_videoblend_change_state, READY to PAUSED ...                        *)
Start ==
    /\ pc[App] = "idle" /\ ~playing
    /\ playing' = TRUE
    /\ send_caps' = TRUE /\ current_caps' = NoCaps
    /\ UNCHANGED <<locks, padVars, info, blend_info, newseg_pending,
                   c2d_loaded, pc, caps, collectVars, sent, removed>>

(* ... and PAUSED to READY: the collect pads drop what is queued, and once *)
(* the streaming threads have left, ...                                    *)
Stop ==
    /\ pc[App] = "idle" /\ playing
    /\ playing' = FALSE /\ data' = {}
    /\ Goto(App, "stopping")
    /\ UNCHANGED <<locks, padVars, info, capsVars, newseg_pending,
                   c2d_loaded, caps, eos, keeps, sent, removed>>

(* ... gst_videoblend_reset forgets the caps, and asks for a new segment.  *)
Reset ==
    /\ pc[App] = "stopping"
    /\ \A p \in Listed : Ready(p) \/ pc[p] = "paused"
    /\ blend_info' = NoCaps
    /\ info' = [p \in Pads |-> IF p \in Listed THEN NoCaps ELSE info[p]]
    /\ newseg_pending' = TRUE
    /\ sent' = NoCaps /\ eos' = {} /\ keeps' = 0
    /\ pc' = [t \in Threads |-> "idle"]
    /\ UNCHANGED <<locks, padVars, current_caps, send_caps, c2d_loaded,
                   caps, data, appVars>>

-----------------------------------------------------------------------------
Negotiate(p) ==
    StoreInfo(p) \/ TakeStream(p) \/ UpdateInSetCaps(p) \/ GbmInSetCaps(p)

Upstream(p) == SetCaps(p) \/ Chain(p) \/ Eos(p)

Streaming(p) == Negotiate(p) \/ Collected(p)

Releasing == CollectPadsRemovePad \/ UpdateInRelease \/ DeactivatePad

Application ==
    \/ \E p \in Pads : RequestNewPad(p) \/ ReleasePad(p) \/ SetPosition(p)
    \/ Start \/ Stop

Next ==
    \/ \E p \in Pads : Upstream(p) \/ Streaming(p)
    \/ Application \/ Releasing \/ Reset

Spec == Init /\ [][Next]_vars

(* Threads that are in the element are scheduled, and its locks are fair.  *)
FairSpec ==
    /\ Spec
    /\ \A p \in Pads : SF_vars(Streaming(p))
    /\ WF_vars(Releasing)

-----------------------------------------------------------------------------
(* Properties.                                                             *)

SetCapsPCs == {"setcaps", "stream", "update", "gbm"}
TurnPCs == {"collected", "reupdate", "regbm", "sendcaps", "capssent", "lock",
            "segment", "blend", "push"}

(* Every variable has its type.                                            *)
TypeOK ==
    /\ {lock, setcaps_lock, stream} \subseteq Threads \cup {Nobody}
    /\ sinkpads \in Seq(Pads) /\ numpads \in 0 .. 2
    /\ type \in [Pads -> 0 .. 1] /\ pos \in [Pads -> Positions]
    /\ info \in [Pads -> Caps \cup {NoCaps}]
    /\ {blend_info, current_caps, sent} \subseteq Caps \cup {NoCaps}
    /\ {send_caps, newseg_pending, c2d_loaded, playing} \subseteq BOOLEAN
    /\ pc \in [Threads -> {"idle", "queued", "paused", "stopping", "uncollect",
                           "uncollect and update", "deactivate"}
                          \cup SetCapsPCs \cup TurnPCs]
    /\ caps \in [Pads -> Caps \cup {NoCaps}]
    /\ data \subseteq Pads /\ eos \subseteq Pads /\ keeps \in 0 .. MaxKeeps
    /\ removed \in Pads \cup {NoPad}

Outside(t) == pc[t] \in {"idle", "paused", "queued"}

(* A lock was kept by a call that has returned.                            *)
LockKept ==
    \/ lock # Nobody /\ pc[lock] \notin {"stream", "blend", "segment"}
    \/ setcaps_lock # Nobody

(* A thread that leaves the element releases its locks: the stream lock    *)
(* always, the others but for one error each: a background off the origin  *)
(* (update_src_caps returns with setcaps_lock) and a format without a      *)
(* conversion (init_gbm_buffers returns with blend->lock).                 *)
LocksReleased ==
    [][\A t \in Pads : ~LockKept /\ ~Outside(t) /\ Outside(t)' =>
        /\ stream' # t
        /\ setcaps_lock' = t => Misplaced
        /\ lock' = t => \E p \in Pads : info[p] \in Caps \ Supported]_vars

(* "Lock to prevent the state to change while blending"                    *)
(* (gstvideoblend.h:72): between taking blend->lock for a turn and         *)
(* releasing it, the list of pads, their caps and the output caps stay,    *)
(* although update_src_caps writes the output caps without that lock.      *)
(* Positions do not: SetPosition may move a pad the turn is blending.      *)
StateStaysWhileBlending ==
    [][\A t \in Pads : pc[t] = "blend" /\ pc'[t] = "blend" =>
        /\ UNCHANGED <<sinkpads, blend_info>>
        /\ \A p \in Listed : info'[p] = info[p]]_vars

(* A buffer is pushed when downstream was sent the caps of the output as   *)
(* they are: no change of caps, restart or reconfiguration slips in        *)
(* between.                                                                *)
AnnouncedIsCurrent == \A t \in Pads : pc[t] = "push" => sent = blend_info

(* "Keep an internal list of blendpads for type" (gstvideoblend.cpp:1225): *)
(* a turn visits the background before the foreground, and there is at     *)
(* most one, whatever was released and requested.                          *)
BackgroundFirst ==
    /\ numpads = Len(sinkpads) /\ IsInjective(sinkpads)
    /\ \A i, j \in 1 .. Len(sinkpads) :
        type[sinkpads[j]] = 0 => i >= j

(* One thread holds blend->lock and waits for the stream lock, another the *)
(* stream lock and waits for blend->lock.                                  *)
Deadlocked ==
    \E p, q \in Pads : /\ pc[p] = "stream" /\ stream = q
                       /\ pc[q] \in {"gbm", "regbm", "lock", "segment"}

(* The lock a thread needs next, and who has it.                           *)
Holder(t) ==
    IF pc[t] \in {"setcaps", "gbm", "regbm", "lock", "segment"} THEN lock
    ELSE IF pc[t] = "stream" THEN stream
    ELSE IF pc[t] \in {"update", "reupdate"} THEN setcaps_lock
    ELSE Nobody

(* That is the only circle: otherwise the holder of a lock that another    *)
(* thread waits for goes on, or an error has kept the lock.                *)
NoOtherDeadlock ==
    \/ Deadlocked \/ LockKept
    \/ \A t \in Threads : Holder(t) # Nobody =>
          LET h == Holder(t) IN Holder(h) = Nobody \/ (h # t /\ Holder(Holder(h)) = Nobody)

(* Handling a caps event ends: two streams can be set up together.         *)
SetCapsReturns ==
    \A p \in Pads : pc[p] \in SetCapsPCs ~> pc[p] \notin SetCapsPCs

=============================================================================
