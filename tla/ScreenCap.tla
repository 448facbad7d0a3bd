----------------------------- MODULE ScreenCap -----------------------------
(***************************************************************************)
(* qscreencapsrc: a live source that attaches buffers to a Wayland surface *)
(* for the compositor to capture the screen into.  A buffer goes from the  *)
(* pool (buffer_list) to the compositor, comes back with a release event   *)
(* to pending_buffers, is pushed downstream by create(), and re-enters the *)
(* pool when its last reference is dropped (return_buf).                   *)
(* Threads: the streaming thread (create, catch), the display thread       *)
(* (Wayland events), the threads downstream that drop buffers, and the one *)
(* that changes the element's state (start, unlock, stop).  GstBaseSrc,    *)
(* downstream and the compositor are external.  A definition named for a   *)
(* mistake, above the one it distorts, is a seeded fault.                  *)
(***************************************************************************)
EXTENDS Integers, SequencesExt

CONSTANTS
    Bufs,               \* buffers there is graphics memory for
    GSTBUFFERNUMBER,    \* buffers allocated at a time
    Sizes,              \* widths the chosen output may have at a start
    MaxStarts,          \* bound on how often the element is started
    Faults              \* what may fail beside the memory for buffers

ASSUME ScreenCapAssumption ==
    /\ GSTBUFFERNUMBER \in Nat \ {0}
    /\ Sizes \subseteq Nat \ {0} /\ Sizes # {}
    /\ MaxStarts \in Nat
    /\ Faults \subseteq {"wl_buffer", "params", "thread"}
    /\ {"frame", "succeeded", "failed"} \cap Bufs = {}

VARIABLES
    app,              \* the state-change thread
    starts,           \* times started, and the number of the last display
    display,          \* the display that is connected, 0 for none
    thread,           \* qdisplay->thread runs
    width,            \* of the element; -1 after stop
    made,             \* buffers that exist and refer to the element
    lost,             \* memory and buffers that an error return forgot
    info,             \* of a buffer: meta->width and meta->qwlbuf.qdisplay
    pool,             \* buffer_list
    pc, cur, k,       \* create: where it is, its buffer, buffers to allocate
    wl,               \* the wl_buffer that was asked for last
    redraw_pending,
    held, frame,      \* compositor: attached buffers, frame callback asked for
    events,           \* events in the queue of the display
    hand,             \* the one that the display thread has taken out
    pending,          \* pending_buffers
    out,              \* buffers downstream
    pushing,          \* buffers in return_buf past its test of the size
    late              \* stop has ever run while downstream had buffers

dispVars == <<starts, display, thread>>
bufVars == <<made, lost, info>>
poolVars == <<pool, pushing, out>>
createVars == <<pc, cur, k, wl>>
wlVars == <<held, frame, events, hand>>
vars == <<app, dispVars, width, bufVars, poolVars, createVars, redraw_pending,
          wlVars, pending, late>>

NoBuf == "NULL"

Init ==
    /\ app = "stopped" /\ starts = 0 /\ display = 0 /\ thread = FALSE
    /\ width = 0
    /\ made = {} /\ lost = {}
    /\ info = [b \in Bufs |-> [width |-> 0, display |-> 0]]
    /\ pool = <<>> /\ pushing = {} /\ out = {}
    /\ pc = "paused" /\ cur = NoBuf /\ k = 0 /\ wl = "none"
    /\ redraw_pending = FALSE
    /\ held = <<>> /\ frame = FALSE /\ events = <<>> /\ hand = <<>>
    /\ pending = <<>>
    /\ late = FALSE

-----------------------------------------------------------------------------
(* start, unlock and stop.                                                 *)

(* Connect, bind the registry's globals, select the output, have the screen*)
(* created.  If one of these fails the element stays as it was.            *)
create_display == display' = starts + 1 /\ \E w \in Sizes : width' = w

gst_qscreencap_src_open_display ==
    IF display = 0 THEN create_display ELSE UNCHANGED <<display, width>>

(* A caps query before the first start opens the display as well.          *)
GetCaps ==
    /\ app = "stopped" /\ starts = 0 /\ display = 0
    /\ gst_qscreencap_src_open_display
    /\ UNCHANGED <<app, starts, thread, bufVars, poolVars, createVars,
                   redraw_pending, wlVars, pending, late>>

Start ==
    /\ app = "stopped" /\ starts < MaxStarts
    /\ gst_qscreencap_src_open_display
    /\ starts' = starts + 1
    /\ app' = "playing" /\ pc' = "idle"
    /\ UNCHANGED <<thread, bufVars, poolVars, cur, k, wl, redraw_pending,
                   wlVars, pending, late>>

(* gst_qscreencap_src_unlock wakes create() if it waits on the clock.      *)
Unlock ==
    /\ app = "playing"
    /\ app' = "unlocked"
    /\ pc' = IF pc = "waiting" THEN "unscheduled" ELSE pc
    /\ UNCHANGED <<dispVars, width, bufVars, poolVars, cur, k, wl,
                   redraw_pending, wlVars, pending, late>>

DropPool ==
    /\ app = "unlocked" /\ pc \in {"idle", "paused"}
    /\ pool' = <<>>
    /\ app' = "cleared"
    /\ late' = (late \/ out \cup pushing # {})
    /\ UNCHANGED <<dispVars, width, bufVars, pushing, out, createVars,
                   redraw_pending, wlVars, pending>>

(* gst_qscreencap_src_stop, when GstBaseSrc has stopped the streaming      *)
(* thread: first clear_bufpool, which marks each pooled buffer and drops   *)
(* it, so that return_buf destroys it; ...                                 *)
ClearBufpool ==
    /\ app = "unlocked" /\ pc \in {"idle", "paused"}
    /\ made' = made \ ToSet(pool)
    /\ pool' = <<>>
    /\ app' = "cleared"
    /\ late' = (late \/ out \cup pushing # {})
    /\ UNCHANGED <<dispVars, width, lost, info, pushing, out, createVars,
                   redraw_pending, wlVars, pending>>

KeepSize ==
    /\ app = "cleared"
    /\ app' = "unsized"
    /\ UNCHANGED <<dispVars, width, bufVars, poolVars, createVars,
                   redraw_pending, wlVars, pending, late>>

(* ... then the size is forgotten, so that no buffer is pooled again; ...  *)
ForgetSize ==
    /\ app = "cleared"
    /\ app' = "unsized"
    /\ width' = -1
    /\ UNCHANGED <<dispVars, bufVars, poolVars, createVars, redraw_pending,
                   wlVars, pending, late>>

(* return_buf keeps a buffer of the current size and destroys another.     *)
Reusable(b) == info[b].width = width

(* The members of S in s, in their order: the n-th has n - 1 before it.     *)
Positions(s, S) == {i \in DOMAIN s : s[i] \in S}
UpTo(P, i) == {j \in P : j <= i}
Sift(s, S) ==
    LET P == Positions(s, S)
    IN  [n \in 1 .. Cardinality(P) |->
            s[CHOOSE i \in P : Cardinality(UpTo(P, i)) = n]]

ReleasesIn(evs) == Sift(evs, Bufs)

(* Buffers of the display, oldest first: qdisplay->buffers in the order in *)
(* which they were attached.                                               *)
Attached == pending \o ReleasesIn(hand \o events) \o held

LeavePointer == UNCHANGED display
ClearPointer == display' = 0

(* ... then destroy_display joins the display thread, drops every buffer   *)
(* in qdisplay->buffers and disconnects; stop clears the pointer to it.    *)
DestroyDisplay ==
    /\ app = "unsized" /\ hand = <<>>
    /\ app' = "stopped" /\ ClearPointer /\ thread' = FALSE
    /\ pool' = Sift(Attached, {b \in Bufs : Reusable(b)}) \o pool
    /\ made' = {b \in made : b \in ToSet(Attached) => Reusable(b)}
    /\ held' = <<>> /\ frame' = FALSE /\ events' = <<>> /\ pending' = <<>>
    /\ UNCHANGED <<starts, width, lost, info, pushing, out, createVars, hand,
                   redraw_pending, late>>

(* The element is finalized when no buffer refers to it any more.          *)
Finalize ==
    /\ app = "stopped" /\ made = {}
    /\ app' = "finalized" /\ display' = 0
    /\ UNCHANGED <<starts, thread, width, bufVars, poolVars, createVars,
                   redraw_pending, wlVars, pending, late>>

-----------------------------------------------------------------------------
(* gst_qscreencap_src_create and gst_qscreencap_src_qscreencap_catch.      *)

Goto(l) == pc' = l

(* Nothing but create's program counter.                                   *)
Else == UNCHANGED <<app, dispVars, width, bufVars, poolVars, cur, k, wl,
                    redraw_pending, wlVars, pending, late>>

Create == app = "playing" /\ pc = "idle" /\ Goto("retry") /\ Else

(* The frame number of now either equals last_frame_no, and create waits   *)
(* on the clock for the next one, or does not.                             *)
NextFrame == pc = "retry" /\ (Goto("waiting") \/ Goto("redraw")) /\ Else

ClockWaitEnds ==
    /\ \/ pc = "waiting" /\ Goto("redraw")
       \/ pc = "unscheduled" /\ Goto("paused")
    /\ Else

(* 30 polls, 500 us apart, found redraw_pending set.                       *)
StillPending == pc = "redraw" /\ redraw_pending /\ Goto("retry") /\ Else

(* catch takes the first pooled buffer of the right size and destroys the  *)
(* ones before it; finding none, it allocates.                             *)
TakeFromPool ==
    /\ pc = "redraw" /\ ~redraw_pending
    /\ \E n \in 1 .. Len(pool) + 1 :
        /\ \A i \in 1 .. n - 1 : ~Reusable(pool[i])
        /\ made' = made \ {pool[i] : i \in 1 .. n - 1}
        /\ pool' = SubSeq(pool, n + 1, Len(pool))
        /\ \/ n = Len(pool) + 1 /\ Goto("alloc") /\ k' = GSTBUFFERNUMBER /\ UNCHANGED cur
           \/ n <= Len(pool) /\ Reusable(pool[n])
              /\ Goto("attach") /\ cur' = pool[n] /\ UNCHANGED k
    /\ UNCHANGED <<app, dispVars, width, lost, info, pushing, out, wl,
                   redraw_pending, wlVars, pending, late>>

(* catch holds qc_lock while it allocates.                                 *)
QcLocked == pc \in {"alloc", "roundtrip", "wlbuf", "unlink"}

(* Memory is alike: which free piece of it a buffer gets is not left open. *)
Free(b) ==
    b \notin made \cup lost /\ b = CHOOSE f \in Bufs : f \notin made \cup lost

(* gst_qscreencapbuf_new asks the compositor for a wl_buffer.              *)
AskForWlBuffer(b) ==
    /\ pc = "alloc" /\ k > 0 /\ Free(b)
    /\ made' = made \cup {b}
    /\ info' = [info EXCEPT ![b] = [width |-> width, display |-> display]]
    /\ cur' = b /\ wl' = "asked"
    /\ Goto("roundtrip")
    /\ UNCHANGED <<app, dispVars, width, lost, poolVars, k, redraw_pending,
                   wlVars, pending, late>>

(* What the callbacks for a sequence of events do.                         *)

NoRedraw(evs) == redraw_pending
frame_redraw_callback(evs) == redraw_pending /\ "frame" \notin ToSet(evs)

ReleaseAtHead(evs) == Reverse(ReleasesIn(evs)) \o pending
buffer_release(evs) == pending \o ReleasesIn(evs)

create_answered(evs) ==
    IF "succeeded" \in ToSet(evs) THEN "succeeded"
    ELSE IF "failed" \in ToSet(evs) THEN "failed" ELSE wl

Callbacks(evs) ==
    /\ redraw_pending' = frame_redraw_callback(evs)
    /\ pending' = buffer_release(evs)
    /\ wl' = create_answered(evs)

(* It waits for the answer and handles all that has come.                  *)
Roundtrip ==
    /\ pc = "roundtrip" /\ wl # "asked"
    /\ Callbacks(events) /\ events' = <<>>
    /\ Goto("wlbuf")
    /\ UNCHANGED <<app, dispVars, width, bufVars, poolVars, cur, k, held, frame,
                   hand, late>>

(* The new buffer goes to the pool.                                        *)
HaveWlBuffer ==
    /\ pc = "wlbuf" /\ wl = "succeeded"
    /\ pool' = <<cur>> \o pool
    /\ k' = k - 1
    /\ cur' = NoBuf /\ wl' = "none"
    /\ Goto("alloc")
    /\ UNCHANGED <<app, dispVars, width, bufVars, pushing, out, redraw_pending,
                   wlVars, pending, late>>

(* Without a wl_buffer it waits: a second, then in a loop that does not    *)
(* sleep, since the deadline has passed, and destroys params in each turn; *)
(* for ever if the wl_buffer was refused.  (wlbuf_lock is not held, and    *)
(* params is freed more than once: the process may be aborted instead.)    *)
WaitForWlBuffer == pc = "wlbuf" /\ wl # "succeeded" /\ UNCHANGED vars

(* gst_qscreencapbuf_new returns NULL, create GST_FLOW_ERROR.              *)
AllocFails ==
    pc = "alloc" /\ k > 0 /\ made \cup lost = Bufs /\ Goto("paused") /\ Else

(* The same when the memory cannot be mapped or there are no params for a  *)
(* request; then the buffer and its memory are not freed.                  *)
AllocForgets(b) ==
    /\ "params" \in Faults
    /\ pc = "alloc" /\ k > 0 /\ Free(b)
    /\ lost' = lost \cup {b}
    /\ Goto("paused")
    /\ UNCHANGED <<app, dispVars, width, made, info, poolVars, cur, k, wl,
                   redraw_pending, wlVars, pending, late>>

(* The head of the pool is read, then unlinked, without buffer_lock.       *)
ReadHead ==
    /\ pc = "alloc" /\ k = 0
    /\ cur' = Head(pool)
    /\ Goto("unlink")
    /\ UNCHANGED <<app, dispVars, width, bufVars, poolVars, k, wl,
                   redraw_pending, wlVars, pending, late>>

UnlinkHead ==
    /\ pc = "unlink" /\ Head(pool) = cur
    /\ pool' = Tail(pool)
    /\ thread' = TRUE
    /\ Goto("attach")
    /\ UNCHANGED <<app, starts, display, width, bufVars, pushing, out, cur, k,
                   wl, redraw_pending, wlVars, pending, late>>

(* The display thread cannot be started: create() returns GST_FLOW_ERROR,  *)
(* and the buffer that was unlinked is forgotten.                          *)
UnlinkForgets ==
    /\ "thread" \in Faults
    /\ pc = "unlink" /\ Head(pool) = cur /\ ~thread
    /\ pool' = Tail(pool)
    /\ lost' = lost \cup {cur} /\ cur' = NoBuf
    /\ Goto("paused")
    /\ UNCHANGED <<app, dispVars, width, made, info, pushing, out, k, wl,
                   redraw_pending, wlVars, pending, late>>

(* A data race of the unlocked read and write of buffer_list with          *)
(* return_buf: the link deleted is that of a buffer that came in between,  *)
(* or one of the two writes is overwritten.  A buffer may now be pooled and*)
(* in use, or in no list, and freed links be in the list: create() is not  *)
(* followed any further.                                                   *)
UnlinkRaces ==
    /\ pc = "unlink"
    /\ \/ Head(pool) # cur /\ pool' = Tail(pool) /\ UNCHANGED pushing
       \/ \E b \in pushing :
            /\ pushing' = pushing \ {b}
            /\ pool' = Tail(pool) \/ pool' = <<b>> \o pool
    /\ Goto("raced")
    /\ UNCHANGED <<app, dispVars, width, bufVars, out, cur, k, wl,
                   redraw_pending, wlVars, pending, late>>

(* Attach, ask for a frame callback, commit.                               *)
Attach ==
    /\ pc = "attach"
    /\ held' = Append(held, cur) /\ frame' = TRUE
    /\ redraw_pending' = TRUE
    /\ cur' = NoBuf
    /\ Goto("pop")
    /\ UNCHANGED <<app, dispVars, width, bufVars, poolVars, k, wl, events, hand,
                   pending, late>>

NonePending == pc = "pop" /\ pending = <<>> /\ Goto("retry") /\ Else

PeekHead == UNCHANGED pending
PopHead == pending' = Tail(pending)

(* The oldest released buffer is stamped and pushed.                       *)
PopPending ==
    /\ pc = "pop" /\ pending # <<>>
    /\ out' = out \cup {Head(pending)} /\ PopHead
    /\ Goto("idle")
    /\ UNCHANGED <<app, dispVars, width, bufVars, pool, pushing, cur, k, wl,
                   redraw_pending, wlVars, late>>

-----------------------------------------------------------------------------
(* gst_qscreencap_src_return_buf, called when downstream drops the last    *)
(* reference: the size is tested first, the pool locked later.             *)

ReturnBuf(b) ==
    /\ b \in out
    /\ out' = out \ {b}
    /\ IF Reusable(b)
       THEN pushing' = pushing \cup {b} /\ UNCHANGED made
       ELSE ~QcLocked /\ made' = made \ {b} /\ UNCHANGED pushing
    /\ UNCHANGED <<app, dispVars, width, lost, info, pool, createVars,
                   redraw_pending, wlVars, pending, late>>

PushToPool(b) ==
    /\ b \in pushing
    /\ pushing' = pushing \ {b}
    /\ pool' = <<b>> \o pool
    /\ UNCHANGED <<app, dispVars, width, bufVars, out, createVars,
                   redraw_pending, wlVars, pending, late>>

-----------------------------------------------------------------------------
(* The compositor (external), and the display thread.                      *)

AnswerCreate ==
    /\ wl = "asked" /\ wl' = "answered"
    /\ \E e \in {"succeeded"} \cup (IF "wl_buffer" \in Faults THEN {"failed"} ELSE {}) :
        events' = Append(events, e)
    /\ UNCHANGED <<app, dispVars, width, bufVars, poolVars, pc, cur, k,
                   redraw_pending, held, frame, hand, pending, late>>

FrameDone ==
    /\ frame
    /\ frame' = FALSE
    /\ events' = Append(events, "frame")
    /\ UNCHANGED <<app, dispVars, width, bufVars, poolVars, createVars,
                   redraw_pending, held, hand, pending, late>>

(* Buffers are filled and released in the order of their commits.          *)
Release ==
    /\ held # <<>>
    /\ held' = Tail(held)
    /\ events' = Append(events, Head(held))
    /\ UNCHANGED <<app, dispVars, width, bufVars, poolVars, createVars,
                   redraw_pending, frame, hand, pending, late>>

(* The display thread takes an event out of the queue, then handles it.    *)
TakeEvent ==
    /\ thread /\ hand = <<>> /\ events # <<>>
    /\ hand' = <<Head(events)>> /\ events' = Tail(events)
    /\ UNCHANGED <<app, dispVars, width, bufVars, poolVars, createVars,
                   redraw_pending, held, frame, pending, late>>

Dispatch ==
    /\ hand # <<>>
    /\ Callbacks(hand) /\ hand' = <<>>
    /\ UNCHANGED <<app, dispVars, width, bufVars, poolVars, pc, cur, k, held,
                   frame, events, late>>

-----------------------------------------------------------------------------
Streaming ==
    \/ Create \/ NextFrame \/ ClockWaitEnds \/ StillPending \/ TakeFromPool
    \/ (\E b \in Bufs : AskForWlBuffer(b)) \/ Roundtrip \/ HaveWlBuffer
    \/ WaitForWlBuffer \/ AllocFails \/ (\E b \in Bufs : AllocForgets(b))
    \/ ReadHead \/ UnlinkHead \/ UnlinkForgets \/ UnlinkRaces
    \/ Attach \/ NonePending \/ PopPending

StateChange ==
    \/ GetCaps \/ Start \/ Unlock
    \/ ClearBufpool \/ ForgetSize \/ DestroyDisplay \/ Finalize

Downstream == \E b \in Bufs : ReturnBuf(b) \/ PushToPool(b)

Compositor == AnswerCreate \/ FrameDone \/ Release

DisplayThread == TakeEvent \/ Dispatch

Terminated ==
    /\ app = "finalized" \/ (app = "stopped" /\ starts = MaxStarts) \/ pc = "raced"
    /\ UNCHANGED vars

Next ==
    \/ Streaming \/ StateChange \/ Downstream \/ Compositor \/ DisplayThread
    \/ Terminated

Spec == Init /\ [][Next]_vars

(* Threads are scheduled, the clock ticks, and the compositor answers each *)
(* request for a wl_buffer and each frame callback, and releases a buffer  *)
(* at the latest when it is replaced.                                      *)
FairSpec ==
    /\ Spec
    /\ WF_vars(Streaming) /\ WF_vars(DisplayThread)
    /\ WF_vars(AnswerCreate) /\ WF_vars(FrameDone)
    /\ WF_vars(Release /\ Len(held) > 1)

-----------------------------------------------------------------------------
(* Properties.                                                             *)

(* Every variable has its type.                                            *)
TypeOK ==
    /\ app \in {"stopped", "playing", "unlocked", "cleared", "unsized",
                "finalized"}
    /\ starts \in 0 .. MaxStarts /\ display \in {0, starts, starts + 1}
    /\ thread \in BOOLEAN
    /\ width \in Sizes \cup {0, -1}
    /\ made \subseteq Bufs /\ lost \subseteq Bufs
    /\ info \in [Bufs -> [width : Sizes \cup {0}, display : 0 .. MaxStarts]]
    /\ pool \in Seq(Bufs) /\ held \in Seq(Bufs) /\ pending \in Seq(Bufs)
    /\ events \in Seq(Bufs \cup {"frame", "succeeded", "failed"})
    /\ hand \in Seq(Bufs \cup {"frame", "succeeded", "failed"})
    /\ Len(hand) <= 1
    /\ frame \in BOOLEAN /\ redraw_pending \in BOOLEAN
    /\ pc \in {"paused", "idle", "retry", "waiting", "unscheduled", "redraw",
               "alloc", "roundtrip", "wlbuf", "unlink", "raced", "attach",
               "pop"}
    /\ cur \in Bufs \cup {NoBuf} /\ k \in 0 .. GSTBUFFERNUMBER
    /\ wl \in {"none", "asked", "answered", "succeeded", "failed"}
    /\ out \subseteq Bufs /\ pushing \subseteq Bufs /\ late \in BOOLEAN

InHand == IF pc \in {"roundtrip", "wlbuf", "attach"} THEN {cur} ELSE {}

Lists == pool \o Attached

(* A buffer is in one place only: the pool, create's hand, the display,    *)
(* downstream or return_buf.  So the compositor never writes into a buffer *)
(* that downstream reads, and none is pooled twice.  This ends where catch *)
(* and return_buf race for the pool.                                       *)
OnePlace ==
    pc # "raced" =>
        /\ IsInjective(Lists)
        /\ ToSet(Lists) \cap (InHand \cup out \cup pushing) = {}
        /\ InHand \cap (out \cup pushing) = {} /\ out \cap pushing = {}

(* A buffer that exists can be reached, over all stops and restarts, but   *)
(* for one that an error return of create() forgot: one in a start at the  *)
(* most, since create() has ended then.                                    *)
NothingLeaked ==
    pc # "raced" =>
        /\ made \ lost = ToSet(Lists) \cup InHand \cup out \cup pushing
        /\ Cardinality(lost) <= starts

(* A buffer that may be attached next, or is attached, was made for the    *)
(* display that is connected, not for one before a restart, as long as     *)
(* downstream is stopped first and has dropped its buffers by then, as a   *)
(* pipeline does it.                                                       *)
OfThisDisplay ==
    ~late => \A b \in ToSet(Lists) \cup InHand : info[b].display = display

(* A pooled buffer leaves the pool to be used by create, or destroyed:     *)
(* "True will make dispose free the buffer, while false will reuse it"     *)
(* (gstqscreencapsrc.c:105).                                               *)
PooledIsReused ==
    [][\A b \in ToSet(pool) \ ToSet(pool') : b = cur' \/ b \notin made']_vars

(* Buffers leave in the order in which they were attached, so with rising  *)
(* timestamps; but for one that the display thread has in its hand when    *)
(* catch, growing the pool, handles the releases after it itself.          *)
Growing == thread /\ pc = "roundtrip"

Channel == INSTANCE CaptureChannel
    WITH chan <- Attached, crowded <- Growing, Buffer <- Bufs
InCaptureOrder == Channel!Spec

Returned == pc \in {"idle", "paused"}

(* create() ends: with a buffer, with an error, or flushing; so the        *)
(* element captures the display, and stopping it is not held up.           *)
CreateReturns == pc = "retry" ~> Returned

(* It does until the element is started again, also when unlock comes at   *)
(* any point of create() and finds nothing to wake, unless the compositor  *)
(* has refused a wl_buffer or catch has raced with return_buf.             *)
FirstPlayReturns ==
    pc = "retry" /\ starts = 1 ~> Returned \/ wl = "failed" \/ pc = "raced"

=============================================================================
