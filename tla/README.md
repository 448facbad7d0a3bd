# A model of gst-plugins-qti-oss

The repository holds five programs and plugins for Qualcomm media hardware. This directory
models the concurrent cores of four of them in TLA+, checks the models with TLC and proves
their safety properties with TLAPS.

## 1. The system

| part | source | state | operations | hard behaviour |
|---|---|---|---|---|
| **venc test** | `omx-lite-app/mm-venc-omx-test/venc_test.cpp` | message ring `m_sMsgQ`, `m_mutex`, `m_eState`, headers of two ports, frame counters | `main`, `EVT_CB`, `EBD_CB`, `FBD_CB`, `SendMessage`, `PopMessage` | callbacks of the component race with main; full queue; teardown |
| venc dynamic configuration | same file | pending change and its frame number | read and apply a change before a frame | a change skipped or applied late |
| venc configuration, options | same file | profile | `parse_args`, `ConfigureEncoder` | level tables |
| **vdec test** | `omx-lite-app/mm-vdec-omx-test/omx_vdec_test.cpp`, `queue.c` | two queues, semaphores, one event flag, port and seek state | EBD and FBD threads, event handler, reconfiguration, flush | one flag for many events, teardown, errors with a lock held |
| **secureappsrc** | `secureappsrc/secureappsrc.c`, `crypto.c` | pool of secure buffers, file position | `onNeedData`, `msg_handler`, `main` | wait on a full pool, end of stream |
| **qscreencapsrc** | `gst-plugin-qscreencapsrc/screencap/*.c` | pool, buffers at the compositor, `pending_buffers`, `redraw_pending`, display | `create`, `catch`, `return_buf`, `start`, `stop`, `unlock`, Wayland callbacks | four threads, restart |
| **qvblend** | `gst-plugin-qvblend/videoblend/gstvideoblend.cpp`, `c2d/c2d_blend.cpp` | pads and their list, queued and current buffers, output period, conversion buffers, three locks | `collected`, `fill_queues`, `blend_buffers`, set caps, request and release pads, start and stop | lock order, pads and caps changing while collected, memory mapped and unmapped on every path |

The parts are separate programs; they do not call each other. Inside each, the interaction is
by callbacks and queues:

* venc: main gives headers to the OMX component with `OMX_EmptyThisBuffer` and
  `OMX_FillThisBuffer`; the component's threads give them back by `EBD_CB` and `FBD_CB`, which
  post messages that main pops. State changes are asked for by `OMX_SendCommand` and
  reported through `EVT_CB` in `m_eState`, which main polls.
* secureappsrc: appsrc's streaming thread calls `onNeedData`; the decoder posts
  `omx-video-sec-etbd` on the bus, which the main loop passes to `msg_handler`.
* qscreencapsrc: the streaming thread attaches buffers to a Wayland surface; the display
  thread queues released ones; downstream threads return buffers through `dispose`.
* qvblend: upstream threads enter through pads, GstCollectPads calls back with all pads ready.

What makes each part correct is listed as hazards in `PROJECT.json`, at the lines where it
could go wrong, with the property that covers it.

## 2. Plan

Order: the encoder first (it has the richest protocol, and the ring and its mutex are shared by
everything else in it), then the two buffer pools, then the blend element, then the larger and
looser parts.

1. `MsgRing`, `VencEncode`, with `FifoChannel` and `EncodePipeline` as what they promise - done,
   with all invariants, the FIFO refinement and the order of the output proved.
2. `SecBufPool` - done; all its invariants are proved.
3. `ScreenCap`, with `CaptureChannel` - done, with the wl_buffer protocol, the growth of the pool and
   the error returns of `catch`; all safety properties are proved.
4. The blend element, in three modules by what the hazards are about: `BlendPads` (threads, locks,
   caps), `BlendQueues` (time), `BlendBuffers` (memory) - done, with all safety properties proved.
5. `VdecThreads`: the event flag, the EBD and FBD threads with queues and semaphores,
   flush; `VdecPorts`: disabling, freeing and enabling the output port.
   Instances: 2 buffers per port, one reconfiguration, one flush. Abstract specification: an
   event that is awaited is one that happened after it was asked for.
6. `VencDynConfig`: which configuration change meets which frame, against a reference.
7. `FrameClock`: frame numbers and durations of `create`, with the integer divisions;
   `LevelTables`: `ConfigureEncoder`'s level search; against reference definitions.

## 3. Modules

| module | kind | about |
|---|---|---|
| `MsgRing` | functions | `struct MsgQ` as a value: `IsFull`, `Push`, `Front`, `Pop`, and `Contents`, the sequence it stands for |
| `FifoChannel` | abstract | send and receive on an unbounded sequence |
| `EncodePipeline` | abstract | frames are fed in order, and the output grows by fed frames in order |
| `VencEncode` | component | main, callbacks and component in file-encode mode |
| `SecBufPool` | component | the secure buffer pool |
| `CaptureChannel` | abstract | captured buffers come out in order, until a stop |
| `ScreenCap` | component | screen capture over starts and stops |
| `BlendPads` | component | the pads of the blend element, their negotiation, the turns and the three locks |
| `BlendQueues` | component | which buffers a turn takes, keeps and drops, by their times |
| `BlendBuffers` | component | conversion buffers and mappings of a turn, on every error path |
| `MCVencEncode`, `MCSecBufPool`, `MCScreenCap`, `MCBlendPads`, `MCBlendQueues`, `MCBlendBuffers` | instances | model values, small sets and symmetry for TLC |
| `MsgRing_proofs`, `VencEncode_proofs`, `VencOwner_proofs`, `SecBufPool_proofs`, `ScreenCap_proofs`, `BlendPads_proofs`, `BlendQueues_proofs`, `BlendBuffers_proofs` | proofs | see section 6 |

Each component module also holds a few definitions named for a mistake (`PopNoWrap`,
`RefillBeforeWrite`, ...), above the definition they distort. They are not used: put in place
of the right one they make a property fail, which shows that the property can see such a bug.

### VencEncode

`pc` is the program counter of main. Its values follow the program: `use_in` and `use_out` register
headers, `wait_idle` and `wait_exec` poll `m_eState`, `fill` hands out output headers, `first`
is the first read, `pop` waits for a message, `read`/`lock`/`etb`/`unlock` is
`VencTest_ReadAndEmpty`, `write`/`refill`/`count` the output case of the loop, `unmap` frees
the input memory, `stop` to `wait_loaded` is `VencTest_Exit`. `todo` holds the headers a `for`
loop has still to visit (in any order: the order of an array is not used by any property).

Atomicity. Whatever another thread can see is a step of its own: claiming `m_mutex` before
`OMX_EmptyThisBuffer` and releasing it after are separate (`mutex = "main"` blocks callbacks),
and so are writing a buffer, giving it back and counting it. The critical sections of
`PopMessage`, of `SendMessage` and of `++m_nFrameOut` touch only what the mutex guards, so each is one
step. `pthread_cond_wait` is a step that sets `waiting`; the signal clears it, and so may a
spurious wakeup.

The component (`omx`) is external. It is modelled by what main relies on: it becomes Idle
when all buffers are registered, takes input headers in and hands them back, holds at most `EncDepth` frames,
delivers frames in order, may drop a frame (an empty buffer) and may deliver codec configuration first;
on the way back to Idle it returns every header, and it is Loaded again when no
buffer is registered. It calls back from its own threads, one call per thread at a time.

Left out: `MODE_LIVE_ENCODE` (the camera functions are stubs), `MODE_PROFILE`, `MODE_PREVIEW`,
meta-buffer mode (same steps, the frame memory lies elsewhere), the watchdog, dynamic
configuration, `m_bInFrameFree` (written, never read) and statistics. Pause is commented out in the source.
Before `SendIdle` main sets the encoder up without concurrency; that is the initial state.
`CHK` on a failing call is `CallFails`: the process exits, whatever the callbacks do. `OMX_EventError`
is only logged by `EVT_CB` and changes nothing.

### SecBufPool

One step per critical section of `buf_lock`: the scan that claims a buffer, the test that
found none, the wait, the read, the copy, the push. `at` is where `onNeedData` is. What appsrc and the decoder see of
a buffer is an entry with the memory it names (`slot`) and the index it will be released by (`idx`); the two
differ when an allocation failed (fault `"alloc"`). `copied` is the model's record
of whether the copy succeeded. appsrc calls `onNeedData` from one thread
when its queue is empty; the decoder empties buffers in any order, and returns the `buf-idx` it was given, so that the branch of
`msg_handler` for an index out of the pool is not taken.
Frame lengths are abstracted: a frame is read whole, or the file has ended (a header of
length 0 has the effect of the end of the file). The definition `SECURE_PLAYBACK` is taken as set, as in the source.

### ScreenCap

A buffer is in `pool` (`buffer_list`), in create's hand (`cur`), at the display
(`held` by the compositor, a release among `events` or in the `hand` of the display thread, or in
`pending`: together `qdisplay->buffers`), `out` downstream, or `pushing`: inside `return_buf` past
its test of the size.
`app` is the state-change thread; `stop` is three steps (`ClearBufpool`, `ForgetSize`,
`DestroyDisplay`) because threads downstream run `return_buf` between them. A caps query before
the first start opens the display too (`GetCaps`); `finalize` follows when no buffer refers to
the element. `display` numbers connections, so that a buffer made for an earlier one can be told
apart. `GstBaseSrc` calls `create` while playing and calls `stop` when `create` has returned.

Events are handled by two threads. The display thread takes one out of the queue (`TakeEvent`) and
calls its callback later (`Dispatch`), so between the two the streaming thread may overtake it in its
own `Roundtrip`, which handles all that has come. A wl_buffer is asked for, answered by the
compositor, and waited for: `wl` says how far that is. `Faults` names what may fail: when the compositor
refuses (`"wl_buffer"`), the wait lasts for ever (`WaitForWlBuffer`: its deadline is computed
once, so after a second it spins); when memory cannot be mapped or there are no params (`"params"`),
`AllocForgets` leaves the buffer's memory in `lost`; when the display thread cannot be started
(`"thread"`), `UnlinkForgets` leaves the unlinked buffer there. Taking the freshly allocated
buffer is two steps, `ReadHead` and `UnlinkHead`, since the code does it without `buffer_lock`. When
`return_buf` comes between the two, or at the same time as the second, it is a data race on the list:
`UnlinkRaces` has its outcomes for the list, and `pc = "raced"` is where the model stops following
`create`, since freed links may be in the list. The other threads go on. Lists are filtered by `Sift`, which finds the n-th member of a
set in a list by counting positions; a recursive definition would say the same and could not be
proved about. Times are abstracted: `NextFrame` waits on the clock or does
not; 31 polls of `redraw_pending` are one step that gives up.

### The blend element

GstCollectPads keeps one buffer per pad. When each pad has one, or EOS, it calls `collected`
under its stream lock, on the thread upstream of the pad that came last. `collected` is a turn: it
sends caps and segment, chooses buffers (`fill_queues`), blends and pushes (`blend_buffers`). The
three modules look at the same turn from three sides; each leaves out what the other two are about,
so that each stays small enough to be checked with all its interleavings or values:

* `BlendPads` has the threads: one upstream of each sink pad, and the application's, which
  requests and releases pads, moves them and changes the state. `pc[t]` is where a thread is, and
  `lock`, `setcaps_lock` and `stream` are the locks, held by a thread or `Nobody`. A turn is split
  wherever the code takes or gives up a lock or reads a flag without one: `BeginTurn`,
  `UpdateInTurn`, `GbmInTurn`, `PushCaps` and `ClearSendCaps` (a caps event may come between
  the two), `LockToBlend`, `PushSegment`, then `EndStream` (at the end of the background or of the
  segment, or for an error; times are not in this module, so it may come in any turn), `NeedMoreData`
  or `Blend`, and `PushBuffer`. The position of either pad may change at any time (`SetPosition`). Which buffers a turn pops is a choice here (`Pop`); at most `MaxKeeps` turns pass
  without one. The two returns that keep a lock (`update_src_caps` with a background off the origin,
  `init_gbm_buffers` with an unknown format) keep it in the model, for ever.
* `BlendQueues` has time. Turns run under the stream lock, so here they do not interleave with
  arrivals, and `at` walks through `fill_queues` pad by pad; each of its `continue`s and early
  returns is an action (`NeedTimestamp`, `DropPast`, `Queue`, `Drop`, `Take`, `Keep`,
  `EndOfBackground`, `EndOfForeground`). A rate is the duration of a period, and 0 stands for the frame
  rate 0/1, which the caps template accepts: the end of the period saturates (993), and the turn is
  over before it visits a pad (`SegmentDone`, 995-1006). `ended` tells the two ends of the
  stream apart; after either upstream may go on sending. `data` is what the collect pads hold, `queued` a
  buffer without a duration that waits for its successor, `buffer` the one that is
  blended. `position` and `nframes` are the output period. A background may be `regular`: each frame
  begins where the last one ended, as a decoder at a constant rate sends them.
* `BlendBuffers` has memory: `mapped` is the set of live mappings (an address, and whose it is);
  an address that was unmapped may be returned by the next `mmap`. `pc` steps through
  `blend_buffers` in the order of the code, and each mapping, conversion or allocation may fail.
  A failed `mmap` has no address (the code does not test for `MAP_FAILED`; a later `munmap` of
  it has no effect). Frames are in ION or in system memory; `meta` says whether `blend->meta` was ever noted, and it stays
  so over a restart. Pads are requested and released between turns; a released pad leaves its
  conversion buffer mapped, as whose the model then has `"released"`.

## 4. Runs

| run | instance | shows |
|---|---|---|
| `venc_safety` | 2 input, 3 output headers, 4 slots, 2 callback threads, 4 frames, `-n 3`, failing calls | ownership, the ring implements `FifoChannel`, no leak of headers or mutex, no lost wakeup, safe unmapping at end of file, quiet teardown, the count of `-n` |
| `venc_play` | 2 output headers, 1 callback thread, 4 frames, `-n 3`, fair | the output file implements `EncodePipeline`, and the program ends |
| `venc_empty_file` | no whole frame in the file | **violated**: the program hangs |
| `sec_play` | 3 buffers, 4 frames, failing copies, pipeline errors, fair | one holder per buffer, the decoder sees its frame, no leak; end of stream ends the program; after an error it ends, or `onNeedData` sleeps for ever |
| `sec_sleep` | 2 buffers, 4 frames, fair | **violated**: a lost wakeup stops playback |
| `cap_play` | 3 buffers, allocated one at a time, 2 sizes, 2 starts, all `Faults`, fair, downstream drops buffers at any time | one place per buffer and no leak, but for what an error return forgets and up to the race for the list; capture order, but for one overtaken while the pool grows; buffers stay with their display; `create` ends until the restart |
| `cap_restart` | 2 buffers, 2 starts, fair | **violated**: after a restart nothing is captured |
| `cap_grow` | 4 buffers, batch of 2 | **violated**: growing the pool races with a return |
| `blend_pads` | 2 pads, 4 caps (one of another shape, one without a conversion), 2 positions | caps that were announced are those pushed, the background is first, nothing changes while a turn blends, locks are released, one lock cycle only |
| `blend_deadlock` | 2 pads, 1 caps, fair | **violated**: that lock cycle |
| `blend_queues` | 3 background and 2 foreground buffers, times {0, 2, 3}, durations {2} or none, a segment from 1 to 4, rates 0 (none), 1 and 2, 1 restart, fair | order, silence after EOS (both kinds), regular frames once each, a foreground of its time, no livelock |
| `blend_buffers` | 4 addresses, 2 caps | between turns only conversion buffers are mapped, and only those of released pads outlive dispose; conversion buffers of the caps, one stale unmap only |

Bounds. venc: the ring is as small as the assumption allows (one slot per circulating header), so
it wraps several times and is full to its last slot. `m_nFramePlay = 3` of 4 frames lets a run end
at the count or at the end of the file, and with `EncDepth = 2` the encoder may hold frames while
headers wait. Three output headers let one be at main, one queued and one with the component. Two
callback threads compete for the mutex; a third would only repeat the second. Two input headers show
that only the first is ever fed. secureappsrc: with four frames and three secure buffers a buffer is
reused, and the pool is full before. qscreencapsrc: three buffers allow one downstream, one pending
and one attached. A batch of one (`GSTBUFFERNUMBER` is 5 in
the code) lets the pool grow twice, the second and third time beside a running display thread, and a fourth
allocation fails. That is what `InCaptureOrder` and `OnePlace` need: a release in the hand of the display thread is
overtaken by the round trip of a later allocation, and a returned buffer enters the list between
`ReadHead` and `UnlinkHead`. Both happen; the properties say how far the damage goes, and `cap_grow` shows the second one
as a violation of what `return_buf` promises.

qvblend: the element accepts two pads. Of four caps two are alike, so that a change that matters to
nobody can happen, one differs in shape from the others and is refused, and one has no conversion.
`MaxKeeps = 1` lets one turn pass without a buffer popped. The times of
`blend_queues` lie before, in and at the edge of the segment, may repeat, go back or be missing, and
the buffers of the second rate end between periods; with three background buffers one can be queued,
one pending and one blended. In `blend_buffers` four addresses are one for each mapping a turn can have
(two conversion buffers, target and source), so an unmapped address is soon reused, which
the stale unmap needs. Nothing counts turns there: the run covers plays of any length.

Runs with liveness use no symmetry. `QueueIsFifo`, checked with it, is a safety property (its
specification has no fairness).

`CHECK_DEADLOCK FALSE` is used where the program really can stop: secureappsrc asleep
(`sec_sleep`), the blend element when upstream has ended, when a lock was kept or in the lock cycle of
`blend_deadlock`, and after a crash in `blend_buffers`. Elsewhere a finished program
stutters explicitly.

The history variable `late` of `ScreenCap` records that `stop` ran while downstream still had
buffers. A GStreamer bin stops sinks before sources, so then it stays `FALSE`, and
`OfThisDisplay` speaks of that case. When an application keeps a buffer longer it fails: the
buffer's size fits after a restart, `return_buf` pools it, and it is attached to a display that does
not know it. The other properties hold either way.

`EofUnmapsSafely` says what holds when the loop ends at the end of the file. When it ends at
the count of `-n`, input memory may be unmapped while the encoder still holds the header: main
calls `PmemFree` before it stops the encoder. No text promises otherwise, so it is a hazard
and no finding.

`CountLagsByInFlight` says what `-n` counts. The help calls it the "number of frames to encode"
(`venc_test.cpp:2010`), while the loop counts outputs (2644) and feeds a frame whenever a header is
free: with `-n 1` a second frame is encoded, and the codec configuration is counted as one. The
property is exact: frames fed and outputs counted differ by what is in flight and the configuration,
so that at the end at least `n - 1` frames were fed, and at most as many more as encoder and
output headers hold.

`NothingLeaked` counts what error returns forget: one buffer in a start at most, since `create` has ended
then. `NoMappingLeaks` has the mappings of released pads as its exception.

`NoBufferAfterEos` speaks of the time until a restart, and after the EOS for want of a frame rate until
there are caps with one. After such caps buffers are pushed although EOS was sent, which no text of the repository
excludes.

`NoOtherDeadlock` names the one cycle there is (`Deadlocked`) and the two kept locks (`LockKept`) as
exceptions, and says that nothing else blocks: whoever holds a lock that is waited for goes on, at most
after one more holder. `OnlyStaleTargetUnmaps` works the same way for memory: there is one
way to lose a conversion buffer under the element's feet, and no other.

## 5. Fairness

* venc: weak fairness of main, of state changes and of each component thread's work and post. Threads
  are scheduled by the kernel, and the component is assumed to do its work. A spurious wakeup is not
  fair. No fairness between threads that compete for the mutex is needed.
* secureappsrc: weak fairness of the streaming thread, the main loop and the pipeline.
* qscreencapsrc: weak fairness of the streaming thread and the display thread, of the compositor's
  answers and frame callbacks, and of a release once another buffer has been committed. That a buffer
  is released before it is replaced is not assumed. Neither downstream nor the application has to do
  anything.
* qvblend: in `blend_queues` weak fairness of a turn that has begun: it runs on an upstream thread, which is
  scheduled. Upstream may rest. In `blend_deadlock` strong fairness of each thread that is inside the
  element (its locks are fair) and weak fairness of releasing a pad, so that the violation is two threads
  that wait for each other, and not one that loses every race or does not run.

## 6. Proofs

For every value of the constants that meets the assumptions of the modules. About the encoder
these are `RingAssumption` and `VencAssumption` (the two ports have different headers, finitely
many, and the queue has a slot for each output header and one more: 10 + 10 headers and 100 slots in
the code).

* `MsgRing_proofs`: what `Push` and `Pop` do to `Contents`: append at the end, drop the head.
  The arithmetic of `%` is the core: slots at distance less than `MAX_MSG` are different.
* `VencEncode_proofs`: `TypeCorrect`. The inductive invariant is `TypeOK` with facts that make
  it inductive (a message in hand when one is used, messages of live slots are messages). On it rest
  `QueueRefinesFifo` (each step is a send, a receive or a stutter on `Contents`), `WakeupsAreNotLost`
  (main sleeps only on an empty queue, and a post that makes it non-empty wakes it).
* `VencOwner_proofs`: `HeadersHaveOneOwner` and `MutexIsNeverLeaked`. A header moves
  between component, callback, queue and main; each move keeps the places disjoint. Disjointness is
  not inductive alone: one needs that only registered and circulating headers are anywhere and that
  main has one in hand only at certain program counters. The mutex result then counts: the queue
  plus the poster hold different headers out of `OutBufs` and `FirstIn`, so the queue is shorter
  than `MAX_MSG` when one posts, and the early return of `SendMessage` is not taken.
  `NoHeaderIsLost` is the converse of disjointness: from the time main hands out output headers all of them are
  somewhere, and `FirstIn` is once a frame was read (`Circulating`). `TeardownIsQuiet` goes through the states of the component
  (`Life`): Idle again means it has returned every header. `ShortReadUnmapsSafely` follows memory that is
  mapped from registration to the end (`Mapping`).
  Last, `OneThreadWritesInOrder`, the refinement of `EncodePipeline`. Frames are numbered as they are
  read; along encoder, callback, queue and main the numbers descend (`InOrder`), and a frame that is read
  and not yet encoded has the highest (`Numbered`). The theorem assumes one callback thread. With two, one may
  post what it was called with after the other has posted a later frame, and the property is false.

About secureappsrc, under `SecAssumption`:

* `SecBufPool_proofs`: `TypeCorrect`, whatever fails; and when every allocation has succeeded (`"alloc"`
  not among the faults, a hypothesis the other three need: two buffers with one `buf_idx` break them)
  `BuffersHaveOneHolder`, `PoolKeepsItsBuffers` and `DecoderReadsItsFrame`. The inductive
  invariant `IHolder` adds to the places that appsrc's queue has at most one buffer and none during a call
  (`Calls`) and that a buffer is released by its own index (`SameIndex`). A message posted to
  or taken from the bus changes the places by one buffer (`ReleasePosted`, `FirstHandled`).
  `FramesLie` then says the same of frames in the queue as `DecoderSeesItsFrame` of those at the decoder.

About screen capture, under `ScreenCapAssumption` (the names used for events that are no releases are no
buffers):

* `ScreenCap_proofs`. First the lists: `Sift(s, S)` is the only sequence that a rising function
  maps onto the positions of `S` in `s` (`SiftEnumerated`, `SiftUnique`), from which its elements and
  `SiftConcat` follow without induction.
  - `TypeCorrect` needs where `create` may be in each state of the application (`Control`), and that `catch`
    has a buffer, and the pool its share of the batch, where they are used (`Batch`).
  - `StaysOnDisplay`, for any number of buffers: while nothing was returned late, no buffer is left
    when the element is off, the pool is empty from `ClearBufpool` until `DestroyDisplay`, which by then
    knows no size and so keeps no buffer (`OnDisplay`).
  - `BufferInOnePlace` and `NoBufferLeaks` are one fact: pool, display, hand, downstream and
    `return_buf` are a partition of the buffers that exist and were not forgotten (`Partition`, `IPlaces`), until the race
    for the list, after which nothing is claimed (`StaysRaced`). Without the race the head that `UnlinkHead` takes is the
    one `ReadHead` saw, so it moves to create's hand. That a start forgets one buffer at most is a count (`ILost`): where it
    forgets one `create` is over until the next start.
  - `CapturedInOrder` is the refinement of `CaptureChannel`: `AttachedMoves` says what each action does to the order of
    capture. A round trip with a release in the hand of the display thread moves that release behind the others
    (`LineOvertaken`, `Fallen`), which the abstract channel allows while it is `crowded`, that is while `create` grows
    the pool beside a running display thread. No other step changes the order.

About the blend element:

* `BlendPads_proofs`, for any pads, caps and positions (`BlendPadsAssumption`, which says of names only that `App`, `Nobody` and
  `NoPad` are no pads and `NoCaps` no caps). A few lemmas say what an action may do to some of the variables
  (`ActFrame`, `ActInfo`, `ActLocks`, `ActData`, `ActCaps`), so that an invariant is not proved by going through all
  actions again. The inductive invariant has five parts, all needed by the last:
  - types, the order of the list, and where each thread may be (`ITyped`), which gives `TypeCorrect` and
    `BackgroundIsFirst`: a list of at most two pads stays in order when a pad is appended with the type of its
    number, and when any is removed;
  - that a pad that is not in the list is idle and has no caps (`Owned`), and at which program counters a thread has
    which lock (`ILocks`). `ReturnsWithoutLocks` follows, and
    `OnlyTwoStreamsDeadlock`, by following holders: one that waits for `blend->lock` waits for a thread that blends or
    waits for the stream lock, and whoever has that goes on;
  - that a pad with data is parked, and a turn has data or EOS of all pads (`ICollect`);
  - that the caps of the output are those of the background, or the background is about to set
    them or has ended (`InSync`, `Turns`), and that what is to be sent and what was sent agree with them
    (`Announced`). `PushedCapsAreAnnounced` follows, and `NothingChangesWhileBlending`: `update_src_caps` runs without
    `blend->lock`, so that it writes nothing new during a blend is a fact about caps that agree, not about locks. Positions are no part of that theorem: they are written
    without a lock, and a turn may see two of them (871, 876).
* `BlendQueues_proofs`, for all times, durations, rates and segments that do not end before they
  start (`SegStart <= SegStop`, in `BlendQueuesAssumption`: `gst_segment` keeps it). `OrderOfPushes` needs
  that stamps ascend along the way: queued after blended after pushed (`Ascending`). `SilentAfterEos` needs that
  EOS of the background is final, and that without a frame rate no turn gets past its first step. `ForegroundInTime`: a turn that lacks no data has visited the
  foreground, and what was taken or kept there stands in relation to the period.
  `RegularPushes` is the longest: `NextIndex` counts which frame comes next, and in each turn
  frame `nframes` is `Taken`, still `ToTake`, or the segment is over; a turn that blends without lack of data
  has taken it.
* `BlendBuffers_proofs`: `NothingStaysMapped` and `StaleTargetOnly`, from the invariant `IMapped` that a mapping is accounted
  for by the pointer it is kept at, at each step of the turn, or belongs to a released pad (`Accounted`), that no address
  is mapped twice (`MappedOnce`), and that target and source lie apart from the conversion buffers. `BufferOfItsCaps`
  comes from `ITurn`: caps are allocated for before a turn converts.

Only model-checked: liveness (fairness and ENABLED are outside this prover's reach), that is `Terminates`,
`EosEndsPlayback`, `QuitEndsOrSleeps`, `FirstPlayReturns` and `BackgroundGoesOn`; and `CountLagsByInFlight`. Every
other property that a passing run checks is stated by a theorem, under the hypotheses named above.

## 7. Findings

1. venc: a file shorter than one frame hangs the program (`venc_test.cpp:2496`).
2. secureappsrc: wakeup lost between scan and wait (`secureappsrc.c:211`).
3. qscreencapsrc: `redraw_pending` survives a restart (`gstqscreencapsrc.c:200`).
4. qscreencapsrc: `buffer_list` changed without its lock (`gstqscreencapsrc.c:300`).
5. qvblend: `pad_sink_setcaps` takes `blend->lock` and the stream lock in the order opposite to
   `collected` (`gstvideoblend.cpp:259`).

Each is a run that TLC finds violated, with the text of the repository that says otherwise
quoted in `PROJECT.json`.

## 8. Not modelled

* The vdec test and its queue (plan item 5), dynamic configuration, option parsing and level tables of venc
  (items 6 and 7): sequential code or a program of its own, next in the plan.
* venc: live, profile and preview modes and the watchdog (section 3).
* qscreencapsrc: frame numbers and timestamps (item 7); `set_caps` (a new format does not change pooled
  buffers); connections that `create_display` leaks when a step of it fails half way
  (`qscreencaputil.c:495`, 502, 572, 648), `ivi_surface_destroy` of a null surface (709).
* qvblend: what C2D draws and where (geometry is handed to the vendor library), caps queries, source
  events, object properties synchronised to stream time. A `Convert` given a failed mapping is as good or bad as
  any other.
* Wayland protocol tables (generated), memory helpers (wrappers of kernel calls), the camera stub (empty).

Hazards met while modelling that no property is about, beside those in `PROJECT.json`:

* venc: the loop ends at the short read while the encoder still holds the last frames, whose output is thrown
  away (`venc_test.cpp:2619`); `OMX_EmptyThisBuffer` is called with `m_mutex` held, so a component that calls
  back from inside the call would never return (1855).
* qvblend, in `gstvideoblend.cpp`: `numpads` is tested before the lock is taken, so two requests at a time may
  add a third pad (1182; the model has one application thread). When the background is released the
  other pad keeps type 1, and there is no output and no end of stream (681). `update_src_caps`
  walks the list of pads under a lock that request and release do not take (190; the walk is one step of the model).
  The foreground is drawn into an older frame, already downstream, in a turn whose background is not in ION memory (801;
  `meta` in `BlendBuffers` shows it). The copy goes to a null pointer when an allocation failed, and the first
  `Blend` calls through a null engine when `Open` failed (902 and 1433; the model reaches both as `pc = "crashed"`).
  A frame kept over a caps change is copied by the new caps (620). `reset` drops `buffer`
  but not `queued`, so a frame from before a restart is taken after it (487; the model reaches it). A change of
  the rate makes the period jump (993). The last frame of a stream without durations stays queued, and a background
  frame taken in a turn that lacked foreground data is not pushed when the background ends next (554, 681).
