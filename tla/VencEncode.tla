----------------------------- MODULE VencEncode -----------------------------
(***************************************************************************)
(* mm-venc-omx-test in file-encode mode.  main() registers buffers with    *)
(* the OMX encoder, feeds it frames read from the input file, and writes   *)
(* what it returns; the component's threads report through EVT_CB, EBD_CB  *)
(* and FBD_CB, which post to main's queue (MsgRing) under m_mutex.         *)
(* The component lives outside the repository: its actions are the OMX IL  *)
(* contract that main relies on.                                           *)
(* A definition named for a mistake, right above the one it distorts, is a *)
(* seeded fault: put in its place, it makes some property fail.            *)
(***************************************************************************)
EXTENDS MsgRing, FiniteSets

CONSTANTS
    FirstIn,      \* m_pInBuffers[0], the only input header main ever feeds
    CbThreads,    \* threads on which the component makes callbacks
    NumFrames,    \* whole frames in the input file
    NFramePlay,   \* m_nFramePlay, option -n; 0 means until end of file
    EncDepth,     \* frames the encoder may hold after returning their input
    FaultyCalls   \* OMX calls that may fail, which CHK answers with exit(0)

Calls == {"UseBuffer", "FillThisBuffer", "EmptyThisBuffer", "FreeBuffer"}

(* main has NUM_IN_BUFFERS = NUM_OUT_BUFFERS = 10 headers and 100 slots.   *)
ASSUME VencAssumption ==
    /\ FirstIn \in InBufs
    /\ InBufs \cap OutBufs = {}
    /\ IsFiniteSet(InBufs) /\ IsFiniteSet(OutBufs) /\ OutBufs # {}
    /\ Cardinality(OutBufs) + 1 <= MAX_MSG
    /\ CbThreads # {} /\ "none" \notin CbThreads /\ "main" \notin CbThreads
    /\ NumFrames \in Nat /\ NFramePlay \in Nat
    /\ EncDepth \in Nat \ {0}
    /\ FaultyCalls \subseteq Calls

VARIABLES
    \* main()
    pc,           \* where main is
    todo,         \* headers the current for loop of main has yet to visit
    waiting,      \* main sleeps in pthread_cond_wait
    msg,          \* the message main is working on
    filePos,      \* frames read from m_nInFd
    outFile,      \* frames written to m_nOutFd; 0 stands for codec config
    m_nFrameIn, m_nFrameOut, bQuit,
    mapped,       \* input buffers whose memory is mapped (PmemMalloc)
    \* shared by main and the callbacks
    mutex,        \* who holds m_mutex
    m_sMsgQ,
    m_eState,
    yuv,          \* the frame that lies in the memory of an input buffer
    bitstream,    \* what lies in the memory of an output buffer
    cb,           \* the callback each component thread is making
    \* the component
    omx           \* its state, target, buffers and frames

mainVars == <<pc, todo, msg, filePos, outFile, m_nFrameIn, m_nFrameOut, bQuit, mapped>>
queueVars == <<mutex, m_sMsgQ, waiting>>
memVars == <<yuv, bitstream>>
vars == <<mainVars, queueVars, m_eState, memVars, cb, omx>>

PCs == {"start", "use_in", "use_out", "wait_idle", "wait_exec", "fill", "first",
        "lock", "etb", "unlock", "pop", "read", "write", "refill", "count",
        "unmap", "stop", "free_in", "free_out", "wait_loaded", "done", "exited"}

States == {"Invalid", "Loaded", "Idle", "Executing"}

Frames == 1 .. NumFrames

Component == [state : States, target : States,
              registered : SUBSET (InBufs \cup OutBufs), in : SUBSET InBufs,
              frames : Seq({0} \cup Frames), out : SUBSET OutBufs, config : BOOLEAN]

IdleCb == [at |-> "idle", msg |-> NoMsg]

Init ==
    /\ pc = "start" /\ todo = {} /\ msg = NoMsg
    /\ filePos = 0 /\ outFile = <<>>
    /\ m_nFrameIn = 0 /\ m_nFrameOut = 0 /\ bQuit = FALSE
    /\ mapped = {}
    /\ mutex = "none" /\ m_sMsgQ = EmptyQ /\ waiting = FALSE
    /\ m_eState = "Invalid"
    /\ yuv = [b \in InBufs |-> 0]
    /\ bitstream = [b \in OutBufs |-> <<>>]
    /\ cb = [t \in CbThreads |-> IdleCb]
    /\ omx = [state |-> "Loaded", target |-> "Loaded", registered |-> {},
              in |-> {}, frames |-> <<>>, out |-> {}, config |-> FALSE]

-----------------------------------------------------------------------------
(* main: from Loaded to Executing.                                         *)

Goto(l) == pc' = l

(* while (m_eState != s) sleep(1) is over.                                 *)
ReachedUnwaited(s) == TRUE
Reached(s) == m_eState = s

(* The end of one turn of a for loop over headers.                         *)
LoopOver(b, next, nextTodo) ==
    IF todo = {b} THEN Goto(next) /\ todo' = nextTodo
                  ELSE UNCHANGED pc /\ todo' = todo \ {b}

SendIdle ==
    /\ pc = "start"
    /\ Goto("use_in") /\ todo' = InBufs
    /\ omx' = [omx EXCEPT !.target = "Idle"]
    /\ UNCHANGED <<msg, filePos, outFile, m_nFrameIn, m_nFrameOut, bQuit, mapped,
                   queueVars, m_eState, memVars, cb>>

RegisterYUVBuffer(b) ==
    /\ pc = "use_in" /\ b \in todo
    /\ mapped' = mapped \cup {b}
    /\ omx' = [omx EXCEPT !.registered = @ \cup {b}]
    /\ LoopOver(b, "use_out", OutBufs)
    /\ UNCHANGED <<msg, filePos, outFile, m_nFrameIn, m_nFrameOut, bQuit,
                   queueVars, m_eState, memVars, cb>>

UseOutputBuffer(b) ==
    /\ pc = "use_out" /\ b \in todo
    /\ omx' = [omx EXCEPT !.registered = @ \cup {b}]
    /\ LoopOver(b, "wait_idle", {})
    /\ UNCHANGED <<msg, filePos, outFile, m_nFrameIn, m_nFrameOut, bQuit, mapped,
                   queueVars, m_eState, memVars, cb>>

(* while (m_eState != OMX_StateIdle) ends; SetState(OMX_StateExecuting).   *)
SetExecuting ==
    /\ pc = "wait_idle" /\ Reached("Idle")
    /\ Goto("wait_exec")
    /\ omx' = [omx EXCEPT !.target = "Executing"]
    /\ UNCHANGED <<todo, msg, filePos, outFile, m_nFrameIn, m_nFrameOut, bQuit, mapped,
                   queueVars, m_eState, memVars, cb>>

NowExecuting ==
    /\ pc = "wait_exec" /\ Reached("Executing")
    /\ Goto("fill") /\ todo' = OutBufs
    /\ UNCHANGED <<msg, filePos, outFile, m_nFrameIn, m_nFrameOut, bQuit, mapped,
                   queueVars, m_eState, memVars, cb, omx>>

FillFirst(b) ==
    /\ pc = "fill" /\ b \in todo
    /\ omx' = [omx EXCEPT !.out = @ \cup {b}]
    /\ LoopOver(b, "first", {})
    /\ msg' = [id |-> "INPUT_FRAME_DONE", buf |-> FirstIn]
    /\ UNCHANGED <<filePos, outFile, m_nFrameIn, m_nFrameOut, bQuit, mapped,
                   queueVars, m_eState, memVars, cb>>

-----------------------------------------------------------------------------
(* main: VencTest_ReadAndEmpty, called once to start and then for every    *)
(* input header the encoder has done with.                                 *)

ReadFrame ==
    /\ pc \in {"first", "read"} /\ filePos < NumFrames
    /\ filePos' = filePos + 1
    /\ yuv' = [yuv EXCEPT ![msg.buf] = filePos + 1]
    /\ Goto("lock")
    /\ UNCHANGED <<todo, msg, outFile, m_nFrameIn, m_nFrameOut, bQuit, mapped,
                   queueVars, m_eState, bitstream, cb, omx>>

(* A short read returns OMX_ErrorUndefined: the caller inside the loop     *)
(* quits, the caller before the loop ignores it.                           *)
ReadFails ==
    /\ pc \in {"first", "read"} /\ filePos = NumFrames
    /\ IF pc = "first" THEN Goto("pop") /\ UNCHANGED <<bQuit, todo>>
                       ELSE Goto("unmap") /\ bQuit' = TRUE /\ todo' = InBufs
    /\ UNCHANGED <<msg, filePos, outFile, m_nFrameIn, m_nFrameOut, mapped,
                   queueVars, m_eState, memVars, cb, omx>>

LockToEncode ==
    /\ pc = "lock" /\ mutex = "none"
    /\ mutex' = "main"
    /\ m_nFrameIn' = m_nFrameIn + 1
    /\ Goto("etb")
    /\ UNCHANGED <<todo, msg, filePos, outFile, m_nFrameOut, bQuit, mapped,
                   m_sMsgQ, waiting, m_eState, memVars, cb, omx>>

EmptyThisBuffer ==
    /\ pc = "etb"
    /\ omx' = [omx EXCEPT !.in = @ \cup {msg.buf}]
    /\ Goto("unlock")
    /\ UNCHANGED <<todo, msg, filePos, outFile, m_nFrameIn, m_nFrameOut, bQuit, mapped,
                   queueVars, m_eState, memVars, cb>>

UnlockAndQuitAtLastFrame ==
    /\ pc = "unlock"
    /\ mutex' = "none"
    /\ IF filePos = NumFrames THEN bQuit' = TRUE /\ Goto("unmap") /\ todo' = InBufs
                              ELSE Goto("pop") /\ UNCHANGED <<bQuit, todo>>
    /\ UNCHANGED <<msg, filePos, outFile, m_nFrameIn, m_nFrameOut, mapped,
                   m_sMsgQ, waiting, m_eState, memVars, cb, omx>>

UnlockAfterEncode ==
    /\ pc = "unlock"
    /\ mutex' = "none"
    /\ Goto("pop")
    /\ UNCHANGED <<todo, msg, filePos, outFile, m_nFrameIn, m_nFrameOut, bQuit, mapped,
                   m_sMsgQ, waiting, m_eState, memVars, cb, omx>>

-----------------------------------------------------------------------------
(* main: the message loop.  PopMessage touches only what m_mutex guards,   *)
(* so its critical section, and that of ++m_nFrameOut, is one step.        *)

PopMessage ==
    /\ pc = "pop" /\ ~waiting /\ mutex = "none" /\ m_sMsgQ.size # 0
    /\ msg' = Front(m_sMsgQ)
    /\ m_sMsgQ' = Pop(m_sMsgQ)
    /\ Goto(IF msg'.id = "INPUT_FRAME_DONE" THEN "read" ELSE "write")
    /\ UNCHANGED <<todo, filePos, outFile, m_nFrameIn, m_nFrameOut, bQuit, mapped,
                   mutex, waiting, m_eState, memVars, cb, omx>>

CondWait ==
    /\ pc = "pop" /\ ~waiting /\ mutex = "none" /\ m_sMsgQ.size = 0
    /\ waiting' = TRUE
    /\ UNCHANGED <<mainVars, mutex, m_sMsgQ, m_eState, memVars, cb, omx>>

SpuriousWakeup ==
    /\ pc = "pop" /\ waiting
    /\ waiting' = FALSE
    /\ UNCHANGED <<mainVars, mutex, m_sMsgQ, m_eState, memVars, cb, omx>>

RefillBeforeWrite ==
    /\ pc = "write"
    /\ outFile' = outFile \o bitstream[msg.buf]
    /\ omx' = [omx EXCEPT !.out = @ \cup {msg.buf}]
    /\ Goto("refill")
    /\ UNCHANGED <<todo, msg, filePos, m_nFrameIn, m_nFrameOut, bQuit, mapped,
                   queueVars, m_eState, memVars, cb>>

WriteOutput ==
    /\ pc = "write"
    /\ outFile' = outFile \o bitstream[msg.buf]
    /\ Goto("refill")
    /\ UNCHANGED <<todo, msg, filePos, m_nFrameIn, m_nFrameOut, bQuit, mapped,
                   queueVars, m_eState, memVars, cb, omx>>

KeepIfEmpty ==
    /\ pc = "refill"
    /\ omx' = IF bitstream[msg.buf] = <<>> THEN omx
              ELSE [omx EXCEPT !.out = @ \cup {msg.buf}]
    /\ Goto("count")
    /\ UNCHANGED <<todo, msg, filePos, outFile, m_nFrameIn, m_nFrameOut, bQuit, mapped,
                   queueVars, m_eState, memVars, cb>>

CountIfFilled ==
    /\ pc = "refill"
    /\ omx' = [omx EXCEPT !.out = @ \cup {msg.buf}]
    /\ Goto(IF bitstream[msg.buf] = <<>> THEN "pop" ELSE "count")
    /\ UNCHANGED <<todo, msg, filePos, outFile, m_nFrameIn, m_nFrameOut, bQuit, mapped,
                   queueVars, m_eState, memVars, cb>>

FillThisBuffer ==
    /\ pc = "refill"
    /\ omx' = [omx EXCEPT !.out = @ \cup {msg.buf}]
    /\ Goto("count")
    /\ UNCHANGED <<todo, msg, filePos, outFile, m_nFrameIn, m_nFrameOut, bQuit, mapped,
                   queueVars, m_eState, memVars, cb>>

IsLast(n) == n = NFramePlay /\ NFramePlay # 0

CountOutput ==
    /\ pc = "count" /\ mutex = "none"
    /\ m_nFrameOut' = m_nFrameOut + 1
    /\ IF IsLast(m_nFrameOut + 1)
       THEN bQuit' = TRUE /\ Goto("unmap") /\ todo' = InBufs
       ELSE Goto("pop") /\ UNCHANGED <<bQuit, todo>>
    /\ UNCHANGED <<msg, filePos, outFile, m_nFrameIn, mapped,
                   queueVars, m_eState, memVars, cb, omx>>

-----------------------------------------------------------------------------
(* main: PmemFree of the input memory, then VencTest_Exit.                 *)

PmemFree(b) ==
    /\ pc = "unmap" /\ b \in todo
    /\ mapped' = mapped \ {b}
    /\ LoopOver(b, "stop", {})
    /\ omx' = IF todo = {b} THEN [omx EXCEPT !.target = "Idle"] ELSE omx
    /\ UNCHANGED <<msg, filePos, outFile, m_nFrameIn, m_nFrameOut, bQuit,
                   queueVars, m_eState, memVars, cb>>

(* SetState(OMX_StateIdle) ends; OMX_SendCommand(OMX_StateLoaded).         *)
SendLoaded ==
    /\ pc = "stop" /\ Reached("Idle")
    /\ Goto("free_in") /\ todo' = InBufs
    /\ omx' = [omx EXCEPT !.target = "Loaded"]
    /\ UNCHANGED <<msg, filePos, outFile, m_nFrameIn, m_nFrameOut, bQuit, mapped,
                   queueVars, m_eState, memVars, cb>>

FreeBuffer(b) ==
    /\ b \in todo
    /\ \/ pc = "free_in" /\ LoopOver(b, "free_out", OutBufs)
       \/ pc = "free_out" /\ LoopOver(b, "wait_loaded", {})
    /\ omx' = [omx EXCEPT !.registered = @ \ {b}]
    /\ UNCHANGED <<msg, filePos, outFile, m_nFrameIn, m_nFrameOut, bQuit, mapped,
                   queueVars, m_eState, memVars, cb>>

FreeHandle ==
    /\ pc = "wait_loaded" /\ Reached("Loaded")
    /\ Goto("done")
    /\ UNCHANGED <<todo, msg, filePos, outFile, m_nFrameIn, m_nFrameOut, bQuit, mapped,
                   queueVars, m_eState, memVars, cb, omx>>

(* CHK(result) on a call that failed: exit(0), callbacks or not.           *)
CallOf == [use_in |-> "UseBuffer", use_out |-> "UseBuffer", fill |-> "FillThisBuffer",
           etb |-> "EmptyThisBuffer", refill |-> "FillThisBuffer",
           free_in |-> "FreeBuffer", free_out |-> "FreeBuffer"]

CallFails ==
    /\ pc \in DOMAIN CallOf /\ CallOf[pc] \in FaultyCalls
    /\ Goto("exited")
    /\ UNCHANGED <<todo, msg, filePos, outFile, m_nFrameIn, m_nFrameOut, bQuit, mapped,
                   queueVars, m_eState, memVars, cb, omx>>

-----------------------------------------------------------------------------
(* The callbacks, on a thread t of the component.  EBD_CB and FBD_CB end   *)
(* in SendMessage, whose early return on a full queue keeps m_mutex.       *)

Running == pc \notin {"done", "exited"}

NoSignal == UNCHANGED waiting
Signal == waiting' = FALSE

SendMessage(t) ==
    /\ Running /\ cb[t].at = "posting" /\ mutex = "none"
    /\ cb' = [cb EXCEPT ![t] = IdleCb]
    /\ IF IsFull(m_sMsgQ)
       THEN mutex' = t /\ UNCHANGED <<m_sMsgQ, waiting>>
       ELSE /\ m_sMsgQ' = Push(m_sMsgQ, cb[t].msg)
            /\ Signal
            /\ UNCHANGED mutex
    /\ UNCHANGED <<mainVars, m_eState, memVars, omx>>

(* The component calls EBD_CB or FBD_CB with m on its thread t.            *)
Callback(t, m) ==
    /\ Running /\ cb[t].at = "idle"
    /\ cb' = [cb EXCEPT ![t] = [at |-> "posting", msg |-> m]]

EBD_CB(t, b) == Callback(t, [id |-> "INPUT_FRAME_DONE", buf |-> b])

FBD_CB(t, b) == Callback(t, [id |-> "OUTPUT_FRAME_DONE", buf |-> b])

-----------------------------------------------------------------------------
(* The component (external).                                               *)

(* It completes a state change and calls EVT_CB, which sets m_eState.  It  *)
(* leaves Executing only when every header is returned and its callbacks   *)
(* are over; it is Idle when all buffers are registered and Loaded again   *)
(* when none is.                                                           *)
MayEnter(s) ==
    CASE s = "Idle" /\ omx.state = "Loaded" -> omx.registered = InBufs \cup OutBufs
      [] s = "Idle" /\ omx.state = "Executing" ->
           omx.in = {} /\ omx.out = {} /\ \A t \in CbThreads : cb[t].at = "idle"
      [] s = "Executing" -> TRUE
      [] s = "Loaded" -> omx.registered = {}
      [] OTHER -> FALSE

EVT_CB ==
    /\ Running /\ omx.target # omx.state /\ MayEnter(omx.target)
    /\ omx' = [omx EXCEPT !.state = omx.target]
    /\ m_eState' = omx.target
    /\ UNCHANGED <<mainVars, queueVars, memVars, cb>>

Encoding == omx.state = "Executing" /\ omx.target = "Executing"

Flushing == omx.state = "Executing" /\ omx.target = "Idle"

(* It takes in a frame and hands the input header back.                    *)
Encode(t, b) ==
    /\ Encoding /\ b \in omx.in /\ Len(omx.frames) < EncDepth
    /\ EBD_CB(t, b)
    /\ omx' = [omx EXCEPT !.in = @ \ {b}, !.frames = Append(@, yuv[b])]
    /\ UNCHANGED <<mainVars, queueVars, m_eState, memVars>>

(* It delivers the oldest frame, or an empty buffer when rate control      *)
(* drops the frame.                                                        *)
Produce(t, b) ==
    /\ Encoding /\ b \in omx.out /\ omx.frames # <<>>
    /\ FBD_CB(t, b)
    /\ \E data \in {<<Head(omx.frames)>>, <<>>} : bitstream' = [bitstream EXCEPT ![b] = data]
    /\ omx' = [omx EXCEPT !.out = @ \ {b}, !.frames = Tail(@)]
    /\ UNCHANGED <<mainVars, queueVars, m_eState, yuv>>

(* It may deliver the codec configuration ahead of the first frame.        *)
ProduceConfig(t, b) ==
    /\ Encoding /\ b \in omx.out /\ omx.frames = <<1>> /\ ~omx.config
    /\ FBD_CB(t, b)
    /\ bitstream' = [bitstream EXCEPT ![b] = <<0>>]
    /\ omx' = [omx EXCEPT !.out = @ \ {b}, !.config = TRUE]
    /\ UNCHANGED <<mainVars, queueVars, m_eState, yuv>>

(* Going to Idle it returns every header, unread or empty.                 *)
FlushInput(t, b) ==
    /\ Flushing /\ b \in omx.in
    /\ EBD_CB(t, b)
    /\ omx' = [omx EXCEPT !.in = @ \ {b}]
    /\ UNCHANGED <<mainVars, queueVars, m_eState, memVars>>

FlushOutput(t, b) ==
    /\ Flushing /\ b \in omx.out
    /\ FBD_CB(t, b)
    /\ bitstream' = [bitstream EXCEPT ![b] = <<>>]
    /\ omx' = [omx EXCEPT !.out = @ \ {b}]
    /\ UNCHANGED <<mainVars, queueVars, m_eState, yuv>>

-----------------------------------------------------------------------------
MainStep ==
    \/ SendIdle \/ SetExecuting \/ NowExecuting
    \/ \E b \in InBufs : RegisterYUVBuffer(b) \/ PmemFree(b)
    \/ \E b \in OutBufs : UseOutputBuffer(b) \/ FillFirst(b)
    \/ ReadFrame \/ ReadFails \/ LockToEncode \/ EmptyThisBuffer \/ UnlockAfterEncode
    \/ PopMessage \/ CondWait
    \/ WriteOutput \/ FillThisBuffer \/ CountOutput
    \/ SendLoaded \/ (\E b \in InBufs \cup OutBufs : FreeBuffer(b)) \/ FreeHandle

ComponentStep(t) ==
    \/ \E b \in InBufs : Encode(t, b) \/ FlushInput(t, b)
    \/ \E b \in OutBufs : Produce(t, b) \/ ProduceConfig(t, b) \/ FlushOutput(t, b)

Terminated == ~Running /\ UNCHANGED vars

Next ==
    \/ MainStep \/ SpuriousWakeup \/ CallFails \/ EVT_CB \/ Terminated
    \/ \E t \in CbThreads : SendMessage(t) \/ ComponentStep(t)

Spec == Init /\ [][Next]_vars

(* The threads are scheduled, the component does its work, and a callback  *)
(* that waits for a free m_mutex gets it; fairness of the mutex between    *)
(* competing callbacks is not needed.                                      *)
FairSpec ==
    /\ Spec
    /\ WF_vars(MainStep) /\ WF_vars(EVT_CB)
    /\ \A t \in CbThreads : WF_vars(SendMessage(t)) /\ WF_vars(ComponentStep(t))

-----------------------------------------------------------------------------
(* Properties.                                                             *)

(* Every variable of main, the callbacks and the component has its type.   *)
TypeOK ==
    /\ pc \in PCs /\ todo \subseteq InBufs \cup OutBufs
    /\ waiting \in BOOLEAN /\ bQuit \in BOOLEAN
    /\ msg \in Msgs \cup {NoMsg}
    /\ filePos \in 0 .. NumFrames
    /\ outFile \in Seq({0} \cup Frames)
    /\ m_nFrameIn \in Nat /\ m_nFrameOut \in Nat
    /\ mapped \subseteq InBufs
    /\ mutex \in {"none", "main"} \cup CbThreads
    /\ m_sMsgQ \in MsgQ
    /\ m_eState \in States
    /\ yuv \in [InBufs -> {0} \cup Frames]
    /\ bitstream \in [OutBufs -> Seq({0} \cup Frames)]
    /\ cb \in [CbThreads -> [at : {"idle", "posting"}, msg : Msgs \cup {NoMsg}]]
    /\ omx \in Component

Posting == {t \in CbThreads : cb[t].at = "posting"}

Queued == {Contents(m_sMsgQ)[i].buf : i \in 1 .. m_sMsgQ.size}

InCallback == {cb[t].msg.buf : t \in Posting}

AtOmx == omx.in \cup omx.out

AtMain == (IF pc \in {"first", "read", "lock", "etb", "write", "refill"} THEN {msg.buf} ELSE {})
            \cup (IF pc = "fill" THEN todo ELSE {})

NoneQueuedTwice ==
    \A i, j \in 1 .. m_sMsgQ.size :
        Contents(m_sMsgQ)[i].buf = Contents(m_sMsgQ)[j].buf => i = j

NoneAnnouncedTwice == \A t, u \in Posting : cb[t].msg.buf = cb[u].msg.buf => t = u

(* A header is in one place only: the queue, a callback, the component or  *)
(* main.  So no header is queued twice, and neither main nor the encoder   *)
(* touches the memory of a buffer the other one is using.                  *)
OneOwner ==
    /\ NoneQueuedTwice
    /\ NoneAnnouncedTwice
    /\ Queued \cap InCallback = {}
    /\ (Queued \cup InCallback) \cap AtOmx = {}
    /\ (Queued \cup InCallback \cup AtOmx) \cap AtMain = {}

InLoop == pc \in {"pop", "read", "lock", "etb", "unlock", "write", "refill", "count"}

(* While main loops, no header leaks: all output headers, and the one      *)
(* input header that is fed, keep going round.                             *)
NothingLost ==
    InLoop => LET circulating == IF filePos > 0 THEN OutBufs \cup {FirstIn} ELSE OutBufs
              IN  circulating \subseteq Queued \cup InCallback \cup AtOmx \cup AtMain

(* SendMessage's early return on a full queue keeps m_mutex for ever; it   *)
(* is never taken, since no header is queued twice and the queue has more  *)
(* slots than there are circulating headers.                               *)
MutexNeverLeaked == mutex \notin CbThreads

(* main never sleeps in PopMessage on a queue that has a message.          *)
NoLostWakeup == waiting => m_sMsgQ.size = 0

CountReached == NFramePlay # 0 /\ m_nFrameOut = NFramePlay

(* Input memory is unmapped before the encoder is stopped.  When the loop  *)
(* ended on a short read that is harmless: the one input header that       *)
(* circulates is main's.                                                   *)
EofUnmapsSafely == CountReached \/ omx.in \subseteq mapped

(* VencTest_Exit frees headers and main destroys m_mutex only when no      *)
(* header is with the encoder and no callback can still post.              *)
TeardownQuiet ==
    pc \in {"free_in", "free_out", "wait_loaded", "done"} =>
        omx.in = {} /\ omx.out = {} /\ Posting = {} /\ mutex = "none"

One(b) == IF b THEN 1 ELSE 0

(* The frames and outputs between the two counters of main.                *)
InFlight ==
    One(pc = "etb") + Cardinality(omx.in) + Len(omx.frames)
        + Cardinality((Queued \cup InCallback) \cap OutBufs)
        + One(pc \in {"write", "refill", "count"})

(* What -n counts: the loop ends on the number of outputs, while "-n"      *)
(* promises a "number of frames to encode" (venc_test.cpp:2010).  The two  *)
(* differ by the codec configuration, which is counted too, and by what is *)
(* in flight, which was fed and is not counted yet; by nothing else, when  *)
(* the encoder answers each frame with one output, empty if it is dropped. *)
CountLagsByInFlight ==
    InLoop => m_nFrameIn + One(omx.config) = m_nFrameOut + InFlight

(* The queue under its mutex is a FIFO channel between threads.            *)
Fifo == INSTANCE FifoChannel WITH chan <- Contents(m_sMsgQ), Message <- Msgs
QueueIsFifo == Fifo!Spec

(* With one callback thread the output file lists, in order and without    *)
(* repetition, frames that were fed.                                       *)
Pipe == INSTANCE EncodePipeline WITH fed <- m_nFrameIn, out <- outFile
WritesInOrder == Pipe!Spec

(* main gets through the file, or to its count, stops and exits.           *)
Terminates == <>~Running

=============================================================================
