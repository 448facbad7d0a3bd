----------------------------- MODULE SecBufPool -----------------------------
(***************************************************************************)
(* secureappsrc: a pool of SEC_ION_BUF_CAPACITY secure ION buffers shared  *)
(* by appsrc's streaming thread (onNeedData, which claims a buffer, fills  *)
(* it and pushes a description of it) and by the main loop (msg_handler,   *)
(* which frees a buffer when the decoder reports it empty).                *)
(* appsrc, the decoder and the bus are GStreamer's; their actions are the  *)
(* behaviour that secureappsrc.c relies on.  A definition named for a      *)
(* mistake, above the one it distorts, is a seeded fault.                  *)
(* appsrc emits need-data from its one streaming thread, so file_lock is   *)
(* never contended.                                                        *)
(***************************************************************************)
EXTENDS Integers, Sequences, FiniteSets

CONSTANTS
    SEC_ION_BUF_CAPACITY,
    NumFrames,      \* frames in the stream file
    Faults          \* what may go wrong: "alloc", "copy", "pipeline"

ASSUME SecAssumption ==
    /\ SEC_ION_BUF_CAPACITY \in Nat \ {0}
    /\ NumFrames \in Nat
    /\ Faults \subseteq {"alloc", "copy", "pipeline"}

Bufs == 0 .. SEC_ION_BUF_CAPACITY - 1
Frames == 1 .. NumFrames

VARIABLES
    used, buf_idx,    \* of each SecureBitsIonBuf
    secure,           \* the whole frame that lies in its secure memory, 0 for none
    at, buf, frame,   \* onNeedData: where it is, its buffer, the frame it read
    copied,           \* ... and whether crypto_copy succeeded
    filePos,          \* frames read from fp
    queue,            \* appsrc's queue
    eos,              \* gst_app_src_end_of_stream was called
    decoder,          \* what the decoder holds
    bus,              \* messages posted and not handled
    loop              \* main: running, quit, flushing (set_state NULL), done

poolVars == <<used, buf_idx, secure>>
needVars == <<at, buf, frame, copied, filePos>>
pipeVars == <<queue, eos, decoder>>
vars == <<poolVars, needVars, pipeVars, bus, loop>>

(* What is pushed: a copy of the SecureBitsIonBuf.  slot is the buffer its *)
(* data_fd names, idx its buf_idx.                                         *)
Entries == [slot : Bufs, idx : Bufs, frame : Frames, copied : BOOLEAN]

Messages == [type : {"etbd"}, idx : Bufs] \cup [type : {"EOS", "ERROR"}]

(* main() allocates the pool.  buf_idx is set only for a buffer whose      *)
(* allocation succeeds, but one that failed stays in the pool; at least    *)
(* one succeeds, else sec_buf is NULL.                                     *)
Init ==
    /\ used = [b \in Bufs |-> FALSE]
    /\ \E ok \in (SUBSET Bufs) \ {{}} :
          /\ ok = Bufs \/ "alloc" \in Faults
          /\ buf_idx = [b \in Bufs |-> IF b \in ok THEN b ELSE 0]
    /\ secure = [b \in Bufs |-> 0]
    /\ at = "idle" /\ buf = 0 /\ frame = 0 /\ copied = FALSE /\ filePos = 0
    /\ queue = <<>> /\ eos = FALSE /\ decoder = {} /\ bus = <<>>
    /\ loop = "running"

-----------------------------------------------------------------------------
(* onNeedData, one step per critical section of buf_lock.                  *)

(* appsrc finds its queue empty.                                           *)
NeedData ==
    /\ at = "idle" /\ queue = <<>> /\ ~eos /\ loop \in {"running", "quit"}
    /\ at' = "scan"
    /\ UNCHANGED <<poolVars, buf, frame, copied, filePos, pipeVars, bus, loop>>

Free == {b \in Bufs : ~used[b]}

ClaimAny == Bufs
Claimable == Free

Claim ==
    /\ at = "scan" /\ Claimable # {}
    /\ buf' = CHOOSE b \in Claimable : \A c \in Claimable : b <= c
    /\ used' = [used EXCEPT ![buf'] = TRUE]
    /\ at' = "read"
    /\ UNCHANGED <<buf_idx, secure, frame, copied, filePos, pipeVars, bus, loop>>

SpinWhenFull ==
    /\ at = "scan" /\ Claimable = {}
    /\ UNCHANGED vars

NoneFree ==
    /\ at = "scan" /\ Claimable = {}
    /\ at' = "full"
    /\ UNCHANGED <<poolVars, buf, frame, copied, filePos, pipeVars, bus, loop>>

(* g_cond_wait, entered without looking at the pool again.                 *)
Sleep ==
    /\ at = "full"
    /\ at' = "asleep"
    /\ UNCHANGED <<poolVars, buf, frame, copied, filePos, pipeVars, bus, loop>>

ReadPastEnd ==
    /\ at = "read"
    /\ IF filePos <= NumFrames
       THEN frame' = filePos + 1 /\ filePos' = filePos + 1 /\ at' = "copy"
       ELSE frame' = 0 /\ at' = "end" /\ UNCHANGED filePos
    /\ UNCHANGED <<poolVars, buf, copied, pipeVars, bus, loop>>

(* At end of file length and ret are 0, and so is frame.                   *)
ReadFrame ==
    /\ at = "read"
    /\ IF filePos < NumFrames
       THEN frame' = filePos + 1 /\ filePos' = filePos + 1 /\ at' = "copy"
       ELSE frame' = 0 /\ at' = "end" /\ UNCHANGED filePos
    /\ UNCHANGED <<poolVars, buf, copied, pipeVars, bus, loop>>

ReturnOnCopyFailure ==
    /\ at = "copy"
    /\ \/ secure' = [secure EXCEPT ![buf] = frame] /\ copied' = TRUE /\ at' = "push"
       \/ "copy" \in Faults /\ copied' = FALSE /\ at' = "idle" /\ UNCHANGED secure
    /\ UNCHANGED <<used, buf_idx, buf, frame, filePos, pipeVars, bus, loop>>

(* crypto_copy; when it fails, or its library is not loaded, the memory    *)
(* keeps what it held, or a part of the frame, and the buffer is pushed    *)
(* all the same.                                                           *)
CryptoCopy ==
    /\ at = "copy"
    /\ \/ secure' = [secure EXCEPT ![buf] = frame] /\ copied' = TRUE
       \/ /\ "copy" \in Faults /\ copied' = FALSE
          /\ \E left \in {secure[buf], 0} : secure' = [secure EXCEPT ![buf] = left]
    /\ at' = "push"
    /\ UNCHANGED <<used, buf_idx, buf, frame, filePos, pipeVars, bus, loop>>

Push ==
    /\ at = "push"
    /\ queue' = Append(queue, [slot |-> buf, idx |-> buf_idx[buf],
                               frame |-> frame, copied |-> copied])
    /\ at' = "idle"
    /\ UNCHANGED <<poolVars, buf, frame, copied, filePos, eos, decoder, bus, loop>>

(* The buffer claimed for the frame that was not there stays claimed.      *)
EndOfStream ==
    /\ at = "end"
    /\ eos' = TRUE
    /\ at' = "idle"
    /\ UNCHANGED <<poolVars, buf, frame, copied, filePos, queue, decoder, bus, loop>>

-----------------------------------------------------------------------------
(* The rest of the pipeline (external).                                    *)

Playing == loop # "done"

Deliver ==
    /\ Playing /\ at = "idle" /\ queue # <<>>
    /\ decoder' = decoder \cup {Head(queue)}
    /\ queue' = Tail(queue)
    /\ UNCHANGED <<poolVars, needVars, eos, bus, loop>>

(* The decoder has emptied a buffer and posts its buf_idx.                 *)
PostEmptied ==
    /\ Playing
    /\ \E e \in decoder :
          /\ decoder' = decoder \ {e}
          /\ bus' = Append(bus, [type |-> "etbd", idx |-> e.idx])
    /\ UNCHANGED <<poolVars, needVars, queue, eos, loop>>

Posted(type) == \E i \in 1 .. Len(bus) : bus[i].type = type

(* The sink has played everything.                                         *)
PostEOS ==
    /\ loop = "running" /\ eos /\ at = "idle" /\ queue = <<>> /\ decoder = {}
    /\ ~Posted("EOS")
    /\ bus' = Append(bus, [type |-> "EOS"])
    /\ UNCHANGED <<poolVars, needVars, pipeVars, loop>>

PostError ==
    /\ loop = "running" /\ "pipeline" \in Faults /\ ~Posted("ERROR")
    /\ bus' = Append(bus, [type |-> "ERROR"])
    /\ UNCHANGED <<poolVars, needVars, pipeVars, loop>>

-----------------------------------------------------------------------------
(* main().                                                                 *)

(* msg_handler on a release: free the buffer, wake onNeedData.  (An index  *)
(* out of the pool quits the loop; the decoder, which returns the buf-idx  *)
(* it was given, sends none, since every buf_idx in the pool is in Bufs.)  *)
FreeAndBroadcast(i) ==
    /\ used' = [used EXCEPT ![i] = FALSE]
    /\ at' = IF at = "asleep" THEN "scan" ELSE at

Quit == loop' = "quit" /\ UNCHANGED <<used, at>>

EosIgnored(m) == IF m.type = "ERROR" THEN Quit ELSE UNCHANGED <<loop, used, at>>
QuitOn(m) == Quit

MsgHandler ==
    /\ loop = "running" /\ bus # <<>>
    /\ LET m == Head(bus)
       IN  IF m.type = "etbd" THEN FreeAndBroadcast(m.idx) /\ UNCHANGED loop
                              ELSE QuitOn(m)
    /\ bus' = Tail(bus)
    /\ UNCHANGED <<buf_idx, secure, buf, frame, copied, filePos, pipeVars>>

(* gst_element_set_state(pipeline, GST_STATE_NULL) makes appsrc flush ...  *)
SetStateNull ==
    /\ loop = "quit"
    /\ loop' = "flushing"
    /\ UNCHANGED <<poolVars, needVars, pipeVars, bus>>

(* ... and returns when the streaming thread has left; main frees it all.  *)
FreeAll ==
    /\ loop = "flushing" /\ at = "idle"
    /\ loop' = "done"
    /\ queue' = <<>> /\ decoder' = {} /\ bus' = <<>>
    /\ UNCHANGED <<poolVars, needVars, eos>>

Terminated == loop = "done" /\ UNCHANGED vars

-----------------------------------------------------------------------------
Streaming == NeedData \/ Claim \/ NoneFree \/ Sleep \/ ReadFrame \/ CryptoCopy
                \/ Push \/ EndOfStream

Pipeline == Deliver \/ PostEmptied \/ PostEOS

Main == MsgHandler \/ SetStateNull \/ FreeAll

Next == Streaming \/ Pipeline \/ PostError \/ Main \/ Terminated

Spec == Init /\ [][Next]_vars

(* The threads are scheduled and the decoder empties what it is given.     *)
FairSpec == Spec /\ WF_vars(Streaming) /\ WF_vars(Pipeline) /\ WF_vars(Main)

-----------------------------------------------------------------------------
(* Properties.                                                             *)

(* Every variable has its type.                                            *)
TypeOK ==
    /\ used \in [Bufs -> BOOLEAN] /\ buf_idx \in [Bufs -> Bufs]
    /\ secure \in [Bufs -> {0} \cup Frames]
    /\ at \in {"idle", "scan", "full", "asleep", "read", "copy", "push", "end"}
    /\ buf \in Bufs /\ frame \in {0} \cup Frames /\ copied \in BOOLEAN
    /\ filePos \in 0 .. NumFrames
    /\ queue \in Seq(Entries) /\ decoder \subseteq Entries /\ eos \in BOOLEAN
    /\ bus \in Seq(Messages)
    /\ loop \in {"running", "quit", "flushing", "done"}

InHand == IF at \in {"read", "copy", "push", "end"} THEN {buf} ELSE {}
InQueue == {queue[i].slot : i \in 1 .. Len(queue)}
InDecoder == {e.slot : e \in decoder}
Etbds == {i \in 1 .. Len(bus) : bus[i].type = "etbd"}
InBus == {bus[i].idx : i \in Etbds}

(* A buffer that onNeedData, appsrc, the decoder or an unhandled release   *)
(* still refers to is marked used and is in one of these places only: no   *)
(* frame is read into a buffer that the decoder is still reading.          *)
OneHolder ==
    /\ Playing => \A b \in InHand \cup InQueue \cup InDecoder \cup InBus : used[b]
    /\ InHand \cap (InQueue \cup InDecoder \cup InBus) = {}
    /\ InQueue \cap (InDecoder \cup InBus) = {} /\ InDecoder \cap InBus = {}
    /\ \A d, e \in decoder : d.slot = e.slot => d = e
    /\ \A i, j \in Etbds : bus[i].idx = bus[j].idx => i = j

(* The decoder finds in a buffer the frame it was pushed for, unless       *)
(* crypto_copy failed for that frame.                                      *)
DecoderSeesItsFrame == \A e \in decoder : e.copied => secure[e.slot] = e.frame

(* No buffer leaves the pool for good before the end of the stream, when   *)
(* the one claimed in vain does.                                           *)
NoneLeaks ==
    loop = "running" =>
        \A b \in Bufs : used[b] => \/ b \in InHand \cup InQueue \cup InDecoder \cup InBus
                                   \/ eos /\ b = buf

(* "the appsrc queue is empty, need more buffers" (secureappsrc.c:182): a  *)
(* call of onNeedData ends, with a buffer pushed or the end of the stream. *)
NeedDataAnswered == at = "scan" ~> at = "idle"

(* Once the stream has ended, main handles EOS, stops the pipeline and     *)
(* frees the pool.                                                         *)
EosEndsPlayback == eos ~> loop = "done"

(* After the main loop quits, the program ends, unless onNeedData sleeps   *)
(* for a release that nobody will handle any more.                         *)
QuitEndsOrSleeps == loop = "quit" ~> (loop = "done" \/ at = "asleep")

=============================================================================
