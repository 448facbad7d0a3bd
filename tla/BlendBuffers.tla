--------------------------- MODULE BlendBuffers ----------------------------
(***************************************************************************)
(* videoblend: the memory behind a turn of the blend element: the          *)
(* conversion buffer of each pad (C2D), the frames that                    *)
(* gst_videoblend_blend_buffers maps and unmaps, and the frame the C2D     *)
(* engine converts into.  A mapping is the address mmap returned; an       *)
(* address that was unmapped may be returned again; NULL is no address,    *)
(* MAP_FAILED included.  A pad is requested and released between turns     *)
(* (how that interleaves with one is BlendPads's).  What C2D draws,        *)
(* formats without a conversion (BlendPads), and two foregrounds (after a  *)
(* lone release of the background) are left out.  A definition named for a *)
(* mistake, above the one it distorts, is a seeded fault.                  *)
(***************************************************************************)
EXTENDS FiniteSets

CONSTANTS
    Caps,               \* caps an upstream may set
    Addresses,          \* that mmap may return
    NULL

ASSUME BlendBuffersAssumption == NULL \notin Addresses \cup Caps

VARIABLES
    c2d,                \* the engine: "absent", "closed" or "open"
    sinkpads,           \* pads requested and not released
    info, blend_info,   \* caps of the pads and of the output
    setcaps_kept,       \* setcaps_lock was not released
    buffer,             \* blendcol->buffer: its memory and caps
    c2d_buffer,         \* pad->c2d_buffer: its address, and caps it is for
    mapped,             \* what is mapped: <<address, whose>>
    meta,               \* blend->meta was noted, in this turn or an older
    meta_ptr, ion_ptr,  \* addresses of the two frames
    pc

capsVars == <<c2d, info, blend_info, setcaps_kept>>
frames == <<meta, meta_ptr, ion_ptr>>
vars == <<sinkpads, capsVars, buffer, c2d_buffer, mapped, frames, pc>>

Pads == {"background", "foreground"}
NoBuffer == [memory |-> "none", caps |-> NULL]
NoC2DBuffer == [ptr |-> NULL, caps |-> NULL]

Init ==
    /\ c2d \in {"absent", "closed", "open"}
    /\ sinkpads = {}
    /\ info = [p \in Pads |-> NULL] /\ blend_info = NULL
    /\ setcaps_kept = FALSE
    /\ buffer = [p \in Pads |-> NoBuffer]
    /\ c2d_buffer = [p \in Pads |-> NoC2DBuffer]
    /\ mapped = {}
    /\ meta = FALSE /\ meta_ptr = NULL /\ ion_ptr = NULL
    /\ pc = "idle"

-----------------------------------------------------------------------------
(* c2d_blend: one buffer is freed, one allocated (or not) for caps c.      *)

(* munmap removes what is there now.                                       *)
Without(as) == {m \in mapped : m[1] \notin as}
Unused(ms) == Addresses \ {m[1] : m \in ms}
Mapping(a, whose) == ({a} \ {NULL}) \X {whose}

Freed(p) == Without({c2d_buffer[p].ptr})

FreeBufferKeepsPtr(p) == mapped' = Freed(p) /\ UNCHANGED c2d_buffer

FreeBuffer(p) ==
    /\ mapped' = Freed(p)
    /\ c2d_buffer' = [c2d_buffer EXCEPT ![p].ptr = NULL]

AllocateBuffer(p, c) ==
    \E a \in Unused(Freed(p)) \cup {NULL} :
        /\ mapped' = Freed(p) \cup Mapping(a, p)
        /\ c2d_buffer' = [c2d_buffer EXCEPT ![p] = [ptr |-> a, caps |-> c]]

-----------------------------------------------------------------------------
(* update_src_caps makes the caps of the background the output's, or fails *)
(* on a misplaced background and keeps its lock.  If it succeeds,          *)
(* init_gbm_buffers runs in a caps event and in a turn.                    *)
UpdateSrcCaps(i) ==
    \/ /\ i["background"] # NULL
       /\ setcaps_kept' = TRUE /\ UNCHANGED blend_info
    \/ /\ blend_info' = IF i["background"] # NULL THEN i["background"] ELSE blend_info
       /\ UNCHANGED setcaps_kept

ThenGbm ==
    pc' = IF setcaps_kept' \/ c2d = "absent" THEN "idle" ELSE "gbm background"

(* A caps event (pad_sink_setcaps), or downstream asks for a new           *)
(* configuration before a turn.                                            *)
SetCaps(p) ==
    /\ pc = "idle" /\ ~setcaps_kept /\ p \in sinkpads
    /\ \E c \in Caps : info' = [info EXCEPT ![p] = c]
    /\ UpdateSrcCaps(info') /\ ThenGbm
    /\ UNCHANGED <<c2d, sinkpads, buffer, c2d_buffer, mapped, frames>>

Reconfigure ==
    /\ pc = "idle" /\ ~setcaps_kept /\ blend_info # NULL
    /\ UpdateSrcCaps(info) /\ ThenGbm
    /\ UNCHANGED <<c2d, sinkpads, info, buffer, c2d_buffer, mapped, frames>>

OfOneSize(p) == info[p] # NULL /\ c2d_buffer[p].ptr = NULL
Sized(p) == info[p] # NULL

InitGbmBuffer(p, here, next) ==
    /\ pc = here /\ pc' = next
    /\ IF Sized(p) THEN AllocateBuffer(p, info[p])
                   ELSE UNCHANGED <<mapped, c2d_buffer>>
    /\ UNCHANGED <<sinkpads, capsVars, buffer, frames>>

InitGbmBuffers ==
    \/ InitGbmBuffer("background", "gbm background", "gbm foreground")
    \/ InitGbmBuffer("foreground", "gbm foreground", "idle")

-----------------------------------------------------------------------------
(* A turn.  fill_queues leaves a pad its buffer, takes the next, in memory *)
(* of ION or not, or (BlendQueues) ends the foreground's.                  *)

CapsOrNot(p) == {info[p]}
KnownCaps(p) == {info[p]} \ {NULL}

Choices(p) ==
    {buffer[p]} \cup [memory : {"ion", "plain"}, caps : KnownCaps(p)]
                \cup (IF p = "foreground" THEN {NoBuffer} ELSE {})

BeginTurn ==
    /\ pc = "idle" /\ blend_info # NULL /\ sinkpads # {}
    /\ \E b \in Choices("background"), f \in Choices("foreground") :
        buffer' = [background |-> b, foreground |-> f]
    /\ pc' = "background"
    /\ UNCHANGED <<sinkpads, capsVars, c2d_buffer, mapped, frames>>

(* gst_videoblend_blend_buffers: the background is what is pushed; its ION *)
(* memory is noted, and its pad's conversion buffer freed.  Plain memory   *)
(* is an element error, and the turn goes on.                              *)
BlendBackground ==
    /\ pc = "background"
    /\ IF buffer["background"] = NoBuffer
       THEN /\ pc' = "foreground"
            /\ UNCHANGED <<blend_info, meta, mapped, c2d_buffer>>
       ELSE /\ IF buffer["background"].memory = "ion"
               THEN meta' = TRUE /\ blend_info' = info["background"]
               ELSE UNCHANGED <<meta, blend_info>>
            /\ IF c2d = "absent"
               THEN pc' = "push" /\ UNCHANGED <<mapped, c2d_buffer>>
               ELSE pc' = "foreground" /\ FreeBuffer("background")
    /\ UNCHANGED <<c2d, sinkpads, info, setcaps_kept, buffer, meta_ptr, ion_ptr>>

(* Without a foreground only the unmapping is left.                        *)
NoForeground ==
    /\ pc = "foreground" /\ buffer["foreground"] = NoBuffer
    /\ pc' = "unmap"
    /\ UNCHANGED <<sinkpads, capsVars, buffer, c2d_buffer, mapped, frames>>

(* Without a frame to blend into, this turn's or one noted before, or      *)
(* outside of it, there is nothing left.                                   *)
ForegroundUnseen ==
    /\ pc = "foreground" /\ buffer["foreground"] # NoBuffer
    /\ pc' = "push"
    /\ UNCHANGED <<sinkpads, capsVars, buffer, c2d_buffer, mapped, frames>>

(* The noted frame is mapped, or not, which is not tested.  (The first     *)
(* time the geometry is set, which needs an engine that opened: its        *)
(* absence is not noticed.)                                                *)
MapTarget ==
    /\ pc = "foreground" /\ buffer["foreground"] # NoBuffer
    /\ meta
    /\ IF c2d # "open"
       THEN pc' = "crashed" /\ UNCHANGED <<meta_ptr, mapped>>
       ELSE \E a \in Unused(mapped) \cup {NULL} :
                /\ meta_ptr' = a /\ mapped' = mapped \cup Mapping(a, "target")
                /\ pc' = "source"
    /\ UNCHANGED <<sinkpads, capsVars, buffer, c2d_buffer, meta, ion_ptr>>

(* A foreground in ION memory is mapped (or not) and converted from there, *)
(* whether Convert succeeds or not ...                                     *)
ConvertIon ==
    /\ pc = "source" /\ buffer["foreground"].memory = "ion"
    /\ c2d_buffer' = [c2d_buffer EXCEPT !["foreground"].ptr = NULL]
    /\ \E a \in Unused(Freed("foreground")) \cup {NULL} :
        ion_ptr' = a /\ mapped' = Freed("foreground") \cup Mapping(a, "source")
    /\ pc' = "unmap"
    /\ UNCHANGED <<sinkpads, capsVars, buffer, meta, meta_ptr>>

(* ... any other is copied into the pad's conversion buffer, mapped or not.*)
ConvertCopy ==
    /\ pc = "source" /\ buffer["foreground"].memory = "plain"
    /\ pc' = IF c2d_buffer["foreground"].ptr \in Unused(mapped) \cup {NULL}
             THEN "crashed" ELSE "unmap"
    /\ UNCHANGED <<sinkpads, capsVars, buffer, c2d_buffer, mapped, frames>>

UnmapTarget == {meta_ptr}
UnmapBoth == {meta_ptr, ion_ptr}

(* exit1 and exit2: the pointer to the target keeps its value.             *)
Unmap ==
    /\ pc = "unmap" /\ pc' = "push"
    /\ mapped' = Without(UnmapBoth)
    /\ ion_ptr' = NULL
    /\ UNCHANGED <<sinkpads, capsVars, buffer, c2d_buffer, meta, meta_ptr>>

(* The background goes downstream.                                         *)
Push ==
    /\ pc = "push" /\ pc' = "idle"
    /\ UNCHANGED <<sinkpads, capsVars, buffer, c2d_buffer, mapped, frames>>

(* gst_videoblend_reset: caps and buffers go, what C2D needs stays.        *)
Reset ==
    /\ pc = "idle"
    /\ info' = [p \in Pads |-> NULL] /\ blend_info' = NULL
    /\ buffer' = [p \in Pads |-> NoBuffer]
    /\ UNCHANGED <<c2d, sinkpads, setcaps_kept, c2d_buffer, mapped, frames, pc>>

(* The first pad is the background, the second the foreground.             *)
RequestNewPad(p) ==
    /\ pc = "idle" /\ sinkpads = (IF p = "background" THEN {} ELSE {"background"})
    /\ sinkpads' = sinkpads \cup {p}
    /\ UNCHANGED <<capsVars, buffer, c2d_buffer, mapped, frames, pc>>

(* The pad goes with the record of its conversion buffer, which stays      *)
(* mapped; then update_src_caps runs, or waits for ever for the kept lock. *)
Abandoned(p) == {IF m[2] = p THEN <<m[1], "released">> ELSE m : m \in mapped}

ReleasePad(p) ==
    /\ pc = "idle" /\ p \in sinkpads
    /\ sinkpads' = sinkpads \ {p}
    /\ mapped' = Abandoned(p)
    /\ c2d_buffer' = [c2d_buffer EXCEPT ![p] = NoC2DBuffer]
    /\ info' = [info EXCEPT ![p] = NULL]
    /\ buffer' = [buffer EXCEPT ![p] = NoBuffer]
    /\ IF blend_info # NULL /\ ~setcaps_kept
       THEN UpdateSrcCaps(info') ELSE UNCHANGED <<blend_info, setcaps_kept>>
    /\ UNCHANGED <<c2d, frames, pc>>

(* gst_videoblend_dispose frees the conversion buffers of the pads left.   *)
Dispose ==
    /\ pc = "idle" /\ pc' = "disposed"
    /\ IF c2d = "absent" THEN UNCHANGED <<mapped, c2d_buffer>>
       ELSE /\ mapped' = Without({c2d_buffer[p].ptr : p \in sinkpads})
            /\ c2d_buffer' = [p \in Pads |->
                    IF p \in sinkpads THEN NoC2DBuffer ELSE c2d_buffer[p]]
    /\ UNCHANGED <<sinkpads, capsVars, buffer, frames>>

-----------------------------------------------------------------------------
BlendBuffersOfTurn ==
    \/ BlendBackground \/ NoForeground \/ ForegroundUnseen \/ MapTarget
    \/ ConvertIon \/ ConvertCopy \/ Unmap

Next ==
    \/ \E p \in Pads : SetCaps(p) \/ RequestNewPad(p) \/ ReleasePad(p)
    \/ Reconfigure \/ InitGbmBuffers
    \/ BeginTurn \/ BlendBuffersOfTurn \/ Push
    \/ Reset \/ Dispose

Spec == Init /\ [][Next]_vars

-----------------------------------------------------------------------------
(* Properties.                                                             *)

(* Every variable has its type.                                            *)
TypeOK ==
    /\ c2d \in {"absent", "closed", "open"} /\ sinkpads \subseteq Pads
    /\ setcaps_kept \in BOOLEAN
    /\ info \in [Pads -> Caps \cup {NULL}] /\ blend_info \in Caps \cup {NULL}
    /\ buffer \in
        [Pads -> [memory : {"ion", "plain"}, caps : Caps] \cup {NoBuffer}]
    /\ c2d_buffer \in [Pads -> [ptr : Addresses \cup {NULL}, caps : Caps \cup {NULL}]]
    /\ mapped \subseteq Addresses \X (Pads \cup {"target", "source", "released"})
    /\ meta \in BOOLEAN
    /\ {meta_ptr, ion_ptr} \subseteq Addresses \cup {NULL}
    /\ pc \in {"idle", "gbm background", "gbm foreground", "background",
               "foreground", "source", "unmap", "push", "crashed", "disposed"}

(* Between turns only conversion buffers are mapped, whichever call failed *)
(* and whichever way the turn ended: those of the pads there are, at the   *)
(* address their pad knows, and those release_pad left behind.  The latter *)
(* are all that dispose leaves mapped.                                     *)
NoMappingLeaks ==
    /\ pc = "idle" => \A m \in mapped :
            \/ m[2] = "released"
            \/ m[2] \in sinkpads /\ m[1] = c2d_buffer[m[2]].ptr
    /\ pc = "disposed" => \A m \in mapped : m[2] = "released"

(* A conversion buffer is for the present caps of its pad, through         *)
(* restarts and failed allocations, unless update_src_caps has kept its    *)
(* lock.                                                                   *)
MemoryOfCaps ==
    pc = "source" /\ ~setcaps_kept =>
        \/ c2d_buffer["foreground"].ptr = NULL
        \/ c2d_buffer["foreground"].caps = info["foreground"]

Intact ==
    \A p \in Pads : c2d_buffer[p].ptr # NULL => <<c2d_buffer[p].ptr, p>> \in mapped

(* The memory of a conversion buffer is first pulled from under it in one  *)
(* case only: a turn without a foreground, after one that had one, unmaps  *)
(* the old address of the target again (exit2).                            *)
OnlyStaleTargetUnmaps ==
    [][Intact /\ ~Intact' =>
        /\ pc = "unmap" /\ buffer["foreground"] = NoBuffer
        /\ \E p \in Pads : c2d_buffer[p].ptr = meta_ptr]_vars

=============================================================================
