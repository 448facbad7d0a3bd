------------------------ MODULE BlendBuffers_proofs ------------------------
(***************************************************************************)
(* What BlendBuffers promises for any number of addresses and caps: no     *)
(* mapping of a turn outlives it and none but those of released pads is    *)
(* left by dispose, a conversion buffer is for the caps of its pad, and a  *)
(* stale target is all that can unmap a conversion buffer.                 *)
(***************************************************************************)
EXTENDS BlendBuffers, TLAPS

(* Every action, for the proofs that a step preserves an invariant.        *)
LEMMA Steps ==
    ASSUME [Next]_vars
    PROVE  \/ \E p \in Pads : SetCaps(p) \/ RequestNewPad(p) \/ ReleasePad(p)
           \/ Reconfigure
           \/ InitGbmBuffer("background", "gbm background", "gbm foreground")
           \/ InitGbmBuffer("foreground", "gbm foreground", "idle")
           \/ BeginTurn \/ BlendBackground \/ NoForeground \/ ForegroundUnseen
           \/ MapTarget \/ ConvertIon \/ ConvertCopy \/ Unmap \/ Push
           \/ Reset \/ Dispose \/ UNCHANGED vars
  BY DEF Next, InitGbmBuffers, BlendBuffersOfTurn

-----------------------------------------------------------------------------
(* Types.                                                                  *)

(* AllocateBuffer and FreeBuffer keep the types of what they change.       *)
LEMMA AllocateTyped ==
    ASSUME TypeOK, NEW p \in Pads, NEW c \in Caps, AllocateBuffer(p, c)
    PROVE  /\ c2d_buffer' \in
                [Pads -> [ptr : Addresses \cup {NULL}, caps : Caps \cup {NULL}]]
           /\ mapped' \subseteq Addresses \X (Pads \cup {"target", "source", "released"})
<1>1. Freed(p) \subseteq Addresses \X (Pads \cup {"target", "source", "released"})
  BY DEF TypeOK, Freed, Without
<1>2. PICK a \in Addresses \cup {NULL} :
        /\ c2d_buffer' = [c2d_buffer EXCEPT ![p] = [ptr |-> a, caps |-> c]]
        /\ mapped' = Freed(p) \cup Mapping(a, p)
  BY DEF AllocateBuffer, Unused
<1>3. mapped' \subseteq Addresses \X (Pads \cup {"target", "source", "released"})
  BY <1>1, <1>2 DEF Mapping
<1> QED BY <1>2, <1>3 DEF TypeOK

LEMMA FreeTyped ==
    ASSUME TypeOK, NEW p \in Pads, FreeBuffer(p)
    PROVE  /\ c2d_buffer' \in
                [Pads -> [ptr : Addresses \cup {NULL}, caps : Caps \cup {NULL}]]
           /\ mapped' \subseteq Addresses \X (Pads \cup {"target", "source", "released"})
<1>1. mapped' \subseteq Addresses \X (Pads \cup {"target", "source", "released"})
  BY DEF TypeOK, FreeBuffer, Freed, Without
<1>2. [c2d_buffer[p] EXCEPT !.ptr = NULL]
        \in [ptr : Addresses \cup {NULL}, caps : Caps \cup {NULL}]
  BY DEF TypeOK
<1> QED BY <1>1, <1>2 DEF TypeOK, FreeBuffer

(* ReleasePad renames the mapping of the pad, and forgets its record.      *)
LEMMA AbandonedTyped ==
    ASSUME TypeOK, NEW p \in Pads
    PROVE  Abandoned(p) \subseteq Addresses \X (Pads \cup {"target", "source", "released"})
<1> SUFFICES ASSUME NEW m \in mapped
             PROVE  (IF m[2] = p THEN <<m[1], "released">> ELSE m)
                      \in Addresses \X (Pads \cup {"target", "source", "released"})
  BY DEF Abandoned
<1>1. m \in Addresses \X (Pads \cup {"target", "source", "released"})
  BY DEF TypeOK
<1> QED BY <1>1

LEMMA InitTyped == Init => TypeOK
<1> SUFFICES ASSUME Init PROVE TypeOK
  OBVIOUS
<1>1. NoC2DBuffer \in [ptr : Addresses \cup {NULL}, caps : Caps \cup {NULL}]
  BY DEF NoC2DBuffer
<1> QED BY <1>1 DEF Init, TypeOK

LEMMA TypeStep == TypeOK /\ [Next]_vars => TypeOK'
<1> SUFFICES ASSUME TypeOK, [Next]_vars PROVE TypeOK'
  OBVIOUS
<1> USE DEF capsVars, frames, Pads
<1>1. ASSUME NEW p \in Pads, SetCaps(p) PROVE TypeOK'
  <2>1. info' \in [Pads -> Caps \cup {NULL}]
    BY <1>1 DEF TypeOK, SetCaps
  <2>2. setcaps_kept' \in BOOLEAN /\ blend_info' \in Caps \cup {NULL}
    BY <1>1, <2>1 DEF TypeOK, SetCaps, UpdateSrcCaps
  <2>3. pc' \in {"idle", "gbm background"}
    BY <1>1 DEF SetCaps, ThenGbm
  <2> QED BY <1>1, <2>1, <2>2, <2>3 DEF TypeOK, SetCaps
<1>2. CASE Reconfigure
  BY <1>2 DEF TypeOK, Reconfigure, UpdateSrcCaps, ThenGbm
<1>3. ASSUME NEW p \in Pads, NEW h, NEW n \in {"gbm foreground", "idle"},
             InitGbmBuffer(p, h, n)
      PROVE  TypeOK'
  <2>1. CASE Sized(p)
    <3>1. info[p] \in Caps
      BY <2>1 DEF TypeOK, Sized
    <3> QED BY <1>3, <2>1, <3>1, AllocateTyped DEF TypeOK, InitGbmBuffer
  <2>2. CASE ~Sized(p)
    BY <1>3, <2>2 DEF TypeOK, InitGbmBuffer
  <2> QED BY <2>1, <2>2
<1>4. CASE BeginTurn
  <2>1. ASSUME NEW p \in Pads, NEW b \in Choices(p)
        PROVE  b \in [memory : {"ion", "plain"}, caps : Caps] \cup {NoBuffer}
    <3>1. KnownCaps(p) \subseteq Caps
      BY DEF TypeOK, KnownCaps
    <3> QED BY <3>1 DEF TypeOK, Choices
  <2> QED BY <1>4, <2>1 DEF TypeOK, BeginTurn
<1>5. CASE BlendBackground
  <2>1. pc' \in {"foreground", "push"} /\ meta' \in BOOLEAN
    BY <1>5 DEF TypeOK, BlendBackground
  <2>2. blend_info' \in Caps \cup {NULL}
    BY <1>5 DEF TypeOK, BlendBackground
  <2>3. /\ c2d_buffer' \in
             [Pads -> [ptr : Addresses \cup {NULL}, caps : Caps \cup {NULL}]]
        /\ mapped' \subseteq Addresses \X (Pads \cup {"target", "source", "released"})
    BY <1>5, FreeTyped DEF TypeOK, BlendBackground
  <2> QED BY <1>5, <2>1, <2>2, <2>3 DEF TypeOK, BlendBackground
<1>6. CASE NoForeground \/ ForegroundUnseen \/ ConvertCopy
  BY <1>6 DEF TypeOK, NoForeground, ForegroundUnseen, ConvertCopy
<1>7. CASE MapTarget
  <2>1. CASE c2d # "open"
    BY <1>7, <2>1 DEF TypeOK, MapTarget
  <2>2. CASE c2d = "open"
    <3>1. PICK a \in Addresses \cup {NULL} :
            meta_ptr' = a /\ mapped' = mapped \cup Mapping(a, "target")
      BY <1>7, <2>2 DEF MapTarget, Unused
    <3>2. mapped' \subseteq Addresses \X (Pads \cup {"target", "source", "released"})
      BY <3>1 DEF TypeOK, Mapping
    <3>3. /\ pc' = "source"
          /\ UNCHANGED <<sinkpads, capsVars, buffer, c2d_buffer, meta, ion_ptr>>
      BY <1>7, <2>2 DEF MapTarget
    <3>4. {meta_ptr, ion_ptr}' \subseteq Addresses \cup {NULL}
      BY <3>1, <3>3 DEF TypeOK
    <3> QED BY <3>2, <3>3, <3>4 DEF TypeOK
  <2> QED BY <2>1, <2>2
<1>8. CASE ConvertIon
  BY <1>8 DEF TypeOK, ConvertIon, Unused, Freed, Without, Mapping
<1>9. CASE Unmap
  BY <1>9 DEF TypeOK, Unmap, Without
<1>10. CASE Push
  BY <1>10 DEF TypeOK, Push
<1>11. CASE Reset
  BY <1>11 DEF TypeOK, Reset
<1>12. CASE Dispose
  BY <1>12 DEF TypeOK, Dispose, Without, NoC2DBuffer
<1>13. ASSUME NEW p \in Pads, RequestNewPad(p) PROVE TypeOK'
  BY <1>13 DEF TypeOK, RequestNewPad
<1>14. ASSUME NEW p \in Pads, ReleasePad(p) PROVE TypeOK'
  <2>1. mapped' \subseteq Addresses \X (Pads \cup {"target", "source", "released"})
    BY <1>14, AbandonedTyped DEF ReleasePad
  <2>2. setcaps_kept' \in BOOLEAN /\ blend_info' \in Caps \cup {NULL}
    BY <1>14 DEF TypeOK, ReleasePad, UpdateSrcCaps
  <2> QED BY <1>14, <2>1, <2>2 DEF TypeOK, ReleasePad, NoC2DBuffer
<1>15. CASE UNCHANGED vars
  BY <1>15 DEF TypeOK, vars
<1> QED BY Steps, <1>1, <1>2, <1>3, <1>4, <1>5, <1>6, <1>7, <1>8, <1>9, <1>10,
           <1>11, <1>12, <1>13, <1>14, <1>15

(* The state of BlendBuffers is well typed for any caps and addresses.     *)
THEOREM TypeCorrect == Spec => []TypeOK
  BY InitTyped, TypeStep, PTL DEF Spec

-----------------------------------------------------------------------------
(* Mappings.                                                               *)

(* A pad that is not listed has neither caps nor a conversion buffer, and  *)
(* without C2D nothing is mapped at all.                                   *)
Unlisted == \A p \in Pads \ sinkpads : info[p] = NULL /\ c2d_buffer[p].ptr = NULL

NoEngine ==
    c2d = "absent" => mapped = {} /\ pc \notin {"gbm background", "gbm foreground"}

(* Each mapping is at the address of what it is for, and those of a turn   *)
(* are gone when it ends; no address is mapped twice.                      *)
OfPad(m) == m[2] \in sinkpads /\ m[1] = c2d_buffer[m[2]].ptr

Accounted ==
    \A m \in mapped :
        \/ OfPad(m) \/ m[2] = "released"
        \/ m[2] = "target" /\ m[1] = meta_ptr /\ pc \in {"source", "unmap", "crashed"}
        \/ m[2] = "source" /\ m[1] = ion_ptr /\ pc = "unmap"

MappedOnce == \A m, n \in mapped : m[1] = n[1] => m = n

(* What the end of a turn unmaps is no conversion buffer, if the turn had  *)
(* a foreground.                                                           *)
TargetApart ==
    pc \in {"source", "unmap"} /\ buffer["foreground"] # NoBuffer =>
        \A p \in Pads : <<meta_ptr, p>> \notin mapped

SourceApart ==
    ion_ptr # NULL => /\ pc = "unmap"
                      /\ \A p \in Pads : <<ion_ptr, p>> \notin mapped

LEMMA MappingIs ==
    ASSUME NEW a, NEW w PROVE \A m \in Mapping(a, w) : m = <<a, w>> /\ a # NULL
  BY DEF Mapping

(* One more mapping, at an unused address, or none.                        *)
LEMMA AddOnce ==
    ASSUME NEW S, NEW w, NEW a \in Unused(S) \cup {NULL},
           \A m, n \in S : m[1] = n[1] => m = n
    PROVE  \A m, n \in S \cup Mapping(a, w) : m[1] = n[1] => m = n
<1>1. \A m \in Mapping(a, w) : m = <<a, w>> /\ a # NULL
  BY MappingIs
<1>2. a # NULL => \A m \in S : m[1] # a
  BY DEF Unused
<1> SUFFICES ASSUME NEW m \in S \cup Mapping(a, w), NEW n \in S \cup Mapping(a, w),
                    m[1] = n[1]
             PROVE  m = n
  OBVIOUS
<1>3. <<a, w>>[1] = a
  OBVIOUS
<1> QED BY <1>1, <1>2, <1>3

(* C2D draws only with an engine that opened.                              *)
Opened == pc = "source" => c2d = "open"

IMapped ==
    /\ TypeOK /\ Unlisted /\ NoEngine /\ Opened
    /\ Accounted /\ MappedOnce /\ TargetApart /\ SourceApart

LEMMA InitMapped == Init => IMapped
<1> SUFFICES ASSUME Init PROVE IMapped
  OBVIOUS
<1>1. TypeOK
  BY InitTyped
<1> QED BY <1>1 DEF Init, IMapped, Unlisted, NoEngine, Opened, NoC2DBuffer, Accounted, MappedOnce,
           TargetApart, SourceApart

(* The conversion buffer of a pad is unmapped, and the others are not.     *)
LEMMA FreedMapped ==
    ASSUME IMapped, NEW p \in Pads
    PROVE  \A m \in Freed(p) : m \in mapped /\ m[2] # p
  BY DEF IMapped, Accounted, OfPad, Freed, Without, Pads

(* A pad's conversion buffer freed or replaced, others as they were.       *)
LEMMA AllocateMapped ==
    ASSUME IMapped, NEW p \in sinkpads, NEW c \in Caps, AllocateBuffer(p, c),
           pc \in {"gbm background", "gbm foreground"}, pc' \notin {"source", "unmap"},
           UNCHANGED <<sinkpads, frames>>
    PROVE  /\ Accounted' /\ MappedOnce' /\ TargetApart' /\ SourceApart'
           /\ \A q \in Pads \ {p} : c2d_buffer'[q] = c2d_buffer[q]
<1> USE DEF frames
<1>0. p \in Pads
  BY DEF IMapped, TypeOK
<1>1. \A m \in Freed(p) : m \in mapped /\ m[2] # p
  BY <1>0, FreedMapped
<1>2. PICK a \in Unused(Freed(p)) \cup {NULL} :
        /\ mapped' = Freed(p) \cup Mapping(a, p)
        /\ c2d_buffer' = [c2d_buffer EXCEPT ![p] = [ptr |-> a, caps |-> c]]
  BY DEF AllocateBuffer
<1>3. /\ \A q \in Pads \ {p} : c2d_buffer'[q] = c2d_buffer[q]
      /\ c2d_buffer'[p].ptr = a
  BY <1>0, <1>2 DEF IMapped, TypeOK
<1>4. Accounted'
  <2> SUFFICES ASSUME NEW m \in mapped' PROVE OfPad(m)' \/ m[2] = "released"
    BY DEF Accounted
  <2>1. CASE m \in Freed(p)
    BY <1>1, <1>3, <2>1 DEF IMapped, TypeOK, Accounted, OfPad
  <2>2. CASE m \in Mapping(a, p)
    <3>1. m = <<a, p>>
      BY <2>2, MappingIs
    <3>2. m[2] = p /\ m[1] = a
      BY <3>1
    <3> QED BY <1>3, <3>2 DEF OfPad
  <2> QED BY <1>2, <2>1, <2>2
<1>5. MappedOnce'
  <2>1. \A m, n \in Freed(p) : m[1] = n[1] => m = n
    BY <1>1 DEF IMapped, MappedOnce
  <2> QED BY <1>2, <2>1, AddOnce DEF MappedOnce
<1>6. ion_ptr = NULL
  BY DEF IMapped, SourceApart
<1> QED BY <1>3, <1>4, <1>5, <1>6 DEF TargetApart, SourceApart

LEMMA FreeMapped ==
    ASSUME IMapped, NEW p \in Pads, FreeBuffer(p),
           pc = "background", pc' = "foreground",
           UNCHANGED <<sinkpads, meta_ptr, ion_ptr>>
    PROVE  /\ Accounted' /\ MappedOnce' /\ TargetApart' /\ SourceApart'
           /\ \A q \in Pads \ sinkpads : c2d_buffer'[q].ptr = NULL
<1>1. \A m \in mapped' : m \in mapped /\ m[2] # p
  BY FreedMapped DEF FreeBuffer
<1>2. /\ \A q \in Pads \ {p} : c2d_buffer'[q] = c2d_buffer[q]
      /\ c2d_buffer'[p].ptr = NULL
  BY DEF FreeBuffer, IMapped, TypeOK
<1>3. Accounted'
  BY <1>1, <1>2 DEF IMapped, TypeOK, Accounted, OfPad
<1>4. MappedOnce'
  BY <1>1 DEF IMapped, MappedOnce
<1> QED BY <1>1, <1>2, <1>3, <1>4 DEF IMapped, Unlisted, TargetApart, SourceApart

LEMMA MappedStep == IMapped /\ [Next]_vars => IMapped'
<1> SUFFICES ASSUME IMapped, [Next]_vars PROVE IMapped'
  OBVIOUS
<1> USE DEF capsVars, frames
<1>0. TypeOK'
  BY TypeStep DEF IMapped
<1> DEFINE Mappings == Accounted /\ MappedOnce /\ TargetApart /\ SourceApart
<1>a. Unlisted' /\ NoEngine'
  <2>1. ASSUME NEW p \in Pads, SetCaps(p) PROVE Unlisted' /\ NoEngine'
    BY <2>1 DEF SetCaps, ThenGbm, IMapped, TypeOK, Unlisted, NoEngine
  <2>2. ASSUME NEW p \in Pads, RequestNewPad(p) PROVE Unlisted' /\ NoEngine'
    BY <2>2 DEF RequestNewPad, IMapped, Unlisted, NoEngine
  <2>3. ASSUME NEW p \in Pads, ReleasePad(p) PROVE Unlisted' /\ NoEngine'
    BY <2>3 DEF ReleasePad, Abandoned, NoC2DBuffer, IMapped, TypeOK, Unlisted, NoEngine
  <2>4. ASSUME NEW p \in Pads, NEW n \in {"gbm foreground", "idle"},
               \/ InitGbmBuffer(p, "gbm background", n)
               \/ InitGbmBuffer(p, "gbm foreground", n)
        PROVE  Unlisted' /\ NoEngine'
    <3>1. c2d # "absent" /\ UNCHANGED <<c2d, info, sinkpads>>
      BY <2>4 DEF InitGbmBuffer, IMapped, NoEngine
    <3>2. CASE Sized(p)
      <4>1. p \in sinkpads
        BY <3>2 DEF Sized, IMapped, Unlisted
      <4>2. \A q \in Pads \ {p} : c2d_buffer'[q] = c2d_buffer[q]
        BY <2>4, <3>2 DEF InitGbmBuffer, AllocateBuffer, IMapped, TypeOK
      <4> QED BY <3>1, <4>1, <4>2 DEF IMapped, Unlisted, NoEngine
    <3>3. CASE ~Sized(p)
      BY <2>4, <3>1, <3>3 DEF InitGbmBuffer, IMapped, Unlisted, NoEngine
    <3> QED BY <3>2, <3>3
  <2>5. CASE BlendBackground
    <3>1. /\ c2d_buffer' = c2d_buffer
             \/ c2d_buffer' = [c2d_buffer EXCEPT !["background"].ptr = NULL]
          /\ UNCHANGED <<c2d, info, sinkpads>> /\ pc' \in {"foreground", "push"}
      BY <2>5 DEF BlendBackground, FreeBuffer
    <3>2. \A q \in Pads : c2d_buffer'[q].ptr \in {c2d_buffer[q].ptr, NULL}
      BY <3>1 DEF IMapped, TypeOK
    <3>3. c2d = "absent" => mapped' = {}
      BY <2>5 DEF BlendBackground, FreeBuffer, Freed, Without, IMapped, NoEngine
    <3> QED BY <3>1, <3>2, <3>3 DEF IMapped, Unlisted, NoEngine
  <2>6. CASE ConvertIon
    <3>1. c2d # "absent"
      BY <2>6 DEF ConvertIon, IMapped, Opened
    <3> QED BY <2>6, <3>1 DEF ConvertIon, IMapped, TypeOK, Unlisted, NoEngine
  <2>7. CASE Dispose
    BY <2>7 DEF Dispose, Without, NoC2DBuffer, IMapped, TypeOK, Unlisted, NoEngine
  <2>8. CASE \/ Reconfigure \/ BeginTurn \/ NoForeground \/ ForegroundUnseen
             \/ MapTarget \/ ConvertCopy \/ Unmap \/ Push \/ Reset \/ UNCHANGED vars
    BY <2>8 DEF Reconfigure, ThenGbm, BeginTurn, NoForeground, ForegroundUnseen,
       MapTarget, ConvertCopy, Unmap, Without, Push, Reset, vars, IMapped, Unlisted, NoEngine
  <2> QED BY Steps, <2>1, <2>2, <2>3, <2>4, <2>5, <2>6, <2>7, <2>8 DEF Pads
<1>o. Opened'
  BY Steps DEF IMapped, Opened, SetCaps, RequestNewPad, ReleasePad, ThenGbm, Reconfigure,
     InitGbmBuffer, BeginTurn, BlendBackground, NoForeground, ForegroundUnseen, MapTarget,
     ConvertIon, ConvertCopy, Unmap, Push, Reset, Dispose, vars
<1> SUFFICES Mappings'
  BY <1>0, <1>a, <1>o DEF IMapped
<1>1. ASSUME UNCHANGED <<mapped, c2d_buffer, meta_ptr, ion_ptr>>,
             sinkpads \subseteq sinkpads',
             pc \notin {"source", "unmap", "crashed"}, pc' \notin {"source"},
             pc' = "unmap" => buffer'["foreground"] = NoBuffer
      PROVE  Mappings'
  <2>1. ion_ptr = NULL
    BY <1>1 DEF IMapped, SourceApart
  <2> QED BY <1>1, <2>1 DEF IMapped, Accounted, OfPad, MappedOnce, TargetApart, SourceApart
<1>2. CASE \/ \E p \in Pads : SetCaps(p) \/ RequestNewPad(p)
           \/ Reconfigure \/ BeginTurn \/ NoForeground \/ ForegroundUnseen
           \/ Push \/ Reset
  BY <1>1, <1>2 DEF SetCaps, RequestNewPad, Reconfigure, ThenGbm, BeginTurn, NoForeground,
     ForegroundUnseen, Push, Reset
<1>3. ASSUME NEW p \in Pads, NEW n \in {"gbm foreground", "idle"},
             \/ InitGbmBuffer(p, "gbm background", n)
             \/ InitGbmBuffer(p, "gbm foreground", n)
      PROVE  Mappings'
  <2>1. CASE Sized(p)
    <3>1. info[p] \in Caps /\ p \in sinkpads
      BY <2>1 DEF IMapped, TypeOK, Sized, Unlisted
    <3> QED BY <1>3, <2>1, <3>1, AllocateMapped DEF InitGbmBuffer
  <2>2. CASE ~Sized(p)
    BY <1>1, <1>3, <2>2 DEF InitGbmBuffer
  <2> QED BY <2>1, <2>2
<1>4. CASE BlendBackground
  BY <1>1, <1>4, FreeMapped DEF BlendBackground, Pads
<1>5. CASE MapTarget
  <2>1. ion_ptr = NULL /\ \A m \in mapped : OfPad(m) \/ m[2] = "released"
    BY <1>5 DEF MapTarget, IMapped, SourceApart, Accounted
  <2>2. CASE c2d # "open"
    BY <1>5, <2>1, <2>2
       DEF MapTarget, IMapped, Accounted, OfPad, MappedOnce, TargetApart, SourceApart
  <2>3. CASE c2d = "open"
    <3>1. PICK a \in Unused(mapped) \cup {NULL} :
            meta_ptr' = a /\ mapped' = mapped \cup Mapping(a, "target")
      BY <1>5, <2>3 DEF MapTarget
    <3>2. pc' = "source" /\ UNCHANGED <<sinkpads, c2d_buffer, ion_ptr, buffer>>
      BY <1>5, <2>3 DEF MapTarget
    <3>3. Accounted'
      <4> SUFFICES ASSUME NEW m \in mapped'
                   PROVE  \/ OfPad(m)' \/ m[2] = "released"
                          \/ m[2] = "target" /\ m[1] = meta_ptr'
        BY <3>2 DEF Accounted
      <4>1. CASE m \in mapped
        BY <2>1, <3>2, <4>1 DEF OfPad
      <4>2. CASE m \in Mapping(a, "target")
        BY <3>1, <4>2 DEF Mapping
      <4> QED BY <3>1, <4>1, <4>2
    <3>4. MappedOnce'
      BY <3>1, AddOnce DEF IMapped, MappedOnce
    <3>5. TargetApart'
      <4> SUFFICES ASSUME NEW p \in Pads, <<a, p>> \in mapped' PROVE FALSE
        BY <3>1 DEF TargetApart
      <4>1. <<a, p>> \in mapped
        BY <3>1 DEF Mapping, Pads
      <4>2. a \in Addresses
        BY <4>1 DEF IMapped, TypeOK
      <4>3. a \in Unused(mapped)
        BY <3>1, <4>2, BlendBuffersAssumption
      <4> QED BY <4>1, <4>3 DEF Unused
    <3> QED BY <2>1, <3>2, <3>3, <3>4, <3>5 DEF SourceApart
  <2> QED BY <2>2, <2>3
<1>6. CASE ConvertIon
  <2>1. PICK a \in Unused(Freed("foreground")) \cup {NULL} :
          ion_ptr' = a /\ mapped' = Freed("foreground") \cup Mapping(a, "source")
    BY <1>6 DEF ConvertIon
  <2>2. /\ pc = "source" /\ pc' = "unmap" /\ UNCHANGED <<sinkpads, meta_ptr, buffer>>
        /\ buffer["foreground"] # NoBuffer
        /\ c2d_buffer'["background"] = c2d_buffer["background"]
    BY <1>6 DEF ConvertIon, NoBuffer, IMapped, TypeOK, Pads
  <2>3. \A m \in Freed("foreground") : m \in mapped /\ m[2] # "foreground" /\ m[2] # "source"
    <3>1. \A m \in mapped : m[2] # "source"
      BY <2>2 DEF IMapped, TypeOK, Accounted, OfPad, Pads
    <3> QED BY <3>1, FreedMapped DEF Pads
  <2>4. Accounted'
    <3> SUFFICES ASSUME NEW m \in mapped'
                 PROVE  \/ OfPad(m)' \/ m[2] = "released"
                        \/ m[2] = "target" /\ m[1] = meta_ptr
                        \/ m[2] = "source" /\ m[1] = ion_ptr'
      BY <2>2 DEF Accounted
    <3>1. CASE m \in Freed("foreground")
      BY <2>2, <2>3, <3>1 DEF IMapped, TypeOK, Accounted, OfPad, Pads
    <3>2. CASE m \in Mapping(a, "source")
      BY <2>1, <3>2 DEF Mapping
    <3> QED BY <2>1, <3>1, <3>2
  <2>5. MappedOnce'
    <3>1. \A m, n \in Freed("foreground") : m[1] = n[1] => m = n
      BY <2>3 DEF IMapped, MappedOnce
    <3> QED BY <2>1, <3>1, AddOnce DEF MappedOnce
  <2>6. \A p \in Pads : \A b : <<b, p>> \in mapped' => <<b, p>> \in Freed("foreground")
    BY <2>1 DEF Mapping, Pads
  <2>7. TargetApart'
    BY <2>2, <2>3, <2>6 DEF IMapped, TargetApart
  <2>8. SourceApart'
    <3> SUFFICES ASSUME NEW p \in Pads, a # NULL, <<a, p>> \in mapped' PROVE FALSE
      BY <2>1, <2>2 DEF SourceApart
    <3> QED BY <2>1, <2>6 DEF Unused
  <2> QED BY <2>4, <2>5, <2>7, <2>8
<1>7. CASE ConvertCopy
  BY <1>7 DEF ConvertCopy, IMapped, Accounted, OfPad, MappedOnce, TargetApart, SourceApart
<1>8. CASE Unmap
  <2>1. \A m \in mapped' : m \in mapped /\ m[1] # meta_ptr /\ m[1] # ion_ptr
    BY <1>8 DEF Unmap, Without, UnmapBoth
  <2> QED BY <1>8, <2>1
          DEF Unmap, IMapped, Accounted, OfPad, MappedOnce, TargetApart, SourceApart
<1>9. CASE Dispose
  <2>1. CASE c2d = "absent"
    BY <1>1, <1>9, <2>1 DEF Dispose
  <2>2. CASE c2d # "absent"
    <3>1. \A m \in mapped : OfPad(m) \/ m[2] = "released"
      BY <1>9 DEF Dispose, IMapped, Accounted
    <3>2. \A m \in mapped' : m \in mapped /\ m[2] = "released"
      BY <1>9, <2>2, <3>1 DEF Dispose, Without, OfPad, IMapped, TypeOK
    <3> QED BY <1>9, <3>2 DEF Dispose, IMapped, Accounted, MappedOnce, TargetApart, SourceApart
  <2> QED BY <2>1, <2>2
<1>10. ASSUME NEW p \in Pads, ReleasePad(p) PROVE Mappings'
  <2>1. ion_ptr = NULL /\ \A m \in mapped : OfPad(m) \/ m[2] = "released"
    BY <1>10 DEF ReleasePad, IMapped, SourceApart, Accounted
  <2>2. /\ mapped' = Abandoned(p) /\ sinkpads' = sinkpads \ {p} /\ pc' = "idle"
        /\ UNCHANGED <<meta_ptr, ion_ptr>>
        /\ \A q \in Pads \ {p} : c2d_buffer'[q] = c2d_buffer[q]
    BY <1>10 DEF ReleasePad, IMapped, TypeOK
  <2>3. ASSUME NEW m \in mapped'
        PROVE  \E o \in mapped : /\ m[1] = o[1]
                                  /\ m = IF o[2] = p THEN <<o[1], "released">> ELSE o
    BY <2>2, <2>3 DEF Abandoned
  <2>4. Accounted'
    <3> SUFFICES ASSUME NEW m \in mapped' PROVE OfPad(m)' \/ m[2] = "released"
      BY DEF Accounted
    <3>1. PICK o \in mapped : m = IF o[2] = p THEN <<o[1], "released">> ELSE o
      BY <2>3
    <3>2. CASE o[2] = p
      BY <3>1, <3>2
    <3>3. CASE o[2] # p
      BY <2>1, <2>2, <3>1, <3>3 DEF OfPad, IMapped, TypeOK
    <3> QED BY <3>2, <3>3
  <2>5. MappedOnce'
    BY <2>3 DEF IMapped, MappedOnce
  <2> QED BY <2>1, <2>2, <2>4, <2>5 DEF TargetApart, SourceApart
<1>11. CASE UNCHANGED vars
  BY <1>11 DEF vars, IMapped, Accounted, OfPad, MappedOnce, TargetApart, SourceApart
<1> QED BY Steps, <1>2, <1>3, <1>4, <1>5, <1>6, <1>7, <1>8, <1>9, <1>10, <1>11 DEF Pads

(* Between turns only conversion buffers are mapped, whichever call failed *)
(* and whichever way the turn ended, and after dispose only those of pads  *)
(* that were released before.                                              *)
THEOREM NothingStaysMapped == Spec => []NoMappingLeaks
<1>1. Init => NoMappingLeaks
  BY DEF Init, NoMappingLeaks
<1>2. ASSUME IMapped, NoMappingLeaks, [Next]_vars PROVE NoMappingLeaks'
  <2>1. IMapped'
    BY <1>2, MappedStep
  <2>2. pc' \in {"idle", "disposed"} => \A m \in mapped' : OfPad(m)' \/ m[2] = "released"
    BY <2>1 DEF IMapped, Accounted
  <2>3. CASE Dispose
    <3>1. CASE c2d = "absent"
      BY <1>2, <2>3, <3>1 DEF Dispose, IMapped, NoEngine, NoMappingLeaks
    <3>2. CASE c2d # "absent"
      BY <1>2, <2>3, <3>2 DEF Dispose, Without, NoMappingLeaks
    <3> QED BY <3>1, <3>2
  <2>4. CASE ~Dispose
    <3>1. pc' = "disposed" => pc = "disposed" /\ mapped' = mapped
      BY <1>2, <2>4, Steps DEF SetCaps, RequestNewPad, ReleasePad, ThenGbm, Reconfigure,
         InitGbmBuffer, BeginTurn, BlendBackground, NoForeground, ForegroundUnseen, MapTarget,
         ConvertIon, ConvertCopy, Unmap, Push, Reset, vars
    <3> QED BY <1>2, <2>2, <3>1 DEF NoMappingLeaks, OfPad
  <2> QED BY <2>3, <2>4
<1> QED BY <1>1, <1>2, InitMapped, MappedStep, PTL DEF Spec

(* As long as every conversion buffer is mapped, a step unmaps one of them *)
(* only at the end of a turn without a foreground, through meta_ptr.       *)
THEOREM StaleTargetOnly == Spec => OnlyStaleTargetUnmaps
<1>1. ASSUME IMapped, [Next]_vars, Intact, ~Intact'
      PROVE  /\ pc = "unmap" /\ buffer["foreground"] = NoBuffer
             /\ \E p \in Pads : c2d_buffer[p].ptr = meta_ptr
  <2> USE <1>1
  <2> DEFINE Ptr(p) == c2d_buffer[p].ptr
  <2>1. PICK p \in Pads : Ptr(p)' # NULL /\ <<Ptr(p)', p>> \notin mapped'
    BY DEF Intact
  <2>2. ASSUME NEW q \in Pads, NEW r \in Pads \ {q}, Ptr(r) # NULL
        PROVE  <<Ptr(r), r>> \in Freed(q)
    <3>1. <<Ptr(r), r>> \in mapped
      BY <2>2 DEF Intact
    <3>2. ASSUME Ptr(q) = Ptr(r) PROVE FALSE
      <4>1. <<Ptr(q), q>> \in mapped
        BY <2>2, <3>2 DEF Intact
      <4> QED BY <2>2, <3>1, <3>2, <4>1 DEF IMapped, MappedOnce
    <3> QED BY <3>1, <3>2 DEF Freed, Without
  <2>3. ~UNCHANGED <<mapped, c2d_buffer>>
    BY DEF Intact
  <2>4. ASSUME NEW q \in Pads, NEW h, NEW n, InitGbmBuffer(q, h, n) PROVE FALSE
    <3>1. PICK c : AllocateBuffer(q, c)
      BY <2>3, <2>4 DEF InitGbmBuffer
    <3>2. Freed(q) \subseteq mapped'
      BY <3>1 DEF AllocateBuffer
    <3>3. CASE p = q
      <4>1. PICK a \in Unused(Freed(q)) \cup {NULL} :
              /\ mapped' = Freed(q) \cup Mapping(a, q)
              /\ c2d_buffer' = [c2d_buffer EXCEPT ![q] = [ptr |-> a, caps |-> c]]
        BY <3>1 DEF AllocateBuffer
      <4>2. Ptr(p)' = a
        BY <3>3, <4>1 DEF IMapped, TypeOK
      <4> QED BY <2>1, <3>3, <4>1, <4>2 DEF Mapping
    <3>4. CASE p # q
      <4>1. c2d_buffer'[p] = c2d_buffer[p]
        BY <3>1, <3>4 DEF AllocateBuffer, IMapped, TypeOK
      <4> QED BY <2>1, <2>2, <3>2, <3>4, <4>1
    <3> QED BY <3>3, <3>4
  <2>5. CASE BlendBackground
    <3>1. FreeBuffer("background")
      BY <2>3, <2>5 DEF BlendBackground
    <3>2. p # "background" /\ c2d_buffer'[p] = c2d_buffer[p]
      BY <2>1, <3>1 DEF FreeBuffer, IMapped, TypeOK, Pads
    <3> QED BY <2>1, <2>2, <3>1, <3>2 DEF FreeBuffer, Pads
  <2>6. CASE MapTarget
    <3>1. mapped \subseteq mapped' /\ c2d_buffer' = c2d_buffer
      BY <2>6 DEF MapTarget
    <3> QED BY <2>1, <3>1 DEF Intact
  <2>7. CASE ConvertIon
    <3>1. /\ c2d_buffer' = [c2d_buffer EXCEPT !["foreground"].ptr = NULL]
          /\ Freed("foreground") \subseteq mapped'
      BY <2>7 DEF ConvertIon
    <3>2. p # "foreground" /\ c2d_buffer'[p] = c2d_buffer[p]
      BY <2>1, <3>1 DEF IMapped, TypeOK, Pads
    <3> QED BY <2>1, <2>2, <3>1, <3>2 DEF Pads
  <2>8. CASE Unmap
    <3>1. c2d_buffer' = c2d_buffer /\ mapped' = Without({meta_ptr, ion_ptr}) /\ pc = "unmap"
      BY <2>8 DEF Unmap, UnmapBoth
    <3>2. Ptr(p) # NULL /\ <<Ptr(p), p>> \in mapped
      BY <2>1, <3>1 DEF Intact
    <3>3. Ptr(p) \in {meta_ptr, ion_ptr}
      BY <2>1, <3>1, <3>2 DEF Without
    <3>4. Ptr(p) # ion_ptr
      BY <3>2 DEF IMapped, SourceApart
    <3>5. buffer["foreground"] = NoBuffer
      BY <3>1, <3>2, <3>3, <3>4 DEF IMapped, TargetApart
    <3> QED BY <3>1, <3>3, <3>4, <3>5
  <2>9. CASE Dispose
    BY <2>1, <2>3, <2>9 DEF Dispose, NoC2DBuffer, Unlisted, IMapped
  <2>11. ASSUME NEW q \in Pads, ReleasePad(q) PROVE FALSE
    <3>1. /\ mapped' = Abandoned(q)
          /\ c2d_buffer' = [c2d_buffer EXCEPT ![q] = NoC2DBuffer]
      BY <2>11 DEF ReleasePad
    <3>2. p # q /\ c2d_buffer'[p] = c2d_buffer[p]
      BY <2>1, <3>1 DEF NoC2DBuffer, IMapped, TypeOK
    <3>3. <<Ptr(p), p>> \in mapped
      BY <2>1, <3>2 DEF Intact
    <3>4. <<Ptr(p), p>> \in mapped'
      BY <3>1, <3>2, <3>3 DEF Abandoned
    <3> QED BY <2>1, <3>2, <3>4
  <2>10. CASE \/ \E q \in Pads : SetCaps(q) \/ RequestNewPad(q)
              \/ Reconfigure \/ BeginTurn \/ NoForeground \/ ForegroundUnseen
              \/ ConvertCopy \/ Push \/ Reset \/ UNCHANGED vars
    BY <2>3, <2>10 DEF SetCaps, RequestNewPad, Reconfigure, BeginTurn, NoForeground, ForegroundUnseen,
       ConvertCopy, Push, Reset, vars, frames
  <2> QED BY Steps, <2>4, <2>5, <2>6, <2>7, <2>8, <2>9, <2>10, <2>11 DEF Pads
<1> QED BY <1>1, InitMapped, MappedStep, PTL DEF Spec, OnlyStaleTargetUnmaps

-----------------------------------------------------------------------------
(* What a turn blends.                                                     *)

(* A conversion buffer is for the caps of its pad or about to be replaced, *)
(* and no pad without caps has a buffer.                                   *)
ForItsCaps ==
    ~setcaps_kept /\ c2d # "absent" =>
        \/ pc \in {"gbm background", "gbm foreground"}
        \/ info["foreground"] = NULL
        \/ c2d_buffer["foreground"].ptr = NULL
        \/ c2d_buffer["foreground"].caps = info["foreground"]

CapsFirst ==
    /\ buffer["foreground"] # NoBuffer => info["foreground"] # NULL
    /\ pc = "source" => buffer["foreground"] # NoBuffer /\ c2d = "open"

ITurn == TypeOK /\ ForItsCaps /\ CapsFirst

LEMMA InitTurn == Init => ITurn
  BY InitTyped DEF Init, ITurn, ForItsCaps, CapsFirst, Pads

LEMMA TurnStep == ITurn /\ [Next]_vars => ITurn'
<1> SUFFICES ASSUME ITurn, [Next]_vars PROVE ITurn'
  OBVIOUS
<1> USE DEF capsVars, frames, Pads
<1>0. TypeOK'
  BY TypeStep DEF ITurn
<1> SUFFICES ForItsCaps' /\ CapsFirst'
  BY <1>0 DEF ITurn
<1>1. ASSUME NEW p \in Pads, SetCaps(p) PROVE ForItsCaps' /\ CapsFirst'
  <2>1. PICK c \in Caps : info' = [info EXCEPT ![p] = c]
    BY <1>1 DEF SetCaps
  <2>2. CapsFirst'
    BY <1>1, <2>1, BlendBuffersAssumption
       DEF SetCaps, ThenGbm, ITurn, CapsFirst, TypeOK
  <2>3. ForItsCaps'
    BY <1>1 DEF SetCaps, ThenGbm, ForItsCaps
  <2> QED BY <2>2, <2>3
<1>2. CASE Reconfigure
  BY <1>2 DEF Reconfigure, ThenGbm, ITurn, ForItsCaps, CapsFirst
<1>3. CASE InitGbmBuffer("background", "gbm background", "gbm foreground")
  BY <1>3 DEF InitGbmBuffer, ITurn, ForItsCaps, CapsFirst
<1>4. CASE InitGbmBuffer("foreground", "gbm foreground", "idle")
  <2>1. CapsFirst'
    BY <1>4 DEF InitGbmBuffer, ITurn, CapsFirst
  <2>2. CASE Sized("foreground")
    <3>1. AllocateBuffer("foreground", info["foreground"]) /\ info' = info
      BY <1>4, <2>2 DEF InitGbmBuffer
    <3>2. \A v : [c2d_buffer EXCEPT !["foreground"] = v]["foreground"] = v
      BY DEF ITurn, TypeOK
    <3>3. PICK a : c2d_buffer' = [c2d_buffer EXCEPT
                        !["foreground"] = [ptr |-> a, caps |-> info["foreground"]]]
      BY <3>1 DEF AllocateBuffer
    <3>4. c2d_buffer'["foreground"].caps = info["foreground"]
      BY <3>2, <3>3
    <3> QED BY <2>1, <3>1, <3>4 DEF ForItsCaps
  <2>3. CASE ~Sized("foreground")
    BY <1>4, <2>1, <2>3 DEF InitGbmBuffer, Sized, ForItsCaps
  <2> QED BY <2>2, <2>3
<1>5. CASE BeginTurn
  <2>1. buffer'["foreground"] \in Choices("foreground")
    BY <1>5 DEF BeginTurn
  <2>2. buffer'["foreground"] # NoBuffer => info["foreground"] # NULL
    BY <2>1 DEF Choices, KnownCaps, ITurn, CapsFirst
  <2> QED BY <1>5, <2>2 DEF BeginTurn, ITurn, ForItsCaps, CapsFirst
<1>6. CASE BlendBackground
  <2>1. c2d_buffer'["foreground"] = c2d_buffer["foreground"]
    BY <1>6 DEF BlendBackground, FreeBuffer, ITurn, TypeOK
  <2> QED BY <1>6, <2>1 DEF BlendBackground, ITurn, ForItsCaps, CapsFirst
<1>7. CASE NoForeground \/ ForegroundUnseen \/ MapTarget \/ ConvertCopy \/ Unmap \/ Push
  BY <1>7 DEF NoForeground, ForegroundUnseen, MapTarget, ConvertCopy, Unmap, Push,
     ITurn, ForItsCaps, CapsFirst
<1>8. CASE ConvertIon
  <2>1. c2d_buffer'["foreground"].ptr = NULL
    BY <1>8 DEF ConvertIon, ITurn, TypeOK
  <2> QED BY <1>8, <2>1 DEF ConvertIon, ITurn, ForItsCaps, CapsFirst
<1>9. CASE Reset
  BY <1>9 DEF Reset, ForItsCaps, CapsFirst
<1>10. CASE Dispose
  BY <1>10 DEF Dispose, NoC2DBuffer, ITurn, ForItsCaps, CapsFirst
<1>11. ASSUME NEW p \in Pads, RequestNewPad(p) PROVE ForItsCaps' /\ CapsFirst'
  BY <1>11 DEF RequestNewPad, ITurn, ForItsCaps, CapsFirst
<1>12. ASSUME NEW p \in Pads, ReleasePad(p) PROVE ForItsCaps' /\ CapsFirst'
  <2>1. /\ UNCHANGED <<c2d, pc>> /\ pc = "idle" /\ (setcaps_kept => setcaps_kept')
        /\ c2d_buffer' = [c2d_buffer EXCEPT ![p] = NoC2DBuffer]
        /\ info' = [info EXCEPT ![p] = NULL]
        /\ buffer' = [buffer EXCEPT ![p] = NoBuffer]
    BY <1>12 DEF ReleasePad, UpdateSrcCaps
  <2>2. CASE p = "foreground"
    <3>1. info'["foreground"] = NULL /\ buffer'["foreground"] = NoBuffer
      BY <2>1, <2>2 DEF ITurn, TypeOK
    <3> QED BY <2>1, <3>1 DEF ForItsCaps, CapsFirst
  <2>3. CASE p = "background"
    <3>1. /\ info'["foreground"] = info["foreground"]
          /\ buffer'["foreground"] = buffer["foreground"]
          /\ c2d_buffer'["foreground"] = c2d_buffer["foreground"]
      BY <2>1, <2>3 DEF ITurn, TypeOK
    <3> QED BY <2>1, <3>1 DEF ITurn, ForItsCaps, CapsFirst
  <2> QED BY <2>2, <2>3
<1>13. CASE UNCHANGED vars
  BY <1>13 DEF vars, ITurn, ForItsCaps, CapsFirst
<1> QED BY Steps, <1>1, <1>2, <1>3, <1>4, <1>5, <1>6, <1>7, <1>8, <1>9, <1>10, <1>11,
           <1>12, <1>13

(* The buffer a foreground is copied into has the size of its present      *)
(* caps, or does not exist.                                                *)
THEOREM BufferOfItsCaps == Spec => []MemoryOfCaps
<1>1. ITurn => MemoryOfCaps
  BY DEF ITurn, ForItsCaps, CapsFirst, MemoryOfCaps
<1> QED BY <1>1, InitTurn, TurnStep, PTL DEF Spec

=============================================================================
