-------------------------- MODULE BlendPads_proofs --------------------------
(***************************************************************************)
(* What BlendPads promises for any number of pads, caps and positions:     *)
(* the background is listed first, downstream knows the caps of what it is *)
(* given, nothing changes while a turn blends, and the only circle of      *)
(* waiting threads is Deadlocked.                                          *)
(***************************************************************************)
EXTENDS BlendPads, TLAPS, SequenceTheorems

(* Every action, for the proofs that a step preserves an invariant.        *)
LEMMA Steps ==
    ASSUME [Next]_vars
    PROVE  \/ \E p \in Pads :
                \/ SetCaps(p) \/ Chain(p) \/ Eos(p)
                \/ StoreInfo(p) \/ TakeStream(p)
                \/ UpdateInSetCaps(p) \/ GbmInSetCaps(p)
                \/ BeginTurn(p) \/ UpdateInTurn(p) \/ GbmInTurn(p)
                \/ PushCaps(p) \/ ClearSendCaps(p) \/ LockToBlend(p)
                \/ PushSegment(p) \/ EndStream(p) \/ NeedMoreData(p)
                \/ Blend(p) \/ PushBuffer(p)
                \/ RequestNewPad(p) \/ ReleasePad(p) \/ SetPosition(p)
           \/ Start \/ Stop \/ Reset
           \/ CollectPadsRemovePad \/ UpdateInRelease \/ DeactivatePad
           \/ UNCHANGED vars
  BY DEF Next, Upstream, Streaming, Negotiate, Collected, Application, Releasing

-----------------------------------------------------------------------------
(* What the operators of several actions change.                           *)

Moved(t, S) == \E l \in S : pc' = [pc EXCEPT ![t] = l]

LEMMA ArriveMoves ==
    ASSUME NEW p \in Pads, NEW d, NEW e, Arrive(p, d, e)
    PROVE  /\ stream = Nobody /\ data' = d /\ eos' = e
           /\ \/ stream' = p /\ Moved(p, {"collected"}) /\ Complete(d, e)
              \/ /\ stream' = Nobody
                 /\ Moved(p, {IF p \in d THEN "queued" ELSE "paused"})
           /\ UNCHANGED <<lock, setcaps_lock, padVars, info, capsVars,
                          newseg_pending, c2d_loaded, caps, keeps, sent, appVars>>
BY DEF Arrive, Goto, Moved

LEMMA EndTurnMoves ==
    ASSUME NEW t \in Pads, NEW ok, NEW d, EndTurn(t, ok, d)
    PROVE  /\ data' \in {d, d \ {t}}
           /\ \/ stream' = stream /\ Moved(t, {"collected"}) /\ ok
                 /\ Complete(d, eos) /\ data' = d
              \/ stream' = Nobody /\ Moved(t, {"queued", "paused"})
                 /\ ((ok /\ t \notin eos) => Moved(t, {"queued"}))
                 /\ (~(ok /\ t \notin eos) => Moved(t, {"paused"}))
BY DEF EndTurn, Goto, Moved

(* The background takes the place of the caps of the output, the caps that *)
(* downstream will be sent included.                                       *)
LEMMA UpdateMoves ==
    ASSUME NEW t, NEW done, NEW failed, UpdateSrcCaps(t, done, failed)
    PROVE  /\ setcaps_lock = Nobody
           /\ \/ /\ Misplaced /\ setcaps_lock' = t /\ Moved(t, {failed})
                 /\ UNCHANGED capsVars
              \/ /\ setcaps_lock' = Nobody /\ Moved(t, {done})
                 /\ \/ \E p \in Background :
                         /\ Known(p) /\ blend_info' = info[p]
                         /\ SrcSetcaps(info[p])
                    \/ /\ \A p \in Background : ~Known(p)
                       /\ blend_info' = blend_info
                       /\ \/ blend_info # NoCaps /\ SrcSetcaps(blend_info)
                          \/ /\ blend_info = NoCaps
                             /\ UNCHANGED <<current_caps, send_caps>>
           /\ UNCHANGED <<lock, padVars, info, newseg_pending, c2d_loaded,
                          caps, collectVars, sent, appVars>>
BY DEF UpdateSrcCaps, Goto, Moved

LEMMA GbmMoves ==
    ASSUME NEW t, NEW done, NEW failed, InitGbmBuffers(t, done, failed)
    PROVE  /\ lock = Nobody
           /\ \/ lock' = Nobody /\ Moved(t, {done})
              \/ /\ lock' = t /\ Moved(t, {failed})
                 /\ \E p \in Listed : Known(p) /\ info[p] \notin Supported
           /\ UNCHANGED <<setcaps_lock, padVars, info, capsVars, newseg_pending,
                          c2d_loaded, caps, collectVars, sent, appVars>>
BY DEF InitGbmBuffers, Convertible, Goto, Moved

-----------------------------------------------------------------------------
(* The list of pads.                                                       *)

LEMMA Inserted ==
    ASSUME NEW S, NEW s \in Seq(S), NEW e \in S
    PROVE  InsertAt(s, Len(s) + 1, e) = Append(s, e)
<1> DEFINE f == SubSeq(s, 1, Len(s) + 1 - 1)
           g == SubSeq(s, Len(s) + 1, Len(s))
<1>1. f = s
  <2>1. Len(s) + 1 - 1 = Len(s)
    OBVIOUS
  <2> QED BY <2>1, SubSeqFull
<1>2. g = <<>>
  BY SubSeqEmpty
<1>3. InsertAt(s, Len(s) + 1, e) = s \o <<e>> \o <<>>
  <2>1. InsertAt(s, Len(s) + 1, e) = f \o <<e>> \o g
    BY DEF InsertAt
  <2> QED BY Zenon, <1>1, <1>2, <2>1
<1>4. s \o <<e>> = Append(s, e) /\ Append(s, e) \in Seq(S)
  OBVIOUS
<1>5. Append(s, e) \o <<>> = Append(s, e)
  BY <1>4
<1> QED BY <1>3, <1>4, <1>5

LEMMA RemovedAt ==
    ASSUME NEW S, NEW s \in Seq(S), NEW i \in DOMAIN s
    PROVE  /\ RemoveAt(s, i) \in Seq(S)
           /\ Len(RemoveAt(s, i)) = Len(s) - 1
           /\ \A k \in 1 .. Len(s) - 1 :
                RemoveAt(s, i)[k] = IF k < i THEN s[k] ELSE s[k + 1]
<1> DEFINE f == SubSeq(s, 1, i - 1)
           g == SubSeq(s, i + 1, Len(s))
<1>1. i \in 1 .. Len(s) /\ Len(s) \in Nat
  OBVIOUS
<1>2. f \in Seq(S) /\ Len(f) = i - 1 /\ \A k \in 1 .. i - 1 : f[k] = s[k]
  BY <1>1
<1>3. g \in Seq(S) /\ Len(g) = Len(s) - i /\ \A k \in 1 .. Len(s) - i : g[k] = s[k + i]
  BY <1>1
<1> HIDE DEF f, g
<1>4. RemoveAt(s, i) = f \o g
  BY DEF RemoveAt, f, g
<1> QED BY <1>1, <1>2, <1>3, <1>4, SMTT(30)

TypedPads ==
    /\ sinkpads \in Seq(Pads) /\ numpads \in 0 .. 2
    /\ type \in [Pads -> 0 .. 1]

(* The list holds two pads at most, the background first.                  *)
Ordered == BackgroundFirst /\ Len(sinkpads) <= 2

LEMMA RequestLists ==
    ASSUME TypedPads, Ordered, NEW p \in Pads, RequestNewPad(p)
    PROVE  TypedPads' /\ Ordered' /\ Listed' = Listed \cup {p}
<1>1. numpads = Len(sinkpads) /\ numpads \in Nat
  BY DEF Ordered, BackgroundFirst, TypedPads
<1>2. sinkpads' = Append(sinkpads, p) /\ numpads' = numpads + 1 /\ p \notin Listed
      /\ numpads < 2
  BY <1>1, Inserted DEF RequestNewPad, ListByType, TypedPads
<1>3. type' = [type EXCEPT ![p] = numpads]
  BY DEF RequestNewPad, NewType
<1>4. TypedPads'
  BY <1>1, <1>2, <1>3 DEF TypedPads
<1>5. Listed' = Listed \cup {p}
  BY <1>2 DEF Listed, ToSet, TypedPads
<1>6. IsInjective(sinkpads')
  BY <1>2 DEF Listed, ToSet, TypedPads, IsInjective, Ordered, BackgroundFirst
<1>7. ASSUME NEW i \in 1 .. Len(sinkpads'), NEW j \in 1 .. Len(sinkpads'),
             type'[sinkpads'[j]] = 0
      PROVE  i >= j
  <2>1. CASE j = numpads + 1
    BY <1>1, <1>2, <1>3, <1>7, <2>1 DEF TypedPads
  <2>2. CASE j \in 1 .. numpads
    <3>1. sinkpads'[j] = sinkpads[j] /\ sinkpads[j] # p
      BY <1>1, <1>2, <2>2 DEF Listed, ToSet, TypedPads
    <3>2. type[sinkpads[j]] = 0
      BY <1>3, <1>7, <3>1 DEF TypedPads
    <3> QED BY <1>1, <1>2, <2>2, <3>2 DEF Ordered, BackgroundFirst
  <2> QED BY <1>1, <1>2, <2>1, <2>2 DEF TypedPads
<1>8. numpads' = Len(sinkpads') /\ Len(sinkpads') <= 2
  BY <1>1, <1>2 DEF TypedPads
<1> QED BY <1>4, <1>5, <1>6, <1>7, <1>8 DEF Ordered, BackgroundFirst

LEMMA ReleaseLists ==
    ASSUME TypedPads, Ordered, NEW p \in Pads, ReleasePad(p)
    PROVE  TypedPads' /\ Ordered' /\ p \in Listed /\ Listed' = Listed \ {p}
<1>1. numpads = Len(sinkpads) /\ numpads \in Nat
  BY DEF Ordered, BackgroundFirst, TypedPads
<1>2. PICK x \in DOMAIN sinkpads : sinkpads[x] = p /\ sinkpads' = RemoveAt(sinkpads, x)
  BY DEF ReleasePad
<1>3. /\ sinkpads' \in Seq(Pads) /\ Len(sinkpads') = numpads - 1
      /\ \A k \in 1 .. numpads - 1 :
            sinkpads'[k] = IF k < x THEN sinkpads[k] ELSE sinkpads[k + 1]
  BY <1>1, <1>2, RemovedAt DEF TypedPads
<1>4. numpads' = numpads - 1 /\ type' = type /\ x \in 1 .. numpads
  <2>1. DOMAIN sinkpads = 1 .. numpads
    BY <1>1 DEF TypedPads
  <2> QED BY <1>2, <2>1 DEF ReleasePad
<1>5. TypedPads'
  BY <1>1, <1>3, <1>4 DEF TypedPads
<1>6. \A a, b \in 1 .. numpads : sinkpads[a] = sinkpads[b] => a = b
  BY <1>1 DEF Ordered, BackgroundFirst, IsInjective, TypedPads
<1>7. IsInjective(sinkpads')
  BY <1>1, <1>3, <1>4, <1>6 DEF IsInjective
<1>8. ASSUME NEW i \in 1 .. Len(sinkpads'), NEW j \in 1 .. Len(sinkpads'),
             type'[sinkpads'[j]] = 0
      PROVE  i >= j
  <2>1. PICK k \in 1 .. numpads : sinkpads'[j] = sinkpads[k] /\ k >= j
    BY <1>1, <1>3, <1>4
  <2> QED BY <1>1, <1>3, <1>4, <1>8, <2>1 DEF Ordered, BackgroundFirst
<1>9. Listed' = Listed \ {p}
  <2>1. Listed = {sinkpads[k] : k \in 1 .. numpads}
    BY <1>1 DEF Listed, ToSet, TypedPads
  <2>2. Listed' = {sinkpads'[k] : k \in 1 .. numpads - 1}
    BY <1>1, <1>3 DEF Listed, ToSet
  <2>3. ASSUME NEW k \in 1 .. numpads, k # x
        PROVE  sinkpads[k] \in Listed'
    <3>1. CASE k < x
      <4>1. k \in 1 .. numpads - 1 /\ sinkpads'[k] = sinkpads[k]
        BY <1>1, <1>3, <1>4, <3>1
      <4> QED BY <2>2, <4>1
    <3>2. CASE k > x
      <4>1. k - 1 \in 1 .. numpads - 1 /\ sinkpads'[k - 1] = sinkpads[k]
        BY <1>1, <1>3, <1>4, <3>2
      <4> QED BY <2>2, <4>1
    <3> QED BY <2>3, <1>4, <3>1, <3>2
  <2>4. ASSUME NEW k \in 1 .. numpads - 1
        PROVE  sinkpads'[k] \in Listed \ {p}
    <3>1. PICK l \in 1 .. numpads : sinkpads'[k] = sinkpads[l] /\ l # x
      BY <1>1, <1>3, <1>4
    <3>2. sinkpads[l] # p
      BY <1>2, <1>4, <1>6, <3>1
    <3> QED BY <2>1, <3>1, <3>2
  <2> QED BY <1>2, <1>4, <2>1, <2>2, <2>3, <2>4
<1>10. p \in Listed
  BY <1>2 DEF Listed, ToSet
<1>11. numpads' = Len(sinkpads') /\ Len(sinkpads') <= 2
  BY <1>1, <1>3, <1>4 DEF TypedPads
<1> QED BY <1>5, <1>7, <1>8, <1>9, <1>10, <1>11 DEF Ordered, BackgroundFirst

-----------------------------------------------------------------------------
(* Types, and where a thread can be.                                       *)

AppPCs == {"idle", "stopping", "uncollect", "uncollect and update",
           "reupdate", "deactivate"}
PadPCs == {"idle", "queued", "paused"} \cup SetCapsPCs \cup TurnPCs

PCs ==
    /\ pc \in [Threads -> AppPCs \cup PadPCs]
    /\ pc[App] \in AppPCs
    /\ \A p \in Pads : pc[p] \in PadPCs

(* TypeOK without pc.                                                      *)
TypedState ==
    /\ {lock, setcaps_lock, stream} \subseteq Threads \cup {Nobody}
    /\ TypedPads /\ pos \in [Pads -> Positions]
    /\ info \in [Pads -> Caps \cup {NoCaps}]
    /\ {blend_info, current_caps, sent} \subseteq Caps \cup {NoCaps}
    /\ {send_caps, newseg_pending, c2d_loaded, playing} \subseteq BOOLEAN
    /\ caps \in [Pads -> Caps \cup {NoCaps}]
    /\ data \subseteq Pads /\ eos \subseteq Pads /\ keeps \in 0 .. MaxKeeps
    /\ removed \in Pads \cup {NoPad}

(* The pad that is being released has left the list.                       *)
Apart ==
    /\ removed \notin Listed
    /\ removed = NoPad <=> pc[App] \in {"idle", "stopping"}

ITyped == TypedState /\ Ordered /\ PCs /\ Apart

LEMMA Distinct ==
    App \notin Pads /\ Nobody \notin Pads /\ NoPad \notin Pads /\ App # Nobody
BY BlendPadsAssumption DEF App, Nobody

LEMMA PadMoves ==
    ASSUME PCs, NEW p \in Pads, NEW S \in SUBSET PadPCs, Moved(p, S)
    PROVE  /\ PCs' /\ pc'[p] \in S
           /\ \A t \in Threads \ {p} : pc'[t] = pc[t]
BY Distinct DEF PCs, Moved, Threads

LEMMA AppMoves ==
    ASSUME PCs, NEW S \in SUBSET AppPCs, Moved(App, S)
    PROVE  /\ PCs' /\ pc'[App] \in S
           /\ \A p \in Pads : pc'[p] = pc[p]
BY Distinct DEF PCs, Moved, Threads

(* Where each action takes its thread.                                     *)
LEMMA PadPcStep ==
    ASSUME PCs, NEW p \in Pads
    PROVE  /\ SetCaps(p) => Moved(p, {"setcaps"})
           /\ Chain(p) \/ Eos(p) => Moved(p, {"collected", "queued", "paused"})
           /\ StoreInfo(p) => Moved(p, {"paused", "stream"})
           /\ TakeStream(p) => Moved(p, {"update"})
           /\ UpdateInSetCaps(p) => Moved(p, {"gbm", "paused"})
           /\ GbmInSetCaps(p) => Moved(p, {"idle", "paused"})
           /\ BeginTurn(p) =>
                Moved(p, {"sendcaps", "reupdate", "collected", "queued", "paused"})
           /\ UpdateInTurn(p) => Moved(p, {"regbm", "sendcaps"})
           /\ GbmInTurn(p) => Moved(p, {"sendcaps"})
           /\ PushCaps(p) => Moved(p, {"capssent", "lock"})
           /\ ClearSendCaps(p) => Moved(p, {"lock"})
           /\ LockToBlend(p) => Moved(p, {"segment", "blend"})
           /\ PushSegment(p) => Moved(p, {"blend", "collected", "queued", "paused"})
           /\ EndStream(p) \/ NeedMoreData(p) \/ PushBuffer(p)
                => Moved(p, {"collected", "queued", "paused"})
           /\ Blend(p) => Moved(p, {"push"})
<1> USE DEF Moved
<1>1. \A ok, d : EndTurn(p, ok, d) => Moved(p, {"collected", "queued", "paused"})
  BY EndTurnMoves
<1>2. ASSUME Chain(p) \/ Eos(p) PROVE Moved(p, {"collected", "queued", "paused"})
  BY <1>2, ArriveMoves DEF Chain, Eos
<1>3. StoreInfo(p) => Moved(p, {"paused", "stream"})
  BY DEF StoreInfo, Refuse, Goto
<1>4. UpdateInSetCaps(p) => Moved(p, {"gbm", "paused"})
  BY UpdateMoves DEF UpdateInSetCaps
<1>5. GbmInSetCaps(p) => Moved(p, {"idle", "paused"})
  BY GbmMoves DEF GbmInSetCaps
<1>6. UpdateInTurn(p) => Moved(p, {"regbm", "sendcaps"})
  BY UpdateMoves DEF UpdateInTurn
<1>7. GbmInTurn(p) => Moved(p, {"sendcaps"})
  BY GbmMoves DEF GbmInTurn
<1>8. PushCaps(p) => Moved(p, {"capssent", "lock"})
  BY DEF PushCaps, Goto
<1>9. LockToBlend(p) => Moved(p, {"segment", "blend"})
  BY DEF LockToBlend, SegmentFirst, Goto
<1>10. BeginTurn(p) => Moved(p, {"sendcaps", "reupdate", "collected", "queued", "paused"})
  BY <1>1 DEF BeginTurn, Goto
<1>11. PushSegment(p) => Moved(p, {"blend", "collected", "queued", "paused"})
  BY <1>1 DEF PushSegment, Goto
<1>12. EndStream(p) \/ NeedMoreData(p) \/ PushBuffer(p)
          => Moved(p, {"collected", "queued", "paused"})
  BY <1>1 DEF EndStream, NeedMoreData, PushBuffer
<1>13. /\ SetCaps(p) => Moved(p, {"setcaps"})
       /\ TakeStream(p) => Moved(p, {"update"})
       /\ ClearSendCaps(p) => Moved(p, {"lock"})
       /\ Blend(p) => Moved(p, {"push"})
  BY DEF SetCaps, TakeStream, ClearSendCaps, Blend, Goto
<1> QED BY <1>2, <1>3, <1>4, <1>5, <1>6, <1>7, <1>8, <1>9, <1>10, <1>11, <1>12, <1>13

LEMMA AppPcStep ==
    ASSUME PCs
    PROVE  /\ \A p \in Pads : RequestNewPad(p) \/ SetPosition(p) => pc' = pc
           /\ \A p \in Pads :
                ReleasePad(p) => Moved(App, {"uncollect", "uncollect and update"})
           /\ CollectPadsRemovePad => Moved(App, {"deactivate", "reupdate"})
           /\ UpdateInRelease => Moved(App, {"deactivate"})
           /\ Start => pc' = pc
           /\ Stop => Moved(App, {"stopping"})
<1>1. UpdateInRelease => Moved(App, {"deactivate"})
  BY UpdateMoves DEF UpdateInRelease
<1> QED BY <1>1 DEF RequestNewPad, SetPosition, ReleasePad, CollectPadsRemovePad,
                    Start, Stop, Goto, Moved

LEMMA PcStep == PCs /\ [Next]_vars => PCs'
<1> SUFFICES ASSUME PCs, [Next]_vars PROVE PCs'
  OBVIOUS
<1>1. ASSUME NEW p \in Pads, NEW S, Moved(p, S), S \subseteq PadPCs PROVE PCs'
  BY <1>1, PadMoves
<1>2. ASSUME NEW S, Moved(App, S), S \subseteq AppPCs PROVE PCs'
  BY <1>2, AppMoves
<1>3. CASE DeactivatePad
  BY <1>3 DEF DeactivatePad, PCs, AppPCs, PadPCs, Threads
<1>4. CASE Reset
  BY <1>4 DEF Reset, PCs, AppPCs, PadPCs, Threads
<1>5. CASE pc' = pc
  BY <1>5 DEF PCs
<1> USE DEF PadPCs, AppPCs, SetCapsPCs, TurnPCs
<1>6. ASSUME NEW p \in Pads,
             \/ SetCaps(p) \/ Chain(p) \/ Eos(p) \/ StoreInfo(p) \/ TakeStream(p)
             \/ UpdateInSetCaps(p) \/ GbmInSetCaps(p)
      PROVE  PCs'
  BY <1>1, <1>6, PadPcStep
<1>7. ASSUME NEW p \in Pads,
             \/ BeginTurn(p) \/ UpdateInTurn(p) \/ GbmInTurn(p) \/ PushCaps(p)
             \/ ClearSendCaps(p) \/ LockToBlend(p) \/ PushSegment(p)
             \/ EndStream(p) \/ NeedMoreData(p) \/ Blend(p) \/ PushBuffer(p)
      PROVE  PCs'
  BY <1>1, <1>7, PadPcStep
<1>8. ASSUME NEW p \in Pads, RequestNewPad(p) \/ ReleasePad(p) \/ SetPosition(p)
      PROVE  PCs'
  BY <1>2, <1>5, <1>8, AppPcStep
<1>9. CASE Start \/ Stop \/ CollectPadsRemovePad \/ UpdateInRelease
  BY <1>2, <1>5, <1>9, AppPcStep
<1>10. CASE UNCHANGED vars
  BY <1>5, <1>10 DEF vars
<1> QED BY Steps, <1>3, <1>4, <1>6, <1>7, <1>8, <1>9, <1>10

LEMMA ListedAreTyped ==
    ASSUME TypedPads
    PROVE  Listed \subseteq Pads
BY DEF TypedPads, Listed, ToSet

LEMMA SrcSetcapsTyped ==
    ASSUME TypedState, NEW c \in Caps \cup {NoCaps}, SrcSetcaps(c)
    PROVE  current_caps' \in Caps \cup {NoCaps} /\ send_caps' \in BOOLEAN
BY DEF TypedState, SrcSetcaps

LEMMA UpdateTyped ==
    ASSUME TypedState, NEW t \in Threads, NEW done, NEW failed,
           UpdateSrcCaps(t, done, failed)
    PROVE  /\ {blend_info, current_caps}' \subseteq Caps \cup {NoCaps}
           /\ send_caps' \in BOOLEAN
           /\ setcaps_lock' \in Threads \cup {Nobody}
<1>1. \A p \in Background : info[p] \in Caps \cup {NoCaps}
  BY ListedAreTyped DEF TypedState, Background
<1>2. setcaps_lock' \in Threads \cup {Nobody}
  BY DEF UpdateSrcCaps
<1>3. CASE UNCHANGED capsVars
  <2>1. {blend_info, current_caps}' \subseteq Caps \cup {NoCaps}
    BY <1>3 DEF capsVars, TypedState
  <2>2. send_caps' \in BOOLEAN
    BY <1>3 DEF capsVars, TypedState
  <2> QED BY <1>2, <2>1, <2>2
<1>4. CASE \E p \in Background : blend_info' = info[p] /\ SrcSetcaps(info[p])
  BY <1>1, <1>2, <1>4, SrcSetcapsTyped
<1>5. CASE blend_info' = blend_info /\ SrcSetcaps(blend_info)
  BY <1>2, <1>5, SrcSetcapsTyped DEF TypedState
<1>6. CASE blend_info' = blend_info /\ UNCHANGED <<current_caps, send_caps>>
  BY <1>3, <1>6 DEF capsVars
<1> QED BY <1>3, <1>4, <1>5, <1>6, UpdateMoves

LEMMA GbmTyped ==
    ASSUME TypedState, NEW t \in Threads, NEW done, NEW failed,
           InitGbmBuffers(t, done, failed)
    PROVE  lock' \in Threads \cup {Nobody}
BY DEF InitGbmBuffers

LEMMA EndTurnTyped ==
    ASSUME TypedState, NEW t \in Pads, NEW ok, NEW d \in SUBSET Pads, EndTurn(t, ok, d)
    PROVE  data' \subseteq Pads /\ stream' \in Threads \cup {Nobody}
BY EndTurnMoves DEF TypedState

LEMMA SameListOrdered == Ordered /\ UNCHANGED <<sinkpads, numpads, type>> => Ordered'
BY DEF Ordered, BackgroundFirst

LEMMA TypedStep == ITyped /\ [Next]_vars => TypedState' /\ Ordered'
<1> SUFFICES ASSUME ITyped, [Next]_vars PROVE TypedState' /\ Ordered'
  OBVIOUS
<1> DEFINE G == TypedState' /\ Ordered'
<1> USE DEF ITyped
<1>1. Nobody \in Threads \cup {Nobody} /\ Pads \subseteq Threads /\ App \in Threads
  BY DEF Threads
<1>2. Listed \subseteq Pads /\ Background \subseteq Pads
  BY ListedAreTyped DEF TypedState, Background
<1>3. UNCHANGED <<sinkpads, numpads, type>> => Ordered' /\ TypedPads'
  BY SameListOrdered DEF TypedPads, TypedState
<1> USE DEF locks, padVars, capsVars, collectVars, appVars
<1>4. ASSUME NEW p \in Pads, SetCaps(p) \/ StoreInfo(p) \/ TakeStream(p) PROVE G
  BY <1>1, <1>3, <1>4 DEF SetCaps, StoreInfo, Refuse, TakeStream, TypedState
<1>5. ASSUME NEW p \in Pads, Chain(p) \/ Eos(p) PROVE G
  <2>1. PICK d \in SUBSET Pads, e \in SUBSET Pads : Arrive(p, d, e)
    BY <1>5 DEF Chain, Eos, TypedState
  <2> QED BY <1>1, <1>3, <2>1, ArriveMoves DEF TypedState
<1>6. ASSUME NEW p \in Pads, UpdateInSetCaps(p) PROVE G
  <2>1. PICK done, failed : UpdateSrcCaps(p, done, failed)
    BY <1>6 DEF UpdateInSetCaps
  <2>2. stream' \in Threads \cup {Nobody}
    BY <1>1, <1>6 DEF UpdateInSetCaps
  <2> QED BY <1>1, <1>3, <2>1, <2>2, UpdateMoves, UpdateTyped DEF TypedState
<1>7. ASSUME NEW p \in Pads, UpdateInTurn(p) PROVE G
  <2>1. PICK done, failed : UpdateSrcCaps(p, done, failed)
    BY <1>7 DEF UpdateInTurn
  <2>2. stream' = stream
    BY <1>7 DEF UpdateInTurn
  <2> QED BY <1>1, <1>3, <2>1, <2>2, UpdateMoves, UpdateTyped DEF TypedState
<1>8. CASE UpdateInRelease
  <2>1. UpdateSrcCaps(App, "deactivate", "deactivate") /\ stream' = stream
    BY <1>8 DEF UpdateInRelease
  <2> QED BY <1>1, <1>3, <2>1, UpdateMoves, UpdateTyped DEF TypedState
<1>9. ASSUME NEW p \in Pads, GbmInSetCaps(p) \/ GbmInTurn(p) PROVE G
  <2>1. PICK done, failed : InitGbmBuffers(p, done, failed)
    BY <1>9 DEF GbmInSetCaps, GbmInTurn
  <2>2. stream' \in {stream, Nobody}
    BY <1>9 DEF GbmInSetCaps, GbmInTurn
  <2> QED BY <1>1, <1>3, <2>1, <2>2, GbmMoves, GbmTyped DEF TypedState
<1>10. ASSUME NEW p \in Pads, BeginTurn(p) PROVE G
  <2>1. data' \subseteq Pads /\ stream' \in Threads \cup {Nobody}
    BY <1>10, EndTurnTyped DEF BeginTurn, TypedState
  <2> QED BY <1>3, <1>10, <2>1 DEF BeginTurn, TypedState
<1>11. ASSUME NEW p \in Pads, PushCaps(p) \/ ClearSendCaps(p) PROVE G
  BY <1>3, <1>11 DEF PushCaps, ClearSendCaps, TypedState
<1>12. ASSUME NEW p \in Pads, LockToBlend(p) PROVE G
  BY <1>1, <1>3, <1>12 DEF LockToBlend, SegmentFirst, TypedState
<1>13. ASSUME NEW p \in Pads, PushSegment(p) PROVE G
  <2>1. data' \subseteq Pads /\ {lock, stream}' \subseteq Threads \cup {Nobody}
    BY <1>1, <1>13, EndTurnTyped DEF PushSegment, TypedState
  <2>2. newseg_pending' \in BOOLEAN
    BY <1>13 DEF PushSegment, TypedState
  <2> QED BY <1>3, <1>13, <2>1, <2>2 DEF PushSegment, TypedState
<1>14. ASSUME NEW d, Pop(d) PROVE keeps' \in 0 .. MaxKeeps /\ data \ d \in SUBSET Pads
  BY <1>14, BlendPadsAssumption DEF Pop, TypedState
<1>15. ASSUME NEW p \in Pads, EndStream(p) \/ PushBuffer(p) PROVE G
  <2>1. data' \subseteq Pads /\ stream' \in Threads \cup {Nobody}
    BY <1>15, EndTurnTyped DEF EndStream, PushBuffer, TypedState
  <2> QED BY <1>1, <1>3, <1>15, <2>1 DEF EndStream, PushBuffer, TypedState
<1>16. ASSUME NEW p \in Pads, NeedMoreData(p) PROVE G
  <2>1. PICK d : Pop(d) /\ EndTurn(p, TRUE, data \ d)
    BY <1>16 DEF NeedMoreData
  <2>2. data' \subseteq Pads /\ stream' \in Threads \cup {Nobody}
    BY <1>14, <2>1, EndTurnTyped
  <2>3. keeps' \in 0 .. MaxKeeps
    BY <1>14, <2>1
  <2> QED BY <1>1, <1>3, <1>16, <2>2, <2>3 DEF NeedMoreData, TypedState
<1>17. ASSUME NEW p \in Pads, Blend(p) PROVE G
  <2>1. keeps' \in 0 .. MaxKeeps /\ data' \in SUBSET Pads
    BY <1>14, <1>17 DEF Blend
  <2>2. blend_info' \in Caps \cup {NoCaps}
    BY <1>2, <1>17 DEF Blend, TypedState
  <2> QED BY <1>1, <1>3, <1>17, <2>1, <2>2 DEF Blend, TypedState
<1>18. ASSUME NEW p \in Pads, RequestNewPad(p) PROVE G
  <2>1. TypedPads' /\ Ordered'
    BY <1>18, RequestLists DEF TypedState
  <2> QED BY <1>18, <2>1 DEF RequestNewPad, TypedState
<1>19. ASSUME NEW p \in Pads, ReleasePad(p) PROVE G
  <2>1. TypedPads' /\ Ordered'
    BY <1>19, ReleaseLists DEF TypedState
  <2> QED BY <1>19, <2>1 DEF ReleasePad, TypedState
<1>20. ASSUME NEW p \in Pads, SetPosition(p) PROVE G
  BY <1>3, <1>20 DEF SetPosition, TypedState
<1>21. CASE Start \/ Stop \/ CollectPadsRemovePad
  BY <1>3, <1>21 DEF Start, Stop, CollectPadsRemovePad, TypedState
<1>22. CASE Reset
  BY <1>3, <1>22, BlendPadsAssumption DEF Reset, TypedState
<1>23. CASE DeactivatePad
  <2>1. \A i \in 1 .. Len(sinkpads) : sinkpads[i] \in Pads /\ sinkpads[i] # removed
    BY DEF Apart, Listed, ToSet, TypedState, TypedPads
  <2>2. TypedPads' /\ UNCHANGED <<sinkpads, numpads>>
    <3>1. UNCHANGED <<sinkpads, numpads>> /\ type' = [type EXCEPT ![removed] = 0]
      BY <1>23 DEF DeactivatePad
    <3>2. 0 \in 0 .. 1
      OBVIOUS
    <3> QED BY <3>1, <3>2 DEF TypedState, TypedPads
  <2>3. \A i \in 1 .. Len(sinkpads) : type'[sinkpads[i]] = type[sinkpads[i]]
    BY <1>23, <2>1 DEF DeactivatePad, TypedState, TypedPads
  <2>4. Ordered'
    BY <2>2, <2>3 DEF Ordered, BackgroundFirst
  <2>5. pos' \in [Pads -> Positions] /\ info' \in [Pads -> Caps \cup {NoCaps}]
    BY <1>23, BlendPadsAssumption DEF DeactivatePad, TypedState
  <2> QED BY <1>23, <2>2, <2>4, <2>5 DEF DeactivatePad, TypedState
<1>24. CASE UNCHANGED vars
  BY <1>3, <1>24 DEF vars, TypedState
<1> QED BY Steps, <1>4, <1>5, <1>6, <1>7, <1>8, <1>9, <1>10, <1>11, <1>12, <1>13,
           <1>15, <1>16, <1>17, <1>18, <1>19, <1>20, <1>21, <1>22, <1>23, <1>24

-----------------------------------------------------------------------------
(* A pad's thread is in the element only for a pad that is listed or being *)
(* released, and has caps only then.                                       *)

Acts(p) == Upstream(p) \/ Streaming(p)

Owned ==
    \A p \in Pads : p \notin Listed /\ p # removed =>
        pc[p] = "idle" /\ info[p] = NoCaps

LEMMA ActFrame ==
    ASSUME PCs, NEW p \in Pads, Acts(p)
    PROVE  /\ UNCHANGED <<sinkpads, numpads, type, pos, playing, removed>>
           /\ \A t \in Threads \ {p} : pc'[t] = pc[t]
           /\ pc'[App] = pc[App]
<1> USE DEF padVars, appVars
<1>1. UNCHANGED <<sinkpads, numpads, type, pos, playing, removed>>
  <2>1. CASE Upstream(p)
    BY <2>1, ArriveMoves DEF Upstream, SetCaps, Chain, Eos
  <2>2. CASE Negotiate(p)
    BY <2>2, UpdateMoves, GbmMoves
       DEF Negotiate, StoreInfo, TakeStream, UpdateInSetCaps, GbmInSetCaps
  <2>3. CASE UpdateInTurn(p) \/ GbmInTurn(p)
    BY <2>3, UpdateMoves, GbmMoves DEF UpdateInTurn, GbmInTurn
  <2>4. CASE BeginTurn(p) \/ PushCaps(p) \/ ClearSendCaps(p) \/ LockToBlend(p)
             \/ PushSegment(p)
    BY <2>4 DEF BeginTurn, PushCaps, ClearSendCaps, LockToBlend, PushSegment
  <2>5. CASE EndStream(p) \/ NeedMoreData(p) \/ Blend(p) \/ PushBuffer(p)
    BY <2>5 DEF EndStream, NeedMoreData, Blend, PushBuffer
  <2> QED BY <2>1, <2>2, <2>3, <2>4, <2>5 DEF Acts, Streaming, Collected
<1>2. \E S \in SUBSET PadPCs : Moved(p, S)
  BY PadPcStep
     DEF Acts, Upstream, Streaming, Negotiate, Collected, PadPCs, SetCapsPCs, TurnPCs
<1> QED BY <1>1, <1>2, PadMoves, Distinct DEF Threads

LEMMA ActStates ==
    ASSUME PCs, NEW p \in Pads, Acts(p)
    PROVE  p \in Listed \/ pc[p] # "idle"
<1>1. Upstream(p) => p \in Listed
  BY DEF Upstream, SetCaps, Chain, Eos
<1>2. Negotiate(p) => pc[p] # "idle"
  BY DEF Negotiate, StoreInfo, TakeStream, UpdateInSetCaps, GbmInSetCaps
<1>3. Collected(p) => pc[p] # "idle"
  BY DEF Collected, BeginTurn, UpdateInTurn, GbmInTurn, PushCaps, ClearSendCaps,
         LockToBlend, PushSegment, EndStream, NeedMoreData, Blend, PushBuffer
<1> QED BY <1>1, <1>2, <1>3 DEF Acts, Streaming

(* Only StoreInfo changes the caps of a pad, its own.                      *)
Stores(p) ==
    /\ pc[p] = "setcaps" /\ pc' = [pc EXCEPT ![p] = "stream"]
    /\ info' = [info EXCEPT ![p] = caps[p]]

LEMMA ActInfo ==
    ASSUME NEW p \in Pads, Acts(p)
    PROVE  info' = info \/ (StoreInfo(p) /\ Stores(p))
<1> USE DEF locks, padVars, capsVars, collectVars, appVars
<1>1. ASSUME Upstream(p) PROVE info' = info
  BY <1>1, ArriveMoves DEF Upstream, SetCaps, Chain, Eos
<1>2. ASSUME StoreInfo(p) PROVE info' = info \/ Stores(p)
  BY <1>2 DEF StoreInfo, Refuse, Goto, Stores
<1>3. ASSUME TakeStream(p) \/ UpdateInSetCaps(p) \/ GbmInSetCaps(p) PROVE info' = info
  BY <1>3, UpdateMoves, GbmMoves DEF TakeStream, UpdateInSetCaps, GbmInSetCaps
<1>4. ASSUME UpdateInTurn(p) \/ GbmInTurn(p) PROVE info' = info
  BY <1>4, UpdateMoves, GbmMoves DEF UpdateInTurn, GbmInTurn
<1>5. ASSUME BeginTurn(p) \/ PushCaps(p) \/ ClearSendCaps(p) \/ LockToBlend(p)
             \/ PushSegment(p)
      PROVE  info' = info
  BY <1>5 DEF BeginTurn, PushCaps, ClearSendCaps, LockToBlend, PushSegment
<1>6. ASSUME EndStream(p) \/ NeedMoreData(p) \/ Blend(p) \/ PushBuffer(p)
      PROVE  info' = info
  BY <1>6 DEF EndStream, NeedMoreData, Blend, PushBuffer
<1> QED BY <1>1, <1>2, <1>3, <1>4, <1>5, <1>6 DEF Acts, Streaming, Negotiate, Collected

(* Every step is one of a pad's thread or one of the application's.        *)
LEMMA ActOrApp ==
    ASSUME [Next]_vars
    PROVE  \/ \E p \in Pads : Acts(p)
           \/ \E p \in Pads : RequestNewPad(p) \/ ReleasePad(p) \/ SetPosition(p)
           \/ Start \/ Stop \/ Reset
           \/ CollectPadsRemovePad \/ UpdateInRelease \/ DeactivatePad
           \/ UNCHANGED vars
BY DEF Next, Acts, Application, Releasing

LEMMA OwnedStep == ITyped /\ Owned /\ [Next]_vars => Apart' /\ Owned'
<1> SUFFICES ASSUME ITyped, Owned, [Next]_vars PROVE Apart' /\ Owned'
  OBVIOUS
<1>1. PCs /\ Apart /\ TypedPads /\ Ordered /\ removed \in Pads \cup {NoPad}
      /\ info \in [Pads -> Caps \cup {NoCaps}]
      /\ App \notin Pads /\ NoPad \notin Pads /\ Listed \subseteq Pads
  BY Distinct, ListedAreTyped DEF ITyped, TypedState
<1>2. ASSUME NEW p \in Pads, Acts(p) PROVE Apart' /\ Owned'
  <2>1. Apart' /\ Listed' = Listed /\ removed' = removed
    BY <1>1, <1>2, ActFrame DEF Apart, Listed
  <2>2. ASSUME NEW q \in Pads, q # p PROVE pc'[q] = pc[q] /\ info'[q] = info[q]
    BY <1>1, <1>2, <2>2, ActFrame, ActInfo DEF Threads, Stores
  <2>3. p \in Listed \/ p = removed
    BY <1>1, <1>2, ActStates DEF Owned
  <2> QED BY <2>1, <2>2, <2>3 DEF Owned
<1>3. ASSUME NEW p \in Pads, RequestNewPad(p) PROVE Apart' /\ Owned'
  <2>1. Listed' = Listed \cup {p}
    BY <1>1, <1>3, RequestLists
  <2>2. pc[App] = "idle" /\ UNCHANGED <<pc, info, removed>>
    BY <1>3 DEF RequestNewPad
  <2> QED BY <1>1, <2>1, <2>2 DEF Apart, Owned
<1>4. ASSUME NEW p \in Pads, ReleasePad(p) PROVE Apart' /\ Owned'
  <2>1. Listed' = Listed \ {p} /\ p \in Listed
    BY <1>1, <1>4, ReleaseLists
  <2>2. pc[App] = "idle" /\ info' = info /\ removed' = p
    BY <1>4 DEF ReleasePad
  <2>3. /\ pc'[App] \in {"uncollect", "uncollect and update"}
        /\ \A q \in Pads : pc'[q] = pc[q]
    BY <1>1, <1>4, AppPcStep, AppMoves DEF AppPCs
  <2> QED BY <1>1, <2>1, <2>2, <2>3 DEF Apart, Owned
<1>5. CASE \/ \E p \in Pads : SetPosition(p)
           \/ Start \/ Stop \/ CollectPadsRemovePad \/ UpdateInRelease
  <2>1. UNCHANGED <<sinkpads, removed, info>>
    BY <1>5, UpdateMoves DEF SetPosition, Start, Stop, CollectPadsRemovePad,
       UpdateInRelease, padVars, appVars
  <2>2. \A q \in Pads : pc'[q] = pc[q]
    BY <1>1, <1>5, AppPcStep, AppMoves DEF AppPCs
  <2>3. pc'[App] \in {"idle", "stopping"} <=> pc[App] \in {"idle", "stopping"}
    <3>1. CASE Stop
      BY <1>1, <3>1, AppPcStep, AppMoves DEF AppPCs, Stop
    <3>2. CASE CollectPadsRemovePad
      <4>1. pc[App] \in {"uncollect", "uncollect and update"}
        BY <3>2 DEF CollectPadsRemovePad, Leaving
      <4>2. pc'[App] \in {"deactivate", "reupdate"}
        BY <1>1, <3>2, AppPcStep, AppMoves DEF AppPCs
      <4> QED BY <4>1, <4>2
    <3>3. CASE UpdateInRelease
      <4>1. pc[App] = "reupdate"
        BY <3>3 DEF UpdateInRelease
      <4>2. pc'[App] \in {"deactivate"}
        BY <1>1, <3>3, AppPcStep, AppMoves DEF AppPCs
      <4> QED BY <4>1, <4>2
    <3> QED BY <1>1, <1>5, <3>1, <3>2, <3>3, AppPcStep
  <2> QED BY <1>1, <2>1, <2>2, <2>3 DEF Apart, Owned, Listed
<1>6. CASE Reset
  <2>1. /\ UNCHANGED <<sinkpads, removed>> /\ pc[App] = "stopping"
        /\ pc' = [t \in Threads |-> "idle"]
        /\ info' = [p \in Pads |-> IF p \in Listed THEN NoCaps ELSE info[p]]
    BY <1>6 DEF Reset, padVars, appVars
  <2> QED BY <1>1, <2>1 DEF Apart, Owned, Listed, Threads
<1>7. CASE DeactivatePad
  <2>1. /\ sinkpads' = sinkpads /\ pc[App] = "deactivate" /\ removed' = NoPad
        /\ pc' = [pc EXCEPT ![App] = "idle", ![removed] = "idle"]
        /\ info' = [info EXCEPT ![removed] = NoCaps]
    BY <1>7 DEF DeactivatePad
  <2>2. removed \in Pads
    BY <1>1, <2>1 DEF Apart
  <2>3. /\ pc'[App] = "idle" /\ pc'[removed] = "idle" /\ info'[removed] = NoCaps
        /\ \A q \in Pads \ {removed} : pc'[q] = pc[q] /\ info'[q] = info[q]
    BY <1>1, <2>1, <2>2 DEF PCs, Threads
  <2>4. Listed' = Listed
    BY <2>1 DEF Listed
  <2>5. Apart'
    BY <1>1, <2>1, <2>3, <2>4 DEF Apart
  <2>6. ASSUME NEW q \in Pads, q \notin Listed
        PROVE  pc'[q] = "idle" /\ info'[q] = NoCaps
    <3>1. CASE q = removed
      BY <2>3, <3>1
    <3>2. CASE q # removed
      BY <2>3, <2>6, <3>2 DEF Owned
    <3> QED BY <3>1, <3>2
  <2> QED BY <2>4, <2>5, <2>6 DEF Owned
<1>8. CASE UNCHANGED vars
  BY <1>1, <1>8 DEF vars, padVars, appVars, Apart, Owned, Listed
<1> QED BY ActOrApp, <1>2, <1>3, <1>4, <1>5, <1>6, <1>7, <1>8

LEMMA InitTyped == Init => ITyped /\ Owned
<1> SUFFICES ASSUME Init PROVE ITyped /\ Owned
  OBVIOUS
<1>1. Len(sinkpads) = 0 /\ DOMAIN sinkpads = {} /\ sinkpads \in Seq(Pads)
  BY DEF Init
<1>2. Listed = {}
  BY <1>1 DEF Listed, ToSet
<1>3. TypedPads
  BY <1>1 DEF Init, TypedPads
<1>4. 1 .. 0 = {}
  OBVIOUS
<1>5. Ordered
  BY <1>1, <1>4 DEF Init, Ordered, BackgroundFirst, IsInjective
<1>6. PCs
  BY Distinct DEF Init, PCs, Threads, AppPCs, PadPCs
<1>7. pos \in [Pads -> Positions] /\ keeps \in 0 .. MaxKeeps
  BY BlendPadsAssumption DEF Init
<1>8. TypedState
  BY <1>3, <1>7 DEF Init, TypedState
<1>9. Apart
  BY <1>2 DEF Init, Apart, Threads
<1>10. Owned
  BY DEF Init, Owned, Threads
<1> QED BY <1>5, <1>6, <1>8, <1>9, <1>10 DEF ITyped

LEMMA TypedImplies == ITyped => TypeOK /\ BackgroundFirst
<1> SUFFICES ASSUME ITyped PROVE TypeOK /\ BackgroundFirst
  OBVIOUS
<1>1. pc \in [Threads -> {"idle", "queued", "paused", "stopping", "uncollect",
                           "uncollect and update", "deactivate"}
                          \cup SetCapsPCs \cup TurnPCs]
  BY DEF ITyped, PCs, AppPCs, PadPCs, TurnPCs
<1> QED BY <1>1 DEF ITyped, TypedState, TypedPads, Ordered, TypeOK

LEMMA TypedInvariant == Spec => [](ITyped /\ Owned)
<1>1. ITyped /\ Owned /\ [Next]_vars => (ITyped /\ Owned)'
  <2> SUFFICES ASSUME ITyped, Owned, [Next]_vars PROVE ITyped' /\ Owned'
    OBVIOUS
  <2>1. TypedState' /\ Ordered'
    BY TypedStep
  <2>2. PCs'
    BY PcStep DEF ITyped
  <2> QED BY <2>1, <2>2, OwnedStep DEF ITyped
<1> QED BY <1>1, InitTyped, PTL DEF Spec

(* The state of BlendPads is well typed for any pads and caps: there are   *)
(* never more than two pads, and the next has the type of its number.      *)
THEOREM TypeCorrect == Spec => []TypeOK
BY TypedInvariant, TypedImplies, PTL

(* gst_videoblend_request_new_pad and release_pad keep the list in order:  *)
(* the background is at its head, or no pad of it is a background.         *)
THEOREM BackgroundIsFirst == Spec => []BackgroundFirst
BY TypedInvariant, TypedImplies, PTL

-----------------------------------------------------------------------------
(* Locks.                                                                  *)

(* The program counters of a thread with the stream lock, and those of a   *)
(* thread with blend->lock that no error has made it keep.                 *)
HasStream == {"update", "gbm"} \cup TurnPCs
HasLock == {"stream", "blend"}

ILocks ==
    /\ {stream, lock} \subseteq Pads \cup {Nobody}
    /\ \A p \in Pads : pc[p] \in HasStream <=> stream = p
    /\ \A p \in Pads : pc[p] \in HasLock => lock = p
    /\ \A p \in Pads : pc[p] = "segment" => lock # p

(* What a thread does to the stream lock ...                               *)
StreamMoves(p) ==
    \/ stream' = stream /\ (pc'[p] \in HasStream <=> pc[p] \in HasStream)
    \/ stream = Nobody /\ stream' = p /\ pc'[p] \in HasStream
    \/ pc[p] \in HasStream /\ stream' = Nobody /\ pc'[p] \notin HasStream

(* ... and to blend->lock.                                                 *)
LockMoves(p) ==
    \/ /\ lock' = lock /\ pc[p] \notin HasLock /\ pc'[p] \notin HasLock
       /\ pc'[p] = "segment" => lock = Nobody
    \/ lock = Nobody /\ lock' = p /\ pc'[p] # "segment"
    \/ pc[p] \in HasLock /\ lock' = Nobody /\ pc'[p] \notin HasLock

LEMMA ActLocks ==
    ASSUME PCs, ILocks, NEW p \in Pads, Acts(p)
    PROVE  StreamMoves(p) /\ LockMoves(p)
<1> DEFINE G == StreamMoves(p) /\ LockMoves(p)
<1> USE DEF locks
<1>1. ASSUME NEW S \in SUBSET PadPCs, Moved(p, S) PROVE pc'[p] \in S
  BY <1>1, PadMoves
<1> USE DEF SetCapsPCs, TurnPCs, PadPCs, HasStream, HasLock
<1>2. CASE SetCaps(p)
  <2>1. pc'[p] = "setcaps" /\ pc[p] \in {"idle", "queued"} /\ UNCHANGED <<stream, lock>>
    BY <1>1, <1>2, PadPcStep DEF SetCaps, Ready
  <2> QED BY <2>1 DEF StreamMoves, LockMoves
<1>3. CASE Chain(p) \/ Eos(p)
  <2>1. PICK d, e : Arrive(p, d, e)
    BY <1>3 DEF Chain, Eos
  <2>2. pc[p] \in {"idle", "queued", "paused"}
    BY <1>3 DEF Chain, Eos, Ready
  <2>3. \/ stream' = p /\ pc'[p] = "collected"
        \/ stream' = Nobody /\ pc'[p] \in {"queued", "paused"}
    BY <1>1, <2>1, ArriveMoves
  <2>4. stream = Nobody /\ lock' = lock
    BY <2>1, ArriveMoves
  <2> QED BY <2>2, <2>3, <2>4 DEF StreamMoves, LockMoves
<1>4. CASE StoreInfo(p)
  <2>1. /\ pc[p] = "setcaps" /\ lock = Nobody /\ stream' = stream
        /\ \/ pc'[p] = "paused" /\ lock' = lock
           \/ pc'[p] = "stream" /\ lock' = p
    BY <1>4 DEF StoreInfo, Refuse, Goto, PCs, Threads
  <2> QED BY <2>1 DEF StreamMoves, LockMoves
<1>5. CASE TakeStream(p)
  <2>1. pc[p] = "stream" /\ stream = Nobody /\ stream' = p /\ lock' = Nobody
        /\ pc'[p] = "update"
    BY <1>5 DEF TakeStream, Goto, PCs, Threads
  <2> QED BY <2>1 DEF StreamMoves, LockMoves
<1>6. CASE UpdateInSetCaps(p)
  <2>1. pc[p] = "update" /\ stream' = IF pc'[p] = "gbm" THEN p ELSE Nobody
    BY <1>6 DEF UpdateInSetCaps
  <2>2. pc'[p] \in {"gbm", "paused"}
    BY <1>1, <1>6, PadPcStep
  <2>3. lock' = lock
    BY <1>6, UpdateMoves DEF UpdateInSetCaps
  <2>4. stream = p
    BY <2>1 DEF ILocks
  <2> QED BY <2>1, <2>2, <2>3, <2>4 DEF StreamMoves, LockMoves
<1>7. CASE GbmInSetCaps(p)
  <2>1. pc[p] = "gbm" /\ stream' = Nobody
    BY <1>7 DEF GbmInSetCaps
  <2>2. pc'[p] \in {"idle", "paused"}
    BY <1>1, <1>7, PadPcStep
  <2>3. lock = Nobody /\ lock' \in {p, Nobody}
    BY <1>7 DEF GbmInSetCaps, InitGbmBuffers
  <2> QED BY <2>1, <2>2, <2>3 DEF StreamMoves, LockMoves
<1>8. ASSUME NEW ok, NEW d, EndTurn(p, ok, d), pc[p] \in TurnPCs
      PROVE  StreamMoves(p) /\ pc'[p] \notin HasLock \cup {"segment"}
  <2>1. \/ stream' = stream /\ pc'[p] = "collected"
        \/ stream' = Nobody /\ pc'[p] \in {"queued", "paused"}
    BY <1>1, <1>8, EndTurnMoves
  <2> QED BY <1>8, <2>1 DEF StreamMoves
<1>9. CASE BeginTurn(p)
  <2>1. pc[p] = "collected" /\ lock' = lock
    BY <1>9 DEF BeginTurn
  <2>2. \/ \E ok, d : EndTurn(p, ok, d)
        \/ stream' = stream /\ pc'[p] \in {"sendcaps", "reupdate"}
    BY <1>9 DEF BeginTurn, Goto, PCs, Threads
  <2> QED BY <1>8, <2>1, <2>2 DEF StreamMoves, LockMoves
<1>10. CASE UpdateInTurn(p)
  <2>1. pc[p] = "reupdate" /\ stream' = stream
    BY <1>10 DEF UpdateInTurn
  <2>2. pc'[p] \in {"regbm", "sendcaps"}
    BY <1>1, <1>10, PadPcStep
  <2>3. lock' = lock
    BY <1>10, UpdateMoves DEF UpdateInTurn
  <2> QED BY <2>1, <2>2, <2>3 DEF StreamMoves, LockMoves
<1>11. CASE GbmInTurn(p)
  <2>1. pc[p] = "regbm" /\ stream' = stream
    BY <1>11 DEF GbmInTurn
  <2>2. pc'[p] \in {"sendcaps"}
    BY <1>1, <1>11, PadPcStep
  <2>3. lock = Nobody /\ lock' \in {p, Nobody}
    BY <1>11 DEF GbmInTurn, InitGbmBuffers
  <2> QED BY <2>1, <2>2, <2>3 DEF StreamMoves, LockMoves
<1>12. CASE PushCaps(p) \/ ClearSendCaps(p)
  <2>1. pc[p] \in {"sendcaps", "capssent"} /\ UNCHANGED <<stream, lock>>
    BY <1>12 DEF PushCaps, ClearSendCaps
  <2>2. pc'[p] \in {"capssent", "lock"}
    BY <1>1, <1>12, PadPcStep
  <2> QED BY <2>1, <2>2 DEF StreamMoves, LockMoves
<1>13. CASE LockToBlend(p)
  <2>1. /\ pc[p] = "lock" /\ lock = Nobody /\ stream' = stream
        /\ \/ pc'[p] = "segment" /\ lock' = lock
           \/ pc'[p] = "blend" /\ lock' = p
    BY <1>13 DEF LockToBlend, SegmentFirst, Goto, PCs, Threads
  <2> QED BY <2>1 DEF StreamMoves, LockMoves
<1>14. CASE PushSegment(p)
  <2>1. pc[p] = "segment"
    BY <1>14 DEF PushSegment
  <2>2. CASE lock = Nobody /\ lock' = p /\ Goto(p, "blend") /\ stream' = stream
    <3>1. pc'[p] = "blend"
      BY <2>2 DEF Goto, PCs, Threads
    <3> QED BY <2>1, <2>2, <3>1 DEF StreamMoves, LockMoves
  <2>3. CASE EndTurn(p, FALSE, data) /\ lock' = lock
    BY <1>8, <2>1, <2>3 DEF LockMoves
  <2> QED BY <1>14, <2>2, <2>3 DEF PushSegment
<1>15. CASE EndStream(p) \/ NeedMoreData(p)
  <2>1. pc[p] = "blend" /\ lock' = Nobody /\ \E ok, d : EndTurn(p, ok, d)
    BY <1>15 DEF EndStream, NeedMoreData
  <2> QED BY <1>8, <2>1 DEF LockMoves
<1>16. CASE Blend(p)
  <2>1. pc[p] = "blend" /\ lock' = Nobody /\ stream' = stream /\ pc'[p] = "push"
    BY <1>16 DEF Blend, Goto, PCs, Threads
  <2> QED BY <2>1 DEF StreamMoves, LockMoves
<1>17. CASE PushBuffer(p)
  <2>1. pc[p] = "push" /\ lock' = lock /\ \E ok, d : EndTurn(p, ok, d)
    BY <1>17 DEF PushBuffer
  <2> QED BY <1>8, <2>1 DEF LockMoves
<1> QED BY <1>2, <1>3, <1>4, <1>5, <1>6, <1>7, <1>9, <1>10, <1>11, <1>12, <1>13,
           <1>14, <1>15, <1>16, <1>17
        DEF Acts, Upstream, Streaming, Negotiate, Collected

(* The application's thread leaves both locks alone, and moves a pad's     *)
(* thread only when it is outside.                                         *)
LEMMA AppLocks ==
    ASSUME ITyped, Owned, [Next]_vars, \A p \in Pads : ~Acts(p)
    PROVE  /\ UNCHANGED <<stream, lock>>
           /\ \A p \in Pads :
                \/ pc'[p] = pc[p]
                \/ pc[p] \in {"idle", "queued", "paused"} /\ pc'[p] = "idle"
<1> USE DEF locks
<1>1. PCs /\ App \notin Pads /\ Apart
  BY Distinct DEF ITyped
<1>2. CASE \/ \E p \in Pads : RequestNewPad(p) \/ ReleasePad(p) \/ SetPosition(p)
           \/ Start \/ Stop \/ CollectPadsRemovePad \/ UpdateInRelease
  <2>1. UNCHANGED <<stream, lock>>
    BY <1>2, UpdateMoves DEF RequestNewPad, ReleasePad, SetPosition, Start, Stop,
       CollectPadsRemovePad, UpdateInRelease
  <2>2. \A q \in Pads : pc'[q] = pc[q]
    BY <1>1, <1>2, AppPcStep, AppMoves DEF AppPCs
  <2> QED BY <2>1, <2>2
<1>3. CASE Reset
  <2>1. removed = NoPad
    BY <1>1, <1>3 DEF Apart, Reset
  <2>2. \A p \in Pads : pc[p] \in {"idle", "queued", "paused"}
    BY <1>3, <2>1, Distinct DEF Reset, Owned, Ready
  <2> QED BY <1>3, <2>2 DEF Reset, Threads
<1>4. CASE DeactivatePad
  <2>1. removed \in Pads
    BY <1>1, <1>4 DEF Apart, DeactivatePad, ITyped, TypedState
  <2>2. pc[removed] \in {"idle", "queued", "paused"}
    BY <1>4 DEF DeactivatePad, Ready
  <2> QED BY <1>1, <1>4, <2>1, <2>2 DEF DeactivatePad, PCs, Threads
<1>5. CASE UNCHANGED vars
  BY <1>5 DEF vars
<1> QED BY ActOrApp, <1>2, <1>3, <1>4, <1>5

LEMMA LocksStep ==
    ASSUME ITyped, Owned, ILocks, [Next]_vars
    PROVE  ILocks'
<1>1. PCs
  BY DEF ITyped
<1>2. ASSUME NEW p \in Pads, Acts(p) PROVE ILocks'
  <2>1. StreamMoves(p) /\ LockMoves(p)
    BY <1>1, <1>2, ActLocks
  <2>2. \A q \in Pads : q # p => pc'[q] = pc[q]
    BY <1>1, <1>2, ActFrame DEF Threads
  <2>3. {stream, lock}' \subseteq Pads \cup {Nobody}
    BY <2>1 DEF ILocks, StreamMoves, LockMoves
  <2>4. ASSUME NEW q \in Pads PROVE pc'[q] \in HasStream <=> stream' = q
    BY <2>1, <2>2, Distinct DEF ILocks, StreamMoves
  <2>5. ASSUME NEW q \in Pads, pc'[q] \in HasLock PROVE lock' = q
    BY <2>1, <2>2, <2>5, Distinct DEF ILocks, LockMoves, HasLock
  <2>6. ASSUME NEW q \in Pads, pc'[q] = "segment" PROVE lock' # q
    BY <2>1, <2>2, <2>6, Distinct DEF ILocks, LockMoves
  <2> QED BY <2>3, <2>4, <2>5, <2>6 DEF ILocks
<1>3. CASE \A p \in Pads : ~Acts(p)
  BY <1>3, AppLocks DEF ILocks, HasStream, HasLock, TurnPCs
<1> QED BY <1>2, <1>3

LEMMA InitLocks == Init => ILocks
BY Distinct DEF Init, ILocks, Threads, HasStream, HasLock, TurnPCs, locks

LEMMA LocksInvariant == Spec => [](ITyped /\ Owned /\ ILocks)
<1>1. ITyped /\ ITyped' /\ Owned /\ Owned' /\ ILocks /\ [Next]_vars => ILocks'
  BY LocksStep
<1> QED BY <1>1, InitLocks, TypedInvariant, PTL DEF Spec

LEMMA OneCircle ==
    ASSUME ITyped, ILocks
    PROVE  NoOtherDeadlock
<1> SUFFICES ASSUME ~Deadlocked, ~LockKept, NEW t \in Threads, Holder(t) # Nobody
             PROVE  \/ Holder(Holder(t)) = Nobody
                    \/ Holder(t) # t /\ Holder(Holder(Holder(t))) = Nobody
  BY DEF NoOtherDeadlock
<1> USE DEF HasStream, HasLock, TurnPCs
<1>1. setcaps_lock = Nobody
  BY DEF LockKept
<1>2. lock # Nobody => lock \in Pads /\ pc[lock] \in {"stream", "blend"}
  BY DEF LockKept, ILocks
<1>3. stream # Nobody => stream \in Pads /\ pc[stream] \in HasStream
  BY DEF ILocks
(* The thread with the stream lock goes on if none waits for it.           *)
<1>4. ASSUME NEW p \in Pads, pc[p] = "stream", stream # Nobody
      PROVE  Holder(stream) = Nobody
  <2>1. pc[stream] \notin {"gbm", "regbm", "lock", "segment"}
    BY <1>3, <1>4 DEF Deadlocked
  <2> QED BY <1>1, <1>3, <1>4, <2>1 DEF Holder
<1>5. CASE pc[t] \in {"setcaps", "gbm", "regbm", "lock", "segment"}
  <2>1. Holder(t) = lock /\ lock # Nobody
    BY <1>5 DEF Holder
  <2>2. CASE pc[lock] = "blend"
    BY <2>1, <2>2 DEF Holder
  <2>3. CASE pc[lock] = "stream"
    <3>1. Holder(lock) = stream /\ lock # t /\ lock \in Pads
      BY <1>2, <1>5, <2>1, <2>3 DEF Holder
    <3>2. stream # Nobody => Holder(stream) = Nobody
      BY <1>4, <2>3, <3>1
    <3> QED BY <2>1, <3>1, <3>2
  <2> QED BY <1>2, <2>1, <2>2, <2>3
<1>6. CASE pc[t] = "stream"
  <2>1. Holder(t) = stream /\ stream # Nobody
    BY <1>6 DEF Holder
  <2>2. t \in Pads
    BY <1>6 DEF ITyped, PCs, AppPCs, Threads
  <2> QED BY <1>4, <1>6, <2>1, <2>2
<1> QED BY <1>1, <1>5, <1>6 DEF Holder

(* The locks of the element: whoever waits, waits for a thread that goes   *)
(* on, unless the streams of two pads are in Deadlocked or an error has    *)
(* kept a lock.                                                            *)
THEOREM OnlyTwoStreamsDeadlock == Spec => []NoOtherDeadlock
BY LocksInvariant, OneCircle, PTL

(* A thread that leaves with blend->lock had caps without a conversion.    *)
LEMMA KeepsForFormat ==
    ASSUME ITyped, NEW p \in Pads, Acts(p), lock = Nobody, lock' = p, Outside(p)'
    PROVE  \E q \in Pads : info[q] \in Caps \ Supported
<1>1. PCs /\ Nobody \notin Pads /\ Listed \subseteq Pads
      /\ info \in [Pads -> Caps \cup {NoCaps}]
  BY Distinct, ListedAreTyped DEF ITyped, TypedState
<1> USE DEF locks
<1>2. CASE GbmInSetCaps(p)
  <2>1. \E q \in Listed : Known(q) /\ info[q] \notin Supported
    BY <1>1, <1>2, GbmMoves DEF GbmInSetCaps
  <2> QED BY <1>1, <2>1 DEF Known
<1>3. CASE GbmInTurn(p)
  <2>1. pc'[p] \in {"sendcaps"}
    BY <1>1, <1>3, PadPcStep, PadMoves DEF PadPCs, TurnPCs
  <2> QED BY <2>1 DEF Outside
<1>4. CASE StoreInfo(p)
  <2>1. pc'[p] = "stream"
    BY <1>1, <1>4 DEF StoreInfo, Refuse, Goto, PCs, Threads
  <2> QED BY <2>1 DEF Outside
<1>5. CASE LockToBlend(p) \/ PushSegment(p)
  <2>1. Goto(p, "blend")
    BY <1>1, <1>5 DEF LockToBlend, SegmentFirst, PushSegment
  <2>2. pc'[p] = "blend"
    BY <1>1, <2>1 DEF Goto, PCs, Threads
  <2> QED BY <2>2 DEF Outside
<1>6. CASE Upstream(p)
  BY <1>1, <1>6, ArriveMoves DEF Upstream, SetCaps, Chain, Eos
<1>7. CASE TakeStream(p) \/ UpdateInSetCaps(p) \/ UpdateInTurn(p)
  BY <1>1, <1>7, UpdateMoves DEF TakeStream, UpdateInSetCaps, UpdateInTurn
<1>8. CASE BeginTurn(p) \/ PushCaps(p) \/ ClearSendCaps(p)
           \/ EndStream(p) \/ NeedMoreData(p) \/ Blend(p) \/ PushBuffer(p)
  BY <1>1, <1>8 DEF BeginTurn, PushCaps, ClearSendCaps, EndStream,
                    NeedMoreData, Blend, PushBuffer
<1> QED BY <1>2, <1>3, <1>4, <1>5, <1>6, <1>7, <1>8
        DEF Acts, Streaming, Negotiate, Collected

(* setcaps_lock is kept for a misplaced background only.                   *)
LEMMA KeepsForPlace ==
    ASSUME [Next]_vars, setcaps_lock' # setcaps_lock
    PROVE  Misplaced
<1> USE DEF locks
<1>1. ASSUME NEW p, Upstream(p) \/ Negotiate(p) PROVE Misplaced
  BY <1>1 DEF Upstream, SetCaps, Chain, Eos, Arrive, Negotiate, StoreInfo, TakeStream,
     UpdateInSetCaps, GbmInSetCaps, UpdateSrcCaps, InitGbmBuffers
<1>2. ASSUME NEW p, Collected(p) PROVE Misplaced
  BY <1>2 DEF Collected, BeginTurn, UpdateInTurn, GbmInTurn, PushCaps, ClearSendCaps,
     LockToBlend, PushSegment, EndStream, NeedMoreData, Blend, PushBuffer,
     UpdateSrcCaps, InitGbmBuffers
<1>3. CASE Application \/ Releasing \/ Reset
  BY <1>3 DEF Application, RequestNewPad, ReleasePad, SetPosition, Start, Stop,
     Releasing, CollectPadsRemovePad, UpdateInRelease, DeactivatePad, Reset, UpdateSrcCaps
<1> QED BY <1>1, <1>2, <1>3 DEF Next, Streaming, vars

LEMMA LeavesWithoutLocks ==
    ASSUME ITyped, Owned, ILocks, ILocks', [Next]_vars, NEW t \in Pads,
           ~LockKept, ~Outside(t), Outside(t)'
    PROVE  /\ stream' # t
           /\ setcaps_lock' = t => Misplaced
           /\ lock' = t => \E p \in Pads : info[p] \in Caps \ Supported
<1>1. stream' # t
  BY DEF ILocks, Outside, HasStream, TurnPCs
<1>2. lock = t => pc[t] \in HasLock
  BY Distinct DEF LockKept, ILocks, HasLock
<1>3. PCs
  BY DEF ITyped
<1>4. ASSUME lock' = t PROVE \E p \in Pads : info[p] \in Caps \ Supported
  <2>1. CASE Acts(t)
    <3>1. lock = Nobody
      BY <1>2, <1>3, <1>4, <2>1, ActLocks, Distinct DEF LockMoves
    <3> QED BY <1>4, <2>1, <3>1, KeepsForFormat
  <2>2. CASE \E p \in Pads : Acts(p) /\ p # t
    BY <1>3, <2>2, ActFrame DEF Outside, Threads
  <2>3. CASE \A p \in Pads : ~Acts(p)
    BY <2>3, AppLocks DEF Outside
  <2> QED BY <2>1, <2>2, <2>3
<1>5. setcaps_lock' = t => Misplaced
  BY KeepsForPlace, Distinct DEF LockKept
<1> QED BY <1>1, <1>4, <1>5

(* gst_videoblend_pad_sink_setcaps, collected and their error paths return *)
(* without the stream lock, without setcaps_lock unless the background is  *)
(* off the origin, and without blend->lock unless the caps of a pad have   *)
(* no conversion.                                                          *)
THEOREM ReturnsWithoutLocks == Spec => LocksReleased
<1>1. ITyped /\ Owned /\ ILocks /\ ILocks' /\ [Next]_vars =>
        [\A t \in Pads : ~LockKept /\ ~Outside(t) /\ Outside(t)' =>
            /\ stream' # t
            /\ setcaps_lock' = t => Misplaced
            /\ lock' = t => \E p \in Pads : info[p] \in Caps \ Supported]_vars
  BY LeavesWithoutLocks
<1> QED BY <1>1, LocksInvariant, PTL DEF Spec, LocksReleased

-----------------------------------------------------------------------------
(* Buffers and EOS that are noted, and the state of the element.           *)

ICollect ==
    /\ \A p \in data \cup eos : pc[p] \notin {"idle"} \cup SetCapsPCs
    /\ ~playing => data = {}
    /\ pc[App] \in {"reupdate", "deactivate"} => removed \notin data \cup eos
    /\ pc[App] = "stopping" => ~playing

(* A buffer or EOS arrives, and the thread enters a turn if it was the     *)
(* last that was missing ...                                               *)
Arrives(p) ==
    \E d, e \in SUBSET Pads :
        /\ playing /\ p \in Listed /\ p \notin eos /\ stream = Nobody
        /\ \/ Ready(p) /\ d = data \cup {p} /\ e = eos
           \/ (Ready(p) \/ pc[p] = "paused") /\ d = data /\ e = eos \cup {p}
        /\ data' = d /\ eos' = e
        /\ \/ pc'[p] = "collected" /\ Complete(d, e)
           \/ pc'[p] \in {"queued", "paused"} /\ (pc'[p] = "queued" <=> p \in d)

(* ... or buffers are taken.                                               *)
Takes(p) ==
    /\ eos' = eos /\ data' \subseteq data
    /\ pc'[p] \in TurnPCs => pc[p] \in TurnPCs
    /\ p \in data \cup eos => pc'[p] \notin {"idle"} \cup SetCapsPCs

LEMMA ActData ==
    ASSUME ITyped, ICollect, NEW p \in Pads, Acts(p)
    PROVE  /\ Chain(p) \/ Eos(p) => Arrives(p)
           /\ ~(Chain(p) \/ Eos(p)) => Takes(p)
<1>1. PCs /\ data \subseteq Pads /\ eos \subseteq Pads
  BY DEF ITyped, TypedState
<1>2. ASSUME NEW S \in SUBSET PadPCs, Moved(p, S) PROVE pc'[p] \in S
  BY <1>1, <1>2, PadMoves
<1> USE DEF SetCapsPCs, TurnPCs, PadPCs, collectVars
<1>3. ASSUME Chain(p) \/ Eos(p) PROVE Arrives(p)
  <2>1. PICK d \in SUBSET Pads, e \in SUBSET Pads :
          /\ \/ Ready(p) /\ d = data \cup {p} /\ e = eos
             \/ (Ready(p) \/ pc[p] = "paused") /\ d = data /\ e = eos \cup {p}
          /\ Arrive(p, d, e)
    BY <1>1, <1>3 DEF Chain, Eos
  <2>2. playing /\ p \in Listed /\ p \notin eos
    BY <1>3 DEF Chain, Eos
  <2>3. \/ pc'[p] = "collected" /\ Complete(d, e)
        \/ pc'[p] \in {"queued", "paused"} /\ (pc'[p] = "queued" <=> p \in d)
    <3>1. CASE Moved(p, {"collected"}) /\ Complete(d, e)
      BY <1>2, <3>1
    <3>2. CASE Moved(p, {IF p \in d THEN "queued" ELSE "paused"})
      BY <1>2, <3>2
    <3> QED BY <2>1, <3>1, <3>2, ArriveMoves
  <2> QED BY <2>1, <2>2, <2>3, ArriveMoves DEF Arrives
<1>4. ASSUME SetCaps(p) PROVE Takes(p)
  <2>1. pc'[p] \in {"setcaps"}
    <3>1. Moved(p, {"setcaps"})
      BY <1>1, <1>4, PadPcStep
    <3> QED BY <1>2, <3>1
  <2>2. p \notin data \cup eos
    BY <1>4 DEF SetCaps, Ready, ICollect
  <2> QED BY <1>4, <2>1, <2>2 DEF SetCaps, Takes
<1>5. ASSUME Negotiate(p) PROVE Takes(p)
  <2>1. p \notin data \cup eos
    BY <1>5 DEF Negotiate, StoreInfo, TakeStream, UpdateInSetCaps, GbmInSetCaps, ICollect
  <2>2. pc'[p] \in {"paused", "stream", "update", "gbm", "idle"}
    <3>1. \/ Moved(p, {"paused", "stream"}) \/ Moved(p, {"update"})
          \/ Moved(p, {"gbm", "paused"}) \/ Moved(p, {"idle", "paused"})
      BY <1>1, <1>5, PadPcStep DEF Negotiate
    <3>2. \A S \in SUBSET PadPCs : Moved(p, S) => pc'[p] \in S
      BY <1>2
    <3> QED BY <3>1, <3>2
  <2>3. UNCHANGED <<data, eos>>
    BY <1>5, UpdateMoves, GbmMoves
       DEF Negotiate, StoreInfo, TakeStream, UpdateInSetCaps, GbmInSetCaps
  <2> QED BY <2>1, <2>2, <2>3 DEF Takes
<1>6. ASSUME Collected(p) PROVE Takes(p)
  <2>1. pc[p] \in TurnPCs
    BY <1>6 DEF Collected, BeginTurn, UpdateInTurn, GbmInTurn, PushCaps, ClearSendCaps,
         LockToBlend, PushSegment, EndStream, NeedMoreData, Blend, PushBuffer
  <2>2. pc'[p] \in {"queued", "paused"} \cup TurnPCs
    <3>1. \E S \in SUBSET ({"queued", "paused"} \cup TurnPCs) : Moved(p, S)
      BY <1>1, <1>6, PadPcStep DEF Collected
    <3> QED BY <1>2, <3>1
  <2>3. \A ok, d : EndTurn(p, ok, d) => data' \subseteq d
    BY EndTurnMoves
  <2>4. CASE UpdateInTurn(p) \/ GbmInTurn(p)
    <3>1. UNCHANGED <<data, eos>>
      BY <2>4, UpdateMoves, GbmMoves DEF UpdateInTurn, GbmInTurn
    <3> QED BY <2>1, <2>2, <3>1 DEF Takes
  <2>5. CASE PushCaps(p) \/ ClearSendCaps(p) \/ LockToBlend(p)
    <3>1. UNCHANGED <<data, eos>>
      BY <2>5 DEF PushCaps, ClearSendCaps, LockToBlend
    <3> QED BY <2>1, <2>2, <3>1 DEF Takes
  <2>6. CASE BeginTurn(p) \/ PushSegment(p) \/ EndStream(p) \/ PushBuffer(p)
    <3>1. eos' = eos /\ data' \subseteq data
      BY <2>3, <2>6 DEF BeginTurn, PushSegment, EndStream, PushBuffer
    <3> QED BY <2>1, <2>2, <3>1 DEF Takes
  <2>7. CASE NeedMoreData(p) \/ Blend(p)
    <3>1. eos' = eos /\ data' \subseteq data
      BY <2>3, <2>7 DEF NeedMoreData, Blend
    <3> QED BY <2>1, <2>2, <3>1 DEF Takes
  <2> QED BY <1>6, <2>4, <2>5, <2>6, <2>7 DEF Collected
<1> QED BY <1>3, <1>4, <1>5, <1>6 DEF Acts, Upstream, Streaming

LEMMA CollectStep ==
    ASSUME ITyped, Owned, ICollect, [Next]_vars
    PROVE  ICollect'
<1>1. /\ PCs /\ Apart /\ App \notin Pads /\ Listed \subseteq Pads
      /\ data \subseteq Pads /\ eos \subseteq Pads /\ removed \in Pads \cup {NoPad}
      /\ NoPad \notin Pads
  BY Distinct, ListedAreTyped DEF ITyped, TypedState
<1> USE DEF SetCapsPCs, collectVars, appVars
<1>2. ASSUME NEW p \in Pads, Acts(p) PROVE ICollect'
  <2>1. \/ Arrives(p) \/ Takes(p)
    BY <1>2, ActData
  <2>2. UNCHANGED <<playing, removed>> /\ pc'[App] = pc[App]
        /\ \A q \in Pads \ {p} : pc'[q] = pc[q]
    BY <1>1, <1>2, ActFrame DEF Threads
  <2>3. CASE Arrives(p)
    <3>1. data' \cup eos' = data \cup eos \cup {p} /\ playing /\ p # removed
      BY <1>1, <2>3 DEF Arrives, Apart
    <3>2. pc'[p] \in {"collected", "queued", "paused"}
      BY <2>3 DEF Arrives
    <3> QED BY <1>1, <2>2, <3>1, <3>2 DEF ICollect
  <2>4. CASE Takes(p)
    BY <1>1, <2>2, <2>4 DEF ICollect, Takes
  <2> QED BY <2>1, <2>3, <2>4
<1>3. CASE \/ \E p \in Pads : RequestNewPad(p) \/ ReleasePad(p) \/ SetPosition(p)
           \/ UpdateInRelease
  <2>1. UNCHANGED <<data, eos, playing>>
    BY <1>3, UpdateMoves DEF RequestNewPad, ReleasePad, SetPosition, UpdateInRelease
  <2>2. \A q \in Pads : pc'[q] = pc[q]
    BY <1>1, <1>3, AppPcStep, AppMoves DEF AppPCs
  <2>3. CASE UpdateInRelease
    <3>1. pc[App] = "reupdate" /\ removed' = removed
      BY <2>3, UpdateMoves DEF UpdateInRelease
    <3>2. pc'[App] \in {"deactivate"}
      BY <1>1, <2>3, AppPcStep, AppMoves DEF AppPCs
    <3> QED BY <1>1, <2>1, <2>2, <3>1, <3>2 DEF ICollect
  <2>4. CASE \E p \in Pads : RequestNewPad(p) \/ ReleasePad(p) \/ SetPosition(p)
    <3>1. pc'[App] \notin {"reupdate", "deactivate", "stopping"}
      <4>1. pc[App] = "idle"
        BY <2>4 DEF RequestNewPad, ReleasePad, SetPosition
      <4>2. pc'[App] \in {pc[App], "uncollect", "uncollect and update"}
        BY <1>1, <2>4, AppPcStep, AppMoves DEF AppPCs
      <4> QED BY <4>1, <4>2
    <3> QED BY <1>1, <2>1, <2>2, <3>1 DEF ICollect
  <2> QED BY <1>3, <2>3, <2>4
<1>4. CASE Start
  BY <1>1, <1>4 DEF Start, ICollect
<1>5. CASE Stop
  <2>1. pc'[App] \in {"stopping"} /\ \A q \in Pads : pc'[q] = pc[q]
    BY <1>1, <1>5, AppPcStep, AppMoves DEF AppPCs
  <2> QED BY <1>1, <1>5, <2>1 DEF Stop, ICollect
<1>6. CASE Reset
  <2>1. data = {} /\ data' = data /\ eos' = {} /\ pc' = [t \in Threads |-> "idle"]
    BY <1>6 DEF Reset, ICollect
  <2> QED BY <2>1 DEF ICollect, Threads
<1>7. CASE CollectPadsRemovePad
  <2>1. pc'[App] \in {"deactivate", "reupdate"} /\ \A q \in Pads : pc'[q] = pc[q]
    BY <1>1, <1>7, AppPcStep, AppMoves DEF AppPCs
  <2>2. /\ data' = data \ {removed} /\ eos' = eos \ {removed}
        /\ UNCHANGED <<playing, removed>>
    BY <1>7 DEF CollectPadsRemovePad
  <2> QED BY <1>1, <2>1, <2>2 DEF ICollect
<1>8. CASE DeactivatePad
  <2>1. /\ UNCHANGED <<data, eos, playing>> /\ pc[App] = "deactivate"
        /\ pc' = [pc EXCEPT ![App] = "idle", ![removed] = "idle"]
    BY <1>8 DEF DeactivatePad
  <2>2. removed \notin data \cup eos /\ removed \in Pads
    BY <1>1, <2>1 DEF ICollect, Apart
  <2>3. \A q \in data \cup eos : pc'[q] = pc[q]
    BY <1>1, <2>1, <2>2 DEF PCs, Threads
  <2>4. pc'[App] = "idle"
    BY <1>1, <2>1, <2>2 DEF PCs, Threads
  <2> QED BY <2>1, <2>3, <2>4 DEF ICollect
<1>9. CASE UNCHANGED vars
  BY <1>9 DEF vars, ICollect
<1> QED BY ActOrApp, <1>2, <1>3, <1>4, <1>5, <1>6, <1>7, <1>8, <1>9

-----------------------------------------------------------------------------
(* The caps of the output.                                                 *)

(* The output follows the background, if that has caps.                    *)
Follows ==
    \/ \E b \in Background :
            Known(b) /\ blend_info' = info[b] /\ SrcSetcaps(info[b])
    \/ /\ \A b \in Background : ~Known(b)
       /\ blend_info' = blend_info
       /\ \/ blend_info # NoCaps /\ SrcSetcaps(blend_info)
          \/ blend_info = NoCaps /\ UNCHANGED <<current_caps, send_caps>>

Updates(t) ==
    /\ setcaps_lock = Nobody /\ sent' = sent
    /\ \/ setcaps_lock' = t /\ UNCHANGED <<blend_info, current_caps, send_caps>>
       \/ setcaps_lock' = Nobody /\ Follows

(* From the push of the caps on, downstream has those of the output.       *)
Announcing == {"capssent", "lock", "segment", "blend", "push"}
InTurn == TurnPCs \ {"collected"}

SameCaps == UNCHANGED <<setcaps_lock, blend_info, current_caps, send_caps, sent>>

LEMMA UpdateCaps ==
    ASSUME NEW t, NEW done, NEW failed, UpdateSrcCaps(t, done, failed)
    PROVE  Updates(t)
<1> USE DEF capsVars, Updates
<1>1. setcaps_lock = Nobody /\ sent' = sent
  BY DEF UpdateSrcCaps
<1>2. CASE Misplaced
  BY <1>1, <1>2 DEF UpdateSrcCaps
<1>3. CASE ~Misplaced
  <2>1. setcaps_lock' = Nobody /\ Follows
    BY <1>1, <1>3 DEF UpdateSrcCaps, Follows
  <2> QED BY <1>1, <2>1
<1> QED BY <1>2, <1>3

(* What a pad's thread does to the caps.                                   *)
CapsMoves(p) ==
    \/ /\ SameCaps
       /\ pc'[p] \in Announcing => pc[p] \in Announcing
       /\ pc'[p] \in InTurn => pc[p] \in InTurn \/ blend_info # NoCaps
    \/ /\ Updates(p) /\ pc[p] = "update" /\ pc'[p] \in {"gbm", "paused"}
       /\ setcaps_lock' = p => pc'[p] = "paused"
    \/ Updates(p) /\ pc[p] = "reupdate" /\ pc'[p] \in {"regbm", "sendcaps"}
    \/ /\ pc[p] = "sendcaps"
       /\ UNCHANGED <<setcaps_lock, blend_info, current_caps, send_caps>>
       /\ sent' = IF send_caps THEN current_caps ELSE sent
       /\ pc'[p] \in Announcing
    \/ /\ pc[p] = "capssent"
       /\ UNCHANGED <<setcaps_lock, blend_info, current_caps, sent>>
       /\ send_caps' = FALSE /\ pc'[p] = "lock"
    \/ /\ pc[p] = "blend" /\ UNCHANGED <<setcaps_lock, current_caps, send_caps, sent>>
       /\ \A b \in Background : b \notin eos \ data
       /\ blend_info' \in {blend_info} \cup {info[b] : b \in {q \in Background : Known(q)}}
       /\ pc'[p] = "push"

LEMMA ActCaps ==
    ASSUME PCs, NEW p \in Pads, Acts(p)
    PROVE  CapsMoves(p)
<1> USE DEF locks, capsVars, InTurn, Announcing, TurnPCs
<1>1. ASSUME NEW S, Moved(p, S) PROVE pc'[p] \in S
  BY <1>1 DEF Moved, PCs, Threads
<1>2. ASSUME SameCaps, \/ pc'[p] \notin InTurn
                       \/ pc[p] \in Announcing
                       \/ pc[p] \in InTurn /\ pc'[p] \notin Announcing
                       \/ blend_info # NoCaps /\ pc'[p] \notin Announcing
      PROVE  CapsMoves(p)
  BY <1>2 DEF CapsMoves
<1> USE DEF SameCaps
<1>3. CASE Upstream(p)
  <2>1. SameCaps
    BY <1>3, ArriveMoves DEF Upstream, SetCaps, Chain, Eos
  <2>2. Moved(p, {"setcaps"}) \/ Moved(p, {"collected", "queued", "paused"})
    BY <1>3, PadPcStep DEF Upstream
  <2>3. pc'[p] \notin InTurn
    BY <1>1, <2>2
  <2> QED BY <1>2, <2>1, <2>3
<1>4. CASE StoreInfo(p) \/ TakeStream(p) \/ GbmInSetCaps(p)
  <2>1. SameCaps
    BY <1>4, GbmMoves DEF StoreInfo, TakeStream, GbmInSetCaps
  <2>2. Moved(p, {"paused", "stream"}) \/ Moved(p, {"update"}) \/ Moved(p, {"idle", "paused"})
    BY <1>4, PadPcStep
  <2>3. pc'[p] \notin InTurn
    BY <1>1, <2>2
  <2> QED BY <1>2, <2>1, <2>3
<1>5. CASE UpdateInSetCaps(p)
  <2>1. Updates(p) /\ pc[p] = "update"
    BY <1>5, UpdateCaps DEF UpdateInSetCaps
  <2>2. Moved(p, {"gbm", "paused"})
    BY <1>5, PadPcStep
  <2>3. setcaps_lock' = p => Moved(p, {"paused"})
    BY <1>5, UpdateMoves, Distinct DEF UpdateInSetCaps
  <2>4. pc'[p] \in {"gbm", "paused"} /\ (setcaps_lock' = p => pc'[p] \in {"paused"})
    BY <1>1, <2>2, <2>3
  <2> QED BY <2>1, <2>4 DEF CapsMoves
<1>6. CASE UpdateInTurn(p)
  <2>1. Updates(p) /\ pc[p] = "reupdate"
    BY <1>6, UpdateCaps DEF UpdateInTurn
  <2>2. Moved(p, {"regbm", "sendcaps"})
    BY <1>6, PadPcStep
  <2>3. pc'[p] \in {"regbm", "sendcaps"}
    BY <1>1, <2>2
  <2> QED BY <2>1, <2>3 DEF CapsMoves
<1>7. CASE GbmInTurn(p)
  <2>1. SameCaps /\ pc[p] = "regbm"
    BY <1>7, GbmMoves DEF GbmInTurn
  <2>2. pc'[p] \in {"sendcaps"}
    BY <1>1, <1>7, PadPcStep
  <2> QED BY <1>2, <2>1, <2>2
<1>8. CASE BeginTurn(p)
  <2>1. SameCaps
    BY <1>8 DEF BeginTurn
  <2>2. CASE blend_info = NoCaps
    <3>1. Moved(p, {"collected"}) \/ Moved(p, {"queued", "paused"})
      BY <1>8, <2>2, EndTurnMoves DEF BeginTurn
    <3>2. pc'[p] \notin InTurn
      BY <1>1, <3>1
    <3> QED BY <1>2, <2>1, <3>2
  <2>3. CASE blend_info # NoCaps
    <3>1. Moved(p, {"sendcaps", "reupdate", "collected", "queued", "paused"})
      BY <1>8, PadPcStep
    <3>2. pc'[p] \notin Announcing
      BY <1>1, <3>1
    <3> QED BY <1>2, <2>1, <2>3, <3>2
  <2> QED BY <2>2, <2>3
<1>9. CASE PushCaps(p)
  <2>1. /\ pc[p] = "sendcaps"
        /\ UNCHANGED <<setcaps_lock, blend_info, current_caps, send_caps>>
        /\ sent' = IF send_caps THEN current_caps ELSE sent
    BY <1>9 DEF PushCaps
  <2>2. pc'[p] \in {"capssent", "lock"}
    BY <1>1, <1>9, PadPcStep
  <2> QED BY <2>1, <2>2 DEF CapsMoves
<1>10. CASE ClearSendCaps(p)
  <2>1. /\ pc[p] = "capssent"
        /\ UNCHANGED <<setcaps_lock, blend_info, current_caps, sent>>
        /\ send_caps' = FALSE
    BY <1>10 DEF ClearSendCaps
  <2>2. pc'[p] \in {"lock"}
    BY <1>1, <1>10, PadPcStep
  <2> QED BY <2>1, <2>2 DEF CapsMoves
<1>11. CASE LockToBlend(p) \/ PushSegment(p) \/ PushBuffer(p)
  <2>1. SameCaps /\ pc[p] \in Announcing
    BY <1>11 DEF LockToBlend, PushSegment, PushBuffer
  <2> QED BY <1>2, <2>1
<1>12. CASE EndStream(p) \/ NeedMoreData(p)
  <2>1. SameCaps /\ pc[p] \in Announcing
    BY <1>12 DEF EndStream, NeedMoreData
  <2> QED BY <1>2, <2>1
<1>13. CASE Blend(p)
  <2>1. /\ pc[p] = "blend" /\ UNCHANGED <<setcaps_lock, current_caps, send_caps, sent>>
        /\ \A b \in Background : b \notin eos \ data
        /\ blend_info' \in {blend_info} \cup {info[b] : b \in {q \in Background : Known(q)}}
    BY <1>13 DEF Blend
  <2>2. pc'[p] \in {"push"}
    BY <1>1, <1>13, PadPcStep
  <2> QED BY <2>1, <2>2 DEF CapsMoves
<1> QED BY <1>3, <1>4, <1>5, <1>6, <1>7, <1>8, <1>9, <1>10, <1>11, <1>12, <1>13
        DEF Acts, Streaming, Negotiate, Collected

(* Before the start and after the end no thread is in the element, and the *)
(* output has no caps; a release updates them only while it has.           *)
IPlay ==
    /\ ~playing /\ pc[App] # "stopping" =>
          (\A p \in Pads : pc[p] = "idle") /\ blend_info = NoCaps
    /\ pc[App] \in {"uncollect and update", "reupdate"} => blend_info # NoCaps

(* The output has the caps of the background, until a thread on its way    *)
(* there has updated them; an error on that way stops the background.      *)
InSync ==
    \A b \in Background : Known(b) =>
        \/ info[b] = blend_info
        \/ pc[b] \in {"stream", "update"}
        \/ setcaps_lock # Nobody /\ b \notin data /\ (pc[b] = "paused" \/ b \in eos)

(* In a turn no other thread of the background is in the element, and a    *)
(* background out of step has ended.                                       *)
Turns ==
    \A t \in Pads : pc[t] \in TurnPCs => \A b \in Background :
        /\ b = t \/ pc[b] \in {"queued", "paused"}
        /\ Known(b) /\ info[b] # blend_info => b \in eos \ data

(* The caps of the output are the ones to send, and they are sent before   *)
(* blend->lock is taken.                                                   *)
Announced ==
    /\ blend_info = NoCaps \/ blend_info = current_caps
    /\ playing \/ pc[App] = "stopping" => send_caps \/ sent = current_caps
    /\ \A t \in Pads : pc[t] \in Announcing => sent = blend_info
    /\ \A t \in Pads : pc[t] \in InTurn => blend_info # NoCaps

ICaps == IPlay /\ InSync /\ Turns /\ Announced

IBase == ITyped /\ Owned /\ ILocks /\ ICollect

LEMMA OneBackground ==
    ASSUME ITyped, NEW a \in Background, NEW b \in Background
    PROVE  a = b
<1>1. PICK i \in 1 .. Len(sinkpads), j \in 1 .. Len(sinkpads) :
        /\ sinkpads[i] = a /\ sinkpads[j] = b
        /\ type[sinkpads[i]] = 0 /\ type[sinkpads[j]] = 0
  BY DEF Background, Listed, ToSet, ITyped, TypedState, TypedPads
<1>2. i >= j /\ j >= i
  BY <1>1 DEF ITyped, Ordered, BackgroundFirst
<1> QED BY <1>1, <1>2

(* What Follows does to the caps.                                          *)
LEMMA FollowsBackground ==
    ASSUME ITyped, Follows
    PROVE  /\ \A b \in Background : Known(b) => blend_info' = info[b]
           /\ blend_info # NoCaps => blend_info' # NoCaps
           /\ blend_info' = NoCaps \/ blend_info' = current_caps'
           /\ send_caps' \/ UNCHANGED <<current_caps, send_caps>>
<1>1. CASE \E b \in Background : Known(b) /\ blend_info' = info[b] /\ SrcSetcaps(info[b])
  BY <1>1, OneBackground DEF SrcSetcaps, Known
<1>2. CASE (\A b \in Background : ~Known(b)) /\ blend_info' = blend_info
  BY <1>2 DEF Follows, SrcSetcaps, Known
<1> QED BY <1>1, <1>2 DEF Follows

(* What a thread can do from where it is.                                  *)
LEMMA ActFrom ==
    ASSUME PCs, NEW p \in Pads, Acts(p)
    PROVE  /\ pc[p] = "idle" => playing
           /\ pc[p] = "stream" => pc'[p] = "update"
           /\ pc[p] = "update" => UpdateInSetCaps(p)
           /\ pc[p] \in {"queued", "paused"} => stream = Nobody
           /\ pc[p] = "paused" => Eos(p)
<1>1. CASE Upstream(p)
  <2>1. ASSUME Chain(p) \/ Eos(p) PROVE stream = Nobody
    BY <2>1, ArriveMoves DEF Chain, Eos
  <2> QED BY <1>1, <2>1 DEF Upstream, SetCaps, Chain, Eos, Ready
<1>2. CASE Negotiate(p)
  BY <1>2 DEF Negotiate, StoreInfo, TakeStream, UpdateInSetCaps, GbmInSetCaps,
              Goto, PCs, Threads
<1>3. CASE Collected(p)
  BY <1>3 DEF Collected, BeginTurn, UpdateInTurn, GbmInTurn, PushCaps, ClearSendCaps,
       LockToBlend, PushSegment, EndStream, NeedMoreData, Blend, PushBuffer
<1> QED BY <1>1, <1>2, <1>3 DEF Acts, Streaming

(* All that a pad's thread changes, for the lemmas that follow.            *)
LEMMA ActSummary ==
    ASSUME IBase, NEW p \in Pads, Acts(p)
    PROVE  /\ Background' = Background /\ Background \subseteq Listed
           /\ Listed' = Listed /\ Listed \subseteq Pads
           /\ UNCHANGED <<playing, removed>> /\ pc'[App] = pc[App]
           /\ \A q \in Pads \ {p} : pc'[q] = pc[q] /\ info'[q] = info[q]
           /\ info' = info \/ (pc[p] = "setcaps" /\ pc'[p] = "stream")
           /\ CapsMoves(p) /\ StreamMoves(p) /\ LockMoves(p)
<1>1. PCs /\ ILocks /\ Listed \subseteq Pads /\ info \in [Pads -> Caps \cup {NoCaps}]
  BY ListedAreTyped DEF IBase, ITyped, TypedState
<1>2. Background' = Background /\ Background \subseteq Listed /\ Listed' = Listed
  BY <1>1, ActFrame DEF Background, Listed
<1>3. info' = info \/ Stores(p)
  BY ActInfo
<1>4. \A q \in Pads \ {p} : info'[q] = info[q]
  BY <1>1, <1>3 DEF Stores
<1>5. info' = info \/ (pc[p] = "setcaps" /\ pc'[p] = "stream")
  BY <1>1, <1>3 DEF Stores, PCs, Threads
<1>6. CapsMoves(p) /\ StreamMoves(p) /\ LockMoves(p)
  BY <1>1, ActCaps, ActLocks
<1>7. UNCHANGED <<playing, removed>> /\ pc'[App] = pc[App]
      /\ \A q \in Pads \ {p} : pc'[q] = pc[q]
  BY <1>1, ActFrame, Distinct DEF Threads
<1> QED BY <1>1, <1>2, <1>4, <1>5, <1>6, <1>7

(* While a thread is in a turn, another changes no caps.                   *)
LEMMA OthersInTurn ==
    ASSUME IBase, NEW p \in Pads, Acts(p), NEW t \in Pads, t # p, pc[t] \in TurnPCs
    PROVE  SameCaps /\ stream = t /\ pc[p] \notin {"queued", "paused"}
<1>1. stream = t /\ pc[p] \notin HasStream
  BY DEF IBase, ILocks, HasStream
<1>2. CapsMoves(p)
  BY ActSummary
<1>3. SameCaps
  BY <1>1, <1>2 DEF CapsMoves, HasStream, TurnPCs
<1> QED BY <1>1, <1>3, ActFrom, Distinct DEF IBase, ITyped

LEMMA ActPlay ==
    ASSUME IBase, IPlay, NEW p \in Pads, Acts(p)
    PROVE  IPlay'
<1>1. UNCHANGED <<playing, removed>> /\ pc'[App] = pc[App] /\ CapsMoves(p)
  BY ActSummary
<1>2. pc[p] = "idle" => playing
  BY ActFrom DEF IBase, ITyped
<1>3. playing \/ pc[App] = "stopping"
  BY <1>2 DEF IPlay
<1>4. blend_info # NoCaps => blend_info' # NoCaps
  BY <1>1, FollowsBackground DEF CapsMoves, SameCaps, Updates, IBase, Known
<1> QED BY <1>1, <1>3, <1>4 DEF IPlay

LEMMA ActInSync ==
    ASSUME IBase, InSync, NEW p \in Pads, Acts(p)
    PROVE  InSync'
<1> SUFFICES ASSUME NEW b \in Background', Known(b)'
             PROVE  \/ info'[b] = blend_info'
                    \/ pc'[b] \in {"stream", "update"}
                    \/ /\ setcaps_lock' # Nobody /\ b \notin data'
                       /\ pc'[b] = "paused" \/ b \in eos'
  BY DEF InSync
<1>1. b \in Background /\ b \in Pads /\ CapsMoves(p)
      /\ (b # p => pc'[b] = pc[b] /\ info'[b] = info[b])
      /\ (info' = info \/ (pc[p] = "setcaps" /\ pc'[p] = "stream"))
  BY ActSummary
<1>2. Arrives(p) \/ Takes(p)
  BY ActData DEF IBase
<1>3. CASE info'[b] # info[b]
  BY <1>1, <1>3
<1>4. CASE info'[b] = info[b]
  <2>1. Known(b)
    BY <1>4 DEF Known
  <2>2. ASSUME Follows PROVE info'[b] = blend_info'
    BY <1>1, <1>4, <2>1, <2>2, FollowsBackground DEF IBase
  <2>3. CASE info[b] = blend_info
    <3>1. CASE blend_info' = blend_info
      BY <1>4, <2>3, <3>1
    <3>2. CASE blend_info' # blend_info
      <4>1. Follows \/ \E a \in Background : blend_info' = info[a]
        BY <1>1, <3>2 DEF CapsMoves, SameCaps, Updates
      <4> QED BY <1>1, <1>4, <2>2, <4>1, OneBackground DEF IBase
    <3> QED BY <3>1, <3>2
  <2>4. CASE pc[b] \in {"stream", "update"}
    <3>1. CASE b # p
      BY <1>1, <2>4, <3>1
    <3>2. CASE b = p /\ pc[p] = "stream"
      BY <3>2, ActFrom DEF IBase, ITyped
    <3>3. CASE b = p /\ pc[p] = "update"
      <4>1. UpdateInSetCaps(p)
        BY <3>3, ActFrom DEF IBase, ITyped
      <4>2. UpdateSrcCaps(p, IF c2d_loaded THEN "gbm" ELSE "paused", "paused")
        BY <4>1 DEF UpdateInSetCaps
      <4>3. Follows \/ (setcaps_lock' = p /\ Moved(p, {"paused"}))
        BY <4>2 DEF UpdateSrcCaps, Follows, Goto, Moved
      <4>4. Moved(p, {"paused"}) => pc'[p] \in {"paused"}
        BY PadMoves DEF IBase, ITyped, PadPCs
      <4>5. p \notin data'
        <5>1. p \notin data /\ ~(Chain(p) \/ Eos(p))
          BY <3>3 DEF IBase, ICollect, SetCapsPCs, Chain, Eos, Ready
        <5> QED BY <5>1, ActData DEF IBase, Takes
      <4> QED BY <2>2, <3>3, <4>3, <4>4, <4>5, Distinct
    <3> QED BY <2>4, <3>1, <3>2, <3>3
  <2>5. CASE setcaps_lock # Nobody /\ b \notin data /\ (pc[b] = "paused" \/ b \in eos)
    <3>1. setcaps_lock' = setcaps_lock
      BY <1>1, <2>5 DEF CapsMoves, SameCaps, Updates
    <3>2. CASE b # p
      <4>1. b \notin data' /\ (b \in eos => b \in eos')
        BY <1>2, <2>5, <3>2 DEF Arrives, Takes
      <4> QED BY <1>1, <2>5, <3>1, <3>2, <4>1
    <3>3. CASE b = p /\ p \in eos
      <4>1. Takes(p)
        BY <1>2, <3>3 DEF Arrives
      <4> QED BY <2>5, <3>1, <3>3, <4>1 DEF Takes
    <3>4. CASE b = p /\ p \notin eos
      <4>1. pc[p] = "paused" /\ Eos(p)
        BY <2>5, <3>4, ActFrom DEF IBase, ITyped
      <4>2. data' = data /\ eos' = eos \cup {p}
        BY <4>1, ArriveMoves DEF Eos
      <4> QED BY <2>5, <3>1, <3>4, <4>2
    <3> QED BY <3>2, <3>3, <3>4
  <2> QED BY <1>1, <2>1, <2>3, <2>4, <2>5 DEF InSync
<1> QED BY <1>3, <1>4

LEMMA ActTurns ==
    ASSUME IBase, Turns, InSync', NEW p \in Pads, Acts(p)
    PROVE  Turns'
<1> SUFFICES ASSUME NEW t \in Pads, pc'[t] \in TurnPCs, NEW b \in Background'
             PROVE  /\ b = t \/ pc'[b] \in {"queued", "paused"}
                    /\ Known(b)' /\ info'[b] # blend_info' => b \in eos' \ data'
  BY DEF Turns
<1>1. b \in Background /\ b \in Pads /\ b \in Listed /\ CapsMoves(p)
      /\ (\A q \in Pads : q # p => pc'[q] = pc[q] /\ info'[q] = info[q])
      /\ (info' = info \/ (pc[p] = "setcaps" /\ pc'[p] = "stream"))
  BY ActSummary
<1>2. Arrives(p) \/ Takes(p)
  BY ActData DEF IBase
<1>3. CASE t # p
  <2>1. pc[t] \in TurnPCs
    BY <1>1, <1>3
  <2>2. SameCaps /\ stream = t /\ pc[p] \notin {"queued", "paused"}
    BY <1>3, <2>1, OthersInTurn
  <2>3. b # p
    BY <1>1, <1>3, <2>1, <2>2 DEF Turns
  <2>4. Takes(p)
    BY <1>2, <2>2, Distinct DEF Arrives
  <2>5. (b = t \/ pc[b] \in {"queued", "paused"})
        /\ (Known(b) /\ info[b] # blend_info => b \in eos \ data)
    BY <1>1, <2>1 DEF Turns
  <2> QED BY <1>1, <2>2, <2>3, <2>4, <2>5 DEF Takes, SameCaps, Known
<1>4. CASE t = p /\ pc[p] \in TurnPCs
  <2>1. stream = p /\ pc[p] \notin SetCapsPCs
    BY <1>4 DEF IBase, ILocks, HasStream, TurnPCs, SetCapsPCs
  <2>2. Takes(p)
    BY <1>2, <2>1, Distinct DEF Arrives
  <2>3. info' = info
    BY <1>1, <2>1 DEF SetCapsPCs
  <2>4. (b = t \/ pc[b] \in {"queued", "paused"})
        /\ (Known(b) /\ info[b] # blend_info => b \in eos \ data)
    BY <1>1, <1>4 DEF Turns
  <2>5. Known(b) => blend_info' = blend_info \/ blend_info' = info[b]
    <3>1. ASSUME Follows, Known(b) PROVE blend_info' = info[b]
      BY <1>1, <3>1, FollowsBackground DEF IBase
    <3>2. blend_info' = blend_info \/ Follows \/ \E a \in Background : blend_info' = info[a]
      BY <1>1 DEF CapsMoves, SameCaps, Updates
    <3> QED BY <1>1, <3>1, <3>2, OneBackground DEF IBase
  <2> QED BY <1>1, <1>4, <2>2, <2>3, <2>4, <2>5 DEF Takes, Known
<1>5. CASE t = p /\ pc[p] \notin TurnPCs
  <2>1. Arrives(p) /\ stream = Nobody
    BY <1>2, <1>5 DEF Takes, Arrives
  <2>2. Complete(data', eos')
    BY <1>5, <2>1 DEF Arrives, TurnPCs
  <2>3. b \in data' \cup eos'
    BY <1>1, <2>2, ActSummary DEF Complete, Collecting
  <2>4. b # p => pc[b] \in {"queued", "paused"}
    <3>1. b # p => b \in data \cup eos
      BY <2>1, <2>3 DEF Arrives
    <3>2. pc[b] \notin HasStream
      BY <1>1, <2>1, Distinct DEF IBase, ILocks
    <3>3. b # p => pc[b] \notin {"idle"} \cup SetCapsPCs
      BY <3>1 DEF IBase, ICollect
    <3> QED BY <1>1, <3>2, <3>3 DEF IBase, ITyped, PCs, PadPCs, HasStream
  <2>5. pc'[b] \notin {"stream", "update"}
    BY <1>1, <1>5, <2>4 DEF TurnPCs
  <2>6. ASSUME Known(b)', info'[b] # blend_info' PROVE b \in eos' \ data'
    <3>1. b \notin data'
      BY <2>5, <2>6 DEF InSync
    <3> QED BY <2>3, <3>1
  <2> QED BY <1>1, <1>5, <2>4, <2>6
<1> QED BY <1>3, <1>4, <1>5

LEMMA ActAnnounced ==
    ASSUME IBase, ICaps, NEW p \in Pads, Acts(p)
    PROVE  Announced'
<1>1. UNCHANGED playing /\ pc'[App] = pc[App] /\ CapsMoves(p)
      /\ (\A q \in Pads : q # p => pc'[q] = pc[q])
  BY ActSummary
<1>2. ASSUME Follows
      PROVE  /\ blend_info # NoCaps => blend_info' # NoCaps
             /\ blend_info' = NoCaps \/ blend_info' = current_caps'
             /\ send_caps' \/ UNCHANGED <<current_caps, send_caps>>
  BY <1>2, FollowsBackground DEF IBase
<1>3. pc[p] # "idle" => playing \/ pc[App] = "stopping"
  BY DEF ICaps, IPlay
<1>4. ASSUME NEW t \in Pads, t # p, pc'[t] \in TurnPCs
      PROVE  SameCaps /\ pc[t] = pc'[t]
  BY <1>1, <1>4, OthersInTurn
<1> USE DEF InTurn, Announcing, TurnPCs
<1>5. /\ blend_info = NoCaps \/ blend_info = current_caps
      /\ pc[p] # "idle" => send_caps \/ sent = current_caps
      /\ pc[p] \in Announcing => sent = blend_info
      /\ pc[p] \in InTurn => blend_info # NoCaps
      /\ playing \/ pc[App] = "stopping" => send_caps \/ sent = current_caps
  BY <1>3 DEF ICaps, Announced
<1> HIDE DEF InTurn, Announcing, TurnPCs
<1> DEFINE G == /\ blend_info' = NoCaps \/ blend_info' = current_caps'
                /\ (playing \/ pc[App] = "stopping") => send_caps' \/ sent' = current_caps'
                /\ pc'[p] \in Announcing => sent' = blend_info'
                /\ pc'[p] \in InTurn => blend_info' # NoCaps
<1>6. G
  <2>1. CASE /\ SameCaps
             /\ pc'[p] \in Announcing => pc[p] \in Announcing
             /\ pc'[p] \in InTurn => pc[p] \in InTurn \/ blend_info # NoCaps
    BY <1>5, <2>1 DEF SameCaps
  <2>2. CASE Updates(p) /\ pc[p] = "update" /\ pc'[p] \in {"gbm", "paused"}
    <3>1. pc'[p] \notin Announcing /\ pc'[p] \notin InTurn
      BY <2>2 DEF InTurn, Announcing, TurnPCs
    <3> QED BY <1>2, <1>5, <2>2, <3>1 DEF Updates
  <2>3. CASE Updates(p) /\ pc[p] = "reupdate" /\ pc'[p] \in {"regbm", "sendcaps"}
    <3>1. pc'[p] \notin Announcing /\ pc[p] \in InTurn
      BY <2>3 DEF InTurn, Announcing, TurnPCs
    <3> QED BY <1>2, <1>5, <2>3, <3>1 DEF Updates
  <2>4. CASE /\ pc[p] = "sendcaps"
             /\ UNCHANGED <<setcaps_lock, blend_info, current_caps, send_caps>>
             /\ sent' = IF send_caps THEN current_caps ELSE sent
    <3>1. pc[p] \in InTurn
      BY <2>4 DEF InTurn, TurnPCs
    <3>2. blend_info = current_caps /\ blend_info # NoCaps
      BY <1>5, <3>1
    <3>3. send_caps \/ sent = current_caps
      BY <1>5, <2>4
    <3>4. sent' = current_caps
      BY <2>4, <3>3
    <3> QED BY <2>4, <3>2, <3>4
  <2>5. CASE /\ pc[p] = "capssent"
             /\ UNCHANGED <<setcaps_lock, blend_info, current_caps, sent>>
             /\ send_caps' = FALSE /\ pc'[p] = "lock"
    <3>1. pc[p] \in InTurn /\ pc[p] \in Announcing
      BY <2>5 DEF InTurn, Announcing, TurnPCs
    <3> QED BY <1>5, <2>5, <3>1
  <2>6. CASE /\ pc[p] = "blend" /\ UNCHANGED <<setcaps_lock, current_caps, send_caps, sent>>
             /\ \A b \in Background : b \notin eos \ data
             /\ blend_info' \in {blend_info} \cup {info[b] : b \in {q \in Background : Known(q)}}
    <3>1. pc[p] \in InTurn /\ pc[p] \in Announcing /\ pc[p] \in TurnPCs
      BY <2>6 DEF InTurn, Announcing, TurnPCs
    <3>2. \A b \in Background : Known(b) => info[b] = blend_info
      BY <2>6, <3>1 DEF ICaps, Turns
    <3>3. blend_info' = blend_info
      BY <2>6, <3>2
    <3> QED BY <1>5, <2>6, <3>1, <3>3
  <2> QED BY <1>1, <2>1, <2>2, <2>3, <2>4, <2>5, <2>6 DEF CapsMoves
<1>7. ASSUME NEW t \in Pads, pc'[t] \in Announcing PROVE sent' = blend_info'
  <2>1. CASE t = p
    BY <1>6, <1>7, <2>1
  <2>2. CASE t # p
    <3>1. pc'[t] \in TurnPCs
      BY <1>7 DEF Announcing, TurnPCs
    <3> QED BY <1>4, <1>7, <2>2, <3>1 DEF ICaps, Announced, SameCaps
  <2> QED BY <2>1, <2>2
<1>8. ASSUME NEW t \in Pads, pc'[t] \in InTurn PROVE blend_info' # NoCaps
  <2>1. CASE t = p
    BY <1>6, <1>8, <2>1
  <2>2. CASE t # p
    <3>1. pc'[t] \in TurnPCs
      BY <1>8 DEF InTurn
    <3> QED BY <1>4, <1>8, <2>2, <3>1 DEF ICaps, Announced, SameCaps
  <2> QED BY <2>1, <2>2
<1> QED BY <1>1, <1>6, <1>7, <1>8 DEF Announced

(* The steps of the application that change no caps: the background stays, *)
(* or becomes a pad without caps while no thread is in the element.        *)
Quiet ==
    \/ \E p \in Pads : RequestNewPad(p) \/ ReleasePad(p) \/ SetPosition(p)
    \/ Stop \/ CollectPadsRemovePad \/ DeactivatePad

LEMMA QuietSummary ==
    ASSUME IBase, Quiet
    PROVE  /\ SameCaps
           /\ \A p \in Pads : pc'[p] = pc[p] \/ pc'[p] = "idle"
           /\ \A b \in Background' :
                \/ /\ b \in Background /\ info'[b] = info[b] /\ pc'[b] = pc[b]
                   /\ (b \in eos' <=> b \in eos) /\ (b \in data' => b \in data)
                \/ /\ info'[b] = NoCaps
                   /\ \A t \in Pads : pc'[t] = "idle"
<1> USE DEF locks, padVars, capsVars, collectVars, appVars, SameCaps
<1>1. /\ PCs /\ Apart /\ Owned /\ App \notin Pads /\ Listed \subseteq Pads
      /\ removed \in Pads \cup {NoPad} /\ NoPad \notin Pads
      /\ type \in [Pads -> 0 .. 1] /\ info \in [Pads -> Caps \cup {NoCaps}]
      /\ TypedPads /\ Ordered
  BY Distinct, ListedAreTyped DEF IBase, ITyped, TypedState, TypedPads
<1>2. ASSUME NEW p \in Pads, RequestNewPad(p), NEW b \in Background'
      PROVE  \/ b \in Background
             \/ b = p /\ \A t \in Pads : pc[t] = "idle"
  <2>1. Listed' = Listed \cup {p} /\ p \notin Listed
    BY <1>1, <1>2, RequestLists DEF RequestNewPad
  <2>2. type' = [type EXCEPT ![p] = numpads] /\ pc[App] = "idle"
    BY <1>2 DEF RequestNewPad, NewType
  <2>3. CASE b # p
    BY <1>1, <2>1, <2>2, <2>3 DEF Background
  <2>4. CASE b = p
    <3>1. numpads = 0
      BY <1>1, <2>2, <2>4 DEF Background
    <3>2. Listed = {}
      <4>1. Len(sinkpads) = 0 /\ DOMAIN sinkpads = 1 .. Len(sinkpads)
        <5>1. Len(sinkpads) = 0
          BY <1>1, <3>1 DEF Ordered, BackgroundFirst
        <5>2. DOMAIN sinkpads = 1 .. Len(sinkpads)
          BY <1>1 DEF TypedPads
        <5> QED BY <5>1, <5>2
      <4>2. 1 .. 0 = {}
        OBVIOUS
      <4> QED BY <4>1, <4>2 DEF Listed, ToSet
    <3>3. removed = NoPad
      BY <1>1, <2>2 DEF Apart
    <3> QED BY <1>1, <2>4, <3>2, <3>3 DEF Owned
  <2> QED BY <2>3, <2>4
<1>3. CASE \E p \in Pads : RequestNewPad(p)
  <2>1. PICK p \in Pads : RequestNewPad(p)
    BY <1>3
  <2>2. UNCHANGED <<pc, info, data, eos>> /\ p \notin Listed /\ pc[App] = "idle" /\ SameCaps
    BY <2>1 DEF RequestNewPad
  <2>3. info[p] = NoCaps
    BY <1>1, <2>2 DEF Owned, Apart
  <2> QED BY <1>2, <2>1, <2>2, <2>3
<1>4. CASE \E p \in Pads : ReleasePad(p) \/ SetPosition(p)
  <2>1. Background' \subseteq Background
    BY <1>1, <1>4, ReleaseLists DEF ReleasePad, SetPosition, Background, Listed
  <2>2. UNCHANGED <<info, data, eos>> /\ SameCaps
    BY <1>4 DEF ReleasePad, SetPosition
  <2>3. \A q \in Pads : pc'[q] = pc[q]
    BY <1>1, <1>4, AppPcStep, AppMoves DEF AppPCs
  <2> QED BY <1>1, <2>1, <2>2, <2>3 DEF Background
<1>5. CASE Stop \/ CollectPadsRemovePad
  <2>1. UNCHANGED <<sinkpads, type, info>> /\ SameCaps
    BY <1>5 DEF Stop, CollectPadsRemovePad
  <2>2. Background' = Background /\ Background \subseteq Listed
    BY <2>1 DEF Background, Listed
  <2>3. \A q \in Pads : pc'[q] = pc[q]
    BY <1>1, <1>5, AppPcStep, AppMoves DEF AppPCs
  <2>4. \A b \in Listed : (b \in eos' <=> b \in eos) /\ (b \in data' => b \in data)
    BY <1>1, <1>5 DEF Stop, CollectPadsRemovePad, Apart
  <2> QED BY <1>1, <2>1, <2>2, <2>3, <2>4
<1>6. CASE DeactivatePad
  <2>1. /\ UNCHANGED <<sinkpads, data, eos>> /\ SameCaps /\ pc[App] = "deactivate"
        /\ pc' = [pc EXCEPT ![App] = "idle", ![removed] = "idle"]
        /\ type' = [type EXCEPT ![removed] = 0]
        /\ info' = [info EXCEPT ![removed] = NoCaps]
    BY <1>6 DEF DeactivatePad
  <2>2. removed \in Pads /\ removed \notin Listed
    BY <1>1, <2>1 DEF Apart
  <2>3. \A q \in Pads : q # removed =>
            pc'[q] = pc[q] /\ info'[q] = info[q] /\ type'[q] = type[q]
    BY <1>1, <2>1 DEF PCs, Threads
  <2>4. pc'[removed] = "idle"
    BY <1>1, <2>1, <2>2 DEF PCs, Threads
  <2>5. Background' \subseteq Background /\ Background \subseteq Listed
    BY <1>1, <2>1, <2>2, <2>3 DEF Background, Listed
  <2> QED BY <1>1, <2>1, <2>2, <2>3, <2>4, <2>5
<1> QED BY <1>3, <1>4, <1>5, <1>6 DEF Quiet

LEMMA QuietCaps ==
    ASSUME IBase, ICaps, Quiet
    PROVE  InSync' /\ Turns' /\ Announced'
<1>1. SameCaps
  BY QuietSummary
<1>2. \A p \in Pads : pc'[p] = pc[p] \/ pc'[p] = "idle"
  BY QuietSummary
<1>3. ASSUME NEW b \in Background'
      PROVE  \/ /\ b \in Background /\ info'[b] = info[b] /\ pc'[b] = pc[b]
                /\ (b \in eos' <=> b \in eos) /\ (b \in data' => b \in data)
             \/ /\ info'[b] = NoCaps
                /\ \A t \in Pads : pc'[t] = "idle"
  BY QuietSummary
<1>4. InSync'
  BY <1>1, <1>3 DEF ICaps, InSync, SameCaps, Known
<1>5. Turns'
  <2> SUFFICES ASSUME NEW t \in Pads, pc'[t] \in TurnPCs, NEW b \in Background'
               PROVE  /\ b = t \/ pc'[b] \in {"queued", "paused"}
                      /\ Known(b)' /\ info'[b] # blend_info' => b \in eos' \ data'
    BY DEF Turns
  <2>1. pc'[t] # "idle" /\ pc[t] \in TurnPCs
    BY <1>2 DEF TurnPCs
  <2>2. /\ b \in Background /\ info'[b] = info[b] /\ pc'[b] = pc[b]
        /\ (b \in eos' <=> b \in eos) /\ (b \in data' => b \in data)
    BY <1>3, <2>1
  <2> QED BY <1>1, <2>1, <2>2 DEF ICaps, Turns, SameCaps, Known
<1>6. playing' \/ pc'[App] = "stopping" => playing \/ pc[App] = "stopping"
  <2>1. PCs
    BY DEF IBase, ITyped
  <2>2. CASE Stop
    BY <2>2 DEF Stop
  <2>3. CASE ~Stop
    <3>1. playing' = playing
      BY <2>3 DEF Quiet, RequestNewPad, ReleasePad, SetPosition, CollectPadsRemovePad,
                  DeactivatePad, appVars
    <3>2. pc'[App] = "stopping" => pc[App] = "stopping"
      <4>1. CASE DeactivatePad
        BY <2>1, <4>1 DEF DeactivatePad, PCs, Threads
      <4>2. CASE ~DeactivatePad
        <5>1. ASSUME pc' = pc PROVE pc'[App] = "stopping" => pc[App] = "stopping"
          BY <5>1
        <5>2. ASSUME NEW S \in SUBSET AppPCs, Moved(App, S), "stopping" \notin S
              PROVE  pc'[App] # "stopping"
          BY <2>1, <5>2, AppMoves
        <5>3. CASE \E p \in Pads : ReleasePad(p)
          <6>1. Moved(App, {"uncollect", "uncollect and update"})
            BY <2>1, <5>3, AppPcStep
          <6> QED BY <5>2, <6>1 DEF AppPCs
        <5>4. CASE CollectPadsRemovePad
          <6>1. Moved(App, {"deactivate", "reupdate"})
            BY <2>1, <5>4, AppPcStep
          <6> QED BY <5>2, <6>1 DEF AppPCs
        <5>5. CASE \E p \in Pads : RequestNewPad(p) \/ SetPosition(p)
          BY <2>1, <5>1, <5>5, AppPcStep
        <5> QED BY <2>3, <4>2, <5>3, <5>4, <5>5 DEF Quiet
      <4> QED BY <4>1, <4>2
    <3> QED BY <3>1, <3>2
  <2> QED BY <2>2, <2>3
<1>7. Announced'
  <2>1. \A t \in Pads : pc'[t] \in Announcing => pc[t] \in Announcing
    BY <1>2 DEF Announcing
  <2>2. \A t \in Pads : pc'[t] \in InTurn => pc[t] \in InTurn
    BY <1>2 DEF InTurn, TurnPCs
  <2> QED BY <1>1, <1>6, <2>1, <2>2 DEF ICaps, Announced, SameCaps
<1> QED BY <1>4, <1>5, <1>7

LEMMA QuietPlay ==
    ASSUME IBase, ICaps, Quiet
    PROVE  IPlay'
<1>1. blend_info' = blend_info /\ \A p \in Pads : pc'[p] = pc[p] \/ pc'[p] = "idle"
  BY QuietSummary DEF SameCaps
<1>2. PCs /\ IPlay
  BY DEF IBase, ITyped, ICaps
<1> USE DEF appVars
<1>3. CASE Stop
  <2>1. pc'[App] \in {"stopping"}
    BY <1>2, <1>3, AppPcStep, AppMoves DEF AppPCs
  <2> QED BY <2>1 DEF IPlay
<1>4. CASE ~Stop
  <2>1. playing' = playing /\ pc[App] # "stopping"
    BY <1>4 DEF Quiet, RequestNewPad, ReleasePad, SetPosition, CollectPadsRemovePad,
                DeactivatePad, Leaving
  <2>2. pc'[App] \in {"uncollect and update", "reupdate"} => blend_info # NoCaps
    <3>1. CASE \E p \in Pads : ReleasePad(p)
      BY <1>2, <3>1 DEF ReleasePad, Goto, PCs, Threads
    <3>2. CASE CollectPadsRemovePad
      BY <1>2, <3>2 DEF CollectPadsRemovePad, Leaving, Goto, PCs, Threads, IPlay
    <3>3. CASE DeactivatePad
      BY <1>2, <3>3 DEF DeactivatePad, PCs, Threads
    <3>4. CASE \E p \in Pads : RequestNewPad(p) \/ SetPosition(p)
      BY <1>2, <3>4 DEF RequestNewPad, SetPosition
    <3> QED BY <1>4, <3>1, <3>2, <3>3, <3>4 DEF Quiet
  <2> QED BY <1>1, <1>2, <2>1, <2>2 DEF IPlay
<1> QED BY <1>3, <1>4

(* The update of a release changes nothing while a turn is on its way.     *)
LEMMA ReleaseUpdates ==
    ASSUME IBase, InSync, Turns, UpdateInRelease, NEW t \in Pads, pc[t] \in TurnPCs
    PROVE  blend_info' = blend_info
<1>1. Updates(App)
  BY UpdateCaps DEF UpdateInRelease
<1>2. ASSUME NEW b \in Background, Known(b) PROVE info[b] = blend_info
  <2>1. b = t \/ pc[b] \in {"queued", "paused"}
    BY DEF Turns
  <2> QED BY <1>1, <1>2, <2>1 DEF InSync, Updates, TurnPCs
<1> QED BY <1>1, <1>2 DEF Updates, Follows

LEMMA AppCaps ==
    ASSUME IBase, ICaps, UpdateInRelease \/ Start \/ Reset
    PROVE  ICaps'
<1> USE DEF locks, padVars, capsVars, collectVars, appVars
<1>1. /\ PCs /\ App \notin Pads /\ Listed \subseteq Pads
  BY Distinct, ListedAreTyped DEF IBase, ITyped, TypedState
<1>2. CASE UpdateInRelease
  <2>1. /\ Updates(App) /\ pc[App] = "reupdate"
        /\ UNCHANGED <<sinkpads, type, info, data, eos, playing>>
    BY <1>2, UpdateCaps, UpdateMoves DEF UpdateInRelease
  <2>2. pc'[App] \in {"deactivate"} /\ \A q \in Pads : pc'[q] = pc[q]
    BY <1>1, <1>2, AppPcStep, AppMoves DEF AppPCs
  <2>3. Background' = Background /\ Background \subseteq Pads
    BY <1>1, <2>1 DEF Background, Listed
  <2>4. playing /\ blend_info # NoCaps
    BY <2>1 DEF ICaps, IPlay
  <2>5. ASSUME Follows
        PROVE  /\ \A b \in Background : Known(b) => blend_info' = info[b]
               /\ blend_info' # NoCaps
               /\ blend_info' = current_caps'
               /\ send_caps' \/ UNCHANGED <<current_caps, send_caps>>
    BY <2>4, <2>5, FollowsBackground DEF IBase
  <2>6. ASSUME NEW t \in Pads, pc'[t] \in TurnPCs
        PROVE  pc[t] \in TurnPCs /\ blend_info' = blend_info
    BY <1>2, <2>2, <2>6, ReleaseUpdates DEF ICaps
  <2>7. IPlay'
    BY <2>1, <2>2, <2>4 DEF IPlay
  <2>8. InSync'
    <3>1. CASE Follows
      BY <2>1, <2>3, <2>5, <3>1 DEF InSync, Known
    <3>2. CASE ~Follows
      <4>1. setcaps_lock' = App /\ blend_info' = blend_info
        BY <2>1, <3>2 DEF Updates
      <4> QED BY <2>1, <2>2, <2>3, <4>1 DEF ICaps, InSync, Known, App, Nobody, Updates
    <3> QED BY <3>1, <3>2
  <2>9. Turns'
    BY <2>1, <2>2, <2>3, <2>6 DEF ICaps, Turns, Known
  <2>10. Announced'
    <3>1. sent' = sent /\ (Follows \/ UNCHANGED <<blend_info, current_caps, send_caps>>)
      BY <2>1 DEF Updates
    <3>2. blend_info' = NoCaps \/ blend_info' = current_caps'
      BY <2>5, <3>1 DEF ICaps, Announced
    <3>3. send_caps' \/ sent' = current_caps'
      BY <2>4, <2>5, <3>1 DEF ICaps, Announced
    <3>4. ASSUME NEW t \in Pads, pc'[t] \in Announcing PROVE sent' = blend_info'
      <4>1. pc'[t] \in TurnPCs
        BY <3>4 DEF Announcing, TurnPCs
      <4> QED BY <2>2, <2>6, <3>1, <3>4, <4>1 DEF ICaps, Announced
    <3>5. blend_info' # NoCaps
      BY <2>4, <2>5, <3>1
    <3> QED BY <3>2, <3>3, <3>4, <3>5 DEF Announced
  <2> QED BY <2>7, <2>8, <2>9, <2>10 DEF ICaps
<1>3. CASE Start
  <2>1. /\ UNCHANGED <<pc, sinkpads, type, info, data, eos, blend_info, setcaps_lock>>
        /\ send_caps' = TRUE /\ playing' = TRUE /\ ~playing /\ pc[App] = "idle"
    BY <1>3 DEF Start
  <2>2. blend_info = NoCaps /\ \A p \in Pads : pc[p] = "idle"
    BY <2>1 DEF ICaps, IPlay
  <2>3. IPlay'
    BY <2>1 DEF IPlay
  <2>4. InSync'
    BY <2>1 DEF ICaps, InSync, Background, Listed, Known
  <2>5. Turns' /\ Announced'
    BY <2>1, <2>2 DEF Turns, Announced, Announcing, InTurn, TurnPCs
  <2> QED BY <2>3, <2>4, <2>5 DEF ICaps
<1>4. CASE Reset
  <2>1. /\ UNCHANGED <<sinkpads, type, playing>> /\ blend_info' = NoCaps
        /\ info' = [p \in Pads |-> IF p \in Listed THEN NoCaps ELSE info[p]]
        /\ pc' = [t \in Threads |-> "idle"] /\ pc[App] = "stopping"
    BY <1>4 DEF Reset
  <2>2. ~playing
    BY <2>1 DEF IBase, ICollect
  <2>3. pc'[App] = "idle" /\ \A p \in Pads : pc'[p] = "idle"
    BY <2>1 DEF Threads
  <2>4. InSync'
    BY <1>1, <2>1 DEF InSync, Background, Listed, Known
  <2>5. IPlay' /\ Turns' /\ Announced'
    BY <2>1, <2>2, <2>3 DEF IPlay, Turns, Announced, Announcing, InTurn, TurnPCs
  <2> QED BY <2>4, <2>5 DEF ICaps
<1> QED BY <1>2, <1>3, <1>4

LEMMA CapsStep ==
    ASSUME IBase, ICaps, [Next]_vars
    PROVE  ICaps'
<1>1. ASSUME NEW p \in Pads, Acts(p) PROVE ICaps'
  BY <1>1, ActPlay, ActInSync, ActTurns, ActAnnounced DEF ICaps
<1>2. CASE Quiet
  BY <1>2, QuietCaps, QuietPlay DEF ICaps
<1>3. CASE UpdateInRelease \/ Start \/ Reset
  BY <1>3, AppCaps
<1>4. CASE UNCHANGED vars
  <2>1. UNCHANGED <<setcaps_lock, sinkpads, type, info, blend_info, current_caps,
                    send_caps, pc, data, eos, sent, playing>>
    BY <1>4 DEF vars, locks, padVars, capsVars, collectVars, appVars
  <2>2. IPlay' /\ Announced'
    BY <2>1 DEF ICaps, IPlay, Announced
  <2>3. InSync' /\ Turns'
    BY <2>1 DEF ICaps, InSync, Turns, Background, Listed, Known
  <2> QED BY <2>2, <2>3 DEF ICaps
<1> QED BY ActOrApp, <1>1, <1>2, <1>3, <1>4 DEF Quiet

LEMMA InitCaps == Init => ICollect /\ ICaps
<1> SUFFICES ASSUME Init PROVE ICollect /\ ICaps
  OBVIOUS
<1>1. \A t \in Threads : pc[t] = "idle"
  BY DEF Init
<1>2. pc[App] = "idle" /\ \A p \in Pads : pc[p] = "idle"
  BY <1>1 DEF Threads
<1>3. ICollect
  BY <1>2 DEF Init, ICollect
<1>4. Background \subseteq Pads /\ \A b \in Background : ~Known(b)
  BY InitTyped, ListedAreTyped DEF Init, ITyped, TypedState, Background, Known
<1>5. InSync /\ Turns
  BY <1>2, <1>4 DEF InSync, Turns, TurnPCs
<1>6. IPlay /\ Announced
  BY <1>2 DEF Init, IPlay, Announced, Announcing, InTurn, TurnPCs
<1> QED BY <1>3, <1>5, <1>6 DEF ICaps

LEMMA CapsInvariant == Spec => [](IBase /\ ICaps)
<1>1. ITyped /\ Owned /\ ILocks /\ ICollect /\ [Next]_vars => ICollect'
  BY CollectStep
<1>2. IBase /\ ICaps /\ [Next]_vars => ICaps'
  BY CapsStep
<1>3. IBase <=> ITyped /\ Owned /\ ILocks /\ ICollect
  BY DEF IBase
<1> QED BY <1>1, <1>2, <1>3, InitCaps, LocksInvariant, PTL DEF Spec

(* gst_videoblend_collected pushes a buffer only when gst_pad_set_caps has *)
(* given downstream the caps of the output.                                *)
THEOREM PushedCapsAreAnnounced == Spec => []AnnouncedIsCurrent
<1>1. ICaps => AnnouncedIsCurrent
  BY DEF ICaps, Announced, Announcing, AnnouncedIsCurrent
<1> QED BY <1>1, CapsInvariant, PTL

LEMMA BlendsUndisturbed ==
    ASSUME IBase, ICaps, [Next]_vars, NEW t \in Pads, pc[t] = "blend", pc'[t] = "blend"
    PROVE  /\ UNCHANGED <<sinkpads, blend_info>>
           /\ \A p \in Listed : info'[p] = info[p]
<1> USE DEF padVars, appVars, capsVars
<1>1. lock = t /\ pc[t] \in TurnPCs /\ lock # Nobody
  BY Distinct DEF IBase, ILocks, HasLock, TurnPCs
<1>2. PCs /\ Apart /\ Listed \subseteq Pads
  BY ListedAreTyped DEF IBase, ITyped, TypedState
<1>3. ASSUME NEW p \in Pads, Acts(p), p # t
      PROVE  UNCHANGED <<sinkpads, blend_info, info>>
  <2>1. SameCaps
    BY <1>1, <1>3, OthersInTurn
  <2>2. ~StoreInfo(p)
    BY <1>1 DEF StoreInfo
  <2> QED BY <1>2, <1>3, <2>1, <2>2, ActInfo, ActFrame DEF SameCaps
<1>4. ~Acts(t)
  <2>1. ASSUME Acts(t) PROVE FALSE
    <3>1. LockMoves(t)
      BY <2>1, ActSummary
    <3> QED BY <3>1, <1>1 DEF LockMoves, HasLock
  <2> QED BY <2>1
<1>5. CASE \E p \in Pads : RequestNewPad(p) \/ ReleasePad(p)
  BY <1>1, <1>5 DEF RequestNewPad, ReleasePad, WithLock
<1>6. CASE (\E p \in Pads : SetPosition(p)) \/ Start \/ Stop \/ CollectPadsRemovePad
  BY <1>6 DEF SetPosition, Start, Stop, CollectPadsRemovePad
<1>7. CASE UpdateInRelease
  <2>1. UNCHANGED <<sinkpads, info>>
    BY <1>7, UpdateMoves DEF UpdateInRelease
  <2> QED BY <1>1, <1>7, <2>1, ReleaseUpdates DEF ICaps
<1>8. CASE Reset
  BY <1>8 DEF Reset, Threads
<1>9. CASE DeactivatePad
  BY <1>2, <1>9 DEF DeactivatePad, Apart
<1>10. CASE UNCHANGED vars
  BY <1>10 DEF vars
<1> QED BY ActOrApp, <1>3, <1>4, <1>5, <1>6, <1>7, <1>8, <1>9, <1>10

(* "Lock to prevent the state to change while blending" holds of the list, *)
(* of the caps of the pads and of those of the output.                     *)
THEOREM NothingChangesWhileBlending == Spec => StateStaysWhileBlending
<1>1. IBase /\ ICaps /\ [Next]_vars =>
        [\A t \in Pads : pc[t] = "blend" /\ pc'[t] = "blend" =>
            /\ UNCHANGED <<sinkpads, blend_info>>
            /\ \A p \in Listed : info'[p] = info[p]]_vars
  BY BlendsUndisturbed
<1> QED BY <1>1, CapsInvariant, PTL DEF Spec, StateStaysWhileBlending

=============================================================================
