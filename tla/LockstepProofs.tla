--------------------------- MODULE LockstepProofs ---------------------------
(***************************************************************************)
(* Netplay is typed, its ports are sound, and it keeps the machines of an  *)
(* epoch on one script of inputs, and so implements Lockstep, for every    *)
(* number of guests, delay and bound.  It keeps them within Delay + 1      *)
(* fields of each other, and its alarm is sound: every hash is compared    *)
(* with the host's of the same field, and one of a machine that did not    *)
(* diverge is equal.                                                       *)
(***************************************************************************)
EXTENDS Netplay, FiniteSetTheorems, WellFoundedInduction, TLAPS

----------------------------------------------------------------------------
(* The operators the host's tables are built with. *)

PadTable == [Fields -> [Slots -> Opt(Pads)]]
Streams == [Guests -> Seq(DownMsg)]

\* A frame built from typed tables is a frame: absent pads are neutral.
LEMMA FrameOfType ==
  ASSUME NEW part \in PadTable, NEW pv \in Map(Views), NEW f \in Fields
  PROVE  FrameOf(part, pv, f) \in Frame
BY DEF PadTable, FrameOf, Frame, Map, Opt, Views

\* Dealing a message to the live links keeps the streams typed.
LEMMA BroadcastType ==
  ASSUME NEW dn \in Streams, NEW m \in DownMsg
  PROVE  Broadcast(dn, m) \in Streams
BY DEF Broadcast, Streams

\* A frame message is a message.
LEMMA InMsgType ==
  ASSUME NEW ep \in Epochs, NEW f \in Fields, NEW fr \in Frame
  PROVE  [t |-> "in", ep |-> ep, f |-> f, fr |-> fr] \in DownMsg
BY DEF DownMsg

TablesTyped ==
  /\ ready \in Map(Frame) /\ partial \in PadTable /\ partialView \in Map(Views)
  /\ down \in Streams /\ script \in [Epochs -> Map(Frame)]

\* tryComplete leaves the host's tables typed.
LEMMA TryCompleteType ==
  ASSUME NEW rd \in Map(Frame), NEW part \in PadTable, NEW pv \in Map(Views),
         NEW dn \in Streams, NEW scr \in [Epochs -> Map(Frame)], NEW ep \in Epochs,
         NEW m, NEW f \in Fields, TryComplete(rd, part, pv, dn, scr, ep, m, f)
  PROVE  TablesTyped'
<1> DEFINE fr == FrameOf(part, pv, f)
<1>1. fr \in Frame
  BY FrameOfType
<1>2. Broadcast(dn, [t |-> "in", ep |-> ep, f |-> f, fr |-> fr]) \in Streams
  BY <1>1, InMsgType, BroadcastType
<1> HIDE DEF fr
<1>3. Empty \in [Slots -> Opt(Pads)]
  BY DEF Empty, Opt
<1>4. [rd EXCEPT ![f] = fr] \in Map(Frame)
  BY <1>1 DEF Map, Opt
<1>5. [pv EXCEPT ![f] = None] \in Map(Views)
  BY DEF Map, Opt
<1>6. [part EXCEPT ![f] = Empty] \in PadTable
  BY <1>3 DEF PadTable
<1>7. [scr EXCEPT ![ep][f] = fr] \in [Epochs -> Map(Frame)]
  BY <1>1 DEF Map, Opt
<1>8. CASE Complete(part, m, f)
  BY <1>2, <1>4, <1>5, <1>6, <1>7, <1>8 DEF TryComplete, TablesTyped, fr
<1>9. CASE ~Complete(part, m, f)
  BY <1>9 DEF TryComplete, TablesTyped
<1> QED BY <1>8, <1>9

\* ... and so does submit.
LEMMA SubmitType ==
  ASSUME NEW rd \in Map(Frame), NEW part \in PadTable, NEW pv \in Map(Views),
         NEW dn \in Streams, NEW scr \in [Epochs -> Map(Frame)], NEW ep \in Epochs,
         NEW m, NEW fld, NEW s \in Slots, NEW f \in Fields, NEW p \in Pads,
         Submit(rd, part, pv, dn, scr, ep, m, fld, s, f, p)
  PROVE  TablesTyped'
<1>1. [part EXCEPT ![f][s] = p] \in PadTable
  BY DEF PadTable, Opt
<1>2. CASE Stale(rd, fld, f)
  BY <1>2 DEF Submit, TablesTyped
<1>3. CASE ~Stale(rd, fld, f)
  <2>1. TryComplete(rd, [part EXCEPT ![f][s] = p], pv, dn, scr, ep, m, f)
    BY <1>3 DEF Submit
  <2> QED BY <1>1, <2>1, TryCompleteType
<1> QED BY <1>2, <1>3

\* The hash of typed frames is a hash.
LEMMA HashType ==
  ASSUME NEW b \in BOOLEAN, NEW played \in Map(Frame)
  PROVE  cpuHash(b, played) \in Hash
BY DEF cpuHash, Hash, Map, Opt, Frame

\* Dropping old hashes keeps the table typed.
LEMMA PruneType ==
  ASSUME NEW mh \in Map(Hash)
  PROVE  PruneHash(mh) \in Map(Hash)
BY DEF PruneHash, KeepHashes, Map, Opt

----------------------------------------------------------------------------
(* Type correctness. *)

\* TypeOK is inductive once a synchronisation in progress is known to have an
\* epoch left to open.
TypeInv == TypeOK /\ (hpc = "sync" => epoch < MaxEpoch)

HostTyped ==
  /\ hpc \in {"run", "wait", "sync", "off"}
  /\ synced \in BOOLEAN /\ epoch \in Epochs /\ field \in 0 .. MaxField
  /\ mask \subseteq Slots /\ pendingMask \subseteq Slots /\ pend \subseteq Fields
  /\ hostView \in Views /\ gView \in Views
  /\ netSyncReq \in BOOLEAN /\ hplayed \in Map(Frame)
HashTyped ==
  /\ myHash \in Map(Hash) /\ peerHash \subseteq [slot : Slots, f : Fields, h : Hash]
  /\ desyncs \subseteq BOOLEAN
LinkTyped ==
  /\ link \in [Guests -> {"none", "hello", "alive", "dead"}]
  /\ lslot \in [Guests -> Slots] /\ open \in [Guests -> BOOLEAN]
  /\ up \in [Guests -> Seq(UpMsg)]

\* TypeOK in the groups the actions work with.
LEMMA TypeOKParts ==
  TypeOK <=> HostTyped /\ HashTyped /\ TablesTyped /\ LinkTyped /\ gs \in [Guests -> Guest]
BY DEF TypeOK, HostTyped, HashTyped, TablesTyped, LinkTyped, PadTable, Streams

\* The same of the next state.
LEMMA TypeInvNext ==
  HostTyped' /\ HashTyped' /\ TablesTyped' /\ LinkTyped' /\ (gs \in [Guests -> Guest])'
    /\ (hpc = "sync" => epoch < MaxEpoch)' => TypeInv'
BY DEF TypeInv, TypeOK, HostTyped, HashTyped, TablesTyped, LinkTyped, PadTable, Streams

\* Field and epoch 0 and port 0 exist, and so do the empty tables.
LEMMA Empties ==
  /\ 0 \in Slots /\ 0 \in Fields /\ 0 \in Epochs /\ 0 \in 0 .. MaxField
  /\ Delay \in Fields
  /\ NoPads \in PadTable
  /\ \A S : NoMap \in Map(S)
  /\ \A v \in Views : viewFrame(v) \in Frame /\ Prefill(v) \in Map(Frame)
                      /\ Prefill(v)[0] = viewFrame(v)
<1> USE SlotsAssumption, DelayAssumption, BoundAssumption
<1>1. /\ 0 \in Slots /\ 0 \in Fields /\ 0 \in Epochs /\ 0 \in 0 .. MaxField
      /\ Delay \in Fields
  BY DEF Slots, Fields, Epochs
<1>2. NoPads \in PadTable /\ \A S : NoMap \in Map(S)
  BY DEF NoPads, Empty, PadTable, Opt, NoMap, Map
<1>3. \A v \in Views : viewFrame(v) \in Frame
  BY DEF viewFrame, Frame, Views
<1>4. \A v \in Views : Prefill(v) \in Map(Frame)
  BY <1>3 DEF Prefill, Map, Opt
<1>5. \A v \in Views : Prefill(v)[0] = viewFrame(v)
  BY <1>1 DEF Prefill
<1> QED BY <1>1, <1>2, <1>3, <1>4, <1>5

\* The machines start typed.
LEMMA TypeInit == Init => TypeInv
<1> SUFFICES ASSUME Init PROVE TypeInv
  OBVIOUS
<1>1. HostTyped
  BY Empties DEF Init, HostTyped, Views
<1>2. HashTyped
  BY Empties DEF Init, HashTyped
<1>3. TablesTyped
  BY Empties DEF Init, TablesTyped, Streams
<1>4. LinkTyped
  BY Empties DEF Init, LinkTyped
<1>5. gs \in [Guests -> Guest]
  <2>1. NoMap \in Map(Frame)
    BY Empties
  <2> QED BY <2>1, Empties DEF Init, Guest, Views
<1> QED BY <1>1, <1>2, <1>3, <1>4, <1>5, TypeOKParts DEF TypeInv, Init

\* A step that leaves the host's own variables alone leaves them typed.
LEMMA HostUnchanged ==
  ASSUME TypeInv, UNCHANGED hostVars
  PROVE  HostTyped' /\ HashTyped'
         /\ (ready \in Map(Frame) /\ partial \in PadTable /\ partialView \in Map(Views)
             /\ script \in [Epochs -> Map(Frame)])'
         /\ (hpc = "sync" => epoch < MaxEpoch)'
BY TypeOKParts DEF TypeInv, hostVars, sessVars, tableVars, viewVars, hashVars, HostTyped,
   HashTyped, TablesTyped

\* hostSubmit keeps the tables typed.
LEMMA HostSubmitType ==
  ASSUME NEW rd \in Map(Frame), NEW part \in PadTable, NEW pv \in Map(Views),
         NEW dn \in Streams, NEW scr \in [Epochs -> Map(Frame)], NEW ep \in Epochs,
         NEW m, NEW fld, NEW f \in Fields, NEW p \in Pads, hostView \in Views,
         HostSubmit(rd, part, pv, dn, scr, ep, m, fld, f, p)
  PROVE  TablesTyped'
<1>1. [pv EXCEPT ![f] = hostView] \in Map(Views)
  BY DEF Map, Opt
<1>2. Submit(rd, part, [pv EXCEPT ![f] = hostView], dn, scr, ep, m, fld, 0, f, p)
  BY DEF HostSubmit
<1>3. 0 \in Slots
  BY Empties
<1> QED BY <1>1, <1>2, <1>3, SubmitType

\* compareHash keeps the counters typed.
LEMMA CompareType ==
  ASSUME NEW hs \in SUBSET Hash, NEW mine, CompareHash(hs, mine),
         desyncs \subseteq BOOLEAN, netSyncReq \in BOOLEAN
  PROVE  desyncs' \subseteq BOOLEAN /\ netSyncReq' \in BOOLEAN
BY DEF CompareHash, Hash

\* The host's core loop keeps everything typed.
LEMMA HostCoreType == TypeInv /\ HostCore => TypeInv'
<1> SUFFICES ASSUME TypeInv, HostCore PROVE TypeInv'
  OBVIOUS
<1> USE SlotsAssumption, DelayAssumption, BoundAssumption
<1>0. HostTyped /\ HashTyped /\ TablesTyped /\ LinkTyped /\ gs \in [Guests -> Guest]
  BY TypeOKParts DEF TypeInv
<1>1. CASE HostField
  <2>1. PICK p \in Pads : HostSubmit(ready, partial, partialView, down, script, epoch,
                                     mask, field + 1, field + 1 + Delay, p)
    BY <1>1 DEF HostField
  <2>2. field + 1 + Delay \in Fields /\ field + 1 \in Fields /\ field + 1 \in 0 .. MaxField
    BY <1>0, <1>1 DEF HostField, HostTyped, Fields
  <2>3. TablesTyped'
    BY <1>0, <2>1, <2>2, HostSubmitType DEF HostTyped, TablesTyped
  <2>4. HostHash(field + 1)
    BY <1>1 DEF HostField
  <2>5. HashTyped' /\ netSyncReq' \in BOOLEAN
    <3>1. CASE (field + 1) % HashEvery # 0
      BY <1>0, <2>4, <3>1 DEF HostHash, hashVars, HashTyped, HostTyped
    <3>2. CASE ~((field + 1) % HashEvery # 0)
      <4> DEFINE mine == cpuHash(FALSE, hplayed)
                 hs == {e.h : e \in {e \in peerHash : e.f = field + 1}}
      <4>1. mine \in Hash
        BY <1>0, HashType DEF HostTyped
      <4>2. hs \in SUBSET Hash
        BY <1>0 DEF HashTyped
      <4>3. /\ myHash' = PruneHash([myHash EXCEPT ![field + 1] = mine])
            /\ CompareHash(hs, mine)
            /\ peerHash' = {e \in peerHash : e.f > field + 1}
        BY <2>4, <3>2 DEF HostHash
      <4> HIDE DEF mine, hs
      <4>4. [myHash EXCEPT ![field + 1] = mine] \in Map(Hash)
        BY <1>0, <4>1 DEF HashTyped, Map, Opt
      <4>5. myHash' \in Map(Hash)
        BY <4>3, <4>4, PruneType
      <4>6. desyncs' \subseteq BOOLEAN /\ netSyncReq' \in BOOLEAN
        BY <1>0, <4>2, <4>3, CompareType DEF HashTyped, HostTyped
      <4>7. peerHash' \subseteq [slot : Slots, f : Fields, h : Hash]
        BY <1>0, <4>3 DEF HashTyped
      <4> QED BY <4>5, <4>6, <4>7 DEF HashTyped
    <3> QED BY <3>1, <3>2
  <2>6. HostTyped' /\ LinkTyped' /\ (gs \in [Guests -> Guest])' /\ hpc' = "wait"
    BY <1>0, <1>1, <2>2, <2>5, <2>3 DEF HostField, HostTyped, LinkTyped, viewVars, connVars
  <2> QED BY <2>3, <2>5, <2>6, TypeInvNext
<1>2. CASE HostTake
  <2>1. field \in Fields
    BY <1>0 DEF HostTyped, Fields
  <2>2. ready[field] \in Frame /\ ready[field].view \in Views
    BY <1>0, <1>2, <2>1 DEF HostTake, TablesTyped, Map, Opt, Frame
  <2>3. hplayed' \in Map(Frame) /\ ready' \in Map(Frame)
    BY <1>0, <1>2, <2>1, <2>2 DEF HostTake, HostTyped, TablesTyped, EraseBelow, Map, Opt
  <2>4. HostTyped' /\ HashTyped' /\ TablesTyped' /\ LinkTyped' /\ (gs \in [Guests -> Guest])'
    BY <1>0, <1>2, <2>2, <2>3 DEF HostTake, HostTyped, HashTyped, TablesTyped, LinkTyped,
       hashVars, linkVars, connVars
  <2> QED BY <1>2, <2>4, TypeInvNext DEF HostTake
<1>3. CASE HostTakeReq
  <2>1. HostTyped' /\ HashTyped' /\ TablesTyped' /\ LinkTyped' /\ (gs \in [Guests -> Guest])'
    BY <1>0, <1>3 DEF HostTakeReq, HostTyped, HashTyped, TablesTyped, LinkTyped,
       hashVars, linkVars, connVars, tableVars, viewVars
  <2> QED BY <1>3, <2>1, TypeInvNext DEF HostTakeReq
<1>4. CASE ServiceSync
  <2> DEFINE syn == [t |-> "sync", ep |-> NextEpoch]
             scr == [script EXCEPT ![NextEpoch] = Prefill(gView)]
             dn == Broadcast(down, syn)
  <2>1. NextEpoch \in Epochs
    BY <1>0, <1>4 DEF TypeInv, ServiceSync, HostTyped, Epochs, NextEpoch
  <2>2. syn \in DownMsg
    BY <2>1 DEF DownMsg
  <2>3. dn \in Streams
    BY <1>0, <2>2, BroadcastType DEF TablesTyped
  <2>4. gView \in Views /\ hostView \in Views
    BY <1>0 DEF HostTyped
  <2>5. Prefill(gView) \in Map(Frame) /\ viewFrame(gView) \in Frame
    BY <2>4, Empties
  <2>6. scr \in [Epochs -> Map(Frame)]
    BY <1>0, <2>1, <2>5 DEF TablesTyped
  <2>7. PICK p \in Pads : HostSubmit(Prefill(gView), NoPads, NoMap, dn, scr, NextEpoch,
                                     NextMask, 0, Delay, p)
    BY <1>4 DEF ServiceSync
  <2> HIDE DEF syn, scr, dn
  <2>8. TablesTyped'
    BY <2>1, <2>3, <2>4, <2>5, <2>6, <2>7, Empties, HostSubmitType
  <2>9. NextMask \subseteq Slots
    BY <1>0, Empties DEF HostTyped, NextMask
  <2>10. [NoMap EXCEPT ![0] = viewFrame(gView)] \in Map(Frame)
    BY <2>5, Empties DEF Map, Opt
  <2>11. HostTyped' /\ hpc' = "run"
    BY <1>0, <1>4, <2>1, <2>9, <2>10, Empties DEF ServiceSync, HostTyped
  <2>12. HashTyped'
    BY <1>0, <1>4, Empties DEF ServiceSync, HashTyped
  <2>13. LinkTyped' /\ (gs \in [Guests -> Guest])'
    BY <1>0, <1>4 DEF ServiceSync, LinkTyped, connVars
  <2> QED BY <2>8, <2>11, <2>12, <2>13, TypeInvNext
<1> QED BY <1>1, <1>2, <1>3, <1>4 DEF HostCore

\* The host's receiving threads keep everything typed.
LEMMA HostRxType == ASSUME NEW g \in Guests PROVE TypeInv /\ HostRx(g) => TypeInv'
<1> SUFFICES ASSUME TypeInv, HostRx(g) PROVE TypeInv'
  OBVIOUS
<1>0. HostTyped /\ HashTyped /\ TablesTyped /\ LinkTyped /\ gs \in [Guests -> Guest]
  BY TypeOKParts DEF TypeInv
<1>a. ASSUME up[g] # <<>> PROVE Head(up[g]) \in UpMsg /\ Pop(up, g) \in [Guests -> Seq(UpMsg)]
  BY <1>0, <1>a DEF LinkTyped, Pop
<1>1. CASE HostRecvIn(g)
  <2> DEFINE m == Head(up[g])
  <2>1. m \in UpMsg /\ m.t = "in" /\ up' \in [Guests -> Seq(UpMsg)]
    BY <1>1, <1>a DEF HostRecvIn, Receives
  <2>2. m.f \in Fields /\ m.p \in Pads
    BY <2>1 DEF UpMsg
  <2>3. \/ Submit(ready, partial, partialView, down, script, epoch, mask, field,
                  lslot[g], m.f, m.p)
        \/ UNCHANGED <<tableVars, down>>
    BY <1>1 DEF HostRecvIn
  <2> HIDE DEF m
  <2>4. lslot[g] \in Slots /\ epoch \in Epochs
    BY <1>0 DEF LinkTyped, HostTyped
  <2>5. TablesTyped'
    <3>1. CASE UNCHANGED <<tableVars, down>>
      BY <1>0, <3>1 DEF TablesTyped, tableVars
    <3>2. CASE Submit(ready, partial, partialView, down, script, epoch, mask, field,
                      lslot[g], m.f, m.p)
      BY <1>0, <2>2, <2>4, <3>2, SubmitType DEF TablesTyped
    <3> QED BY <2>3, <3>1, <3>2
  <2>6. HostTyped' /\ HashTyped' /\ LinkTyped' /\ (gs \in [Guests -> Guest])'
        /\ (hpc = "sync" => epoch < MaxEpoch)'
    BY <1>0, <1>1, <2>1 DEF HostRecvIn, HostTyped, HashTyped, LinkTyped, sessVars, viewVars,
       hashVars, connVars, TypeInv
  <2> QED BY <2>5, <2>6, TypeInvNext
<1>2. CASE HostRecvHash(g)
  <2> DEFINE m == Head(up[g])
  <2>1. m \in UpMsg /\ m.t = "h" /\ up' \in [Guests -> Seq(UpMsg)]
    BY <1>2, <1>a DEF HostRecvHash, Receives
  <2>2. m.f \in Fields /\ m.h \in Hash
    BY <2>1 DEF UpMsg
  <2>3. \/ UNCHANGED <<peerHash, netSyncReq, desyncs>>
        \/ CompareHash({m.h}, myHash[m.f]) /\ UNCHANGED peerHash
        \/ /\ peerHash' = peerHash \cup {[slot |-> lslot[g], f |-> m.f, h |-> m.h]}
           /\ UNCHANGED <<netSyncReq, desyncs>>
    BY <1>2 DEF HostRecvHash
  <2> HIDE DEF m
  <2>4. lslot[g] \in Slots
    BY <1>0 DEF LinkTyped
  <2>5. peerHash' \subseteq [slot : Slots, f : Fields, h : Hash]
    BY <1>0, <2>2, <2>3, <2>4 DEF HashTyped
  <2>6. desyncs' \subseteq BOOLEAN /\ netSyncReq' \in BOOLEAN
    <3>1. CASE UNCHANGED <<netSyncReq, desyncs>>
      BY <1>0, <3>1 DEF HashTyped, HostTyped
    <3>2. CASE CompareHash({m.h}, myHash[m.f])
      <4>1. {m.h} \in SUBSET Hash
        BY <2>2
      <4> QED BY <1>0, <3>2, <4>1, CompareType DEF HashTyped, HostTyped
    <3> QED BY <2>3, <3>1, <3>2
  <2>7. HostTyped' /\ HashTyped' /\ TablesTyped' /\ LinkTyped' /\ (gs \in [Guests -> Guest])'
        /\ (hpc = "sync" => epoch < MaxEpoch)'
    BY <1>0, <1>2, <2>1, <2>5, <2>6 DEF HostRecvHash, HostTyped, HashTyped, TablesTyped,
       LinkTyped, sessVars, tableVars, viewVars, connVars, TypeInv
  <2> QED BY <2>7, TypeInvNext
<1>3. CASE HostRxEnd(g)
  <2>1. pend' \subseteq Fields
    BY <1>3 DEF HostRxEnd, HeldFields
  <2>2. mask' \subseteq Slots /\ pendingMask' \subseteq Slots
    BY <1>0, <1>3 DEF HostRxEnd, HostTyped, DropSlot
  <2>3. LinkTyped'
    BY <1>0, <1>3 DEF HostRxEnd, LinkTyped
  <2>4. HostTyped' /\ HashTyped' /\ TablesTyped' /\ (gs \in [Guests -> Guest])'
        /\ (hpc = "sync" => epoch < MaxEpoch)'
    BY <1>0, <1>3, <2>1, <2>2 DEF HostRxEnd, HostTyped, HashTyped, TablesTyped, tableVars,
       viewVars, hashVars, TypeInv
  <2> QED BY <2>3, <2>4, TypeInvNext
<1> QED BY <1>1, <1>2, <1>3 DEF HostRx

\* The loop that completes a leaving player's fields, the accepting thread and
\* the host's user keep everything typed.
LEMMA HostOtherType ==
  ASSUME TypeInv,
         \/ HostFlush \/ HostUser
         \/ \E g \in Guests : Admit(g) \/ Refuse(g)
  PROVE  TypeInv'
<1>0. HostTyped /\ HashTyped /\ TablesTyped /\ LinkTyped /\ gs \in [Guests -> Guest]
      /\ (hpc = "sync" => epoch < MaxEpoch)
  BY TypeOKParts DEF TypeInv
<1>1. CASE HostFlush
  <2>1. PICK f \in pend : /\ TryComplete(ready, partial, partialView, down, script, epoch,
                                         mask, f)
                          /\ pend' = pend \ {f}
    BY <1>1 DEF HostFlush
  <2>2. f \in Fields /\ epoch \in Epochs
    BY <1>0 DEF HostTyped
  <2>3. TablesTyped'
    BY <1>0, <2>1, <2>2, TryCompleteType DEF TablesTyped
  <2>4. HostTyped' /\ HashTyped' /\ LinkTyped' /\ (gs \in [Guests -> Guest])'
        /\ (hpc = "sync" => epoch < MaxEpoch)'
    BY <1>0, <1>1, <2>1 DEF HostFlush, HostTyped, HashTyped, LinkTyped, viewVars, hashVars,
       connVars
  <2> QED BY <2>3, <2>4, TypeInvNext
<1>2. CASE HostStop
  <2>1. HostTyped' /\ hpc' = "off"
    BY <1>0, <1>2 DEF HostStop, HostTyped, viewVars
  <2>2. LinkTyped'
    BY <1>0, <1>2 DEF HostStop, LinkTyped
  <2>3. HashTyped' /\ TablesTyped' /\ (gs \in [Guests -> Guest])'
    BY <1>0, <1>2 DEF HostStop, HashTyped, TablesTyped, tableVars, hashVars
  <2> QED BY <2>1, <2>2, <2>3, TypeInvNext
<1>3. ASSUME NEW mode \in ViewModes, setView(mode) PROVE TypeInv'
  <2>1. hostView' \in Views
    BY <1>3, ViewAssumption DEF setView, Views
  <2>2. HostTyped' /\ HashTyped' /\ TablesTyped' /\ LinkTyped' /\ (gs \in [Guests -> Guest])'
        /\ (hpc = "sync" => epoch < MaxEpoch)'
    BY <1>0, <1>3, <2>1 DEF setView, HostTyped, HashTyped, TablesTyped, LinkTyped, tableVars,
       sessVars, hashVars, linkVars, connVars
  <2> QED BY <2>2, TypeInvNext
<1>4. ASSUME NEW g \in Guests, Admit(g) PROVE TypeInv'
  <2>1. PICK s \in FreeSlots :
          /\ lslot' = [lslot EXCEPT ![g] = s]
          /\ pendingMask' = pendingMask \cup {s}
          /\ down' = [down EXCEPT ![g] = Append(@, [t |-> "welcome", slot |-> s])]
    BY <1>4 DEF Admit
  <2>2. s \in Slots /\ [t |-> "welcome", slot |-> s] \in DownMsg
    BY DEF FreeSlots, DownMsg
  <2>3. down' \in Streams
    BY <1>0, <2>1, <2>2 DEF TablesTyped, Streams
  <2>4. LinkTyped'
    BY <1>0, <1>4, <2>1, <2>2 DEF LinkTyped, Admit
  <2>5. HostTyped' /\ HashTyped' /\ TablesTyped' /\ (gs \in [Guests -> Guest])'
        /\ (hpc = "sync" => epoch < MaxEpoch)'
    BY <1>0, <1>4, <2>1, <2>2, <2>3 DEF Admit, HostTyped, HashTyped, TablesTyped, tableVars,
       viewVars, hashVars
  <2> QED BY <2>4, <2>5, TypeInvNext
<1>5. ASSUME NEW g \in Guests, Refuse(g) PROVE TypeInv'
  <2>1. LinkTyped' /\ down' = down /\ (gs \in [Guests -> Guest])' /\ UNCHANGED hostVars
    BY <1>0, <1>5 DEF LinkTyped, Refuse
  <2> QED BY <1>0, <2>1, HostUnchanged, TypeInvNext DEF TablesTyped
<1> QED BY <1>1, <1>2, <1>3, <1>4, <1>5 DEF HostUser

\* What a guest receives is typed, and so is what is left of the stream.
LEMMA ReceiveType ==
  ASSUME NEW g \in Guests, TypeInv, down[g] # <<>>
  PROVE  Head(down[g]) \in DownMsg /\ Pop(down, g) \in Streams
BY TypeOKParts DEF TypeInv, TablesTyped, Streams, Pop

\* A guest's step that leaves its record and both streams typed keeps TypeInv.
LEMMA GuestStepType ==
  ASSUME TypeInv, UNCHANGED hostVars, gs' \in [Guests -> Guest], down' \in Streams,
         up' \in [Guests -> Seq(UpMsg)],
         link' \in [Guests -> {"none", "hello", "alive", "dead"}],
         open' \in [Guests -> BOOLEAN], lslot' = lslot
  PROVE  TypeInv'
<1>1. LinkTyped'
  BY TypeOKParts DEF TypeInv, LinkTyped
<1>2. TablesTyped'
  BY HostUnchanged DEF TablesTyped
<1> QED BY <1>1, <1>2, HostUnchanged, TypeInvNext

\* The guests' threads, their users and the environment keep everything typed.
LEMMA GuestType ==
  ASSUME NEW g \in Guests, TypeInv,
         \/ Join(g) \/ GuestJoin(g) \/ GuestRx(g) \/ GuestCore(g)
         \/ GuestStop(g) \/ Break(g) \/ Diverge(g)
  PROVE  TypeInv'
<1>g. gs \in [Guests -> Guest]
  BY TypeOKParts DEF TypeInv
<1>r. gs[g] \in Guest
  BY <1>g
<1>u. ASSUME NEW r \in Guest, gs' = [gs EXCEPT ![g] = r] PROVE gs' \in [Guests -> Guest]
  BY <1>g, <1>u
<1>0. /\ gs \in [Guests -> Guest] /\ down \in Streams /\ up \in [Guests -> Seq(UpMsg)]
      /\ link \in [Guests -> {"none", "hello", "alive", "dead"}]
      /\ open \in [Guests -> BOOLEAN]
  BY TypeOKParts DEF TypeInv, TablesTyped, LinkTyped
<1>s. ASSUME NEW ms \in Seq(UpMsg), SendUp(g, ms) PROVE up' \in [Guests -> Seq(UpMsg)]
  BY <1>0, <1>s DEF SendUp
<1>1. CASE Join(g)
  <2>1. gs' \in [Guests -> Guest]
    BY <1>g, <1>1 DEF Join, Guest
  <2> QED BY <1>0, <1>1, <2>1, GuestStepType DEF Join
<1>2. CASE JoinOk(g)
  <2>1. gs' \in [Guests -> Guest]
    BY <1>g, <1>2 DEF JoinOk, Guest
  <2>2. down' \in Streams
    BY <1>2, ReceiveType DEF JoinOk, Receives
  <2> QED BY <1>0, <1>2, <2>1, <2>2, GuestStepType DEF JoinOk, connVars
<1>3. CASE JoinFail(g)
  <2>1. gs' \in [Guests -> Guest]
    BY <1>g, <1>3 DEF JoinFail, Guest
  <2> QED BY <1>0, <1>3, <2>1, GuestStepType DEF JoinFail, linkVars, connVars
<1>4. CASE GuestRecvIn(g)
  <2> DEFINE m == Head(down[g])
  <2>1. m \in DownMsg /\ m.t = "in" /\ down' \in Streams
    BY <1>4, ReceiveType DEF GuestRecvIn, Receives
  <2>2. m.f \in Fields /\ m.fr \in Frame
    BY <2>1 DEF DownMsg
  <2>3. gs' = [gs EXCEPT ![g].ready[m.f] = m.fr] \/ gs' = gs
    BY <1>4 DEF GuestRecvIn
  <2> HIDE DEF m
  <2>4. gs' \in [Guests -> Guest]
    <3> DEFINE q == [gs[g].ready EXCEPT ![m.f] = m.fr]
               r == [gs[g] EXCEPT !.ready = q]
    <3>1. q \in Map(Frame)
      BY <1>r, <2>2 DEF Guest, Map, Opt
    <3>2. r \in Guest
      <4> HIDE DEF q
      <4> QED BY <1>r, <3>1 DEF Guest
    <3>3. gs' = [gs EXCEPT ![g] = r] \/ gs' = gs
      BY <1>g, <2>3
    <3> QED BY <1>g, <1>u, <3>2, <3>3
  <2> QED BY <1>0, <1>4, <2>1, <2>4, GuestStepType DEF GuestRecvIn, connVars
<1>5. CASE GuestRecvSync(g)
  <2> DEFINE m == Head(down[g])
  <2>1. m \in DownMsg /\ m.t = "sync" /\ down' \in Streams
    BY <1>5, ReceiveType DEF GuestRecvSync, Receives
  <2>2. m.ep \in Epochs
    BY <2>1 DEF DownMsg
  <2>3. NoMap \in Map(Frame)
    BY Empties
  <2>4. gs' = [gs EXCEPT ![g].rxEpoch = m.ep, ![g].syncReady = TRUE, ![g].ready = NoMap]
    BY <1>5 DEF GuestRecvSync
  <2> HIDE DEF m
  <2>5. gs' \in [Guests -> Guest]
    <3> DEFINE r == [gs[g] EXCEPT !.rxEpoch = m.ep, !.syncReady = TRUE, !.ready = NoMap]
    <3>1. r \in Guest
      BY <1>r, <2>2, <2>3 DEF Guest
    <3>2. gs' = [gs EXCEPT ![g] = r]
      BY <2>4
    <3> QED BY <1>u, <3>1, <3>2
  <2> QED BY <1>0, <1>5, <2>1, <2>5, GuestStepType DEF GuestRecvSync, connVars
<1>6. CASE GuestRxEnd(g)
  <2>1. gs' \in [Guests -> Guest]
    <3> DEFINE r == [gs[g] EXCEPT !.lost = TRUE]
    <3>1. r \in Guest
      BY <1>r DEF Guest
    <3>2. gs' = [gs EXCEPT ![g] = r]
      BY <1>6 DEF GuestRxEnd
    <3> QED BY <1>u, <3>1, <3>2
  <2>2. down' \in Streams
    BY <1>0, <1>6 DEF GuestRxEnd, Streams
  <2> QED BY <1>0, <1>6, <2>1, <2>2, GuestStepType DEF GuestRxEnd, connVars
<1>7. CASE GoSolo(g) \/ GuestIdle(g) \/ GuestGiveUp(g) \/ ApplyFail(g) \/ ApplySkip(g)
           \/ Diverge(g)
  <2>1. gs' \in [Guests -> Guest]
    <3>1. PICK r \in {[gs[g] EXCEPT !.synced = FALSE], [gs[g] EXCEPT !.pc = "idle"],
                      [gs[g] EXCEPT !.pc = "run"], [gs[g] EXCEPT !.pc = "run", !.lost = TRUE],
                      [gs[g] EXCEPT !.pc = "run", !.health = Healed(gs[g].health)],
                      [gs[g] EXCEPT !.health = "bad"]} : gs' = [gs EXCEPT ![g] = r]
      BY <1>7 DEF GoSolo, GuestIdle, GuestGiveUp, ApplyFail, ApplySkip, Diverge
    <3>2. [gs[g] EXCEPT !.synced = FALSE] \in Guest /\ [gs[g] EXCEPT !.pc = "idle"] \in Guest
          /\ [gs[g] EXCEPT !.pc = "run"] \in Guest /\ [gs[g] EXCEPT !.health = "bad"] \in Guest
      BY <1>r DEF Guest
    <3>3. [gs[g] EXCEPT !.pc = "run", !.lost = TRUE] \in Guest
      BY <1>r DEF Guest
    <3>4. [gs[g] EXCEPT !.pc = "run", !.health = Healed(gs[g].health)] \in Guest
      BY <1>r DEF Guest, Healed
    <3> QED BY <1>u, <3>1, <3>2, <3>3, <3>4
  <2>2. UNCHANGED <<hostVars, linkVars>>
    BY <1>7 DEF GoSolo, GuestIdle, GuestGiveUp, ApplyFail, ApplySkip, Diverge
  <2> QED BY <1>0, <2>1, <2>2, GuestStepType DEF linkVars, connVars
<1>8. CASE GuestField(g)
  <2> DEFINE f == gs[g].field + 1
             in(p) == [t |-> "in", ep |-> gs[g].epoch, f |-> f + Delay, p |-> p]
             hash == [t |-> "h", ep |-> gs[g].epoch, f |-> f,
                      h |-> cpuHash(gs[g].health = "bad", gs[g].played)]
  <2>1. /\ f \in 0 .. MaxField /\ f \in Fields /\ f + Delay \in Fields
        /\ gs[g].epoch \in Epochs /\ gs[g].played \in Map(Frame)
    BY <1>g, <1>8, DelayAssumption, BoundAssumption DEF GuestField, Guest, Fields
  <2>2. hash \in UpMsg
    <3>1. (gs[g].health = "bad") \in BOOLEAN
      OBVIOUS
    <3>2. cpuHash(gs[g].health = "bad", gs[g].played) \in Hash
      BY <2>1, <3>1, HashType
    <3> HIDE DEF f
    <3> QED BY <2>1, <3>2 DEF UpMsg
  <2>3. \A p \in Pads : in(p) \in UpMsg
    <3> HIDE DEF f
    <3> QED BY <2>1 DEF UpMsg
  <2>4. PICK p \in Pads :
          SendUp(g, IF f % HashEvery = 0 THEN <<in(p), hash>> ELSE <<in(p)>>)
    BY <1>8 DEF GuestField
  <2>5. gs' \in [Guests -> Guest]
    BY <1>g, <1>8, <2>1 DEF GuestField, Guest
  <2>6. in(p) \in UpMsg
    BY <2>3
  <2> HIDE DEF f, in, hash
  <2>7. (IF f % HashEvery = 0 THEN <<in(p), hash>> ELSE <<in(p)>>) \in Seq(UpMsg)
    BY <2>2, <2>6
  <2>8. up' \in [Guests -> Seq(UpMsg)]
    BY <1>s, <2>4, <2>7
  <2> QED BY <1>0, <1>8, <2>5, <2>8, GuestStepType DEF GuestField, connVars
<1>9. CASE GuestTake(g)
  <2> DEFINE f == gs[g].field
             fr == gs[g].ready[f]
  <2>1. f \in Fields /\ gs[g].ready \in Map(Frame) /\ gs[g].played \in Map(Frame)
    BY <1>g, DelayAssumption, BoundAssumption DEF Guest, Fields
  <2>2. fr # None
    BY <1>9 DEF GuestTake, FrameFor
  <2>3. fr \in Frame /\ fr.view \in Views
    BY <2>1, <2>2 DEF Map, Opt, Frame
  <2>4. [gs[g].played EXCEPT ![f] = fr] \in Map(Frame)
        /\ EraseBelow(gs[g].ready, f) \in Map(Frame)
    BY <2>1, <2>3 DEF Map, Opt, EraseBelow
  <2>5. gs' = [gs EXCEPT ![g].pc = "run", ![g].view = fr.view,
                         ![g].played = [gs[g].played EXCEPT ![f] = fr],
                         ![g].ready = EraseBelow(gs[g].ready, f)]
    BY <1>g, <1>9 DEF GuestTake, FrameFor, Guest
  <2> HIDE DEF f, fr
  <2>6. gs' \in [Guests -> Guest]
    <3> DEFINE r == [gs[g] EXCEPT !.pc = "run", !.view = fr.view,
                                   !.played = [gs[g].played EXCEPT ![f] = fr],
                                   !.ready = EraseBelow(gs[g].ready, f)]
    <3>1. r \in Guest
      BY <1>r, <2>3, <2>4 DEF Guest
    <3>2. gs' = [gs EXCEPT ![g] = r]
      BY <2>5
    <3> QED BY <1>u, <3>1, <3>2
  <2> QED BY <1>0, <1>9, <2>6, GuestStepType DEF GuestTake, linkVars, connVars
<1>10. CASE ApplyBegin(g)
  <2>1. gs' \in [Guests -> Guest]
    BY <1>g, <1>10 DEF ApplyBegin, Guest
  <2> QED BY <1>0, <1>10, <2>1, GuestStepType DEF ApplyBegin, linkVars, connVars
<1>11. CASE ApplyEnd(g)
  <2> DEFINE rd == [f \in Fields |-> IF gs[g].ready[f] # None THEN gs[g].ready[f]
                                     ELSE Prefill(gs[g].view)[f]]
             first == [NoMap EXCEPT ![0] = rd[0]]
  <2>1. gs[g].ready \in Map(Frame) /\ gs[g].view \in Views /\ gs[g].syncing \in Epochs
    BY <1>g DEF Guest
  <2>2. Prefill(gs[g].view) \in Map(Frame) /\ Prefill(gs[g].view)[0] \in Frame
    BY <2>1, Empties
  <2>3. rd \in Map(Frame)
    BY <2>1, <2>2 DEF Map
  <2>4. rd[0] \in Frame
    BY <2>1, <2>2, Empties DEF Map, Opt
  <2>5. first \in Map(Frame) /\ rd[0].view \in Views
    BY <2>4, Empties DEF Map, Opt, Frame
  <2>6. gs' = [gs EXCEPT ![g].pc = "run", ![g].health = Healed(gs[g].health),
                         ![g].epoch = gs[g].syncing, ![g].field = 0,
                         ![g].synced = TRUE, ![g].ready = rd, ![g].view = rd[0].view,
                         ![g].played = first]
    BY <1>g, <1>11 DEF ApplyEnd, Guest
  <2> HIDE DEF rd, first
  <2>7. gs' \in [Guests -> Guest]
    <3> DEFINE r == [gs[g] EXCEPT !.pc = "run", !.health = Healed(gs[g].health),
                                   !.epoch = gs[g].syncing, !.field = 0, !.synced = TRUE,
                                   !.ready = rd, !.view = rd[0].view, !.played = first]
    <3>1. r \in Guest
      BY <1>r, <2>1, <2>3, <2>5, Empties DEF Guest, Healed
    <3>2. gs' = [gs EXCEPT ![g] = r]
      BY <2>6
    <3> QED BY <1>u, <3>1, <3>2
  <2>8. PICK p \in Pads :
          SendUp(g, <<[t |-> "in", ep |-> gs[g].syncing, f |-> Delay, p |-> p]>>)
    BY <1>11 DEF ApplyEnd
  <2>9. [t |-> "in", ep |-> gs[g].syncing, f |-> Delay, p |-> p] \in UpMsg
    BY <2>1, Empties DEF UpMsg
  <2>10. up' \in [Guests -> Seq(UpMsg)]
    <3>1. <<[t |-> "in", ep |-> gs[g].syncing, f |-> Delay, p |-> p]>> \in Seq(UpMsg)
      BY <2>9
    <3> QED BY <1>s, <2>8, <3>1
  <2> QED BY <1>0, <1>11, <2>7, <2>10, GuestStepType DEF ApplyEnd, connVars
<1>12. CASE GuestStop(g)
  <2>1. gs' \in [Guests -> Guest]
    <3> DEFINE r == [gs[g] EXCEPT !.pc = "off", !.synced = FALSE]
    <3>1. r \in Guest
      BY <1>r DEF Guest
    <3>2. gs' = [gs EXCEPT ![g] = r]
      BY <1>12 DEF GuestStop
    <3> QED BY <1>u, <3>1, <3>2
  <2>2. down' \in Streams
    BY <1>0, <1>12 DEF GuestStop, Streams
  <2> QED BY <1>0, <1>12, <2>1, <2>2, GuestStepType DEF GuestStop
<1>13. CASE Break(g)
  BY <1>0, <1>13, GuestStepType DEF Break
<1> QED BY <1>1, <1>2, <1>3, <1>4, <1>5, <1>6, <1>7, <1>8, <1>9, <1>10, <1>11, <1>12, <1>13
        DEF GuestJoin, GuestRx, GuestCore

\* The steps of a session keep TypeInv.
LEMMA TypeStep == TypeInv /\ [Next]_vars => TypeInv'
<1> SUFFICES ASSUME TypeInv, [Next]_vars PROVE TypeInv'
  OBVIOUS
<1>1. CASE HostCore
  BY <1>1, HostCoreType
<1>2. CASE HostFlush \/ HostUser \/ \E g \in Guests : Admit(g) \/ Refuse(g)
  BY <1>2, HostOtherType
<1>3. CASE \E g \in Guests : HostRx(g)
  BY <1>3, HostRxType
<1>4. CASE \E g \in Guests : \/ Join(g) \/ GuestJoin(g) \/ GuestRx(g) \/ GuestCore(g)
                             \/ GuestStop(g) \/ Break(g) \/ Diverge(g)
  BY <1>4, GuestType
<1>5. CASE UNCHANGED vars
  BY <1>5 DEF vars, hostVars, linkVars, connVars, sessVars, tableVars, viewVars, hashVars,
     TypeInv, TypeOK
<1> QED BY <1>1, <1>2, <1>3, <1>4, <1>5 DEF Next

\* Type correctness: in every state of a session every table, stream and record
\* holds what the code's types say, for every number of guests and every delay.
THEOREM TypeCorrect == Spec => []TypeOK
<1>1. TypeInv => TypeOK
  BY DEF TypeInv
<1> QED BY <1>1, TypeInit, TypeStep, PTL DEF Spec

----------------------------------------------------------------------------
(* Ports. *)

\* Who has not called join() has no link: joining cannot take a live link away.
OutUnlinked == \A g \in Guests : gs[g].pc = "out" => link[g] = "none"
PortInv == OnePlayerPerPort /\ OnlyLiveAwaited /\ OutUnlinked

\* Steps that touch no link and no mask, and call no guest back outside.
LEMMA PortsUntouched ==
  ASSUME PortInv, UNCHANGED <<mask, pendingMask, link, lslot>>,
         HostOn' => HostOn,
         \A g \in Guests : gs'[g].pc = "out" => gs[g].pc = "out"
  PROVE  PortInv'
BY DEF PortInv, OnePlayerPerPort, OnlyLiveAwaited, OutUnlinked, Alive, InGame

\* A guest's step changes its own record only, and never to "out".
LEMMA GuestStaysIn ==
  ASSUME NEW g \in Guests, gs \in [Guests -> Guest],
         \/ JoinOk(g) \/ JoinFail(g) \/ GuestRx(g) \/ GuestCore(g) \/ GuestStop(g) \/ Diverge(g)
  PROVE  \A k \in Guests : gs'[k].pc = "out" => gs[k].pc = "out"
<1>r. gs[g] \in Guest
  OBVIOUS
<1>1. CASE JoinOk(g) \/ JoinFail(g) \/ GuestStop(g) \/ GuestIdle(g) \/ GuestGiveUp(g)
           \/ ApplyFail(g)
  BY <1>1, <1>r DEF JoinOk, JoinFail, GuestStop, GuestIdle, GuestGiveUp, ApplyFail, Guest
<1>2. CASE GuestRecvIn(g) \/ GuestRecvSync(g) \/ GuestRxEnd(g) \/ GoSolo(g) \/ Diverge(g)
  BY <1>2, <1>r DEF GuestRecvIn, GuestRecvSync, GuestRxEnd, GoSolo, Diverge, Guest
<1>3. CASE GuestField(g) \/ GuestTake(g)
  BY <1>3, <1>r DEF GuestField, GuestTake, Guest
<1>4. CASE ApplyBegin(g) \/ ApplySkip(g)
  BY <1>4, <1>r DEF ApplyBegin, ApplySkip, Guest
<1>5. CASE ApplyEnd(g)
  <2>1. \A k \in Guests \ {g} : gs'[k] = gs[k]
    BY <1>5 DEF ApplyEnd
  <2>2. gs'[g].pc = "run"
    BY <1>5, <1>r DEF ApplyEnd, Guest
  <2> QED BY <2>1, <2>2
<1> QED BY <1>1, <1>2, <1>3, <1>4, <1>5 DEF GuestRx, GuestCore

\* Every step keeps the ports right.
LEMMA PortStep == TypeInv /\ PortInv /\ [Next]_vars => PortInv'
<1> SUFFICES ASSUME TypeInv, PortInv, [Next]_vars PROVE PortInv'
  OBVIOUS
<1>g. gs \in [Guests -> Guest] /\ lslot \in [Guests -> Slots]
      /\ link \in [Guests -> {"none", "hello", "alive", "dead"}]
  BY DEF TypeInv, TypeOK
<1>1. CASE HostField \/ HostTake \/ HostTakeReq
  <2>1. UNCHANGED <<mask, pendingMask, link, lslot, gs>> /\ HostOn
    BY <1>1 DEF HostField, HostTake, HostTakeReq, linkVars, connVars, HostOn
  <2> QED BY <2>1, PortsUntouched
<1>2. CASE ServiceSync
  <2>1. /\ UNCHANGED <<link, lslot, gs>>
        /\ mask' = {s \in mask \cup pendingMask \cup {0} : s \in InGame} /\ pendingMask' = {}
    BY <1>2 DEF ServiceSync, NextMask, connVars
  <2>2. Alive' = Alive /\ InGame' = InGame
    BY <2>1 DEF Alive, InGame
  <2>3. OnlyLiveAwaited'
    BY <2>1, <2>2 DEF OnlyLiveAwaited, InGame
  <2>4. OnePlayerPerPort' /\ OutUnlinked'
    BY <2>1, <2>2 DEF PortInv, OnePlayerPerPort, OutUnlinked
  <2> QED BY <2>3, <2>4 DEF PortInv
<1>3. CASE HostFlush \/ \E m \in ViewModes : setView(m)
  <2>1. UNCHANGED <<mask, pendingMask, link, lslot, gs, hpc>>
    BY <1>3 DEF HostFlush, setView, linkVars, connVars, sessVars
  <2> QED BY <2>1, PortsUntouched DEF HostOn
<1>4. CASE HostStop
  <2>1. Alive' = {} /\ ~HostOn' /\ gs' = gs
    BY <1>4 DEF HostStop, Alive, HostOn
  <2>2. OutUnlinked'
    BY <1>4 DEF HostStop, PortInv, OutUnlinked
  <2> QED BY <2>1, <2>2 DEF PortInv, OnePlayerPerPort, OnlyLiveAwaited
<1>5. ASSUME NEW g \in Guests, HostRecvIn(g) \/ HostRecvHash(g) PROVE PortInv'
  <2>1. UNCHANGED <<mask, pendingMask, link, lslot, gs, hpc>>
    BY <1>5 DEF HostRecvIn, HostRecvHash, connVars, sessVars
  <2> QED BY <2>1, PortsUntouched DEF HostOn
<1>6. ASSUME NEW g \in Guests, HostRxEnd(g) PROVE PortInv'
  <2>1. /\ g \in Alive /\ link' = [link EXCEPT ![g] = "dead"] /\ UNCHANGED <<lslot, gs, hpc>>
        /\ mask' = mask \ {lslot[g]} /\ pendingMask' = pendingMask \ {lslot[g]}
    BY <1>6 DEF HostRxEnd, DropSlot
  <2>2. Alive' = Alive \ {g}
    BY <1>g, <2>1 DEF Alive
  <2>3. lslot[g] # 0
    BY <2>1 DEF PortInv, OnePlayerPerPort
  <2>4. OnePlayerPerPort'
    BY <2>1, <2>2 DEF PortInv, OnePlayerPerPort
  <2>5. OnlyLiveAwaited'
    BY <2>1, <2>2, <2>3 DEF PortInv, OnlyLiveAwaited, InGame, HostOn
  <2>6. OutUnlinked'
    BY <1>g, <2>1 DEF PortInv, OutUnlinked, Alive
  <2> QED BY <2>4, <2>5, <2>6 DEF PortInv
<1>7. ASSUME NEW g \in Guests, Admit(g) PROVE PortInv'
  <2>1. PICK s \in FreeSlots : /\ lslot' = [lslot EXCEPT ![g] = s]
                               /\ pendingMask' = pendingMask \cup {s}
    BY <1>7 DEF Admit
  <2>2. /\ link' = [link EXCEPT ![g] = "alive"] /\ UNCHANGED <<mask, gs, hpc>>
        /\ link[g] = "hello"
    BY <1>7 DEF Admit
  <2>3. Alive' = Alive \cup {g} /\ g \notin Alive
    BY <1>g, <2>2 DEF Alive
  <2>4. s \notin InGame
    BY DEF FreeSlots
  <2>5. OnePlayerPerPort'
    <3>1. \A k \in Alive : lslot'[k] = lslot[k] /\ lslot[k] # s
      BY <1>g, <2>1, <2>3, <2>4 DEF InGame, Alive
    <3>2. lslot'[g] = s /\ s # 0
      BY <1>g, <2>1, <2>4 DEF InGame
    <3> QED BY <2>3, <3>1, <3>2 DEF PortInv, OnePlayerPerPort
  <2>6. InGame' = InGame \cup {s}
    <3>1. \A k \in Alive : lslot'[k] = lslot[k]
      BY <1>g, <2>1, <2>3
    <3>2. lslot'[g] = s
      BY <1>g, <2>1
    <3> QED BY <2>3, <3>1, <3>2 DEF InGame
  <2>7. OnlyLiveAwaited'
    BY <2>1, <2>2, <2>6 DEF PortInv, OnlyLiveAwaited, HostOn
  <2>8. OutUnlinked'
    BY <1>g, <2>2 DEF PortInv, OutUnlinked
  <2> QED BY <2>5, <2>7, <2>8 DEF PortInv
<1>8. ASSUME NEW g \in Guests, Refuse(g) \/ Join(g) PROVE PortInv'
  <2>1. /\ link[g] \in {"hello", "none"} /\ UNCHANGED <<mask, pendingMask, hpc, lslot>>
        /\ \E v \in {"dead", "hello"} : link' = [link EXCEPT ![g] = v]
    BY <1>8 DEF Refuse, Join, hostVars, sessVars, PortInv, OutUnlinked
  <2>2. Alive' = Alive
    BY <1>g, <2>1 DEF Alive
  <2>3. OnePlayerPerPort' /\ OnlyLiveAwaited'
    BY <2>1, <2>2 DEF PortInv, OnePlayerPerPort, OnlyLiveAwaited, InGame, HostOn
  <2>4. OutUnlinked'
    <3>1. CASE Refuse(g)
      BY <1>g, <3>1 DEF Refuse, PortInv, OutUnlinked
    <3>2. CASE Join(g)
      BY <1>g, <3>2 DEF Join, PortInv, OutUnlinked, Guest
    <3> QED BY <1>8, <3>1, <3>2
  <2> QED BY <2>3, <2>4 DEF PortInv
<1>9. ASSUME NEW g \in Guests,
             \/ GuestJoin(g) \/ GuestRx(g) \/ GuestCore(g) \/ GuestStop(g) \/ Diverge(g)
      PROVE  PortInv'
  <2>1. \A k \in Guests : gs'[k].pc = "out" => gs[k].pc = "out"
    BY <1>g, <1>9, GuestStaysIn DEF GuestJoin
  <2>2. UNCHANGED <<mask, pendingMask, link, lslot, hpc>>
    BY <1>9 DEF GuestJoin, GuestRx, GuestCore, JoinOk, JoinFail, GuestRecvIn, GuestRecvSync,
       GuestRxEnd, GoSolo, GuestIdle, GuestField, GuestTake, GuestGiveUp, ApplyBegin, ApplyFail,
       ApplySkip, ApplyEnd, GuestStop, Diverge, hostVars, sessVars, linkVars, connVars
  <2> QED BY <2>1, <2>2, PortsUntouched DEF HostOn
<1>10. ASSUME NEW g \in Guests, Break(g) PROVE PortInv'
  <2>1. UNCHANGED <<mask, pendingMask, link, lslot, gs, hpc>>
    BY <1>10 DEF Break, hostVars, sessVars
  <2> QED BY <2>1, PortsUntouched DEF HostOn
<1>11. CASE UNCHANGED vars
  <2>1. UNCHANGED <<mask, pendingMask, link, lslot, gs, hpc>>
    BY <1>11 DEF vars, hostVars, sessVars, linkVars, connVars
  <2> QED BY <2>1, PortsUntouched DEF HostOn
<1> QED BY <1>1, <1>2, <1>3, <1>4, <1>5, <1>6, <1>7, <1>8, <1>9, <1>10, <1>11
        DEF Next, HostCore, HostUser, HostRx

\* In every state two live players have different ports, none has the host's,
\* and the host only waits for ports whose player is still connected.
THEOREM PortsCorrect == Spec => []PortsSound
<1>1. Init => TypeInv /\ PortInv
  <2>1. Init => PortInv
    BY DEF Init, PortInv, OnePlayerPerPort, OnlyLiveAwaited, OutUnlinked, Alive, InGame
  <2> QED BY <2>1, TypeInit
<1>2. TypeInv /\ PortInv /\ [Next]_vars => (TypeInv /\ PortInv)'
  BY TypeStep, PortStep
<1>3. PortInv => PortsSound
  BY DEF PortInv, PortsSound
<1> QED BY <1>1, <1>2, <1>3, PTL DEF Spec

----------------------------------------------------------------------------
(* The inductive invariant.  script is the history of what was dealt; each *)
(* part says how one place that holds frames follows it.                   *)

Idle == [s \in Slots |-> Neutral]

\* A frame a machine of epoch e may run field f with: the pads dealt for it, and
\* the very frame that was dealt once the fields made by each machine are over.
Follows(fr, scr, e, f) ==
  /\ scr[e][f] # None /\ fr.p = scr[e][f].p
  /\ f >= Delay => fr = scr[e][f]

\* Only epochs that were opened have a script, and it begins with Delay idle fields.
ScriptShape(scr, ep) ==
  /\ scr[0] = NoMap
  /\ \A e \in Epochs : e > ep => scr[e] = NoMap
  /\ \A e \in Epochs, f \in Fields :
       0 < e /\ e <= ep /\ f < Delay => scr[e][f] # None /\ scr[e][f].p = Idle

\* The host's tables: what is published is what was dealt, and what is still
\* being collected or may still be collected was not.
TablesFollow(rd, part, scr, ep, fld) ==
  \A f \in Fields :
    /\ rd[f] # None => rd[f] = scr[ep][f]
    /\ part[f] # Empty => scr[ep][f] = None
    /\ f >= fld /\ rd[f] = None => scr[ep][f] = None

\* The host's machine plays the script of the current epoch in order.
HostPlays ==
  /\ synced => epoch > 0
  /\ epoch = 0 => partial = NoPads
  /\ \A f \in Fields : hplayed[f] # None => hplayed[f] = script[epoch][f]
  /\ \A f \in Fields : f > field => hplayed[f] = None
  /\ synced /\ hpc \in {"run", "sync"} => hplayed[field] # None
  /\ hpc = "wait" => /\ synced /\ field > 0
                     /\ hplayed[field] = None /\ hplayed[field - 1] # None

\* A message under way says what the script says, or names an epoch that is open.
MessageFollows(m, scr, ep) ==
  /\ m.t = "in" => m.ep <= ep /\ m.fr = scr[m.ep][m.f]
  /\ m.t = "sync" => 0 < m.ep /\ m.ep <= ep
StreamsFollow(dn, scr, ep) ==
  \A g \in Guests : \A i \in 1 .. Len(dn[g]) : MessageFollows(dn[g][i], scr, ep)

\* The epochs a guest has yet to hear of arrive in ascending order.
SyncsAscend(s, rx) ==
  /\ \A i \in 1 .. Len(s) : s[i].t = "sync" => rx < s[i].ep
  /\ \A i, j \in 1 .. Len(s) :
       i < j /\ s[i].t = "sync" /\ s[j].t = "sync" => s[i].ep < s[j].ep

\* A guest holds frames of the epoch it last heard of and has played frames of its own.
GuestFrames(r, scr, ep) ==
  /\ r.rxEpoch <= ep /\ r.epoch <= r.rxEpoch
  /\ \A f \in Fields : r.ready[f] # None => Follows(r.ready[f], scr, r.rxEpoch, f)
  /\ r.synced => /\ r.epoch > 0
                 /\ \A f \in Fields : r.played[f] # None => Follows(r.played[f], scr, r.epoch, f)

\* Where a guest is in its epoch, and when it is behind the epoch it heard of.
GuestPlace(r) ==
  /\ r.pc \in {"out", "joining", "idle"} => ~r.synced
  /\ r.syncReady => r.rxEpoch > 0 /\ (r.synced => r.epoch < r.rxEpoch)
  /\ r.pc = "apply" => /\ 0 < r.syncing /\ r.syncing <= r.rxEpoch
                       /\ r.synced => r.epoch < r.syncing
                       /\ ~r.syncReady => r.syncing = r.rxEpoch
  /\ r.pc = "wait" => /\ r.synced /\ r.field > 0
                      /\ r.played[r.field] = None /\ r.played[r.field - 1] # None
                      /\ ~r.syncReady => r.epoch = r.rxEpoch
  /\ r.pc = "run" /\ r.synced /\ ~r.lost /\ ~r.syncReady =>
       r.epoch = r.rxEpoch /\ r.played[r.field] # None
  /\ r.synced => /\ \A f \in Fields : f > r.field => r.played[f] = None
                 /\ r.played[r.field] # None \/ (r.field > 0 /\ r.played[r.field - 1] # None)

ScriptInv ==
  /\ ScriptShape(script, epoch)
  /\ TablesFollow(ready, partial, script, epoch, field)
  /\ HostPlays
  /\ StreamsFollow(down, script, epoch)
  /\ \A g \in Guests : /\ SyncsAscend(down[g], gs[g].rxEpoch)
                       /\ GuestFrames(gs[g], script, epoch)
                       /\ GuestPlace(gs[g])

----------------------------------------------------------------------------
(* The script only grows, and everything that follows it goes on doing so. *)

Grows(scr, scr2) ==
  \A e \in Epochs, f \in Fields : scr[e][f] # None => scr2[e][f] = scr[e][f]
Scripts == [Epochs -> Map(Frame)]

\* A frame of a message is there.
LEMMA FrameThere == \A fr \in Frame : fr # None
BY AbsentAssumption

\* What a guest holds and has played still follows a script that has grown.
LEMMA GuestFramesGrow ==
  ASSUME NEW r \in Guest, NEW scr, NEW scr2, NEW ep \in Epochs, NEW ep2 \in Epochs,
         ep <= ep2, Grows(scr, scr2), GuestFrames(r, scr, ep)
  PROVE  GuestFrames(r, scr2, ep2)
<1>1. r.rxEpoch \in Epochs /\ r.epoch \in Epochs
  BY DEF Guest
<1>2. \A fr : \A e \in Epochs, f \in Fields : Follows(fr, scr, e, f) => Follows(fr, scr2, e, f)
  BY DEF Follows, Grows
<1>3. r.rxEpoch <= ep2
  BY <1>1 DEF GuestFrames, Epochs
<1> QED BY <1>1, <1>2, <1>3, Zenon DEF GuestFrames

\* A frame under way still is the script's when the script has grown.
LEMMA StreamsGrow ==
  ASSUME NEW dn \in Streams, NEW scr, NEW scr2, NEW ep \in Epochs, NEW ep2 \in Epochs,
         ep <= ep2, Grows(scr, scr2), StreamsFollow(dn, scr, ep)
  PROVE  StreamsFollow(dn, scr2, ep2)
<1> SUFFICES ASSUME NEW g \in Guests, NEW i \in 1 .. Len(dn[g])
             PROVE  MessageFollows(dn[g][i], scr2, ep2)
  BY DEF StreamsFollow
<1> DEFINE m == dn[g][i]
<1>1. m \in DownMsg /\ MessageFollows(m, scr, ep)
  BY DEF Streams, StreamsFollow
<1> HIDE DEF m
<1>2. CASE m.t = "in"
  <2>1. m.ep \in Epochs /\ m.f \in Fields /\ m.fr \in Frame
    BY <1>1, <1>2 DEF DownMsg
  <2>2. scr2[m.ep][m.f] = scr[m.ep][m.f]
    BY <1>1, <1>2, <2>1, FrameThere DEF MessageFollows, Grows
  <2> QED BY <1>1, <1>2, <2>1, <2>2 DEF MessageFollows, Epochs, m
<1>3. CASE m.t = "sync"
  <2>1. m.ep \in Epochs
    BY <1>1, <1>3 DEF DownMsg
  <2> QED BY <1>1, <1>3, <2>1 DEF MessageFollows, Epochs, m
<1>4. CASE m.t \notin {"in", "sync"}
  BY <1>4 DEF MessageFollows, m
<1> QED BY <1>2, <1>3, <1>4

\* Whoever is dealt a message that follows the script has a stream that does.
LEMMA BroadcastFollows ==
  ASSUME NEW dn \in Streams, NEW m \in DownMsg, NEW scr, NEW ep,
         StreamsFollow(dn, scr, ep), MessageFollows(m, scr, ep)
  PROVE  StreamsFollow(Broadcast(dn, m), scr, ep)
<1> SUFFICES ASSUME NEW g \in Guests, NEW i \in 1 .. Len(Broadcast(dn, m)[g])
             PROVE  MessageFollows(Broadcast(dn, m)[g][i], scr, ep)
  BY DEF StreamsFollow
<1>1. dn[g] \in Seq(DownMsg) /\ \A k \in 1 .. Len(dn[g]) : MessageFollows(dn[g][k], scr, ep)
  BY DEF Streams, StreamsFollow
<1>2. CASE Broadcast(dn, m)[g] = dn[g]
  BY <1>1, <1>2
<1>3. CASE Broadcast(dn, m)[g] = Append(dn[g], m)
  <2>1. Len(Append(dn[g], m)) = Len(dn[g]) + 1 /\ i \in 1 .. Len(dn[g]) + 1
    BY <1>1, <1>3
  <2>2. Append(dn[g], m)[i] = IF i = Len(dn[g]) + 1 THEN m ELSE dn[g][i]
    BY <1>1, <2>1
  <2>3. i # Len(dn[g]) + 1 => i \in 1 .. Len(dn[g])
    BY <1>1, <2>1
  <2> QED BY <1>1, <1>3, <2>2, <2>3
<1> QED BY <1>2, <1>3 DEF Broadcast

\* A frame dealt to everyone does not disturb the order of the epochs.
LEMMA FrameAscends ==
  ASSUME NEW s \in Seq(DownMsg), NEW m \in DownMsg, m.t # "sync", NEW rx,
         SyncsAscend(s, rx)
  PROVE  SyncsAscend(Append(s, m), rx)
<1>1. Len(Append(s, m)) = Len(s) + 1
  OBVIOUS
<1>2. \A i \in 1 .. Len(s) + 1 : Append(s, m)[i] = IF i = Len(s) + 1 THEN m ELSE s[i]
  OBVIOUS
<1>3. \A i \in 1 .. Len(s) + 1 : i # Len(s) + 1 => i \in 1 .. Len(s)
  OBVIOUS
<1> QED BY <1>1, <1>2, <1>3 DEF SyncsAscend

\* Nor does the start of a later epoch.
LEMMA SyncAscends ==
  ASSUME NEW s \in Seq(DownMsg), NEW m \in DownMsg, NEW rx \in Epochs, SyncsAscend(s, rx),
         rx < m.ep, \A i \in 1 .. Len(s) : s[i].t = "sync" => s[i].ep < m.ep
  PROVE  SyncsAscend(Append(s, m), rx)
<1>1. Len(Append(s, m)) = Len(s) + 1
  OBVIOUS
<1>2. \A i \in 1 .. Len(s) + 1 : Append(s, m)[i] = IF i = Len(s) + 1 THEN m ELSE s[i]
  OBVIOUS
<1>3. \A i \in 1 .. Len(s) + 1 : i # Len(s) + 1 => i \in 1 .. Len(s)
  OBVIOUS
<1>4. \A i, j \in 1 .. Len(s) + 1 : i < j => i \in 1 .. Len(s)
  OBVIOUS
<1> QED BY <1>1, <1>2, <1>3, <1>4 DEF SyncsAscend

----------------------------------------------------------------------------
(* The host: what dealing a field does to the script and to everything that *)
(* follows it.                                                             *)

Undealt(rd, part, dn, scr) ==
  ready' = rd /\ partial' = part /\ down' = dn /\ script' = scr
Dealt(rd, part, dn, scr, ep, f, fr) ==
  /\ part[f] # Empty
  /\ ready' = [rd EXCEPT ![f] = fr] /\ partial' = [part EXCEPT ![f] = Empty]
  /\ down' = Broadcast(dn, [t |-> "in", ep |-> ep, f |-> f, fr |-> fr])
  /\ script' = [scr EXCEPT ![ep][f] = fr]

\* tryComplete either leaves the tables as they are or deals field f.
LEMMA TryCompleteDeals ==
  ASSUME NEW rd, NEW part \in PadTable, NEW pv \in Map(Views), NEW dn, NEW scr, NEW ep,
         NEW m, NEW f \in Fields, TryComplete(rd, part, pv, dn, scr, ep, m, f)
  PROVE  Undealt(rd, part, dn, scr) \/ \E fr \in Frame : Dealt(rd, part, dn, scr, ep, f, fr)
<1>1. FrameOf(part, pv, f) \in Frame
  BY FrameOfType
<1>2. CASE Complete(part, m, f)
  <2>1. Dealt(rd, part, dn, scr, ep, f, FrameOf(part, pv, f))
    BY <1>2 DEF TryComplete, Dealt, Complete
  <2> QED BY <1>1, <2>1
<1>3. CASE ~Complete(part, m, f)
  BY <1>3 DEF TryComplete, Undealt
<1> QED BY <1>2, <1>3

\* What the tables, the script and the streams are to each other.
TablesInv(rd, part, dn, scr, ep, fld) ==
  /\ ScriptShape(scr, ep) /\ TablesFollow(rd, part, scr, ep, fld) /\ StreamsFollow(dn, scr, ep)

\* Dealing a field that was not dealt keeps it so, and only adds to the script.
LEMMA DealKeeps ==
  ASSUME NEW rd \in Map(Frame), NEW part \in PadTable, NEW dn \in Streams, NEW scr \in Scripts,
         NEW ep \in Epochs, ep > 0, NEW fld, NEW f \in Fields, NEW fr \in Frame,
         TablesInv(rd, part, dn, scr, ep, fld), Dealt(rd, part, dn, scr, ep, f, fr)
  PROVE  /\ TablesInv(ready', partial', down', script', ep, fld)
         /\ Grows(scr, script') /\ scr[ep][f] = None
<1>0. scr[ep][f] = None
  BY DEF TablesInv, TablesFollow, Dealt
<1>1. /\ script'[ep][f] = fr
      /\ \A e \in Epochs, k \in Fields : e # ep \/ k # f => script'[e][k] = scr[e][k]
      /\ \A e \in Epochs : e # ep => script'[e] = scr[e]
  BY DEF Dealt, Scripts, Map
<1>2. Grows(scr, script')
  BY <1>0, <1>1 DEF Grows
<1>3. f >= Delay
  BY <1>0, DelayAssumption DEF TablesInv, ScriptShape, Epochs, Fields
<1>4. ScriptShape(script', ep)
  <2>1. script'[0] = NoMap
    BY <1>1, Empties DEF TablesInv, ScriptShape, Epochs
  <2>2. \A e \in Epochs : e > ep => script'[e] = NoMap
    BY <1>1 DEF TablesInv, ScriptShape, Epochs
  <2>3. \A e \in Epochs, k \in Fields :
          0 < e /\ e <= ep /\ k < Delay => script'[e][k] # None /\ script'[e][k].p = Idle
    <3>1. \A k \in Fields : k < Delay => k # f
      BY <1>3, DelayAssumption DEF Fields
    <3> QED BY <1>1, <3>1 DEF TablesInv, ScriptShape
  <2> QED BY <2>1, <2>2, <2>3 DEF ScriptShape
<1>5. TablesFollow(ready', partial', script', ep, fld)
  <2>1. /\ ready'[f] = fr /\ partial'[f] = Empty
        /\ \A k \in Fields : k # f => ready'[k] = rd[k] /\ partial'[k] = part[k]
    BY DEF Dealt, Map, PadTable
  <2> QED BY <1>1, <2>1, FrameThere DEF TablesInv, TablesFollow
<1>6. StreamsFollow(down', script', ep)
  <2> DEFINE m == [t |-> "in", ep |-> ep, f |-> f, fr |-> fr]
  <2>1. m \in DownMsg
    BY InMsgType
  <2>2. MessageFollows(m, script', ep)
    BY <1>1 DEF MessageFollows, Epochs
  <2>3. StreamsFollow(dn, script', ep)
    BY <1>2, StreamsGrow DEF TablesInv, Epochs
  <2>4. down' = Broadcast(dn, m)
    BY DEF Dealt
  <2> HIDE DEF m
  <2> QED BY <2>1, <2>2, <2>3, <2>4, BroadcastFollows
<1> QED BY <1>0, <1>2, <1>4, <1>5, <1>6 DEF TablesInv

\* Nothing dealt, nothing disturbed.
LEMMA UndealtKeeps ==
  ASSUME NEW rd, NEW part, NEW dn, NEW scr, NEW ep, NEW fld,
         TablesInv(rd, part, dn, scr, ep, fld), Undealt(rd, part, dn, scr)
  PROVE  TablesInv(ready', partial', down', script', ep, fld) /\ Grows(scr, script')
BY DEF Undealt, Grows

\* A pad may be added to a field that is neither old nor published.
LEMMA PadKeeps ==
  ASSUME NEW rd \in Map(Frame), NEW part \in PadTable, NEW dn, NEW scr, NEW ep, NEW fld,
         NEW s, NEW f \in Fields, NEW p, ~Stale(rd, fld, f), f >= fld,
         TablesInv(rd, part, dn, scr, ep, fld)
  PROVE  TablesInv(rd, [part EXCEPT ![f][s] = p], dn, scr, ep, fld)
<1>1. \A k \in Fields : k # f => [part EXCEPT ![f][s] = p][k] = part[k]
  BY DEF PadTable
<1>2. scr[ep][f] = None
  BY DEF TablesInv, TablesFollow, Stale
<1> QED BY <1>1, <1>2 DEF TablesInv, TablesFollow

\* Field f, which was open, is decided: the script has it and everyone is sent it.
FrameAdded(dn, scr, ep, f) ==
  \E fr \in Frame :
    /\ scr[ep][f] = None /\ script' = [scr EXCEPT ![ep][f] = fr]
    /\ down' = Broadcast(dn, [t |-> "in", ep |-> ep, f |-> f, fr |-> fr])

\* submit either leaves the tables as they are (or with one pad more) or deals field f.
LEMMA SubmitKeeps ==
  ASSUME NEW rd \in Map(Frame), NEW part \in PadTable, NEW pv \in Map(Views),
         NEW dn \in Streams, NEW scr \in Scripts, NEW ep \in Epochs, ep > 0, NEW m,
         NEW fld \in Nat, NEW s \in Slots, NEW f \in Fields, NEW p \in Pads,
         TablesInv(rd, part, dn, scr, ep, fld),
         Submit(rd, part, pv, dn, scr, ep, m, fld, s, f, p)
  PROVE  /\ TablesInv(ready', partial', down', script', ep, fld) /\ Grows(scr, script')
         /\ (script' = scr /\ down' = dn) \/ FrameAdded(dn, scr, ep, f)
<1> DEFINE part2 == [part EXCEPT ![f][s] = p]
<1>1. CASE Stale(rd, fld, f)
  <2>1. Undealt(rd, part, dn, scr)
    BY <1>1 DEF Submit, Undealt
  <2> QED BY <2>1, UndealtKeeps DEF Undealt
<1>2. CASE ~Stale(rd, fld, f)
  <2>0. f >= fld
    BY <1>2 DEF Stale, Fields
  <2>1. part2 \in PadTable
    BY DEF PadTable, Opt
  <2>2. TablesInv(rd, part2, dn, scr, ep, fld)
    BY <1>2, <2>0, PadKeeps
  <2>3. TryComplete(rd, part2, pv, dn, scr, ep, m, f)
    BY <1>2 DEF Submit
  <2> HIDE DEF part2
  <2>4. Undealt(rd, part2, dn, scr) \/ \E fr \in Frame : Dealt(rd, part2, dn, scr, ep, f, fr)
    BY <2>1, <2>3, TryCompleteDeals
  <2>5. CASE Undealt(rd, part2, dn, scr)
    BY <2>2, <2>5, UndealtKeeps DEF Undealt
  <2>6. ASSUME NEW fr \in Frame, Dealt(rd, part2, dn, scr, ep, f, fr)
        PROVE  /\ TablesInv(ready', partial', down', script', ep, fld) /\ Grows(scr, script')
               /\ scr[ep][f] = None
    BY <2>1, <2>2, <2>6, DealKeeps
  <2>7. CASE \E fr \in Frame : Dealt(rd, part2, dn, scr, ep, f, fr)
    BY <2>6, <2>7 DEF Dealt, FrameAdded
  <2> QED BY <2>4, <2>5, <2>7
<1> QED BY <1>1, <1>2

\* What a step of the host inside an epoch does to the script and the streams.
FrameDealt ==
  (script' = script /\ down' = down) \/ \E f \in Fields : FrameAdded(down, script, epoch, f)

\* A frame dealt to everyone leaves the order of the epochs under way as it was.
LEMMA DealtAscends ==
  ASSUME NEW g \in Guests, NEW rx, NEW dn \in Streams, NEW scr, NEW ep \in Epochs,
         NEW f \in Fields, SyncsAscend(dn[g], rx), FrameAdded(dn, scr, ep, f)
  PROVE  SyncsAscend(down'[g], rx)
<1>0. PICK fr \in Frame : down' = Broadcast(dn, [t |-> "in", ep |-> ep, f |-> f, fr |-> fr])
  BY DEF FrameAdded
<1> DEFINE m == [t |-> "in", ep |-> ep, f |-> f, fr |-> fr]
<1>1. m \in DownMsg /\ m.t # "sync"
  BY InMsgType
<1>2. dn[g] \in Seq(DownMsg) /\ down' = Broadcast(dn, m)
  BY <1>0 DEF Streams
<1> HIDE DEF m
<1>3. SyncsAscend(Append(dn[g], m), rx)
  BY <1>1, <1>2, FrameAscends
<1>4. Broadcast(dn, m)[g] = Append(dn[g], m) \/ Broadcast(dn, m)[g] = dn[g]
  BY DEF Broadcast
<1> QED BY <1>2, <1>3, <1>4

\* The types the host's steps rest on.
LEMMA HostTypes ==
  ASSUME TypeInv
  PROVE  /\ hpc \in {"run", "wait", "sync", "off"} /\ synced \in BOOLEAN
         /\ epoch \in Epochs /\ epoch \in Nat /\ field \in 0 .. MaxField /\ field \in Nat
         /\ field \in Fields
         /\ ready \in Map(Frame) /\ partial \in PadTable /\ partialView \in Map(Views)
         /\ hostView \in Views /\ gView \in Views /\ hplayed \in Map(Frame)
         /\ script \in Scripts /\ down \in Streams /\ up \in [Guests -> Seq(UpMsg)]
         /\ lslot \in [Guests -> Slots] /\ gs \in [Guests -> Guest] /\ pend \subseteq Fields
BY DelayAssumption, BoundAssumption DEF TypeInv, TypeOK, Scripts, PadTable, Streams, Epochs, Fields

\* The guests are where they were when the host's step only deals a field.
LEMMA GuestsUndisturbed ==
  ASSUME TypeInv, ScriptInv, FrameDealt, Grows(script, script'), gs' = gs, epoch' = epoch
  PROVE  \A g \in Guests : /\ SyncsAscend(down'[g], gs'[g].rxEpoch)
                           /\ GuestFrames(gs'[g], script', epoch')
                           /\ GuestPlace(gs'[g])
<1> SUFFICES ASSUME NEW g \in Guests
             PROVE  /\ SyncsAscend(down'[g], gs[g].rxEpoch)
                    /\ GuestFrames(gs[g], script', epoch) /\ GuestPlace(gs[g])
  OBVIOUS
<1>1. /\ SyncsAscend(down[g], gs[g].rxEpoch) /\ GuestFrames(gs[g], script, epoch)
      /\ GuestPlace(gs[g]) /\ gs[g] \in Guest /\ epoch \in Epochs /\ down \in Streams
  BY HostTypes DEF ScriptInv
<1>2. GuestFrames(gs[g], script', epoch)
  BY <1>1, GuestFramesGrow, HostTypes
<1>3. SyncsAscend(down'[g], gs[g].rxEpoch)
  BY <1>1, DealtAscends DEF FrameDealt
<1> QED BY <1>1, <1>2, <1>3

\* A step of the host inside its epoch that keeps its own part keeps the whole.
LEMMA HostStepKeeps ==
  ASSUME TypeInv, ScriptInv, FrameDealt, Grows(script, script'), gs' = gs, epoch' = epoch,
         TablesInv(ready', partial', down', script', epoch, field'), HostPlays'
  PROVE  ScriptInv'
<1>1. \A g \in Guests : /\ SyncsAscend(down'[g], gs'[g].rxEpoch)
                        /\ GuestFrames(gs'[g], script', epoch')
                        /\ GuestPlace(gs'[g])
  BY GuestsUndisturbed
<1> QED BY <1>1 DEF ScriptInv, TablesInv

\* So does one that touches none of it.
LEMMA HostUntouched ==
  ASSUME TypeInv, ScriptInv, UNCHANGED <<script, down, gs, epoch, field, ready, partial, hplayed>>,
         UNCHANGED <<synced, hpc>> \/ (hpc' = "off" /\ synced' = FALSE)
                   \/ (hpc = "run" /\ hpc' = "sync" /\ synced' = synced)
  PROVE  ScriptInv'
<1>1. HostPlays'
  BY DEF ScriptInv, HostPlays
<1>2. FrameDealt /\ Grows(script, script')
  BY DEF FrameDealt, Grows
<1>3. TablesInv(ready', partial', down', script', epoch, field')
  BY DEF ScriptInv, TablesInv
<1> QED BY <1>1, <1>2, <1>3, HostStepKeeps

\* The host's core loop inside an epoch: a field closes, its frame is taken.
LEMMA HostFieldKeeps ==
  ASSUME TypeInv, ScriptInv, HostField
  PROVE  ScriptInv' /\ FrameDealt
<1>0. epoch > 0 /\ synced
  BY DEF HostField, ScriptInv, HostPlays
<1>t. /\ ready \in Map(Frame) /\ partial \in PadTable /\ partialView \in Map(Views)
      /\ down \in Streams /\ script \in Scripts /\ epoch \in Epochs /\ field \in Nat
      /\ hostView \in Views
  BY HostTypes
<1>1. PICK p \in Pads : HostSubmit(ready, partial, partialView, down, script, epoch,
                                   mask, field + 1, field + 1 + Delay, p)
  BY DEF HostField
<1>2. field + 1 + Delay \in Fields /\ 0 \in Slots
  BY HostTypes, DelayAssumption, BoundAssumption, Empties DEF HostField, Fields
<1>3. TablesInv(ready, partial, down, script, epoch, field + 1)
  BY <1>t DEF ScriptInv, TablesInv, TablesFollow, Fields
<1>4. [partialView EXCEPT ![field + 1 + Delay] = hostView] \in Map(Views)
  BY <1>t DEF Map, Opt
<1>5. Submit(ready, partial, [partialView EXCEPT ![field + 1 + Delay] = hostView], down,
             script, epoch, mask, field + 1, 0, field + 1 + Delay, p)
  BY <1>1 DEF HostSubmit
<1>6. /\ TablesInv(ready', partial', down', script', epoch, field + 1) /\ Grows(script, script')
      /\ FrameDealt
  <2>1. field + 1 \in Nat
    BY <1>t
  <2> QED BY <1>0, <1>t, <1>2, <1>3, <1>4, <1>5, <2>1, SubmitKeeps DEF FrameDealt
<1>7. HostPlays'
  <2>1. /\ hplayed' = hplayed /\ field' = field + 1 /\ hpc' = "wait" /\ synced' = synced
        /\ epoch' = epoch /\ hpc = "run" /\ field + 1 \in Fields
    <3>1. field + 1 \in Fields
      BY HostTypes, DelayAssumption, BoundAssumption DEF HostField, Fields
    <3> QED BY <3>1 DEF HostField, viewVars
  <2>2. \A f \in Fields : hplayed[f] # None => hplayed[f] = script'[epoch][f]
    BY <1>t, <1>6 DEF ScriptInv, HostPlays, Grows
  <2>3. hplayed[field] # None /\ hplayed[field + 1] = None
    BY <1>0, <1>t, <2>1 DEF ScriptInv, HostPlays, Fields
  <2>4. \A f \in Fields : f > field + 1 => hplayed[f] = None
    BY <1>t DEF ScriptInv, HostPlays, Fields
  <2> QED BY <1>0, <1>t, <2>1, <2>2, <2>3, <2>4 DEF HostPlays
<1> QED BY <1>6, <1>7, HostStepKeeps DEF HostField

\* The wait ends with the script's frame.
LEMMA HostTakeKeeps ==
  ASSUME TypeInv, ScriptInv, HostTake
  PROVE  ScriptInv'
<1>t. /\ ready \in Map(Frame) /\ hplayed \in Map(Frame) /\ field \in Nat /\ field \in Fields
      /\ epoch \in Epochs
  BY HostTypes
<1>1. /\ UNCHANGED <<synced, epoch, field, partial, script, down, gs>>
      /\ hpc' = "run" /\ hpc = "wait" /\ ready[field] # None
      /\ ready' = EraseBelow(ready, field)
      /\ hplayed' = [hplayed EXCEPT ![field] = ready[field]]
  BY DEF HostTake, linkVars
<1>2. TablesFollow(ready', partial', script', epoch, field')
  <2>1. \A f \in Fields : ready'[f] # None => ready'[f] = ready[f]
    BY <1>1 DEF EraseBelow
  <2>2. \A f \in Fields : f >= field => ready'[f] = ready[f]
    BY <1>t, <1>1 DEF EraseBelow, Fields
  <2> QED BY <1>1, <2>1, <2>2 DEF ScriptInv, TablesFollow
<1>3. HostPlays'
  <2>1. hplayed'[field] = ready[field] /\ \A f \in Fields : f # field => hplayed'[f] = hplayed[f]
    BY <1>t, <1>1 DEF Map
  <2>2. ready[field] = script[epoch][field]
    BY <1>t, <1>1 DEF ScriptInv, TablesFollow
  <2>3. \A f \in Fields : hplayed'[f] # None => hplayed'[f] = script[epoch][f]
    BY <2>1, <2>2 DEF ScriptInv, HostPlays
  <2>4. \A f \in Fields : f > field => hplayed'[f] = None
    BY <1>t, <2>1 DEF ScriptInv, HostPlays, Fields
  <2> QED BY <1>1, <2>1, <2>3, <2>4 DEF ScriptInv, HostPlays
<1>4. FrameDealt /\ Grows(script, script')
  BY <1>1 DEF FrameDealt, Grows
<1>5. TablesInv(ready', partial', down', script', epoch, field')
  BY <1>1, <1>2 DEF ScriptInv, TablesInv
<1> QED BY <1>1, <1>3, <1>4, <1>5, HostStepKeeps

\* A pad received goes through submit.
LEMMA HostRecvInKeeps ==
  ASSUME TypeInv, ScriptInv, NEW g \in Guests, HostRecvIn(g)
  PROVE  ScriptInv' /\ FrameDealt
<1> DEFINE m == Head(up[g])
<1>t. /\ ready \in Map(Frame) /\ partial \in PadTable /\ partialView \in Map(Views)
      /\ down \in Streams /\ script \in Scripts /\ epoch \in Epochs /\ field \in Nat
      /\ lslot[g] \in Slots /\ up[g] \in Seq(UpMsg)
  BY HostTypes
<1>1. UNCHANGED <<hpc, synced, epoch, field, hplayed, gs>>
  BY DEF HostRecvIn, sessVars, viewVars
<1>2. CASE OfThisEpoch(m) /\ synced
  <2>0. epoch > 0
    BY <1>2 DEF ScriptInv, HostPlays
  <2>1. m \in UpMsg /\ m.t = "in"
    BY <1>t DEF HostRecvIn, Receives
  <2>2. m.f \in Fields /\ m.p \in Pads
    BY <2>1 DEF UpMsg
  <2>3. Submit(ready, partial, partialView, down, script, epoch, mask, field, lslot[g], m.f, m.p)
    BY <1>2 DEF HostRecvIn
  <2>4. TablesInv(ready, partial, down, script, epoch, field)
    BY DEF ScriptInv, TablesInv
  <2> HIDE DEF m
  <2>5. /\ TablesInv(ready', partial', down', script', epoch, field)
        /\ Grows(script, script') /\ FrameDealt
    BY <1>t, <2>0, <2>2, <2>3, <2>4, SubmitKeeps DEF FrameDealt
  <2>6. HostPlays'
    BY <1>t, <1>1, <2>0, <2>5 DEF ScriptInv, HostPlays, Grows
  <2> QED BY <1>1, <2>5, <2>6, HostStepKeeps
<1>3. CASE ~(OfThisEpoch(m) /\ synced)
  <2>1. UNCHANGED <<ready, partial, script, down>>
    BY <1>3 DEF HostRecvIn, tableVars
  <2> QED BY <1>1, <2>1, HostUntouched DEF FrameDealt
<1> QED BY <1>2, <1>3

\* So does the loop that completes what a leaving player held.
LEMMA HostFlushKeeps ==
  ASSUME TypeInv, ScriptInv, HostFlush
  PROVE  ScriptInv' /\ FrameDealt
<1>t. /\ ready \in Map(Frame) /\ partial \in PadTable /\ partialView \in Map(Views)
      /\ down \in Streams /\ script \in Scripts /\ epoch \in Epochs /\ epoch \in Nat
  BY HostTypes
<1>1. UNCHANGED <<hpc, synced, epoch, field, hplayed, gs>>
  BY DEF HostFlush, viewVars
<1>2. PICK f \in pend : TryComplete(ready, partial, partialView, down, script, epoch, mask, f)
  BY DEF HostFlush
<1>3. f \in Fields
  BY HostTypes
<1>4. \/ Undealt(ready, partial, down, script)
      \/ \E fr \in Frame : Dealt(ready, partial, down, script, epoch, f, fr)
  BY <1>t, <1>2, <1>3, TryCompleteDeals
<1>5. CASE Undealt(ready, partial, down, script)
  BY <1>1, <1>5, HostUntouched DEF Undealt, FrameDealt
<1>6. ASSUME NEW fr \in Frame, Dealt(ready, partial, down, script, epoch, f, fr)
      PROVE  ScriptInv' /\ FrameDealt
  <2>0. epoch > 0
    BY <1>t, <1>3, <1>6 DEF ScriptInv, HostPlays, Dealt, NoPads
  <2>1. TablesInv(ready, partial, down, script, epoch, field)
    BY DEF ScriptInv, TablesInv
  <2>2. /\ TablesInv(ready', partial', down', script', epoch, field)
        /\ Grows(script, script') /\ script[epoch][f] = None
    BY <1>t, <1>3, <1>6, <2>0, <2>1, DealKeeps
  <2>3. FrameDealt
    BY <1>3, <1>6, <2>2 DEF Dealt, FrameAdded, FrameDealt
  <2>4. HostPlays'
    BY <1>t, <1>1, <2>0, <2>2 DEF ScriptInv, HostPlays, Grows
  <2> QED BY <1>1, <2>2, <2>3, <2>4, HostStepKeeps
<1> QED BY <1>4, <1>5, <1>6

\* What serviceSync does to the script: the next epoch begins with Delay idle fields
\* and, if nobody else is awaited, the first field the host has sent its pad for.
EpochOpened ==
  LET e == epoch + 1
  IN /\ script'[e] \in Map(Frame) /\ script'[e][0] # None /\ script'[e][0].p = Idle
     /\ script' = [script EXCEPT ![e] = script'[e]]
     /\ epoch' = e /\ e \in Epochs /\ synced' = TRUE /\ field' = 0
     /\ hplayed'[0] # None /\ hplayed'[0].p = Idle /\ gs' = gs

\* serviceSync opens the next epoch.
LEMMA ServiceSyncKeeps ==
  ASSUME TypeInv, ScriptInv, ServiceSync
  PROVE  ScriptInv' /\ EpochOpened
<1> DEFINE e == epoch + 1
           syn == [t |-> "sync", ep |-> e]
           scr == [script EXCEPT ![e] = Prefill(gView)]
           dn == Broadcast(down, syn)
<1> USE DelayAssumption, BoundAssumption
<1>t. /\ down \in Streams /\ script \in Scripts /\ epoch \in Epochs /\ epoch \in Nat
      /\ gView \in Views /\ hostView \in Views /\ gs \in [Guests -> Guest]
  BY HostTypes
<1>1. e \in Epochs /\ e > 0 /\ epoch <= e
  BY <1>t DEF ServiceSync, TypeInv, Epochs
<1>2. syn \in DownMsg /\ syn.t = "sync" /\ syn.ep = e
  BY <1>1 DEF DownMsg
<1>3. /\ Prefill(gView) \in Map(Frame) /\ viewFrame(gView) \in Frame
      /\ Prefill(gView)[0] = viewFrame(gView)
      /\ NoPads \in PadTable /\ NoMap \in Map(Views) /\ 0 \in Slots /\ Delay \in Fields
      /\ 0 \in Fields /\ 0 \in Epochs
  BY <1>t, Empties
<1>4. /\ \A f \in Fields : Prefill(gView)[f] = IF f < Delay THEN viewFrame(gView) ELSE None
      /\ viewFrame(gView).p = Idle
  BY DEF Prefill, viewFrame, Idle
<1>5. scr \in Scripts /\ dn \in Streams
  BY <1>t, <1>1, <1>2, <1>3, BroadcastType DEF Scripts
<1>6. scr[e] = Prefill(gView) /\ \A k \in Epochs : k # e => scr[k] = script[k]
  BY <1>t, <1>1 DEF Scripts
<1>7. PICK p \in Pads : Submit(Prefill(gView), NoPads, [NoMap EXCEPT ![Delay] = hostView], dn,
                               scr, e, NextMask, 0, 0, Delay, p)
  BY DEF ServiceSync, HostSubmit, NextEpoch
<1>8. /\ epoch' = e /\ field' = 0 /\ synced' = TRUE /\ hpc' = "run" /\ gs' = gs
      /\ hplayed' = [NoMap EXCEPT ![0] = viewFrame(gView)]
  BY DEF ServiceSync, NextEpoch
<1> HIDE DEF e, syn, scr, dn
<1>9. script[e] = NoMap /\ \A f \in Fields : script[e][f] = None
  BY <1>t, <1>1 DEF ScriptInv, ScriptShape, e, Epochs, NoMap
<1>10. Grows(script, scr)
  BY <1>6, <1>9 DEF Grows
<1>11. ScriptShape(scr, e)
  <2>1. scr[0] = NoMap
    BY <1>1, <1>3, <1>6 DEF ScriptInv, ScriptShape
  <2>2. \A k \in Epochs : k > e => scr[k] = NoMap
    BY <1>t, <1>1, <1>6 DEF ScriptInv, ScriptShape, Epochs
  <2>3. ASSUME NEW k \in Epochs, NEW f \in Fields, 0 < k, k <= e, f < Delay
        PROVE  scr[k][f] # None /\ scr[k][f].p = Idle
    <3>1. CASE k = e
      BY <1>3, <1>4, <1>6, <2>3, <3>1, FrameThere
    <3>2. CASE k # e
      <4>1. k <= epoch
        BY <1>t, <2>3, <3>2 DEF Epochs, e
      <4> QED BY <1>6, <2>3, <3>2, <4>1 DEF ScriptInv, ScriptShape
    <3> QED BY <3>1, <3>2
  <2> QED BY <2>1, <2>2, <2>3 DEF ScriptShape
<1>12. TablesFollow(Prefill(gView), NoPads, scr, e, 0)
  BY <1>6 DEF TablesFollow, NoPads
<1>13. StreamsFollow(dn, scr, e)
  <2>1. StreamsFollow(down, scr, e)
    BY <1>t, <1>1, <1>10, StreamsGrow DEF ScriptInv
  <2>2. MessageFollows(syn, scr, e)
    BY <1>1, <1>2 DEF MessageFollows, Epochs
  <2> QED BY <1>t, <1>2, <2>1, <2>2, BroadcastFollows DEF dn
<1>14. /\ TablesInv(ready', partial', down', script', e, 0) /\ Grows(scr, script')
       /\ (script' = scr /\ down' = dn) \/ FrameAdded(dn, scr, e, Delay)
  <2>1. TablesInv(Prefill(gView), NoPads, dn, scr, e, 0)
    BY <1>11, <1>12, <1>13 DEF TablesInv
  <2>2. [NoMap EXCEPT ![Delay] = hostView] \in Map(Views) /\ 0 \in Nat
    BY <1>t, <1>3 DEF Map, Opt
  <2> QED BY <1>1, <1>3, <1>5, <1>7, <2>1, <2>2, SubmitKeeps
<1>15. Grows(script, script')
  BY <1>10, <1>14 DEF Grows
<1>16. script'[e][0] = viewFrame(gView)
  <2>1. scr[e][0] = viewFrame(gView) /\ viewFrame(gView) # None
    BY <1>3, <1>6, FrameThere
  <2> QED BY <1>1, <1>3, <1>14, <2>1 DEF Grows
<1>17. hplayed'[0] = viewFrame(gView) /\ \A f \in Fields : f # 0 => hplayed'[f] = None
  BY <1>3, <1>8 DEF NoMap
<1>18. HostPlays'
  <2>1. \A f \in Fields : hplayed'[f] # None => hplayed'[f] = script'[e][f]
    BY <1>16, <1>17
  <2> QED BY <1>1, <1>3, <1>8, <1>17, <2>1, FrameThere DEF HostPlays
<1>19. ASSUME NEW g \in Guests
       PROVE  /\ SyncsAscend(down'[g], gs[g].rxEpoch) /\ GuestFrames(gs[g], script', e)
              /\ GuestPlace(gs[g])
  <2>1. /\ SyncsAscend(down[g], gs[g].rxEpoch) /\ GuestFrames(gs[g], script, epoch)
        /\ GuestPlace(gs[g]) /\ gs[g] \in Guest /\ gs[g].rxEpoch \in Epochs
        /\ down[g] \in Seq(DownMsg)
    BY <1>t DEF ScriptInv, Guest, Streams
  <2>2. GuestFrames(gs[g], script', e)
    BY <1>t, <1>1, <1>15, <2>1, GuestFramesGrow
  <2>3. gs[g].rxEpoch < e
    BY <1>t, <2>1 DEF GuestFrames, e, Epochs
  <2>4. \A i \in 1 .. Len(down[g]) : down[g][i].t = "sync" => down[g][i].ep < e
    <3> SUFFICES ASSUME NEW i \in 1 .. Len(down[g]), down[g][i].t = "sync"
                 PROVE  down[g][i].ep < e
      OBVIOUS
    <3>1. down[g][i] \in DownMsg
      BY <2>1
    <3>2. down[g][i].ep \in Epochs
      BY <3>1 DEF DownMsg
    <3>3. MessageFollows(down[g][i], script, epoch)
      BY DEF ScriptInv, StreamsFollow
    <3> QED BY <1>t, <3>2, <3>3 DEF MessageFollows, e, Epochs
  <2>5. SyncsAscend(Append(down[g], syn), gs[g].rxEpoch)
    BY <1>2, <2>1, <2>3, <2>4, SyncAscends
  <2>6. SyncsAscend(dn[g], gs[g].rxEpoch)
    BY <2>1, <2>5 DEF dn, Broadcast
  <2>7. SyncsAscend(down'[g], gs[g].rxEpoch)
    BY <1>1, <1>3, <1>5, <1>14, <2>6, DealtAscends
  <2> QED BY <2>1, <2>2, <2>7
<1>20. ScriptInv'
  BY <1>8, <1>14, <1>18, <1>19 DEF ScriptInv, TablesInv
<1>21. script' = [script EXCEPT ![e] = script'[e]]
  <2>1. CASE script' = scr
    BY <1>6, <2>1 DEF scr
  <2>2. CASE FrameAdded(dn, scr, e, Delay)
    <3>1. PICK fr \in Frame : script' = [scr EXCEPT ![e][Delay] = fr]
      BY <2>2 DEF FrameAdded
    <3>2. \A k \in Epochs : k # e => script'[k] = script[k]
      BY <1>6, <1>5, <3>1 DEF Scripts
    <3>3. DOMAIN script' = Epochs /\ script' = [k \in Epochs |-> script'[k]]
      BY <1>5, <3>1 DEF Scripts
    <3> QED BY <1>t, <1>1, <3>2, <3>3 DEF Scripts
  <2> QED BY <1>14, <2>1, <2>2
<1>22. script'[e] \in Map(Frame)
  <2>1. TypeInv'
    BY TypeStep DEF Next, HostCore
  <2>2. script' \in Scripts
    BY <2>1 DEF TypeInv, TypeOK, Scripts
  <2> QED BY <1>1, <2>2 DEF Scripts
<1>23. EpochOpened
  BY <1>1, <1>3, <1>4, <1>8, <1>16, <1>17, <1>21, <1>22, FrameThere DEF EpochOpened, e
<1> QED BY <1>20, <1>23

----------------------------------------------------------------------------
(* The guests. *)

\* The part of ScriptInv that is about guest g.
GuestInv(s, r, scr, ep) ==
  /\ \A i \in 1 .. Len(s) : MessageFollows(s[i], scr, ep)
  /\ SyncsAscend(s, r.rxEpoch) /\ GuestFrames(r, scr, ep) /\ GuestPlace(r)

\* A step of a guest disturbs no one but that guest.
LEMMA GuestStepKeeps ==
  ASSUME ScriptInv, NEW g \in Guests,
         UNCHANGED <<script, epoch, field, ready, partial, hplayed, synced, hpc>>,
         \A k \in Guests : k # g => gs'[k] = gs[k] /\ down'[k] = down[k],
         GuestInv(down'[g], gs'[g], script, epoch)
  PROVE  ScriptInv'
<1>1. HostPlays'
  BY DEF ScriptInv, HostPlays
<1>2. StreamsFollow(down', script', epoch')
  BY DEF ScriptInv, StreamsFollow, GuestInv
<1>3. \A k \in Guests : /\ SyncsAscend(down'[k], gs'[k].rxEpoch)
                        /\ GuestFrames(gs'[k], script', epoch') /\ GuestPlace(gs'[k])
  BY DEF ScriptInv, GuestInv
<1> QED BY <1>1, <1>2, <1>3 DEF ScriptInv

\* Taking the first message off a stream.
LEMMA PopKeeps ==
  ASSUME NEW s \in Seq(DownMsg), s # <<>>, NEW scr, NEW ep, NEW rx, SyncsAscend(s, rx),
         \A i \in 1 .. Len(s) : MessageFollows(s[i], scr, ep)
  PROVE  /\ \A i \in 1 .. Len(Tail(s)) : MessageFollows(Tail(s)[i], scr, ep)
         /\ Head(s) \in DownMsg /\ MessageFollows(Head(s), scr, ep)
         /\ SyncsAscend(Tail(s), rx)
         /\ Head(s).t = "sync" => rx < Head(s).ep /\ SyncsAscend(Tail(s), Head(s).ep)
<1>1. /\ Len(Tail(s)) = Len(s) - 1 /\ Len(s) \in Nat /\ Len(s) > 0
      /\ \A i \in 1 .. Len(Tail(s)) : Tail(s)[i] = s[i + 1] /\ i + 1 \in 1 .. Len(s)
      /\ Head(s) = s[1] /\ 1 \in 1 .. Len(s) /\ Head(s) \in DownMsg
  OBVIOUS
<1>2. \A i \in 1 .. Len(Tail(s)) : 1 < i + 1
  OBVIOUS
<1>3. \A i, j \in 1 .. Len(Tail(s)) : i < j => i + 1 < j + 1
  BY <1>1
<1>4. SyncsAscend(Tail(s), rx)
  BY <1>1, <1>3 DEF SyncsAscend
<1>5. ASSUME Head(s).t = "sync" PROVE rx < Head(s).ep /\ SyncsAscend(Tail(s), Head(s).ep)
  BY <1>1, <1>2, <1>3, <1>5 DEF SyncsAscend
<1> QED BY <1>1, <1>4, <1>5

\* What is known of a guest before its step.
LEMMA GuestKnown ==
  ASSUME TypeInv, ScriptInv, NEW g \in Guests
  PROVE  /\ GuestInv(down[g], gs[g], script, epoch) /\ gs[g] \in Guest
         /\ down[g] \in Seq(DownMsg) /\ DOMAIN gs = Guests /\ DOMAIN down = Guests
         /\ epoch \in Epochs /\ epoch \in Nat
BY HostTypes DEF ScriptInv, StreamsFollow, GuestInv, Streams

\* join() and the steps that change neither frames nor epochs.
LEMMA PcKeeps ==
  ASSUME TypeInv, ScriptInv, NEW g \in Guests, UNCHANGED <<hostVars, down>>,
         \/ gs' = [gs EXCEPT ![g].pc = "joining"] /\ gs[g].pc = "out"
         \/ gs' = [gs EXCEPT ![g].pc = "off"]
         \/ gs' = [gs EXCEPT ![g].health = "bad"]
         \/ gs' = [gs EXCEPT ![g].synced = FALSE] /\ gs[g].pc = "run"
         \/ gs' = [gs EXCEPT ![g].pc = "idle"] /\ ~gs[g].synced
         \/ gs' = [gs EXCEPT ![g].pc = "run"] /\ (gs[g].lost \/ gs[g].syncReady \/ ~gs[g].synced)
         \/ gs' = [gs EXCEPT ![g].pc = "run", ![g].lost = TRUE]
         \/ gs' = [gs EXCEPT ![g].pc = "run", ![g].health = Healed(@)] /\ gs[g].syncReady
  PROVE  ScriptInv'
<1>1. GuestInv(down[g], gs[g], script, epoch) /\ gs[g] \in Guest /\ DOMAIN gs = Guests
  BY GuestKnown
<1>2. /\ gs'[g].rxEpoch = gs[g].rxEpoch /\ gs'[g].epoch = gs[g].epoch
      /\ gs'[g].ready = gs[g].ready /\ gs'[g].played = gs[g].played
      /\ gs'[g].field = gs[g].field /\ gs'[g].syncing = gs[g].syncing
      /\ gs'[g].syncReady = gs[g].syncReady
      /\ \A k \in Guests : k # g => gs'[k] = gs[k]
  BY <1>1 DEF Guest
<1>3. /\ gs'[g].synced \in BOOLEAN /\ gs[g].synced \in BOOLEAN
      /\ gs'[g].synced => gs[g].synced
  <2>1. gs'[g].synced = gs[g].synced \/ gs'[g].synced = FALSE
    BY <1>1 DEF Guest
  <2>2. gs[g].synced \in BOOLEAN
    BY <1>1 DEF Guest
  <2> QED BY <2>1, <2>2
<1>4. \/ gs'[g].pc = gs[g].pc /\ gs'[g].lost = gs[g].lost
      \/ gs'[g].pc \in {"joining", "off", "idle"}
      \/ gs'[g].pc = "run" /\ (gs'[g].lost \/ gs[g].syncReady \/ ~gs'[g].synced)
  <2>1. CASE gs' = [gs EXCEPT ![g].pc = "joining"] \/ gs' = [gs EXCEPT ![g].pc = "off"]
             \/ gs' = [gs EXCEPT ![g].health = "bad"] \/ gs' = [gs EXCEPT ![g].pc = "idle"]
    BY <1>1, <2>1 DEF Guest
  <2>2. CASE gs' = [gs EXCEPT ![g].synced = FALSE] /\ gs[g].pc = "run"
    BY <1>1, <2>2 DEF Guest
  <2>3. CASE gs' = [gs EXCEPT ![g].pc = "run"] /\ (gs[g].lost \/ gs[g].syncReady \/ ~gs[g].synced)
    <3>1. gs'[g].pc = "run" /\ gs'[g].lost = gs[g].lost /\ gs'[g].synced = gs[g].synced
      BY <1>1, <2>3 DEF Guest
    <3> QED BY <2>3, <3>1
  <2>4. CASE gs' = [gs EXCEPT ![g].pc = "run", ![g].lost = TRUE]
    <3>1. gs'[g].pc = "run" /\ gs'[g].lost = TRUE
      BY <1>1, <2>4 DEF Guest
    <3> QED BY <3>1
  <2>5. CASE gs' = [gs EXCEPT ![g].pc = "run", ![g].health = Healed(@)] /\ gs[g].syncReady
    <3>1. gs'[g].pc = "run"
      BY <1>1, <2>5 DEF Guest
    <3> QED BY <2>5, <3>1
  <2> QED BY <2>1, <2>2, <2>3, <2>4, <2>5
<1>5. /\ ~gs'[g].synced => gs'[g].pc # "wait" \/ ~gs[g].synced
      /\ gs'[g].pc \in {"joining", "idle"} => gs[g].pc \in {"out", "joining", "idle"} \/ ~gs[g].synced
  BY <1>1 DEF Guest
<1>6. GuestFrames(gs'[g], script, epoch)
  BY <1>1, <1>2, <1>3 DEF GuestInv, GuestFrames
<1>7. GuestPlace(gs'[g])
  BY <1>1, <1>2, <1>3, <1>4, <1>5 DEF GuestInv, GuestPlace
<1>8. GuestInv(down'[g], gs'[g], script, epoch)
  BY <1>1, <1>2, <1>6, <1>7 DEF GuestInv
<1> QED BY <1>2, <1>8, GuestStepKeeps DEF hostVars, sessVars, tableVars, viewVars

\* "welcome" at either end: the host appends it, the guest takes it and runs.
LEMMA AdmitKeeps ==
  ASSUME TypeInv, ScriptInv, NEW g \in Guests, Admit(g)
  PROVE  ScriptInv'
<1>1. /\ GuestInv(down[g], gs[g], script, epoch) /\ down[g] \in Seq(DownMsg)
      /\ DOMAIN down = Guests
  BY GuestKnown
<1>2. PICK s \in FreeSlots :
        down' = [down EXCEPT ![g] = Append(@, [t |-> "welcome", slot |-> s])]
  BY DEF Admit
<1> DEFINE m == [t |-> "welcome", slot |-> s]
<1>3. m \in DownMsg /\ m.t = "welcome"
  BY DEF FreeSlots, DownMsg
<1>4. down'[g] = Append(down[g], m) /\ \A k \in Guests : k # g => down'[k] = down[k]
  BY <1>1, <1>2
<1> HIDE DEF m
<1>5. SyncsAscend(down'[g], gs[g].rxEpoch)
  BY <1>1, <1>3, <1>4, FrameAscends DEF GuestInv
<1>6. \A i \in 1 .. Len(down'[g]) : MessageFollows(down'[g][i], script, epoch)
  <2>1. Len(Append(down[g], m)) = Len(down[g]) + 1
    BY <1>1
  <2>2. \A i \in 1 .. Len(down[g]) + 1 :
          Append(down[g], m)[i] = IF i = Len(down[g]) + 1 THEN m ELSE down[g][i]
    BY <1>1
  <2>3. \A i \in 1 .. Len(down[g]) + 1 : i # Len(down[g]) + 1 => i \in 1 .. Len(down[g])
    BY <1>1
  <2>4. MessageFollows(m, script, epoch)
    BY <1>3 DEF MessageFollows
  <2> QED BY <1>1, <1>4, <2>1, <2>2, <2>3, <2>4 DEF GuestInv
<1>7. /\ gs' = gs /\ UNCHANGED <<script, epoch, field, ready, partial, hplayed, synced, hpc>>
  BY DEF Admit, tableVars, viewVars
<1>8. GuestInv(down'[g], gs'[g], script, epoch)
  BY <1>1, <1>5, <1>6, <1>7 DEF GuestInv
<1> QED BY <1>4, <1>7, <1>8, GuestStepKeeps

\* A guest that enters the session has nothing to play yet.
LEMMA JoinOkKeeps ==
  ASSUME TypeInv, ScriptInv, NEW g \in Guests, JoinOk(g)
  PROVE  ScriptInv'
<1>1. /\ GuestInv(down[g], gs[g], script, epoch) /\ gs[g] \in Guest /\ DOMAIN gs = Guests
      /\ down[g] \in Seq(DownMsg) /\ DOMAIN down = Guests
  BY GuestKnown
<1>2. /\ down[g] # <<>> /\ down'[g] = Tail(down[g]) /\ gs[g].pc = "joining"
      /\ \A k \in Guests : k # g => gs'[k] = gs[k] /\ down'[k] = down[k]
      /\ gs'[g] = [gs[g] EXCEPT !.pc = "run"]
  BY <1>1 DEF JoinOk, Receives, Pop
<1>3. /\ \A i \in 1 .. Len(down'[g]) : MessageFollows(down'[g][i], script, epoch)
      /\ SyncsAscend(down'[g], gs[g].rxEpoch)
  <2>1. /\ SyncsAscend(down[g], gs[g].rxEpoch)
        /\ \A i \in 1 .. Len(down[g]) : MessageFollows(down[g][i], script, epoch)
    BY <1>1 DEF GuestInv
  <2>2. /\ \A i \in 1 .. Len(Tail(down[g])) : MessageFollows(Tail(down[g])[i], script, epoch)
        /\ SyncsAscend(Tail(down[g]), gs[g].rxEpoch)
    BY <1>1, <1>2, <2>1, PopKeeps
  <2> QED BY <1>2, <2>2
<1>4. /\ gs'[g].rxEpoch = gs[g].rxEpoch /\ gs'[g].epoch = gs[g].epoch
      /\ gs'[g].ready = gs[g].ready /\ gs'[g].played = gs[g].played
      /\ gs'[g].field = gs[g].field /\ gs'[g].syncReady = gs[g].syncReady
      /\ gs'[g].synced = gs[g].synced /\ gs'[g].pc = "run" /\ gs[g].synced \in BOOLEAN
  BY <1>1, <1>2 DEF Guest
<1>5. ~gs[g].synced
  BY <1>1, <1>2 DEF GuestInv, GuestPlace
<1>6. GuestFrames(gs'[g], script, epoch) /\ GuestPlace(gs'[g])
  BY <1>1, <1>4, <1>5 DEF GuestInv, GuestFrames, GuestPlace
<1>7. GuestInv(down'[g], gs'[g], script, epoch)
  BY <1>3, <1>4, <1>6 DEF GuestInv
<1> QED BY <1>2, <1>7, GuestStepKeeps DEF JoinOk, hostVars, sessVars, tableVars, viewVars

\* A frame that arrives is the script's; one of an epoch the guest is not in is dropped.
LEMMA GuestRecvInKeeps ==
  ASSUME TypeInv, ScriptInv, NEW g \in Guests, GuestRecvIn(g)
  PROVE  ScriptInv'
<1> DEFINE m == Head(down[g])
<1>1. /\ GuestInv(down[g], gs[g], script, epoch) /\ gs[g] \in Guest /\ DOMAIN gs = Guests
      /\ down[g] \in Seq(DownMsg) /\ DOMAIN down = Guests
  BY GuestKnown
<1>2. /\ down[g] # <<>> /\ down'[g] = Tail(down[g]) /\ m.t = "in"
      /\ \A k \in Guests : k # g => gs'[k] = gs[k] /\ down'[k] = down[k]
      /\ gs'[g] = IF m.ep = gs[g].rxEpoch THEN [gs[g] EXCEPT !.ready = [@ EXCEPT ![m.f] = m.fr]]
                  ELSE gs[g]
  BY <1>1 DEF GuestRecvIn, Receives, Pop
<1>3. /\ \A i \in 1 .. Len(down'[g]) : MessageFollows(down'[g][i], script, epoch)
      /\ SyncsAscend(down'[g], gs[g].rxEpoch) /\ m \in DownMsg /\ MessageFollows(m, script, epoch)
  BY <1>1, <1>2, PopKeeps DEF GuestInv
<1>4. m.ep \in Epochs /\ m.f \in Fields /\ m.fr \in Frame /\ m.fr = script[m.ep][m.f]
  BY <1>2, <1>3 DEF DownMsg, MessageFollows
<1> HIDE DEF m
<1>5. /\ gs'[g].rxEpoch = gs[g].rxEpoch /\ gs'[g].epoch = gs[g].epoch
      /\ gs'[g].played = gs[g].played /\ gs'[g].syncing = gs[g].syncing
      /\ gs'[g].field = gs[g].field /\ gs'[g].syncReady = gs[g].syncReady
      /\ gs'[g].synced = gs[g].synced /\ gs'[g].pc = gs[g].pc /\ gs'[g].lost = gs[g].lost
  BY <1>1, <1>2 DEF Guest
<1>6. gs[g].ready \in Map(Frame)
      /\ gs'[g].ready = (IF m.ep = gs[g].rxEpoch THEN [gs[g].ready EXCEPT ![m.f] = m.fr]
                         ELSE gs[g].ready)
  BY <1>1, <1>2 DEF Guest
<1>7. \A f \in Fields : gs'[g].ready[f] # None =>
                          Follows(gs'[g].ready[f], script, gs[g].rxEpoch, f)
  <2>1. m.ep = gs[g].rxEpoch => Follows(m.fr, script, gs[g].rxEpoch, m.f)
    BY <1>4, FrameThere DEF Follows
  <2>2. \A f \in Fields : \/ gs'[g].ready[f] = gs[g].ready[f]
                          \/ m.ep = gs[g].rxEpoch /\ f = m.f /\ gs'[g].ready[f] = m.fr
    BY <1>6 DEF Map
  <2> QED BY <1>1, <2>1, <2>2 DEF GuestInv, GuestFrames
<1>8. GuestFrames(gs'[g], script, epoch)
  BY <1>1, <1>5, <1>7 DEF GuestInv, GuestFrames
<1>9. GuestPlace(gs'[g])
  BY <1>1, <1>5 DEF GuestInv, GuestPlace
<1>10. GuestInv(down'[g], gs'[g], script, epoch)
  BY <1>3, <1>5, <1>8, <1>9 DEF GuestInv
<1> QED BY <1>2, <1>10, GuestStepKeeps DEF GuestRecvIn, hostVars, sessVars, tableVars, viewVars

\* A later epoch is announced: nothing received for the earlier one is kept.
LEMMA GuestRecvSyncKeeps ==
  ASSUME TypeInv, ScriptInv, NEW g \in Guests, GuestRecvSync(g)
  PROVE  ScriptInv'
<1> DEFINE m == Head(down[g])
<1>1. /\ GuestInv(down[g], gs[g], script, epoch) /\ gs[g] \in Guest /\ DOMAIN gs = Guests
      /\ down[g] \in Seq(DownMsg) /\ DOMAIN down = Guests
  BY GuestKnown
<1>2. /\ down[g] # <<>> /\ down'[g] = Tail(down[g]) /\ m.t = "sync"
      /\ \A k \in Guests : k # g => gs'[k] = gs[k] /\ down'[k] = down[k]
      /\ gs'[g] = [gs[g] EXCEPT !.rxEpoch = m.ep, !.syncReady = TRUE, !.ready = NoMap]
  BY <1>1 DEF GuestRecvSync, Receives, Pop
<1>3. /\ \A i \in 1 .. Len(down'[g]) : MessageFollows(down'[g][i], script, epoch)
      /\ SyncsAscend(down'[g], m.ep) /\ gs[g].rxEpoch < m.ep
      /\ m \in DownMsg /\ MessageFollows(m, script, epoch)
  BY <1>1, <1>2, PopKeeps DEF GuestInv
<1>4. m.ep \in Epochs /\ 0 < m.ep /\ m.ep <= epoch
  BY <1>2, <1>3 DEF DownMsg, MessageFollows
<1> HIDE DEF m
<1>5. /\ gs'[g].rxEpoch = m.ep /\ gs'[g].syncReady = TRUE /\ gs'[g].ready = NoMap
      /\ gs'[g].epoch = gs[g].epoch
      /\ gs'[g].played = gs[g].played /\ gs'[g].syncing = gs[g].syncing
      /\ gs'[g].field = gs[g].field
      /\ gs'[g].synced = gs[g].synced /\ gs'[g].pc = gs[g].pc /\ gs'[g].lost = gs[g].lost
  BY <1>1, <1>2 DEF Guest
<1>6. /\ gs[g].epoch \in Int /\ gs[g].rxEpoch \in Int /\ gs[g].syncing \in Int /\ m.ep \in Int
      /\ gs[g].synced \in BOOLEAN
  BY <1>1, <1>4 DEF Guest, Epochs
<1>7. gs[g].epoch < m.ep
  BY <1>1, <1>3, <1>6 DEF GuestInv, GuestFrames
<1>8. GuestFrames(gs'[g], script, epoch)
  BY <1>1, <1>4, <1>5, <1>6, <1>7 DEF GuestInv, GuestFrames, NoMap
<1>9. GuestPlace(gs'[g])
  BY <1>1, <1>3, <1>4, <1>5, <1>6, <1>7 DEF GuestInv, GuestPlace
<1>10. GuestInv(down'[g], gs'[g], script, epoch)
  BY <1>3, <1>5, <1>8, <1>9 DEF GuestInv
<1> QED BY <1>2, <1>10, GuestStepKeeps DEF GuestRecvSync, hostVars, sessVars, tableVars, viewVars

\* The connection is gone, and what was under way with it.
LEMMA GuestEndKeeps ==
  ASSUME TypeInv, ScriptInv, NEW g \in Guests, GuestRxEnd(g) \/ GuestStop(g)
  PROVE  ScriptInv'
<1>1. /\ GuestInv(down[g], gs[g], script, epoch) /\ gs[g] \in Guest /\ DOMAIN gs = Guests
      /\ DOMAIN down = Guests
  BY GuestKnown
<1>2. /\ down'[g] = <<>>
      /\ \A k \in Guests : k # g => gs'[k] = gs[k] /\ down'[k] = down[k]
      /\ \/ gs'[g] = [gs[g] EXCEPT !.lost = TRUE]
         \/ gs'[g] = [gs[g] EXCEPT !.pc = "off", !.synced = FALSE]
  BY <1>1 DEF GuestRxEnd, GuestStop
<1>3. /\ gs'[g].rxEpoch = gs[g].rxEpoch /\ gs'[g].syncReady = gs[g].syncReady
      /\ gs'[g].ready = gs[g].ready /\ gs'[g].epoch = gs[g].epoch
      /\ gs'[g].played = gs[g].played /\ gs'[g].syncing = gs[g].syncing
      /\ gs'[g].field = gs[g].field
  BY <1>1, <1>2 DEF Guest
<1>4. \/ gs'[g].lost = TRUE /\ gs'[g].pc = gs[g].pc /\ gs'[g].synced = gs[g].synced
      \/ gs'[g].pc = "off" /\ gs'[g].synced = FALSE
  BY <1>1, <1>2 DEF Guest
<1>5. gs[g].synced \in BOOLEAN
  BY <1>1 DEF Guest
<1>6. GuestFrames(gs'[g], script, epoch)
  BY <1>1, <1>3, <1>4, <1>5 DEF GuestInv, GuestFrames
<1>7. GuestPlace(gs'[g])
  BY <1>1, <1>3, <1>4, <1>5 DEF GuestInv, GuestPlace
<1>8. GuestInv(down'[g], gs'[g], script, epoch)
  BY <1>2, <1>6, <1>7 DEF GuestInv, SyncsAscend
<1> QED BY <1>2, <1>8, GuestStepKeeps
        DEF GuestRxEnd, GuestStop, hostVars, sessVars, tableVars, viewVars

\* A field closes: the frame of the next one is awaited.
LEMMA GuestFieldKeeps ==
  ASSUME TypeInv, ScriptInv, NEW g \in Guests, GuestField(g)
  PROVE  /\ ScriptInv' /\ gs'[g].played[gs'[g].field] = None
         /\ gs'[g].field = gs[g].field + 1 /\ gs[g].played[gs[g].field] # None
         /\ gs'[g].epoch = gs[g].epoch /\ gs'[g].played = gs[g].played
         /\ gs'[g].synced = gs[g].synced /\ \A k \in Guests : k # g => gs'[k] = gs[k]
<1>1. /\ GuestInv(down[g], gs[g], script, epoch) /\ gs[g] \in Guest /\ DOMAIN gs = Guests
  BY GuestKnown
<1>2. /\ gs'[g] = [gs[g] EXCEPT !.field = @ + 1, !.pc = "wait"] /\ down' = down
      /\ \A k \in Guests : k # g => gs'[k] = gs[k]
      /\ gs[g].pc = "run" /\ ~gs[g].lost /\ gs[g].synced /\ ~gs[g].syncReady
      /\ gs[g].field < MaxField
  BY <1>1 DEF GuestField
<1>3. /\ gs'[g].rxEpoch = gs[g].rxEpoch /\ gs'[g].epoch = gs[g].epoch
      /\ gs'[g].ready = gs[g].ready /\ gs'[g].played = gs[g].played
      /\ gs'[g].field = gs[g].field + 1 /\ gs'[g].syncReady = gs[g].syncReady
      /\ gs'[g].synced = gs[g].synced /\ gs'[g].pc = "wait"
  BY <1>1, <1>2 DEF Guest
<1>4. /\ gs[g].field \in Nat /\ gs[g].field + 1 \in Fields
      /\ gs[g].synced \in BOOLEAN /\ gs[g].syncReady \in BOOLEAN
  BY <1>1, <1>2, DelayAssumption, BoundAssumption DEF Guest, Fields
<1>5. gs[g].epoch = gs[g].rxEpoch /\ gs[g].played[gs[g].field] # None
  BY <1>1, <1>2 DEF GuestInv, GuestPlace
<1>6. gs[g].played[gs[g].field + 1] = None
  BY <1>1, <1>2, <1>4 DEF GuestInv, GuestPlace
<1>7. \A f \in Fields : f > gs[g].field + 1 => gs[g].played[f] = None
  BY <1>1, <1>2, <1>4 DEF GuestInv, GuestPlace, Fields
<1>8. GuestPlace(gs'[g])
  <2>1. gs'[g].field > 0 /\ gs'[g].field - 1 = gs[g].field
    BY <1>3, <1>4
  <2>2. gs'[g].synced /\ ~gs'[g].syncReady
    BY <1>2, <1>3
  <2>3. /\ gs'[g].played[gs'[g].field] = None /\ gs'[g].played[gs'[g].field - 1] # None
        /\ gs'[g].epoch = gs'[g].rxEpoch /\ gs'[g].pc = "wait"
        /\ \A f \in Fields : f > gs'[g].field => gs'[g].played[f] = None
    BY <1>3, <1>5, <1>6, <1>7, <2>1
  <2> QED BY <2>1, <2>2, <2>3 DEF GuestPlace
<1>9. GuestFrames(gs'[g], script, epoch)
  BY <1>1, <1>3 DEF GuestInv, GuestFrames
<1>10. GuestInv(down'[g], gs'[g], script, epoch)
  BY <1>1, <1>2, <1>3, <1>8, <1>9 DEF GuestInv
<1>11. ScriptInv'
  BY <1>2, <1>10, GuestStepKeeps DEF GuestField, hostVars, sessVars, tableVars, viewVars
<1> QED BY <1>2, <1>3, <1>5, <1>6, <1>11

\* The wait ends with a frame of the guest's epoch.
LEMMA GuestTakeKeeps ==
  ASSUME TypeInv, ScriptInv, NEW g \in Guests, GuestTake(g)
  PROVE  /\ ScriptInv' /\ gs'[g].played[gs[g].field] # None
         /\ Follows(gs'[g].played[gs[g].field], script, gs[g].epoch, gs[g].field)
         /\ gs'[g].field = gs[g].field /\ gs'[g].epoch = gs[g].epoch
         /\ gs'[g].synced = gs[g].synced /\ \A k \in Guests : k # g => gs'[k] = gs[k]
<1> DEFINE f == gs[g].field
           fr == gs[g].ready[f]
<1>1. /\ GuestInv(down[g], gs[g], script, epoch) /\ gs[g] \in Guest /\ DOMAIN gs = Guests
  BY GuestKnown
<1>2. /\ gs'[g] = [gs[g] EXCEPT !.pc = "run", !.view = fr.view,
                                !.played = [@ EXCEPT ![f] = fr], !.ready = EraseBelow(@, f)]
      /\ down' = down /\ \A k \in Guests : k # g => gs'[k] = gs[k]
      /\ gs[g].pc = "wait" /\ ~gs[g].syncReady /\ fr # None
  BY <1>1 DEF GuestTake, FrameFor, linkVars
<1> HIDE DEF fr
<1>3. /\ gs'[g].rxEpoch = gs[g].rxEpoch /\ gs'[g].epoch = gs[g].epoch
      /\ gs'[g].field = f /\ gs'[g].syncReady = gs[g].syncReady
      /\ gs'[g].synced = gs[g].synced /\ gs'[g].pc = "run"
      /\ gs'[g].played = [gs[g].played EXCEPT ![f] = fr]
      /\ gs'[g].ready = EraseBelow(gs[g].ready, f)
  BY <1>1, <1>2 DEF Guest
<1>4. /\ f \in Fields /\ gs[g].played \in Map(Frame) /\ gs[g].ready \in Map(Frame)
      /\ f \in Nat
  BY <1>1, DelayAssumption, BoundAssumption DEF Guest, Fields
<1>5. gs[g].synced /\ gs[g].epoch = gs[g].rxEpoch
  BY <1>1, <1>2 DEF GuestInv, GuestPlace
<1>6. Follows(fr, script, gs[g].epoch, f)
  BY <1>1, <1>2, <1>4, <1>5 DEF GuestInv, GuestFrames, fr
<1> HIDE DEF f
<1>7. gs'[g].played[f] = fr /\ \A k \in Fields : k # f => gs'[g].played[k] = gs[g].played[k]
  BY <1>3, <1>4 DEF Map
<1>8. \A k \in Fields : gs'[g].ready[k] # None => gs'[g].ready[k] = gs[g].ready[k]
  BY <1>3 DEF EraseBelow
<1>9. GuestFrames(gs'[g], script, epoch)
  <2>1. \A k \in Fields : gs'[g].played[k] # None =>
                            Follows(gs'[g].played[k], script, gs[g].epoch, k)
    BY <1>1, <1>5, <1>6, <1>7 DEF GuestInv, GuestFrames
  <2>2. \A k \in Fields : gs'[g].ready[k] # None =>
                            Follows(gs'[g].ready[k], script, gs[g].rxEpoch, k)
    BY <1>1, <1>8 DEF GuestInv, GuestFrames
  <2> QED BY <1>1, <1>3, <1>5, <2>1, <2>2 DEF GuestInv, GuestFrames
<1>10. GuestPlace(gs'[g])
  <2>1. \A k \in Fields : k > f => gs'[g].played[k] = None
    BY <1>1, <1>4, <1>5, <1>7 DEF GuestInv, GuestPlace, f, Fields
  <2> QED BY <1>2, <1>3, <1>5, <1>7, <2>1 DEF GuestPlace
<1>11. GuestInv(down'[g], gs'[g], script, epoch)
  BY <1>1, <1>2, <1>3, <1>9, <1>10 DEF GuestInv
<1>12. ScriptInv'
  BY <1>2, <1>11, GuestStepKeeps DEF GuestTake, hostVars, sessVars, tableVars, viewVars
<1> QED BY <1>2, <1>3, <1>6, <1>7, <1>12 DEF f

\* The state of the epoch last heard of is taken to be loaded.
LEMMA ApplyBeginKeeps ==
  ASSUME TypeInv, ScriptInv, NEW g \in Guests, ApplyBegin(g)
  PROVE  ScriptInv'
<1>1. /\ GuestInv(down[g], gs[g], script, epoch) /\ gs[g] \in Guest /\ DOMAIN gs = Guests
  BY GuestKnown
<1>2. /\ gs'[g] = [gs[g] EXCEPT !.pc = "apply", !.syncing = gs[g].rxEpoch, !.syncReady = FALSE]
      /\ down' = down /\ \A k \in Guests : k # g => gs'[k] = gs[k] /\ down'[k] = down[k]
      /\ gs[g].syncReady
  BY <1>1 DEF ApplyBegin, linkVars
<1>3. /\ gs'[g].rxEpoch = gs[g].rxEpoch /\ gs'[g].epoch = gs[g].epoch
      /\ gs'[g].field = gs[g].field /\ gs'[g].syncReady = FALSE
      /\ gs'[g].synced = gs[g].synced /\ gs'[g].pc = "apply" /\ gs'[g].syncing = gs[g].rxEpoch
      /\ gs'[g].played = gs[g].played /\ gs'[g].ready = gs[g].ready
  BY <1>1, <1>2 DEF Guest
<1>4. gs[g].rxEpoch \in Int /\ gs[g].synced \in BOOLEAN
  BY <1>1 DEF Guest, Epochs
<1>5. GuestPlace(gs'[g])
  BY <1>1, <1>2, <1>3, <1>4 DEF GuestInv, GuestPlace
<1>6. GuestFrames(gs'[g], script, epoch)
  BY <1>1, <1>3, <1>4 DEF GuestInv, GuestFrames
<1>7. GuestInv(down'[g], gs'[g], script, epoch)
  BY <1>1, <1>2, <1>3, <1>5, <1>6 DEF GuestInv
<1> QED BY <1>2, <1>7, GuestStepKeeps DEF ApplyBegin, hostVars, sessVars, tableVars, viewVars

\* The guest enters the epoch it last heard of, and plays its idle first field.
LEMMA ApplyEndKeeps ==
  ASSUME TypeInv, ScriptInv, NEW g \in Guests, ApplyEnd(g)
  PROVE  /\ ScriptInv' /\ gs'[g].played[0] # None /\ Follows(gs'[g].played[0], script, gs[g].syncing, 0)
         /\ gs'[g].field = 0 /\ gs'[g].epoch = gs[g].syncing /\ gs'[g].synced = TRUE
         /\ gs[g].synced => gs[g].epoch < gs[g].syncing
         /\ \A k \in Guests : k # g => gs'[k] = gs[k]
<1> DEFINE pre == Prefill(gs[g].view)
           rd == [f \in Fields |-> IF gs[g].ready[f] # None THEN gs[g].ready[f] ELSE pre[f]]
           first == [NoMap EXCEPT ![0] = rd[0]]
<1> USE DelayAssumption
<1>1. /\ GuestInv(down[g], gs[g], script, epoch) /\ gs[g] \in Guest /\ DOMAIN gs = Guests
      /\ epoch \in Epochs /\ epoch \in Nat
  BY GuestKnown
<1>2. /\ gs'[g] = [gs[g] EXCEPT !.pc = "run", !.health = Healed(@), !.epoch = gs[g].syncing,
                                !.field = 0, !.synced = TRUE, !.ready = rd, !.view = rd[0].view,
                                !.played = first]
      /\ down' = down /\ \A k \in Guests : k # g => gs'[k] = gs[k] /\ down'[k] = down[k]
      /\ gs[g].pc = "apply" /\ ~gs[g].syncReady
  BY <1>1 DEF ApplyEnd
<1>3. gs[g].ready \in Map(Frame) /\ gs[g].view \in Views /\ gs[g].syncing \in Epochs
  BY <1>1 DEF Guest
<1>4. /\ \A f \in Fields : pre[f] = IF f < Delay THEN viewFrame(gs[g].view) ELSE None
      /\ viewFrame(gs[g].view).p = Idle /\ 0 \in Fields
      /\ viewFrame(gs[g].view) # None
  BY <1>3, FrameThere, Empties DEF Prefill, viewFrame, Idle
<1>5. /\ \A f \in Fields : (rd[f] = gs[g].ready[f] /\ rd[f] # None) \/ rd[f] = pre[f]
      /\ rd[0] # None
  BY <1>4
<1> HIDE DEF pre, rd
<1>6. first[0] = rd[0] /\ \A f \in Fields : f # 0 => first[f] = None
  BY <1>4 DEF NoMap
<1> HIDE DEF first
<1>7. /\ gs'[g].rxEpoch = gs[g].rxEpoch /\ gs'[g].epoch = gs[g].syncing
      /\ gs'[g].field = 0 /\ gs'[g].syncReady = gs[g].syncReady
      /\ gs'[g].synced = TRUE /\ gs'[g].pc = "run" /\ gs'[g].lost = gs[g].lost
      /\ gs'[g].played = first /\ gs'[g].ready = rd
  BY <1>1, <1>2 DEF Guest
<1>8. /\ gs[g].syncing = gs[g].rxEpoch /\ 0 < gs[g].syncing /\ gs[g].syncing <= epoch
      /\ gs[g].synced => gs[g].epoch < gs[g].syncing
  BY <1>1, <1>2 DEF GuestInv, GuestPlace, GuestFrames
<1>9. \A f \in Fields : rd[f] # None => Follows(rd[f], script, gs[g].syncing, f)
  <2> SUFFICES ASSUME NEW f \in Fields, rd[f] # None
               PROVE  Follows(rd[f], script, gs[g].syncing, f)
    OBVIOUS
  <2>1. CASE rd[f] = gs[g].ready[f]
    BY <1>1, <1>8, <2>1 DEF GuestInv, GuestFrames
  <2>2. CASE rd[f] = pre[f]
    <3>1. f < Delay /\ rd[f].p = Idle
      BY <1>4, <2>2
    <3>2. script[gs[g].syncing][f] # None /\ script[gs[g].syncing][f].p = Idle
      BY <1>3, <1>8, <3>1 DEF ScriptInv, ScriptShape
    <3>3. ~(f >= Delay)
      BY <3>1 DEF Fields
    <3> QED BY <3>1, <3>2, <3>3 DEF Follows
  <2> QED BY <1>5, <2>1, <2>2
<1>10. \A f \in Fields : first[f] # None => Follows(first[f], script, gs[g].syncing, f)
  BY <1>6, <1>9
<1>11. gs[g].rxEpoch <= epoch /\ gs[g].syncing <= gs[g].rxEpoch
  BY <1>1, <1>8, <1>3 DEF Epochs
<1>12. GuestFrames(gs'[g], script, epoch)
  BY <1>7, <1>8, <1>9, <1>10, <1>11 DEF GuestFrames
<1>13. GuestPlace(gs'[g])
  <2>1. \A f \in Fields : f > 0 => first[f] = None
    BY <1>6
  <2> QED BY <1>2, <1>5, <1>6, <1>7, <1>8, <2>1 DEF GuestPlace
<1>14. GuestInv(down'[g], gs'[g], script, epoch)
  BY <1>1, <1>2, <1>7, <1>12, <1>13 DEF GuestInv
<1>15. ScriptInv'
  BY <1>2, <1>14, GuestStepKeeps DEF ApplyEnd, hostVars, sessVars, tableVars, viewVars
<1>16. first[0] # None /\ Follows(first[0], script, gs[g].syncing, 0)
  BY <1>4, <1>5, <1>6, <1>9
<1> QED BY <1>2, <1>7, <1>8, <1>15, <1>16

----------------------------------------------------------------------------
(* The invariant, and the agreement it gives. *)

\* The sessions that have not begun follow the script.
LEMMA ScriptInit == Init => ScriptInv
<1> SUFFICES ASSUME Init PROVE ScriptInv
  OBVIOUS
<1>1. 0 \in Epochs /\ 0 \in Fields /\ \A e \in Epochs, f \in Fields : script[e] = NoMap /\ NoMap[f] = None
  BY Empties DEF Init, NoMap
<1>2. ScriptShape(script, epoch)
  BY <1>1 DEF Init, ScriptShape, Epochs
<1>3. TablesFollow(ready, partial, script, epoch, field)
  BY <1>1 DEF Init, TablesFollow, NoPads
<1>4. HostPlays
  BY <1>1 DEF Init, HostPlays
<1>5. StreamsFollow(down, script, epoch)
  BY DEF Init, StreamsFollow
<1>6. ASSUME NEW g \in Guests
      PROVE  /\ SyncsAscend(down[g], gs[g].rxEpoch) /\ GuestFrames(gs[g], script, epoch)
             /\ GuestPlace(gs[g])
  <2>1. /\ down[g] = <<>> /\ gs[g].rxEpoch = 0 /\ gs[g].epoch = 0 /\ gs[g].synced = FALSE
        /\ gs[g].ready = NoMap /\ gs[g].syncReady = FALSE /\ gs[g].pc = "out" /\ epoch = 0
    BY DEF Init
  <2> QED BY <1>1, <2>1 DEF SyncsAscend, GuestFrames, GuestPlace
<1> QED BY <1>2, <1>3, <1>4, <1>5, <1>6 DEF ScriptInv

\* Every step keeps the machines on the script.
LEMMA ScriptStep == TypeInv /\ ScriptInv /\ [Next]_vars => ScriptInv'
<1> SUFFICES ASSUME TypeInv, ScriptInv, [Next]_vars PROVE ScriptInv'
  OBVIOUS
<1>1. CASE HostField \/ HostTake \/ ServiceSync \/ HostFlush
  BY <1>1, HostFieldKeeps, HostTakeKeeps, ServiceSyncKeeps, HostFlushKeeps
<1>2. CASE HostTakeReq
  BY <1>2, HostUntouched DEF HostTakeReq, tableVars, viewVars, linkVars
<1>3. CASE HostStop
  BY <1>3, HostUntouched DEF HostStop, tableVars, viewVars
<1>4. ASSUME NEW m \in ViewModes, setView(m) PROVE ScriptInv'
  BY <1>4, HostUntouched DEF setView, sessVars, tableVars, linkVars
<1>5. ASSUME NEW g \in Guests, HostRx(g) PROVE ScriptInv'
  <2>1. CASE HostRecvIn(g)
    BY <2>1, HostRecvInKeeps
  <2>2. CASE HostRecvHash(g)
    BY <2>2, HostUntouched DEF HostRecvHash, sessVars, tableVars, viewVars
  <2>3. CASE HostRxEnd(g)
    BY <2>3, HostUntouched DEF HostRxEnd, tableVars, viewVars
  <2> QED BY <1>5, <2>1, <2>2, <2>3 DEF HostRx
<1>6. ASSUME NEW g \in Guests, Admit(g) PROVE ScriptInv'
  BY <1>6, AdmitKeeps
<1>7. ASSUME NEW g \in Guests, Refuse(g) \/ Break(g) PROVE ScriptInv'
  BY <1>7, HostUntouched DEF Refuse, Break, hostVars, sessVars, tableVars, viewVars
<1>8. ASSUME NEW g \in Guests, Join(g) \/ JoinFail(g) \/ Diverge(g) \/ GoSolo(g) \/ GuestIdle(g)
      PROVE  ScriptInv'
  BY <1>8, PcKeeps DEF Join, JoinFail, Diverge, GoSolo, GuestIdle, linkVars
<1>9. ASSUME NEW g \in Guests, GuestGiveUp(g) \/ ApplyFail(g) \/ ApplySkip(g)
      PROVE  ScriptInv'
  BY <1>9, PcKeeps DEF GuestGiveUp, ApplyFail, ApplySkip, linkVars
<1>10. ASSUME NEW g \in Guests, JoinOk(g) \/ GuestRx(g) \/ GuestStop(g) PROVE ScriptInv'
  BY <1>10, JoinOkKeeps, GuestRecvInKeeps, GuestRecvSyncKeeps, GuestEndKeeps DEF GuestRx
<1>11. ASSUME NEW g \in Guests, GuestField(g) \/ GuestTake(g) \/ ApplyBegin(g) \/ ApplyEnd(g)
       PROVE  ScriptInv'
  BY <1>11, GuestFieldKeeps, GuestTakeKeeps, ApplyBeginKeeps, ApplyEndKeeps
<1>12. CASE UNCHANGED vars
  BY <1>12, HostUntouched DEF vars, hostVars, sessVars, tableVars, viewVars, linkVars
<1> QED BY <1>1, <1>2, <1>3, <1>4, <1>5, <1>6, <1>7, <1>8, <1>9, <1>10, <1>11, <1>12
        DEF Next, HostCore, HostUser, GuestJoin, GuestCore

\* In every state of a session everything that holds a frame follows the script.
THEOREM ScriptFollowed == Spec => [](TypeInv /\ ScriptInv)
<1>1. Init => TypeInv /\ ScriptInv
  BY TypeInit, ScriptInit
<1>2. TypeInv /\ ScriptInv /\ [Next]_vars => (TypeInv /\ ScriptInv)'
  BY TypeStep, ScriptStep
<1> QED BY <1>1, <1>2, PTL DEF Spec

\* What a running machine has played follows the script of its epoch.
LEMMA RunningFollows ==
  ASSUME TypeInv, ScriptInv, NEW a \in Running, NEW f \in Fields, a.played[f] # None
  PROVE  Follows(a.played[f], script, a.ep, f)
<1>1. CASE synced /\ a = [ep |-> epoch, played |-> hplayed]
  <2>1. hplayed[f] = script[epoch][f]
    BY <1>1 DEF ScriptInv, HostPlays
  <2> QED BY <1>1, <2>1 DEF Follows
<1>2. ASSUME NEW g \in Guests, gs[g].synced, a = [ep |-> gs[g].epoch, played |-> gs[g].played]
      PROVE  Follows(a.played[f], script, a.ep, f)
  BY <1>2 DEF ScriptInv, GuestFrames
<1> QED BY <1>1, <1>2 DEF Running

\* Two machines of the same epoch never run a field with different pads, whatever
\* the links lose, whoever joins or leaves and however often the host synchronises.
THEOREM InputsAgree == Spec => []InputAgreement
<1>1. TypeInv /\ ScriptInv => InputAgreement
  BY RunningFollows DEF InputAgreement, Follows
<1> QED BY <1>1, ScriptFollowed, PTL

\* From field Delay on they also run it with the same view.
THEOREM ViewsAgree == Spec => []ViewAgreement
<1>1. TypeInv /\ ScriptInv => ViewAgreement
  <2>1. \A f \in Delay .. MaxField : f \in Fields /\ f >= Delay
    BY DelayAssumption, BoundAssumption DEF Fields
  <2> QED BY <2>1, RunningFollows DEF ViewAgreement, Follows
<1> QED BY <1>1, ScriptFollowed, PTL

----------------------------------------------------------------------------
(* Netplay implements Lockstep. *)

AllPads == [Slots -> Pads \cup {Neutral}]

\* The pads of the script, field by field: decided where the script has a frame.
LEMMA PadsDealt ==
  ASSUME NEW scr \in Scripts, NEW e \in Epochs, NEW f \in Fields
  PROVE  /\ scr[e][f] = None => PadsOf(scr[e])[f] = None
         /\ scr[e][f] # None => /\ scr[e][f] \in Frame /\ scr[e][f].p \in AllPads
                                /\ PadsOf(scr[e])[f] = scr[e][f].p /\ scr[e][f].p # None
BY AbsentAssumption DEF Scripts, Map, Opt, Frame, PadsOf, AllPads

\* The initial states map to the initial state of Lockstep.
LEMMA InitMaps == Init => LS!Init
<1> SUFFICES ASSUME Init PROVE LS!Init
  OBVIOUS
<1>1. [e \in Epochs |-> PadsOf(script[e])] = [e \in LS!Epochs |-> [f \in LS!Fields |-> None]]
  BY DEF Init, PadsOf, NoMap, LS!Epochs, LS!Fields, Epochs, Fields
<1>2. \A m \in Machines : PositionOf(m) = None
  BY DEF Init, PositionOf, Position, Machines
<1> QED BY <1>1, <1>2 DEF LS!Init, Init

\* A machine is where it was when these are what they were.
LEMMA SamePlace ==
  ASSUME NEW g \in Guests, gs'[g].synced = gs[g].synced, gs'[g].epoch = gs[g].epoch,
         gs'[g].field = gs[g].field, gs'[g].played = gs[g].played
  PROVE  PositionOf(g)' = PositionOf(g)
BY HostAssumption DEF PositionOf

\* Steps that neither deal a field nor move a machine are invisible.
LEMMA Invisible ==
  ASSUME UNCHANGED <<epoch, script, synced, field, hplayed>>,
         \A g \in Guests : /\ gs'[g].synced = gs[g].synced /\ gs'[g].epoch = gs[g].epoch
                           /\ gs'[g].field = gs[g].field /\ gs'[g].played = gs[g].played
  PROVE  UNCHANGED LS!vars
<1>1. \A m \in Machines : PositionOf(m)' = PositionOf(m)
  <2>1. PositionOf("host")' = PositionOf("host")
    BY DEF PositionOf, Position, PadsOf
  <2> QED BY <2>1, SamePlace DEF Machines
<1> QED BY <1>1 DEF LS!vars

\* A machine that runs field f of its epoch is at f; one that awaits it is before it.
LEMMA PositionAt ==
  ASSUME NEW ep \in Epochs, NEW f \in Fields, NEW played \in Map(Frame), played[f] # None
  PROVE  /\ Position(TRUE, ep, f, played) = [ep |-> ep, f |-> f, in |-> played[f].p]
         /\ played[f].p \in AllPads
BY DEF Position, PadsOf, Map, Opt, Frame, AllPads

\* The same while the frame of f is awaited.
LEMMA PositionBefore ==
  ASSUME NEW ep \in Epochs, NEW f \in Fields, f - 1 \in Fields, NEW played \in Map(Frame),
         played[f] = None, played[f - 1] # None
  PROVE  /\ Position(TRUE, ep, f, played) = [ep |-> ep, f |-> f - 1, in |-> played[f - 1].p]
         /\ played[f - 1].p \in AllPads
BY DEF Position, PadsOf, Map, Opt, Frame, AllPads

\* A machine does not move when a field closes and the frame of the next is awaited.
LEMMA PositionKept ==
  ASSUME NEW ep \in Epochs, NEW f \in Fields, f + 1 \in Fields, NEW played \in Map(Frame),
         played[f] # None, played[f + 1] = None
  PROVE  Position(TRUE, ep, f + 1, played) = Position(TRUE, ep, f, played)
<1> DEFINE h == f + 1
<1>1. h - 1 = f /\ played[h] = None
  BY DEF Fields
<1> HIDE DEF h
<1>2. Position(TRUE, ep, h, played) = [ep |-> ep, f |-> f, in |-> PadsOf(played)[f]]
  BY <1>1 DEF Position
<1>3. Position(TRUE, ep, f, played) = [ep |-> ep, f |-> f, in |-> PadsOf(played)[f]]
  BY DEF Position
<1> QED BY <1>2, <1>3 DEF h

\* A field that is not the first has one before it.
LEMMA FieldBefore == \A f \in Fields : f > 0 => f - 1 \in Fields
BY DelayAssumption, BoundAssumption DEF Fields

\* A dealt field is a Deal of Lockstep.
LEMMA DealMaps ==
  ASSUME TypeInv, script' \in Scripts, FrameDealt, epoch' = epoch,
         \A m \in Machines : PositionOf(m)' = PositionOf(m)
  PROVE  LS!Next \/ UNCHANGED LS!vars
<1>t. script \in Scripts /\ epoch \in Epochs
  BY HostTypes
<1>1. CASE script' = script
  BY <1>1 DEF LS!vars
<1>2. ASSUME NEW f \in Fields, FrameAdded(down, script, epoch, f)
      PROVE  LS!Next
  <2>1. PICK fr \in Frame : script[epoch][f] = None /\ script' = [script EXCEPT ![epoch][f] = fr]
    BY <1>2 DEF FrameAdded
  <2>2. script'[epoch][f] = fr /\ fr # None
    BY <1>t, <2>1, FrameThere DEF Scripts, Map
  <2>3. PadsOf(script[epoch])[f] = None /\ PadsOf(script'[epoch])[f] = fr.p /\ fr.p \in AllPads
    <3>1. fr.p \in AllPads
      BY DEF Frame, AllPads
    <3>2. script'[epoch][f] # None => PadsOf(script'[epoch])[f] = script'[epoch][f].p
      BY <1>t DEF PadsOf
    <3> QED BY <1>t, <2>1, <2>2, <3>1, <3>2 DEF PadsOf
  <2>4. /\ \A e \in Epochs : e # epoch => script'[e] = script[e]
        /\ \A k \in Fields : k # f => script'[epoch][k] = script[epoch][k]
    BY <1>t, <2>1 DEF Scripts, Map
  <2>5. PadsOf(script'[epoch]) = [PadsOf(script[epoch]) EXCEPT ![f] = fr.p]
    BY <2>2, <2>4 DEF PadsOf
  <2>6. [e \in Epochs |-> PadsOf(script'[e])]
          = [[e \in Epochs |-> PadsOf(script[e])] EXCEPT ![epoch][f] = fr.p]
    BY <1>t, <2>4, <2>5
  <2>7. LS!Deal(f)
    BY <1>t, <2>3, <2>6 DEF LS!Deal, AllPads
  <2> QED BY <2>7 DEF LS!Next, LS!Fields, Fields
<1> QED BY <1>1, <1>2 DEF FrameDealt

\* A machine in lockstep is somewhere.
LEMMA PositionThere ==
  ASSUME NEW e \in Epochs, NEW f \in Fields, NEW q \in AllPads
  PROVE  [ep |-> e, f |-> f, in |-> q] # None
BY AbsentAssumption DEF AllPads

\* Changing the position of one machine is changing the function of positions there.
LEMMA MoveOne ==
  ASSUME NEW m \in Machines, \A k \in Machines : k # m => PositionOf(k)' = PositionOf(k)
  PROVE  [k \in Machines |-> PositionOf(k)'] =
           [[k \in Machines |-> PositionOf(k)] EXCEPT ![m] = PositionOf(m)']
OBVIOUS

\* A machine that takes the frame of the field it awaits plays the script.
LEMMA PlayMaps ==
  ASSUME TypeInv, NEW m \in Machines, NEW e \in Epochs, NEW f \in Fields, f - 1 \in Fields,
         NEW q \in AllPads, NEW fr, UNCHANGED <<epoch, script>>,
         \A k \in Machines : k # m => PositionOf(k)' = PositionOf(k),
         PositionOf(m) = [ep |-> e, f |-> f - 1, in |-> q],
         PositionOf(m)' = [ep |-> e, f |-> f, in |-> fr.p], Follows(fr, script, e, f)
  PROVE  LS!Next
<1>1. PositionOf(m) # None /\ PositionOf(m).ep = e /\ PositionOf(m).f + 1 = f
  BY PositionThere DEF Fields
<1>2. PadsOf(script[e])[f] = fr.p /\ PadsOf(script[e])[f] # None
  BY HostTypes, PadsDealt DEF Follows
<1>3. LS!Play(m)
  BY <1>1, <1>2, MoveOne DEF LS!Play, LS!Fields, Fields
<1> QED BY <1>3 DEF LS!Next

\* A machine that loads the state of an epoch enters it.
LEMMA EnterMaps ==
  ASSUME TypeInv, NEW m \in Machines, NEW e \in Epochs, NEW fr, UNCHANGED <<epoch, script>>,
         \A k \in Machines : k # m => PositionOf(k)' = PositionOf(k),
         PositionOf(m) # None => PositionOf(m).ep < e,
         PositionOf(m)' = [ep |-> e, f |-> 0, in |-> fr.p], Follows(fr, script, e, 0)
  PROVE  LS!Next
<1>1. PadsOf(script[e])[0] = fr.p /\ PadsOf(script[e])[0] # None
  BY HostTypes, PadsDealt, Empties DEF Follows
<1>2. LS!Enter(m, e)
  BY <1>1, MoveOne DEF LS!Enter
<1> QED BY <1>2 DEF LS!Next, LS!Epochs, Epochs

\* A machine that goes on alone leaves.
LEMMA LeaveMaps ==
  ASSUME NEW m \in Machines, UNCHANGED <<epoch, script>>,
         \A k \in Machines : k # m => PositionOf(k)' = PositionOf(k), PositionOf(m)' = None
  PROVE  LS!Next
<1>1. LS!Leave(m)
  BY MoveOne DEF LS!Leave
<1> QED BY <1>1 DEF LS!Next

\* serviceSync opens the next epoch of Lockstep.
LEMMA OpenMaps ==
  ASSUME TypeInv, TypeInv', EpochOpened
  PROVE  LS!Next
<1> DEFINE e == epoch + 1
<1>1. /\ script'[e] \in Map(Frame) /\ script'[e][0] # None /\ script'[e][0].p = Idle
      /\ script' = [script EXCEPT ![e] = script'[e]] /\ epoch' = e /\ e \in Epochs
      /\ synced' = TRUE /\ field' = 0 /\ hplayed'[0] # None /\ hplayed'[0].p = Idle /\ gs' = gs
  BY DEF EpochOpened
<1> HIDE DEF e
<1>2. script \in Scripts /\ script' \in Scripts /\ hplayed' \in Map(Frame)
  BY HostTypes DEF TypeInv, TypeOK, Scripts
<1>3. 0 \in Fields
  BY Empties
<1>4. PadsOf(script'[e])[0] = Idle /\ PadsOf(script'[e])[0] # None
  BY <1>1, <1>2, <1>3, PadsDealt
<1>5. PadsOf(script'[e]) \in [LS!Fields -> AllPads \cup {None}]
  BY <1>1 DEF PadsOf, LS!Fields, Fields, AllPads, Map, Opt, Frame
<1>6. PositionOf("host")' = [ep |-> e, f |-> 0, in |-> Idle]
  <2>1. Position(TRUE, e, 0, hplayed') = [ep |-> e, f |-> 0, in |-> Idle]
    BY <1>1, <1>2, <1>3, PositionAt
  <2> QED BY <1>1, <2>1 DEF PositionOf
<1>7. \A k \in Machines : k # "host" => PositionOf(k)' = PositionOf(k)
  BY <1>1, SamePlace DEF Machines
<1>8. [k \in Epochs |-> PadsOf(script'[k])]
        = [[k \in Epochs |-> PadsOf(script[k])] EXCEPT ![e] = PadsOf(script'[e])]
  BY <1>1, <1>2 DEF Scripts
<1>9. "host" \in Machines
  BY DEF Machines
<1>10. LS!Open
  <2>1. epoch' = epoch + 1 /\ epoch' \in LS!Epochs /\ epoch' = e
    BY <1>1 DEF e, LS!Epochs, Epochs
  <2> QED BY <1>1, <1>4, <1>5, <1>6, <1>7, <1>8, <1>9, <2>1, MoveOne DEF LS!Open, AllPads
<1> QED BY <1>10 DEF LS!Next

\* Every step of the host is a step of Lockstep or invisible in it.
LEMMA HostStepMaps ==
  ASSUME TypeInv, TypeInv', ScriptInv,
         \/ HostCore \/ HostFlush \/ HostUser
         \/ \E g \in Guests : HostRx(g) \/ Admit(g) \/ Refuse(g) \/ Break(g)
  PROVE  LS!Next \/ UNCHANGED LS!vars
<1>t. /\ epoch \in Epochs /\ field \in Fields /\ field \in Nat /\ hplayed \in Map(Frame)
      /\ synced \in BOOLEAN /\ script \in Scripts
  BY HostTypes
<1>u. script' \in Scripts /\ hplayed' \in Map(Frame)
  BY DEF TypeInv, TypeOK, Scripts
<1>h. "host" \in Machines /\ \A k \in Machines : k # "host" => k \in Guests
  BY DEF Machines
<1>1. CASE HostField
  <2>1. ScriptInv' /\ FrameDealt
    BY <1>1, HostFieldKeeps
  <2>2. /\ hplayed' = hplayed /\ field' = field + 1 /\ epoch' = epoch /\ synced' = synced
        /\ gs' = gs /\ synced = TRUE /\ hpc = "run" /\ hpc' = "wait"
    BY <1>1, <1>t DEF HostField, viewVars
  <2>3. hplayed[field] # None /\ hplayed[field + 1] = None
    BY <2>1, <2>2 DEF ScriptInv, HostPlays
  <2>4. field + 1 \in Fields
    BY <1>1, HostTypes, DelayAssumption, BoundAssumption DEF HostField, Fields
  <2>5. Position(TRUE, epoch, field + 1, hplayed) = Position(TRUE, epoch, field, hplayed)
    BY <1>t, <2>3, <2>4, PositionKept
  <2>6. PositionOf("host")' = PositionOf("host")
    BY <2>2, <2>5 DEF PositionOf
  <2>7. \A k \in Machines : PositionOf(k)' = PositionOf(k)
    BY <1>h, <2>2, <2>6, SamePlace
  <2> QED BY <1>u, <2>1, <2>2, <2>7, DealMaps
<1>2. CASE HostTake
  <2>1. /\ field' = field /\ epoch' = epoch /\ synced' = synced /\ script' = script
        /\ gs' = gs /\ hpc = "wait" /\ ready[field] # None
        /\ hplayed' = [hplayed EXCEPT ![field] = ready[field]]
    BY <1>2 DEF HostTake
  <2>2. /\ synced = TRUE /\ field > 0 /\ hplayed[field] = None /\ hplayed[field - 1] # None
        /\ ready[field] = script[epoch][field]
    BY <1>t, <2>1 DEF ScriptInv, HostPlays, TablesFollow
  <2>3. hplayed'[field] = ready[field] /\ field - 1 \in Fields
    BY <1>t, <2>1, <2>2, FieldBefore DEF Map
  <2>4. /\ Position(TRUE, epoch, field, hplayed)
             = [ep |-> epoch, f |-> field - 1, in |-> hplayed[field - 1].p]
        /\ hplayed[field - 1].p \in AllPads
    BY <1>t, <2>2, <2>3, PositionBefore
  <2>5. Position(TRUE, epoch, field, hplayed') = [ep |-> epoch, f |-> field, in |-> ready[field].p]
    BY <1>t, <1>u, <2>1, <2>3, PositionAt
  <2>6. /\ PositionOf("host") = [ep |-> epoch, f |-> field - 1, in |-> hplayed[field - 1].p]
        /\ PositionOf("host")' = [ep |-> epoch, f |-> field, in |-> ready[field].p]
    BY <2>1, <2>2, <2>4, <2>5 DEF PositionOf
  <2>7. Follows(ready[field], script, epoch, field)
    BY <2>1, <2>2 DEF Follows
  <2>8. \A k \in Machines : k # "host" => PositionOf(k)' = PositionOf(k)
    BY <1>h, <2>1, SamePlace
  <2> QED BY <1>t, <1>h, <2>1, <2>3, <2>4, <2>6, <2>7, <2>8, PlayMaps
<1>3. CASE ServiceSync
  BY <1>3, ServiceSyncKeeps, OpenMaps
<1>4. CASE HostFlush \/ \E g \in Guests : HostRecvIn(g)
  <2>1. FrameDealt
    BY <1>4, HostFlushKeeps, HostRecvInKeeps
  <2>2. UNCHANGED <<epoch, field, synced, hplayed, gs>>
    BY <1>4 DEF HostFlush, HostRecvIn, viewVars, sessVars
  <2>3. PositionOf("host")' = PositionOf("host")
    BY <2>2 DEF PositionOf
  <2>4. \A k \in Machines : PositionOf(k)' = PositionOf(k)
    BY <1>h, <2>2, <2>3, SamePlace
  <2> QED BY <1>u, <2>1, <2>2, <2>4, DealMaps
<1>5. CASE HostStop
  <2>1. UNCHANGED <<epoch, script, gs>> /\ synced' = FALSE
    BY <1>5 DEF HostStop, tableVars
  <2>2. PositionOf("host")' = None
    BY <2>1 DEF PositionOf, Position
  <2>3. \A k \in Machines : k # "host" => PositionOf(k)' = PositionOf(k)
    BY <1>h, <2>1, SamePlace
  <2> QED BY <1>h, <2>1, <2>2, <2>3, LeaveMaps
<1>6. CASE HostTakeReq \/ \E m \in ViewModes : setView(m)
  <2>1. UNCHANGED <<epoch, script, synced, field, hplayed, gs>>
    BY <1>6 DEF HostTakeReq, setView, sessVars, tableVars, viewVars
  <2> QED BY <2>1, Invisible
<1>7. ASSUME NEW g \in Guests, HostRecvHash(g) \/ HostRxEnd(g) \/ Admit(g) \/ Refuse(g) \/ Break(g)
      PROVE  UNCHANGED LS!vars
  <2>1. UNCHANGED <<epoch, script, synced, field, hplayed, gs>>
    BY <1>7 DEF HostRecvHash, HostRxEnd, Admit, Refuse, Break, hostVars, sessVars, tableVars, viewVars
  <2> QED BY <2>1, Invisible
<1> QED BY <1>1, <1>2, <1>3, <1>4, <1>5, <1>6, <1>7 DEF HostCore, HostUser, HostRx

\* The steps of a guest that do not move its machine.
Still(g) ==
  \/ Join(g) \/ GuestJoin(g) \/ GuestRx(g) \/ GuestIdle(g) \/ GuestGiveUp(g)
  \/ ApplyBegin(g) \/ ApplyFail(g) \/ ApplySkip(g) \/ Diverge(g)

\* They leave its session, epoch, field and frames as they are.
LEMMA StillStays ==
  ASSUME TypeInv, NEW g \in Guests, Still(g)
  PROVE  /\ UNCHANGED hostVars
         /\ \A k \in Guests : /\ gs'[k].synced = gs[k].synced /\ gs'[k].epoch = gs[k].epoch
                              /\ gs'[k].field = gs[k].field /\ gs'[k].played = gs[k].played
<1>1. gs[g] \in Guest /\ DOMAIN gs = Guests
  BY HostTypes
<1>2. CASE Join(g) \/ GuestJoin(g) \/ GuestIdle(g) \/ GuestGiveUp(g)
  BY <1>1, <1>2 DEF Join, GuestJoin, JoinOk, JoinFail, GuestIdle, GuestGiveUp, Guest
<1>3. CASE GuestRecvIn(g)
  <2>1. gs' = gs \/ \E fr, f : gs' = [gs EXCEPT ![g].ready[f] = fr]
    BY <1>3 DEF GuestRecvIn
  <2> QED BY <1>1, <1>3, <2>1 DEF GuestRecvIn, Guest
<1>4. CASE GuestRecvSync(g)
  BY <1>1, <1>4 DEF GuestRecvSync, Guest
<1>5. CASE GuestRxEnd(g) \/ ApplyBegin(g) \/ ApplyFail(g)
  BY <1>1, <1>5 DEF GuestRxEnd, ApplyBegin, ApplyFail, Guest
<1>6. CASE ApplySkip(g) \/ Diverge(g)
  BY <1>1, <1>6 DEF ApplySkip, Diverge, Guest
<1> QED BY <1>2, <1>3, <1>4, <1>5, <1>6 DEF Still, GuestRx

\* Every step of a guest is a step of Lockstep or invisible in it.
LEMMA GuestStepMaps ==
  ASSUME TypeInv, TypeInv', ScriptInv, NEW g \in Guests,
         \/ Join(g) \/ GuestJoin(g) \/ GuestRx(g) \/ GuestCore(g) \/ GuestStop(g) \/ Diverge(g)
  PROVE  LS!Next \/ UNCHANGED LS!vars
<1>t. /\ gs[g] \in Guest /\ DOMAIN gs = Guests /\ gs'[g] \in Guest /\ g \in Machines /\ g # "host"
      /\ \A k \in Machines : k # "host" => k \in Guests
  BY HostTypes, HostAssumption DEF TypeInv, TypeOK, Machines
<1>f. /\ gs[g].field \in Fields /\ gs[g].field \in Nat /\ gs[g].played \in Map(Frame)
      /\ gs'[g].played \in Map(Frame) /\ gs[g].epoch \in Epochs /\ gs[g].syncing \in Epochs
      /\ gs[g].synced \in BOOLEAN
  BY <1>t, DelayAssumption, BoundAssumption DEF Guest, Fields
<1>i. GuestPlace(gs[g]) /\ GuestFrames(gs[g], script, epoch)
  BY DEF ScriptInv
<1>o. ASSUME UNCHANGED hostVars, \A k \in Guests : k # g => gs'[k] = gs[k]
      PROVE  /\ \A k \in Machines : k # g => PositionOf(k)' = PositionOf(k)
             /\ UNCHANGED <<epoch, script>>
  <2>1. PositionOf("host")' = PositionOf("host")
    BY <1>o DEF PositionOf, hostVars, sessVars, viewVars
  <2> QED BY <1>t, <1>o, <2>1, SamePlace DEF hostVars, sessVars, tableVars
<1>1. CASE Still(g)
  BY <1>1, StillStays, Invisible DEF hostVars, sessVars, tableVars, viewVars
<1>2. CASE GuestField(g)
  <2>1. /\ gs'[g].played[gs'[g].field] = None /\ gs'[g].field = gs[g].field + 1
        /\ gs[g].played[gs[g].field] # None /\ gs'[g].epoch = gs[g].epoch
        /\ gs'[g].played = gs[g].played /\ gs'[g].synced = gs[g].synced
        /\ \A k \in Guests : k # g => gs'[k] = gs[k]
    BY <1>2, GuestFieldKeeps
  <2>2. gs[g].synced = TRUE /\ UNCHANGED hostVars
    BY <1>2, <1>f DEF GuestField
  <2>3. gs[g].field + 1 \in Fields
    BY <1>2, <1>f, <1>t, DelayAssumption, BoundAssumption DEF GuestField, Guest, Fields
  <2>4. Position(TRUE, gs[g].epoch, gs[g].field, gs[g].played)
          = Position(TRUE, gs[g].epoch, gs[g].field + 1, gs[g].played)
    BY <1>f, <2>1, <2>3, PositionKept
  <2>5. PositionOf(g)' = PositionOf(g)
    BY <1>t, <2>1, <2>2, <2>4 DEF PositionOf
  <2> QED BY <1>o, <2>1, <2>2, <2>5 DEF LS!vars
<1>3. CASE GuestTake(g)
  <2>1. /\ gs'[g].played[gs[g].field] # None
        /\ Follows(gs'[g].played[gs[g].field], script, gs[g].epoch, gs[g].field)
        /\ gs'[g].field = gs[g].field /\ gs'[g].epoch = gs[g].epoch
        /\ gs'[g].synced = gs[g].synced /\ \A k \in Guests : k # g => gs'[k] = gs[k]
    BY <1>3, GuestTakeKeeps
  <2>2. /\ gs[g].synced = TRUE /\ gs[g].field > 0 /\ gs[g].played[gs[g].field] = None
        /\ gs[g].played[gs[g].field - 1] # None /\ UNCHANGED hostVars
    BY <1>3, <1>f, <1>i DEF GuestTake, GuestPlace
  <2>3. gs[g].field - 1 \in Fields
    BY <1>f, <2>2, FieldBefore
  <2>4. /\ Position(TRUE, gs[g].epoch, gs[g].field, gs[g].played)
             = [ep |-> gs[g].epoch, f |-> gs[g].field - 1, in |-> gs[g].played[gs[g].field - 1].p]
        /\ gs[g].played[gs[g].field - 1].p \in AllPads
    BY <1>f, <2>2, <2>3, PositionBefore
  <2>5. Position(TRUE, gs[g].epoch, gs[g].field, gs'[g].played)
          = [ep |-> gs[g].epoch, f |-> gs[g].field, in |-> gs'[g].played[gs[g].field].p]
    BY <1>f, <2>1, PositionAt
  <2>6. /\ PositionOf(g) = [ep |-> gs[g].epoch, f |-> gs[g].field - 1,
                            in |-> gs[g].played[gs[g].field - 1].p]
        /\ PositionOf(g)' = [ep |-> gs[g].epoch, f |-> gs[g].field,
                             in |-> gs'[g].played[gs[g].field].p]
    BY <1>t, <2>1, <2>2, <2>4, <2>5 DEF PositionOf
  <2>7. UNCHANGED <<epoch, script>> /\ \A k \in Machines : k # g => PositionOf(k)' = PositionOf(k)
    BY <1>o, <2>1, <2>2
  <2> QED BY <1>t, <1>f, <2>1, <2>3, <2>4, <2>6, <2>7, PlayMaps
<1>4. CASE ApplyEnd(g)
  <2>1. /\ gs'[g].played[0] # None /\ Follows(gs'[g].played[0], script, gs[g].syncing, 0)
        /\ gs'[g].field = 0 /\ gs'[g].epoch = gs[g].syncing /\ gs'[g].synced = TRUE
        /\ gs[g].synced => gs[g].epoch < gs[g].syncing
        /\ \A k \in Guests : k # g => gs'[k] = gs[k]
    BY <1>4, ApplyEndKeeps
  <2>2. PositionOf(g) # None => PositionOf(g).ep < gs[g].syncing
    BY <1>t, <2>1 DEF PositionOf, Position
  <2>3. Position(TRUE, gs[g].syncing, 0, gs'[g].played)
          = [ep |-> gs[g].syncing, f |-> 0, in |-> gs'[g].played[0].p]
    BY <1>f, <2>1, PositionAt, Empties
  <2>4. PositionOf(g)' = [ep |-> gs[g].syncing, f |-> 0, in |-> gs'[g].played[0].p]
    BY <1>t, <2>1, <2>3 DEF PositionOf
  <2>5. UNCHANGED hostVars
    BY <1>4 DEF ApplyEnd
  <2>6. UNCHANGED <<epoch, script>> /\ \A k \in Machines : k # g => PositionOf(k)' = PositionOf(k)
    BY <1>o, <2>1, <2>5
  <2> QED BY <1>t, <1>f, <2>1, <2>2, <2>4, <2>6, EnterMaps
<1>5. CASE GoSolo(g) \/ GuestStop(g)
  <2>1. /\ gs'[g].synced = FALSE /\ UNCHANGED hostVars
        /\ \A k \in Guests : k # g => gs'[k] = gs[k]
    BY <1>5, <1>t DEF GoSolo, GuestStop, Guest
  <2>2. PositionOf(g)' = None
    BY <1>t, <2>1 DEF PositionOf, Position
  <2>3. UNCHANGED <<epoch, script>> /\ \A k \in Machines : k # g => PositionOf(k)' = PositionOf(k)
    BY <1>o, <2>1
  <2> QED BY <1>t, <2>2, <2>3, LeaveMaps
<1> QED BY <1>1, <1>2, <1>3, <1>4, <1>5 DEF GuestCore, Still

\* A session plays out Lockstep: there is one script of inputs per epoch, each field
\* of it is decided once, and every machine plays the script of its epoch from the
\* first field on, in order and without skipping one.
THEOREM PlaysInLockstep == Spec => ImplementsLockstep
<1>1. TypeInv /\ ScriptInv /\ TypeInv' /\ [Next]_vars => [LS!Next]_LS!vars
  <2> SUFFICES ASSUME TypeInv, ScriptInv, TypeInv', [Next]_vars PROVE LS!Next \/ UNCHANGED LS!vars
    OBVIOUS
  <2>1. CASE UNCHANGED vars
    BY <2>1, Invisible DEF vars, hostVars, sessVars, tableVars, viewVars
  <2>2. CASE Next
    BY <2>2, HostStepMaps, GuestStepMaps DEF Next
  <2> QED BY <2>1, <2>2
<1>2. Init => LS!Init
  BY InitMaps
<1> QED BY <1>1, <1>2, ScriptFollowed, PTL DEF Spec, ImplementsLockstep, LS!Spec

----------------------------------------------------------------------------
(* The pace.  A field is dealt only when every port in the game has sent   *)
(* its pad, and a machine sends the pad of a field Delay fields ahead.     *)

\* The host has been sent the pad of port s for field k: it waits for the
\* others, or the field was dealt (the first Delay need no pads).
Has(part, scr, ep, s, k) == part[k][s] # None \/ (k >= Delay /\ scr[ep][k] # None)
HostHas(s, k) == Has(partial, script, epoch, s, k)

\* The field whose pad is sent in the step that sends message m.
Rank(m) == IF m.t = "h" THEN m.f + Delay ELSE m.f

\* The host is in a session from its first epoch until it stops, and without
\* it no link is alive.
InEpoch == /\ synced => HostOn
           /\ HostOn /\ epoch > 0 => synced
           /\ ~HostOn => Alive = {}

\* A guest is about to enter a later epoch than its own.
EpochsRise(r) == /\ r.syncReady => r.epoch < r.rxEpoch
                 /\ r.pc = "apply" => r.epoch < r.syncing

\* A guest on its way in has been sent nothing; one whose port is not yet in
\* the game has heard of no epoch, and its port is pending.
Listed(g) ==
  /\ link[g] \in {"none", "hello"} => gs[g].rxEpoch = 0 /\ down[g] = <<>>
  /\ g \in Alive => lslot[g] \in mask \cup pendingMask
  /\ g \in Alive /\ lslot[g] \notin mask =>
       gs[g].rxEpoch = 0 /\ \A i \in 1 .. Len(down[g]) : down[g][i].t # "sync"

\* What a guest has under way is of its epoch or an earlier one, not ahead of
\* it, and in the order of the fields.
NotPast(s, e, n) ==
  \A i \in 1 .. Len(s) : 0 < s[i].ep /\ s[i].ep <= e /\ (s[i].ep = e => Rank(s[i]) <= n)
UpBounded(s, r) == NotPast(s, r.epoch, r.field + Delay)
UpOrdered(s) ==
  \A i, j \in 1 .. Len(s) : i < j /\ s[i].ep = s[j].ep => Rank(s[i]) <= Rank(s[j])

\* The host has no pad of its own later than its field, and none of a guest
\* later than that guest's field or than what the guest has under way.
HostSent == \A k \in Fields : HostHas(0, k) => k <= field + Delay
GuestSent(g) ==
  \A k \in Fields : HostHas(lslot[g], k) =>
    /\ gs[g].epoch = epoch /\ k <= gs[g].field + Delay
    /\ \A i \in 1 .. Len(up[g]) : up[g][i].ep = epoch => k <= Rank(up[g][i])

PaceInv ==
  /\ InEpoch
  /\ \A g \in Guests : /\ EpochsRise(gs[g]) /\ Listed(g)
                       /\ UpBounded(up[g], gs[g]) /\ UpOrdered(up[g])
  /\ synced => /\ HostSent
               /\ \A g \in Alive : lslot[g] \in mask => GuestSent(g)

----------------------------------------------------------------------------
(* The alarm. *)

\* A hash of field f in epoch e that shows the inputs the epoch dealt.
GoodHash(h, scr, e, f) ==
  \A k \in Fields : IF k < f THEN scr[e][k] # None /\ h.in[k] = scr[e][k].p
                    ELSE h.in[k] = None
HashField(f) == f > 0 /\ f % HashEvery = 0

\* A machine has played every field before its own.
NoGap == /\ synced => \A k \in Fields : k < field => hplayed[k] # None
         /\ \A g \in Guests : gs[g].synced =>
              \A k \in Fields : k < gs[g].field => gs[g].played[k] # None

UpHashes(g) ==
  \A i \in 1 .. Len(up[g]) : up[g][i].t = "h" =>
    HashField(up[g][i].f) /\ GoodHash(up[g][i].h, script, up[g][i].ep, up[g][i].f)
PeerHashes ==
  \A e \in peerHash : e.f > field /\ HashField(e.f) /\ GoodHash(e.h, script, epoch, e.f)
OwnHashes(mh, fld) ==
  \A f \in Fields : mh[f] # None =>
    /\ f <= fld /\ HashField(f) /\ mh[f].bad = FALSE /\ GoodHash(mh[f], script, epoch, f)

\* The host has its hashes of the last HashEvery * HashKeep fields.
Kept(mh, fld) ==
  \A f \in Fields :
    f <= fld /\ HashField(f) /\ fld - f < HashEvery * HashKeep => mh[f] # None

HashInv ==
  /\ NoGap /\ NoFalseDesync /\ PeerHashes
  /\ OwnHashes(myHash, field) /\ Kept(myHash, field)
  /\ \A g \in Guests : UpHashes(g)

----------------------------------------------------------------------------
(* Messages and streams. *)

\* What a message of a guest carries.
LEMMA UpMsgFacts ==
  ASSUME NEW m \in UpMsg
  PROVE  /\ m.ep \in Epochs /\ m.ep \in Nat /\ m.f \in Fields /\ m.f \in Nat
         /\ Rank(m) \in Nat /\ m.t \in {"in", "h"}
         /\ m.t = "in" => Rank(m) = m.f /\ m.p \in Pads
         /\ m.t = "h" => Rank(m) = m.f + Delay /\ m.h \in Hash
<1>1. m.ep \in Epochs /\ m.f \in Fields /\ m.t \in {"in", "h"}
  BY DEF UpMsg
<1>2. m.ep \in Nat /\ m.f \in Nat
  BY <1>1 DEF Epochs, Fields
<1>3. Rank(m) \in Nat
  BY <1>2, DelayAssumption DEF Rank
<1>4. m.t = "in" => Rank(m) = m.f /\ m.p \in Pads
  BY DEF UpMsg, Rank
<1>5. m.t = "h" => Rank(m) = m.f + Delay /\ m.h \in Hash
  BY DEF UpMsg, Rank
<1> QED BY <1>1, <1>2, <1>3, <1>4, <1>5

\* The first message is taken off a stream.
LEMMA TailFacts ==
  ASSUME NEW S, NEW s \in Seq(S), s # <<>>
  PROVE  /\ Head(s) \in S /\ Head(s) = s[1] /\ 1 \in 1 .. Len(s) /\ Tail(s) \in Seq(S)
         /\ \A i \in 1 .. Len(Tail(s)) : /\ Tail(s)[i] = s[i + 1] /\ i + 1 \in 1 .. Len(s)
                                         /\ 1 < i + 1
         /\ \A i, j \in 1 .. Len(Tail(s)) : i < j => i + 1 < j + 1
OBVIOUS

\* Messages are added to a stream.
LEMMA CatFacts ==
  ASSUME NEW S, NEW s \in Seq(S), NEW t \in Seq(S)
  PROVE  /\ Len(s \o t) = Len(s) + Len(t) /\ Len(s) \in Nat /\ Len(t) \in Nat
         /\ \A i \in 1 .. Len(s) + Len(t) :
              \/ i \in 1 .. Len(s) /\ (s \o t)[i] = s[i]
              \/ i > Len(s) /\ i - Len(s) \in 1 .. Len(t) /\ (s \o t)[i] = t[i - Len(s)]
<1>1. Len(s \o t) = Len(s) + Len(t) /\ Len(s) \in Nat /\ Len(t) \in Nat
  OBVIOUS
<1>2. ASSUME NEW i \in 1 .. Len(s) + Len(t)
      PROVE  \/ i \in 1 .. Len(s) /\ (s \o t)[i] = s[i]
             \/ i > Len(s) /\ i - Len(s) \in 1 .. Len(t) /\ (s \o t)[i] = t[i - Len(s)]
  <2>1. CASE i <= Len(s)
    BY <1>1, <2>1
  <2>2. CASE i > Len(s)
    BY <1>1, <2>2
  <2> QED BY <1>1, <2>1, <2>2
<1> QED BY <1>1, <1>2

----------------------------------------------------------------------------
(* What the host has been sent: dealing a field adds nothing of anybody in *)
(* the game, and a pad that is submitted is its port's only.               *)

LEMMA TryCompleteHas ==
  ASSUME NEW rd, NEW part \in PadTable, NEW pv, NEW dn, NEW scr \in Scripts, NEW ep \in Epochs,
         NEW m, NEW f \in Fields, TryComplete(rd, part, pv, dn, scr, ep, m, f),
         NEW s \in Slots, s \in m, NEW k \in Fields, Has(partial', script', ep, s, k)
  PROVE  Has(part, scr, ep, s, k)
<1>1. CASE ~Complete(part, m, f)
  BY <1>1 DEF TryComplete, Has
<1>2. CASE Complete(part, m, f)
  <2> DEFINE fr == FrameOf(part, pv, f)
  <2>1. partial' = [part EXCEPT ![f] = Empty] /\ script' = [scr EXCEPT ![ep][f] = fr]
    BY <1>2 DEF TryComplete
  <2> HIDE DEF fr
  <2>2. CASE k = f
    BY <1>2, <2>2 DEF Complete, Has
  <2>3. CASE k # f
    <3>1. partial'[k] = part[k] /\ script'[ep][k] = scr[ep][k]
      BY <2>1, <2>3 DEF PadTable, Scripts, Map
    <3> QED BY <3>1 DEF Has
  <2> QED BY <2>2, <2>3
<1> QED BY <1>1, <1>2

LEMMA SubmitHas ==
  ASSUME NEW rd, NEW part \in PadTable, NEW pv, NEW dn, NEW scr \in Scripts, NEW ep \in Epochs,
         NEW m, NEW fld, NEW s0 \in Slots, NEW f \in Fields, NEW p \in Pads,
         Submit(rd, part, pv, dn, scr, ep, m, fld, s0, f, p),
         NEW s \in Slots, s \in m, NEW k \in Fields, Has(partial', script', ep, s, k)
  PROVE  Has(part, scr, ep, s, k) \/ (s = s0 /\ k = f)
<1> DEFINE part2 == [part EXCEPT ![f][s0] = p]
<1>1. CASE Stale(rd, fld, f)
  BY <1>1 DEF Submit, Has
<1>2. CASE ~Stale(rd, fld, f)
  <2>1. part2 \in PadTable
    BY DEF PadTable, Opt
  <2>2. TryComplete(rd, part2, pv, dn, scr, ep, m, f)
    BY <1>2 DEF Submit
  <2>3. s # s0 \/ k # f => part2[k][s] = part[k][s]
    BY DEF PadTable
  <2> HIDE DEF part2
  <2>4. Has(part2, scr, ep, s, k)
    BY <2>1, <2>2, TryCompleteHas
  <2> QED BY <2>3, <2>4 DEF Has
<1> QED BY <1>1, <1>2

\* A field dealt to everyone tells nobody of an epoch, and those who are not
\* connected nothing at all.
LEMMA DealtListed ==
  ASSUME TypeInv, FrameDealt, UNCHANGED <<gs, link, lslot, mask, pendingMask>>,
         NEW g \in Guests, Listed(g)
  PROVE  Listed(g)'
<1>1. down[g] \in Seq(DownMsg) /\ epoch \in Epochs /\ Len(down[g]) \in Nat
  BY HostTypes DEF Streams
<1>2. \/ down'[g] = down[g]
      \/ g \in Alive /\ \E m \in DownMsg : m.t = "in" /\ down'[g] = Append(down[g], m)
  <2>1. CASE down' = down
    BY <2>1
  <2>2. CASE \E f \in Fields : FrameAdded(down, script, epoch, f)
    <3>1. PICK f \in Fields, fr \in Frame :
            down' = Broadcast(down, [t |-> "in", ep |-> epoch, f |-> f, fr |-> fr])
      BY <2>2 DEF FrameAdded
    <3> DEFINE m == [t |-> "in", ep |-> epoch, f |-> f, fr |-> fr]
    <3>2. m \in DownMsg /\ m.t = "in"
      BY <1>1, InMsgType
    <3>3. down' = Broadcast(down, m)
      BY <3>1
    <3> HIDE DEF m
    <3> QED BY <3>2, <3>3 DEF Broadcast
  <2> QED BY <2>1, <2>2 DEF FrameDealt
<1>3. CASE down'[g] = down[g]
  BY <1>3 DEF Listed, Alive
<1>4. CASE g \in Alive /\ \E m \in DownMsg : m.t = "in" /\ down'[g] = Append(down[g], m)
  <2>1. PICK m \in DownMsg : m.t = "in" /\ down'[g] = Append(down[g], m)
    BY <1>4
  <2>2. /\ Len(down'[g]) = Len(down[g]) + 1
        /\ \A i \in 1 .. Len(down[g]) + 1 :
             down'[g][i] = IF i = Len(down[g]) + 1 THEN m ELSE down[g][i]
    BY <1>1, <2>1
  <2>3. \A i \in 1 .. Len(down[g]) + 1 : i # Len(down[g]) + 1 => i \in 1 .. Len(down[g])
    BY <1>1
  <2>4. (\A i \in 1 .. Len(down[g]) : down[g][i].t # "sync") =>
          \A i \in 1 .. Len(down'[g]) : down'[g][i].t # "sync"
    BY <2>1, <2>2, <2>3
  <2>5. link[g] = "alive"
    BY <1>4 DEF Alive
  <2> QED BY <2>4, <2>5 DEF Listed, Alive
<1> QED BY <1>2, <1>3, <1>4

----------------------------------------------------------------------------
(* The steps of the host. *)

\* What is under way of a guest stays in order when its first message is taken.
LEMMA PopBounded ==
  ASSUME NEW s \in Seq(UpMsg), s # <<>>, NEW r, UpBounded(s, r), UpOrdered(s)
  PROVE  UpBounded(Tail(s), r) /\ UpOrdered(Tail(s))
<1>1. /\ \A i \in 1 .. Len(Tail(s)) : Tail(s)[i] = s[i + 1] /\ i + 1 \in 1 .. Len(s)
      /\ \A i, j \in 1 .. Len(Tail(s)) : i < j => i + 1 < j + 1
  BY TailFacts
<1>2. UpBounded(Tail(s), r)
  BY <1>1 DEF UpBounded, NotPast
<1>3. UpOrdered(Tail(s))
  BY <1>1 DEF UpOrdered
<1> QED BY <1>2, <1>3

\* A step of the host inside its epoch that keeps what was sent keeps the pace.
LEMMA HostKeepsPace ==
  ASSUME TypeInv, PaceInv, FrameDealt, UNCHANGED <<epoch, synced, link, lslot, mask, pendingMask, gs>>,
         HostOn' <=> HostOn,
         \A g \in Guests : up'[g] = up[g] \/ (up[g] # <<>> /\ up'[g] = Tail(up[g])),
         synced => HostSent',
         synced => \A g \in Alive : lslot[g] \in mask => GuestSent(g)'
  PROVE  PaceInv'
<1>1. InEpoch'
  BY DEF PaceInv, InEpoch, Alive
<1>2. ASSUME NEW g \in Guests
      PROVE  EpochsRise(gs'[g]) /\ Listed(g)' /\ UpBounded(up'[g], gs'[g]) /\ UpOrdered(up'[g])
  <2>1. Listed(g)'
    BY DealtListed DEF PaceInv
  <2>2. up[g] \in Seq(UpMsg)
    BY HostTypes
  <2>3. UpBounded(up'[g], gs[g]) /\ UpOrdered(up'[g])
    BY <2>2, PopBounded DEF PaceInv
  <2> QED BY <2>1, <2>3 DEF PaceInv
<1>3. Alive' = Alive
  BY DEF Alive
<1> QED BY <1>1, <1>2, <1>3 DEF PaceInv

\* Nobody's pads but the submitter's reach the host.
LEMMA SentKept ==
  ASSUME TypeInv, NEW g \in Guests, GuestSent(g), UNCHANGED <<epoch, lslot, gs>>,
         up'[g] = up[g] \/ (up[g] # <<>> /\ up'[g] = Tail(up[g])),
         \A k \in Fields : HostHas(lslot[g], k)' => HostHas(lslot[g], k)
  PROVE  GuestSent(g)'
<1> SUFFICES ASSUME NEW k \in Fields, HostHas(lslot[g], k)'
             PROVE  /\ gs[g].epoch = epoch /\ k <= gs[g].field + Delay
                    /\ \A i \in 1 .. Len(up'[g]) : up'[g][i].ep = epoch => k <= Rank(up'[g][i])
  BY DEF GuestSent
<1>1. /\ gs[g].epoch = epoch /\ k <= gs[g].field + Delay
      /\ \A i \in 1 .. Len(up[g]) : up[g][i].ep = epoch => k <= Rank(up[g][i])
  BY DEF GuestSent
<1>2. up[g] \in Seq(UpMsg)
  BY HostTypes
<1>3. CASE up'[g] = up[g]
  BY <1>1, <1>3
<1>4. CASE up[g] # <<>> /\ up'[g] = Tail(up[g])
  BY <1>1, <1>2, <1>4, TailFacts
<1> QED BY <1>1, <1>3, <1>4

\* afterField on the host: its pad is Delay fields ahead of its new field.
LEMMA HostFieldPace ==
  ASSUME TypeInv, PortInv, ScriptInv, PaceInv, HostField
  PROVE  PaceInv'
<1>t. /\ partial \in PadTable /\ script \in Scripts /\ epoch \in Epochs /\ field \in Nat
      /\ lslot \in [Guests -> Slots]
  BY HostTypes
<1>1. /\ UNCHANGED <<epoch, synced, link, lslot, mask, pendingMask, gs, up>>
      /\ field' = field + 1 /\ HostOn /\ HostOn' /\ synced /\ field < MaxField
  BY DEF HostField, connVars, HostOn
<1>2. FrameDealt
  BY HostFieldKeeps
<1>3. PICK p \in Pads :
        Submit(ready, partial, [partialView EXCEPT ![field + 1 + Delay] = hostView], down, script,
               epoch, mask, field + 1, 0, field + 1 + Delay, p)
  BY DEF HostField, HostSubmit
<1>4. 0 \in Slots /\ 0 \in mask /\ field + 1 + Delay \in Fields
  BY <1>t, <1>1, Empties, DelayAssumption, BoundAssumption
     DEF PortInv, OnlyLiveAwaited, Fields
<1>5. ASSUME NEW s \in Slots, s \in mask, NEW k \in Fields, HostHas(s, k)'
      PROVE  HostHas(s, k) \/ (s = 0 /\ k = field + 1 + Delay)
  BY <1>t, <1>1, <1>3, <1>4, <1>5, SubmitHas DEF HostHas
<1>6. HostSent'
  <2> SUFFICES ASSUME NEW k \in Fields, HostHas(0, k)' PROVE k <= field' + Delay
    BY DEF HostSent
  <2>1. k <= field + Delay \/ k = field + 1 + Delay
    BY <1>1, <1>4, <1>5 DEF PaceInv, HostSent
  <2> QED BY <1>t, <1>1, <2>1, DelayAssumption DEF Fields
<1>7. ASSUME NEW g \in Alive, lslot[g] \in mask PROVE GuestSent(g)'
  <2>1. g \in Guests /\ lslot[g] \in Slots /\ lslot[g] # 0
    BY <1>t, <1>7 DEF Alive, PortInv, OnePlayerPerPort
  <2>2. \A k \in Fields : HostHas(lslot[g], k)' => HostHas(lslot[g], k)
    BY <1>1, <1>5, <1>7, <2>1
  <2>3. GuestSent(g)
    BY <1>1, <1>7 DEF PaceInv
  <2> QED BY <1>1, <2>1, <2>2, <2>3, SentKept
<1> QED BY <1>1, <1>2, <1>6, <1>7, HostKeepsPace

\* hostRx of a pad: it is the next of that guest and none of its later ones.
LEMMA HostRecvInPace ==
  ASSUME TypeInv, PortInv, ScriptInv, PaceInv, NEW g \in Guests, HostRecvIn(g)
  PROVE  PaceInv'
<1> DEFINE m == Head(up[g])
<1>t. /\ partial \in PadTable /\ script \in Scripts /\ epoch \in Epochs /\ field \in Nat
      /\ lslot \in [Guests -> Slots] /\ up \in [Guests -> Seq(UpMsg)]
  BY HostTypes
<1>1. /\ UNCHANGED <<hpc, epoch, synced, field, link, lslot, mask, pendingMask, gs>>
      /\ g \in Alive /\ up[g] # <<>> /\ m.t = "in" /\ up' = [up EXCEPT ![g] = Tail(@)]
  BY DEF HostRecvIn, connVars, sessVars, Receives, Pop
<1>2. FrameDealt
  BY HostRecvInKeeps
<1>3. /\ m \in UpMsg /\ m = up[g][1] /\ 1 \in 1 .. Len(up[g])
      /\ \A i \in 1 .. Len(Tail(up[g])) :
           Tail(up[g])[i] = up[g][i + 1] /\ i + 1 \in 1 .. Len(up[g]) /\ 1 < i + 1
  BY <1>t, <1>1, TailFacts
<1>4. m.f \in Fields /\ m.p \in Pads /\ Rank(m) = m.f /\ m.ep \in Nat
  BY <1>1, <1>3, UpMsgFacts
<1>5. /\ up'[g] = Tail(up[g]) /\ \A k \in Guests : k # g => up'[k] = up[k]
  BY <1>t, <1>1
<1>6. /\ HostOn /\ 0 \in mask /\ 0 \in Slots /\ lslot[g] \in Slots /\ lslot[g] # 0
  BY <1>t, <1>1, Empties DEF PaceInv, InEpoch, PortInv, OnlyLiveAwaited, OnePlayerPerPort
<1>7. CASE ~(OfThisEpoch(m) /\ synced)
  <2>1. UNCHANGED <<partial, script>>
    BY <1>7 DEF HostRecvIn, tableVars
  <2>2. \A s, k : HostHas(s, k)' <=> HostHas(s, k)
    BY <1>1, <2>1 DEF HostHas
  <2>3. synced => HostSent'
    BY <1>1, <2>2 DEF PaceInv, HostSent
  <2>4. ASSUME NEW k \in Alive, synced, lslot[k] \in mask PROVE GuestSent(k)'
    <3>1. k \in Guests /\ GuestSent(k)
      BY <2>4 DEF PaceInv, Alive
    <3> QED BY <1>1, <1>5, <2>2, <3>1, SentKept
  <2> QED BY <1>1, <1>2, <1>5, <2>3, <2>4, HostKeepsPace DEF HostOn
<1>8. CASE OfThisEpoch(m) /\ synced
  <2>1. Submit(ready, partial, partialView, down, script, epoch, mask, field, lslot[g], m.f, m.p)
    BY <1>8 DEF HostRecvIn
  <2>2. m.ep = epoch
    BY <1>8 DEF OfThisEpoch
  <2> HIDE DEF m
  <2>3. ASSUME NEW s \in Slots, s \in mask, NEW k \in Fields, HostHas(s, k)'
        PROVE  HostHas(s, k) \/ (s = lslot[g] /\ k = m.f)
    BY <1>t, <1>1, <1>4, <1>6, <2>1, <2>3, SubmitHas DEF HostHas
  <2>4. HostSent'
    BY <1>1, <1>6, <1>8, <2>3 DEF PaceInv, HostSent
  <2>5. ASSUME NEW k \in Alive, lslot[k] \in mask, k # g PROVE GuestSent(k)'
    <3>1. k \in Guests /\ GuestSent(k) /\ lslot[k] \in Slots /\ lslot[k] # lslot[g]
      BY <1>t, <1>1, <1>8, <2>5 DEF PaceInv, Alive, PortInv, OnePlayerPerPort
    <3>2. \A f \in Fields : HostHas(lslot[k], f)' => HostHas(lslot[k], f)
      BY <1>1, <2>3, <2>5, <3>1
    <3> QED BY <1>1, <1>5, <3>1, <3>2, SentKept
  <2>6. ASSUME lslot[g] \in mask PROVE GuestSent(g)'
    <3>1. GuestSent(g) /\ UpBounded(up[g], gs[g]) /\ UpOrdered(up[g])
      BY <1>1, <1>8, <2>6 DEF PaceInv
    <3>2. gs[g].epoch = epoch /\ m.f <= gs[g].field + Delay
      <4>1. gs[g] \in Guest /\ GuestFrames(gs[g], script, epoch)
        BY HostTypes DEF ScriptInv
      <4>2. m.ep <= gs[g].epoch /\ (m.ep = gs[g].epoch => Rank(m) <= gs[g].field + Delay)
        BY <1>3, <3>1 DEF UpBounded, NotPast
      <4>3. gs[g].epoch \in Nat /\ gs[g].rxEpoch \in Nat /\ epoch \in Nat
        BY <1>t, <4>1 DEF Guest, Epochs
      <4>4. gs[g].epoch <= epoch
        BY <4>1, <4>3 DEF GuestFrames
      <4> QED BY <1>4, <2>2, <4>2, <4>3, <4>4
    <3>3. \A i \in 1 .. Len(Tail(up[g])) : Tail(up[g])[i].ep = epoch => m.f <= Rank(Tail(up[g])[i])
      BY <1>3, <1>4, <2>2, <3>1 DEF UpOrdered
    <3> SUFFICES ASSUME NEW k \in Fields, HostHas(lslot[g], k)'
                 PROVE  /\ gs[g].epoch = epoch /\ k <= gs[g].field + Delay
                        /\ \A i \in 1 .. Len(Tail(up[g])) :
                             Tail(up[g])[i].ep = epoch => k <= Rank(Tail(up[g])[i])
      BY <1>1, <1>5 DEF GuestSent
    <3>4. CASE k = m.f
      BY <3>2, <3>3, <3>4
    <3>5. CASE HostHas(lslot[g], k)
      BY <1>3, <3>1, <3>5 DEF GuestSent
    <3> QED BY <1>1, <1>6, <2>3, <2>6, <3>4, <3>5
  <2> QED BY <1>1, <1>2, <1>5, <2>4, <2>5, <2>6, HostKeepsPace DEF HostOn
<1> QED BY <1>7, <1>8

\* hostRx of a hash takes it off the stream.
LEMMA HostRecvHashPace ==
  ASSUME TypeInv, PaceInv, NEW g \in Guests, HostRecvHash(g)
  PROVE  PaceInv'
<1>1. /\ UNCHANGED <<hpc, epoch, synced, field, link, lslot, mask, pendingMask, gs>>
      /\ UNCHANGED <<partial, script, down>>
      /\ up[g] # <<>> /\ up' = [up EXCEPT ![g] = Tail(@)]
  BY DEF HostRecvHash, connVars, sessVars, tableVars, Receives, Pop
<1>2. up'[g] = Tail(up[g]) /\ \A k \in Guests : k # g => up'[k] = up[k]
  BY <1>1, HostTypes
<1>3. \A s, k : HostHas(s, k)' <=> HostHas(s, k)
  BY <1>1 DEF HostHas
<1>4. synced => HostSent'
  BY <1>1, <1>3 DEF PaceInv, HostSent
<1>5. ASSUME NEW k \in Alive, synced, lslot[k] \in mask PROVE GuestSent(k)'
  <2>1. k \in Guests /\ GuestSent(k)
    BY <1>5 DEF PaceInv, Alive
  <2> QED BY <1>1, <1>2, <1>3, <2>1, SentKept
<1>6. FrameDealt
  BY <1>1 DEF FrameDealt
<1> QED BY <1>1, <1>2, <1>4, <1>5, <1>6, HostKeepsPace DEF HostOn

\* The fields a leaving player held are completed with what the others sent.
LEMMA HostFlushPace ==
  ASSUME TypeInv, PortInv, ScriptInv, PaceInv, HostFlush
  PROVE  PaceInv'
<1>t. /\ partial \in PadTable /\ script \in Scripts /\ epoch \in Epochs
      /\ lslot \in [Guests -> Slots] /\ pend \subseteq Fields
  BY HostTypes
<1>1. UNCHANGED <<hpc, epoch, synced, field, link, lslot, mask, pendingMask, gs, up>>
  BY DEF HostFlush, connVars
<1>2. FrameDealt
  BY HostFlushKeeps
<1>3. PICK f \in pend : TryComplete(ready, partial, partialView, down, script, epoch, mask, f)
  BY DEF HostFlush
<1>4. ASSUME NEW s \in Slots, s \in mask, NEW k \in Fields, HostHas(s, k)'
      PROVE  HostHas(s, k)
  BY <1>t, <1>1, <1>3, <1>4, TryCompleteHas DEF HostHas
<1>5. synced => HostSent'
  <2>1. synced => 0 \in mask /\ 0 \in Slots
    BY Empties DEF PaceInv, InEpoch, PortInv, OnlyLiveAwaited
  <2> QED BY <1>1, <1>4, <2>1 DEF PaceInv, HostSent
<1>6. ASSUME NEW g \in Alive, synced, lslot[g] \in mask PROVE GuestSent(g)'
  <2>1. g \in Guests /\ GuestSent(g) /\ lslot[g] \in Slots
    BY <1>t, <1>6 DEF PaceInv, Alive
  <2>2. \A k \in Fields : HostHas(lslot[g], k)' => HostHas(lslot[g], k)
    BY <1>1, <1>4, <1>6, <2>1
  <2> QED BY <1>1, <2>1, <2>2, SentKept
<1> QED BY <1>1, <1>2, <1>5, <1>6, HostKeepsPace DEF HostOn

\* Steps of the host that send nothing and deal nothing.
LEMMA HostQuietPace ==
  ASSUME PaceInv, HostOn' <=> HostOn,
         UNCHANGED <<epoch, synced, field, partial, script, down, up, gs>>,
         UNCHANGED <<link, lslot, mask, pendingMask>>
  PROVE  PaceInv'
<1>1. \A s, k : HostHas(s, k)' <=> HostHas(s, k)
  BY DEF HostHas
<1>2. Alive' = Alive
  BY DEF Alive
<1>3. InEpoch'
  BY <1>2 DEF PaceInv, InEpoch
<1>4. \A g \in Guests : Listed(g)'
  BY <1>2 DEF PaceInv, Listed
<1>5. HostSent' <=> HostSent
  BY <1>1 DEF HostSent
<1>6. \A g \in Guests : GuestSent(g)' <=> GuestSent(g)
  BY <1>1 DEF GuestSent
<1> QED BY <1>2, <1>3, <1>4, <1>5, <1>6 DEF PaceInv, Alive

\* A player leaves: it is in no mask any more, and the others are where they were.
LEMMA HostRxEndPace ==
  ASSUME TypeInv, PortInv, PaceInv, NEW g \in Guests, HostRxEnd(g)
  PROVE  PaceInv'
<1>t. link \in [Guests -> {"none", "hello", "alive", "dead"}] /\ up \in [Guests -> Seq(UpMsg)]
  BY HostTypes DEF TypeInv, TypeOK
<1>1. /\ UNCHANGED <<hpc, epoch, synced, field, partial, script, down, gs, lslot>>
      /\ link' = [link EXCEPT ![g] = "dead"] /\ up' = [up EXCEPT ![g] = <<>>]
      /\ mask' = mask \ {lslot[g]} /\ pendingMask' = pendingMask \ {lslot[g]} /\ g \in Alive
  BY DEF HostRxEnd, tableVars, DropSlot
<1>2. /\ link'[g] = "dead" /\ up'[g] = <<>>
      /\ \A k \in Guests : k # g => link'[k] = link[k] /\ up'[k] = up[k]
  BY <1>t, <1>1
<1>3. Alive' = Alive \ {g} /\ g \notin Alive'
  BY <1>2 DEF Alive
<1>4. \A s, k : HostHas(s, k)' <=> HostHas(s, k)
  BY <1>1 DEF HostHas
<1>5. \A k \in Alive' : /\ k \in Alive /\ k # g /\ k \in Guests /\ lslot[k] # lslot[g]
                        /\ lslot[k] \in mask' <=> lslot[k] \in mask
                        /\ lslot[k] \in pendingMask' <=> lslot[k] \in pendingMask
  BY <1>1, <1>3 DEF PortInv, OnePlayerPerPort, Alive
<1>6. InEpoch'
  BY <1>1, <1>3 DEF PaceInv, InEpoch, HostOn
<1>7. ASSUME NEW k \in Guests
      PROVE  Listed(k)' /\ UpBounded(up'[k], gs'[k]) /\ UpOrdered(up'[k])
  <2>1. Listed(k)'
    <3>1. CASE k = g
      BY <1>2, <1>3, <3>1 DEF Listed
    <3>2. CASE k # g
      <4>1. /\ link[k] \in {"none", "hello"} => gs[k].rxEpoch = 0 /\ down[k] = <<>>
            /\ k \in Alive => lslot[k] \in mask \cup pendingMask
            /\ k \in Alive /\ lslot[k] \notin mask =>
                 gs[k].rxEpoch = 0 /\ \A i \in 1 .. Len(down[k]) : down[k][i].t # "sync"
        BY DEF PaceInv, Listed
      <4>2. link[k]' = link[k] /\ gs[k]' = gs[k] /\ down[k]' = down[k] /\ lslot[k]' = lslot[k]
        BY <1>1, <1>2, <3>2
      <4> QED BY <1>5, <4>1, <4>2 DEF Listed
    <3> QED BY <3>1, <3>2
  <2>2. CASE k = g
    BY <1>2, <2>1, <2>2 DEF UpBounded, NotPast, UpOrdered
  <2>3. CASE k # g
    BY <1>1, <1>2, <2>1, <2>3 DEF PaceInv
  <2> QED BY <2>2, <2>3
<1>8. HostSent' <=> HostSent
  BY <1>1, <1>4 DEF HostSent
<1>9. \A k \in Alive' : GuestSent(k)' <=> GuestSent(k)
  BY <1>1, <1>2, <1>4, <1>5 DEF GuestSent
<1>10. \A k \in Guests : EpochsRise(gs'[k])
  BY <1>1 DEF PaceInv
<1>11. synced' => HostSent' /\ \A k \in Alive' : lslot'[k] \in mask' => GuestSent(k)'
  BY <1>1, <1>5, <1>8, <1>9 DEF PaceInv
<1> QED BY <1>6, <1>7, <1>10, <1>11 DEF PaceInv

\* A guest is admitted: its port is pending, and it has been told no epoch.
LEMMA AdmitPace ==
  ASSUME TypeInv, PaceInv, NEW g \in Guests, Admit(g)
  PROVE  PaceInv'
<1>t. /\ link \in [Guests -> {"none", "hello", "alive", "dead"}]
      /\ lslot \in [Guests -> Slots] /\ down \in Streams
  BY HostTypes DEF TypeInv, TypeOK
<1>1. PICK s \in FreeSlots :
        /\ lslot' = [lslot EXCEPT ![g] = s] /\ pendingMask' = pendingMask \cup {s}
        /\ down' = [down EXCEPT ![g] = Append(@, [t |-> "welcome", slot |-> s])]
  BY DEF Admit
<1>2. /\ UNCHANGED <<hpc, epoch, synced, field, partial, script, gs, mask, up>> /\ HostOn
      /\ link' = [link EXCEPT ![g] = "alive"] /\ link[g] = "hello" /\ s \notin mask
  BY DEF Admit, tableVars, FreeSlots
<1>3. /\ link'[g] = "alive" /\ lslot'[g] = s
      /\ \A k \in Guests : k # g => /\ link'[k] = link[k] /\ lslot'[k] = lslot[k]
                                    /\ down'[k] = down[k]
  BY <1>t, <1>1, <1>2 DEF Streams
<1>4. gs[g].rxEpoch = 0 /\ down[g] = <<>>
  BY <1>2 DEF PaceInv, Listed
<1>5. down'[g] = <<[t |-> "welcome", slot |-> s]>>
  BY <1>t, <1>1, <1>4 DEF Streams
<1>6. Alive' = Alive \cup {g}
  BY <1>3 DEF Alive
<1>7. \A r, k : HostHas(r, k)' <=> HostHas(r, k)
  BY <1>2 DEF HostHas
<1>8. InEpoch'
  BY <1>2 DEF PaceInv, InEpoch, HostOn
<1>9. ASSUME NEW k \in Guests PROVE Listed(k)'
  <2>1. CASE k = g
    <3>1. \A i \in 1 .. Len(down'[g]) : down'[g][i].t # "sync"
      BY <1>5
    <3> QED BY <1>1, <1>2, <1>3, <1>4, <2>1, <3>1 DEF Listed
  <2>2. CASE k # g
    <3>1. k \in Alive' <=> k \in Alive
      BY <1>6, <2>2
    <3> QED BY <1>1, <1>2, <1>3, <2>2, <3>1 DEF PaceInv, Listed
  <2> QED BY <2>1, <2>2
<1>10. HostSent' <=> HostSent
  BY <1>2, <1>7 DEF HostSent
<1>11. ASSUME NEW k \in Alive', lslot'[k] \in mask' PROVE k \in Alive /\ lslot[k] \in mask /\ (GuestSent(k) => GuestSent(k)')
  <2>1. k # g /\ k \in Alive /\ k \in Guests
    BY <1>2, <1>3, <1>6, <1>11 DEF Alive
  <2> QED BY <1>2, <1>3, <1>7, <1>11, <2>1 DEF GuestSent
<1>12. \A k \in Guests : EpochsRise(gs'[k]) /\ UpBounded(up'[k], gs'[k]) /\ UpOrdered(up'[k])
  BY <1>2 DEF PaceInv
<1>13. synced' => HostSent' /\ \A k \in Alive' : lslot'[k] \in mask' => GuestSent(k)'
  BY <1>2, <1>10, <1>11 DEF PaceInv
<1> QED BY <1>8, <1>9, <1>12, <1>13 DEF PaceInv

\* stop() on the host leaves no link alive; a connection that is refused never was.
LEMMA HostStopPace ==
  ASSUME TypeInv, PaceInv, HostStop
  PROVE  PaceInv'
<1>1. /\ UNCHANGED <<down, gs>> /\ ~HostOn' /\ synced' = FALSE
      /\ up' = [g \in Guests |-> <<>>]
      /\ link' = [g \in Guests |-> IF link[g] = "none" THEN "none" ELSE "dead"]
  BY DEF HostStop, HostOn
<1>2. Alive' = {}
  BY <1>1 DEF Alive
<1>3. \A g \in Guests : Listed(g)'
  BY <1>1, <1>2 DEF PaceInv, Listed
<1>4. \A g \in Guests : EpochsRise(gs'[g]) /\ UpBounded(up'[g], gs'[g]) /\ UpOrdered(up'[g])
  BY <1>1 DEF PaceInv, UpBounded, NotPast, UpOrdered
<1>5. InEpoch'
  BY <1>1, <1>2 DEF InEpoch
<1> QED BY <1>1, <1>3, <1>4, <1>5 DEF PaceInv

LEMMA RefusePace ==
  ASSUME TypeInv, PaceInv, NEW g \in Guests, Refuse(g)
  PROVE  PaceInv'
<1>1. /\ UNCHANGED hostVars /\ UNCHANGED <<lslot, up, down, gs>>
      /\ link[g] = "hello" /\ link' = [link EXCEPT ![g] = "dead"]
  BY DEF Refuse
<1>2. /\ UNCHANGED <<hpc, epoch, synced, field, partial, script, mask, pendingMask>>
  BY <1>1 DEF hostVars, sessVars, tableVars
<1>3. link'[g] = "dead" /\ \A k \in Guests : k # g => link'[k] = link[k]
  BY <1>1 DEF TypeInv, TypeOK
<1>4. Alive' = Alive
  BY <1>1, <1>3 DEF Alive
<1>5. \A s, k : HostHas(s, k)' <=> HostHas(s, k)
  BY <1>2 DEF HostHas
<1>6. \A k \in Guests : Listed(k)'
  BY <1>1, <1>2, <1>3, <1>4 DEF PaceInv, Listed
<1>7. HostSent' <=> HostSent
  BY <1>2, <1>5 DEF HostSent
<1>8. \A k \in Guests : GuestSent(k)' <=> GuestSent(k)
  BY <1>1, <1>2, <1>5 DEF GuestSent
<1>9. InEpoch'
  BY <1>2, <1>4 DEF PaceInv, InEpoch, HostOn
<1> QED BY <1>1, <1>2, <1>4, <1>6, <1>7, <1>8, <1>9 DEF PaceInv, Alive

\* serviceSync: everybody alive is in the game, and nobody has sent a pad yet
\* but the host.
LEMMA ServiceSyncPace ==
  ASSUME TypeInv, PortInv, ScriptInv, PaceInv, ServiceSync
  PROVE  PaceInv'
<1> DEFINE e == epoch + 1
           syn == [t |-> "sync", ep |-> e]
           scr == [script EXCEPT ![e] = Prefill(gView)]
           dn == Broadcast(down, syn)
<1>t. /\ script \in Scripts /\ epoch \in Epochs /\ epoch \in Nat /\ gView \in Views
      /\ lslot \in [Guests -> Slots] /\ down \in Streams /\ hostView \in Views
  BY HostTypes
<1>1. e \in Epochs /\ e > 0
  BY <1>t, BoundAssumption DEF ServiceSync, TypeInv, Epochs
<1>2. /\ UNCHANGED <<link, lslot, up, gs>> /\ mask' = NextMask /\ pendingMask' = {}
      /\ epoch' = e /\ field' = 0 /\ synced' = TRUE /\ HostOn /\ HostOn'
  BY DEF ServiceSync, NextEpoch, connVars, HostOn
<1>3. PICK p \in Pads : Submit(Prefill(gView), NoPads, [NoMap EXCEPT ![Delay] = hostView], dn,
                               scr, e, NextMask, 0, 0, Delay, p)
  BY DEF ServiceSync, HostSubmit, NextEpoch
<1>4. /\ Prefill(gView) \in Map(Frame) /\ NoPads \in PadTable /\ 0 \in Slots /\ Delay \in Fields
      /\ NoMap \in Map(Views)
  BY <1>t, Empties
<1>5. scr \in Scripts /\ scr[e] = Prefill(gView)
  BY <1>t, <1>1, <1>4 DEF Scripts
<1>6. \A g \in Guests : g \notin Alive => down'[g] = down[g]
  <2>0. [NoMap EXCEPT ![Delay] = hostView] \in Map(Views)
    BY <1>t, <1>4 DEF Map, Opt
  <2>1. down' = dn \/ \E m : down' = Broadcast(dn, m)
    <3>1. CASE Stale(Prefill(gView), 0, Delay)
      BY <1>3, <3>1 DEF Submit
    <3>2. CASE ~Stale(Prefill(gView), 0, Delay)
      BY <1>3, <3>2 DEF Submit, TryComplete
    <3> QED BY <3>1, <3>2
  <2> QED BY <2>1 DEF Broadcast
<1>7. Alive' = Alive
  BY <1>2 DEF Alive
<1> HIDE DEF scr, dn, e
<1>8. ASSUME NEW s \in Slots, s \in NextMask, NEW k \in Fields, HostHas(s, k)'
      PROVE  s = 0 /\ k = Delay
  <2>1. Has(NoPads, scr, e, s, k) \/ (s = 0 /\ k = Delay)
    BY <1>1, <1>2, <1>3, <1>4, <1>5, <1>8, SubmitHas DEF HostHas
  <2>2. ~Has(NoPads, scr, e, s, k)
    BY <1>5, DelayAssumption DEF Has, NoPads, Empty, Prefill, Fields
  <2> QED BY <2>1, <2>2
<1>9. 0 \in NextMask
  BY DEF NextMask, InGame
<1>10. HostSent'
  BY <1>2, <1>4, <1>8, <1>9, DelayAssumption DEF HostSent
<1>11. ASSUME NEW g \in Alive
       PROVE  g \in Guests /\ lslot[g] \in Slots /\ lslot[g] # 0 /\ lslot[g] \in NextMask
  <2>1. g \in Guests /\ lslot[g] \in mask \cup pendingMask
    BY DEF PaceInv, Listed, Alive
  <2> QED BY <1>t, <2>1 DEF NextMask, InGame, PortInv, OnePlayerPerPort
<1>12. \A g \in Alive : GuestSent(g)'
  BY <1>2, <1>8, <1>11 DEF GuestSent
<1>13. InEpoch'
  BY <1>2 DEF InEpoch
<1>14. ASSUME NEW g \in Guests PROVE Listed(g)'
  <2>1. CASE g \in Alive
    BY <1>2, <1>7, <1>11, <2>1 DEF Listed, Alive
  <2>2. CASE g \notin Alive
    BY <1>2, <1>6, <1>7, <2>2 DEF PaceInv, Listed
  <2> QED BY <2>1, <2>2
<1> QED BY <1>2, <1>7, <1>10, <1>12, <1>13, <1>14 DEF PaceInv

----------------------------------------------------------------------------
(* The steps of a guest. *)

\* A step of a guest disturbs no one but that guest.
LEMMA GuestKeepsPace ==
  ASSUME TypeInv, PaceInv, NEW g \in Guests, UNCHANGED <<hostVars, link, lslot>>,
         \A k \in Guests : k # g => gs'[k] = gs[k] /\ up'[k] = up[k] /\ down'[k] = down[k],
         EpochsRise(gs'[g]), Listed(g)', UpBounded(up'[g], gs'[g]), UpOrdered(up'[g]),
         synced /\ g \in Alive /\ lslot[g] \in mask => GuestSent(g)'
  PROVE  PaceInv'
<1>1. UNCHANGED <<hpc, epoch, synced, field, partial, script, mask, pendingMask>>
  BY DEF hostVars, sessVars, tableVars
<1>2. \A s, k : HostHas(s, k)' <=> HostHas(s, k)
  BY <1>1 DEF HostHas
<1>3. Alive' = Alive
  BY DEF Alive
<1>4. InEpoch'
  BY <1>1, <1>3 DEF PaceInv, InEpoch, HostOn
<1>5. HostSent' <=> HostSent
  BY <1>1, <1>2 DEF HostSent
<1>6. \A k \in Guests : k # g => (GuestSent(k)' <=> GuestSent(k))
  BY <1>1, <1>2 DEF GuestSent
<1>7. \A k \in Guests : Listed(k)'
  BY <1>1, <1>3 DEF PaceInv, Listed
<1>8. \A k \in Guests : EpochsRise(gs'[k]) /\ UpBounded(up'[k], gs'[k]) /\ UpOrdered(up'[k])
  BY DEF PaceInv
<1>9. synced' => HostSent' /\ \A k \in Alive' : lslot'[k] \in mask' => GuestSent(k)'
  BY <1>1, <1>3, <1>5, <1>6 DEF PaceInv, Alive
<1> QED BY <1>4, <1>7, <1>8, <1>9 DEF PaceInv

\* Steps that send nothing and stay in the guest's epoch and field.
LEMMA GuestQuietPace ==
  ASSUME TypeInv, PaceInv, NEW g \in Guests, UNCHANGED <<hostVars, link, lslot, up>>,
         \A k \in Guests : k # g => gs'[k] = gs[k] /\ down'[k] = down[k],
         gs'[g].epoch = gs[g].epoch, gs'[g].field = gs[g].field,
         EpochsRise(gs'[g]), Listed(g)'
  PROVE  PaceInv'
<1>1. UpBounded(up'[g], gs'[g]) /\ UpOrdered(up'[g])
  BY DEF PaceInv, UpBounded
<1>2. UNCHANGED <<epoch, partial, script>>
  BY DEF hostVars, sessVars, tableVars
<1>3. \A s, k : HostHas(s, k)' <=> HostHas(s, k)
  BY <1>2 DEF HostHas
<1>4. GuestSent(g) => GuestSent(g)'
  BY <1>2, <1>3 DEF GuestSent
<1> QED BY <1>1, <1>4, GuestKeepsPace DEF PaceInv

\* The steps that only move the program counter or the health of a guest.
LEMMA PcPace ==
  ASSUME TypeInv, PaceInv, NEW g \in Guests, UNCHANGED <<hostVars, link, lslot, up, down>>,
         \/ gs' = [gs EXCEPT ![g].pc = "off"]
         \/ gs' = [gs EXCEPT ![g].health = "bad"]
         \/ gs' = [gs EXCEPT ![g].synced = FALSE]
         \/ gs' = [gs EXCEPT ![g].pc = "idle"]
         \/ gs' = [gs EXCEPT ![g].pc = "run"]
         \/ gs' = [gs EXCEPT ![g].pc = "run", ![g].lost = TRUE]
         \/ gs' = [gs EXCEPT ![g].pc = "run", ![g].health = Healed(@)]
  PROVE  PaceInv'
<1>1. gs[g] \in Guest /\ DOMAIN gs = Guests
  BY HostTypes
<1>2. /\ gs'[g].rxEpoch = gs[g].rxEpoch /\ gs'[g].epoch = gs[g].epoch
      /\ gs'[g].field = gs[g].field /\ gs'[g].syncing = gs[g].syncing
      /\ gs'[g].syncReady = gs[g].syncReady
      /\ gs'[g].pc = "apply" => gs[g].pc = "apply"
      /\ \A k \in Guests : k # g => gs'[k] = gs[k]
  BY <1>1 DEF Guest
<1>3. EpochsRise(gs'[g])
  BY <1>2 DEF PaceInv, EpochsRise
<1>4. Alive' = Alive /\ UNCHANGED <<mask, pendingMask>>
  BY DEF Alive, hostVars, sessVars
<1>5. Listed(g)'
  BY <1>2, <1>4 DEF PaceInv, Listed
<1> QED BY <1>2, <1>3, <1>5, GuestQuietPace

\* join(): the link is made known to the host.
LEMMA JoinPace ==
  ASSUME TypeInv, PortInv, PaceInv, NEW g \in Guests, Join(g)
  PROVE  PaceInv'
<1>1. /\ UNCHANGED hostVars /\ UNCHANGED <<lslot, up, down>> /\ gs[g].pc = "out"
      /\ gs' = [gs EXCEPT ![g].pc = "joining"] /\ link' = [link EXCEPT ![g] = "hello"]
  BY DEF Join
<1>2. /\ UNCHANGED <<hpc, epoch, synced, field, partial, script, mask, pendingMask>>
  BY <1>1 DEF hostVars, sessVars, tableVars
<1>3. /\ link'[g] = "hello" /\ link[g] = "none"
      /\ \A k \in Guests : k # g => link'[k] = link[k] /\ gs'[k] = gs[k]
  BY <1>1 DEF TypeInv, TypeOK, PortInv, OutUnlinked
<1>4. /\ gs'[g].rxEpoch = gs[g].rxEpoch /\ gs'[g].epoch = gs[g].epoch
      /\ gs'[g].field = gs[g].field /\ gs'[g].syncing = gs[g].syncing
      /\ gs'[g].syncReady = gs[g].syncReady /\ gs'[g].pc = "joining"
  BY <1>1, HostTypes DEF Guest
<1>5. Alive' = Alive
  BY <1>3 DEF Alive
<1>6. \A s, k : HostHas(s, k)' <=> HostHas(s, k)
  BY <1>2 DEF HostHas
<1>7. \A k \in Guests : Listed(k)'
  BY <1>1, <1>2, <1>3, <1>4, <1>5 DEF PaceInv, Listed
<1>8. HostSent' <=> HostSent
  BY <1>2, <1>6 DEF HostSent
<1>9. \A k \in Guests : GuestSent(k)' <=> GuestSent(k)
  BY <1>1, <1>2, <1>3, <1>4, <1>6 DEF GuestSent
<1>10. InEpoch'
  BY <1>2, <1>5 DEF PaceInv, InEpoch, HostOn
<1>11. \A k \in Guests : EpochsRise(gs'[k]) /\ UpBounded(up'[k], gs'[k])
  BY <1>1, <1>3, <1>4 DEF PaceInv, EpochsRise, UpBounded
<1>12. synced' => HostSent' /\ \A k \in Alive' : lslot'[k] \in mask' => GuestSent(k)'
  BY <1>1, <1>2, <1>5, <1>8, <1>9 DEF PaceInv, Alive
<1> QED BY <1>1, <1>7, <1>10, <1>11, <1>12 DEF PaceInv

\* A guest that takes a message or drops them all hears of no epoch it was not told of.
LEMMA ListedPop ==
  ASSUME TypeInv, NEW g \in Guests, Listed(g), UNCHANGED <<hostVars, link, lslot>>,
         \/ gs'[g].rxEpoch = gs[g].rxEpoch
         \/ down[g] # <<>> /\ Head(down[g]).t = "sync",
         \/ down'[g] = down[g] \/ down'[g] = <<>>
         \/ down[g] # <<>> /\ down'[g] = Tail(down[g])
  PROVE  Listed(g)'
<1>1. Alive' = Alive /\ UNCHANGED <<mask, pendingMask>> /\ lslot'[g] = lslot[g] /\ link'[g] = link[g]
  BY DEF Alive, hostVars, sessVars
<1>2. down[g] \in Seq(DownMsg)
  BY HostTypes DEF Streams
<1>3. down[g] # <<>> => /\ Head(down[g]) = down[g][1] /\ 1 \in 1 .. Len(down[g])
                        /\ \A i \in 1 .. Len(Tail(down[g])) :
                             Tail(down[g])[i] = down[g][i + 1] /\ i + 1 \in 1 .. Len(down[g])
  BY <1>2, TailFacts
<1>4. (\A i \in 1 .. Len(down[g]) : down[g][i].t # "sync") =>
        /\ \A i \in 1 .. Len(down'[g]) : down'[g][i].t # "sync"
        /\ gs'[g].rxEpoch = gs[g].rxEpoch
  <2> SUFFICES ASSUME \A i \in 1 .. Len(down[g]) : down[g][i].t # "sync"
               PROVE  /\ \A i \in 1 .. Len(down'[g]) : down'[g][i].t # "sync"
                      /\ gs'[g].rxEpoch = gs[g].rxEpoch
    OBVIOUS
  <2>1. gs'[g].rxEpoch = gs[g].rxEpoch
    BY <1>3
  <2>2. CASE down'[g] = <<>>
    BY <2>1, <2>2
  <2>3. CASE down'[g] = down[g]
    BY <2>1, <2>3
  <2>4. CASE down[g] # <<>> /\ down'[g] = Tail(down[g])
    BY <1>3, <2>1, <2>4
  <2> QED BY <2>2, <2>3, <2>4
<1>5. link[g] \in {"none", "hello"} => gs'[g].rxEpoch = 0 /\ down'[g] = <<>>
  BY DEF Listed
<1> QED BY <1>1, <1>4, <1>5 DEF Listed

\* clientRx, and stop() on the guest.
LEMMA GuestRxPace ==
  ASSUME TypeInv, ScriptInv, PaceInv, NEW g \in Guests,
         JoinOk(g) \/ GuestRx(g) \/ GuestStop(g)
  PROVE  PaceInv'
<1>0. /\ gs[g] \in Guest /\ DOMAIN gs = Guests /\ DOMAIN down = Guests
      /\ SyncsAscend(down[g], gs[g].rxEpoch) /\ GuestFrames(gs[g], script, epoch)
      /\ down[g] \in Seq(DownMsg)
  BY HostTypes DEF ScriptInv, Streams
<1>1. CASE JoinOk(g) \/ GuestStop(g)
  <2>1. /\ UNCHANGED <<hostVars, link, lslot, up>>
        /\ \/ down' = [down EXCEPT ![g] = Tail(@)] /\ down[g] # <<>>
           \/ down' = [down EXCEPT ![g] = <<>>]
        /\ \/ gs' = [gs EXCEPT ![g].pc = "run"]
           \/ gs' = [gs EXCEPT ![g].pc = "off", ![g].synced = FALSE]
    BY <1>1 DEF JoinOk, GuestStop, connVars, Receives, Pop
  <2>2. /\ gs'[g].rxEpoch = gs[g].rxEpoch /\ gs'[g].epoch = gs[g].epoch
        /\ gs'[g].field = gs[g].field /\ gs'[g].syncReady = gs[g].syncReady
        /\ gs'[g].pc # "apply"
        /\ \A k \in Guests : k # g => gs'[k] = gs[k] /\ down'[k] = down[k]
    BY <1>0, <2>1 DEF Guest
  <2>3. down'[g] = <<>> \/ (down[g] # <<>> /\ down'[g] = Tail(down[g]))
    BY <1>0, <2>1
  <2>4. Listed(g)'
    BY <2>1, <2>2, <2>3, ListedPop DEF PaceInv
  <2>5. EpochsRise(gs'[g])
    BY <2>2 DEF PaceInv, EpochsRise
  <2> QED BY <2>1, <2>2, <2>4, <2>5, GuestQuietPace
<1>2. CASE GuestRecvIn(g) \/ GuestRxEnd(g)
  <2>1. /\ UNCHANGED <<hostVars, link, lslot, up>>
        /\ \/ down' = [down EXCEPT ![g] = Tail(@)] /\ down[g] # <<>>
           \/ down' = [down EXCEPT ![g] = <<>>]
        /\ \/ gs' = gs \/ gs' = [gs EXCEPT ![g].lost = TRUE]
           \/ \E f, fr : gs' = [gs EXCEPT ![g].ready[f] = fr]
    BY <1>2 DEF GuestRecvIn, GuestRxEnd, connVars, Receives, Pop
  <2>2. /\ gs'[g].rxEpoch = gs[g].rxEpoch /\ gs'[g].epoch = gs[g].epoch
        /\ gs'[g].field = gs[g].field /\ gs'[g].syncReady = gs[g].syncReady
        /\ gs'[g].pc = gs[g].pc /\ gs'[g].syncing = gs[g].syncing
        /\ \A k \in Guests : k # g => gs'[k] = gs[k] /\ down'[k] = down[k]
    BY <1>0, <2>1 DEF Guest
  <2>3. down'[g] = <<>> \/ (down[g] # <<>> /\ down'[g] = Tail(down[g]))
    BY <1>0, <2>1
  <2>4. Listed(g)'
    BY <2>1, <2>2, <2>3, ListedPop DEF PaceInv
  <2>5. EpochsRise(gs'[g])
    BY <2>2 DEF PaceInv, EpochsRise
  <2> QED BY <2>1, <2>2, <2>4, <2>5, GuestQuietPace
<1>3. CASE GuestRecvSync(g)
  <2> DEFINE m == Head(down[g])
  <2>1. /\ UNCHANGED <<hostVars, link, lslot, up>> /\ down[g] # <<>> /\ m.t = "sync"
        /\ down' = [down EXCEPT ![g] = Tail(@)]
        /\ gs' = [gs EXCEPT ![g].rxEpoch = m.ep, ![g].syncReady = TRUE, ![g].ready = NoMap]
    BY <1>3 DEF GuestRecvSync, connVars, Receives, Pop
  <2>2. m \in DownMsg /\ m = down[g][1] /\ 1 \in 1 .. Len(down[g])
    BY <1>0, <2>1, TailFacts
  <2>3. m.ep \in Epochs /\ gs[g].rxEpoch < m.ep
    BY <1>0, <2>1, <2>2 DEF SyncsAscend, DownMsg
  <2> HIDE DEF m
  <2>4. /\ gs'[g].rxEpoch = m.ep /\ gs'[g].epoch = gs[g].epoch
        /\ gs'[g].field = gs[g].field /\ gs'[g].pc = gs[g].pc /\ gs'[g].syncing = gs[g].syncing
        /\ \A k \in Guests : k # g => gs'[k] = gs[k] /\ down'[k] = down[k]
    BY <1>0, <2>1 DEF Guest
  <2>5. gs[g].epoch \in Nat /\ gs[g].rxEpoch \in Nat /\ gs[g].epoch <= gs[g].rxEpoch
    BY <1>0 DEF Guest, Epochs, GuestFrames
  <2>6. gs[g].epoch < m.ep
    BY <2>3, <2>5 DEF Epochs
  <2>7. EpochsRise(gs'[g])
    BY <2>4, <2>6 DEF PaceInv, EpochsRise
  <2>8. down'[g] = Tail(down[g])
    BY <1>0, <2>1
  <2>9. Listed(g)'
    BY <2>1, <2>8, ListedPop DEF PaceInv, m
  <2> QED BY <2>1, <2>4, <2>7, <2>9, GuestQuietPace
<1> QED BY <1>1, <1>2, <1>3 DEF GuestRx

\* A frame is taken, a state is about to be loaded.
LEMMA TakePace ==
  ASSUME TypeInv, PaceInv, NEW g \in Guests, GuestTake(g) \/ ApplyBegin(g)
  PROVE  PaceInv'
<1>0. gs[g] \in Guest /\ DOMAIN gs = Guests
  BY HostTypes
<1>1. UNCHANGED <<hostVars, link, lslot, up, down>>
  BY DEF GuestTake, ApplyBegin, linkVars, connVars
<1>2. CASE GuestTake(g)
  <2>1. PICK f, fr : gs' = [gs EXCEPT ![g].pc = "run", ![g].view = fr.view,
                                      ![g].played = [@ EXCEPT ![f] = fr],
                                      ![g].ready = EraseBelow(@, f)]
    BY <1>2 DEF GuestTake
  <2>2. /\ gs'[g].rxEpoch = gs[g].rxEpoch /\ gs'[g].epoch = gs[g].epoch
        /\ gs'[g].field = gs[g].field /\ gs'[g].syncReady = gs[g].syncReady
        /\ gs'[g].pc = "run"
        /\ \A k \in Guests : k # g => gs'[k] = gs[k]
    BY <1>0, <2>1 DEF Guest
  <2>3. Listed(g)'
    BY <1>1, <2>2, ListedPop DEF PaceInv
  <2>4. EpochsRise(gs'[g])
    BY <2>2 DEF PaceInv, EpochsRise
  <2> QED BY <1>1, <2>2, <2>3, <2>4, GuestQuietPace
<1>3. CASE ApplyBegin(g)
  <2>1. /\ gs' = [gs EXCEPT ![g].pc = "apply", ![g].syncing = gs[g].rxEpoch,
                            ![g].syncReady = FALSE]
        /\ gs[g].syncReady
    BY <1>3 DEF ApplyBegin
  <2>2. /\ gs'[g].rxEpoch = gs[g].rxEpoch /\ gs'[g].epoch = gs[g].epoch
        /\ gs'[g].field = gs[g].field /\ gs'[g].syncReady = FALSE
        /\ gs'[g].syncing = gs[g].rxEpoch
        /\ \A k \in Guests : k # g => gs'[k] = gs[k]
    BY <1>0, <2>1 DEF Guest
  <2>3. Listed(g)'
    BY <1>1, <2>2, ListedPop DEF PaceInv
  <2>4. EpochsRise(gs'[g])
    BY <2>1, <2>2 DEF PaceInv, EpochsRise
  <2> QED BY <1>1, <2>2, <2>3, <2>4, GuestQuietPace
<1> QED BY <1>2, <1>3

\* Messages of field n of epoch e; a stream that has at most those more than another.
Exactly(ms, e, n) == \A i \in 1 .. Len(ms) : ms[i].ep = e /\ Rank(ms[i]) = n
Extends(t, s, e, n) ==
  \A i \in 1 .. Len(t) : \/ i \in 1 .. Len(s) /\ t[i] = s[i]
                         \/ t[i].ep = e /\ Rank(t[i]) = n

\* Messages of field n of epoch e are added to a stream that is not ahead of them.
LEMMA SendKeeps ==
  ASSUME NEW s \in Seq(UpMsg), NEW ms \in Seq(UpMsg), NEW t, t = s \/ t = s \o ms,
         NEW e \in Nat, 0 < e, NEW n \in Nat, NEW e1 \in Nat, NEW n1 \in Nat,
         Exactly(ms, e, n), NotPast(s, e1, n1), UpOrdered(s), e1 < e \/ (e1 = e /\ n1 <= n)
  PROVE  NotPast(t, e, n) /\ UpOrdered(t) /\ Extends(t, s, e, n)
<1>1. ASSUME NEW i \in 1 .. Len(s)
      PROVE  /\ 0 < s[i].ep /\ s[i].ep <= e /\ s[i].ep \in Nat /\ Rank(s[i]) \in Nat
             /\ s[i].ep = e => Rank(s[i]) <= n
  <2>1. s[i].ep \in Nat /\ Rank(s[i]) \in Nat
    BY UpMsgFacts
  <2> QED BY <1>1, <2>1 DEF NotPast
<1>2. CASE t = s
  BY <1>1, <1>2 DEF NotPast, Extends
<1>3. CASE t = s \o ms
  <2>1. /\ Len(t) = Len(s) + Len(ms) /\ Len(s) \in Nat /\ Len(ms) \in Nat
        /\ \A i \in 1 .. Len(s) + Len(ms) :
             \/ i \in 1 .. Len(s) /\ t[i] = s[i]
             \/ i > Len(s) /\ i - Len(s) \in 1 .. Len(ms) /\ t[i] = ms[i - Len(s)]
    BY <1>3, CatFacts
  <2>2. ASSUME NEW i \in 1 .. Len(t)
        PROVE  \/ i \in 1 .. Len(s) /\ t[i] = s[i]
               \/ i > Len(s) /\ t[i].ep = e /\ Rank(t[i]) = n
    BY <2>1 DEF Exactly
  <2>3. \A i \in 1 .. Len(t) : /\ 0 < t[i].ep /\ t[i].ep <= e
                               /\ t[i].ep = e => Rank(t[i]) <= n
    BY <1>1, <2>2
  <2>4. ASSUME NEW i \in 1 .. Len(t), NEW j \in 1 .. Len(t), i < j, t[i].ep = t[j].ep
        PROVE  Rank(t[i]) <= Rank(t[j])
    <3>1. CASE j \in 1 .. Len(s) /\ t[j] = s[j]
      <4>1. i \in 1 .. Len(s) /\ t[i] = s[i]
        BY <2>1, <2>2, <2>4, <3>1
      <4> QED BY <2>4, <3>1, <4>1 DEF UpOrdered
    <3>2. CASE t[j].ep = e /\ Rank(t[j]) = n
      BY <2>3, <2>4, <3>2
    <3> QED BY <2>2, <3>1, <3>2
  <2> QED BY <2>2, <2>3, <2>4 DEF UpOrdered, NotPast, Extends
<1> QED BY <1>2, <1>3

\* A field closes on the guest: the pad it sends is the latest of all it sent.
LEMMA GuestFieldPace ==
  ASSUME TypeInv, TypeInv', ScriptInv, PaceInv, NEW g \in Guests, GuestField(g)
  PROVE  PaceInv'
<1> DEFINE f == gs[g].field + 1
           hash == [t |-> "h", ep |-> gs[g].epoch, f |-> f,
                    h |-> cpuHash(gs[g].health = "bad", gs[g].played)]
<1>0. /\ gs[g] \in Guest /\ DOMAIN gs = Guests /\ up \in [Guests -> Seq(UpMsg)]
      /\ up'[g] \in Seq(UpMsg) /\ epoch \in Nat
  BY HostTypes DEF TypeInv, TypeOK
<1>1. /\ UNCHANGED <<hostVars, link, lslot, down>>
      /\ gs' = [gs EXCEPT ![g].field = @ + 1, ![g].pc = "wait"]
      /\ gs[g].synced /\ gs[g].field < MaxField
  BY DEF GuestField, connVars
<1>2. /\ gs'[g].rxEpoch = gs[g].rxEpoch /\ gs'[g].epoch = gs[g].epoch
      /\ gs'[g].field = f /\ gs'[g].syncReady = gs[g].syncReady /\ gs'[g].pc = "wait"
      /\ \A k \in Guests : k # g => gs'[k] = gs[k]
  BY <1>0, <1>1 DEF Guest
<1>3. /\ gs[g].field \in Nat /\ gs[g].epoch \in Nat /\ gs[g].rxEpoch \in Nat /\ f \in Nat
      /\ gs[g].epoch \in Epochs /\ f \in Fields /\ f + Delay \in Fields
  BY <1>0, <1>1, DelayAssumption, BoundAssumption DEF Guest, Epochs, Fields
<1>4. 0 < gs[g].epoch /\ gs[g].epoch <= epoch
  BY <1>0, <1>1, <1>3 DEF ScriptInv, GuestFrames
<1>5. PICK p \in Pads :
        LET pad == [t |-> "in", ep |-> gs[g].epoch, f |-> f + Delay, p |-> p]
        IN SendUp(g, IF f % HashEvery = 0 THEN <<pad, hash>> ELSE <<pad>>)
  BY DEF GuestField
<1> DEFINE pad == [t |-> "in", ep |-> gs[g].epoch, f |-> f + Delay, p |-> p]
           ms == IF f % HashEvery = 0 THEN <<pad, hash>> ELSE <<pad>>
<1>6. /\ up'[g] = up[g] \/ up'[g] = up[g] \o ms
      /\ \A k \in Guests : k # g => up'[k] = up[k]
  BY <1>0, <1>5 DEF SendUp
<1>7. /\ pad \in UpMsg /\ pad.ep = gs[g].epoch /\ Rank(pad) = f + Delay
  BY <1>3 DEF UpMsg, Rank
<1>8. hash \in UpMsg /\ hash.ep = gs[g].epoch /\ Rank(hash) = f + Delay
  <2>1. cpuHash(gs[g].health = "bad", gs[g].played) \in Hash
    BY <1>0, HashType DEF Guest
  <2> QED BY <1>3, <2>1 DEF UpMsg, Rank
<1> HIDE DEF pad, hash
<1>9. /\ ms \in Seq(UpMsg)
      /\ \A i \in 1 .. Len(ms) : ms[i].ep = gs[g].epoch /\ Rank(ms[i]) = f + Delay
  BY <1>7, <1>8
<1> HIDE DEF ms
<1>10. UpBounded(up[g], gs[g]) /\ UpOrdered(up[g]) /\ up[g] \in Seq(UpMsg)
  BY <1>0 DEF PaceInv
<1> HIDE DEF f
<1>11. /\ UpBounded(up'[g], gs'[g]) /\ UpOrdered(up'[g])
       /\ Extends(up'[g], up[g], gs[g].epoch, f + Delay)
  <2> DEFINE n1 == gs[g].field + Delay
             n == f + Delay
             e == gs[g].epoch
  <2>1. n1 \in Nat /\ n \in Nat /\ n1 <= n
    BY <1>3, DelayAssumption DEF f
  <2>2. NotPast(up[g], e, n1)
    BY <1>10 DEF UpBounded
  <2>3. e \in Nat /\ 0 < e /\ Exactly(ms, e, n)
    BY <1>3, <1>4, <1>9 DEF Exactly
  <2> HIDE DEF n, n1, e
  <2>4. NotPast(up'[g], e, n) /\ UpOrdered(up'[g]) /\ Extends(up'[g], up[g], e, n)
    BY <1>6, <1>9, <1>10, <2>1, <2>2, <2>3, SendKeeps
  <2> QED BY <1>2, <2>4 DEF UpBounded, n, e
<1>13. ASSUME synced, g \in Alive, lslot[g] \in mask PROVE GuestSent(g)'
  <2>0. UNCHANGED <<epoch, partial, script, lslot>>
    BY <1>1 DEF hostVars, sessVars, tableVars
  <2>1. GuestSent(g)
    BY <1>13 DEF PaceInv
  <2>2. \A k \in Fields : HostHas(lslot[g], k)' <=> HostHas(lslot[g], k)
    BY <2>0 DEF HostHas
  <2> SUFFICES ASSUME NEW k \in Fields, HostHas(lslot[g], k)
               PROVE  /\ gs'[g].epoch = epoch /\ k <= gs'[g].field + Delay
                      /\ \A i \in 1 .. Len(up'[g]) : up'[g][i].ep = epoch => k <= Rank(up'[g][i])
    BY <1>1, <2>0, <2>2 DEF GuestSent
  <2>3. /\ gs[g].epoch = epoch /\ k <= gs[g].field + Delay
        /\ \A i \in 1 .. Len(up[g]) : up[g][i].ep = epoch => k <= Rank(up[g][i])
    BY <2>1 DEF GuestSent
  <2>4. k <= f + Delay
    BY <1>3, <2>3, DelayAssumption DEF Fields, f
  <2>5. \A i \in 1 .. Len(up'[g]) : up'[g][i].ep = epoch => k <= Rank(up'[g][i])
    BY <1>11, <2>3, <2>4 DEF Extends
  <2> QED BY <1>2, <2>3, <2>4, <2>5
<1>14. EpochsRise(gs'[g])
  BY <1>2 DEF PaceInv, EpochsRise
<1>15. Listed(g)'
  BY <1>1, <1>2, ListedPop DEF PaceInv
<1> QED BY <1>1, <1>2, <1>6, <1>11, <1>13, <1>14, <1>15, GuestKeepsPace

\* The guest enters a later epoch: the host has nothing of it in that one.
LEMMA ApplyEndPace ==
  ASSUME TypeInv, TypeInv', ScriptInv, PaceInv, NEW g \in Guests, ApplyEnd(g)
  PROVE  PaceInv'
<1>0. /\ gs[g] \in Guest /\ DOMAIN gs = Guests /\ up \in [Guests -> Seq(UpMsg)]
      /\ up'[g] \in Seq(UpMsg) /\ epoch \in Nat /\ gs' \in [Guests -> Guest]
  BY HostTypes DEF TypeInv, TypeOK
<1>1. /\ UNCHANGED <<hostVars, link, lslot, down>>
      /\ gs[g].pc = "apply" /\ ~gs[g].syncReady
      /\ \E rd, v, pl, h : gs' = [gs EXCEPT ![g].pc = "run", ![g].health = h,
             ![g].epoch = gs[g].syncing, ![g].field = 0, ![g].synced = TRUE,
             ![g].ready = rd, ![g].view = v, ![g].played = pl]
  BY DEF ApplyEnd, connVars
<1>r. PICK rd, v, pl, h :
        gs' = [gs EXCEPT ![g].pc = "run", ![g].health = h, ![g].epoch = gs[g].syncing,
               ![g].field = 0, ![g].synced = TRUE, ![g].ready = rd, ![g].view = v,
               ![g].played = pl]
  BY <1>1
<1>2. /\ gs'[g].rxEpoch = gs[g].rxEpoch /\ gs'[g].epoch = gs[g].syncing
      /\ gs'[g].field = 0 /\ gs'[g].syncReady = gs[g].syncReady /\ gs'[g].pc = "run"
      /\ \A k \in Guests : k # g => gs'[k] = gs[k]
  <2> DEFINE r == [gs[g] EXCEPT !.pc = "run", !.health = h, !.epoch = gs[g].syncing,
                   !.field = 0, !.synced = TRUE, !.ready = rd, !.view = v, !.played = pl]
  <2>1. gs' = [gs EXCEPT ![g] = r]
    BY <1>r, Zenon
  <2>2. r.rxEpoch = gs[g].rxEpoch /\ r.epoch = gs[g].syncing /\ r.field = 0
    BY <1>0 DEF Guest
  <2>3. r.syncReady = gs[g].syncReady /\ r.pc = "run"
    BY <1>0 DEF Guest
  <2> HIDE DEF r
  <2>4. gs'[g] = r /\ \A k \in Guests : k # g => gs'[k] = gs[k]
    BY <1>0, <2>1
  <2> QED BY <2>2, <2>3, <2>4
<1>3. gs[g].epoch \in Nat /\ gs[g].rxEpoch \in Nat /\ gs[g].syncing \in Nat /\ gs[g].syncing \in Epochs
  BY <1>0 DEF Guest, Epochs
<1>4. /\ gs[g].epoch < gs[g].syncing /\ 0 < gs[g].syncing /\ gs[g].syncing <= epoch
  BY <1>0, <1>1, <1>3 DEF ScriptInv, GuestFrames, GuestPlace, PaceInv, EpochsRise
<1>5. PICK p \in Pads : SendUp(g, <<[t |-> "in", ep |-> gs[g].syncing, f |-> Delay, p |-> p]>>)
  BY DEF ApplyEnd
<1> DEFINE pad == [t |-> "in", ep |-> gs[g].syncing, f |-> Delay, p |-> p]
           ms == <<pad>>
<1>6. /\ up'[g] = up[g] \/ up'[g] = up[g] \o ms
      /\ \A k \in Guests : k # g => up'[k] = up[k]
  BY <1>0, <1>5 DEF SendUp
<1>7. pad \in UpMsg /\ pad.ep = gs[g].syncing /\ Rank(pad) = Delay
  BY <1>3, Empties DEF UpMsg, Rank
<1> HIDE DEF pad
<1>9. /\ ms \in Seq(UpMsg)
      /\ \A i \in 1 .. Len(ms) : ms[i].ep = gs[g].syncing /\ Rank(ms[i]) = Delay
  BY <1>7
<1> HIDE DEF ms
<1>10. UpBounded(up[g], gs[g]) /\ UpOrdered(up[g]) /\ up[g] \in Seq(UpMsg)
  BY <1>0 DEF PaceInv
<1>11. UpBounded(up'[g], gs'[g]) /\ UpOrdered(up'[g])
  <2> DEFINE n1 == gs[g].field + Delay
             e1 == gs[g].epoch
             e == gs[g].syncing
  <2>1. n1 \in Nat /\ Delay \in Nat /\ e1 \in Nat /\ e \in Nat /\ 0 < e /\ e1 < e
    BY <1>0, <1>3, <1>4, DelayAssumption DEF Guest
  <2>2. NotPast(up[g], e1, n1)
    BY <1>10 DEF UpBounded
  <2>3. Exactly(ms, e, Delay)
    BY <1>9 DEF Exactly
  <2> HIDE DEF n1, e1, e
  <2>4. NotPast(up'[g], e, Delay) /\ UpOrdered(up'[g])
    BY <1>6, <1>9, <1>10, <2>1, <2>2, <2>3, SendKeeps
  <2>5. gs'[g].field + Delay = Delay
    BY <1>2, DelayAssumption
  <2> QED BY <1>2, <2>4, <2>5 DEF UpBounded, e
<1>15. ASSUME synced, g \in Alive, lslot[g] \in mask PROVE GuestSent(g)'
  <2>0. UNCHANGED <<epoch, partial, script>>
    BY <1>1 DEF hostVars, sessVars, tableVars
  <2>1. GuestSent(g)
    BY <1>15 DEF PaceInv
  <2>2. gs[g].epoch # epoch
    BY <1>0, <1>3, <1>4
  <2>3. \A k \in Fields : ~HostHas(lslot[g], k)'
    BY <1>1, <2>0, <2>1, <2>2 DEF GuestSent, HostHas
  <2> QED BY <1>1, <2>3 DEF GuestSent
<1>16. EpochsRise(gs'[g])
  BY <1>1, <1>2 DEF EpochsRise
<1>17. Listed(g)'
  BY <1>1, <1>2, ListedPop DEF PaceInv
<1> QED BY <1>1, <1>2, <1>6, <1>11, <1>15, <1>16, <1>17, GuestKeepsPace

----------------------------------------------------------------------------
(* Every step keeps the pace. *)

LEMMA PaceInit == Init => PaceInv
<1> SUFFICES ASSUME Init PROVE PaceInv
  OBVIOUS
<1>1. Alive = {} /\ HostOn
  BY DEF Init, Alive, HostOn
<1>2. InEpoch
  BY <1>1 DEF Init, InEpoch
<1>3. ASSUME NEW g \in Guests
      PROVE  EpochsRise(gs[g]) /\ Listed(g) /\ UpBounded(up[g], gs[g]) /\ UpOrdered(up[g])
  <2>1. gs[g].rxEpoch = 0 /\ gs[g].pc = "out" /\ gs[g].syncReady = FALSE
    BY DEF Init
  <2>2. up[g] = <<>> /\ down[g] = <<>>
    BY DEF Init
  <2>3. Listed(g)
    BY <1>1, <2>1, <2>2 DEF Listed
  <2>4. EpochsRise(gs[g])
    BY <2>1 DEF EpochsRise
  <2> QED BY <2>2, <2>3, <2>4 DEF UpBounded, NotPast, UpOrdered
<1>4. ~synced
  BY DEF Init
<1> QED BY <1>2, <1>3, <1>4 DEF PaceInv

LEMMA PaceStep ==
  TypeInv /\ TypeInv' /\ PortInv /\ ScriptInv /\ PaceInv /\ [Next]_vars => PaceInv'
<1> SUFFICES ASSUME TypeInv, TypeInv', PortInv, ScriptInv, PaceInv, [Next]_vars
             PROVE  PaceInv'
  OBVIOUS
<1>1. CASE HostField \/ ServiceSync \/ HostFlush \/ HostStop
  BY <1>1, HostFieldPace, ServiceSyncPace, HostFlushPace, HostStopPace
<1>2. CASE HostTake
  BY <1>2, HostQuietPace DEF HostTake, linkVars, connVars, HostOn
<1>3. CASE HostTakeReq
  BY <1>3, HostQuietPace DEF HostTakeReq, linkVars, connVars, tableVars, HostOn
<1>4. ASSUME NEW m \in ViewModes, setView(m) PROVE PaceInv'
  BY <1>4, HostQuietPace DEF setView, linkVars, connVars, tableVars, sessVars, HostOn
<1>5. ASSUME NEW g \in Guests, HostRx(g) PROVE PaceInv'
  BY <1>5, HostRecvInPace, HostRecvHashPace, HostRxEndPace DEF HostRx
<1>6. ASSUME NEW g \in Guests, Admit(g) \/ Refuse(g) \/ Join(g) PROVE PaceInv'
  BY <1>6, AdmitPace, RefusePace, JoinPace
<1>7. ASSUME NEW g \in Guests, Break(g) PROVE PaceInv'
  BY <1>7, HostQuietPace DEF Break, hostVars, sessVars, tableVars, HostOn
<1>8. ASSUME NEW g \in Guests, JoinFail(g) \/ Diverge(g) \/ GoSolo(g) \/ GuestIdle(g)
      PROVE  PaceInv'
  BY <1>8, PcPace DEF JoinFail, Diverge, GoSolo, GuestIdle, linkVars, connVars
<1>9. ASSUME NEW g \in Guests, GuestGiveUp(g) \/ ApplyFail(g) \/ ApplySkip(g)
      PROVE  PaceInv'
  BY <1>9, PcPace DEF GuestGiveUp, ApplyFail, ApplySkip, linkVars, connVars
<1>10. ASSUME NEW g \in Guests, JoinOk(g) \/ GuestRx(g) \/ GuestStop(g) PROVE PaceInv'
  BY <1>10, GuestRxPace
<1>11. ASSUME NEW g \in Guests, GuestField(g) \/ GuestTake(g) \/ ApplyBegin(g) \/ ApplyEnd(g)
       PROVE  PaceInv'
  BY <1>11, GuestFieldPace, TakePace, ApplyEndPace
<1>12. CASE UNCHANGED vars
  BY <1>12, HostQuietPace
     DEF vars, hostVars, sessVars, tableVars, viewVars, linkVars, connVars, HostOn
<1> QED BY <1>1, <1>2, <1>3, <1>4, <1>5, <1>6, <1>7, <1>8, <1>9, <1>10, <1>11, <1>12
        DEF Next, HostCore, HostUser, GuestJoin, GuestCore

\* The host has played the field before its own, so it is at most one field
\* past the last one that a port has sent.
LEMMA HostFollowsPads ==
  ASSUME TypeInv, ScriptInv, PaceInv, synced, NEW s, NEW n \in Nat, Delay <= n,
         \A k \in Fields : HostHas(s, k) => k <= n
  PROVE  field <= n + 1
<1>t. /\ field \in Nat /\ field \in Fields /\ epoch \in Epochs /\ hplayed \in Map(Frame)
      /\ hpc \in {"run", "wait", "sync", "off"}
  BY HostTypes
<1>1. hpc # "off"
  BY DEF PaceInv, InEpoch, HostOn
<1>2. \A f \in Fields : hplayed[f] # None => script[epoch][f] # None
  BY DEF ScriptInv, HostPlays
<1>3. ASSUME NEW f \in Fields, script[epoch][f] # None PROVE f <= n
  <2>1. f >= Delay => HostHas(s, f)
    BY <1>3 DEF HostHas, Has
  <2> QED BY <2>1, DelayAssumption DEF Fields
<1>4. CASE hpc = "wait"
  <2>1. field > 0 /\ hplayed[field - 1] # None
    BY <1>4 DEF ScriptInv, HostPlays
  <2>2. field - 1 \in Fields
    BY <1>t, <2>1, FieldBefore
  <2>3. field - 1 <= n
    BY <1>2, <1>3, <2>1, <2>2
  <2> QED BY <1>t, <2>3
<1>5. CASE hpc \in {"run", "sync"}
  <2>1. hplayed[field] # None
    BY <1>5 DEF ScriptInv, HostPlays
  <2> QED BY <1>t, <1>2, <1>3, <2>1
<1> QED BY <1>t, <1>1, <1>4, <1>5

\* So is a guest of that epoch.
LEMMA GuestFollowsPads ==
  ASSUME TypeInv, ScriptInv, PaceInv, NEW g \in Guests, gs[g].synced, gs[g].epoch = epoch,
         NEW n \in Nat, Delay <= n, \A k \in Fields : HostHas(0, k) => k <= n
  PROVE  gs[g].field <= n + 1
<1>1. gs[g] \in Guest /\ GuestFrames(gs[g], script, epoch) /\ GuestPlace(gs[g])
  BY HostTypes DEF ScriptInv
<1>2. gs[g].field \in Nat /\ gs[g].field \in Fields
  BY <1>1, DelayAssumption, BoundAssumption DEF Guest, Fields
<1>3. ASSUME NEW f \in Fields, gs[g].played[f] # None PROVE f <= n
  <2>1. script[epoch][f] # None
    BY <1>1, <1>3 DEF GuestFrames, Follows
  <2>2. f >= Delay => HostHas(0, f)
    BY <2>1 DEF HostHas, Has
  <2> QED BY <2>2, DelayAssumption DEF Fields
<1>4. CASE gs[g].played[gs[g].field] # None
  <2>1. gs[g].field <= n
    BY <1>2, <1>3, <1>4
  <2> QED BY <1>2, <2>1
<1>5. CASE gs[g].field > 0 /\ gs[g].played[gs[g].field - 1] # None
  <2>1. gs[g].field - 1 \in Fields
    BY <1>2, <1>5, FieldBefore
  <2>2. gs[g].field - 1 <= n
    BY <1>3, <1>5, <2>1
  <2> QED BY <1>2, <2>2
<1> QED BY <1>1, <1>4, <1>5 DEF GuestPlace

LEMMA LeadBounded ==
  ASSUME TypeInv, ScriptInv, PaceInv
  PROVE  LeadBound
<1> SUFFICES ASSUME NEW g \in Alive, synced, gs[g].synced, gs[g].epoch = epoch, lslot[g] \in mask
             PROVE  field - gs[g].field <= Delay + 1 /\ gs[g].field - field <= Delay + 1
  BY DEF LeadBound
<1>1. g \in Guests /\ gs[g] \in Guest /\ field \in Nat
  BY HostTypes DEF Alive
<1>2. gs[g].field \in Nat /\ Delay \in Nat
  BY <1>1, DelayAssumption DEF Guest
<1>3. gs[g].field <= field + Delay + 1
  <2>1. \A k \in Fields : HostHas(0, k) => k <= field + Delay
    BY DEF PaceInv, HostSent
  <2> QED BY <1>1, <1>2, <2>1, GuestFollowsPads
<1>4. field <= gs[g].field + Delay + 1
  <2>1. \A k \in Fields : HostHas(lslot[g], k) => k <= gs[g].field + Delay
    BY DEF PaceInv, GuestSent
  <2> DEFINE n == gs[g].field + Delay
             s == lslot[g]
  <2>2. n \in Nat /\ Delay <= n /\ \A k \in Fields : HostHas(s, k) => k <= n
    BY <1>2, <2>1
  <2> HIDE DEF n, s
  <2>3. field <= n + 1
    BY <2>2, HostFollowsPads
  <2> QED BY <1>1, <1>2, <2>3 DEF n
<1> QED BY <1>1, <1>2, <1>3, <1>4

\* Netplay keeps its pace: the invariant that bounds what is under way.
THEOREM PaceKept == Spec => [](TypeInv /\ PortInv /\ ScriptInv /\ PaceInv)
<1>1. Init => TypeInv /\ PortInv /\ ScriptInv /\ PaceInv
  <2>1. Init => PortInv
    BY DEF Init, PortInv, OnePlayerPerPort, OnlyLiveAwaited, OutUnlinked, Alive, InGame
  <2> QED BY <2>1, TypeInit, ScriptInit, PaceInit
<1>2. TypeInv /\ PortInv /\ ScriptInv /\ PaceInv /\ [Next]_vars
        => (TypeInv /\ PortInv /\ ScriptInv /\ PaceInv)'
  BY TypeStep, PortStep, ScriptStep, PaceStep
<1> QED BY <1>1, <1>2, PTL DEF Spec

\* What a field of lockstep promises, for every number of guests, delay and
\* bound: the same pads, the same view from field Delay on, and no machine of the
\* game more than Delay + 1 fields ahead of another (afterField, tryComplete).
THEOREM FieldsInStep == Spec => []FieldsAgree
<1>1. TypeInv /\ ScriptInv /\ PaceInv => LeadBound
  BY LeadBounded
<1>2. InputAgreement /\ ViewAgreement /\ LeadBound => FieldsAgree
  BY DEF FieldsAgree
<1> QED BY <1>1, <1>2, PaceKept, InputsAgree, ViewsAgree, PTL

----------------------------------------------------------------------------
(* Hashes and what they show. *)

\* Dealing more fields changes no field a hash has seen.
LEMMA GoodHashGrows ==
  ASSUME NEW h, NEW scr, NEW scr2, Grows(scr, scr2), NEW e \in Epochs, NEW f,
         GoodHash(h, scr, e, f)
  PROVE  GoodHash(h, scr2, e, f)
BY DEF GoodHash, Grows

\* Two hashes of one field of one epoch differ only if a machine diverged.
LEMMA GoodHashUnique ==
  ASSUME NEW h1 \in Hash, NEW h2 \in Hash, NEW scr, NEW e, NEW f,
         GoodHash(h1, scr, e, f), GoodHash(h2, scr, e, f), h1.bad = h2.bad
  PROVE  h1 = h2
<1>1. \A k \in Fields : h1.in[k] = h2.in[k]
  BY DEF GoodHash
<1>2. h1.in = h2.in
  <2>1. h1.in \in Map([Slots -> Pads \cup {Neutral}]) /\ h2.in \in Map([Slots -> Pads \cup {Neutral}])
    BY DEF Hash
  <2> QED BY <1>1, <2>1 DEF Map
<1>3. h1 = [bad |-> h1.bad, in |-> h1.in] /\ h2 = [bad |-> h2.bad, in |-> h2.in]
  BY DEF Hash
<1> QED BY <1>2, <1>3

\* The hash of a machine that has played the fields before f as they were dealt.
PlayedTo(played, scr, e, f) ==
  \A k \in Fields : IF k < f THEN played[k] # None /\ Follows(played[k], scr, e, k)
                    ELSE played[k] = None
LEMMA CpuHashGood ==
  ASSUME NEW b, NEW played, NEW scr, NEW e, NEW f, PlayedTo(played, scr, e, f)
  PROVE  GoodHash(cpuHash(b, played), scr, e, f) /\ cpuHash(b, played).bad = b
BY DEF GoodHash, cpuHash, PlayedTo, Follows

\* The fields that have a hash are the multiples of HashEvery.
LEMMA HashFieldMultiple ==
  ASSUME NEW f \in Nat, HashField(f)
  PROVE  f \div HashEvery \in Nat /\ f = HashEvery * (f \div HashEvery)
BY HashAssumption DEF HashField

LEMMA MultipleLess ==
  ASSUME NEW a \in Int, NEW b \in Int, HashEvery * a < HashEvery * b
  PROVE  a < b
<1>1. HashEvery \in Nat /\ HashEvery > 0
  BY HashAssumption
<1>2. SUFFICES ASSUME b <= a PROVE FALSE
  OBVIOUS
<1>3. a - b \in Nat
  BY <1>2
<1>4. \A x, y \in Nat : x * y \in Nat
  OBVIOUS
<1>5. HashEvery * (a - b) >= 0
  BY <1>1, <1>3, <1>4
<1>6. HashEvery * (a - b) = HashEvery * a - HashEvery * b
  BY <1>1
<1> QED BY <1>1, <1>5, <1>6

\* A window of HashEvery * HashKeep fields holds at most HashKeep hashes.
LEMMA WindowHolds ==
  ASSUME NEW S \in SUBSET Nat, NEW n \in S, NEW lo \in S, \A k \in S : HashField(k),
         \A k \in S : lo <= k /\ k <= n, n - lo < HashEvery * HashKeep
  PROVE  Cardinality(S) <= HashKeep
<1>1. IsFiniteSet(S)
  BY FS_BoundedSetOfNaturals
<1>2. Cardinality(S) \in Nat
  BY <1>1, FS_CardinalityType
<1>3. HashKeep \in Nat /\ HashKeep > 0 /\ HashEvery \in Nat /\ HashEvery > 0
  BY HashAssumption
<1>4. SUFFICES ASSUME Cardinality(S) > HashKeep PROVE FALSE
  BY <1>2, <1>3
<1> DEFINE T == 0 .. HashKeep - 1
           back == [k \in S |-> (n \div HashEvery) - (k \div HashEvery)]
<1>5. ASSUME NEW k \in S
      PROVE  /\ k \div HashEvery \in Nat /\ k = HashEvery * (k \div HashEvery)
             /\ n \div HashEvery \in Nat /\ n = HashEvery * (n \div HashEvery)
             /\ k \in Nat /\ n \in Nat /\ lo \in Nat
  BY HashFieldMultiple
<1>6. ASSUME NEW k \in S PROVE (n \div HashEvery) - (k \div HashEvery) \in T
  <2> DEFINE a == n \div HashEvery
             b == k \div HashEvery
  <2>1. a \in Nat /\ b \in Nat /\ k = HashEvery * b /\ n = HashEvery * a /\ n \in Nat /\ k \in Nat
    BY <1>5
  <2> HIDE DEF a, b
  <2>2. HashEvery * (a - b) = n - k
    BY <1>3, <2>1
  <2>3. n - k < HashEvery * HashKeep /\ k <= n
    <3>1. HashEvery * HashKeep \in Nat
      BY <1>3
    <3> QED BY <1>5, <2>1, <3>1
  <2>4. a - b < HashKeep
    BY <1>3, <2>1, <2>2, <2>3, MultipleLess
  <2>5. HashEvery * (-1) < HashEvery * (a - b)
    <3>1. HashEvery * (-1) = -HashEvery
      BY <1>3
    <3> QED BY <1>3, <2>1, <2>2, <2>3, <3>1
  <2>6. -1 < a - b
    BY <2>1, <2>5, MultipleLess
  <2> QED BY <1>3, <2>1, <2>4, <2>6 DEF a, b
<1>7. back \in [S -> T]
  BY <1>6
<1>8. IsFiniteSet(T) /\ Cardinality(T) = HashKeep
  BY <1>3, FS_Interval
<1>c. Cardinality(T) < Cardinality(S)
  BY <1>2, <1>3, <1>4, <1>8
<1> HIDE DEF T, back
<1>9. PICK x \in S, y \in S : x # y /\ back[x] = back[y]
  BY <1>1, <1>7, <1>8, <1>c, FS_PigeonHole
<1>10. x \div HashEvery = y \div HashEvery
  BY <1>5, <1>9 DEF back
<1> QED BY <1>5, <1>9, <1>10

\* The hash that PruneHash lets go of is older than the window.
LEMMA PruneKeeps ==
  ASSUME NEW mh \in Map(Hash), NEW n \in Fields, mh[n] # None, Kept(mh, n),
         \A f \in Fields : mh[f] # None => f <= n /\ HashField(f)
  PROVE  /\ Kept(PruneHash(mh), n)
         /\ \A f \in Fields : PruneHash(mh)[f] # None => PruneHash(mh)[f] = mh[f]
<1> DEFINE have == {f \in Fields : mh[f] # None}
           lo == CHOOSE f \in have : \A k \in have : f <= k
<1>1. CASE ~(Cardinality(have) > HashKeep)
  BY <1>1 DEF PruneHash, KeepHashes
<1>2. CASE Cardinality(have) > HashKeep
  <2>1. PruneHash(mh) = [mh EXCEPT ![lo] = None]
    BY <1>2 DEF PruneHash, KeepHashes
  <2>2. have \in SUBSET Nat /\ n \in have
    BY DEF Fields
  <2>3. \E f \in have : \A k \in have : f <= k
    <3>1. PICK f \in have : \A k \in have : ~(<<k, f>> \in OpToRel(<, Nat))
      BY <2>2, NatLessThanWellFounded, WFMin
    <3>2. ASSUME NEW k \in have PROVE f <= k
      <4>1. f \in Nat /\ k \in Nat
        BY <2>2, <3>1
      <4>2. ~(k < f)
        BY <3>1, <4>1 DEF OpToRel
      <4> QED BY <4>1, <4>2
    <3> QED BY <3>2
  <2>4. lo \in have /\ \A k \in have : lo <= k
    BY <2>3
  <2>5. \A k \in have : HashField(k) /\ k <= n
    OBVIOUS
  <2> HIDE DEF have, lo
  <2>6. ~(n - lo < HashEvery * HashKeep)
    <3>1. SUFFICES ASSUME n - lo < HashEvery * HashKeep PROVE FALSE
      OBVIOUS
    <3>2. Cardinality(have) <= HashKeep
      BY <2>2, <2>4, <2>5, <3>1, WindowHolds
    <3>3. IsFiniteSet(have)
      BY <2>2, <2>5, FS_BoundedSetOfNaturals
    <3>4. Cardinality(have) \in Nat
      BY <3>3, FS_CardinalityType
    <3> QED BY <1>2, <3>2, <3>4, HashAssumption
  <2>7. \A f \in Fields : PruneHash(mh)[f] = IF f = lo THEN None ELSE mh[f]
    BY <2>1 DEF Map
  <2> QED BY <2>6, <2>7 DEF Kept
<1> QED BY <1>1, <1>2

----------------------------------------------------------------------------
(* The steps and the hashes. *)

LEMMA DealtGrows ==
  ASSUME TypeInv, FrameDealt
  PROVE  Grows(script, script')
<1>1. CASE script' = script
  BY <1>1 DEF Grows
<1>2. CASE \E f \in Fields : FrameAdded(down, script, epoch, f)
  <2>1. PICK f \in Fields, fr \in Frame :
          script[epoch][f] = None /\ script' = [script EXCEPT ![epoch][f] = fr]
    BY <1>2 DEF FrameAdded
  <2>2. script \in Scripts /\ epoch \in Epochs
    BY HostTypes
  <2>3. \A e \in Epochs, k \in Fields : e # epoch \/ k # f => script'[e][k] = script[e][k]
    BY <2>1, <2>2 DEF Scripts, Map
  <2> QED BY <2>1, <2>3 DEF Grows
<1> QED BY <1>1, <1>2 DEF FrameDealt

\* What is under way of a guest stays what it was, or the first of it is taken, or all.
Drained(g) == \/ up'[g] = up[g] \/ up'[g] = <<>>
              \/ up[g] # <<>> /\ up'[g] = Tail(up[g])

LEMMA UpHashesKept ==
  ASSUME TypeInv, NEW g \in Guests, UpHashes(g), Grows(script, script'), Drained(g)
  PROVE  UpHashes(g)'
<1>1. up[g] \in Seq(UpMsg)
  BY HostTypes
<1>2. ASSUME NEW i \in 1 .. Len(up[g]), up[g][i].t = "h"
      PROVE  HashField(up[g][i].f) /\ GoodHash(up[g][i].h, script', up[g][i].ep, up[g][i].f)
  <2>1. up[g][i].ep \in Epochs
    BY <1>1, UpMsgFacts
  <2>2. HashField(up[g][i].f) /\ GoodHash(up[g][i].h, script, up[g][i].ep, up[g][i].f)
    BY <1>2 DEF UpHashes
  <2> QED BY <2>1, <2>2, GoodHashGrows
<1>3. CASE up'[g] = up[g]
  BY <1>2, <1>3 DEF UpHashes
<1>4. CASE up'[g] = <<>>
  BY <1>4 DEF UpHashes
<1>5. CASE up[g] # <<>> /\ up'[g] = Tail(up[g])
  <2>1. \A i \in 1 .. Len(Tail(up[g])) : Tail(up[g])[i] = up[g][i + 1] /\ i + 1 \in 1 .. Len(up[g])
    BY <1>1, <1>5, TailFacts
  <2> QED BY <1>2, <1>5, <2>1 DEF UpHashes
<1> QED BY <1>3, <1>4, <1>5 DEF Drained

\* A step that records, compares and sends no hash.
LEMMA HashesKept ==
  ASSUME TypeInv, HashInv, Grows(script, script'),
         UNCHANGED <<epoch, field, myHash, peerHash, desyncs>>,
         \A g \in Guests : Drained(g), NoGap'
  PROVE  HashInv'
<1>0. epoch \in Epochs
  BY HostTypes
<1>1. \A g \in Guests : UpHashes(g)'
  BY UpHashesKept DEF HashInv
<1>2. PeerHashes'
  BY <1>0, GoodHashGrows DEF HashInv, PeerHashes
<1>3. OwnHashes(myHash, field)'
  BY <1>0, GoodHashGrows DEF HashInv, OwnHashes
<1>4. Kept(myHash', field')
  BY DEF HashInv
<1>5. NoFalseDesync'
  BY DEF HashInv, NoFalseDesync
<1> QED BY <1>1, <1>2, <1>3, <1>4, <1>5 DEF HashInv

\* Machines that stay where they are, or leave, have no gaps they did not have.
LEMMA NoGapKept ==
  ASSUME NoGap, synced' => synced, field' = field,
         \A k \in Fields : hplayed[k] # None => hplayed'[k] # None,
         \A g \in Guests : gs'[g].synced =>
           /\ gs[g].synced /\ gs'[g].field = gs[g].field
           /\ \A k \in Fields : gs[g].played[k] # None => gs'[g].played[k] # None
  PROVE  NoGap'
BY DEF NoGap

\* A hash that is compared with the host's is equal if its machine did not diverge.
LEMMA CompareSound ==
  ASSUME NEW hs \in SUBSET Hash, NEW mine \in Hash, NEW f, mine.bad = FALSE,
         GoodHash(mine, script, epoch, f), \A h \in hs : GoodHash(h, script, epoch, f),
         CompareHash(hs, mine), NoFalseDesync
  PROVE  NoFalseDesync'
<1>1. ASSUME NEW h \in hs, h # mine PROVE h.bad # FALSE
  BY <1>1, GoodHashUnique
<1> QED BY <1>1 DEF CompareHash, NoFalseDesync

\* afterField on the host records the hash of the field that closes.
LEMMA HostFieldHashes ==
  ASSUME TypeInv, TypeInv', ScriptInv, HashInv, HostField
  PROVE  HashInv'
<1> DEFINE n == field + 1
           mine == cpuHash(FALSE, hplayed)
<1>t. /\ field \in Nat /\ n \in Nat /\ epoch \in Epochs /\ hplayed \in Map(Frame)
      /\ myHash \in Map(Hash) /\ peerHash \subseteq [slot : Slots, f : Fields, h : Hash]
      /\ myHash' \in Map(Hash)
  BY HostTypes DEF TypeInv, TypeOK
<1>1. /\ UNCHANGED <<epoch, synced, hplayed, gs, up>> /\ field' = n /\ hpc = "run" /\ synced
      /\ field < MaxField /\ HostHash(n)
  BY DEF HostField, viewVars
<1>2. n \in Fields
  BY <1>t, <1>1, DelayAssumption, BoundAssumption DEF Fields
<1>3. Grows(script, script')
  BY HostFieldKeeps, DealtGrows
<1>4. \A k \in Fields : IF k < n THEN hplayed[k] # None /\ hplayed[k] = script[epoch][k]
                        ELSE hplayed[k] = None
  <2> SUFFICES ASSUME NEW k \in Fields
               PROVE  IF k < n THEN hplayed[k] # None /\ hplayed[k] = script[epoch][k]
                      ELSE hplayed[k] = None
    OBVIOUS
  <2>0. k \in Nat
    BY DEF Fields
  <2>1. CASE k < field
    BY <1>t, <1>1, <2>0, <2>1 DEF HashInv, NoGap, ScriptInv, HostPlays
  <2>2. CASE k = field
    BY <1>t, <1>1, <2>0, <2>2 DEF ScriptInv, HostPlays
  <2>3. CASE k > field
    BY <1>t, <2>0, <2>3 DEF ScriptInv, HostPlays
  <2> QED BY <1>t, <2>0, <2>1, <2>2, <2>3
<1>5. mine \in Hash /\ GoodHash(mine, script, epoch, n) /\ mine.bad = FALSE
  <2>1. PlayedTo(hplayed, script, epoch, n)
    BY <1>4 DEF PlayedTo, Follows
  <2>2. FALSE \in BOOLEAN
    OBVIOUS
  <2> HIDE DEF n
  <2> QED BY <1>t, <2>1, <2>2, HashType, CpuHashGood
<1>6. NoGap'
  BY <1>1, <1>4 DEF HashInv, NoGap
<1>7. \A g \in Guests : UpHashes(g)'
  BY <1>1, <1>3, UpHashesKept DEF HashInv, Drained
<1> HIDE DEF mine, n
<1>8. CASE n % HashEvery # 0
  <2>1. UNCHANGED <<myHash, peerHash, desyncs>>
    BY <1>1, <1>8 DEF HostHash, hashVars
  <2>2. PeerHashes'
    <3> SUFFICES ASSUME NEW e \in peerHash
                 PROVE  e.f > n /\ HashField(e.f) /\ GoodHash(e.h, script', epoch, e.f)
      BY <1>1, <2>1 DEF PeerHashes
    <3>1. e.f > field /\ HashField(e.f) /\ GoodHash(e.h, script, epoch, e.f) /\ e.f \in Nat
      BY <1>t DEF HashInv, PeerHashes, Fields
    <3>2. e.f # n
      BY <1>8, <3>1 DEF HashField
    <3> QED BY <1>t, <1>3, <3>1, <3>2, GoodHashGrows DEF n
  <2>3. OwnHashes(myHash, field)'
    <3> SUFFICES ASSUME NEW f \in Fields, myHash[f] # None
                 PROVE  /\ f <= n /\ HashField(f) /\ myHash[f].bad = FALSE
                        /\ GoodHash(myHash[f], script', epoch, f)
      BY <1>1, <2>1 DEF OwnHashes
    <3>1. /\ f <= field /\ HashField(f) /\ myHash[f].bad = FALSE
          /\ GoodHash(myHash[f], script, epoch, f) /\ f \in Nat
      BY DEF HashInv, OwnHashes, Fields
    <3> QED BY <1>t, <1>3, <3>1, GoodHashGrows DEF n
  <2>4. Kept(myHash', field')
    <3>1. HashEvery * HashKeep \in Nat
      BY HashAssumption
    <3> SUFFICES ASSUME NEW f \in Fields, f <= n, HashField(f), n - f < HashEvery * HashKeep
                 PROVE  myHash[f] # None
      BY <1>1, <2>1 DEF Kept
    <3>2. f # n /\ f \in Nat
      BY <1>8 DEF HashField, Fields
    <3>3. f <= field /\ field - f < HashEvery * HashKeep
      BY <1>t, <3>1, <3>2 DEF n
    <3> QED BY <3>3 DEF HashInv, Kept
  <2>5. NoFalseDesync'
    BY <2>1 DEF HashInv, NoFalseDesync
  <2> QED BY <1>6, <1>7, <2>2, <2>3, <2>4, <2>5 DEF HashInv
<1>9. CASE n % HashEvery = 0
  <2> DEFINE mh == [myHash EXCEPT ![n] = mine]
             hs == {e.h : e \in {e \in peerHash : e.f = n}}
  <2>1. /\ myHash' = PruneHash(mh) /\ CompareHash(hs, mine)
        /\ peerHash' = {e \in peerHash : e.f > n}
    BY <1>1, <1>9 DEF HostHash, mine
  <2>2. hs \in SUBSET Hash /\ \A h \in hs : GoodHash(h, script, epoch, n)
    BY <1>t DEF HashInv, PeerHashes
  <2>3. NoFalseDesync'
    BY <1>5, <2>1, <2>2, CompareSound DEF HashInv
  <2>4. PeerHashes'
    <3> SUFFICES ASSUME NEW e \in peerHash, e.f > n
                 PROVE  HashField(e.f) /\ GoodHash(e.h, script', epoch, e.f)
      BY <1>1, <2>1 DEF PeerHashes
    <3>1. HashField(e.f) /\ GoodHash(e.h, script, epoch, e.f)
      BY DEF HashInv, PeerHashes
    <3> QED BY <1>t, <1>3, <3>1, GoodHashGrows
  <2>5. /\ mh \in Map(Hash) /\ mh[n] = mine /\ mine # None
        /\ \A f \in Fields : f # n => mh[f] = myHash[f]
    BY <1>t, <1>2, <1>5, HashAbsentAssumption DEF Map, Opt
  <2> HIDE DEF mh, hs
  <2>6. HashField(n) /\ n > field
    BY <1>t, <1>9 DEF HashField, n
  <2>7. ASSUME NEW f \in Fields, mh[f] # None
        PROVE  /\ f <= n /\ HashField(f) /\ mh[f].bad = FALSE /\ GoodHash(mh[f], script, epoch, f)
    <3>1. CASE f = n
      BY <1>t, <1>5, <2>5, <2>6, <3>1
    <3>2. CASE f # n
      <4>1. /\ f <= field /\ HashField(f) /\ mh[f].bad = FALSE
            /\ GoodHash(mh[f], script, epoch, f) /\ f \in Nat
        BY <2>5, <2>7, <3>2 DEF HashInv, OwnHashes, Fields
      <4> QED BY <1>t, <4>1 DEF n
    <3> QED BY <3>1, <3>2
  <2>8. Kept(mh, n)
    <3>1. HashEvery * HashKeep \in Nat
      BY HashAssumption
    <3> SUFFICES ASSUME NEW f \in Fields, f <= n, HashField(f), n - f < HashEvery * HashKeep, f # n
                 PROVE  mh[f] # None
      BY <2>5 DEF Kept
    <3>2. f <= field /\ field - f < HashEvery * HashKeep
      BY <1>t, <3>1 DEF n, Fields
    <3> QED BY <2>5, <3>2 DEF HashInv, Kept
  <2>9. /\ Kept(myHash', n)
        /\ \A f \in Fields : myHash'[f] # None => myHash'[f] = mh[f]
    BY <1>2, <2>1, <2>5, <2>7, <2>8, PruneKeeps
  <2>10. OwnHashes(myHash, field)'
    <3> SUFFICES ASSUME NEW f \in Fields, myHash'[f] # None
                 PROVE  /\ f <= n /\ HashField(f) /\ myHash'[f].bad = FALSE
                        /\ GoodHash(myHash'[f], script', epoch, f)
      BY <1>1 DEF OwnHashes
    <3>1. myHash'[f] = mh[f] /\ mh[f] # None
      BY <2>9
    <3> QED BY <1>t, <1>3, <2>7, <3>1, GoodHashGrows
  <2> QED BY <1>1, <1>6, <1>7, <2>3, <2>4, <2>9, <2>10 DEF HashInv
<1> QED BY <1>8, <1>9

\* hostRx of a hash: the host still has its own of that field, or has yet to make it.
LEMMA HostRecvHashHashes ==
  ASSUME TypeInv, PortInv, ScriptInv, PaceInv, HashInv, NEW g \in Guests, HostRecvHash(g)
  PROVE  HashInv'
<1> DEFINE m == Head(up[g])
<1>t. /\ field \in Nat /\ epoch \in Epochs /\ epoch \in Nat /\ up \in [Guests -> Seq(UpMsg)]
      /\ myHash \in Map(Hash) /\ gs[g] \in Guest /\ lslot[g] \in Slots
  BY HostTypes DEF TypeInv, TypeOK
<1>1. /\ UNCHANGED <<epoch, synced, field, script, hplayed, myHash, gs>> /\ g \in Alive
      /\ up[g] # <<>> /\ m.t = "h" /\ up' = [up EXCEPT ![g] = Tail(@)]
  BY DEF HostRecvHash, sessVars, tableVars, viewVars, Receives, Pop
<1>2. \A k \in Guests : Drained(k)
  BY <1>t, <1>1 DEF Drained
<1>3. Grows(script, script')
  BY <1>1 DEF Grows
<1>4. NoGap'
  BY <1>1 DEF HashInv, NoGap
<1>5. m \in UpMsg /\ m = up[g][1] /\ 1 \in 1 .. Len(up[g])
  BY <1>t, <1>1, TailFacts
<1>6. /\ m.f \in Fields /\ m.f \in Nat /\ m.ep \in Nat /\ Rank(m) = m.f + Delay /\ m.h \in Hash
      /\ HashField(m.f) /\ GoodHash(m.h, script, m.ep, m.f)
  <2>1. HashField(m.f) /\ GoodHash(m.h, script, m.ep, m.f)
    BY <1>1, <1>5 DEF HashInv, UpHashes
  <2> QED BY <1>1, <1>5, <2>1, UpMsgFacts
<1>7. \A k \in Guests : UpHashes(k)'
  BY <1>2, <1>3, UpHashesKept DEF HashInv
<1>8. OwnHashes(myHash, field)' /\ Kept(myHash', field')
  BY <1>1 DEF HashInv, OwnHashes
<1> HIDE DEF m
<1>9. CASE m.ep # epoch
  <2>1. UNCHANGED <<peerHash, desyncs>>
    BY <1>9 DEF HostRecvHash, OfThisEpoch, m
  <2> QED BY <1>1, <1>2, <1>3, <1>4, <2>1, HashesKept
<1>10. CASE m.ep = epoch /\ myHash[m.f] # None
  <2>1. CompareHash({m.h}, myHash[m.f]) /\ peerHash' = peerHash
    BY <1>10 DEF HostRecvHash, OfThisEpoch, m
  <2>2. /\ myHash[m.f] \in Hash /\ myHash[m.f].bad = FALSE
        /\ GoodHash(myHash[m.f], script, epoch, m.f)
    BY <1>t, <1>6, <1>10 DEF HashInv, OwnHashes, Map, Opt
  <2>3. {m.h} \in SUBSET Hash /\ \A h \in {m.h} : GoodHash(h, script, epoch, m.f)
    BY <1>6, <1>10
  <2>4. NoFalseDesync'
    BY <2>1, <2>2, <2>3, CompareSound DEF HashInv
  <2>5. PeerHashes'
    BY <1>1, <2>1 DEF HashInv, PeerHashes
  <2> QED BY <1>4, <1>7, <1>8, <2>4, <2>5 DEF HashInv
<1>11. CASE m.ep = epoch /\ myHash[m.f] = None
  <2>1. /\ peerHash' = peerHash \cup {[slot |-> lslot[g], f |-> m.f, h |-> m.h]}
        /\ desyncs' = desyncs
    BY <1>11 DEF HostRecvHash, OfThisEpoch, m
  <2>2. UpBounded(up[g], gs[g]) /\ Listed(g) /\ GuestFrames(gs[g], script, epoch)
    BY DEF PaceInv, ScriptInv
  <2>3. 0 < m.ep /\ m.ep <= gs[g].epoch /\ gs[g].epoch <= gs[g].rxEpoch
    BY <1>5, <2>2 DEF UpBounded, NotPast, GuestFrames
  <2>4. gs[g].epoch \in Nat /\ gs[g].rxEpoch \in Nat
    BY <1>t DEF Guest, Epochs
  <2>5. lslot[g] \in mask
    <3>1. gs[g].rxEpoch # 0
      BY <1>6, <2>3, <2>4
    <3> QED BY <1>1, <2>2, <3>1 DEF Listed
  <2>6. synced
    <3>1. epoch > 0
      BY <1>11, <2>3
    <3> QED BY <1>1, <3>1 DEF PaceInv, InEpoch
  <2>7. \A k \in Fields : HostHas(lslot[g], k) => k <= m.f + Delay
    <3>1. GuestSent(g)
      BY <1>1, <2>5, <2>6 DEF PaceInv
    <3> QED BY <1>5, <1>6, <1>11, <3>1 DEF GuestSent
  <2>8. field <= m.f + Delay + 1
    <3> DEFINE n == m.f + Delay
               s == lslot[g]
    <3>1. n \in Nat /\ Delay <= n /\ \A k \in Fields : HostHas(s, k) => k <= n
      BY <1>6, <2>7, DelayAssumption
    <3> HIDE DEF n, s
    <3>2. field <= n + 1
      BY <2>6, <3>1, HostFollowsPads
    <3> QED BY <3>2 DEF n
  <2>9. m.f > field
    <3>1. HashEvery * HashKeep \in Nat /\ HashEvery * HashKeep > Delay + 1 /\ Delay \in Nat
      BY HashAssumption, DelayAssumption
    <3>2. SUFFICES ASSUME m.f <= field PROVE FALSE
      BY <1>t, <1>6
    <3>3. field - m.f < HashEvery * HashKeep
      BY <1>t, <1>6, <2>8, <3>1, <3>2
    <3> QED BY <1>6, <1>11, <3>2, <3>3 DEF HashInv, Kept
  <2>10. PeerHashes'
    <3> SUFFICES ASSUME NEW e \in peerHash'
                 PROVE  e.f > field /\ HashField(e.f) /\ GoodHash(e.h, script, epoch, e.f)
      BY <1>1 DEF PeerHashes
    <3>1. CASE e \in peerHash
      BY <3>1 DEF HashInv, PeerHashes
    <3>2. CASE e = [slot |-> lslot[g], f |-> m.f, h |-> m.h]
      <4>1. e.f = m.f /\ e.h = m.h
        BY <3>2
      <4> QED BY <1>6, <1>11, <2>9, <4>1
    <3> QED BY <2>1, <3>1, <3>2
  <2>11. NoFalseDesync'
    BY <2>1 DEF HashInv, NoFalseDesync
  <2> QED BY <1>4, <1>7, <1>8, <2>10, <2>11 DEF HashInv
<1> QED BY <1>9, <1>10, <1>11

\* serviceSync starts the hashes over.
LEMMA ServiceSyncHashes ==
  ASSUME TypeInv, ScriptInv, HashInv, ServiceSync
  PROVE  HashInv'
<1>1. /\ UNCHANGED <<gs, up, desyncs>> /\ field' = 0 /\ myHash' = NoMap /\ peerHash' = {}
  BY DEF ServiceSync
<1>t. script \in Scripts /\ epoch \in Epochs /\ epoch \in Nat
  BY HostTypes
<1>2. Grows(script, script')
  <2> DEFINE e == epoch + 1
  <2>1. e \in Epochs /\ script' = [script EXCEPT ![e] = script'[e]]
    BY ServiceSyncKeeps DEF EpochOpened
  <2>2. script[e] = NoMap
    BY <1>t, <2>1 DEF ScriptInv, ScriptShape
  <2> HIDE DEF e
  <2>3. \A k \in Epochs : k # e => script'[k] = script[k]
    BY <1>t, <2>1 DEF Scripts
  <2> QED BY <2>2, <2>3 DEF Grows, NoMap
<1>3. \A g \in Guests : UpHashes(g)'
  BY <1>1, <1>2, UpHashesKept DEF HashInv, Drained
<1>4. NoGap'
  BY <1>1 DEF HashInv, NoGap, Fields
<1>5. OwnHashes(myHash, field)' /\ Kept(myHash', field')
  BY <1>1 DEF OwnHashes, Kept, NoMap, HashField, Fields
<1>6. PeerHashes' /\ NoFalseDesync'
  BY <1>1 DEF HashInv, PeerHashes, NoFalseDesync
<1> QED BY <1>3, <1>4, <1>5, <1>6 DEF HashInv

\* The hash a guest sends shows the fields it played, which are those that were dealt.
LEMMA GuestFieldHashes ==
  ASSUME TypeInv, TypeInv', ScriptInv, HashInv, NEW g \in Guests, GuestField(g)
  PROVE  HashInv'
<1> DEFINE f == gs[g].field + 1
           hash == [t |-> "h", ep |-> gs[g].epoch, f |-> f,
                    h |-> cpuHash(gs[g].health = "bad", gs[g].played)]
<1>t. /\ gs[g] \in Guest /\ up \in [Guests -> Seq(UpMsg)] /\ up'[g] \in Seq(UpMsg)
      /\ epoch \in Epochs
  BY HostTypes DEF TypeInv, TypeOK
<1>1. /\ UNCHANGED hostVars /\ gs[g].pc = "run" /\ ~gs[g].lost /\ gs[g].synced
      /\ ~gs[g].syncReady /\ gs[g].field < MaxField
  BY DEF GuestField
<1>2. UNCHANGED <<epoch, field, synced, hplayed, myHash, peerHash, desyncs, script>>
  BY <1>1 DEF hostVars, sessVars, tableVars, viewVars, hashVars
<1>3. /\ gs'[g].field = f /\ gs[g].played[gs[g].field] # None /\ gs'[g].played = gs[g].played
      /\ gs'[g].synced = gs[g].synced /\ \A k \in Guests : k # g => gs'[k] = gs[k]
  BY GuestFieldKeeps
<1>4. /\ gs[g].field \in Nat /\ f \in Nat /\ gs[g].epoch \in Epochs /\ f \in Fields
      /\ f + Delay \in Fields /\ gs[g].played \in Map(Frame)
  <2>1. gs[g].field \in Nat /\ gs[g].epoch \in Epochs /\ gs[g].played \in Map(Frame)
    BY <1>t DEF Guest
  <2>2. f \in Fields /\ f + Delay \in Fields
    BY <1>1, <2>1, DelayAssumption, BoundAssumption DEF Fields
  <2> QED BY <2>1, <2>2
<1>5. PlayedTo(gs[g].played, script, gs[g].epoch, f)
  <2>1. GuestFrames(gs[g], script, epoch) /\ GuestPlace(gs[g])
    BY DEF ScriptInv
  <2> SUFFICES ASSUME NEW k \in Fields
               PROVE  IF k < f THEN gs[g].played[k] # None
                                      /\ Follows(gs[g].played[k], script, gs[g].epoch, k)
                      ELSE gs[g].played[k] = None
    BY DEF PlayedTo
  <2>2. k \in Nat
    BY DEF Fields
  <2>3. gs[g].played[k] # None => Follows(gs[g].played[k], script, gs[g].epoch, k)
    BY <1>1, <2>1 DEF GuestFrames
  <2>4. k < gs[g].field => gs[g].played[k] # None
    BY <1>1 DEF HashInv, NoGap
  <2>5. k > gs[g].field => gs[g].played[k] = None
    BY <1>1, <2>1 DEF GuestPlace
  <2> QED BY <1>3, <1>4, <2>2, <2>3, <2>4, <2>5
<1>6. NoGap'
  <2>1. \A k \in Fields : k < f => gs[g].played[k] # None
    BY <1>5 DEF PlayedTo
  <2> QED BY <1>2, <1>3, <2>1 DEF HashInv, NoGap
<1>7. PICK p \in Pads :
        LET pad == [t |-> "in", ep |-> gs[g].epoch, f |-> f + Delay, p |-> p]
        IN SendUp(g, IF f % HashEvery = 0 THEN <<pad, hash>> ELSE <<pad>>)
  BY DEF GuestField
<1> DEFINE pad == [t |-> "in", ep |-> gs[g].epoch, f |-> f + Delay, p |-> p]
           ms == IF f % HashEvery = 0 THEN <<pad, hash>> ELSE <<pad>>
<1>8. /\ up'[g] = up[g] \/ up'[g] = up[g] \o ms
      /\ \A k \in Guests : k # g => up'[k] = up[k]
  BY <1>t, <1>7 DEF SendUp
<1>9. pad \in UpMsg /\ pad.t = "in"
  BY <1>4 DEF UpMsg
<1>10. cpuHash(gs[g].health = "bad", gs[g].played) \in Hash
  BY <1>t, HashType DEF Guest
<1>11. /\ hash \in UpMsg /\ hash.f = f /\ hash.ep = gs[g].epoch
       /\ hash.h = cpuHash(gs[g].health = "bad", gs[g].played)
  BY <1>4, <1>10 DEF UpMsg
<1>12. GoodHash(hash.h, script, hash.ep, hash.f)
  <2> HIDE DEF hash, f
  <2> QED BY <1>5, <1>11, CpuHashGood
<1>13. f % HashEvery = 0 => HashField(hash.f)
  BY <1>4, <1>11 DEF HashField
<1> HIDE DEF pad, hash
<1>14. /\ ms \in Seq(UpMsg)
       /\ \A i \in 1 .. Len(ms) : ms[i] = pad \/ (ms[i] = hash /\ f % HashEvery = 0)
  BY <1>9, <1>11
<1> HIDE DEF ms, f
<1>15. UpHashes(g)'
  <2>0. UpHashes(g) /\ up[g] \in Seq(UpMsg)
    BY <1>t DEF HashInv
  <2>1. CASE up'[g] = up[g]
    BY <1>2, <2>0, <2>1 DEF UpHashes
  <2>2. CASE up'[g] = up[g] \o ms
    <3>1. \A i \in 1 .. Len(up'[g]) :
            \/ i \in 1 .. Len(up[g]) /\ up'[g][i] = up[g][i]
            \/ i - Len(up[g]) \in 1 .. Len(ms) /\ up'[g][i] = ms[i - Len(up[g])]
      BY <1>14, <2>0, <2>2, CatFacts
    <3> SUFFICES ASSUME NEW i \in 1 .. Len(up'[g]), up'[g][i].t = "h"
                 PROVE  /\ HashField(up'[g][i].f)
                        /\ GoodHash(up'[g][i].h, script, up'[g][i].ep, up'[g][i].f)
      BY <1>2 DEF UpHashes
    <3>2. CASE i \in 1 .. Len(up[g]) /\ up'[g][i] = up[g][i]
      BY <2>0, <3>2 DEF UpHashes
    <3>3. CASE up'[g][i] = pad
      BY <1>9, <3>3
    <3>4. CASE up'[g][i] = hash /\ f % HashEvery = 0
      BY <1>12, <1>13, <3>4
    <3> QED BY <1>14, <3>1, <3>2, <3>3, <3>4
  <2> QED BY <1>8, <2>1, <2>2
<1>16. \A k \in Guests : UpHashes(k)'
  BY <1>2, <1>8, <1>15 DEF HashInv, UpHashes
<1>17. PeerHashes' /\ NoFalseDesync' /\ Kept(myHash', field')
  BY <1>2 DEF HashInv, PeerHashes, NoFalseDesync
<1>18. OwnHashes(myHash, field)'
  BY <1>2 DEF HashInv, OwnHashes
<1> QED BY <1>6, <1>16, <1>17, <1>18 DEF HashInv

\* The guest enters an epoch and sends a pad.
LEMMA ApplyEndHashes ==
  ASSUME TypeInv, TypeInv', ScriptInv, HashInv, NEW g \in Guests, ApplyEnd(g)
  PROVE  HashInv'
<1>t. /\ up \in [Guests -> Seq(UpMsg)] /\ up'[g] \in Seq(UpMsg) /\ gs[g] \in Guest
  BY HostTypes DEF TypeInv, TypeOK
<1>2. UNCHANGED <<epoch, field, synced, hplayed, myHash, peerHash, desyncs, script>>
  BY DEF ApplyEnd, hostVars, sessVars, tableVars, viewVars, hashVars
<1>3. gs'[g].field = 0 /\ \A k \in Guests : k # g => gs'[k] = gs[k]
  BY ApplyEndKeeps
<1>4. NoGap'
  BY <1>2, <1>3 DEF HashInv, NoGap, Fields
<1>5. PICK p \in Pads : SendUp(g, <<[t |-> "in", ep |-> gs[g].syncing, f |-> Delay, p |-> p]>>)
  BY DEF ApplyEnd
<1> DEFINE pad == [t |-> "in", ep |-> gs[g].syncing, f |-> Delay, p |-> p]
           ms == <<pad>>
<1>6. /\ up'[g] = up[g] \/ up'[g] = up[g] \o ms
      /\ \A k \in Guests : k # g => up'[k] = up[k]
  BY <1>t, <1>5 DEF SendUp
<1>7. pad \in UpMsg /\ pad.t = "in"
  BY <1>t, Empties DEF UpMsg, Guest
<1> HIDE DEF pad
<1>8. ms \in Seq(UpMsg) /\ \A i \in 1 .. Len(ms) : ms[i] = pad
  BY <1>7
<1> HIDE DEF ms
<1>9. UpHashes(g)'
  <2>0. UpHashes(g) /\ up[g] \in Seq(UpMsg)
    BY <1>t DEF HashInv
  <2>1. CASE up'[g] = up[g]
    BY <1>2, <2>0, <2>1 DEF UpHashes
  <2>2. CASE up'[g] = up[g] \o ms
    <3>1. \A i \in 1 .. Len(up'[g]) :
            \/ i \in 1 .. Len(up[g]) /\ up'[g][i] = up[g][i]
            \/ i - Len(up[g]) \in 1 .. Len(ms) /\ up'[g][i] = ms[i - Len(up[g])]
      BY <1>8, <2>0, <2>2, CatFacts
    <3> QED BY <1>2, <1>7, <1>8, <2>0, <3>1 DEF UpHashes
  <2> QED BY <1>6, <2>1, <2>2
<1>10. \A k \in Guests : UpHashes(k)'
  BY <1>2, <1>6, <1>9 DEF HashInv, UpHashes
<1>11. PeerHashes' /\ NoFalseDesync' /\ Kept(myHash', field')
  BY <1>2 DEF HashInv, PeerHashes, NoFalseDesync
<1>12. OwnHashes(myHash, field)'
  BY <1>2 DEF HashInv, OwnHashes
<1> QED BY <1>4, <1>10, <1>11, <1>12 DEF HashInv

\* A step of the host's that records, compares and sends no hash.
LEMMA HostHashesKept ==
  ASSUME TypeInv, HashInv, Grows(script, script'), synced' => synced,
         \A k \in Fields : hplayed[k] # None => hplayed'[k] # None,
         UNCHANGED <<epoch, field, hashVars, gs>>, \A g \in Guests : Drained(g)
  PROVE  HashInv'
<1>1. UNCHANGED <<epoch, field, myHash, peerHash, desyncs>>
  BY DEF hashVars
<1>2. NoGap'
  BY NoGapKept DEF HashInv
<1> QED BY <1>1, <1>2, HashesKept

\* A step of a guest's that sends nothing: its machine stays, or plays on, or leaves.
LEMMA GuestHashesKept ==
  ASSUME TypeInv, HashInv, UNCHANGED <<hostVars, up>>,
         \A g \in Guests : gs'[g].synced =>
           /\ gs[g].synced /\ gs'[g].field = gs[g].field
           /\ \A k \in Fields : gs[g].played[k] # None => gs'[g].played[k] # None
  PROVE  HashInv'
<1>1. UNCHANGED <<epoch, field, synced, hplayed, script, myHash, peerHash, desyncs>>
  BY DEF hostVars, sessVars, tableVars, viewVars, hashVars
<1>2. NoGap'
  BY <1>1, NoGapKept DEF HashInv
<1>3. Grows(script, script') /\ \A g \in Guests : Drained(g)
  BY <1>1 DEF Grows, Drained
<1> QED BY <1>1, <1>2, <1>3, HashesKept

LEMMA TakeHashes ==
  ASSUME TypeInv, HashInv, NEW g \in Guests, GuestTake(g)
  PROVE  HashInv'
<1> DEFINE f == gs[g].field
           fr == gs[g].ready[f]
<1>1. gs[g] \in Guest /\ DOMAIN gs = Guests
  BY HostTypes
<1>2. /\ gs'[g] = [gs[g] EXCEPT !.pc = "run", !.view = fr.view,
                                !.played = [@ EXCEPT ![f] = fr], !.ready = EraseBelow(@, f)]
      /\ UNCHANGED <<hostVars, up>> /\ \A k \in Guests : k # g => gs'[k] = gs[k]
      /\ fr # None
  BY <1>1 DEF GuestTake, FrameFor, linkVars
<1> HIDE DEF fr
<1>3. /\ gs'[g].field = f /\ gs'[g].synced = gs[g].synced
      /\ gs'[g].played = [gs[g].played EXCEPT ![f] = fr] /\ gs[g].played \in Map(Frame)
  BY <1>1, <1>2 DEF Guest
<1>4. \A k \in Fields : gs[g].played[k] # None => gs'[g].played[k] # None
  BY <1>2, <1>3 DEF Map
<1> QED BY <1>2, <1>3, <1>4, GuestHashesKept

LEMMA HashInit == Init => HashInv
<1> SUFFICES ASSUME Init PROVE HashInv
  OBVIOUS
<1>1. /\ field = 0 /\ myHash = NoMap /\ peerHash = {} /\ desyncs = {} /\ synced = FALSE
      /\ \A g \in Guests : up[g] = <<>> /\ gs[g].field = 0
  BY DEF Init
<1>2. NoGap
  BY <1>1 DEF NoGap, Fields
<1>3. OwnHashes(myHash, field) /\ Kept(myHash, field)
  BY <1>1 DEF OwnHashes, Kept, NoMap, HashField, Fields
<1>4. NoFalseDesync /\ PeerHashes /\ \A g \in Guests : UpHashes(g)
  BY <1>1 DEF NoFalseDesync, PeerHashes, UpHashes
<1> QED BY <1>2, <1>3, <1>4 DEF HashInv

LEMMA HashStep ==
  TypeInv /\ TypeInv' /\ PortInv /\ ScriptInv /\ PaceInv /\ HashInv /\ [Next]_vars => HashInv'
<1> SUFFICES ASSUME TypeInv, TypeInv', PortInv, ScriptInv, PaceInv, HashInv, [Next]_vars
             PROVE  HashInv'
  OBVIOUS
<1>0. Grows(script, script)
  BY DEF Grows
<1>t. up \in [Guests -> Seq(UpMsg)] /\ hplayed \in Map(Frame) /\ gs \in [Guests -> Guest]
  BY HostTypes DEF TypeInv, TypeOK
<1>1. CASE HostField \/ ServiceSync
  BY <1>1, HostFieldHashes, ServiceSyncHashes
<1>2. CASE HostTake
  <2>1. /\ UNCHANGED <<epoch, field, hashVars, gs, synced, script, up>>
        /\ hplayed' = [hplayed EXCEPT ![field] = ready[field]] /\ ready[field] # None
    BY <1>2 DEF HostTake, linkVars
  <2>2. \A k \in Fields : hplayed[k] # None => hplayed'[k] # None
    BY <1>t, <2>1 DEF Map
  <2>3. Grows(script, script') /\ \A g \in Guests : Drained(g)
    BY <1>0, <2>1 DEF Drained
  <2> QED BY <2>1, <2>2, <2>3, HostHashesKept
<1>3. CASE HostTakeReq \/ \E m \in ViewModes : setView(m)
  <2>1. UNCHANGED <<epoch, field, hashVars, gs, synced, script, up, hplayed>>
    BY <1>3 DEF HostTakeReq, setView, sessVars, tableVars, viewVars, linkVars
  <2> QED BY <1>0, <2>1, HostHashesKept DEF Drained
<1>4. CASE HostStop
  <2>1. /\ UNCHANGED <<epoch, field, hashVars, gs, script, hplayed>> /\ synced' = FALSE
        /\ \A g \in Guests : up'[g] = <<>>
    BY <1>4 DEF HostStop, tableVars, viewVars
  <2> QED BY <1>0, <2>1, HostHashesKept DEF Drained
<1>5. CASE HostFlush
  <2>1. UNCHANGED <<epoch, field, hashVars, gs, synced, up, hplayed>>
    BY <1>5 DEF HostFlush, viewVars
  <2>2. Grows(script, script')
    BY <1>5, HostFlushKeeps, DealtGrows
  <2> QED BY <2>1, <2>2, HostHashesKept DEF Drained
<1>6. ASSUME NEW g \in Guests, HostRecvIn(g) PROVE HashInv'
  <2>1. /\ UNCHANGED <<epoch, field, hashVars, gs, synced, hplayed>>
        /\ up[g] # <<>> /\ up' = [up EXCEPT ![g] = Tail(@)]
    BY <1>6 DEF HostRecvIn, sessVars, viewVars, Receives, Pop
  <2>2. \A k \in Guests : Drained(k)
    BY <1>t, <2>1 DEF Drained
  <2>3. Grows(script, script')
    BY <1>6, HostRecvInKeeps, DealtGrows
  <2> QED BY <2>1, <2>2, <2>3, HostHashesKept
<1>7. ASSUME NEW g \in Guests, HostRxEnd(g) PROVE HashInv'
  <2>1. /\ UNCHANGED <<epoch, field, hashVars, gs, synced, hplayed, script>>
        /\ up' = [up EXCEPT ![g] = <<>>]
    BY <1>7 DEF HostRxEnd, tableVars, viewVars
  <2>2. \A k \in Guests : Drained(k)
    BY <1>t, <2>1 DEF Drained
  <2> QED BY <1>0, <2>1, <2>2, HostHashesKept
<1>8. ASSUME NEW g \in Guests, HostRx(g) PROVE HashInv'
  BY <1>6, <1>7, <1>8, HostRecvHashHashes DEF HostRx
<1>9. ASSUME NEW g \in Guests, Admit(g) PROVE HashInv'
  <2>1. UNCHANGED <<epoch, field, hashVars, gs, synced, hplayed, script, up>>
    BY <1>9 DEF Admit, tableVars, viewVars
  <2> QED BY <1>0, <2>1, HostHashesKept DEF Drained
<1>10. ASSUME NEW g \in Guests, Refuse(g) \/ Break(g) PROVE HashInv'
  <2>1. UNCHANGED <<hostVars, gs, up>>
    BY <1>10 DEF Refuse, Break
  <2> QED BY <2>1, GuestHashesKept
<1>11. ASSUME NEW g \in Guests, Still(g) PROVE HashInv'
  <2>1. UNCHANGED up
    BY <1>11 DEF Still, Join, GuestJoin, JoinOk, JoinFail, GuestRx, GuestRecvIn, GuestRecvSync,
                 GuestRxEnd, GuestIdle, GuestGiveUp, ApplyBegin, ApplyFail, ApplySkip, Diverge,
                 linkVars
  <2> QED BY <1>11, <2>1, StillStays, GuestHashesKept
<1>12. ASSUME NEW g \in Guests, GoSolo(g) \/ GuestStop(g) PROVE HashInv'
  <2>1. /\ gs'[g].synced = FALSE /\ UNCHANGED <<hostVars, up>>
        /\ \A k \in Guests : k # g => gs'[k] = gs[k]
    BY <1>12, <1>t DEF GoSolo, GuestStop, Guest, linkVars
  <2> QED BY <2>1, GuestHashesKept
<1>13. ASSUME NEW g \in Guests, GuestField(g) \/ GuestTake(g) \/ ApplyEnd(g) PROVE HashInv'
  BY <1>13, GuestFieldHashes, TakeHashes, ApplyEndHashes
<1>14. CASE UNCHANGED vars
  <2>1. UNCHANGED <<hostVars, gs, up>>
    BY <1>14 DEF vars, linkVars
  <2> QED BY <2>1, GuestHashesKept
<1> QED BY <1>1, <1>2, <1>3, <1>4, <1>5, <1>8, <1>9, <1>10, <1>11, <1>12, <1>13, <1>14
        DEF Next, HostCore, HostUser, GuestCore, Still

\* The alarm is sound, for every number of guests and every distance of the hashes that the
\* window of HashKeep of them covers: afterField and hostRx report a desynchronisation only
\* when a machine diverged, and no hash that waits for the host's is overtaken by the host.
THEOREM AlarmSound == Spec => []DesyncSound
<1>1. TypeInv /\ PortInv /\ ScriptInv /\ PaceInv /\ HashInv
        /\ (TypeInv /\ PortInv /\ ScriptInv /\ PaceInv)' /\ [Next]_vars => HashInv'
  BY HashStep
<1>2. HashInv => DesyncSound
  BY DEF HashInv, PeerHashes, DesyncSound, EveryHashCompared
<1> QED BY <1>1, <1>2, HashInit, PaceKept, PTL DEF Spec
=============================================================================
