------------------------------ MODULE Netplay ------------------------------
(***************************************************************************)
(* Delay lockstep netplay (net/netplay.cpp).  One host and its guests run  *)
(* the same emulation in a star: a guest sends its pad to the host, the    *)
(* host joins the pads of a video field and deals the complete field to    *)
(* everyone, and a field is applied Delay fields after it was read.  The   *)
(* common starting point of an EPOCH is a state of the host that every     *)
(* machine loads.                                                          *)
(*                                                                         *)
(* One step of the model is one critical section of Session::mu, or what a *)
(* thread does between two of them.  Threads: the core loop of every       *)
(* machine (afterField, serviceSync), one receiving thread per link on the *)
(* host (hostRx) and one on every guest (clientRx), the accepting thread   *)
(* of the host (admit) and the user (setView, stop).                       *)
(***************************************************************************)
EXTENDS Integers, Sequences, FiniteSets

CONSTANTS
  Guests,        \* guest processes; each joins the session at most once
  NSlots,        \* controller ports (4 in the code); port 0 is the host's
  Delay,         \* S.delay, input delay in fields
  HashEvery,     \* kHashEvery, fields between two state hashes
  HashKeep,      \* hashes of its own the host keeps (32 in the code)
  Pads,          \* values a local pad can have
  Neutral,       \* the value-initialised Pad of an absent player
  ViewModes,     \* arguments setView is called with
  Incompatible,  \* guests whose restoreState may reject the host's state
  Divergent,     \* guests whose emulation may diverge once
  Faults,        \* what may happen: "break", "quit", "close", "refuse"
  Leavers,       \* guests that may quit or lose their connection
  None,          \* an absent entry of a map
  MaxField,      \* bound: fields played in one epoch
  MaxEpoch       \* bound: synchronisations

ASSUME SlotsAssumption == NSlots \in Nat \ {0}
ASSUME DelayAssumption == Delay \in Nat \ {0}
ASSUME BoundAssumption == MaxField \in Nat /\ MaxEpoch \in Nat
\* 32 hashes 60 fields apart against a delay of at most 30 (kMaxDelay).
ASSUME HashAssumption == /\ HashEvery \in Nat \ {0} /\ HashKeep \in Nat \ {0}
                         /\ HashEvery * HashKeep > Delay + 1
ASSUME GuestAssumption == Incompatible \cup Divergent \cup Leavers \subseteq Guests
ASSUME ViewAssumption == ViewModes \subseteq {"full", "rows", "cols", "quad", "auto"}
ASSUME NoneAssumption == None \notin Pads \cup {Neutral}

Slots  == 0 .. NSlots - 1
Fields == 0 .. MaxField + Delay
Epochs == 0 .. MaxEpoch
Views  == {"full", "rows", "cols", "quad"}
Frame  == [p : [Slots -> Pads \cup {Neutral}], view : Views]
Opt(S) == S \cup {None}
Map(S) == [Fields -> Opt(S)]
NoMap  == [f \in Fields |-> None]
Empty  == [s \in Slots |-> None]
NoPads == [f \in Fields |-> Empty]

\* An absent entry is no frame and no position of a machine, and no guest is the host.
ASSUME AbsentAssumption ==
  /\ None \notin Frame
  /\ None \notin [Slots -> Pads \cup {Neutral}]
  /\ None \notin [ep : Epochs, f : Fields, in : [Slots -> Pads \cup {Neutral}]]
ASSUME HostAssumption == "host" \notin Guests

VARIABLES
  \* the host's Session
  hpc,           \* its core loop: "run", in afterField's "wait", "sync", "off"
  synced, epoch, field, mask, pendingMask,
  ready, partial, partialView, \* the frames and pads of this epoch, by field
  hostView, gView,             \* view asked for, view in force (g_view)
  myHash, peerHash, netSyncReq,
  desyncs,       \* hashes found different, by whether a machine had diverged
  pend,          \* fields a leaving player's hostRx has yet to complete
  hplayed,       \* frames applied since the epoch began
  script,        \* history: the frames of every epoch as they were dealt
  \* the links: Link::alive and Link::slot on the host, and both streams
  link, lslot, open, up, down,
  \* the guests' Sessions
  gs

sessVars  == <<hpc, synced, epoch, field, mask, pendingMask, pend>>
tableVars == <<ready, partial, partialView, script>>
viewVars  == <<hostView, gView, hplayed>>
hashVars  == <<myHash, peerHash, desyncs>>
hostVars  == <<sessVars, tableVars, viewVars, hashVars, netSyncReq>>
connVars  == <<link, lslot, open>>
linkVars  == <<connVars, up, down>>
vars == <<hostVars, linkVars, gs>>

\* What cpuHash distinguishes: the inputs a machine has run with since the
\* common state, and whether its emulation diverged on its own.
Hash == [bad : BOOLEAN, in : Map([Slots -> Pads \cup {Neutral}])]
cpuHash(b, played) ==
  [bad |-> b,
   in |-> [f \in Fields |-> IF played[f] = None THEN None ELSE played[f].p]]

\* An absent entry of a map is no hash.
ASSUME HashAbsentAssumption == None \notin Hash

UpMsg == [t : {"in"}, ep : Epochs, f : Fields, p : Pads]
           \cup [t : {"h"}, ep : Epochs, f : Fields, h : Hash]
DownMsg == [t : {"welcome"}, slot : Slots]
             \cup [t : {"in"}, ep : Epochs, f : Fields, fr : Frame]
             \cup [t : {"sync"}, ep : Epochs]

\* A guest: its core loop (outside, in join(), running, in one of afterField's
\* two waits, loading a state, stopped), its Session, and its machine.
Guest == [pc : {"out", "joining", "run", "idle", "wait", "apply", "off"},
          synced : BOOLEAN, epoch : Epochs, rxEpoch : Epochs, field : 0 .. MaxField,
          ready : Map(Frame), syncReady : BOOLEAN, syncing : Epochs,
          lost : BOOLEAN, view : Views,
          played : Map(Frame), health : {"good", "bad", "healed"}]

TypeOK ==
  /\ hpc \in {"run", "wait", "sync", "off"}
  /\ synced \in BOOLEAN /\ epoch \in Epochs /\ field \in 0 .. MaxField
  /\ mask \subseteq Slots /\ pendingMask \subseteq Slots /\ pend \subseteq Fields
  /\ ready \in Map(Frame) /\ partial \in [Fields -> [Slots -> Opt(Pads)]]
  /\ partialView \in Map(Views) /\ hostView \in Views /\ gView \in Views
  /\ myHash \in Map(Hash) /\ peerHash \subseteq [slot : Slots, f : Fields, h : Hash]
  /\ netSyncReq \in BOOLEAN /\ desyncs \subseteq BOOLEAN
  /\ hplayed \in Map(Frame) /\ script \in [Epochs -> Map(Frame)]
  /\ link \in [Guests -> {"none", "hello", "alive", "dead"}]
  /\ lslot \in [Guests -> Slots] /\ open \in [Guests -> BOOLEAN]
  /\ up \in [Guests -> Seq(UpMsg)] /\ down \in [Guests -> Seq(DownMsg)]
  /\ gs \in [Guests -> Guest]

Init ==
  /\ hpc = "run" /\ synced = FALSE /\ epoch = 0 /\ field = 0
  /\ mask = {0} /\ pendingMask = {} /\ pend = {}
  /\ ready = NoMap /\ partial = NoPads /\ partialView = NoMap
  /\ hostView = "full" /\ gView = "full"
  /\ myHash = NoMap /\ peerHash = {} /\ netSyncReq = FALSE /\ desyncs = {}
  /\ hplayed = NoMap /\ script = [e \in Epochs |-> NoMap]
  /\ link = [g \in Guests |-> "none"] /\ lslot = [g \in Guests |-> 0]
  /\ open = [g \in Guests |-> FALSE]
  /\ up = [g \in Guests |-> <<>>] /\ down = [g \in Guests |-> <<>>]
  /\ gs = [g \in Guests |->
             [pc |-> "out", synced |-> FALSE, epoch |-> 0, rxEpoch |-> 0, field |-> 0,
              ready |-> NoMap, syncReady |-> FALSE, syncing |-> 0, lost |-> FALSE,
              view |-> "full", played |-> NoMap, health |-> "good"]]

----------------------------------------------------------------------------
(* Helpers. *)

HostOn == hpc # "off"
Alive == {g \in Guests : link[g] = "alive"}

\* hostRx completes the fields a leaving player was holding one by one with
\* mu taken: until that loop is over nobody else has the mutex.
MuFree == pend = {}

\* Link::send.  What is sent on a connection that is already down is lost.
SendUp(g, ms) == up' = IF open[g] THEN [up EXCEPT ![g] = @ \o ms] ELSE up
Broadcast(dn, m) ==
  [g \in Guests |-> IF g \in Alive /\ open[g] THEN Append(dn[g], m) ELSE dn[g]]
Receives(g, stream, t) == stream[g] # <<>> /\ Head(stream[g]).t = t
Pop(stream, g) == [stream EXCEPT ![g] = Tail(@)]

\* S.ready.erase(begin, find(f)): what came before field f is not needed any more.
EraseBelow(map, f) == [k \in Fields |-> IF k < f THEN None ELSE map[k]]

\* The frames the first Delay fields run with: no pads, the view as it is.
viewFrame(v) == [p |-> [s \in Slots |-> Neutral], view |-> v]
PrefillOneMore(v) == [f \in Fields |-> IF f <= Delay THEN viewFrame(v) ELSE None]
Prefill(v) == [f \in Fields |-> IF f < Delay THEN viewFrame(v) ELSE None]

\* Every port in the game has sent its pad of field f.
Complete(part, m, f) == part[f] # Empty /\ \A s \in m : part[f][s] # None

FrameOfRaw(part, pv, f) ==
  [p |-> part[f], view |-> IF pv[f] = None THEN "full" ELSE pv[f]]
FrameOf(part, pv, f) ==
  [p |-> [s \in Slots |-> IF part[f][s] = None THEN Neutral ELSE part[f][s]],
   view |-> IF pv[f] = None THEN "full" ELSE pv[f]]

\* tryComplete(f): a complete field is published and dealt to every live link.
TryComplete(rd, part, pv, dn, scr, ep, m, f) ==
  LET fr == FrameOf(part, pv, f)
  IN IF Complete(part, m, f)
     THEN /\ partial' = [part EXCEPT ![f] = Empty]
          /\ partialView' = [pv EXCEPT ![f] = None]
          /\ ready' = [rd EXCEPT ![f] = fr]
          /\ down' = Broadcast(dn, [t |-> "in", ep |-> ep, f |-> f, fr |-> fr])
          /\ script' = [scr EXCEPT ![ep][f] = fr]
     ELSE /\ partial' = part /\ partialView' = pv /\ ready' = rd
          /\ down' = dn /\ script' = scr

\* A pad that is late or repeated is ignored.
Stale(rd, fld, f) == f < fld \/ rd[f] # None

\* submit(s, f, p)
Submit(rd, part, pv, dn, scr, ep, m, fld, s, f, p) ==
  IF Stale(rd, fld, f)
  THEN /\ partial' = part /\ partialView' = pv /\ ready' = rd
       /\ down' = dn /\ script' = scr
  ELSE TryComplete(rd, [part EXCEPT ![f][s] = p], pv, dn, scr, ep, m, f)

\* hostSubmit(f, p): the view asked for travels with the host's own pad.
HostSubmit(rd, part, pv, dn, scr, ep, m, fld, f, p) ==
  Submit(rd, part, [pv EXCEPT ![f] = hostView], dn, scr, ep, m, fld, 0, f, p)

\* The host keeps its last HashKeep hashes.
KeepHashes(mh, n) ==
  LET have == {f \in Fields : mh[f] # None}
  IN IF Cardinality(have) > n
     THEN [mh EXCEPT ![CHOOSE f \in have : \A k \in have : f <= k] = None]
     ELSE mh
PruneHash(mh) == KeepHashes(mh, HashKeep)

\* compareHash, for each of the received hashes hs.
CompareWithoutRequest(hs, mine) ==
  /\ desyncs' = desyncs \cup {h.bad : h \in {h \in hs : h # mine}}
  /\ UNCHANGED netSyncReq
CompareHash(hs, mine) ==
  LET wrong == {h \in hs : h # mine}
  IN /\ desyncs' = desyncs \cup {h.bad : h \in wrong}
     /\ netSyncReq' = (netSyncReq \/ wrong # {})

----------------------------------------------------------------------------
(* Host, core loop. *)

\* Record the hash of field f and settle the hashes guests sent ahead of us.
HostHash(f) ==
  IF f % HashEvery # 0
  THEN UNCHANGED <<hashVars, netSyncReq>>
  ELSE LET mine == cpuHash(FALSE, hplayed)
       IN /\ myHash' = PruneHash([myHash EXCEPT ![f] = mine])
          /\ CompareHash({e.h : e \in {e \in peerHash : e.f = f}}, mine)
          /\ peerHash' = {e \in peerHash : e.f > f}

\* afterField: the field closes, the local pad goes into field + Delay.
HostField ==
  /\ hpc = "run" /\ synced /\ MuFree /\ field < MaxField
  /\ field' = field + 1
  /\ \E p \in Pads : HostSubmit(ready, partial, partialView, down, script, epoch,
                                mask, field + 1, field + 1 + Delay, p)
  /\ HostHash(field + 1)
  /\ hpc' = "wait"
  /\ UNCHANGED <<synced, epoch, mask, pendingMask, pend, viewVars, connVars, up, gs>>

\* The wait ends: the frame of the field is there, apply it.
HostTake ==
  /\ hpc = "wait" /\ MuFree /\ ready[field] # None
  /\ hplayed' = [hplayed EXCEPT ![field] = ready[field]]
  /\ gView' = ready[field].view
  /\ ready' = EraseBelow(ready, field)
  /\ hpc' = "run"
  /\ UNCHANGED <<synced, epoch, field, mask, pendingMask, pend, partial, partialView,
                 script, hostView, hashVars, netSyncReq, linkVars, gs>>

\* serviceStateReq takes the request once the RCP is at rest ...
HostTakeReq ==
  /\ hpc = "run" /\ netSyncReq /\ epoch < MaxEpoch
  /\ netSyncReq' = FALSE /\ hpc' = "sync"
  /\ UNCHANGED <<synced, epoch, field, mask, pendingMask, pend, tableVars, viewVars,
                 hashVars, linkVars, gs>>

\* ... and serviceSync opens the next epoch with a state everybody loads.
InGame == {0} \cup {lslot[g] : g \in Alive}
NextMask == {s \in mask \cup pendingMask \cup {0} : s \in InGame}
NextEpoch == epoch + 1
ServiceSync ==
  /\ hpc = "sync" /\ MuFree
  /\ mask' = NextMask /\ pendingMask' = {}
  /\ epoch' = NextEpoch /\ field' = 0 /\ synced' = TRUE
  /\ myHash' = NoMap /\ peerHash' = {}
  /\ hplayed' = [NoMap EXCEPT ![0] = viewFrame(gView)]
  /\ \E p \in Pads :
       HostSubmit(Prefill(gView), NoPads, NoMap,
                  Broadcast(down, [t |-> "sync", ep |-> NextEpoch]),
                  [script EXCEPT ![NextEpoch] = Prefill(gView)],
                  NextEpoch, NextMask, 0, Delay, p)
  /\ hpc' = "run"
  /\ UNCHANGED <<hostView, gView, netSyncReq, desyncs, pend, connVars, up, gs>>

----------------------------------------------------------------------------
(* Host, receiving threads (hostRx) and accepting thread (admit). *)

AnyEpoch(m) == TRUE
OfThisEpoch(m) == m.ep = epoch

HostRecvIn(g) ==
  /\ g \in Alive /\ MuFree /\ Receives(g, up, "in")
  /\ up' = Pop(up, g)
  /\ LET m == Head(up[g])
     IN IF OfThisEpoch(m) /\ synced
        THEN Submit(ready, partial, partialView, down, script, epoch, mask, field,
                    lslot[g], m.f, m.p)
        ELSE UNCHANGED <<tableVars, down>>
  /\ UNCHANGED <<sessVars, viewVars, hashVars, netSyncReq, connVars, gs>>

HostRecvHash(g) ==
  /\ g \in Alive /\ MuFree /\ Receives(g, up, "h")
  /\ up' = Pop(up, g)
  /\ LET m == Head(up[g])
     IN \/ ~OfThisEpoch(m) /\ UNCHANGED <<peerHash, netSyncReq, desyncs>>
        \/ /\ OfThisEpoch(m) /\ myHash[m.f] # None
           /\ CompareHash({m.h}, myHash[m.f])
           /\ UNCHANGED peerHash
        \/ /\ OfThisEpoch(m) /\ myHash[m.f] = None
           /\ peerHash' = peerHash \cup {[slot |-> lslot[g], f |-> m.f, h |-> m.h]}
           /\ UNCHANGED <<netSyncReq, desyncs>>
  /\ UNCHANGED <<sessVars, tableVars, viewVars, myHash, connVars, down, gs>>

\* hostRx leaves its loop ("bye" or a dead connection, with whatever was still
\* in flight): the port stays plugged in but nobody waits for it any more.
DropSlot(m, s) == m \ {s}
HeldFields(g) == IF lslot[g] \in mask THEN {f \in Fields : partial[f] # Empty} ELSE {}
HostRxEnd(g) ==
  /\ g \in Alive /\ MuFree /\ ~open[g]
  /\ link' = [link EXCEPT ![g] = "dead"]
  /\ up' = [up EXCEPT ![g] = <<>>]
  /\ pendingMask' = DropSlot(pendingMask, lslot[g])
  /\ mask' = DropSlot(mask, lslot[g])
  /\ pend' = HeldFields(g)
  /\ UNCHANGED <<hpc, synced, epoch, field, tableVars, viewVars, hashVars, netSyncReq,
                 lslot, open, down, gs>>

\* for(u64 f : pend) tryComplete(f): pend is in ascending order.
HostFlush ==
  /\ \E f \in pend :
       /\ \A k \in pend : f <= k
       /\ TryComplete(ready, partial, partialView, down, script, epoch, mask, f)
       /\ pend' = pend \ {f}
  /\ UNCHANGED <<hpc, synced, epoch, field, mask, pendingMask, viewVars, hashVars,
                 netSyncReq, connVars, up, gs>>

\* The lowest port that is not in the game, about to be, or of a live link.
SlotsNotPlaying == Slots \ mask
FreeSlots == Slots \ (mask \cup pendingMask \cup InGame)
Admit(g) ==
  /\ HostOn /\ MuFree /\ link[g] = "hello"
  /\ \E s \in FreeSlots :
       /\ \A k \in FreeSlots : s <= k
       /\ lslot' = [lslot EXCEPT ![g] = s]
       /\ pendingMask' = pendingMask \cup {s}
       /\ down' = [down EXCEPT ![g] = Append(@, [t |-> "welcome", slot |-> s])]
  /\ link' = [link EXCEPT ![g] = "alive"]
  /\ netSyncReq' = TRUE
  /\ UNCHANGED <<hpc, synced, epoch, field, mask, pend, tableVars, viewVars, hashVars,
                 open, up, gs>>

\* "reject" (another version or ROM, or no port free): the connection is dropped.
Refuse(g) ==
  /\ "refuse" \in Faults /\ HostOn /\ link[g] = "hello"
  /\ link' = [link EXCEPT ![g] = "dead"] /\ open' = [open EXCEPT ![g] = FALSE]
  /\ UNCHANGED <<hostVars, lslot, up, down, gs>>

----------------------------------------------------------------------------
(* Host, user. *)

setView(mode) ==
  /\ HostOn /\ MuFree
  /\ hostView' = IF mode = "auto"
                 THEN (IF Cardinality(mask) > 2 THEN "quad" ELSE "rows")
                 ELSE mode
  /\ UNCHANGED <<sessVars, tableVars, gView, hplayed, hashVars, netSyncReq, linkVars, gs>>

\* stop(): every link is told "bye" and closed, the core loop leaves its wait.
HostStop ==
  /\ "close" \in Faults /\ HostOn /\ MuFree
  /\ hpc' = "off" /\ synced' = FALSE
  /\ open' = [g \in Guests |-> FALSE] /\ up' = [g \in Guests |-> <<>>]
  /\ link' = [g \in Guests |-> IF link[g] = "none" THEN "none" ELSE "dead"]
  /\ UNCHANGED <<epoch, field, mask, pendingMask, pend, tableVars, viewVars, hashVars,
                 netSyncReq, lslot, down, gs>>

----------------------------------------------------------------------------
(* Guest, joining. *)

\* join(): connect and send "hello" ...
Join(g) ==
  /\ HostOn /\ gs[g].pc = "out"
  /\ gs' = [gs EXCEPT ![g].pc = "joining"]
  /\ link' = [link EXCEPT ![g] = "hello"] /\ open' = [open EXCEPT ![g] = TRUE]
  /\ UNCHANGED <<hostVars, lslot, up, down>>

\* ... and wait for the answer.
JoinOk(g) ==
  /\ gs[g].pc = "joining" /\ Receives(g, down, "welcome")
  /\ gs' = [gs EXCEPT ![g].pc = "run"]
  /\ down' = Pop(down, g)
  /\ UNCHANGED <<hostVars, connVars, up>>

JoinFail(g) ==
  /\ gs[g].pc = "joining" /\ ~open[g]
  /\ gs' = [gs EXCEPT ![g].pc = "off"]
  /\ UNCHANGED <<hostVars, linkVars>>

----------------------------------------------------------------------------
(* Guest, receiving thread (clientRx). *)

InSession(g) == gs[g].pc \in {"run", "idle", "wait", "apply"}

GuestRecvIn(g) ==
  /\ InSession(g) /\ Receives(g, down, "in")
  /\ LET m == Head(down[g])
     IN gs' = IF m.ep = gs[g].rxEpoch THEN [gs EXCEPT ![g].ready[m.f] = m.fr] ELSE gs
  /\ down' = Pop(down, g)
  /\ UNCHANGED <<hostVars, connVars, up>>

GuestRecvSyncKeep(g) ==
  /\ InSession(g) /\ Receives(g, down, "sync")
  /\ gs' = [gs EXCEPT ![g].rxEpoch = Head(down[g]).ep, ![g].syncReady = TRUE]
  /\ down' = Pop(down, g)
  /\ UNCHANGED <<hostVars, connVars, up>>
GuestRecvSync(g) ==
  /\ InSession(g) /\ Receives(g, down, "sync")
  /\ gs' = [gs EXCEPT ![g].rxEpoch = Head(down[g]).ep, ![g].syncReady = TRUE,
                      ![g].ready = NoMap]
  /\ down' = Pop(down, g)
  /\ UNCHANGED <<hostVars, connVars, up>>

GuestRxEnd(g) ==
  /\ InSession(g) /\ ~open[g] /\ (~gs[g].lost \/ down[g] # <<>>)
  /\ gs' = [gs EXCEPT ![g].lost = TRUE]
  /\ down' = [down EXCEPT ![g] = <<>>]
  /\ UNCHANGED <<hostVars, connVars, up>>

----------------------------------------------------------------------------
(* Guest, core loop (afterField, clientApplySync). *)

\* A guest without a host goes on playing alone.
GoSolo(g) ==
  /\ gs[g].pc = "run" /\ gs[g].lost /\ gs[g].synced
  /\ gs' = [gs EXCEPT ![g].synced = FALSE]
  /\ UNCHANGED <<hostVars, linkVars>>

\* Nothing to play until the host's state arrives.
GuestIdle(g) ==
  /\ gs[g].pc = "run" /\ ~gs[g].lost /\ ~gs[g].synced /\ ~gs[g].syncReady
  /\ gs' = [gs EXCEPT ![g].pc = "idle"]
  /\ UNCHANGED <<hostVars, linkVars>>

\* The field closes: its pad is sent, and its hash every HashEvery fields.
GuestField(g) ==
  /\ gs[g].pc = "run" /\ ~gs[g].lost /\ gs[g].synced /\ ~gs[g].syncReady
  /\ gs[g].field < MaxField
  /\ gs' = [gs EXCEPT ![g].field = @ + 1, ![g].pc = "wait"]
  /\ LET f == gs[g].field + 1
         in(p) == [t |-> "in", ep |-> gs[g].epoch, f |-> f + Delay, p |-> p]
         hash == [t |-> "h", ep |-> gs[g].epoch, f |-> f,
                  h |-> cpuHash(gs[g].health = "bad", gs[g].played)]
     IN \E p \in Pads :
          SendUp(g, IF f % HashEvery = 0 THEN <<in(p), hash>> ELSE <<in(p)>>)
  /\ UNCHANGED <<hostVars, connVars, down>>

OldestFrame(rd, f) ==
  IF rd = NoMap THEN None
  ELSE rd[CHOOSE k \in Fields : rd[k] # None /\ \A j \in Fields : j < k => rd[j] = None]
FrameFor(rd, f) == rd[f]
GuestTake(g) ==
  /\ gs[g].pc = "wait" /\ ~gs[g].syncReady
  /\ LET f == gs[g].field
         fr == FrameFor(gs[g].ready, f)
     IN /\ fr # None
        /\ gs' = [gs EXCEPT ![g].pc = "run", ![g].view = fr.view,
                            ![g].played = [@ EXCEPT ![f] = fr],
                            ![g].ready = EraseBelow(@, f)]
  /\ UNCHANGED <<hostVars, linkVars>>

\* Both waits end without a frame when the host is gone.
GuestGiveUp(g) ==
  /\ gs[g].lost /\ ~gs[g].syncReady
  /\ \/ gs[g].pc = "idle"
     \/ gs[g].pc = "wait" /\ gs[g].ready[gs[g].field] = None
  /\ gs' = [gs EXCEPT ![g].pc = "run"]
  /\ UNCHANGED <<hostVars, linkVars>>

\* clientApplySync takes the state and lets go of mu to load it ...
ApplyBegin(g) ==
  /\ gs[g].syncReady
  /\ gs[g].pc \in {"idle", "wait"} \/ (gs[g].pc = "run" /\ ~gs[g].lost)
  /\ gs' = [gs EXCEPT ![g].pc = "apply", ![g].syncing = gs[g].rxEpoch,
                      ![g].syncReady = FALSE]
  /\ UNCHANGED <<hostVars, linkVars>>

\* ... the load fails ...
ApplyFail(g) ==
  /\ gs[g].pc = "apply" /\ g \in Incompatible
  /\ gs' = [gs EXCEPT ![g].pc = "run", ![g].lost = TRUE]
  /\ UNCHANGED <<hostVars, linkVars>>

Healed(h) == IF h = "bad" THEN "healed" ELSE h

\* ... or another state arrived meanwhile, and that one counts ...
ApplySkip(g) ==
  /\ gs[g].pc = "apply" /\ gs[g].syncReady
  /\ gs' = [gs EXCEPT ![g].pc = "run", ![g].health = Healed(@)]
  /\ UNCHANGED <<hostVars, linkVars>>

\* ... or the guest enters the epoch and sends the pad of its first field.
\* emplace does not overwrite what clientRx stored while mu was free.
ApplyEnd(g) ==
  /\ gs[g].pc = "apply" /\ ~gs[g].syncReady
  /\ LET rd == [f \in Fields |-> IF gs[g].ready[f] # None THEN gs[g].ready[f]
                                 ELSE Prefill(gs[g].view)[f]]
     IN gs' = [gs EXCEPT ![g].pc = "run", ![g].health = Healed(@),
                         ![g].epoch = gs[g].syncing, ![g].field = 0,
                         ![g].synced = TRUE, ![g].ready = rd, ![g].view = rd[0].view,
                         ![g].played = [NoMap EXCEPT ![0] = rd[0]]]
  /\ \E p \in Pads :
       SendUp(g, <<[t |-> "in", ep |-> gs[g].syncing, f |-> Delay, p |-> p]>>)
  /\ UNCHANGED <<hostVars, connVars, down>>

----------------------------------------------------------------------------
(* Guest, user; and the environment. *)

\* stop() on a guest: "bye" and close.
GuestStop(g) ==
  /\ "quit" \in Faults /\ g \in Leavers /\ gs[g].pc \in {"run", "idle", "wait"}
  /\ gs' = [gs EXCEPT ![g].pc = "off", ![g].synced = FALSE]
  /\ open' = [open EXCEPT ![g] = FALSE] /\ down' = [down EXCEPT ![g] = <<>>]
  /\ UNCHANGED <<hostVars, link, lslot, up>>

\* The connection breaks.
Break(g) ==
  /\ "break" \in Faults /\ g \in Leavers /\ link[g] = "alive" /\ open[g]
  /\ open' = [open EXCEPT ![g] = FALSE]
  /\ UNCHANGED <<hostVars, link, lslot, up, down, gs>>

\* The guest's emulation does something the host's did not.
Diverge(g) ==
  /\ g \in Divergent /\ gs[g].pc = "run" /\ gs[g].synced /\ ~gs[g].lost
  /\ gs[g].health = "good"
  /\ gs' = [gs EXCEPT ![g].health = "bad"]
  /\ UNCHANGED <<hostVars, linkVars>>

----------------------------------------------------------------------------
HostCore == HostField \/ HostTake \/ HostTakeReq \/ ServiceSync
HostRx(g) == HostRecvIn(g) \/ HostRecvHash(g) \/ HostRxEnd(g)
HostUser == HostStop \/ \E m \in ViewModes : setView(m)
GuestJoin(g) == JoinOk(g) \/ JoinFail(g)
GuestRx(g) == GuestRecvIn(g) \/ GuestRecvSync(g) \/ GuestRxEnd(g)
GuestCore(g) == \/ GoSolo(g) \/ GuestIdle(g) \/ GuestField(g) \/ GuestTake(g)
                \/ GuestGiveUp(g) \/ ApplyBegin(g) \/ ApplyFail(g) \/ ApplySkip(g)
                \/ ApplyEnd(g)

Next ==
  \/ HostCore \/ HostFlush \/ HostUser
  \/ \E g \in Guests : \/ HostRx(g) \/ Admit(g) \/ Refuse(g)
                       \/ Join(g) \/ GuestJoin(g) \/ GuestRx(g) \/ GuestCore(g)
                       \/ GuestStop(g) \/ Break(g) \/ Diverge(g)

Spec == Init /\ [][Next]_vars

\* Threads that keep running: the core loops (nobody pauses them), the
\* receiving threads, an accept that answers.  A pending synchronisation is
\* served even if fields keep closing: serviceStateReq counts the slices it has
\* waited for the RCP to rest and stops waiting at kRestWaitMax.
Fairness ==
  /\ WF_vars(HostField) /\ WF_vars(HostTake) /\ SF_vars(HostTakeReq)
  /\ WF_vars(ServiceSync) /\ WF_vars(HostFlush)
  /\ \A g \in Guests :
       /\ SF_vars(HostRx(g)) /\ SF_vars(Admit(g) \/ Refuse(g)) /\ WF_vars(GuestJoin(g))
       /\ WF_vars(GuestRx(g)) /\ WF_vars(GuestCore(g))
FairSpec == Spec /\ Fairness
----------------------------------------------------------------------------
(* Properties. *)

\* The machines that are running in lockstep.
Running == (IF synced THEN {[ep |-> epoch, played |-> hplayed]} ELSE {})
             \cup {[ep |-> gs[g].epoch, played |-> gs[g].played] :
                     g \in {g \in Guests : gs[g].synced}}

\* Two machines of the same epoch never run a field with different pads
\* (tryComplete, submit, clientRx, clientApplySync): the point of lockstep.
InputAgreement ==
  \A a, b \in Running : a.ep = b.ep =>
    \A f \in Fields : a.played[f] # None /\ b.played[f] # None =>
      a.played[f].p = b.played[f].p

\* From the first field that carries the host's view on, machines of the same
\* epoch change view in the same field (partialView, setCur).
ViewAgreement ==
  \A a, b \in Running : a.ep = b.ep =>
    \A f \in Delay .. MaxField : a.played[f] # None /\ b.played[f] # None =>
      a.played[f].view = b.played[f].view

\* netplay.hpp says all machines change view in the same field; the frames of
\* the first Delay fields are made by each machine from its own view.  Not kept by
\* the code (README, Observations).
ViewAlwaysAgrees ==
  \A a, b \in Running : a.ep = b.ep =>
    \A f \in Fields : a.played[f] # None /\ b.played[f] # None =>
      a.played[f].view = b.played[f].view

\* No machine of the game gets more than Delay + 1 fields ahead of another:
\* the margin kHashEvery, the hash window and the maps are sized by (afterField).
LeadBound ==
  \A g \in Alive : synced /\ gs[g].synced /\ gs[g].epoch = epoch /\ lslot[g] \in mask =>
    /\ field - gs[g].field <= Delay + 1
    /\ gs[g].field - field <= Delay + 1

\* What a field of lockstep promises, the change of view included: the same pads and the same view
\* on every machine, and no machine so far ahead that the windows of pads and hashes miss it.
FieldsAgree == InputAgreement /\ ViewAgreement /\ LeadBound

\* compareHash reports a desynchronisation only if some machine really diverged.
NoFalseDesync == FALSE \notin desyncs

\* A hash that waits for the host's is still ahead of the host: afterField never
\* drops one by `f < field', and the 32 kept hashes are enough.
EveryHashCompared == \A e \in peerHash : e.f > field

\* The alarm is sound: none without a divergence, and no hash is dropped before it was compared.
DesyncSound == NoFalseDesync /\ EveryHashCompared

\* Two live players never share a port, and none has the host's (admit).
OnePlayerPerPort ==
  \A g \in Alive : lslot[g] # 0 /\ \A k \in Alive \ {g} : lslot[k] # lslot[g]

\* The host waits only for players whose link is alive (hostRx, serviceSync).
OnlyLiveAwaited == HostOn => 0 \in mask /\ mask \cup pendingMask \subseteq InGame

\* Ports and players match: the host deals each port to one player and waits for no other.
PortsSound == OnePlayerPerPort /\ OnlyLiveAwaited

\* A field that everybody in the game has sent is published at once: a player
\* that leaves or a pad that arrives never leaves a complete field unpublished.
NothingWithheld == HostOn /\ MuFree => \A f \in Fields : ~Complete(partial, mask, f)

\* The abstract specification, seen through the frames each machine applied.
PadsOf(frames) ==
  [f \in Fields |-> IF frames[f] = None THEN None ELSE frames[f].p]
Position(on, ep, f, played) ==
  LET n == IF played[f] = None THEN f - 1 ELSE f
  IN IF on THEN [ep |-> ep, f |-> n, in |-> PadsOf(played)[n]] ELSE None
Machines == {"host"} \cup Guests
PositionOf(m) ==
  IF m = "host" THEN Position(synced, epoch, field, hplayed)
  ELSE Position(gs[m].synced, gs[m].epoch, gs[m].field, gs[m].played)
LS == INSTANCE Lockstep WITH
        Host <- "host", Inputs <- [Slots -> Pads \cup {Neutral}],
        LastEpoch <- MaxEpoch, LastField <- MaxField + Delay,
        current <- epoch, script <- [e \in Epochs |-> PadsOf(script[e])],
        at <- [m \in Machines |-> PositionOf(m)]

\* Netplay implements Lockstep: every machine plays the one script of its epoch
\* in order, whatever the links, the joins and the departures do.
ImplementsLockstep == LS!Spec

\* The host's only wait ends: it gets the pads of the field or the player leaves.
HostWaitEnds == hpc = "wait" ~> hpc # "wait"

\* Who is admitted plays in lockstep, or its link goes down.
JoinersEnter ==
  \A g \in Guests : link[g] = "alive" ~> gs[g].synced \/ ~open[g]

\* A machine that diverges with fields left to play is brought back.
DivergenceHealed ==
  \A g \in Guests : gs[g].health = "bad" /\ gs[g].field + HashEvery <= MaxField
                      ~> gs[g].health # "bad" \/ ~open[g]

\* Nobody is left waiting: a complete field is published, the host's wait ends, whoever is admitted
\* plays and whoever diverged is brought back, through faults of the link and departures.
NobodyStuck == []NothingWithheld /\ HostWaitEnds /\ JoinersEnter /\ DivergenceHealed
=============================================================================
