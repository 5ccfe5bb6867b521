----------------------------- MODULE NetSession -----------------------------
(***************************************************************************)
(* Opening and closing a netplay session (net/netplay.cpp: host, join,     *)
(* stop and the threads they start and wait for).  What lockstep does      *)
(* between the two is module Netplay's; here a session is its flags, its   *)
(* threads and the two locks, coreMutex and Session::mu, in this order.    *)
(*                                                                         *)
(* A critical section of mu is one step, so mu has no variable; coreMutex  *)
(* is held across sections of mu (serviceSync, the end of stop) and has    *)
(* one.  There is one link: the second one would be like the first.        *)
(***************************************************************************)
EXTENDS Naturals, FiniteSets

CONSTANTS
  Roles,         \* what the user starts: "host", "guest"
  Silent,        \* a connection may stay open and never say "hello"
  Upnp,          \* host() opens the port in the router
  MaxGen         \* bound: values of Session::gen, two to a session

ASSUME GenAssumption == MaxGen \in Nat /\ Silent \in BOOLEAN /\ Upnp \in BOOLEAN
                        /\ Roles \subseteq {"host", "guest"}

VARIABLES
  user,          \* who calls host, join and stop, and where it is in stop
  core,          \* the core loop: in afterField or serviceSync
  coreMutex,     \* its owner
  on, isHost, closing, lost, synced, syncReady, gen,
  up,            \* S.up is not null
  saved,         \* S.savedValid: the pads are the session's, not the user's
  lockstep,      \* g_lockstep
  netSyncReq,
  listening, acc,\* the listening socket and acceptLoop
  link, rx,      \* the connection of the link and its receiving thread
  router, gw,    \* the mapping in the router; S.gw: the session believes it
  tasks,         \* upnpTask threads, by the session that started them
  stray          \* history: clientApplySync touched the pads of a closed session ("late"),
                 \* S.up->send was called with S.up null ("null")

session == <<on, isHost, closing, lost, synced, syncReady, gen, up, saved, lockstep>>
threads == <<listening, acc, link, rx>>
upnp == <<router, gw, tasks>>
sessionVars == <<user, core, coreMutex, session, netSyncReq, threads, upnp, stray>>

SessionTypeOK ==
  /\ user \in {"idle", "acc", "unmap", "rx", "core", "final"}
  /\ core \in {"loop", "enter", "idle", "wait", "apply", "relock", "sync"}
  /\ coreMutex \in {"free", "core", "user"}
  /\ {on, isHost, closing, lost, synced, syncReady, up, saved, lockstep, netSyncReq,
      listening, router} \subseteq BOOLEAN
  /\ stray \in {"no", "late", "null"}
  /\ gen \in 0 .. MaxGen
  /\ acc \in {"none", "accept", "hello", "admit"}
  /\ link \in {"none", "open", "closed"} /\ rx \in {"none", "recv"}
  /\ gw \in BOOLEAN /\ tasks \subseteq [gen : 1 .. MaxGen, st : {"work", "mapped"}]

SessionInit ==
  /\ user = "idle" /\ core = "loop" /\ coreMutex = "free"
  /\ on = FALSE /\ isHost = FALSE /\ closing = FALSE /\ lost = FALSE /\ synced = FALSE
  /\ syncReady = FALSE /\ gen = 0 /\ up = FALSE /\ saved = FALSE /\ lockstep = FALSE
  /\ netSyncReq = FALSE
  /\ listening = FALSE /\ acc = "none" /\ link = "none" /\ rx = "none"
  /\ router = FALSE /\ gw = FALSE /\ tasks = {} /\ stray = "no"

----------------------------------------------------------------------------
(* The user: host, join, stop. *)

\* The session an upnpTask is started for: S.gen after resetSession.
TaskGen == gen + 1

\* host(): resetSession and the accepting thread, with mu taken.
Host ==
  /\ "host" \in Roles /\ user = "idle" /\ ~on /\ gen + 1 < MaxGen
  /\ on' = TRUE /\ isHost' = TRUE /\ gen' = gen + 1
  /\ closing' = FALSE /\ lost' = FALSE /\ synced' = FALSE /\ syncReady' = FALSE
  /\ listening' = TRUE /\ acc' = "accept"
  /\ tasks' = IF Upnp THEN tasks \cup {[gen |-> TaskGen, st |-> "work"]} ELSE tasks
  /\ gw' = FALSE
  /\ UNCHANGED <<user, core, coreMutex, up, saved, lockstep, netSyncReq, link, rx, router, stray>>

\* join(), once the host has said "welcome".
Join ==
  /\ "guest" \in Roles /\ user = "idle" /\ ~on /\ gen + 1 < MaxGen
  /\ on' = TRUE /\ isHost' = FALSE /\ gen' = gen + 1
  /\ closing' = FALSE /\ lost' = FALSE /\ synced' = FALSE /\ syncReady' = FALSE
  /\ up' = TRUE /\ link' = "open" /\ rx' = "recv" /\ gw' = FALSE
  /\ UNCHANGED <<user, core, coreMutex, saved, lockstep, netSyncReq, listening, acc, router, tasks,
                 stray>>

\* stop(): with mu taken, close everything and take the threads and links out ...
KeepListening == listening
StopListening == FALSE
StopBegin ==
  /\ user = "idle" /\ on /\ ~closing
  /\ closing' = TRUE /\ lockstep' = FALSE
  /\ listening' = StopListening
  /\ link' = IF link = "open" THEN "closed" ELSE link
  /\ up' = FALSE
  /\ user' = "acc"
  /\ UNCHANGED <<core, coreMutex, on, isHost, lost, synced, syncReady, gen, saved, netSyncReq, acc,
                 rx, upnp, stray>>

\* ... wait for acceptLoop ...
StopJoinAcc ==
  /\ user = "acc" /\ acc = "none"
  /\ user' = "unmap"
  /\ UNCHANGED <<core, coreMutex, session, netSyncReq, threads, upnp, stray>>

\* ... close the router's port (gw as it was when stop began: upnpTask leaves
\* it alone from then on) ...
StopUnmap ==
  /\ user = "unmap"
  /\ router' = (router /\ ~gw)
  /\ user' = "rx"
  /\ UNCHANGED <<core, coreMutex, session, netSyncReq, threads, gw, tasks, stray>>

\* ... wait for the receiving threads ...
StopJoinRx ==
  /\ user = "rx" /\ rx = "none"
  /\ user' = "core" /\ link' = "none"
  /\ UNCHANGED <<core, coreMutex, session, netSyncReq, listening, acc, rx, upnp, stray>>

\* ... and, with coreMutex and mu, put the pads back and reset the session.
StopLock ==
  /\ user = "core" /\ coreMutex = "free"
  /\ user' = "final" /\ coreMutex' = "user"
  /\ UNCHANGED <<core, session, netSyncReq, threads, upnp, stray>>
StopEnd ==
  /\ user = "final"
  /\ on' = FALSE /\ closing' = FALSE /\ lost' = FALSE /\ synced' = FALSE /\ syncReady' = FALSE
  /\ gen' = gen + 1 /\ gw' = FALSE /\ saved' = FALSE
  /\ user' = "idle" /\ coreMutex' = "free"
  /\ UNCHANGED <<core, isHost, up, lockstep, netSyncReq, threads, router, tasks, stray>>

----------------------------------------------------------------------------
(* The core loop: serviceSync with coreMutex taken, afterField without. *)

\* S.up->send
SendUp == stray' = IF up THEN stray ELSE "null"

CoreTakeReq ==
  /\ core = "loop" /\ netSyncReq /\ coreMutex = "free"
  /\ netSyncReq' = FALSE /\ coreMutex' = "core" /\ core' = "sync"
  /\ UNCHANGED <<user, session, threads, upnp, stray>>

MaySync == on /\ isHost /\ ~closing
CoreSync ==
  /\ core = "sync"
  /\ synced' = (synced \/ MaySync) /\ lockstep' = (lockstep \/ MaySync)
  /\ saved' = (saved \/ MaySync)
  /\ coreMutex' = "free" /\ core' = "loop"
  /\ UNCHANGED <<user, on, isHost, closing, lost, syncReady, gen, up, netSyncReq, threads, upnp,
                 stray>>

\* A field closes under coreMutex, and afterField follows.
CoreField ==
  /\ core = "loop" /\ coreMutex = "free"
  /\ core' = "enter"
  /\ UNCHANGED <<user, coreMutex, session, netSyncReq, threads, upnp, stray>>

\* afterField, up to where it waits; the frame may be there already.
FieldOut == ~on \/ (~lost /\ isHost /\ ~synced)
FieldLost == on /\ lost
FieldSync == on /\ ~lost /\ ~isHost /\ (syncReady \/ ~synced)
FieldPlay == on /\ ~lost /\ synced /\ (isHost \/ ~syncReady)
CoreEnter ==
  /\ core = "enter"
  /\ \/ FieldOut /\ core' = "loop" /\ UNCHANGED <<synced, lockstep, syncReady, stray>>
     \/ /\ FieldLost /\ core' = "loop" /\ synced' = FALSE
        /\ lockstep' = (lockstep /\ ~synced)
        /\ UNCHANGED <<syncReady, stray>>
     \/ /\ FieldSync
        /\ core' = IF syncReady THEN "apply" ELSE IF closing THEN "loop" ELSE "idle"
        /\ syncReady' = FALSE
        /\ UNCHANGED <<synced, lockstep, stray>>
     \/ /\ FieldPlay /\ core' \in (IF closing THEN {"loop"} ELSE {"loop", "wait"})
        /\ IF isHost THEN UNCHANGED stray ELSE SendUp
        /\ UNCHANGED <<synced, lockstep, syncReady>>
  /\ UNCHANGED <<user, coreMutex, on, isHost, closing, lost, gen, up, saved, netSyncReq, threads, upnp>>

\* The waits end: the frame is there ...
CoreFrame ==
  /\ core = "wait" /\ synced
  /\ core' = "loop"
  /\ UNCHANGED <<user, coreMutex, session, netSyncReq, threads, upnp, stray>>

\* ... or a state, or the host is gone, or the session is being closed.  stop()
\* takes `closing' back at its end: a loop that has not got mu by then stays.
CoreWake ==
  /\ core \in {"wait", "idle"} /\ (syncReady \/ lost \/ closing)
  /\ core' = IF syncReady /\ ~isHost THEN "apply" ELSE "loop"
  /\ syncReady' = (syncReady /\ isHost)
  /\ UNCHANGED <<user, coreMutex, on, isHost, closing, lost, synced, gen, up, saved, lockstep,
                 netSyncReq, threads, upnp, stray>>

\* clientApplySync loads the state with coreMutex and without mu ...
CoreApply ==
  /\ core = "apply" /\ coreMutex = "free"
  /\ core' = "relock" /\ saved' = TRUE /\ stray' = IF on THEN stray ELSE "late"
  /\ UNCHANGED <<user, coreMutex, on, isHost, closing, lost, synced, syncReady, gen, up, lockstep,
                 netSyncReq, threads, upnp>>

\* ... and enters the epoch, unless the state could not be loaded or another
\* one is already there.
CoreRelock ==
  /\ core = "relock"
  /\ \/ lost' = TRUE /\ UNCHANGED <<synced, lockstep, stray>>
     \/ syncReady /\ UNCHANGED <<lost, synced, lockstep, stray>>
     \/ ~syncReady /\ synced' = TRUE /\ lockstep' = TRUE /\ SendUp /\ UNCHANGED lost
  /\ core' = "loop"
  /\ UNCHANGED <<user, coreMutex, on, isHost, closing, syncReady, gen, up, saved, netSyncReq,
                 threads, upnp>>

----------------------------------------------------------------------------
(* acceptLoop and admit; the receiving thread of the link. *)

Accept ==
  /\ acc = "accept" /\ listening
  /\ acc' = "hello"
  /\ UNCHANGED <<user, core, coreMutex, session, netSyncReq, listening, link, rx, upnp, stray>>
AcceptEnd ==
  /\ acc = "accept" /\ ~listening
  /\ acc' = "none"
  /\ UNCHANGED <<user, core, coreMutex, session, netSyncReq, listening, link, rx, upnp, stray>>

\* admit waits in recvFrame for the "hello" of whoever connected.
SaysHello ==
  /\ acc = "hello"
  /\ acc' \in {"admit", "accept"}
  /\ UNCHANGED <<user, core, coreMutex, session, netSyncReq, listening, link, rx, upnp, stray>>

AdmissionOpen == ~closing
Admit ==
  /\ acc = "admit"
  /\ \/ ~AdmissionOpen /\ acc' = "none" /\ UNCHANGED <<link, rx, netSyncReq>>
     \/ AdmissionOpen /\ link # "none" /\ acc' = "accept" /\ UNCHANGED <<link, rx, netSyncReq>>
     \/ /\ AdmissionOpen /\ link = "none" /\ acc' = "accept"
        /\ link' = "open" /\ rx' = "recv" /\ netSyncReq' = TRUE
  /\ UNCHANGED <<user, core, coreMutex, session, listening, upnp, stray>>

\* clientRx: the host's state.
RxSync ==
  /\ rx = "recv" /\ link = "open" /\ ~isHost
  /\ syncReady' = TRUE
  /\ UNCHANGED <<user, core, coreMutex, on, isHost, closing, lost, synced, gen, up, saved,
                 lockstep, netSyncReq, threads, upnp, stray>>
\* hostRx, clientRx: the connection is down.
RxEnd ==
  /\ rx = "recv" /\ link = "closed"
  /\ lost' = (lost \/ (~isHost /\ ~closing))
  /\ rx' = "none"
  /\ UNCHANGED <<user, core, coreMutex, on, isHost, closing, synced, syncReady, gen, up, saved,
                 lockstep, netSyncReq, listening, acc, link, upnp, stray>>
LinkBreak ==
  /\ link = "open" /\ link' = "closed"
  /\ UNCHANGED <<user, core, coreMutex, session, netSyncReq, listening, acc, rx, upnp, stray>>

----------------------------------------------------------------------------
(* upnpTask: a thread nobody waits for. *)

UpnpMap(t) ==
  /\ t.st = "work"
  /\ \/ /\ router' = TRUE /\ tasks' = (tasks \ {t}) \cup {[t EXCEPT !.st = "mapped"]}
     \/ UNCHANGED router /\ tasks' = tasks \ {t}        \* no gateway, or it refuses
  /\ UNCHANGED <<user, core, coreMutex, session, netSyncReq, threads, gw, stray>>

\* With mu taken: if the session is another one or is closing, undo it.
OfAnySession(t) == TRUE
OfThisSession(t) == t.gen = gen /\ ~closing /\ on
UpnpDone(t) ==
  /\ t.st = "mapped"
  /\ gw' = (gw \/ OfThisSession(t))
  /\ router' = (router /\ OfThisSession(t))
  /\ tasks' = tasks \ {t}
  /\ UNCHANGED <<user, core, coreMutex, session, netSyncReq, threads, stray>>

----------------------------------------------------------------------------
User == Host \/ Join \/ StopBegin
Stopping == StopJoinAcc \/ StopUnmap \/ StopJoinRx \/ StopLock \/ StopEnd
Core == \/ CoreTakeReq \/ CoreSync \/ CoreField \/ CoreEnter \/ CoreWake \/ CoreApply
        \/ CoreRelock
Accepting == Accept \/ AcceptEnd \/ Admit
Rx == RxSync \/ RxEnd
\* A send through a null S.up ends the program.
SessionNext == /\ stray # "null"
        /\ \/ User \/ Stopping \/ Core \/ CoreFrame \/ Accepting \/ SaysHello \/ Rx \/ LinkBreak
           \/ \E t \in tasks : UpnpMap(t) \/ UpnpDone(t)

SessionSpec == SessionInit /\ [][SessionNext]_sessionVars

----------------------------------------------------------------------------
(* Properties. *)

\* stop() returns: every thread it waits for ends (acceptLoop, hostRx, clientRx)
\* and the lock it needs at the end is let go, unless the program ends first.
StopReturns == user = "acc" ~> user = "idle" \/ stray = "null"

\* A closed session leaves nothing behind: no thread, no open connection, the
\* machine no longer in lockstep and the pads those of the user (stop, admit,
\* serviceSync), unless a guest was loading a state when stop() came.
ClosedIsClosed ==
  ~on => /\ acc = "none" /\ rx = "none" /\ link = "none"
         /\ stray = "no" => ~lockstep /\ ~saved

\* A mapping that a session that has ended asked for does not stay in the router
\* (upnpTask, stop).
NoMappingLeft == ~on /\ tasks = {} => ~router

\* stop() leaves nothing behind, in this program or in the router.
NothingLeft == ClosedIsClosed /\ NoMappingLeft

\* upnpTask undoes what it did itself when the session changes: what the present
\* session was given stays.  Not kept by the code (README, Observations).
MappingStays == gw /\ user = "idle" => router
=============================================================================
