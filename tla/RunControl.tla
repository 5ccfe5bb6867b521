----------------------------- MODULE RunControl -----------------------------
(***************************************************************************)
(* Who may move the machine, and when (core/system.cpp, telemetry/server,  *)
(* the keys of video/present.cpp).  The core loop runs slices of CPU while *)
(* nothing holds it; telemetry clients, each on a thread of its own, and   *)
(* the window leave it requests in shared atomics: the pause flag, the     *)
(* fields of a frame advance, the mailboxes of saved states and rewinds.   *)
(*                                                                         *)
(* What runs under coreMutex is one step.  A step of the core loop is one  *)
(* of those sections or one read of the shared atomics between them.       *)
(***************************************************************************)
EXTENDS Integers, Sequences

CONSTANTS
  Clients,       \* telemetry connections, one request each
  Uses,          \* commands the clients send
  Keys,          \* keys the player presses: "save", "load", "rewind", "step", "pause"
  Events,        \* what else may happen: "halt", "badwrite", "slow", "net", "live"
  Slots,         \* state files
  Ask,           \* fields of a frame.advance, steps of a rewind.step
  Inputs,        \* what tells one field's play from another's
  Addrs,         \* addresses of breakpoints
  Torn,          \* a machine overwritten by half a state
  Wrap,          \* stepFields is a u32: arithmetic modulo Wrap (2^32)
  RestWaitMax,   \* kRestWaitMax, slices a request waits for the RCP to rest
  MaxLen,        \* bound: fields the history of a machine tells apart
  MaxSteps,      \* bound: fields the player's key asks for before they are run
  None,
  Interval,      \* fields between two photos of the rewind (KESTREL_REWIND_FIELDS)
  Budget,        \* photos its tape holds (KESTREL_REWIND_MB)
  NoPhoto        \* there is no live photo: primed = false

ASSUME AskAssumption == MaxSteps \in Nat /\ MaxSteps + 1 < Wrap
                        /\ Addrs \subseteq Nat \ {0} /\ Ask \subseteq 1 .. MaxSteps
ASSUME RestAssumption == RestWaitMax \in Nat \ {0} /\ Wrap \in Nat \ {0}
ASSUME TapeAssumption == /\ Interval \in Nat \ {0} /\ Budget \in Nat
                         /\ NoPhoto \notin Seq(Inputs) /\ Torn \notin Inputs

\* A machine is known by what it has played since it was switched on.
Machine == UNION {[1 .. n -> Inputs \cup {Torn}] : n \in 0 .. MaxLen}
Opt(S) == S \cup {None}

----------------------------------------------------------------------------
(* The rewind engine (core/rewind.cpp): one live photo of the machine and, *)
(* behind it, the older photos, each kept as the difference that rebuilds  *)
(* it from the next.  The differences themselves are RewindCodec's: here a *)
(* tape is the sequence of the photos they stand for, the newest last.     *)

\* deltas, cur (with primed) and sinceLast.
Tape(P) == [old : Seq(P), cur : P \cup {NoPhoto}, since : 0 .. Interval]

\* Engine::clear
Clear == [old |-> <<>>, cur |-> NoPhoto, since |-> 0]

\* Engine::push: what does not fit is lost at the old end.
Push(old, photo) ==
  LET all == Append(old, photo)
  IN IF Len(all) > Budget THEN Tail(all) ELSE all

\* Engine::onField: a photo of the machine m every Interval fields.
OnField(t, m) ==
  CASE t.since + 1 < Interval -> [t EXCEPT !.since = @ + 1]
    [] t.since + 1 >= Interval /\ t.cur = NoPhoto -> [t EXCEPT !.since = 0, !.cur = m]
    [] OTHER -> [old |-> Push(t.old, t.cur), cur |-> m, since |-> 0]

\* n calls of Engine::stepBack, each of which loads the photo before the live one.
Steps(t, n) == IF n <= Len(t.old) THEN n ELSE Len(t.old)
StepBack(t, n) ==
  LET left == Len(t.old) - Steps(t, n)
  IN IF Steps(t, n) = 0 THEN t
     ELSE [old |-> SubSeq(t.old, 1, left), cur |-> t.old[left + 1], since |-> 0]

----------------------------------------------------------------------------
VARIABLES
  lpc,           \* core loop: "top", "serve", "publish", "read", "check", "slice", "photo"
  job,           \* the requests serviceStateReq has taken
  fadv,          \* stepFields as this turn of the loop read it
  paused, halted, stepFields, breakpoints, lastBpHit,
  saveReq, loadReq, rewindReq, netSyncReq, liveReq, stateWaitSlices,
  stateMsg,      \* the last report
  lockstep,      \* netplay::lockstep()
  machine, files, tape, enabled, rewindDue, rewindWaitSlices,
  cl,            \* the clients
  mine,          \* history: breakpoints clients added and did not delete
  over,          \* history: fields closed since nothing asked for one (capped at 2)
  robbed         \* history: the last exchange(0) took the step this turn is about to pay

flow  == <<paused, halted, stepFields>>
bps   == <<breakpoints, lastBpHit, mine>>
boxes == <<saveReq, loadReq, rewindReq, netSyncReq, liveReq>>
store == <<machine, files, tape, enabled, lockstep>>
photo == <<rewindDue, rewindWaitSlices>>
vars == <<lpc, job, fadv, flow, bps, boxes, stateWaitSlices, stateMsg, store, photo, cl, over,
          robbed>>

Report == [op : {"save", "load", "rewind"}, arg : Slots \cup (0 .. Wrap), ok : BOOLEAN]
Job == [save : Opt(Slots), load : Opt(Slots), rew : 0 .. Wrap, net : BOOLEAN, live : BOOLEAN]
NoJob == [save |-> None, load |-> None, rew |-> 0, net |-> FALSE, live |-> FALSE]

\* A client: where it is, what it asked, whether stateSeq has moved since it
\* looked, and its answer.  `still' says the machine was paused when it asked and
\* nobody else has stirred it,
\* `ran' counts the fields closed since, `added' is cmdRunUntil's.
Client == [pc : {"idle", "post", "wait", "read", "adv", "advout", "until", "untilout", "done"},
           op : {"none", "save", "load", "rewind", "advance", "until"},
           arg : Slots \cup (0 .. Wrap) \cup Addrs,
           moved : BOOLEAN, ans : Opt(Report), got : 0 .. Wrap, late : BOOLEAN,
           still : BOOLEAN, ran : 0 .. Wrap, added : BOOLEAN]

TypeOK ==
  /\ lpc \in {"top", "serve", "publish", "read", "check", "slice", "photo"}
  /\ job \in Job /\ fadv \in 0 .. Wrap - 1
  /\ paused \in BOOLEAN /\ halted \in BOOLEAN /\ stepFields \in 0 .. Wrap - 1
  /\ breakpoints \subseteq Addrs /\ lastBpHit \in Addrs \cup {0} /\ mine \subseteq Addrs
  /\ saveReq \in Opt(Slots) /\ loadReq \in Opt(Slots) /\ rewindReq \in 0 .. Wrap
  /\ netSyncReq \in BOOLEAN /\ liveReq \in BOOLEAN
  /\ stateWaitSlices \in 0 .. RestWaitMax - 1 /\ rewindWaitSlices \in 0 .. RestWaitMax - 1
  /\ stateMsg \in Opt(Report) /\ lockstep \in BOOLEAN
  /\ machine \in Machine /\ files \in [Slots -> Opt(Machine)] /\ tape \in Tape(Machine)
  /\ enabled \in BOOLEAN /\ rewindDue \in BOOLEAN
  /\ cl \in [Clients -> Client] /\ over \in 0 .. 2 /\ robbed \in BOOLEAN

Init ==
  /\ lpc = "top" /\ job = NoJob /\ fadv = 0
  /\ paused = TRUE /\ halted = FALSE /\ stepFields = 0
  /\ breakpoints = {} /\ lastBpHit = 0 /\ mine = {}
  /\ saveReq = None /\ loadReq = None /\ rewindReq = 0 /\ netSyncReq = FALSE /\ liveReq = FALSE
  /\ stateWaitSlices = 0 /\ stateMsg = None /\ lockstep = FALSE
  /\ machine = <<>> /\ files = [s \in Slots |-> None] /\ tape = Clear
  /\ enabled \in BOOLEAN /\ rewindDue = FALSE /\ rewindWaitSlices = 0
  /\ cl = [c \in Clients |->
             [pc |-> "idle", op |-> "none", arg |-> 0, moved |-> FALSE, ans |-> None,
              got |-> 0, late |-> FALSE, still |-> FALSE, ran |-> 0, added |-> FALSE]]
  /\ over = 0 /\ robbed = FALSE
----------------------------------------------------------------------------
(* Helpers. *)

\* stateReqPending()
Pending == saveReq # None \/ loadReq # None \/ rewindReq # 0 \/ netSyncReq \/ liveReq

\* serviceStateReq holds coreMutex until the report is published.
CoreFree == lpc # "publish"

\* Somebody else sets the machine going, asks it for fields or leaves a request,
\* for which a paused machine runs until the RCP rests: what a client that
\* advances it finds is no longer its own doing.
Stirred == [c \in Clients |-> [cl[c] EXCEPT !.still = FALSE]]
StirredBy(c) == [d \in Clients |-> IF d = c THEN cl[d] ELSE [cl[d] EXCEPT !.still = FALSE]]

Finish(c, a) == [cl EXCEPT ![c].pc = "done", ![c].ans = a]

\* A field closes: the machine plays it (told apart up to MaxLen fields).
Played(m, i) == IF Len(m) < MaxLen THEN Append(m, i) ELSE m

\* The closed field pays for one step of the frame advance this turn saw.
PayTwice(n, seen) == IF seen = 0 THEN n ELSE IF n = 1 THEN 0 ELSE (n - 2) % Wrap
Pay(n, seen) == IF seen # 0 THEN (n - 1) % Wrap ELSE n

----------------------------------------------------------------------------
(* The core loop (System::run), from the top of a turn. *)

NothingToServe ==
  /\ lpc = "top" /\ ~Pending
  /\ lpc' = "read"
  /\ UNCHANGED <<job, fadv, flow, bps, boxes, stateWaitSlices, stateMsg, store, photo, cl, over,
                 robbed>>

\* The RCP is in the middle of something: the CPU runs on until it rests,
\* but not for more than kRestWaitMax slices, and not if the CPU is stopped.
WaitWithoutLimit(n) == n' = IF n + 1 < RestWaitMax THEN n + 1 ELSE n
WaitOneMore(n) == n + 1 < RestWaitMax /\ n' = n + 1
ServeLater ==
  /\ lpc = "top" /\ Pending /\ ~halted /\ WaitOneMore(stateWaitSlices)
  /\ lpc' = "read"
  /\ UNCHANGED <<job, fadv, flow, bps, boxes, stateMsg, store, photo, cl, over, robbed>>

\* The mailboxes are emptied.  In a network game the machine belongs to
\* everybody: loading and rewinding are refused, and nobody is told.
ServeTake ==
  /\ lpc = "top" /\ Pending
  /\ LET taken == [save |-> saveReq, net |-> netSyncReq, live |-> liveReq,
                   load |-> IF lockstep THEN None ELSE loadReq,
                   rew |-> IF lockstep THEN 0 ELSE rewindReq]
     IN job' = taken /\ lpc' = IF taken = NoJob THEN "read" ELSE "serve"
  /\ saveReq' = None /\ loadReq' = None /\ rewindReq' = 0
  /\ netSyncReq' = FALSE /\ liveReq' = FALSE /\ stateWaitSlices' = 0
  /\ UNCHANGED <<fadv, flow, bps, stateMsg, store, photo, cl, over, robbed>>

\* saveState writes over the file: a write that fails leaves half a state.
SaveState(s, ok) == [files EXCEPT ![s] = IF ok THEN machine ELSE <<Torn>>]

\* The tape describes the machine that a load replaces.
LoadKeepsTape(t) == t
LoadDropsTape(t) == Clear

\* netplay::serviceSync, applyLiveOpts, saveState, loadState and stepBack, in
\* the order of the code; each leaves its report over the one before.  saved: the
\* file could be written; new: the rewind options change; on: whether it is on.
ServeJob(saved, new, on) ==
  LET f1 == IF job.save = None THEN files ELSE SaveState(job.save, saved)
      t1 == IF new \/ job.net THEN Clear ELSE tape
      found == job.load # None /\ f1[job.load] # None
      good == found /\ f1[job.load] # <<Torn>>
      m2 == IF found THEN f1[job.load] ELSE machine
      t2 == IF good THEN LoadDropsTape(t1) ELSE t1
      n == IF on THEN Steps(t2, job.rew) ELSE 0
      t3 == IF on THEN StepBack(t2, job.rew) ELSE t2
  IN /\ files' = f1 /\ enabled' = on /\ tape' = t3
     /\ machine' = IF n # 0 THEN t3.cur ELSE m2
     /\ lockstep' = (lockstep \/ job.net)
     /\ stateMsg' =
          CASE job.rew # 0 -> [op |-> "rewind", arg |-> n, ok |-> n = job.rew]
            [] job.rew = 0 /\ job.load # None ->
                 [op |-> "load", arg |-> job.load, ok |-> good]
            [] job.rew = 0 /\ job.load = None /\ job.save # None ->
                 [op |-> "save", arg |-> job.save, ok |-> saved]
            [] OTHER -> stateMsg
Serve ==
  /\ lpc = "serve"
  /\ \E saved \in (IF "badwrite" \in Events THEN BOOLEAN ELSE {TRUE}),
        new \in (IF job.live THEN BOOLEAN ELSE {FALSE}) :
     \E on \in (IF new THEN BOOLEAN ELSE {enabled}) : ServeJob(saved, new, on)
  /\ lpc' = IF job.save = None /\ job.load = None /\ job.rew = 0 THEN "read" ELSE "publish"
  /\ job' = NoJob
  /\ UNCHANGED <<fadv, flow, bps, boxes, stateWaitSlices, photo, cl, over, robbed>>

\* stateSeq goes up: everybody who looked at it before sees that it moved.
Publish ==
  /\ lpc = "publish"
  /\ cl' = [c \in Clients |-> IF cl[c].pc \in {"post", "wait"}
                              THEN [cl[c] EXCEPT !.moved = TRUE] ELSE cl[c]]
  /\ lpc' = "read"
  /\ UNCHANGED <<job, fadv, flow, bps, boxes, stateWaitSlices, stateMsg, store, photo, over,
                 robbed>>

ReadSteps ==
  /\ lpc = "read"
  /\ fadv' = stepFields /\ lpc' = "check"
  /\ UNCHANGED <<job, flow, bps, boxes, stateWaitSlices, stateMsg, store, photo, cl, over, robbed>>

Sleeps == (paused /\ fadv = 0 /\ ~Pending) \/ halted
Check ==
  /\ lpc = "check"
  /\ lpc' = IF Sleeps THEN "top" ELSE "slice"
  /\ UNCHANGED <<job, fadv, flow, bps, boxes, stateWaitSlices, stateMsg, store, photo, cl, over,
                 robbed>>

\* A slice of CPU under coreMutex: it may close a field, stop at a breakpoint
\* (before the end of the slice) or stop for good.
Asked == ~paused \/ stepFields \in 1 .. MaxSteps \/ Pending
RunSlice(closed) ==
  /\ lpc = "slice"
  /\ \E hit \in breakpoints \cup {0},
        stop \in (IF "halt" \in Events THEN BOOLEAN ELSE {FALSE}) :
       /\ \E i \in Inputs : machine' = IF closed THEN Played(machine, i) ELSE machine
       /\ halted' = stop
       /\ paused' = (paused \/ hit # 0)
       /\ lastBpHit' = IF hit # 0 THEN hit ELSE lastBpHit
       /\ stepFields' = IF closed THEN Pay(stepFields, fadv) ELSE stepFields
       /\ rewindDue' = (rewindDue \/ (closed /\ enabled))
       /\ over' = IF ~closed \/ over = 2 THEN over
                  ELSE IF Asked THEN 0 ELSE over + 1
       /\ cl' = [c \in Clients |-> IF closed /\ cl[c].pc \in {"adv", "advout"} /\ cl[c].ran < Wrap
                                   THEN [cl[c] EXCEPT !.ran = @ + 1] ELSE cl[c]]
  /\ lpc' = "photo"
  /\ UNCHANGED <<job, fadv, breakpoints, mine, boxes, stateWaitSlices, stateMsg, files, tape,
                 enabled, lockstep, rewindWaitSlices, robbed>>
Slice == \E closed \in BOOLEAN : RunSlice(closed)

\* The rewind photo, at the first rest of the RCP after the field.
PhotoLater ==
  /\ lpc = "photo" /\ rewindDue /\ WaitOneMore(rewindWaitSlices)
  /\ lpc' = "top"
  /\ UNCHANGED <<job, fadv, flow, bps, boxes, stateWaitSlices, stateMsg, store, rewindDue, cl,
                 over, robbed>>
PhotoTake ==
  /\ lpc = "photo" /\ rewindDue
  /\ tape' = IF enabled THEN OnField(tape, machine) ELSE tape
  /\ rewindDue' = FALSE /\ rewindWaitSlices' = 0
  /\ lpc' = "top"
  /\ UNCHANGED <<job, fadv, flow, bps, boxes, stateWaitSlices, stateMsg, machine, files, enabled,
                 lockstep, cl, over, robbed>>
PhotoNone ==
  /\ lpc = "photo" /\ ~rewindDue
  /\ lpc' = "top"
  /\ UNCHANGED <<job, fadv, flow, bps, boxes, stateWaitSlices, stateMsg, store, photo, cl, over,
                 robbed>>

----------------------------------------------------------------------------
(* A telemetry client: state.save, state.load, rewind.step. *)

\* cmdState, cmdRewind: note stateSeq ...
StateBegin(c, op, a) ==
  /\ op \in Uses /\ cl[c].pc = "idle" /\ (op = "rewind" => enabled)
  /\ cl' = [cl EXCEPT ![c].pc = "post", ![c].op = op, ![c].arg = a]
  /\ UNCHANGED <<lpc, job, fadv, flow, bps, boxes, stateWaitSlices, stateMsg, store, photo, over,
                 robbed>>

\* ... leave the request ...
StatePost(c) ==
  /\ cl[c].pc = "post"
  /\ saveReq' = IF cl[c].op = "save" THEN cl[c].arg ELSE saveReq
  /\ loadReq' = IF cl[c].op = "load" THEN cl[c].arg ELSE loadReq
  /\ rewindReq' = IF cl[c].op = "rewind" THEN rewindReq + cl[c].arg ELSE rewindReq
  /\ cl' = [StirredBy(c) EXCEPT ![c].pc = "wait"]
  /\ over' = 0
  /\ UNCHANGED <<lpc, job, fadv, flow, bps, netSyncReq, liveReq, stateWaitSlices, stateMsg, store,
                 photo, robbed>>

\* ... and wait until stateSeq moves, or give up after 5 s (10 s).
StateSee(c) ==
  /\ cl[c].pc = "wait"
  /\ \/ cl[c].moved /\ cl' = [cl EXCEPT ![c].pc = "read"]
     \/ ~cl[c].moved /\ "slow" \in Events /\ cl' = [Finish(c, None) EXCEPT ![c].late = TRUE]
  /\ UNCHANGED <<lpc, job, fadv, flow, bps, boxes, stateWaitSlices, stateMsg, store, photo, over,
                 robbed>>
StateRead(c) ==
  /\ cl[c].pc = "read"
  /\ cl' = Finish(c, stateMsg)
  /\ UNCHANGED <<lpc, job, fadv, flow, bps, boxes, stateWaitSlices, stateMsg, store, photo, over,
                 robbed>>

----------------------------------------------------------------------------
(* frame.advance, cpu.run_until, breakpoints, pause, resume, reset. *)

AdvanceBegin(c, n) ==
  /\ "advance" \in Uses /\ cl[c].pc = "idle" /\ CoreFree
  /\ halted' = FALSE /\ paused' = TRUE /\ stepFields' = n
  /\ cl' = [StirredBy(c) EXCEPT ![c].pc = "adv", ![c].op = "advance", ![c].arg = n,
                                ![c].still = paused /\ stepFields = 0 /\ ~Pending
                                             /\ lpc \notin {"slice", "photo"}]
  /\ over' = 0 /\ robbed' = FALSE
  /\ UNCHANGED <<lpc, job, fadv, bps, boxes, stateWaitSlices, stateMsg, store, photo>>
AdvanceSee(c) ==
  /\ cl[c].pc = "adv"
  /\ stepFields = 0 \/ halted \/ "slow" \in Events
  /\ cl' = [cl EXCEPT ![c].pc = "advout", ![c].late = stepFields # 0]
  /\ UNCHANGED <<lpc, job, fadv, flow, bps, boxes, stateWaitSlices, stateMsg, store, photo, over,
                 robbed>>
AdvanceEnd(c) ==
  /\ cl[c].pc = "advout" /\ CoreFree
  /\ stepFields' = 0
  /\ cl' = [StirredBy(c) EXCEPT ![c].pc = "done", ![c].got = (cl[c].arg - stepFields) % Wrap]
  /\ robbed' = (lpc \in {"check", "slice"} /\ fadv # 0)
  /\ over' = IF robbed THEN 0 ELSE over
  /\ UNCHANGED <<lpc, job, fadv, paused, halted, bps, boxes, stateWaitSlices, stateMsg, store,
                 photo>>

UntilBegin(c, a) ==
  /\ "until" \in Uses /\ cl[c].pc = "idle" /\ CoreFree
  /\ breakpoints' = breakpoints \cup {a} /\ lastBpHit' = 0
  /\ halted' = FALSE /\ paused' = FALSE
  /\ cl' = [Stirred EXCEPT ![c].pc = "until", ![c].op = "until", ![c].arg = a,
                      ![c].added = a \notin breakpoints]
  /\ over' = 0
  /\ UNCHANGED <<lpc, job, fadv, stepFields, mine, boxes, stateWaitSlices, stateMsg, store,
                 photo, robbed>>
UntilSee(c) ==
  /\ cl[c].pc = "until"
  /\ halted \/ paused \/ "slow" \in Events
  /\ cl' = [cl EXCEPT ![c].pc = "untilout", ![c].late = ~paused,
                      ![c].got = IF paused /\ lastBpHit = cl[c].arg THEN 1 ELSE 0]
  /\ UNCHANGED <<lpc, job, fadv, flow, bps, boxes, stateWaitSlices, stateMsg, store, photo, over,
                 robbed>>
UntilEnd(c) ==
  /\ cl[c].pc = "untilout" /\ CoreFree
  /\ breakpoints' = IF cl[c].added THEN breakpoints \ {cl[c].arg} ELSE breakpoints
  /\ paused' = TRUE
  /\ cl' = [cl EXCEPT ![c].pc = "done"]
  /\ UNCHANGED <<lpc, job, fadv, halted, stepFields, lastBpHit, mine, boxes, stateWaitSlices,
                 stateMsg, store, photo, over, robbed>>

BpAdd(a) ==
  /\ "bp" \in Uses /\ CoreFree
  /\ breakpoints' = breakpoints \cup {a} /\ mine' = mine \cup {a}
  /\ UNCHANGED <<lpc, job, fadv, flow, lastBpHit, boxes, stateWaitSlices, stateMsg, store, photo,
                 cl, over, robbed>>
\* One breakpoint, or all of them.
BpDel(A) ==
  /\ "bp" \in Uses /\ CoreFree
  /\ breakpoints' = breakpoints \ A /\ mine' = mine \ A
  /\ UNCHANGED <<lpc, job, fadv, flow, lastBpHit, boxes, stateWaitSlices, stateMsg, store, photo,
                 cl, over, robbed>>

Pause ==
  /\ "pause" \in Uses /\ ~paused /\ paused' = TRUE
  /\ UNCHANGED <<lpc, job, fadv, halted, stepFields, bps, boxes, stateWaitSlices, stateMsg, store,
                 photo, cl, over, robbed>>
Resume ==
  /\ "resume" \in Uses /\ CoreFree /\ (paused \/ halted)
  /\ paused' = FALSE /\ halted' = FALSE /\ over' = 0 /\ cl' = Stirred
  /\ UNCHANGED <<lpc, job, fadv, stepFields, bps, boxes, stateWaitSlices, stateMsg, store, photo,
                 robbed>>
\* The machine starts again from the ROM; the tape is left as it is.
Reset ==
  /\ "reset" \in Uses /\ CoreFree
  /\ paused' = TRUE /\ machine' = <<>>
  /\ UNCHANGED <<lpc, job, fadv, halted, stepFields, bps, boxes, stateWaitSlices, stateMsg, files,
                 tape, enabled, lockstep, photo, cl, over, robbed>>

----------------------------------------------------------------------------
(* The window (Presenter::pump) and the rest of the program. *)

KeyState(s) ==
  /\ \/ "save" \in Keys /\ saveReq' = s /\ UNCHANGED <<loadReq, rewindReq>>
     \/ "load" \in Keys /\ loadReq' = s /\ UNCHANGED <<saveReq, rewindReq>>
     \/ "rewind" \in Keys /\ rewindReq < 2 /\ rewindReq' = rewindReq + 1
        /\ UNCHANGED <<saveReq, loadReq>>
  /\ over' = 0 /\ cl' = Stirred
  /\ UNCHANGED <<lpc, job, fadv, flow, bps, netSyncReq, liveReq, stateWaitSlices, stateMsg, store,
                 photo, robbed>>
KeyPause ==
  /\ "pause" \in Keys
  /\ paused' = ~paused /\ over' = 0 /\ cl' = Stirred
  /\ UNCHANGED <<lpc, job, fadv, halted, stepFields, bps, boxes, stateWaitSlices, stateMsg, store,
                 photo, robbed>>
\* F; with Shift eight fields at once, which are eight steps here.
KeyStep ==
  /\ "step" \in Keys /\ stepFields < MaxSteps
  /\ paused' = TRUE /\ stepFields' = stepFields + 1 /\ over' = 0
  /\ cl' = Stirred
  /\ UNCHANGED <<lpc, job, fadv, halted, bps, boxes, stateWaitSlices, stateMsg, store, photo,
                 robbed>>

\* A guest joins a session this machine hosts (netplay's admit), and it ends;
\* the menu switches the rewind on or off.
NetSync ==
  /\ "net" \in Events /\ netSyncReq' = TRUE /\ over' = 0 /\ cl' = Stirred
  /\ UNCHANGED <<lpc, job, fadv, flow, bps, saveReq, loadReq, rewindReq, liveReq, stateWaitSlices,
                 stateMsg, store, photo, robbed>>
NetStop ==
  /\ lockstep /\ lockstep' = FALSE
  /\ UNCHANGED <<lpc, job, fadv, flow, bps, boxes, stateWaitSlices, stateMsg, machine, files, tape,
                 enabled, photo, cl, over, robbed>>
LiveOpts ==
  /\ "live" \in Events /\ liveReq' = TRUE /\ over' = 0 /\ cl' = Stirred
  /\ UNCHANGED <<lpc, job, fadv, flow, bps, saveReq, loadReq, rewindReq, netSyncReq,
                 stateWaitSlices, stateMsg, store, photo, robbed>>

----------------------------------------------------------------------------
Loop == \/ NothingToServe \/ ServeLater \/ ServeTake \/ Serve \/ Publish \/ ReadSteps \/ Check
        \/ Slice \/ PhotoLater \/ PhotoTake \/ PhotoNone
ClientStep(c) == \/ StatePost(c) \/ StateSee(c) \/ StateRead(c) \/ AdvanceSee(c) \/ AdvanceEnd(c)
                 \/ UntilSee(c) \/ UntilEnd(c)
Request(c) == \/ \E s \in Slots : StateBegin(c, "save", s) \/ StateBegin(c, "load", s)
              \/ \E n \in Ask : StateBegin(c, "rewind", n) \/ AdvanceBegin(c, n)
              \/ \E a \in Addrs : UntilBegin(c, a)
Control == \/ Pause \/ Resume \/ Reset \/ BpDel(Addrs)
           \/ \E a \in Addrs : BpAdd(a) \/ BpDel({a})
Window == KeyPause \/ KeyStep \/ \E s \in Slots : KeyState(s)
Others == NetSync \/ NetStop \/ LiveOpts

Next == \/ Loop \/ Control \/ Window \/ Others
        \/ \E c \in Clients : ClientStep(c) \/ Request(c)

Spec == Init /\ [][Next]_vars

\* The core loop never blocks (it sleeps 5 ms when it has nothing to run), a
\* video field closes after so many slices whatever the game does, and a
\* client that wants coreMutex gets it: the loop yields while
\* CoreMutex::waiting says that somebody does.
Fairness == /\ WF_vars(Loop) /\ SF_vars(RunSlice(TRUE))
            /\ \A c \in Clients : SF_vars(ClientStep(c))
FairSpec == Spec /\ Fairness
----------------------------------------------------------------------------
(* Properties. *)

Past(a, b) == Len(a) <= Len(b) /\ SubSeq(b, 1, Len(a)) = a

\* Every photo of the tape is a past of the next one, and the live photo a past
\* of the machine: rewinding never leads into another game (Engine::clear,
\* serviceStateReq, serviceSync).
TapeIsPast ==
  /\ tape.cur # NoPhoto => Past(tape.cur, machine)
  /\ \A i \in 1 .. Len(tape.old) :
       Past(tape.old[i], IF i = Len(tape.old) THEN tape.cur ELSE tape.old[i + 1])

\* When nothing asks for a field any more (pause, cmdRunControl) at most the
\* field in progress still closes.
StopsWithinOne == over <= 1

\* No more fields are owed than were asked for: stepFields does not fall below
\* zero, which for a u32 would be four thousand million fields.
StepsWereAsked == stepFields <= MaxSteps

\* frame.advance of a paused machine runs the fields it was asked, no more, and
\* reports as many (cmdFrameAdvance, stepFields).
AdvanceExact ==
  \A c \in Clients :
    cl[c].pc = "done" /\ cl[c].op = "advance" /\ cl[c].still /\ ~cl[c].late =>
      cl[c].got = cl[c].arg /\ cl[c].ran = cl[c].arg

\* Whoever stops the machine or asks it for fields gets exactly that, with one
\* exception: a frame.advance that ends (its time is up, or the machine halted)
\* while the turn under way has read the count and not paid yet takes with
\* exchange(0) the step that turn will pay (server.cpp:599, system.cpp:1053).
\* From there to the next frame.advance the count may have gone below zero.
FieldsExact == (~robbed => StopsWithinOne /\ StepsWereAsked) /\ AdvanceExact

\* A request left in a mailbox is taken (serviceStateReq, kRestWaitMax).
RequestsServed ==
  /\ saveReq # None ~> saveReq = None
  /\ loadReq # None ~> loadReq = None
  /\ rewindReq # 0 ~> rewindReq = 0

\* A client that waits for a report gets one (cmdState, cmdRewind, stateSeq).
ClientsAnswered == \A c \in Clients : cl[c].pc = "wait" ~> cl[c].pc = "done"

\* frame.advance ends without its timeout (cmdFrameAdvance).
AdvanceEnds == \A c \in Clients : cl[c].pc = "adv" ~> cl[c].pc = "done"

\* Nobody who asks the core loop for something waits for ever: the mailboxes are emptied, reports
\* arrive and the fields of an advance are run, with the machine paused or not.
EverythingServed == RequestsServed /\ ClientsAnswered /\ AdvanceEnds

(* What follows is said of the code in the repository and not kept by it; the *)
(* README shows how each fails (Observations).                                *)

\* system.cpp says stepFields cannot fall below zero, whoever asks.
StepsNeverBelowZero == StepsWereAsked

\* system.hpp says that who waits for stateSeq to change does not take an
\* earlier report: the report a client takes is about what it asked.
ReportIsMine ==
  \A c \in Clients :
    cl[c].pc = "done" /\ cl[c].op \in {"save", "load"} /\ cl[c].ans # None =>
      cl[c].ans.op = cl[c].op /\ cl[c].ans.arg = cl[c].arg

\* rewind.hpp says the tape is cleared after a reset, which is another game
\* (cmdRunControl): what it holds is always a past of the machine.
TapeAfterReset == tape.cur # NoPhoto => Past(tape.cur, machine)

\* savestate.cpp says the machine is paused when a state that fails half-way is
\* loaded into it (serviceStateReq, restoreState).
TornIsPaused == machine = <<Torn>> => paused

\* system.cpp says nothing is loaded into the machine of a network game
\* (serviceStateReq): it only plays on.
NetMachinePlaysOn == [][lockstep' => Past(machine, machine')]_vars

\* server.cpp says cmdRunUntil's temporary breakpoint composes with the
\* breakpoints of the user: these stay until they are deleted.
BreakpointsStay == mine \subseteq breakpoints
=============================================================================
