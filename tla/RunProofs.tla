------------------------------ MODULE RunProofs ------------------------------
(***************************************************************************)
(* The rewind tape always holds pasts of the machine, for any number of    *)
(* clients, state files and requests, as long as the machine is not reset  *)
(* and no state file is written by half.  And the run loop closes the      *)
(* fields it was asked for and no more, except after a frame.advance that  *)
(* took back, when it ended, the step a turn was about to pay.             *)
(***************************************************************************)
EXTENDS RunControl, SequenceTheorems, TLAPS

Game == Seq(Inputs)
TapeType == [old : Seq(Game), cur : Game \cup {NoPhoto}, since : Nat]

\* Every photo of tape t is a past of the next one, and the live one of m.
Fits(t, m) ==
  /\ t \in TapeType
  /\ t.cur # NoPhoto => Past(t.cur, m)
  /\ \A i \in 1 .. Len(t.old) : Past(t.old[i], IF i = Len(t.old) THEN t.cur ELSE t.old[i + 1])
  /\ t.old # <<>> => t.cur # NoPhoto

\* A client is a record, and what it is about to ask has its type.
IsClient(r) ==
  r \in [pc : {r.pc}, op : {r.op}, arg : {r.arg}, moved : {r.moved}, ans : {r.ans}, got : {r.got},
         late : {r.late}, still : {r.still}, ran : {r.ran}, added : {r.added}]
AsksRight(r) ==
  r.pc = "post" => /\ r.op = "rewind" => r.arg \in Nat
                   /\ r.op \in {"save", "load"} => r.arg \in Slots

ClientsRight == /\ cl = [c \in Clients |-> cl[c]]
                /\ \A c \in Clients : IsClient(cl[c]) /\ AsksRight(cl[c])

RequestsRight ==
  /\ saveReq \in Opt(Slots) /\ loadReq \in Opt(Slots) /\ rewindReq \in Nat
  /\ job.save \in Opt(Slots) /\ job.load \in Opt(Slots) /\ job.rew \in Nat

StoreRight == machine \in Game /\ files \in [Slots -> Opt(Game)] /\ Fits(tape, machine)

TapeInv == ClientsRight /\ RequestsRight /\ StoreRight

----------------------------------------------------------------------------
(* Pasts. *)

\* A past is the same history, up to a point.
LEMMA PastPoints ==
  ASSUME NEW a \in Game, NEW b \in Game
  PROVE  Past(a, b) <=> Len(a) <= Len(b) /\ \A i \in 1 .. Len(a) : a[i] = b[i]
<1>0. Len(a) \in Nat /\ Len(b) \in Nat
  BY DEF Game
<1>1. ASSUME Len(a) <= Len(b)
      PROVE  /\ SubSeq(b, 1, Len(a)) \in Game /\ Len(SubSeq(b, 1, Len(a))) = Len(a)
             /\ \A i \in 1 .. Len(a) : SubSeq(b, 1, Len(a))[i] = b[i]
  <2>1. \A i \in 1 .. Len(a) : i \in 1 .. Len(b)
    BY <1>0, <1>1
  <2>2. \A i \in 1 .. Len(a) : b[i] \in Inputs
    BY <2>1 DEF Game
  <2> QED BY <1>0, <1>1, <2>2, SubSeqProperties DEF Game
<1>2. ASSUME Past(a, b) PROVE Len(a) <= Len(b) /\ \A i \in 1 .. Len(a) : a[i] = b[i]
  BY <1>1, <1>2 DEF Past
<1>3. ASSUME Len(a) <= Len(b), \A i \in 1 .. Len(a) : a[i] = b[i] PROVE Past(a, b)
  <2> DEFINE s == SubSeq(b, 1, Len(a))
  <2>1. s \in Game /\ Len(s) = Len(a) /\ \A i \in 1 .. Len(a) : s[i] = a[i]
    BY <1>1, <1>3
  <2> HIDE DEF s
  <2>2. s = a
    BY <2>1, SeqEqual DEF Game
  <2> QED BY <1>3, <2>2 DEF Past, s
<1> QED BY <1>2, <1>3

\* Every history is a past of itself and of what follows it.
LEMMA PastGrows ==
  ASSUME NEW a \in Game, NEW b \in Game, Past(a, b), NEW i \in Inputs
  PROVE  /\ Past(b, b) /\ Played(b, i) \in Game /\ Past(a, Played(b, i))
<1>1. Past(b, b)
  BY PastPoints DEF Game
<1>2. CASE Played(b, i) = b
  BY <1>1, <1>2
<1>3. CASE Played(b, i) = Append(b, i)
  <2>1. /\ Append(b, i) \in Game /\ Len(Append(b, i)) = Len(b) + 1
        /\ \A j \in 1 .. Len(b) : Append(b, i)[j] = b[j]
    BY DEF Game
  <2>2. Len(a) <= Len(b) /\ \A j \in 1 .. Len(a) : a[j] = b[j]
    BY PastPoints
  <2>3. Len(a) \in Nat /\ Len(b) \in Nat
    BY DEF Game
  <2>4. Len(a) <= Len(Append(b, i)) /\ \A j \in 1 .. Len(a) : a[j] = Append(b, i)[j]
    BY <2>1, <2>2, <2>3
  <2> QED BY <1>1, <1>3, <2>1, <2>4, PastPoints
<1> QED BY <1>2, <1>3 DEF Played

----------------------------------------------------------------------------
(* The tape. *)

\* An empty tape says nothing.
LEMMA ClearFits == \A m : Fits(Clear, m)
BY DEF Fits, Clear, TapeType

\* Engine::push.
LEMMA PushFits ==
  ASSUME NEW t \in TapeType, NEW m \in Game, Fits(t, m), t.cur # NoPhoto
  PROVE  Fits([old |-> Push(t.old, t.cur), cur |-> m, since |-> 0], m)
<1> DEFINE all == Append(t.old, t.cur)
           L == Len(t.old)
           Chain(q) == \A i \in 1 .. Len(q) : Past(q[i], IF i = Len(q) THEN m ELSE q[i + 1])
<1>0. t.old \in Seq(Game) /\ t.cur \in Game /\ L \in Nat
  BY DEF TapeType
<1>1. m # NoPhoto /\ Past(m, m)
  BY TapeAssumption, PastPoints DEF Game
<1>2. /\ all \in Seq(Game) /\ Len(all) = L + 1 /\ all[L + 1] = t.cur
      /\ \A i \in 1 .. L : all[i] = t.old[i]
  BY <1>0
<1> HIDE DEF all
<1>3. Chain(all)
  <2> SUFFICES ASSUME NEW i \in 1 .. L + 1
               PROVE  Past(all[i], IF i = L + 1 THEN m ELSE all[i + 1])
    BY <1>2
  <2>1. CASE i = L + 1
    BY <2>1, <1>2 DEF Fits
  <2>2. CASE i = L
    BY <2>2, <1>0, <1>2 DEF Fits
  <2>3. CASE i < L
    <3>1. i \in 1 .. L /\ i + 1 \in 1 .. L /\ i # L /\ i # L + 1
      BY <2>3, <1>0
    <3> QED BY <3>1, <1>2 DEF Fits
  <2> QED BY <2>1, <2>2, <2>3, <1>0
<1>4. Chain(Tail(all)) /\ Tail(all) \in Seq(Game)
  <2>1. /\ Tail(all) \in Seq(Game) /\ Len(Tail(all)) = L
        /\ \A i \in 1 .. L : Tail(all)[i] = all[i + 1]
    BY <1>0, <1>2
  <2> SUFFICES ASSUME NEW i \in 1 .. L
               PROVE  Past(Tail(all)[i], IF i = L THEN m ELSE Tail(all)[i + 1])
    BY <2>1
  <2>2. i + 1 \in 1 .. L + 1 /\ (i + 1 = L + 1 <=> i = L) /\ (i # L => i + 1 \in 1 .. L)
    BY <1>0
  <2>3. Past(all[i + 1], IF i + 1 = L + 1 THEN m ELSE all[i + 1 + 1])
    BY <1>2, <1>3, <2>2
  <2> QED BY <2>1, <2>2, <2>3
<1>5. Push(t.old, t.cur) \in {all, Tail(all)}
  BY DEF Push, all
<1> DEFINE q == Push(t.old, t.cur)
           u == [old |-> q, cur |-> m, since |-> 0]
<1>6. q \in Seq(Game) /\ Chain(q)
  BY <1>2, <1>3, <1>4, <1>5
<1> HIDE DEF q
<1>7. u \in TapeType /\ u.old = q /\ u.cur = m
  BY <1>6 DEF TapeType
<1> QED BY <1>1, <1>6, <1>7 DEF Fits, q

\* Engine::onField.
LEMMA OnFieldFits ==
  ASSUME NEW t, NEW m \in Game, Fits(t, m)
  PROVE  Fits(OnField(t, m), m)
<1>0. t \in TapeType /\ t.since \in Nat /\ Interval \in Nat \ {0}
  BY TapeAssumption DEF Fits, TapeType
<1>1. CASE t.since + 1 < Interval
  <2> DEFINE u == [t EXCEPT !.since = @ + 1]
  <2>1. OnField(t, m) = u
    BY <1>1, <1>0 DEF OnField
  <2>2. u \in TapeType /\ u.old = t.old /\ u.cur = t.cur
    BY <1>0 DEF TapeType
  <2> HIDE DEF u
  <2> QED BY <2>1, <2>2 DEF Fits
<1>2. CASE t.since + 1 >= Interval /\ t.cur = NoPhoto
  <2> DEFINE u == [t EXCEPT !.since = 0, !.cur = m]
  <2>1. OnField(t, m) = u
    BY <1>2, <1>0 DEF OnField
  <2>2. u \in TapeType /\ u.old = t.old /\ u.cur = m
    BY <1>0 DEF TapeType
  <2>3. t.old = <<>> /\ Past(m, m)
    BY <1>2, PastPoints DEF Fits, Game
  <2> HIDE DEF u
  <2> QED BY <2>1, <2>2, <2>3 DEF Fits
<1>3. CASE t.since + 1 >= Interval /\ t.cur # NoPhoto
  <2>1. OnField(t, m) = [old |-> Push(t.old, t.cur), cur |-> m, since |-> 0]
    BY <1>3, <1>0 DEF OnField
  <2> QED BY <1>0, <1>3, <2>1, PushFits
<1> QED BY <1>0, <1>1, <1>2, <1>3

\* Engine::stepBack, n times: the machine becomes the photo the tape then ends in.
LEMMA StepBackFits ==
  ASSUME NEW t, NEW m \in Game, Fits(t, m), NEW n \in Nat
  PROVE  /\ Steps(t, n) = 0 => StepBack(t, n) = t
         /\ Steps(t, n) # 0 => /\ StepBack(t, n).cur \in Game
                               /\ Fits(StepBack(t, n), StepBack(t, n).cur)
<1>1. Steps(t, n) = 0 => StepBack(t, n) = t
  BY DEF StepBack
<1>2. ASSUME Steps(t, n) # 0
      PROVE  StepBack(t, n).cur \in Game /\ Fits(StepBack(t, n), StepBack(t, n).cur)
  <2> DEFINE L == Len(t.old)
             left == L - Steps(t, n)
             q == SubSeq(t.old, 1, left)
             x == t.old[left + 1]
             u == [old |-> q, cur |-> x, since |-> 0]
  <2>0. t.old \in Seq(Game) /\ L \in Nat
    BY DEF Fits, TapeType
  <2>1. left \in Nat /\ left < L
    <3>1. Steps(t, n) = n \/ Steps(t, n) = L
      BY DEF Steps
    <3>2. n <= L \/ Steps(t, n) = L
      BY DEF Steps
    <3> HIDE DEF L
    <3> QED BY <1>2, <2>0, <3>1, <3>2
  <2>2. StepBack(t, n) = u
    BY <1>2 DEF StepBack
  <2> HIDE DEF left
  <2>3. /\ q \in Seq(Game) /\ Len(q) = left /\ \A i \in 1 .. left : q[i] = t.old[i]
    <3>1. \A i \in 1 .. left : i \in 1 .. L
      BY <2>0, <2>1
    <3>2. \A i \in 1 .. left : t.old[i] \in Game
      BY <2>0, <3>1
    <3> QED BY <2>0, <2>1, <3>2, SubSeqProperties
  <2>4. x \in Game
    <3>1. left + 1 \in 1 .. L
      BY <2>0, <2>1
    <3> QED BY <2>0, <3>1
  <2>5. \A i \in 1 .. left : Past(q[i], IF i = left THEN x ELSE q[i + 1])
    <3> SUFFICES ASSUME NEW i \in 1 .. left
                 PROVE  Past(q[i], IF i = left THEN x ELSE q[i + 1])
      OBVIOUS
    <3>1. i \in 1 .. L /\ i # L /\ (i # left => i + 1 \in 1 .. left)
      BY <2>0, <2>1
    <3>2. Past(t.old[i], t.old[i + 1])
      BY <3>1 DEF Fits
    <3> QED BY <3>1, <3>2, <2>3
  <2>6. x # NoPhoto /\ Past(x, x)
    BY <2>4, TapeAssumption, PastPoints DEF Game
  <2> HIDE DEF q, x
  <2>7. u \in TapeType /\ u.old = q /\ u.cur = x
    BY <2>3, <2>4 DEF TapeType
  <2> HIDE DEF u
  <2> QED BY <2>2, <2>3, <2>4, <2>5, <2>6, <2>7 DEF Fits
<1> QED BY <1>1, <1>2

----------------------------------------------------------------------------
(* The steps. *)

\* One client moves on, with nothing to ask or with what it asks.
LEMMA ClientMoves ==
  ASSUME ClientsRight, NEW c \in Clients, NEW r, IsClient(r), AsksRight(r),
         cl' = [cl EXCEPT ![c] = r]
  PROVE  ClientsRight'
<1>1. cl' = [d \in Clients |-> cl'[d]]
  BY DEF ClientsRight
<1>2. \A d \in Clients : cl'[d] = IF d = c THEN r ELSE cl[d]
  BY DEF ClientsRight
<1> QED BY <1>1, <1>2 DEF ClientsRight, IsClient, AsksRight

\* Every client stays where it is in its request.
LEMMA ClientsStay ==
  ASSUME ClientsRight, NEW f, cl' = [c \in Clients |-> f[c]],
         \A c \in Clients : /\ IsClient(f[c])
                            /\ f[c].pc = cl[c].pc /\ f[c].op = cl[c].op /\ f[c].arg = cl[c].arg
  PROVE  ClientsRight'
BY DEF ClientsRight, IsClient, AsksRight

\* Somebody else stirs the machine.
LEMMA StirredRight ==
  ASSUME ClientsRight, cl' = Stirred
  PROVE  ClientsRight'
<1> DEFINE f == [c \in Clients |-> [cl[c] EXCEPT !.still = FALSE]]
<1>1. ASSUME NEW c \in Clients
      PROVE  /\ IsClient(f[c])
             /\ f[c].pc = cl[c].pc /\ f[c].op = cl[c].op /\ f[c].arg = cl[c].arg
  <2> DEFINE r == cl[c]
             s == [r EXCEPT !.still = FALSE]
  <2>1. IsClient(r) /\ f[c] = s
    BY DEF ClientsRight
  <2> HIDE DEF r, f
  <2>2. IsClient(s) /\ s.pc = r.pc /\ s.op = r.op /\ s.arg = r.arg
    BY <2>1 DEF IsClient
  <2> QED BY <2>1, <2>2 DEF r
<1>2. cl' = [c \in Clients |-> f[c]]
  BY DEF Stirred
<1> HIDE DEF f
<1> QED BY <1>1, <1>2, ClientsStay

\* serviceStateReq: what is saved, loaded and rewound leaves a tape that fits the machine.
LEMMA ServeFits ==
  ASSUME TapeInv, Serve, "badwrite" \notin Events
  PROVE  StoreRight'
<1>1. PICK saved \in (IF "badwrite" \in Events THEN BOOLEAN ELSE {TRUE}),
           new \in (IF job.live THEN BOOLEAN ELSE {FALSE}) :
        \E on \in (IF new THEN BOOLEAN ELSE {enabled}) : ServeJob(saved, new, on)
  BY DEF Serve
<1>2. PICK on \in (IF new THEN BOOLEAN ELSE {enabled}) : ServeJob(saved, new, on)
  BY <1>1
<1>a. saved = TRUE
  OBVIOUS
<1> DEFINE f1 == IF job.save = None THEN files ELSE SaveState(job.save, saved)
           t1 == IF new \/ job.net THEN Clear ELSE tape
           found == job.load # None /\ f1[job.load] # None
           good == found /\ f1[job.load] # <<Torn>>
           m2 == IF found THEN f1[job.load] ELSE machine
           t2 == IF good THEN LoadDropsTape(t1) ELSE t1
           n == IF on THEN Steps(t2, job.rew) ELSE 0
           t3 == IF on THEN StepBack(t2, job.rew) ELSE t2
<1>3. files' = f1 /\ tape' = t3 /\ machine' = IF n # 0 THEN t3.cur ELSE m2
  BY <1>2, Zenon DEF ServeJob
<1>4. f1 \in [Slots -> Opt(Game)]
  <2>1. CASE job.save = None
    BY <2>1 DEF TapeInv, StoreRight
  <2>2. CASE job.save # None
    <3>1. f1 = [files EXCEPT ![job.save] = machine]
      BY <1>a, <2>2 DEF SaveState
    <3> HIDE DEF f1
    <3> QED BY <3>1 DEF TapeInv, StoreRight, Opt
  <2> QED BY <2>1, <2>2
<1> HIDE DEF f1
<1>5. ASSUME found PROVE f1[job.load] \in Game /\ good
  <2>1. job.load \in Slots
    BY <1>5 DEF TapeInv, RequestsRight, Opt
  <2>2. f1[job.load] \in Game
    BY <1>4, <1>5, <2>1 DEF Opt
  <2>3. <<Torn>> \notin Game
    BY TapeAssumption DEF Game
  <2> QED BY <1>5, <2>2, <2>3
<1>6. m2 \in Game /\ Fits(t2, m2)
  <2>1. CASE found
    BY <1>5, <2>1, ClearFits DEF LoadDropsTape
  <2>2. CASE ~found
    <3>1. t2 = t1 /\ m2 = machine
      BY <2>2
    <3>2. Fits(t1, machine) /\ machine \in Game
      BY ClearFits DEF TapeInv, StoreRight
    <3> QED BY <3>1, <3>2
  <2> QED BY <2>1, <2>2
<1>7. job.rew \in Nat
  BY DEF TapeInv, RequestsRight
<1> HIDE DEF m2, t2
<1>8. CASE n = 0
  <2>1. t3 = t2
    BY <1>6, <1>7, <1>8, StepBackFits
  <2> QED BY <1>3, <1>4, <1>6, <1>8, <2>1 DEF StoreRight, Fits, Past
<1>9. CASE n # 0
  <2>1. t3 = StepBack(t2, job.rew) /\ Steps(t2, job.rew) # 0
    BY <1>9
  <2>2. t3.cur \in Game /\ Fits(t3, t3.cur)
    BY <1>6, <1>7, <2>1, StepBackFits
  <2> HIDE DEF t3, n
  <2> QED BY <1>3, <1>4, <1>9, <2>2 DEF StoreRight, Fits, Past
<1> QED BY <1>8, <1>9

\* Where the machine, its files and its tape stay, only the requests are to be looked at.
LEMMA StoreStays ==
  ASSUME TapeInv, UNCHANGED store
  PROVE  StoreRight'
BY DEF TapeInv, StoreRight, store, Fits

\* What nobody asks, is asked right.
LEMMA RequestsStay ==
  ASSUME TapeInv, UNCHANGED <<job, boxes>>
  PROVE  RequestsRight'
BY DEF TapeInv, RequestsRight, boxes

LEMMA ClientsUnmoved ==
  ASSUME TapeInv, UNCHANGED cl
  PROVE  ClientsRight'
BY DEF TapeInv, ClientsRight, IsClient, AsksRight

\* System::run.
LEMMA LoopKeeps ==
  ASSUME TapeInv, Loop, "badwrite" \notin Events
  PROVE  TapeInv'
<1>1. CASE NothingToServe \/ ServeLater \/ ReadSteps \/ Check \/ PhotoLater \/ PhotoNone
  <2>1. UNCHANGED <<job, boxes>> /\ UNCHANGED store /\ UNCHANGED cl
    BY <1>1 DEF NothingToServe, ServeLater, ReadSteps, Check, PhotoLater, PhotoNone
  <2> QED BY <2>1, StoreStays, RequestsStay, ClientsUnmoved DEF TapeInv
<1>2. CASE ServeTake
  <2>1. UNCHANGED store /\ UNCHANGED cl
    BY <1>2 DEF ServeTake
  <2>2. /\ saveReq' = None /\ loadReq' = None /\ rewindReq' = 0
        /\ job' = [save |-> saveReq, net |-> netSyncReq, live |-> liveReq,
                   load |-> IF lockstep THEN None ELSE loadReq,
                   rew |-> IF lockstep THEN 0 ELSE rewindReq]
    BY <1>2, Zenon DEF ServeTake
  <2>3. RequestsRight'
    BY <2>2 DEF TapeInv, RequestsRight, Opt
  <2> QED BY <2>1, <2>3, StoreStays, ClientsUnmoved DEF TapeInv
<1>3. CASE Serve
  <2>1. UNCHANGED boxes /\ UNCHANGED cl /\ job' = NoJob
    BY <1>3, Zenon DEF Serve
  <2>2. RequestsRight'
    BY <2>1 DEF TapeInv, RequestsRight, boxes, NoJob, Opt
  <2> QED BY <1>3, <2>1, <2>2, ServeFits, ClientsUnmoved DEF TapeInv
<1>4. CASE Publish
  <2> DEFINE f == [c \in Clients |-> IF cl[c].pc \in {"post", "wait"}
                                     THEN [cl[c] EXCEPT !.moved = TRUE] ELSE cl[c]]
  <2>1. UNCHANGED <<job, boxes>> /\ UNCHANGED store /\ cl' = f
    BY <1>4 DEF Publish
  <2>2. ASSUME NEW c \in Clients
        PROVE  /\ IsClient(f[c])
               /\ f[c].pc = cl[c].pc /\ f[c].op = cl[c].op /\ f[c].arg = cl[c].arg
    <3> DEFINE r == cl[c]
               s == [r EXCEPT !.moved = TRUE]
    <3>1. IsClient(r) /\ f[c] \in {r, s}
      BY DEF TapeInv, ClientsRight
    <3> HIDE DEF r, f
    <3>2. IsClient(s) /\ s.pc = r.pc /\ s.op = r.op /\ s.arg = r.arg
      BY <3>1 DEF IsClient
    <3> HIDE DEF s
    <3> QED BY <3>1, <3>2 DEF r
  <2>3. cl' = [c \in Clients |-> f[c]]
    BY <2>1
  <2> HIDE DEF f
  <2>4. ClientsRight'
    BY <2>2, <2>3, ClientsStay DEF TapeInv
  <2> QED BY <2>1, <2>4, StoreStays, RequestsStay DEF TapeInv
<1>5. CASE Slice
  <2>1. PICK closed \in BOOLEAN : RunSlice(closed)
    BY <1>5 DEF Slice
  <2> DEFINE f == [c \in Clients |->
                     IF closed /\ cl[c].pc \in {"adv", "advout"} /\ cl[c].ran < Wrap
                     THEN [cl[c] EXCEPT !.ran = @ + 1] ELSE cl[c]]
  <2>2. /\ UNCHANGED <<job, boxes>> /\ UNCHANGED <<files, tape>> /\ cl' = f
        /\ \E i \in Inputs : machine' = IF closed THEN Played(machine, i) ELSE machine
    BY <2>1, Zenon DEF RunSlice
  <2>3. ASSUME NEW c \in Clients
        PROVE  /\ IsClient(f[c])
               /\ f[c].pc = cl[c].pc /\ f[c].op = cl[c].op /\ f[c].arg = cl[c].arg
    <3> DEFINE r == cl[c]
               s == [r EXCEPT !.ran = @ + 1]
    <3>1. IsClient(r) /\ f[c] \in {r, s}
      BY DEF TapeInv, ClientsRight
    <3> HIDE DEF r, f
    <3>2. IsClient(s) /\ s.pc = r.pc /\ s.op = r.op /\ s.arg = r.arg
      BY <3>1 DEF IsClient
    <3> HIDE DEF s
    <3> QED BY <3>1, <3>2 DEF r
  <2>4. cl' = [c \in Clients |-> f[c]]
    BY <2>2
  <2> HIDE DEF f
  <2>5. ClientsRight'
    BY <2>3, <2>4, ClientsStay DEF TapeInv
  <2>6. machine' \in Game /\ (tape.cur # NoPhoto => Past(tape.cur, machine'))
    <3>1. machine \in Game /\ Fits(tape, machine)
      BY DEF TapeInv, StoreRight
    <3>2. CASE machine' = machine
      BY <3>1, <3>2 DEF Fits
    <3>3. CASE machine' # machine
      <4>1. PICK i \in Inputs : machine' = Played(machine, i)
        BY <2>2, <3>3
      <4>2. Past(machine, machine)
        BY <3>1, PastPoints DEF Game
      <4>3. tape.cur # NoPhoto => tape.cur \in Game /\ Past(tape.cur, machine)
        BY <3>1 DEF Fits, TapeType
      <4> QED BY <3>1, <4>1, <4>2, <4>3, PastGrows
    <3> QED BY <3>2, <3>3
  <2>7. StoreRight'
    BY <2>2, <2>6 DEF TapeInv, StoreRight, Fits
  <2> QED BY <2>2, <2>5, <2>7, RequestsStay DEF TapeInv
<1>6. CASE PhotoTake
  <2>1. /\ UNCHANGED <<job, boxes>> /\ UNCHANGED <<files, machine>> /\ UNCHANGED cl
        /\ tape' = IF enabled THEN OnField(tape, machine) ELSE tape
    BY <1>6 DEF PhotoTake
  <2>2. machine \in Game /\ Fits(tape, machine)
    BY DEF TapeInv, StoreRight
  <2>3. Fits(tape', machine)
    BY <2>1, <2>2, OnFieldFits
  <2>4. Fits(tape, machine)'
    BY <2>1, <2>3 DEF Fits
  <2>5. StoreRight'
    BY <2>1, <2>4 DEF TapeInv, StoreRight
  <2> QED BY <2>1, <2>5, RequestsStay, ClientsUnmoved DEF TapeInv
<1> QED BY <1>1, <1>2, <1>3, <1>4, <1>5, <1>6 DEF Loop

\* What one client does with its own record, told by the record it then has.
LEMMA ClientTurns ==
  ASSUME TapeInv, NEW c \in Clients, NEW r, IsClient(r), AsksRight(r),
         cl' = [cl EXCEPT ![c] = r], RequestsRight', UNCHANGED store
  PROVE  TapeInv'
BY ClientMoves, StoreStays DEF TapeInv

\* The same where what it does stirs the machine of the others.
Stir(c, r) == [d \in Clients |-> IF d = c THEN r ELSE [cl[d] EXCEPT !.still = FALSE]]
LEMMA StirTurns ==
  ASSUME TapeInv, NEW c \in Clients, NEW r, IsClient(r), AsksRight(r),
         cl' = Stir(c, r), RequestsRight', UNCHANGED store
  PROVE  TapeInv'
<1> DEFINE g == Stir(c, r)
<1>1. ASSUME NEW d \in Clients PROVE IsClient(g[d]) /\ AsksRight(g[d])
  <2> DEFINE z == cl[d]
             s == [z EXCEPT !.still = FALSE]
  <2>1. IsClient(z) /\ AsksRight(z)
    BY DEF TapeInv, ClientsRight
  <2>2. g[d] \in {r, s}
    BY DEF Stir
  <2> HIDE DEF z, g
  <2>3. IsClient(s) /\ AsksRight(s)
    BY <2>1 DEF IsClient, AsksRight
  <2> HIDE DEF s
  <2> QED BY <2>2, <2>3
<1>2. g = [d \in Clients |-> g[d]]
  BY DEF Stir
<1> HIDE DEF g
<1>3. ClientsRight'
  BY <1>1, <1>2 DEF ClientsRight, IsClient, AsksRight, g
<1> QED BY <1>3, StoreStays DEF TapeInv

\* A client is in the middle of its request: it posts, waits, answers or gives up.
LEMMA ClientKeeps ==
  ASSUME TapeInv, NEW c \in Clients, ClientStep(c)
  PROVE  TapeInv'
<1> DEFINE r == cl[c]
<1>0. IsClient(r) /\ AsksRight(r)
  BY DEF TapeInv, ClientsRight
<1>1. CASE StatePost(c)
  <2> DEFINE s == [r EXCEPT !.pc = "wait"]
  <2>1. cl' = Stir(c, s) /\ UNCHANGED store /\ UNCHANGED job
    BY <1>1 DEF StatePost, StirredBy, Stir
  <2>2. /\ r.pc = "post"
        /\ saveReq' = IF r.op = "save" THEN r.arg ELSE saveReq
        /\ loadReq' = IF r.op = "load" THEN r.arg ELSE loadReq
        /\ rewindReq' = IF r.op = "rewind" THEN rewindReq + r.arg ELSE rewindReq
    BY <1>1 DEF StatePost
  <2> HIDE DEF r
  <2>3. RequestsRight'
    BY <1>0, <2>1, <2>2 DEF TapeInv, RequestsRight, AsksRight, Opt
  <2>4. IsClient(s) /\ AsksRight(s)
    BY <1>0 DEF IsClient, AsksRight
  <2> HIDE DEF s
  <2> QED BY <2>1, <2>3, <2>4, StirTurns
<1>2. CASE StateSee(c)
  <2> DEFINE s1 == [r EXCEPT !.pc = "read"]
             s2 == [r EXCEPT !.pc = "done", !.ans = None, !.late = TRUE]
  <2>1. UNCHANGED store /\ UNCHANGED <<job, boxes>>
    BY <1>2 DEF StateSee
  <2>2. cl' = [cl EXCEPT ![c] = s1] \/ cl' = [cl EXCEPT ![c] = s2]
    BY <1>2 DEF StateSee, Finish, TapeInv, ClientsRight
  <2> HIDE DEF r
  <2>3. IsClient(s1) /\ AsksRight(s1) /\ IsClient(s2) /\ AsksRight(s2)
    BY <1>0 DEF IsClient, AsksRight
  <2> HIDE DEF s1, s2
  <2> QED BY <2>1, <2>2, <2>3, ClientTurns, RequestsStay
<1>3. CASE StateRead(c)
  <2> DEFINE s == [r EXCEPT !.pc = "done", !.ans = stateMsg]
  <2>1. cl' = [cl EXCEPT ![c] = s] /\ UNCHANGED store /\ UNCHANGED <<job, boxes>>
    BY <1>3 DEF StateRead, Finish, TapeInv, ClientsRight
  <2> HIDE DEF r
  <2>2. IsClient(s) /\ AsksRight(s)
    BY <1>0 DEF IsClient, AsksRight
  <2> HIDE DEF s
  <2> QED BY <2>1, <2>2, ClientTurns, RequestsStay
<1>4. CASE AdvanceSee(c)
  <2> DEFINE s == [r EXCEPT !.pc = "advout", !.late = stepFields # 0]
  <2>1. cl' = [cl EXCEPT ![c] = s] /\ UNCHANGED store /\ UNCHANGED <<job, boxes>>
    BY <1>4 DEF AdvanceSee, TapeInv, ClientsRight
  <2> HIDE DEF r
  <2>2. IsClient(s) /\ AsksRight(s)
    BY <1>0 DEF IsClient, AsksRight
  <2> HIDE DEF s
  <2> QED BY <2>1, <2>2, ClientTurns, RequestsStay
<1>5. CASE AdvanceEnd(c)
  <2> DEFINE s == [r EXCEPT !.pc = "done", !.got = (r.arg - stepFields) % Wrap]
  <2>1. cl' = Stir(c, s) /\ UNCHANGED store /\ UNCHANGED <<job, boxes>>
    BY <1>5 DEF AdvanceEnd, StirredBy, Stir
  <2> HIDE DEF r
  <2>2. IsClient(s) /\ AsksRight(s)
    BY <1>0 DEF IsClient, AsksRight
  <2> HIDE DEF s
  <2> QED BY <2>1, <2>2, StirTurns, RequestsStay
<1>6. CASE UntilSee(c)
  <2> DEFINE s == [r EXCEPT !.pc = "untilout", !.late = ~paused,
                            !.got = IF paused /\ lastBpHit = r.arg THEN 1 ELSE 0]
  <2>1. cl' = [cl EXCEPT ![c] = s] /\ UNCHANGED store /\ UNCHANGED <<job, boxes>>
    BY <1>6 DEF UntilSee, TapeInv, ClientsRight
  <2> HIDE DEF r
  <2>2. IsClient(s) /\ AsksRight(s)
    BY <1>0 DEF IsClient, AsksRight
  <2> HIDE DEF s
  <2> QED BY <2>1, <2>2, ClientTurns, RequestsStay
<1>7. CASE UntilEnd(c)
  <2> DEFINE s == [r EXCEPT !.pc = "done"]
  <2>1. cl' = [cl EXCEPT ![c] = s] /\ UNCHANGED store /\ UNCHANGED <<job, boxes>>
    BY <1>7 DEF UntilEnd
  <2> HIDE DEF r
  <2>2. IsClient(s) /\ AsksRight(s)
    BY <1>0 DEF IsClient, AsksRight
  <2> HIDE DEF s
  <2> QED BY <2>1, <2>2, ClientTurns, RequestsStay
<1> QED BY <1>1, <1>2, <1>3, <1>4, <1>5, <1>6, <1>7 DEF ClientStep

\* A client begins a request: a slot to save or load, steps of the rewind, or no state at all.
LEMMA RequestKeeps ==
  ASSUME TapeInv, NEW c \in Clients, Request(c)
  PROVE  TapeInv'
<1> DEFINE r == cl[c]
<1>0. IsClient(r) /\ AsksRight(r)
  BY DEF TapeInv, ClientsRight
<1>1. ASSUME NEW op, NEW a, StateBegin(c, op, a),
             op = "rewind" => a \in Nat, op \in {"save", "load"} => a \in Slots
      PROVE  TapeInv'
  <2> DEFINE s == [r EXCEPT !.pc = "post", !.op = op, !.arg = a]
  <2>1. cl' = [cl EXCEPT ![c] = s] /\ UNCHANGED store /\ UNCHANGED <<job, boxes>>
    BY <1>1 DEF StateBegin, TapeInv, ClientsRight
  <2> HIDE DEF r
  <2>2. IsClient(s) /\ AsksRight(s)
    BY <1>0, <1>1 DEF IsClient, AsksRight
  <2> HIDE DEF s
  <2> QED BY <2>1, <2>2, ClientTurns, RequestsStay
<1>2. ASSUME NEW n \in Ask, AdvanceBegin(c, n) PROVE TapeInv'
  <2> DEFINE s == [r EXCEPT !.pc = "adv", !.op = "advance", !.arg = n,
                            !.still = paused /\ stepFields = 0 /\ ~Pending
                                      /\ lpc \notin {"slice", "photo"}]
  <2>1. cl' = Stir(c, s) /\ UNCHANGED store /\ UNCHANGED <<job, boxes>>
    BY <1>2 DEF AdvanceBegin, StirredBy, Stir
  <2> HIDE DEF r
  <2>2. IsClient(s) /\ AsksRight(s)
    BY <1>0 DEF IsClient, AsksRight
  <2> HIDE DEF s
  <2> QED BY <2>1, <2>2, StirTurns, RequestsStay
<1>3. ASSUME NEW a \in Addrs, UntilBegin(c, a) PROVE TapeInv'
  <2> DEFINE s == [r EXCEPT !.still = FALSE, !.pc = "until", !.op = "until", !.arg = a,
                            !.added = a \notin breakpoints]
  <2>1. cl' = Stir(c, s) /\ UNCHANGED store /\ UNCHANGED <<job, boxes>>
    BY <1>3 DEF UntilBegin, Stirred, Stir
  <2> HIDE DEF r
  <2>2. IsClient(s) /\ AsksRight(s)
    BY <1>0 DEF IsClient, AsksRight
  <2> HIDE DEF s
  <2> QED BY <2>1, <2>2, StirTurns, RequestsStay
<1>4. Ask \subseteq Nat
  BY AskAssumption
<1> QED BY <1>1, <1>2, <1>3, <1>4 DEF Request

\* Pause, resume, breakpoints, keys, a network session and the menu.
LEMMA OthersKeep ==
  ASSUME TapeInv, Control \/ Window \/ Others, "reset" \notin Uses
  PROVE  TapeInv'
<1>1. CASE Pause \/ BpDel(Addrs) \/ \E a \in Addrs : BpAdd(a) \/ BpDel({a})
  <2>1. UNCHANGED <<job, boxes>> /\ UNCHANGED store /\ UNCHANGED cl
    BY <1>1 DEF Pause, BpDel, BpAdd
  <2> QED BY <2>1, StoreStays, RequestsStay, ClientsUnmoved DEF TapeInv
<1>2. CASE Resume \/ KeyPause \/ KeyStep
  <2>1. UNCHANGED <<job, boxes>> /\ UNCHANGED store /\ cl' = Stirred
    BY <1>2 DEF Resume, KeyPause, KeyStep
  <2> QED BY <2>1, StoreStays, RequestsStay, StirredRight DEF TapeInv
<1>3. CASE NetSync \/ LiveOpts
  <2>1. UNCHANGED <<job, saveReq, loadReq, rewindReq>> /\ UNCHANGED store /\ cl' = Stirred
    BY <1>3 DEF NetSync, LiveOpts
  <2>2. RequestsRight'
    BY <2>1 DEF TapeInv, RequestsRight
  <2> QED BY <2>1, <2>2, StoreStays, StirredRight DEF TapeInv
<1>4. CASE NetStop
  <2>1. UNCHANGED <<job, boxes>> /\ UNCHANGED <<machine, files, tape>> /\ UNCHANGED cl
    BY <1>4 DEF NetStop
  <2>2. StoreRight'
    BY <2>1 DEF TapeInv, StoreRight, Fits
  <2> QED BY <2>1, <2>2, RequestsStay, ClientsUnmoved DEF TapeInv
<1>5. ASSUME NEW s \in Slots, KeyState(s) PROVE TapeInv'
  <2>1. UNCHANGED job /\ UNCHANGED store /\ cl' = Stirred
    BY <1>5 DEF KeyState
  <2>2. /\ saveReq' \in {saveReq, s} /\ loadReq' \in {loadReq, s}
        /\ rewindReq' \in {rewindReq, rewindReq + 1}
    BY <1>5 DEF KeyState
  <2>3. RequestsRight'
    BY <2>1, <2>2 DEF TapeInv, RequestsRight, Opt
  <2> QED BY <2>1, <2>3, StoreStays, StirredRight DEF TapeInv
<1>6. ~Reset
  BY DEF Reset
<1> QED BY <1>1, <1>2, <1>3, <1>4, <1>5, <1>6 DEF Control, Window, Others

----------------------------------------------------------------------------
(* TapeIsPast itself. *)

LEMMA TapeInit ==
  ASSUME Init
  PROVE  TapeInv
<1>1. ClientsRight
  BY DEF Init, ClientsRight, IsClient, AsksRight
<1>2. RequestsRight
  BY DEF Init, RequestsRight, NoJob, Opt
<1>3. StoreRight
  <2>1. machine = <<>> /\ tape = Clear /\ files = [s \in Slots |-> None]
    BY DEF Init
  <2>2. machine \in Game
    BY <2>1 DEF Game
  <2>3. Fits(tape, machine)
    BY <2>1, ClearFits
  <2>4. files \in [Slots -> Opt(Game)]
    BY <2>1 DEF Opt
  <2> QED BY <2>2, <2>3, <2>4 DEF StoreRight
<1> QED BY <1>1, <1>2, <1>3 DEF TapeInv

LEMMA TapeStep ==
  ASSUME TapeInv, [Next]_vars, "reset" \notin Uses, "badwrite" \notin Events
  PROVE  TapeInv'
<1>1. CASE UNCHANGED vars
  <2>1. UNCHANGED <<job, boxes>> /\ UNCHANGED store /\ UNCHANGED cl
    BY <1>1 DEF vars
  <2> QED BY <2>1, StoreStays, RequestsStay, ClientsUnmoved DEF TapeInv
<1>2. CASE Next
  BY <1>2, LoopKeeps, OthersKeep, ClientKeeps, RequestKeeps DEF Next
<1> QED BY <1>1, <1>2

\* Rewinding never leads into another game: with any number of clients, slots and requests, every
\* photo of the tape is a past of the next and the live one a past of the machine, whatever is
\* saved, loaded, rewound or reconfigured in between (Engine::clear, serviceStateReq, serviceSync).
\* Two things are left out, each of which breaks it: a reset (cmdRunControl) keeps the tape of the
\* game before it, and a state file that was written by half leaves its load's tape behind.
THEOREM TapeStaysPast ==
  ASSUME "reset" \notin Uses, "badwrite" \notin Events
  PROVE  Spec => []TapeIsPast
<1>1. Init => TapeInv
  BY TapeInit
<1>2. TapeInv /\ [Next]_vars => TapeInv'
  BY TapeStep
<1>3. TapeInv => TapeIsPast
  BY DEF TapeInv, StoreRight, Fits, TapeIsPast
<1> QED BY <1>1, <1>2, <1>3, PTL DEF Spec

----------------------------------------------------------------------------
(* FieldsExact: fields are run for whoever asked, and no more. *)

\* The client's frame.advance is under way and nobody else has stirred the machine.
Runs(r) == r.pc \in {"adv", "advout"} /\ r.still

\* What such a client is still owed, with n = stepFields, l = lpc and f = fadv: a
\* turn of the loop that has read the steps pays with the field that closes.
Owed(r, n, l, f) ==
  /\ r.arg \in 0 .. MaxSteps /\ r.ran \in Nat /\ r.ran + n = r.arg
  /\ l = "slice" => f # 0
  /\ l \in {"check", "slice"} /\ f # 0 => n # 0
  /\ r.pc = "advout" /\ ~r.late => n = 0
Exact(r, n, l, f) ==
  /\ r.pc = "idle" => r.ran = 0
  /\ r.op = "advance" => r.pc \in {"adv", "advout", "done"}
  /\ Runs(r) => Owed(r, n, l, f)
  /\ r.pc = "done" /\ r.op = "advance" /\ r.still /\ ~r.late => r.got = r.arg /\ r.ran = r.arg

\* A turn that has seen steps finds one to pay with, and where a field was closed that nobody
\* asked for, the loop is on its way to sleep; until an exchange(0) comes between the two.
Covered == /\ stepFields <= MaxSteps
           /\ lpc \in {"check", "slice"} /\ fadv # 0 => stepFields # 0
Quiet == /\ over \in {0, 1}
         /\ over = 1 => ~Asked /\ lpc # "slice" /\ (lpc = "check" => fadv = 0)
Calm == ~robbed => Covered /\ Quiet

Records == cl = [c \in Clients |-> cl[c]] /\ \A c \in Clients : IsClient(cl[c])
Alone == \A c \in Clients : Runs(cl[c]) => paused /\ ~Pending
StepInv == /\ Records /\ Alone /\ Calm
           /\ stepFields \in 0 .. Wrap - 1
           /\ \A c \in Clients : Exact(cl[c], stepFields, lpc, fadv)

\* The moves of the loop between two slices: it reads the steps, and sleeps or goes on.
LoopMoves ==
  \/ lpc' \notin {"check", "slice"}
  \/ UNCHANGED <<lpc, fadv>>
  \/ lpc' = "check" /\ fadv' = stepFields
  \/ lpc = "check" /\ lpc' = "slice" /\ fadv' = fadv /\ ~Sleeps

LEMMA ExactStays ==
  ASSUME NEW r, NEW n, NEW l, NEW f, NEW l2, NEW f2, Exact(r, n, l, f),
         \/ l2 \notin {"check", "slice"}
         \/ l2 = l /\ f2 = f
         \/ l2 = "check" /\ f2 = n
         \/ l = "check" /\ l2 = "slice" /\ f2 = f /\ (Runs(r) => f # 0)
  PROVE  Exact(r, n, l2, f2)
BY DEF Exact, Owed

LEMMA ExactSame ==
  ASSUME NEW r, NEW s, NEW n, NEW l, NEW f, Exact(r, n, l, f),
         s.pc = r.pc, s.op = r.op, s.arg = r.arg, s.ran = r.ran, s.got = r.got,
         s.late = r.late, s.still = r.still
  PROVE  Exact(s, n, l, f) /\ (Runs(s) <=> Runs(r))
BY DEF Exact, Owed, Runs

\* Of a client that was stirred nothing is said any more.
LEMMA ExactStirred ==
  ASSUME NEW r, NEW n, NEW l, NEW f, Exact(r, n, l, f), NEW s,
         s.pc = r.pc, s.op = r.op, s.ran = r.ran, s.still = FALSE, NEW n2, NEW l2, NEW f2
  PROVE  Exact(s, n2, l2, f2) /\ ~Runs(s)
BY DEF Exact, Runs

\* A step that runs no field and asks for none.
LEMMA FlowKept ==
  ASSUME StepInv, Records', UNCHANGED <<stepFields, over, robbed>>, paused => paused',
         Pending' => Pending, LoopMoves,
         \A c \in Clients : /\ Runs(cl'[c]) => Runs(cl[c])
                            /\ Exact(cl'[c], stepFields, lpc', fadv')
  PROVE  StepInv'
<1>1. Alone'
  BY DEF StepInv, Alone, Runs
<1>2. Calm'
  BY DEF StepInv, Calm, Covered, Quiet, LoopMoves, Asked, Sleeps
<1> QED BY <1>1, <1>2 DEF StepInv

LEMMA LoopKept ==
  ASSUME StepInv, UNCHANGED <<stepFields, over, robbed, cl>>, paused => paused',
         Pending' => Pending, LoopMoves
  PROVE  StepInv'
<1>1. Records'
  BY DEF StepInv, Records, IsClient
<1>2. ASSUME NEW c \in Clients
      PROVE  /\ Runs(cl'[c]) => Runs(cl[c])
             /\ Exact(cl'[c], stepFields, lpc', fadv')
  <2> DEFINE r == cl[c]
  <2>1. Exact(r, stepFields, lpc, fadv) /\ (Runs(r) => paused /\ ~Pending)
    BY DEF StepInv, Alone
  <2>2. \/ lpc' \notin {"check", "slice"}
        \/ lpc' = lpc /\ fadv' = fadv
        \/ lpc' = "check" /\ fadv' = stepFields
        \/ lpc = "check" /\ lpc' = "slice" /\ fadv' = fadv /\ (Runs(r) => fadv # 0)
    BY <2>1 DEF LoopMoves, Sleeps
  <2> HIDE DEF r
  <2>3. Exact(r, stepFields, lpc', fadv')
    BY <2>1, <2>2, ExactStays
  <2> QED BY <2>3 DEF r
<1> QED BY <1>1, <1>2, FlowKept

\* One client moves, and what it asks of the machine is told by the record it then has.
LEMMA TurnKept ==
  ASSUME StepInv, NEW c \in Clients, NEW r, IsClient(r), cl' = [cl EXCEPT ![c] = r],
         UNCHANGED <<stepFields, over, robbed, boxes, lpc, fadv>>, paused => paused',
         Runs(r) => Runs(cl[c]), Exact(r, stepFields, lpc, fadv)
  PROVE  StepInv'
<1>1. cl'[c] = r /\ \A d \in Clients : d # c => cl'[d] = cl[d]
  BY DEF StepInv, Records
<1>2. Records'
  <2>1. cl' = [d \in Clients |-> cl'[d]]
    BY DEF StepInv, Records
  <2> QED BY <1>1, <2>1 DEF StepInv, Records, IsClient
<1>3. \A d \in Clients : /\ Runs(cl'[d]) => Runs(cl[d])
                         /\ Exact(cl'[d], stepFields, lpc, fadv)
  BY <1>1 DEF StepInv
<1>4. UNCHANGED <<lpc, fadv, stepFields, over, robbed>> /\ LoopMoves
  BY DEF LoopMoves
<1>5. Pending' => Pending
  BY DEF Pending, boxes
<1> QED BY <1>2, <1>3, <1>4, <1>5, FlowKept

\* One client moves and stirs the others.
LEMMA StirKept ==
  ASSUME StepInv, NEW c \in Clients, NEW r, IsClient(r), cl' = Stir(c, r), Calm',
         stepFields' \in 0 .. Wrap - 1,
         Runs(r) => paused' /\ ~Pending', Exact(r, stepFields', lpc', fadv')
  PROVE  StepInv'
<1>1. cl'[c] = r /\ \A d \in Clients : d # c => cl'[d] = [cl[d] EXCEPT !.still = FALSE]
  BY DEF Stir
<1>2. ASSUME NEW d \in Clients, d # c
      PROVE  /\ IsClient(cl'[d]) /\ Exact(cl'[d], stepFields', lpc', fadv') /\ ~Runs(cl'[d])
  <2> DEFINE z == cl[d]
             s == [z EXCEPT !.still = FALSE]
  <2>1. cl'[d] = s
    BY <1>1, <1>2
  <2>2. IsClient(z) /\ Exact(z, stepFields, lpc, fadv)
    BY DEF StepInv, Records
  <2> HIDE DEF z
  <2>3. IsClient(s) /\ s.pc = z.pc /\ s.op = z.op /\ s.ran = z.ran /\ s.still = FALSE
    BY <2>2 DEF IsClient
  <2> HIDE DEF s
  <2>4. Exact(s, stepFields', lpc', fadv') /\ ~Runs(s)
    BY <2>2, <2>3, ExactStirred
  <2> QED BY <2>1, <2>3, <2>4
<1>3. Records'
  <2>1. cl' = [d \in Clients |-> cl'[d]]
    BY DEF Stir
  <2>2. \A d \in Clients : IsClient(cl'[d])
    BY <1>1, <1>2
  <2> QED BY <2>1, <2>2 DEF Records, IsClient
<1>4. Alone'
  <2>1. \A d \in Clients : Runs(cl'[d]) => paused' /\ ~Pending'
    BY <1>1, <1>2
  <2> QED BY <2>1 DEF Alone, Runs
<1>5. \A d \in Clients : Exact(cl'[d], stepFields', lpc', fadv')
  BY <1>1, <1>2
<1> QED BY <1>3, <1>4, <1>5 DEF StepInv

\* Somebody else stirs everybody.
LEMMA StirAllKept ==
  ASSUME StepInv, cl' = Stirred, over' = 0, stepFields' \in 0 .. Wrap - 1,
         UNCHANGED <<robbed, lpc, fadv>>,
         stepFields' = stepFields \/ (stepFields' = stepFields + 1 /\ stepFields < MaxSteps)
  PROVE  StepInv'
<1>1. ASSUME NEW d \in Clients
      PROVE  /\ IsClient(cl'[d]) /\ Exact(cl'[d], stepFields', lpc', fadv') /\ ~Runs(cl'[d])
  <2> DEFINE z == cl[d]
             s == [z EXCEPT !.still = FALSE]
  <2>1. cl'[d] = s
    BY DEF Stirred
  <2>2. IsClient(z) /\ Exact(z, stepFields, lpc, fadv)
    BY DEF StepInv, Records
  <2> HIDE DEF z
  <2>3. IsClient(s) /\ s.pc = z.pc /\ s.op = z.op /\ s.ran = z.ran /\ s.still = FALSE
    BY <2>2 DEF IsClient
  <2> HIDE DEF s
  <2>4. Exact(s, stepFields', lpc', fadv') /\ ~Runs(s)
    BY <2>2, <2>3, ExactStirred
  <2> QED BY <2>1, <2>3, <2>4
<1>2. Records'
  <2>1. cl' = [d \in Clients |-> cl'[d]]
    BY DEF Stirred
  <2> QED BY <1>1, <2>1 DEF Records, IsClient
<1>3. Alone'
  BY <1>1 DEF Alone, Runs
<1>4. Calm'
  BY AskAssumption DEF StepInv, Calm, Covered, Quiet
<1> QED BY <1>1, <1>2, <1>3, <1>4 DEF StepInv

\* Pause, resume, reset, breakpoints, keys, a network session and the menu.
LEMMA OthersExact ==
  ASSUME StepInv, Control \/ Window \/ Others
  PROVE  StepInv'
<1>0. stepFields \in 0 .. Wrap - 1 /\ MaxSteps \in Nat /\ MaxSteps + 1 < Wrap /\ Wrap \in Nat
  BY AskAssumption, RestAssumption DEF StepInv
<1>1. CASE Pause \/ Reset \/ BpDel(Addrs) \/ \E a \in Addrs : BpAdd(a) \/ BpDel({a})
  <2>1. /\ UNCHANGED <<stepFields, over, robbed, cl, lpc, fadv>> /\ UNCHANGED boxes
        /\ paused => paused'
    BY <1>1 DEF Pause, Reset, BpAdd, BpDel, flow
  <2> QED BY <2>1, LoopKept DEF LoopMoves, Pending, boxes
<1>2. CASE NetStop
  <2>1. /\ UNCHANGED <<stepFields, over, robbed, cl, lpc, fadv>> /\ UNCHANGED boxes
        /\ paused => paused'
    BY <1>2 DEF NetStop, flow
  <2> QED BY <2>1, LoopKept DEF LoopMoves, Pending, boxes
<1>3. CASE Resume \/ KeyPause \/ NetSync \/ LiveOpts \/ \E s \in Slots : KeyState(s)
  <2>1. cl' = Stirred /\ over' = 0 /\ stepFields' = stepFields
    BY <1>3 DEF Resume, KeyPause, NetSync, LiveOpts, KeyState, flow
  <2>2. UNCHANGED <<robbed, lpc, fadv>>
    <3>1. CASE Resume \/ KeyPause \/ NetSync \/ LiveOpts
      BY <3>1 DEF Resume, KeyPause, NetSync, LiveOpts
    <3>2. ASSUME NEW s \in Slots, KeyState(s) PROVE UNCHANGED <<robbed, lpc, fadv>>
      BY <3>2, Zenon DEF KeyState
    <3> QED BY <1>3, <3>1, <3>2
  <2>3. stepFields' \in 0 .. Wrap - 1
    BY <1>0, <2>1
  <2> QED BY <2>1, <2>2, <2>3, StirAllKept
<1>4. CASE KeyStep
  <2>1. /\ cl' = Stirred /\ over' = 0 /\ stepFields' = stepFields + 1 /\ stepFields < MaxSteps
        /\ UNCHANGED <<robbed, lpc, fadv>>
    BY <1>4 DEF KeyStep
  <2> QED BY <1>0, <2>1, StirAllKept
<1> QED BY <1>1, <1>2, <1>3, <1>4 DEF Control, Window, Others

\* A client in the middle of its request.  The end of a frame.advance takes back what is left.
LEMMA ClientExact ==
  ASSUME StepInv, NEW c \in Clients, ClientStep(c)
  PROVE  StepInv'
<1> DEFINE r == cl[c]
<1>0. IsClient(r) /\ Exact(r, stepFields, lpc, fadv) /\ cl = [d \in Clients |-> cl[d]]
  BY DEF StepInv, Records
<1>n. /\ stepFields \in 0 .. Wrap - 1 /\ MaxSteps \in Nat /\ MaxSteps + 1 < Wrap
      /\ Wrap \in Nat \ {0}
  BY AskAssumption, RestAssumption DEF StepInv
<1>1. CASE StatePost(c)
  <2> DEFINE s == [r EXCEPT !.pc = "wait"]
  <2>1. /\ cl' = Stir(c, s) /\ over' = 0 /\ UNCHANGED <<stepFields, robbed, lpc, fadv>>
        /\ r.pc = "post"
    BY <1>1 DEF StatePost, StirredBy, Stir, flow
  <2> HIDE DEF r
  <2>2. IsClient(s) /\ ~Runs(s) /\ \A n, l, f : Exact(s, n, l, f)
    BY <1>0, <2>1 DEF IsClient, Exact, Runs
  <2> HIDE DEF s
  <2>3. Calm'
    BY <2>1 DEF StepInv, Calm, Covered, Quiet
  <2> QED BY <1>n, <2>1, <2>2, <2>3, StirKept
<1>2. CASE StateSee(c)
  <2> DEFINE s1 == [r EXCEPT !.pc = "read"]
             s2 == [r EXCEPT !.pc = "done", !.ans = None, !.late = TRUE]
  <2>1. /\ UNCHANGED <<stepFields, over, robbed, boxes, lpc, fadv>>
        /\ (paused => paused') /\ r.pc = "wait"
    BY <1>2 DEF StateSee, flow
  <2>2. cl' = [cl EXCEPT ![c] = s1] \/ cl' = [cl EXCEPT ![c] = s2]
    BY <1>0, <1>2 DEF StateSee, Finish
  <2> HIDE DEF r
  <2>3. /\ IsClient(s1) /\ ~Runs(s1) /\ Exact(s1, stepFields, lpc, fadv)
        /\ IsClient(s2) /\ ~Runs(s2) /\ Exact(s2, stepFields, lpc, fadv)
    BY <1>0, <2>1 DEF IsClient, Exact, Runs
  <2> HIDE DEF s1, s2
  <2> QED BY <2>1, <2>2, <2>3, TurnKept
<1>3. CASE StateRead(c)
  <2> DEFINE s == [r EXCEPT !.pc = "done", !.ans = stateMsg]
  <2>1. /\ UNCHANGED <<stepFields, over, robbed, boxes, lpc, fadv>>
        /\ (paused => paused') /\ r.pc = "read"
    BY <1>3 DEF StateRead, flow
  <2>2. cl' = [cl EXCEPT ![c] = s]
    BY <1>0, <1>3 DEF StateRead, Finish
  <2> HIDE DEF r
  <2>3. IsClient(s) /\ ~Runs(s) /\ Exact(s, stepFields, lpc, fadv)
    BY <1>0, <2>1 DEF IsClient, Exact, Runs
  <2> HIDE DEF s
  <2> QED BY <2>1, <2>2, <2>3, TurnKept
<1>4. CASE AdvanceSee(c)
  <2> DEFINE s == [r EXCEPT !.pc = "advout", !.late = stepFields # 0]
  <2>1. /\ UNCHANGED <<stepFields, over, robbed, boxes, lpc, fadv>>
        /\ (paused => paused') /\ r.pc = "adv"
    BY <1>4 DEF AdvanceSee, flow
  <2>2. cl' = [cl EXCEPT ![c] = s]
    BY <1>0, <1>4 DEF AdvanceSee
  <2> HIDE DEF r
  <2>3. /\ IsClient(s) /\ s.pc = "advout" /\ s.late = (stepFields # 0) /\ s.op = r.op
        /\ s.arg = r.arg /\ s.ran = r.ran /\ s.still = r.still
    BY <1>0 DEF IsClient
  <2> HIDE DEF s
  <2>4. (Runs(s) => Runs(r)) /\ Exact(s, stepFields, lpc, fadv)
    BY <1>0, <2>1, <2>3 DEF Exact, Runs, Owed
  <2>5. Runs(s) => Runs(cl[c])
    BY <2>4 DEF r
  <2> QED BY <2>1, <2>2, <2>3, <2>4, <2>5, TurnKept
<1>5. CASE AdvanceEnd(c)
  <2> DEFINE s == [r EXCEPT !.pc = "done", !.got = (r.arg - stepFields) % Wrap]
  <2>1. /\ cl' = Stir(c, s) /\ stepFields' = 0 /\ UNCHANGED <<boxes, lpc, fadv, paused>>
        /\ r.pc = "advout" /\ robbed' = (lpc \in {"check", "slice"} /\ fadv # 0)
        /\ over' = IF robbed THEN 0 ELSE over
    BY <1>5 DEF AdvanceEnd, StirredBy, Stir
  <2> HIDE DEF r
  <2>2. /\ IsClient(s) /\ s.pc = "done" /\ s.got = (r.arg - stepFields) % Wrap /\ s.op = r.op
        /\ s.arg = r.arg /\ s.ran = r.ran /\ s.still = r.still /\ s.late = r.late
    BY <1>0 DEF IsClient
  <2> HIDE DEF s
  <2>3. ASSUME s.still, ~s.late PROVE s.got = s.arg /\ s.ran = s.arg
    <3>1. stepFields = 0 /\ r.arg \in 0 .. MaxSteps /\ r.ran \in Nat /\ r.ran + stepFields = r.arg
      BY <1>0, <2>1, <2>2, <2>3 DEF Exact, Runs, Owed
    <3>2. (r.arg - stepFields) % Wrap = r.arg
      BY <1>n, <3>1
    <3> QED BY <2>2, <3>1, <3>2
  <2>4. ~Runs(s) /\ Exact(s, stepFields', lpc', fadv')
    BY <2>2, <2>3 DEF Exact, Runs
  <2>5. Calm'
    <3>2. ASSUME ~robbed' PROVE Covered' /\ Quiet'
      <4>1. ~(lpc' \in {"check", "slice"} /\ fadv' # 0)
        BY <2>1, <3>2
      <4>2. over' = 0 \/ (over' = over /\ Quiet)
        BY <2>1 DEF StepInv, Calm
      <4>3. Covered'
        BY <1>n, <2>1, <4>1 DEF Covered
      <4>4. CASE over' = 0
        BY <4>3, <4>4 DEF Quiet
      <4>5. CASE over' = over /\ Quiet
        <5>1. over = 1 => ~Asked /\ lpc # "slice" /\ (lpc = "check" => fadv = 0)
          BY <4>5 DEF Quiet
        <5>2. over' \in {0, 1}
          BY <4>5 DEF Quiet
        <5>3. ~Asked => ~Asked'
          BY <1>n, <2>1 DEF Asked, Pending, boxes
        <5> QED BY <2>1, <4>3, <4>5, <5>1, <5>2, <5>3 DEF Quiet
      <4> QED BY <4>2, <4>4, <4>5
    <3> QED BY <3>2 DEF Calm
  <2>6. stepFields' \in 0 .. Wrap - 1
    BY <1>n, <2>1
  <2> QED BY <2>1, <2>2, <2>4, <2>5, <2>6, StirKept
<1>6. CASE UntilSee(c)
  <2> DEFINE s == [r EXCEPT !.pc = "untilout", !.late = ~paused,
                            !.got = IF paused /\ lastBpHit = r.arg THEN 1 ELSE 0]
  <2>1. /\ UNCHANGED <<stepFields, over, robbed, boxes, lpc, fadv>>
        /\ (paused => paused') /\ r.pc = "until"
    BY <1>6 DEF UntilSee, flow
  <2>2. cl' = [cl EXCEPT ![c] = s]
    BY <1>0, <1>6 DEF UntilSee
  <2> HIDE DEF r
  <2>3. IsClient(s) /\ ~Runs(s) /\ Exact(s, stepFields, lpc, fadv)
    BY <1>0, <2>1 DEF IsClient, Exact, Runs
  <2> HIDE DEF s
  <2> QED BY <2>1, <2>2, <2>3, TurnKept
<1>7. CASE UntilEnd(c)
  <2> DEFINE s == [r EXCEPT !.pc = "done"]
  <2>1. UNCHANGED <<stepFields, over, robbed, boxes, lpc, fadv>> /\ paused' /\ r.pc = "untilout"
    BY <1>7 DEF UntilEnd
  <2>2. cl' = [cl EXCEPT ![c] = s]
    BY <1>0, <1>7 DEF UntilEnd
  <2> HIDE DEF r
  <2>3. IsClient(s) /\ ~Runs(s) /\ Exact(s, stepFields, lpc, fadv)
    BY <1>0, <2>1 DEF IsClient, Exact, Runs
  <2> HIDE DEF s
  <2> QED BY <2>1, <2>2, <2>3, TurnKept
<1> QED BY <1>1, <1>2, <1>3, <1>4, <1>5, <1>6, <1>7 DEF ClientStep

\* A client begins a request.
LEMMA RequestExact ==
  ASSUME StepInv, NEW c \in Clients, Request(c)
  PROVE  StepInv'
<1> DEFINE r == cl[c]
<1>0. IsClient(r) /\ Exact(r, stepFields, lpc, fadv) /\ cl = [d \in Clients |-> cl[d]]
  BY DEF StepInv, Records
<1>n. /\ stepFields \in 0 .. Wrap - 1 /\ MaxSteps \in Nat /\ MaxSteps + 1 < Wrap
      /\ Wrap \in Nat \ {0} /\ Ask \subseteq 1 .. MaxSteps
  BY AskAssumption, RestAssumption DEF StepInv
<1>1. ASSUME NEW op \in {"save", "load", "rewind"}, NEW a, StateBegin(c, op, a) PROVE StepInv'
  <2> DEFINE s == [r EXCEPT !.pc = "post", !.op = op, !.arg = a]
  <2>1. UNCHANGED <<stepFields, over, robbed, boxes, lpc, fadv>> /\ (paused => paused')
    BY <1>1 DEF StateBegin, flow
  <2>2. cl' = [cl EXCEPT ![c] = s]
    BY <1>0, <1>1 DEF StateBegin
  <2> HIDE DEF r
  <2>3. IsClient(s) /\ ~Runs(s) /\ Exact(s, stepFields, lpc, fadv)
    BY <1>0 DEF IsClient, Exact, Runs
  <2> HIDE DEF s
  <2> QED BY <2>1, <2>2, <2>3, TurnKept
<1>2. ASSUME NEW n \in Ask, AdvanceBegin(c, n) PROVE StepInv'
  <2> DEFINE w == paused /\ stepFields = 0 /\ ~Pending /\ lpc \notin {"slice", "photo"}
             s == [r EXCEPT !.pc = "adv", !.op = "advance", !.arg = n, !.still = w]
  <2>1. /\ cl' = Stir(c, s) /\ stepFields' = n /\ over' = 0 /\ paused' = TRUE /\ robbed' = FALSE
        /\ UNCHANGED <<boxes, lpc, fadv>> /\ r.pc = "idle"
    BY <1>2 DEF AdvanceBegin, StirredBy, Stir
  <2>2. w => ~Pending /\ lpc # "slice"
    OBVIOUS
  <2> HIDE DEF r, w
  <2>3. /\ IsClient(s) /\ s.pc = "adv" /\ s.op = "advance" /\ s.arg = n /\ s.still = w
        /\ s.ran = r.ran
    BY <1>0 DEF IsClient
  <2> HIDE DEF s
  <2>4. r.ran = 0
    BY <1>0, <2>1 DEF Exact
  <2>5. Exact(s, n, lpc, fadv)
    BY <1>n, <2>2, <2>3, <2>4 DEF Exact, Runs, Owed
  <2>6. Runs(s) => paused' /\ ~Pending'
    BY <2>1, <2>2, <2>3 DEF Runs, Pending, boxes
  <2>7. stepFields' \in 0 .. Wrap - 1 /\ Calm'
    BY <1>n, <2>1 DEF Calm, Covered, Quiet
  <2> QED BY <2>1, <2>3, <2>5, <2>6, <2>7, StirKept
<1>3. ASSUME NEW a \in Addrs, UntilBegin(c, a) PROVE StepInv'
  <2> DEFINE s == [r EXCEPT !.still = FALSE, !.pc = "until", !.op = "until", !.arg = a,
                            !.added = a \notin breakpoints]
  <2>1. cl' = Stir(c, s) /\ over' = 0 /\ UNCHANGED <<stepFields, robbed, lpc, fadv>>
    BY <1>3 DEF UntilBegin, Stirred, Stir
  <2> HIDE DEF r
  <2>2. IsClient(s) /\ ~Runs(s) /\ \A n, l, f : Exact(s, n, l, f)
    BY <1>0 DEF IsClient, Exact, Runs
  <2> HIDE DEF s
  <2>3. Calm'
    BY <2>1 DEF StepInv, Calm, Covered, Quiet
  <2> QED BY <1>n, <2>1, <2>2, <2>3, StirKept
<1> QED BY <1>1, <1>2, <1>3 DEF Request

\* A slice pays, with the field it closes, for one step of whoever asked.
LEMMA SliceExact ==
  ASSUME StepInv, NEW closed \in BOOLEAN, RunSlice(closed)
  PROVE  StepInv'
<1>0. /\ stepFields \in 0 .. Wrap - 1 /\ MaxSteps \in Nat /\ MaxSteps + 1 < Wrap
      /\ Wrap \in Nat \ {0}
  BY AskAssumption, RestAssumption DEF StepInv
<1> DEFINE f == [c \in Clients |-> IF closed /\ cl[c].pc \in {"adv", "advout"} /\ cl[c].ran < Wrap
                                   THEN [cl[c] EXCEPT !.ran = @ + 1] ELSE cl[c]]
<1>1. /\ lpc = "slice" /\ lpc' = "photo" /\ UNCHANGED boxes /\ (paused => paused') /\ cl' = f
      /\ stepFields' = IF closed THEN Pay(stepFields, fadv) ELSE stepFields
      /\ over' = IF ~closed \/ over = 2 THEN over ELSE IF Asked THEN 0 ELSE over + 1
      /\ robbed' = robbed
  BY DEF RunSlice
<1>2. stepFields' \in 0 .. Wrap - 1
  <2>1. (stepFields - 1) % Wrap \in 0 .. Wrap - 1
    BY <1>0
  <2> QED BY <1>0, <1>1, <2>1 DEF Pay
<1>3. ASSUME ~robbed PROVE Covered' /\ Quiet'
  <2>1. /\ over = 0 /\ stepFields <= MaxSteps /\ (fadv # 0 => stepFields # 0)
    BY <1>1, <1>3 DEF StepInv, Calm, Covered, Quiet
  <2>2. /\ stepFields' <= MaxSteps
        /\ stepFields = 0 => stepFields' = 0
    <3>1. stepFields # 0 => (stepFields - 1) % Wrap = stepFields - 1
      BY <1>0
    <3> QED BY <1>0, <1>1, <2>1, <3>1 DEF Pay
  <2>3. Covered'
    BY <1>1, <2>2 DEF Covered
  <2>4. over' \in {0, 1}
    BY <1>1, <2>1
  <2>5. over' = 1 => ~Asked
    BY <1>1, <2>1
  <2>6. ~Asked => ~Asked'
    <3>1. ~Asked => stepFields = 0
      BY <1>0, <2>1 DEF Asked
    <3> QED BY <1>1, <2>2, <3>1 DEF Asked, Pending, boxes
  <2> QED BY <1>1, <2>3, <2>4, <2>5, <2>6 DEF Quiet
<1>5. Calm'
  BY <1>1, <1>3 DEF StepInv, Calm
<1>6. ASSUME NEW c \in Clients
      PROVE  /\ IsClient(f[c]) /\ (Runs(f[c]) => Runs(cl[c]))
             /\ Exact(f[c], stepFields', "photo", fadv')
  <2> DEFINE r == cl[c]
             s == [r EXCEPT !.ran = @ + 1]
  <2>0. IsClient(r) /\ Exact(r, stepFields, "slice", fadv)
    BY <1>1 DEF StepInv, Records
  <2>1. f[c] = IF closed /\ r.pc \in {"adv", "advout"} /\ r.ran < Wrap THEN s ELSE r
    OBVIOUS
  <2> HIDE DEF r, f
  <2>2. /\ IsClient(s) /\ s.pc = r.pc /\ s.op = r.op /\ s.arg = r.arg /\ s.ran = r.ran + 1
        /\ s.still = r.still /\ s.late = r.late /\ s.got = r.got
    BY <2>0 DEF IsClient
  <2> HIDE DEF s
  <2>3. CASE Runs(r)
    <3>1. /\ r.arg \in 0 .. MaxSteps /\ r.ran \in Nat /\ r.ran + stepFields = r.arg /\ fadv # 0
          /\ stepFields # 0 /\ ~(r.pc = "advout" /\ ~r.late)
      BY <2>0, <2>3 DEF Exact, Owed
    <3>2. r.ran < Wrap /\ Pay(stepFields, fadv) = stepFields - 1
      <4>1. (stepFields - 1) % Wrap = stepFields - 1
        BY <1>0, <3>1
      <4> QED BY <1>0, <3>1, <4>1 DEF Pay
    <3>3. CASE closed
      <4>1. f[c] = s /\ stepFields' = stepFields - 1
        BY <1>1, <2>1, <2>3, <3>2, <3>3 DEF Runs
      <4>2. Owed(s, stepFields - 1, "photo", fadv')
        BY <1>0, <2>2, <3>1 DEF Owed
      <4> QED BY <2>0, <2>2, <2>3, <4>1, <4>2 DEF Exact, Runs, r
    <3>4. CASE ~closed
      <4>1. f[c] = r /\ stepFields' = stepFields
        BY <1>1, <2>1, <3>4
      <4>2. Exact(r, stepFields, "photo", fadv')
        BY <2>0, ExactStays
      <4> QED BY <2>0, <4>1, <4>2 DEF r
    <3> QED BY <3>3, <3>4
  <2>4. CASE ~Runs(r)
    <3>1. Exact(r, stepFields', "photo", fadv')
      BY <2>0, <2>4 DEF Exact
    <3>2. r.pc \in {"adv", "advout"} => Exact(s, stepFields', "photo", fadv') /\ ~Runs(s)
      BY <2>0, <2>2, <2>4 DEF Exact, Runs
    <3> QED BY <2>0, <2>1, <2>2, <2>4, <3>1, <3>2 DEF r
  <2> QED BY <2>3, <2>4
<1>7. f = [c \in Clients |-> f[c]]
  OBVIOUS
<1> HIDE DEF f
<1>8. Records' /\ \A c \in Clients : Exact(cl'[c], stepFields', lpc', fadv')
  BY <1>1, <1>6, <1>7 DEF Records, IsClient
<1>9. Alone'
  <2>1. ASSUME NEW c \in Clients, Runs(cl'[c]) PROVE paused' /\ ~Pending'
    <3>1. paused /\ ~Pending
      BY <1>1, <1>6, <2>1 DEF StepInv, Alone
    <3> QED BY <1>1, <3>1 DEF Pending, boxes
  <2> QED BY <2>1 DEF Alone, Runs
<1> QED BY <1>2, <1>5, <1>8, <1>9 DEF StepInv

\* System::run.
LEMMA LoopExact ==
  ASSUME StepInv, Loop
  PROVE  StepInv'
<1>1. CASE NothingToServe \/ ServeLater \/ PhotoLater \/ PhotoTake \/ PhotoNone \/ Serve
  <2> DEFINE calm == /\ UNCHANGED <<flow, over, robbed, cl, boxes>>
                     /\ lpc' \in {"read", "publish", "top"}
  <2>a. ASSUME Serve PROVE calm
    <3>1. UNCHANGED <<flow, over, robbed, cl, boxes>>
      BY <2>a, Zenon DEF Serve
    <3>2. lpc' = IF job.save = None /\ job.load = None /\ job.rew = 0 THEN "read" ELSE "publish"
      BY <2>a, Zenon DEF Serve
    <3> QED BY <3>1, <3>2
  <2>b. ASSUME NothingToServe \/ ServeLater \/ PhotoLater \/ PhotoTake \/ PhotoNone PROVE calm
    BY <2>b DEF NothingToServe, ServeLater, PhotoLater, PhotoTake, PhotoNone
  <2>1. /\ UNCHANGED <<stepFields, over, robbed, cl>> /\ UNCHANGED boxes /\ (paused => paused')
        /\ lpc' \notin {"check", "slice"}
    <3>1. calm
      BY <1>1, <2>a, <2>b
    <3> QED BY <3>1 DEF flow
  <2> QED BY <2>1, LoopKept DEF LoopMoves, Pending, boxes
<1>2. CASE ServeTake
  <2>1. /\ UNCHANGED <<stepFields, over, robbed, cl>> /\ ~Pending' /\ (paused => paused')
        /\ lpc' \notin {"check", "slice"}
    BY <1>2 DEF ServeTake, flow, Pending
  <2> QED BY <2>1, LoopKept DEF LoopMoves
<1>3. CASE ReadSteps
  <2>1. /\ UNCHANGED <<stepFields, over, robbed, cl>> /\ UNCHANGED boxes /\ (paused => paused')
        /\ lpc' = "check" /\ fadv' = stepFields
    BY <1>3 DEF ReadSteps, flow
  <2> QED BY <2>1, LoopKept DEF LoopMoves, Pending, boxes
<1>4. CASE Check
  <2>1. /\ UNCHANGED <<stepFields, over, robbed, cl>> /\ UNCHANGED boxes /\ (paused => paused')
        /\ lpc = "check" /\ fadv' = fadv /\ lpc' = IF Sleeps THEN "top" ELSE "slice"
    BY <1>4 DEF Check, flow
  <2> QED BY <2>1, LoopKept DEF LoopMoves, Pending, boxes
<1>5. CASE Slice
  BY <1>5, SliceExact DEF Slice
<1>6. CASE Publish
  <2> DEFINE f == [c \in Clients |-> IF cl[c].pc \in {"post", "wait"}
                                     THEN [cl[c] EXCEPT !.moved = TRUE] ELSE cl[c]]
  <2>1. /\ UNCHANGED <<stepFields, over, robbed>> /\ UNCHANGED boxes /\ (paused => paused')
        /\ cl' = f /\ lpc' = "read"
    BY <1>6 DEF Publish, flow
  <2>2. ASSUME NEW c \in Clients
        PROVE  /\ IsClient(f[c]) /\ (Runs(f[c]) => Runs(cl[c]))
               /\ Exact(f[c], stepFields, lpc', fadv')
    <3> DEFINE r == cl[c]
               s == [r EXCEPT !.moved = TRUE]
    <3>1. IsClient(r) /\ Exact(r, stepFields, lpc, fadv) /\ f[c] \in {r, s}
      BY DEF StepInv, Records
    <3>2. Exact(r, stepFields, lpc', fadv')
      <4> HIDE DEF r
      <4> QED BY <2>1, <3>1, ExactStays
    <3> HIDE DEF r, f
    <3>3. /\ IsClient(s) /\ s.pc = r.pc /\ s.op = r.op /\ s.arg = r.arg /\ s.ran = r.ran
          /\ s.still = r.still /\ s.late = r.late /\ s.got = r.got
      BY <3>1 DEF IsClient
    <3> HIDE DEF s
    <3>4. Exact(s, stepFields, lpc', fadv') /\ (Runs(s) <=> Runs(r))
      BY <3>2, <3>3, ExactSame
    <3> QED BY <3>1, <3>2, <3>3, <3>4 DEF r
  <2>3. f = [c \in Clients |-> f[c]]
    OBVIOUS
  <2> HIDE DEF f
  <2>4. Records'
    BY <2>1, <2>2, <2>3 DEF Records, IsClient
  <2> QED BY <2>1, <2>2, <2>4, FlowKept DEF LoopMoves, Pending, boxes
<1> QED BY <1>1, <1>2, <1>3, <1>4, <1>5, <1>6 DEF Loop

LEMMA StepInit ==
  ASSUME Init
  PROVE  StepInv
<1>1. Records /\ \A c \in Clients : cl[c].pc = "idle" /\ cl[c].op = "none" /\ cl[c].ran = 0
  BY DEF Init, Records, IsClient
<1>2. Alone /\ \A c \in Clients : Exact(cl[c], stepFields, lpc, fadv)
  BY <1>1 DEF Alone, Exact, Runs
<1>3. Calm /\ stepFields \in 0 .. Wrap - 1
  <2>1. stepFields = 0 /\ over = 0 /\ robbed = FALSE /\ lpc = "top"
    BY DEF Init
  <2>2. Covered /\ Quiet
    BY <2>1, AskAssumption DEF Covered, Quiet
  <2>3. stepFields \in 0 .. Wrap - 1
    BY <2>1, RestAssumption
  <2> QED BY <2>1, <2>2, <2>3 DEF Calm
<1> QED BY <1>1, <1>2, <1>3 DEF StepInv

\* Fields are exact, with any number of clients, requests and keys, halts and timeouts, and
\* however their threads interleave with the loop: when nothing asks for a field any more at most
\* one still closes and no more are owed than were asked for, and a frame.advance that nobody
\* disturbs runs and reports the fields it was asked for (System::run, cmdFrameAdvance).  The one
\* exception stands in the property: after the exchange(0) of a frame.advance that ends between
\* the read and the payment of a turn, and until the next frame.advance, the first two are not
\* said, for there the count does fall below zero.
THEOREM FieldsAreExact == Spec => []FieldsExact
<1>1. Init => StepInv
  BY StepInit
<1>2. StepInv /\ [Next]_vars => StepInv'
  <2> SUFFICES ASSUME StepInv, [Next]_vars PROVE StepInv'
    OBVIOUS
  <2>1. CASE UNCHANGED vars
    <3>1. UNCHANGED <<stepFields, over, robbed, cl, lpc, fadv, paused>> /\ UNCHANGED boxes
      BY <2>1 DEF vars, flow
    <3> QED BY <3>1, LoopKept DEF LoopMoves, Pending, boxes
  <2> QED BY <2>1, LoopExact, OthersExact, ClientExact, RequestExact DEF Next
<1>3. StepInv => FieldsExact
  <2> SUFFICES ASSUME StepInv PROVE FieldsExact
    OBVIOUS
  <2>1. ~robbed => StopsWithinOne /\ StepsWereAsked
    BY DEF StepInv, Calm, Covered, Quiet, StopsWithinOne, StepsWereAsked
  <2>2. AdvanceExact
    BY DEF StepInv, Exact, AdvanceExact
  <2> QED BY <2>1, <2>2 DEF FieldsExact
<1> QED BY <1>1, <1>2, <1>3, PTL DEF Spec
=============================================================================
