------------------------------ MODULE RdpFifo ------------------------------
(***************************************************************************)
(* The RDP command FIFO in threaded mode: DPC_START / DPC_END / DPC_STATUS *)
(* writes of the thread that owns the FIFO, the snapshot of the commands   *)
(* at the kick, the guest schedule of a span, the host queue and its       *)
(* worker, the barrier that holds the CPU's clock and the MI_DP deadline.  *)
(* A command word is a member of Words: "tri" opens a command of two       *)
(* words, "sync" is SYNC_FULL; the guest may rewrite a word at any time.   *)
(***************************************************************************)
EXTENDS Naturals, Sequences

CONSTANTS MemWords,   \* RDRAM words that hold commands
          Gens,       \* rdpGenCount()
          MaxKicks,   \* bound: spans launched
          MaxPokes,   \* bound: command words the guest rewrites
          MaxTime     \* bound: guest clock of the CPU

\* With two generations DPC_END alternates them without looking (KESTREL_RDPGENS=2, to bisect).
ASSUME FifoAssumption ==
  {MemWords, Gens, MaxKicks, MaxPokes, MaxTime} \subseteq Nat \ {0} /\ Gens > 2

Words == {"nop", "tri", "sync"}
Never == MaxTime + MaxKicks + 2
Addr == 0 .. MemWords - 1
NoJob == [cur |-> 0, end |-> 0, gen |-> 0, sync |-> FALSE, syncAt |-> 0]

VARIABLES rdram,      \* command words as the guest last wrote them
          dpc,        \* [start, end, submitted, valid, frozen]
          owner,      \* the thread that drives the FIFO: "cpu" or "rsp"
          prodPc,     \* what that thread is doing
          gen, rdpShadow, rdpGenBusy,
          rdpQueue, rdpBusy, rdpWaiting,
          worker,     \* [pc, job, pos, hasResume, resume, lastEnd]
          sched,      \* [end, syncEnds, half]: guest schedule of the engine
          owed,       \* words kicked and not yet executed
          now, rspNow,\* guest clocks of the CPU and of the RSP
          cpuPc, dpPend, waivedAt,
          dpDone,     \* [armed, at, fresh]: deadline of MI_DP
          dpLog,      \* deadlines the RSP filed, to be armed at their date
          miDp, kicks, pokes

kickVars == <<rdpShadow, sched, owed, kicks, dpDone, dpLog, rdpQueue, rdpGenBusy, dpPend, rdpBusy>>
prodVars == <<dpc, prodPc, gen>>
workVars == <<worker, rdpWaiting>>
cpuVars == <<now, cpuPc, waivedAt, miDp>>
envVars == <<rdram, owner, rspNow, pokes>>
fvars == <<kickVars, prodVars, workVars, cpuVars, envVars>>

FifoInit ==
  /\ rdram \in [Addr -> Words]
  /\ dpc = [start |-> 0, end |-> 0, submitted |-> 0, valid |-> FALSE, frozen |-> FALSE]
  /\ owner \in {"cpu", "rsp"}
  /\ prodPc = "guest" /\ cpuPc = "guest"
  /\ gen = 0
  /\ rdpShadow = [g \in 0 .. Gens - 1 |-> [a \in Addr |-> "nop"]]
  /\ rdpGenBusy = [g \in 0 .. Gens - 1 |-> 0]
  /\ rdpQueue = <<>> /\ rdpBusy = FALSE /\ rdpWaiting = FALSE
  /\ worker = [pc |-> "spin", job |-> NoJob, pos |-> 0, hasResume |-> FALSE,
               resume |-> 0, lastEnd |-> 0]
  /\ sched = [end |-> 0, syncEnds |-> <<>>, half |-> FALSE]
  /\ owed = <<>>
  /\ now = 0 /\ rspNow = 0
  /\ dpPend = FALSE /\ waivedAt = Never
  /\ dpDone = [armed |-> FALSE, at |-> 0, fresh |-> FALSE] /\ dpLog = <<>>
  /\ miDp = FALSE /\ kicks = 0 /\ pokes = 0

(***************************************************************************)
(* Guest schedule.                                                         *)
(***************************************************************************)

\* The words of [a, b) as a source holds them.
Span(src, a, b) == [i \in 1 .. b - a |-> src[a + i - 1]]

\* Does a walk that starts inside (or outside) a two-word command end inside one?
EndsInside(half, ws) ==
  LET W[i \in 0 .. Len(ws)] == IF i = 0 THEN half ELSE ~W[i - 1] /\ ws[i] = "tri"
  IN  W[Len(ws)]

\* The cost pass found a SYNC_FULL that is a command, not the second half of one.
SawSyncFull(half, ws) ==
  LET W[i \in 0 .. Len(ws)] == IF i = 0 THEN half ELSE ~W[i - 1] /\ ws[i] = "tri"
  IN  \E i \in 1 .. Len(ws) : ~W[i - 1] /\ ws[i] = "sync"

\* Guest instant of the thread that kicks.
Kick == IF owner = "rsp" THEN rspNow ELSE now

Larger(a, b) == IF a >= b THEN a ELSE b

\* The engine is one: a span opens when the earlier ones have closed. Each span costs one op.
SpanEnd == Larger(sched.end, Kick) + 1

\* dpEndArmAt: a pending deadline only moves forward.
dpEndArmAt(d, at, fresh) == [armed |-> TRUE, at |-> IF d.armed THEN Larger(d.at, at) ELSE at,
                             fresh |-> fresh]

(***************************************************************************)
(* The producer: MMIO writes of the thread that owns the FIFO.             *)
(***************************************************************************)

Producing == prodPc = "guest" /\ (owner = "cpu" => cpuPc = "guest")

\* The copy is taken with the mutex held, before the job is published.
rdpSnapshot(a, b) == [rdpShadow EXCEPT ![gen] = [x \in Addr |-> IF a <= x /\ x < b THEN rdram[x] ELSE @[x]]]

Coalesces(a) == rdpQueue # <<>> /\ rdpQueue[Len(rdpQueue)].end = a /\ rdpQueue[Len(rdpQueue)].gen = gen

\* rdpSubmit with dpScheduleSpan: copy, date, file the SYNC_FULL barrier, join or queue the span.
rdpSubmit(a, b) ==
  LET ws == Span(rdram, a, b)
      sync == SawSyncFull(sched.half, ws)
      at == SpanEnd
      last == Len(rdpQueue)
  IN  /\ rdpShadow' = rdpSnapshot(a, b)
      /\ sched' = [end |-> at, half |-> EndsInside(sched.half, ws),
                   syncEnds |-> IF sync THEN Append(sched.syncEnds, at) ELSE sched.syncEnds]
      /\ owed' = owed \o ws
      /\ kicks' = kicks + 1
      /\ \/ /\ ~sync /\ UNCHANGED <<dpDone, dpLog>>
         \/ /\ sync /\ owner = "rsp" /\ dpLog' = Append(dpLog, [at |-> Kick, arm |-> at]) /\ UNCHANGED dpDone
         \/ /\ sync /\ owner = "cpu" /\ dpDone' = dpEndArmAt(dpDone, at, FALSE) /\ UNCHANGED dpLog
      /\ \/ /\ Coalesces(a)
            /\ rdpQueue' = [rdpQueue EXCEPT ![last].end = b,
                                            ![last].sync = @ \/ sync,
                                            ![last].syncAt = IF sync THEN at ELSE @]
            /\ UNCHANGED <<rdpGenBusy, dpPend>>
         \/ /\ ~Coalesces(a)
            /\ rdpQueue' = Append(rdpQueue, [cur |-> a, end |-> b, gen |-> gen, sync |-> sync, syncAt |-> at])
            /\ rdpGenBusy' = [rdpGenBusy EXCEPT ![gen] = @ + 1]
            /\ dpPend' = TRUE
      /\ rdpBusy' = TRUE
      /\ prodPc' = IF rdpWaiting THEN "notify" ELSE "guest"

\* dpcAdvance: frozen keeps the work for later.
dpcAdvance(d) ==
  \/ /\ d.frozen
     /\ dpc' = d /\ prodPc' = "guest"
     /\ UNCHANGED <<kickVars>>
  \/ /\ ~d.frozen
     /\ kicks < MaxKicks
     /\ dpc' = [d EXCEPT !.submitted = d.end]
     /\ rdpSubmit(d.submitted, d.end)

\* Ignored while a start is pending. A new buffer is installed on a command boundary.
DPC_START ==
  /\ Producing /\ ~sched.half
  /\ dpc.submitted = dpc.end /\ ~dpc.valid
  /\ \E a \in Addr : dpc' = [dpc EXCEPT !.start = a, !.valid = TRUE]
  /\ UNCHANGED <<kickVars, workVars, cpuVars, envVars, prodPc, gen>>

Least(ks) == CHOOSE k \in ks : \A j \in ks : k <= j
OtherGens == {g \in 0 .. Gens - 1 : g # gen}
FreeGens == {g \in 0 .. Gens - 1 : g # gen /\ rdpGenBusy[g] = 0}

\* DPC_END that continues the current buffer.
DPC_END_more ==
  /\ Producing /\ ~dpc.valid
  /\ \E e \in dpc.end + 1 .. MemWords : dpcAdvance([dpc EXCEPT !.end = e])
  /\ UNCHANGED <<workVars, cpuVars, envVars, gen>>

\* DPC_END with a fresh start: the lowest free generation takes the copy.
DPC_END_fresh ==
  /\ Producing /\ dpc.valid /\ FreeGens # {}
  /\ gen' = Least(FreeGens)
  /\ dpc' = [dpc EXCEPT !.valid = FALSE, !.submitted = dpc.start, !.end = dpc.start]
  /\ prodPc' = "end"
  /\ UNCHANGED <<kickVars, workVars, cpuVars, envVars>>

\* No generation free: the thread waits in rdpDrain...
DPC_END_clash ==
  /\ Producing /\ dpc.valid /\ FreeGens = {}
  /\ prodPc' = "drain"
  /\ UNCHANGED <<kickVars, workVars, cpuVars, envVars, dpc, gen>>

\* ...and takes the next one.
DPC_END_drained ==
  /\ prodPc = "drain" /\ rdpQueue = <<>> /\ ~rdpBusy
  /\ gen' = (gen + 1) % Gens
  /\ dpc' = [dpc EXCEPT !.valid = FALSE, !.submitted = dpc.start, !.end = dpc.start]
  /\ prodPc' = "end"
  /\ UNCHANGED <<kickVars, workVars, cpuVars, envVars>>

\* The rest of the fresh DPC_END, after the generation has been chosen.
DPC_END_reload ==
  /\ prodPc = "end"
  /\ \E e \in dpc.start + 1 .. MemWords : dpcAdvance([dpc EXCEPT !.end = e])
  /\ UNCHANGED <<workVars, cpuVars, envVars, gen>>

\* DPC_STATUS: freeze, or clear freeze and resume what arrived meanwhile.
DPC_STATUS_freeze ==
  /\ Producing /\ ~dpc.frozen
  /\ dpc' = [dpc EXCEPT !.frozen = TRUE]
  /\ UNCHANGED <<kickVars, workVars, cpuVars, envVars, prodPc, gen>>

DPC_STATUS_unfreeze ==
  /\ Producing /\ dpc.frozen
  /\ \/ /\ dpc.submitted # dpc.end
        /\ dpcAdvance([dpc EXCEPT !.frozen = FALSE])
     \/ /\ dpc.submitted = dpc.end
        /\ dpc' = [dpc EXCEPT !.frozen = FALSE]
        /\ UNCHANGED <<kickVars, prodPc>>
  /\ UNCHANGED <<workVars, cpuVars, envVars, gen>>

\* The guest reuses its command memory.
Poke ==
  /\ pokes < MaxPokes
  /\ \E a \in Addr, w \in Words : w # rdram[a] /\ rdram' = [rdram EXCEPT ![a] = w]
  /\ pokes' = pokes + 1
  /\ UNCHANGED <<kickVars, prodVars, workVars, cpuVars, owner, rspNow>>

(***************************************************************************)
(* Condition variable and worker.                                          *)
(***************************************************************************)

Woken(w) == IF w.pc = "asleep" THEN [w EXCEPT !.pc = "lock"] ELSE w

\* notify_one may pick the thread that drains.
notifyOne ==
  /\ prodPc = "notify" /\ prodPc' = "guest"
  /\ worker' = IF cpuPc = "drain" THEN worker ELSE Woken(worker)
  /\ UNCHANGED <<kickVars, cpuVars, envVars, dpc, gen, rdpWaiting>>

\* The notification of rdpSubmit, outside the mutex: every waiter wakes.
notifyAll ==
  /\ prodPc = "notify" /\ prodPc' = "guest"
  /\ worker' = Woken(worker)
  /\ UNCHANGED <<kickVars, cpuVars, envVars, dpc, gen, rdpWaiting>>

\* The worker takes the mutex: it pops a job, or goes to sleep and says so.
workerTake ==
  /\ worker.pc \in {"spin", "lock"}
  /\ \/ /\ rdpQueue = <<>>
        /\ rdpWaiting' = TRUE /\ worker' = [worker EXCEPT !.pc = "asleep"]
        /\ UNCHANGED rdpQueue
     \/ /\ rdpQueue # <<>>
        /\ rdpWaiting' = FALSE
        /\ rdpQueue' = Tail(rdpQueue)
        /\ LET j == Head(rdpQueue)
               from == IF worker.hasResume /\ j.cur = worker.lastEnd THEN worker.resume ELSE j.cur
           IN  worker' = [pc |-> "run", job |-> j, pos |-> from, hasResume |-> FALSE,
                          resume |-> 0, lastEnd |-> j.end]
  /\ UNCHANGED <<prodVars, cpuVars, envVars, rdpShadow, rdpGenBusy, rdpBusy, sched, owed, dpPend,
                 dpDone, dpLog, kicks>>

CmdLen(w) == IF w = "tri" THEN 2 ELSE 1

\* rdpRunJob, one command: a command cut by the end of the span waits for the next one.
rdpRunJob ==
  /\ worker.pc = "run"
  /\ LET j == worker.job
         n == CmdLen(rdpShadow[j.gen][worker.pos])
     IN  \/ /\ worker.pos < j.end /\ worker.pos + n <= j.end
            /\ worker' = [worker EXCEPT !.pos = @ + n]
            /\ owed' = SubSeq(owed, n + 1, Len(owed))
         \/ /\ worker.pos < j.end /\ worker.pos + n > j.end
            /\ worker' = [worker EXCEPT !.pc = "done", !.hasResume = TRUE, !.resume = worker.pos]
            /\ UNCHANGED owed
         \/ /\ worker.pos >= j.end
            /\ worker' = [worker EXCEPT !.pc = "done"]
            /\ UNCHANGED owed
  /\ UNCHANGED <<prodVars, cpuVars, envVars, rdpShadow, rdpGenBusy, rdpQueue, rdpBusy, rdpWaiting,
                 sched, dpPend, dpDone, dpLog, kicks>>

\* The dates up to the one the job painted leave from the front.
SyncsAfter(q, job) ==
  LET later == {i \in DOMAIN q : q[i] > job.syncAt}
  IN  IF ~job.sync THEN q ELSE IF later = {} THEN <<>> ELSE SubSeq(q, Least(later), Len(q))

\* Everything the worker retires with the mutex held; the barrier falls when the queue is empty.
workerRetire ==
  /\ worker.pc = "done"
  /\ worker' = [worker EXCEPT !.pc = "spin", !.job = NoJob, !.pos = 0]
  /\ rdpGenBusy' = [rdpGenBusy EXCEPT ![worker.job.gen] = @ - 1]
  /\ rdpBusy' = (rdpQueue # <<>>)
  /\ dpPend' = (rdpQueue # <<>>)
  /\ sched' = [sched EXCEPT !.syncEnds = IF rdpQueue = <<>> THEN <<>> ELSE SyncsAfter(@, worker.job)]
  /\ waivedAt' = IF rdpQueue = <<>> THEN Never ELSE waivedAt
  /\ UNCHANGED <<prodVars, envVars, rdpShadow, rdpQueue, rdpWaiting, owed, now, cpuPc, dpDone, dpLog,
                 miDp, kicks>>

(***************************************************************************)
(* The CPU's clock: retire, barrier, deadline, drain.                      *)
(***************************************************************************)

\* Oldest SYNC_FULL still to be painted, the barrier with the GPU rasterizer alive.
dpBarrierAt == IF sched.syncEnds = <<>> THEN Never ELSE Head(sched.syncEnds)

\* The CPU is between two instructions.
Retiring == cpuPc = "guest" /\ (owner = "cpu" => prodPc = "guest")

\* An instruction retires; with the RSP's task alive the CPU stays behind the RSP's clock.
Tick ==
  /\ Retiring /\ now < MaxTime
  /\ owner = "rsp" => now < rspNow
  /\ now' = now + 1
  /\ cpuPc' = "retire"
  /\ UNCHANGED <<kickVars, prodVars, workVars, envVars, waivedAt, miDp>>

RspTick ==
  /\ owner = "rsp" /\ prodPc = "guest" /\ rspNow < MaxTime
  /\ rspNow' = rspNow + 1
  /\ UNCHANGED <<kickVars, prodVars, workVars, cpuVars, rdram, owner, pokes>>

\* rcpRetire, first half: the deadlines filed up to now are armed.
retireLog ==
  /\ cpuPc = "retire"
  /\ \/ /\ dpLog # <<>> /\ Head(dpLog).at <= now
        /\ dpDone' = dpEndArmAt(dpDone, Head(dpLog).arm,
                                Head(dpLog).at >= now /\ ~(dpDone.armed /\ dpDone.at <= now))
        /\ dpLog' = Tail(dpLog) /\ UNCHANGED cpuPc
     \/ /\ ~(dpLog # <<>> /\ Head(dpLog).at <= now)
        /\ cpuPc' = "barrier" /\ UNCHANGED <<dpDone, dpLog>>
  /\ UNCHANGED <<prodVars, workVars, envVars, rdpShadow, rdpGenBusy, rdpQueue, rdpBusy, sched, owed,
                 now, dpPend, waivedAt, miDp, kicks>>

\* Does the clock stop at the barrier?
dpHeldNever == FALSE
dpHeld == dpPend /\ now >= dpBarrierAt /\ dpBarrierAt # waivedAt

\* Second half: past the barrier, what is due is published.
dpBarrierWait ==
  /\ cpuPc = "barrier" /\ ~dpHeld
  /\ cpuPc' = "guest"
  /\ \/ /\ dpDone.armed /\ now >= dpDone.at /\ ~dpDone.fresh
        /\ dpDone' = [dpDone EXCEPT !.armed = FALSE]
        /\ miDp' = TRUE
     \/ /\ ~(dpDone.armed /\ now >= dpDone.at /\ ~dpDone.fresh)
        /\ dpDone' = [dpDone EXCEPT !.fresh = FALSE]
        /\ UNCHANGED miDp
  /\ UNCHANGED <<prodVars, workVars, envVars, rdpShadow, rdpGenBusy, rdpQueue, rdpBusy, sched, owed,
                 now, dpPend, waivedAt, dpLog, kicks>>

\* The worker published nothing for kBarrierMaxWait: the barrier lets go for this value.
dpBarrierWaive ==
  /\ cpuPc = "barrier" /\ dpHeld
  /\ waivedAt' = dpBarrierAt
  /\ UNCHANGED <<kickVars, prodVars, workVars, envVars, now, cpuPc, miDp>>

\* The guest acknowledges the interrupt.
AckDp ==
  /\ miDp /\ Retiring /\ miDp' = FALSE
  /\ UNCHANGED <<kickVars, prodVars, workVars, envVars, now, cpuPc, waivedAt>>

\* rdpDrain from the CPU (a savestate, a quiesce): until the queue is empty and the worker idle.
rdpDrain ==
  /\ \/ Retiring /\ rdpBusy /\ cpuPc' = "drain"
     \/ cpuPc = "drain" /\ rdpQueue = <<>> /\ ~rdpBusy /\ cpuPc' = "guest"
  /\ UNCHANGED <<kickVars, prodVars, workVars, envVars, now, waivedAt, miDp>>

FifoNext ==
  \/ DPC_START \/ DPC_END_more \/ DPC_END_fresh \/ DPC_END_clash \/ DPC_END_drained \/ DPC_END_reload
  \/ DPC_STATUS_freeze \/ DPC_STATUS_unfreeze \/ Poke
  \/ notifyAll \/ workerTake \/ rdpRunJob \/ workerRetire
  \/ Tick \/ RspTick \/ retireLog \/ dpBarrierWait \/ dpBarrierWaive \/ AckDp \/ rdpDrain

(***************************************************************************)
(* Properties.                                                             *)
(***************************************************************************)

JobWords(j) == Span(rdpShadow[j.gen], j.cur, j.end)

QueueWords(q) ==
  LET Q[i \in 0 .. Len(q)] == IF i = 0 THEN <<>> ELSE Q[i - 1] \o JobWords(q[i])
  IN  Q[Len(q)]

\* What the worker still has to read of the span it left or is in.
Unread ==
  IF worker.pc = "run" THEN Span(rdpShadow[worker.job.gen], worker.pos, worker.job.end)
  ELSE IF worker.hasResume THEN Span(rdpShadow[IF rdpQueue = <<>> THEN gen ELSE Head(rdpQueue).gen], worker.resume, worker.lastEnd)
  ELSE <<>>

\* The rasterizer executes exactly the words that were in RDRAM when each span was kicked, in
\* order and once, whatever the guest writes over its command memory afterwards and however far
\* the producer runs ahead (rdpSnapshot, the generations of the shadow, the split-command resume).
ExecutesTheKick == Unread \o QueueWords(rdpQueue) = owed

\* A worker asleep on rdpCv with work queued has a notification on its way (rdpSubmit, rdpWaiting).
NoLostWakeup == worker.pc = "asleep" /\ rdpQueue # <<>> => prodPc = "notify"

\* MI_DP is published only when every SYNC_FULL whose date has come has been painted: the guest
\* is never told of a frame that is not in RDRAM, unless the barrier was waived for lack of
\* progress (rcpRetire puts the barriers before the deadlines).
PixelsFirst ==
  [][~miDp /\ miDp' =>
       \/ waivedAt # Never
       \/ /\ \A i \in 1 .. Len(rdpQueue) : ~(rdpQueue[i].sync /\ rdpQueue[i].syncAt <= now)
          /\ ~(worker.job.sync /\ worker.job.syncAt <= now)]_fvars
=============================================================================
