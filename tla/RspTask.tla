------------------------------ MODULE RspTask ------------------------------
(***************************************************************************)
(* The handshake of the CPU and the RSP worker in threaded mode: SP_STATUS *)
(* writes dated on the CPU's clock and read on the RSP's, the barrier that *)
(* keeps the CPU behind the published RSP clock, the rendezvous of the RSP *)
(* with the CPU, BREAK, the deadline that publishes HALT and the launch.   *)
(* The guest is a command queue: the CPU leaves work in RDRAM and flushes  *)
(* with two writes SET_SIG|CLEAR_HALT; the RSP fetches by DMA, checks the  *)
(* signal, and breaks when it is clear; the instruction after the BREAK    *)
(* clears the signal and fetches again. INTR_ON_BREAK is off.  Every wait  *)
(* of the code also ends by the clock on the wall, after a second on the   *)
(* CPU's side (kBarrierMaxWait) and 20 ms or 2 s on the RSP's              *)
(* (rdvWaiveDue), with what was waited for still to come: these waivers    *)
(* are left out, so that what is checked here is what needs none of them.  *)
(***************************************************************************)
EXTENDS Naturals, Sequences

CONSTANTS Leads,      \* spLeadOps(): ops the CPU may be ahead of the RSP
          Grains,     \* spSigQuant(): grain of the CPU's signals as the RSP sees them
          RingN,      \* kSpSigN
          MaxAt,      \* bound: guest clock
          MaxPosts    \* bound: times the CPU leaves work

ASSUME TaskAssumption == /\ Leads \subseteq Nat /\ Grains \subseteq Nat \ {0}
                         /\ {RingN, MaxAt, MaxPosts} \subseteq Nat \ {0}

VARIABLES lead, grain,
          withdraws,              \* may the CPU take its signal back?
          cpuAt, cpc,             \* the CPU's clock and what it does: "retire", "exec", "relaunch"
          posts, flushes, work,   \* work in RDRAM, flush writes still to do
          rspAt, rspPub,          \* exact and published clock of the RSP
          rpc, rwait,             \* its next instruction, and whether it waits for the CPU
          sig, halted, ring,      \* SP_STATUS: a signal bit, HALT, spSigRing
          spLog,                  \* SP_STATUS writes of the RSP in the journal: their dates
          busy, spKick,           \* rspBusy, rspKick
          barrier, ending, doneAt,\* rcpPend bits 8 and 1, spDoneAt
          reveal,                 \* last instant whose writes a launch or a DMA revealed
          hist                    \* every write of the signal: [at, v, rsp] in host order

clockVars == <<lead, grain, withdraws>>
taskVars == <<busy, spKick, barrier, ending, doneAt>>
tvars == <<clockVars, reveal, cpuAt, cpc, posts, flushes, work, rspAt, rspPub, rpc, rwait, sig, halted, ring,
           spLog, taskVars, hist, reveal>>

TaskInit ==
  /\ lead \in Leads /\ grain \in Grains /\ withdraws \in BOOLEAN
  /\ cpuAt = 0 /\ cpc = "exec" /\ posts = 0 /\ flushes = 0 /\ work = FALSE
  /\ rspAt = 0 /\ rspPub = 0 /\ rpc = "idle" /\ rwait = FALSE
  /\ sig = FALSE /\ halted = TRUE /\ ring = <<>> /\ spLog = <<>>
  /\ busy = FALSE /\ spKick = FALSE /\ barrier = FALSE /\ ending = FALSE /\ doneAt = 0
  /\ hist = <<>> /\ reveal = 0

RoundUp(t) == ((t + grain - 1) \div grain) * grain
RoundDown(t) == (t \div grain) * grain

(***************************************************************************)
(* The ring of the CPU's signal writes.                                    *)
(***************************************************************************)

\* spSigAtKick: everything written before a launch is visible at its own edge.
spSigAtKick(r) == [k \in DOMAIN r |-> [r[k] EXCEPT !.stamp = r[k].raw, !.late = FALSE]]

\* spSigUpTo: what a DMA reveals takes the signals written before it with it.
spSigUpTo(r, upto, t) ==
  [k \in DOMAIN r |->
     IF \A j \in 1 .. k : r[j].raw <= upto
     THEN [r[k] EXCEPT !.stamp = IF r[k].raw <= t THEN r[k].raw ELSE t, !.late = FALSE] ELSE r[k]]

\* First entry of a set of positions, 0 when there is none.
First(ks) == IF ks = {} THEN 0 ELSE CHOOSE k \in ks : \A j \in ks : k <= j

\* spLateClearHalt: a CLEAR_HALT up to t whose signal the RSP could not see yet.
spLateClearHalt(r, t) == First({k \in DOMAIN r : r[k].late /\ r[k].mask /\ \A j \in 1 .. k : r[j].raw <= t})

\* spClearHaltAfter: a CLEAR_HALT that fell between the BREAK and the end published.
spClearHaltAfter(r, t) == First({k \in DOMAIN r : r[k].late /\ r[k].raw > t})

Served(r, k) == [r EXCEPT ![k].late = FALSE]

\* spStatusForRsp: entries whose date has come leave the ring, the others are undone.
Seen(r, t) ==
  LET due == {k \in DOMAIN r : \A j \in 1 .. k : r[j].stamp <= t}
  IN  SubSeq(r, First(DOMAIN r \ due) + IF due = DOMAIN r THEN Len(r) + 1 ELSE 0, Len(r))

SeenNow(r, t) == sig
SeenSig(r, t) ==
  LET rest == Seen(r, t)
      k == First({j \in DOMAIN rest : rest[j].mask})
  IN  IF k = 0 THEN sig ELSE rest[k].prev

(***************************************************************************)
(* Launch.                                                                 *)
(***************************************************************************)

\* rsp.start latched on the CPU thread, rspSubmitKick, spMarkKick: RSP cycle 1 is the next edge.
rspSubmitKick ==
  /\ busy' = TRUE /\ spKick' = TRUE /\ barrier' = TRUE
  /\ rspAt' = cpuAt + 1 /\ rspPub' = cpuAt

\* rspWorkerLoop takes the kick and runs.
workerStart ==
  /\ rpc = "idle" /\ spKick
  /\ spKick' = FALSE /\ rpc' = "clear"
  /\ UNCHANGED <<clockVars, cpuAt, cpc, posts, flushes, work, rspAt, rspPub, rwait, sig, halted, ring,
                 spLog, busy, barrier, ending, doneAt, hist, reveal>>

\* After step(): rspBusy falls under the mutex.
workerDone ==
  /\ rpc = "ended"
  /\ rpc' = "idle" /\ busy' = FALSE /\ barrier' = FALSE
  /\ UNCHANGED <<clockVars, cpuAt, cpc, posts, flushes, work, rspAt, rspPub, rwait, sig, halted, ring,
                 spLog, spKick, ending, doneAt, hist, reveal>>

(***************************************************************************)
(* The CPU.                                                                *)
(***************************************************************************)

\* spBarrierWait: the CPU stands until the RSP has published past its clock, less the lead (or, in
\* the code, for a second).
SpHeld(ld) == barrier /\ cpuAt + 1 > rspPub + ld

\* The end of an instruction.
Retired == cpc' = "retire" /\ cpuAt' = cpuAt + 1

\* An instruction that touches nothing here.
cpuInstr ==
  /\ cpc = "exec" /\ cpuAt < MaxAt
  /\ Retired
  /\ UNCHANGED <<clockVars, posts, flushes, work, rspAt, rspPub, rpc, rwait, sig, halted, ring, spLog,
                 taskVars, hist, reveal>>

\* A store that reaches RDRAM stands at the barrier with no lead (cpuRamWrBarrier).
cpuRamWrite ==
  /\ cpc = "exec" /\ cpuAt < MaxAt /\ flushes = 0 /\ posts < MaxPosts
  /\ ~SpHeld(0)
  /\ work' = TRUE /\ flushes' = 2 /\ posts' = posts + 1
  /\ Retired
  /\ UNCHANGED <<clockVars, rspAt, rspPub, rpc, rwait, sig, halted, ring, spLog, taskVars, hist, reveal>>

\* A full ring loses its oldest entry, which becomes visible at once.
Push(r, e) == Append(IF Len(r) = RingN THEN Tail(r) ELSE r, e)

SigEntry(stamp, v, late) ==
  [stamp |-> stamp, raw |-> cpuAt + 1, mask |-> sig # v, prev |-> sig, late |-> late]

\* SP_STATUS write on a halted core: it waits for the worker to wind down, then launches.
SP_STATUS_launch ==
  /\ cpc = "exec" /\ cpuAt < MaxAt /\ flushes > 0
  /\ halted /\ ~busy
  /\ flushes' = flushes - 1
  /\ halted' = FALSE /\ sig' = TRUE
  /\ ring' = spSigAtKick(IF sig THEN ring ELSE Push(ring, SigEntry(RoundUp(cpuAt + 1), TRUE, FALSE)))
  /\ hist' = Append(hist, [at |-> cpuAt + 1, v |-> TRUE, rsp |-> FALSE])
  /\ rspSubmitKick
  /\ reveal' = cpuAt + 1
  /\ Retired
  /\ UNCHANGED <<clockVars, posts, work, rpc, rwait, spLog, ending, doneAt>>

\* The same write on a core that looks alive: the signal and the CLEAR_HALT are filed with their date.
SP_STATUS_running ==
  /\ cpc = "exec" /\ cpuAt < MaxAt /\ flushes > 0
  /\ ~halted
  /\ flushes' = flushes - 1
  /\ sig' = TRUE
  /\ ring' = Push(ring, SigEntry(RoundUp(cpuAt + 1), TRUE, TRUE))
  /\ hist' = Append(hist, [at |-> cpuAt + 1, v |-> TRUE, rsp |-> FALSE])
  /\ Retired
  /\ UNCHANGED <<clockVars, posts, work, rspAt, rspPub, rpc, rwait, halted, spLog, taskVars, reveal>>

\* A lone CLEAR_SIG of the CPU: no CLEAR_HALT comes with it, and nothing is filed when nothing changes.
SP_STATUS_clear ==
  /\ cpc = "exec" /\ cpuAt < MaxAt /\ withdraws /\ flushes = 0 /\ ~work /\ sig
  /\ sig' = FALSE
  /\ ring' = Push(ring, SigEntry(RoundUp(cpuAt + 1), FALSE, FALSE))
  /\ hist' = Append(hist, [at |-> cpuAt + 1, v |-> FALSE, rsp |-> FALSE])
  /\ Retired
  /\ UNCHANGED <<clockVars, posts, flushes, work, rspAt, rspPub, rpc, rwait, halted, spLog, taskVars, reveal>>

\* dpLogApply of an SP_STATUS write of the RSP: only the bits it changes stop being undone.
RspWrites(v) ==
  /\ sig' = v
  /\ ring' = [k \in DOMAIN ring |-> [ring[k] EXCEPT !.mask = @ /\ sig = v]]

\* The journal, in retire and while the CPU stands at the barrier.
dpLogApply ==
  /\ cpc = "retire" /\ spLog # <<>> /\ Head(spLog) <= cpuAt
  /\ RspWrites(FALSE) /\ spLog' = Tail(spLog)
  /\ UNCHANGED <<clockVars, cpuAt, cpc, posts, flushes, work, rspAt, rspPub, rpc, rwait, halted,
                 taskVars, hist, reveal>>

NothingDue == ~(spLog # <<>> /\ Head(spLog) <= cpuAt) /\ ~SpHeld(lead)

\* rcpRetire past the barrier with no end due.
retireOn ==
  /\ cpc = "retire" /\ NothingDue /\ ~(ending /\ cpuAt >= doneAt)
  /\ cpc' = "exec"
  /\ UNCHANGED <<clockVars, cpuAt, posts, flushes, work, rspAt, rspPub, rpc, rwait, sig, halted, ring,
                 spLog, taskVars, hist, reveal>>

\* rcpFlushPending: the end is published, or a CLEAR_HALT after the BREAK launches again.
retireEnd ==
  /\ cpc = "retire" /\ NothingDue /\ ending /\ cpuAt >= doneAt
  /\ ending' = FALSE
  /\ LET k == spClearHaltAfter(ring, doneAt - lead)
     IN  \/ /\ lead > 0 /\ k # 0
            /\ cpc' = "relaunch" /\ ring' = spSigAtKick(Served(ring, k)) /\ UNCHANGED halted
         \/ /\ ~(lead > 0 /\ k # 0)
            /\ cpc' = "exec" /\ halted' = TRUE /\ UNCHANGED ring
  /\ UNCHANGED <<clockVars, cpuAt, posts, flushes, work, rspAt, rspPub, rpc, rwait, sig, spLog, busy,
                 spKick, barrier, doneAt, hist, reveal>>

relaunch ==
  /\ cpc = "relaunch" /\ ~busy
  /\ cpc' = "exec"
  /\ rspSubmitKick
  /\ reveal' = cpuAt
  /\ UNCHANGED <<clockVars, cpuAt, posts, flushes, work, rpc, rwait, sig, halted, ring, spLog, ending,
                 doneAt, hist>>

(***************************************************************************)
(* The RSP.                                                                *)
(***************************************************************************)

\* The instant of the CPU the next instruction of the RSP needs.
SyncTarget ==
  IF rpc = "check" THEN RoundDown(rspAt)
  ELSE IF rpc = "fetch" \/ (rpc = "break" /\ grain > 1) THEN rspAt ELSE 0

\* mfc0 SP_STATUS also needs its own writes out of the journal.
RspReady == cpuAt >= SyncTarget /\ (rpc = "check" => spLog = <<>>)

publishExact == rspPub' = rspAt

\* spReadSync, dpLogWait: the RSP publishes its exact clock, then waits.
rspWaits ==
  /\ rpc \in {"fetch", "check", "break"} /\ ~rwait /\ ~RspReady
  /\ rwait' = TRUE /\ publishExact
  /\ UNCHANGED <<clockVars, cpuAt, cpc, posts, flushes, work, rspAt, rpc, sig, halted, ring, spLog,
                 taskVars, hist, reveal>>

RspGoes(next) == rpc' = next /\ rspAt' = rspAt + 1 /\ rwait' = FALSE

\* The end of a batch of instructions publishes the clock.
rspTanda ==
  /\ rpc \in {"fetch", "check", "clear", "break"} /\ ~rwait /\ rspPub < rspAt
  /\ rspPub' = rspAt
  /\ UNCHANGED <<clockVars, cpuAt, cpc, posts, flushes, work, rspAt, rpc, rwait, sig, halted, ring,
                 spLog, taskVars, hist, reveal>>

\* DMA of the queue: it reads RDRAM as it is, and the signals written before come with it.
rspFetch ==
  /\ rpc = "fetch" /\ RspReady /\ rspAt < MaxAt + 2
  /\ work' = FALSE /\ reveal' = rspAt
  /\ ring' = IF grain > 1 THEN spSigUpTo(ring, IF cpuAt > rspAt THEN cpuAt ELSE rspAt, rspAt) ELSE ring
  /\ rspPub' = rspAt
  /\ RspGoes("check")
  /\ UNCHANGED <<clockVars, cpuAt, cpc, posts, flushes, sig, halted, spLog, taskVars, hist>>

\* The microcode works on what it fetched.
rspInstr ==
  /\ rpc = "check" /\ ~rwait /\ rspAt < MaxAt + 2
  /\ RspGoes("check")
  /\ UNCHANGED <<clockVars, cpuAt, cpc, posts, flushes, work, rspPub, sig, halted, ring, spLog, taskVars,
                 hist, reveal>>

\* MFC0 SP_STATUS and the branch on the signal.
rspCheck ==
  /\ rpc = "check" /\ RspReady /\ rspAt < MaxAt + 2
  /\ ring' = Seen(ring, rspAt)
  /\ RspGoes(IF SeenSig(ring, rspAt) THEN "clear" ELSE "break")
  /\ UNCHANGED <<clockVars, cpuAt, cpc, posts, flushes, work, rspPub, sig, halted, spLog, taskVars, hist, reveal>>

\* MTC0 SP_STATUS clears the signal: filed with its date, applied by the CPU.
rspClear ==
  /\ rpc = "clear" /\ rspAt < MaxAt + 2
  /\ spLog' = Append(spLog, rspAt)
  /\ hist' = Append(hist, [at |-> rspAt, v |-> FALSE, rsp |-> TRUE])
  /\ rspPub' = rspAt
  /\ RspGoes("fetch")
  /\ UNCHANGED <<clockVars, cpuAt, cpc, posts, flushes, work, sig, halted, ring, taskVars, reveal>>

\* BREAK undone: the CLEAR_HALT that came with an unseen signal launches again.
rspBreakOn ==
  /\ rpc = "break" /\ RspReady /\ grain > 1 /\ rspAt < MaxAt + 2
  /\ LET k == spLateClearHalt(ring, rspAt)
     IN  k # 0 /\ ring' = Served(ring, k)
  /\ RspGoes("clear")
  /\ UNCHANGED <<clockVars, cpuAt, cpc, posts, flushes, work, rspPub, sig, halted, spLog, taskVars, hist, reveal>>

spDateOps == rspAt + lead

\* BREAK: spEndArm dates the end; the deadline takes the place of the barrier.
rspBreak ==
  /\ rpc = "break" /\ RspReady
  /\ grain > 1 => spLateClearHalt(ring, rspAt) = 0
  /\ doneAt' = spDateOps
  /\ ending' = TRUE /\ barrier' = FALSE
  /\ rpc' = "ended" /\ rwait' = FALSE /\ rspPub' = rspAt
  /\ UNCHANGED <<clockVars, cpuAt, cpc, posts, flushes, work, rspAt, sig, halted, ring, spLog, busy,
                 spKick, hist, reveal>>

TaskNext ==
  \/ workerStart \/ workerDone
  \/ cpuInstr \/ cpuRamWrite \/ SP_STATUS_launch \/ SP_STATUS_running \/ SP_STATUS_clear
  \/ dpLogApply \/ retireOn \/ retireEnd \/ relaunch
  \/ rspWaits \/ rspTanda \/ rspFetch \/ rspInstr \/ rspCheck \/ rspClear \/ rspBreakOn \/ rspBreak

(***************************************************************************)
(* Properties.                                                             *)
(***************************************************************************)

\* The RSP waiting for the CPU and the CPU waiting for the RSP never face each other: the RSP
\* publishes its exact clock before every rendezvous (rsp.cpp mtc0, spReadSync, spBarrierWait).
NoEmbrace ==
  rwait /\ ~RspReady =>
    ~(\/ cpc = "retire" /\ SpHeld(lead) /\ ~(spLog # <<>> /\ Head(spLog) <= cpuAt)
      \/ cpc \in {"exec", "relaunch"} /\ busy /\ (halted \/ cpc = "relaunch")
      \/ cpc = "exec" /\ SpHeld(0) /\ cpuAt < SyncTarget)

\* Work that was left and flushed twice is never stranded behind a stopped RSP, whatever the
\* grain of the signals and the lead of the CPU (spLateClearHalt, spClearHaltAfter).
NoTaskLost ==
  ~(work /\ flushes = 0 /\ halted /\ ~busy /\ ~ending /\ cpc = "exec")

\* The end of a task is never dated in the CPU's past: MI_SP and HALT fall on a guest instant and
\* not on a host one (spEndArm adds the lead the barrier grants).
EndNotLate == ending /\ rpc \in {"ended"} => doneAt >= cpuAt

\* The signal after every write of the RSP and every write of the CPU up to c, in guest order; at
\* the same instant the CPU's edge comes first.
Dated(c) ==
  LET ks == {k \in DOMAIN hist : hist[k].rsp \/ hist[k].at <= c}
      last == {k \in ks : \A j \in ks \ {k} : hist[j].at < hist[k].at
                                             \/ (hist[j].at = hist[k].at /\ ~hist[j].rsp)}
  IN  IF ks = {} THEN FALSE ELSE hist[CHOOSE k \in last : TRUE].v

Later(a, b) == IF a >= b THEN a ELSE b

\* A read of SP_STATUS by the RSP returns what the signal was, on the guest's clock, at the last
\* edge of the grain or at the last launch or DMA if that is later: no instant of the host takes
\* part (spStatusForRsp, spSigUpTo, spReadSync; with a lead the RSP reads the CPU's future).
SignalAtItsDate ==
  [][rpc = "check" /\ rpc' \in {"clear", "break"} /\ lead = 0 =>
       (rpc' = "clear") = Dated(Later(RoundDown(rspAt), reveal))]_tvars
=============================================================================
