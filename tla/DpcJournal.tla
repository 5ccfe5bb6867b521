----------------------------- MODULE DpcJournal -----------------------------
(***************************************************************************)
(* The journal of the RSP and the mailbox of the CPU. In threaded mode the *)
(* RSP runs ahead of the CPU's clock: its DMA to RDRAM and its DPC writes  *)
(* are filed with their date and the CPU applies them when it gets there;  *)
(* a DPC write of the CPU waits in a mailbox for the edge of the grain.    *)
(* RDRAM is one page and DPC one register; every write brings a new value. *)
(* RspTask has the barrier and the rendezvous in full: here the published  *)
(* clock is exact.                                                         *)
(***************************************************************************)
EXTENDS Naturals, Sequences

CONSTANTS LogN,       \* kDpLogN, entries of the journal
          MbN,        \* kDpcMbN, entries of the mailbox
          MbGrain,    \* spSigQuant()
          JLeads,     \* spLeadOps(): ops the CPU may be ahead
          MaxDate,    \* bound: guest clock
          MaxWr       \* bound: writes of each thread

ASSUME JournalAssumption == {LogN, MbN, MbGrain, MaxDate, MaxWr} \subseteq Nat \ {0} /\ LogN > 1 /\ JLeads \subseteq Nat

VARIABLES jc, jpc,        \* CPU clock and step: "retire", "exec", "copy" and "view" (in a DPC read)
          jr, jrpc,       \* RSP clock and step: "run", "live" and "push" (inside a DPC write), "stopped"
          log,            \* dpLog: [at, kind, v], kind "dma" or "view"
          viewPend,       \* dpcViewPend
          ram, dpcLive, cpuDpcView,
          mail,           \* dpcMb: [eff, v]
          cread, rread,   \* last read of the CPU [kind, at, v] and last DMA read of the RSP [at, v]
          writing,        \* value of the DPC write in progress on the RSP
          ramHist, dpcHist,  \* every write with its date, ghosts
          posted, mailDone,  \* DPC writes of the CPU: made, and the last one applied
          direct,         \* a full mailbox sent a write straight to the register
          jlead,
          wr              \* writes so far: [cpu, rsp]

jvars == <<jc, jpc, jr, jrpc, log, viewPend, ram, dpcLive, cpuDpcView, mail, cread, rread, writing,
           ramHist, dpcHist, posted, mailDone, direct, jlead, wr>>
memVars == <<ram, ramHist>>
readVars == <<cread, rread, writing>>
dpcVars == <<dpcLive, cpuDpcView, viewPend, dpcHist, mailDone>>

JournalInit ==
  /\ jc = 0 /\ jpc = "exec" /\ jr = 1 /\ jrpc = "run"
  /\ log = <<>> /\ viewPend = 0 /\ ram = 0 /\ dpcLive = 0 /\ cpuDpcView = 0 /\ mail = <<>>
  /\ cread = [kind |-> "ram", at |-> 0, v |-> 0] /\ rread = [at |-> 0, v |-> 0] /\ writing = 0
  /\ ramHist = <<>> /\ dpcHist = <<>> /\ posted = 0 /\ mailDone = 0 /\ direct = FALSE /\ jlead \in JLeads
  /\ wr = [cpu |-> 0, rsp |-> 0]

Edge(t) == ((t + MbGrain - 1) \div MbGrain) * MbGrain
RspDone == jrpc = "stopped"
RspVal == 10 + wr.rsp

(***************************************************************************)
(* The CPU.                                                                *)
(***************************************************************************)

LogDue == log # <<>> /\ Head(log).at <= jc

\* One entry, in order; the head moves once it is applied.
logApplyOne ==
  /\ LogDue /\ log' = Tail(log)
  /\ LET e == Head(log)
     IN  \/ /\ e.kind = "dma" /\ ram' = e.v /\ UNCHANGED <<cpuDpcView, viewPend>>
         \/ /\ e.kind = "view" /\ cpuDpcView' = e.v /\ viewPend' = viewPend - 1 /\ UNCHANGED ram
  /\ UNCHANGED <<jc, jpc, jr, jrpc, dpcLive, mail, readVars, ramHist, dpcHist, posted, mailDone, direct, jlead, wr>>

\* In rcpRetire, and while the CPU stands at the barrier.
journalRetire == jpc = "retire" /\ logApplyOne

\* dpcMbCpu: once HALT is visible nobody else will look at the mailbox.
dpcMbCpu ==
  /\ jpc = "retire" /\ RspDone /\ jc >= jr /\ mail # <<>> /\ Head(mail).eff <= jc
  /\ mail' = Tail(mail) /\ mailDone' = Head(mail).v
  /\ dpcLive' = Head(mail).v /\ cpuDpcView' = Head(mail).v
  /\ dpcHist' = Append(dpcHist, [at |-> jc, v |-> Head(mail).v])
  /\ UNCHANGED <<jc, jpc, jr, jrpc, log, viewPend, ram, readVars, ramHist, posted, direct, jlead, wr>>

\* The barrier: an instruction runs once the RSP has published past it, or is over.
journalOn ==
  /\ jpc = "retire" /\ ~LogDue
  /\ RspDone \/ jc < jr + jlead
  /\ ~(RspDone /\ jc >= jr /\ mail # <<>> /\ Head(mail).eff <= jc)
  /\ jpc' = "exec"
  /\ UNCHANGED <<jc, jr, jrpc, log, memVars, dpcVars, mail, readVars, posted, direct, jlead, wr>>

InstrDone == jpc' = "retire" /\ jc' = jc + 1

\* Any instruction that touches neither.
journalInstr ==
  /\ jpc = "exec" /\ jc < MaxDate /\ InstrDone
  /\ UNCHANGED <<jr, jrpc, log, memVars, dpcVars, mail, readVars, posted, direct, jlead, wr>>

\* A load of RDRAM: a marked page makes it settle the journal first (dmaSettle).
cpuLoad ==
  /\ jpc = "exec" /\ jc < MaxDate /\ ~LogDue
  /\ cread' = [kind |-> "ram", at |-> jc, v |-> ram] /\ InstrDone
  /\ UNCHANGED <<jr, jrpc, log, memVars, dpcVars, mail, rread, writing, posted, direct, jlead, wr>>

\* A store stands at the barrier without the lead (cpuRamWrBarrier), settles the journal, then writes.
cpuStore ==
  /\ jpc = "exec" /\ jc < MaxDate /\ ~LogDue /\ wr.cpu < MaxWr /\ (RspDone \/ jc < jr)
  /\ wr' = [wr EXCEPT !.cpu = @ + 1]
  /\ ram' = wr.cpu + 1 /\ ramHist' = Append(ramHist, [at |-> jc + 1, v |-> wr.cpu + 1, rsp |-> FALSE])
  /\ InstrDone
  /\ UNCHANGED <<jr, jrpc, log, dpcVars, mail, readVars, posted, direct, jlead>>

\* A DPC read, first half: with views pending it answers the dated one, else it goes to copy
\* the live one.
cpuReadDpc ==
  /\ jpc = "exec" /\ jc < MaxDate
  /\ \/ viewPend > 0 /\ cread' = [kind |-> "dpc", at |-> jc, v |-> cpuDpcView] /\ InstrDone
     \/ viewPend = 0 /\ jpc' = "copy" /\ UNCHANGED <<jc, cread>>
  /\ UNCHANGED <<jr, jrpc, log, memVars, dpcVars, mail, rread, writing, posted, direct, jlead, wr>>

cpuCopyDpc ==
  /\ jpc = "copy" /\ jpc' = "view"
  /\ cread' = [kind |-> "copy", at |-> jc, v |-> dpcLive]
  /\ UNCHANGED <<jc, jr, jrpc, log, memVars, dpcVars, mail, rread, writing, posted, direct, jlead, wr>>

\* Second half: a view that appeared while it copied means the copy may be of the future.
cpuReadAgain ==
  /\ jpc = "view"
  /\ cread' = [cread EXCEPT !.kind = "dpc", !.v = IF viewPend > 0 THEN cpuDpcView ELSE @]
  /\ InstrDone
  /\ UNCHANGED <<jr, jrpc, log, memVars, dpcVars, mail, rread, writing, posted, direct, jlead, wr>>

\* HALT as the CPU sees it.
Halted == RspDone /\ jc >= jr

\* dpcMbPost: to the mailbox while the task lives, or while something older is in it.
MustPost == ~Halted \/ mail # <<>>

cpuPostDpc ==
  /\ jpc = "exec" /\ jc < MaxDate /\ posted < MaxWr
  /\ MustPost /\ Len(mail) < MbN
  /\ mail' = Append(mail, [eff |-> Edge(jc + 1), v |-> posted + 1])
  /\ posted' = posted + 1 /\ InstrDone
  /\ UNCHANGED <<jr, jrpc, log, memVars, dpcVars, readVars, direct, jlead, wr>>

\* Otherwise at once, after the views already due: no task, or no room in the mailbox.
cpuWriteDpc ==
  /\ jpc = "exec" /\ jc < MaxDate /\ posted < MaxWr /\ ~LogDue
  /\ \/ ~MustPost /\ UNCHANGED direct
     \/ MustPost /\ Len(mail) = MbN /\ direct' = TRUE
  /\ posted' = posted + 1 /\ mailDone' = posted + 1
  /\ dpcLive' = posted + 1 /\ cpuDpcView' = posted + 1
  /\ dpcHist' = Append(dpcHist, [at |-> jc, v |-> posted + 1])
  /\ InstrDone
  /\ UNCHANGED <<jr, jrpc, log, memVars, viewPend, mail, readVars, jlead, wr>>

(***************************************************************************)
(* The RSP.                                                                *)
(***************************************************************************)

RspOn == jrpc' = "run" /\ jr' = jr + 1

rspOther ==
  /\ jrpc = "run" /\ jr <= MaxDate /\ RspOn
  /\ UNCHANGED <<jc, jpc, log, memVars, dpcVars, mail, readVars, posted, direct, jlead, wr>>

\* spDmaLogPush: the bytes are copied now and filed; a full journal makes it wait for an empty one.
rspDmaWrite ==
  /\ jrpc = "run" /\ jr <= MaxDate /\ wr.rsp < MaxWr
  /\ Len(log) < LogN
  /\ log' = Append(log, [at |-> jr, kind |-> "dma", v |-> RspVal])
  /\ ramHist' = Append(ramHist, [at |-> jr, v |-> RspVal, rsp |-> TRUE])
  /\ wr' = [wr EXCEPT !.rsp = @ + 1]
  /\ RspOn
  /\ UNCHANGED <<jc, jpc, ram, dpcVars, mail, readVars, posted, direct, jlead>>

NoDmaPending == \A k \in DOMAIN log : log[k].kind # "dma"

dmaReadAtOnce == jc >= jr
\* dmaPgAny with dpLogWait, then spReadSync: a read after a filed write waits for it.
dmaReadReady == jc >= jr /\ (NoDmaPending \/ log = <<>>)

rspDmaRead ==
  /\ jrpc = "run" /\ jr <= MaxDate /\ dmaReadReady
  /\ rread' = [at |-> jr, v |-> ram]
  /\ RspOn
  /\ UNCHANGED <<jc, jpc, log, memVars, dpcVars, mail, cread, writing, posted, direct, jlead, wr>>

\* rspDpcWrite, first of three: dpcViewPend rises before the register is touched.
rspDpcBegin(v) ==
  /\ Len(log) < LogN - 1
  /\ viewPend' = viewPend + 1
  /\ jrpc' = "live"
  /\ writing' = v

\* Every CPU write before the edge of the grain is in the mailbox (spReadSync), those due are applied.
GrainReached == jc >= (jr \div MbGrain) * MbGrain

NoMailDue == ~(mail # <<>> /\ Head(mail).eff <= jr)

\* dpcMbRsp: one mailbox entry applied as a write of the RSP.
dpcMbRsp ==
  /\ jrpc = "run" /\ jr <= MaxDate /\ GrainReached /\ ~NoMailDue
  /\ rspDpcBegin(Head(mail).v)
  /\ mail' = Tail(mail) /\ mailDone' = Head(mail).v
  /\ UNCHANGED <<jc, jpc, jr, log, memVars, dpcLive, cpuDpcView, dpcHist, cread, rread, posted, direct, jlead, wr>>

\* MTC0 to DPC.
rspDpcWrite ==
  /\ jrpc = "run" /\ jr <= MaxDate /\ GrainReached /\ NoMailDue /\ wr.rsp < MaxWr
  /\ rspDpcBegin(RspVal)
  /\ wr' = [wr EXCEPT !.rsp = @ + 1]
  /\ UNCHANGED <<jc, jpc, jr, log, memVars, dpcLive, cpuDpcView, dpcHist, mail, mailDone, cread, rread,
                 posted, direct, jlead>>

rspDpcLive ==
  /\ jrpc = "live" /\ jrpc' = "push"
  /\ dpcLive' = writing
  /\ dpcHist' = Append(dpcHist, [at |-> jr, v |-> writing])
  /\ UNCHANGED <<jc, jpc, jr, log, memVars, viewPend, cpuDpcView, mail, mailDone, readVars, posted, direct, jlead, wr>>

rspDpcPush ==
  /\ jrpc = "push"
  /\ log' = Append(log, [at |-> jr, kind |-> "view", v |-> dpcLive])
  /\ RspOn
  /\ UNCHANGED <<jc, jpc, memVars, dpcVars, mail, readVars, posted, direct, jlead, wr>>

\* The task ends; its date is the last one.
rspStops ==
  /\ jrpc = "run" /\ jrpc' = "stopped"
  /\ UNCHANGED <<jc, jpc, jr, log, memVars, dpcVars, mail, readVars, posted, direct, jlead, wr>>

JournalNext ==
  \/ journalRetire \/ dpcMbCpu \/ journalOn \/ journalInstr \/ cpuLoad \/ cpuStore
  \/ cpuReadDpc \/ cpuCopyDpc \/ cpuReadAgain \/ cpuPostDpc \/ cpuWriteDpc
  \/ rspOther \/ rspDmaWrite \/ rspDmaRead \/ dpcMbRsp \/ rspDpcWrite \/ rspDpcLive \/ rspDpcPush
  \/ rspStops

(***************************************************************************)
(* Properties.                                                             *)
(***************************************************************************)

\* The last write of RDRAM up to an instant; at the same instant the RSP's comes after the CPU's.
RamAt(t) ==
  LET ks == {k \in DOMAIN ramHist : ramHist[k].at <= t}
      top == {k \in ks : \A j \in ks \ {k} : ramHist[j].at < ramHist[k].at
                                            \/ (ramHist[j].at = ramHist[k].at /\ ~ramHist[j].rsp)}
  IN  IF ks = {} THEN 0 ELSE ramHist[CHOOSE k \in top : TRUE].v

DpcAt(t) ==
  LET ks == {k \in DOMAIN dpcHist : dpcHist[k].at <= t}
  IN  IF ks = {} THEN 0 ELSE dpcHist[CHOOSE k \in ks : \A j \in ks : j <= k].v

\* Reads of RDRAM and of DPC, by either thread, return what the guest's clock says had been written,
\* however far the RSP thread is ahead: a filed DMA or view is neither early nor late, and the RSP
\* reads back what it wrote; with a lead the last holds and the CPU's reads may miss an entry the
\* RSP files behind its clock (dpLogApply, dmaSettle, dpcViewPend read twice, dmaPgAny).
ReadsAreDated ==
  ~direct =>
    /\ jlead = 0 /\ cread.kind = "ram" => cread.v = RamAt(cread.at)
    /\ jlead = 0 /\ cread.kind = "dpc" => cread.v = DpcAt(cread.at)
    /\ rread.v = RamAt(rread.at)

\* DPC writes of the CPU reach the register in the order they were made, through the mailbox and
\* across the end of the task (dpcMbPost files while something older waits); a full mailbox is the
\* exception the code warns of.
MailInOrder ==
  [][~direct' => mailDone' \in {mailDone, mailDone + 1}]_jvars
=============================================================================
