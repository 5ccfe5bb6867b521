------------------------------- MODULE Vr4300 -------------------------------
(***************************************************************************)
(* The control flow of the VR4300 (cpu.cpp) and of a compiled block (jit.cpp) *)
(* over the same program: the pc/nextPc delay-slot machine, exceptions and   *)
(* ERET, the TLB, the fetch memo and the mapping generation, interrupts.     *)
(*                                                                          *)
(* Addresses count instructions.  A guest program sits at 0 .. Len - 1 in    *)
(* mapped memory, two instructions to a page, and its data is DataPage; the  *)
(* two exception vectors are direct.  A handler is one instruction of kernel *)
(* service followed by ERET.  A register value never matters here.           *)
(***************************************************************************)
EXTENDS Integers, FiniteSets, FiniteSetsExt

CONSTANTS Progs,        \* the programs: functions from 0 .. Len-1 to kinds
          Asids,        \* address-space identifiers
          TlbSize,      \* entries of the TLB
          TlbrUsed,     \* whether the guest's kernel executes TLBR
          Events        \* bound: interrupts raised and exceptions taken

VARIABLES prog, c, blk, done, ref, known, events

vrVars == <<prog, c, blk, done, ref, known, events>>

Refill   == 100      \* offset 0x000 of the vector base
General  == 200      \* offset 0x180
DataPage == 7
PageOf(a) == IF a >= Refill THEN a ELSE a \div 2

NoMemo == -1
NoEntry == [page |-> -1, asid |-> 0, v |-> FALSE, d |-> FALSE]
NotKnown == <<>>     \* the driver has not seen this mapping yet
Idle == [off |-> -1, br |-> FALSE]

\* The kinds of instruction: taken and not taken branches are separate kinds
\* because the condition is data.  All branches of a program go to 0.
Branches == {"br", "brn", "likely", "likelyn"}
InsnAt(a) == CASE a \in {Refill, General} -> "service"
               [] a \in {Refill + 1, General + 1} -> "eret"
               [] OTHER -> prog[a]
Runnable(a) == a \in DOMAIN prog \cup {Refill, Refill + 1, General, General + 1}

\* A program lies below the vectors, and no branch is in the slot of a branch that
\* has one (undefined on a VR4300).  The slot of "likelyn" is annulled.
WellFormed(p) ==
    /\ DOMAIN p \subseteq 0 .. Refill - 3
    /\ \A a \in DOMAIN p : p[a] \in {"op", "ld", "st", "fp", "ei", "di"} \cup Branches
    /\ \A a \in DOMAIN p : p[a] \in Branches \ {"likelyn"} /\ a + 1 \in DOMAIN p => p[a + 1] \notin Branches

ASSUME VrAssumption ==
    TlbSize \in Nat /\ TlbrUsed \in BOOLEAN /\ Events \in Nat /\ \A p \in Progs : WellFormed(p)

----------------------------------------------------------------------------
(* Translation.  A result is a frame, or a fault with its vector; the cause   *)
(* code of a fault (TLBL, TLBS, Mod, AdEL, AdES) only matters to its handler. *)

cpuMode(m) == IF m.exl \/ m.erl THEN "kernel" ELSE m.ksu

Fault(refill) == [ok |-> FALSE, refill |-> refill]
Frame(f) == [ok |-> TRUE, frame |-> f]

tlbMatches(m, page) ==
    {i \in 1 .. TlbSize : m.tlb[i].page = page /\ m.tlb[i].asid = m.asid}

tlbLookup(m, page, write) ==
    IF tlbMatches(m, page) = {}
    THEN Fault(TRUE)
    ELSE LET e == m.tlb[Min(tlbMatches(m, page))]
         IN  IF ~e.v \/ (write /\ ~e.d) THEN Fault(FALSE)
             ELSE Frame(<<e.page, e.asid>>)

translate(m, page, write) ==
    IF page >= Refill
    THEN IF cpuMode(m) = "kernel" THEN Frame(<<page, 0>>) ELSE Fault(FALSE)
    ELSE IF m.erl THEN Frame(<<page, 0>>)
    ELSE tlbLookup(m, page, write)

----------------------------------------------------------------------------
(* Exceptions.  The address of the instruction is curPc, which step() takes
   before it samples the interrupts. *)

\* Mutant: EPC is the faulting instruction even in a delay slot.
takeExceptionAtSlot(m, curPc, refill) ==
    LET v == IF refill /\ ~m.exl THEN Refill ELSE General
    IN  [m EXCEPT !.epc = IF m.exl THEN @ ELSE curPc,
                  !.bd = IF m.exl THEN @ ELSE m.delay,
                  !.exl = TRUE, !.memo = NoMemo,
                  !.pc = v, !.next = v + 1, !.delay = FALSE]

takeException(m, curPc, refill) ==
    LET v == IF refill /\ ~m.exl THEN Refill ELSE General
    IN  [m EXCEPT !.epc = IF m.exl THEN @ ELSE IF m.delay THEN curPc - 1 ELSE curPc,
                  !.bd = IF m.exl THEN @ ELSE m.delay,
                  !.exl = TRUE, !.memo = NoMemo,
                  !.pc = v, !.next = v + 1, !.delay = FALSE]

Raise(m, curPc, page, f) ==
    takeException([m EXCEPT !.bad = page], curPc, f.refill)

Deliverable(m) == m.intr /\ m.ie /\ ~m.exl /\ ~m.erl

----------------------------------------------------------------------------
(* What one instruction does: the set of [m, jb, exc], where jb says that it
   was a branch and exc that it raised an exception instead of completing. *)

Completed(m) == {[m |-> m, jb |-> FALSE, exc |-> FALSE]}
Raised(m) == {[m |-> m, jb |-> FALSE, exc |-> TRUE]}

dataAccess(m, curPc, write) ==
    LET t == translate(m, DataPage, write)
    IN  IF t.ok THEN Completed(m) ELSE Raised(Raise(m, curPc, DataPage, t))

copUnusable(m, curPc) == Raised(takeException(m, curPc, FALSE))

writeStatus(m, curPc, ie) ==
    IF cpuMode(m) # "kernel" THEN copUnusable(m, curPc)
    ELSE Completed([m EXCEPT !.ie = ie, !.erl = FALSE, !.memo = NoMemo])

\* TLBWI or TLBWR: any entry, or the one a probe finds.
tlbWrite(m, i, page, v, d) ==
    [m EXCEPT !.tlb[i] = [page |-> page, asid |-> m.asid, v |-> v, d |-> d],
              !.memo = NoMemo, !.gen = TRUE]

\* MTC0 EntryHi: the ASID takes part in every match.
writeEntryHi(m, asid) ==
    [m EXCEPT !.asid = asid, !.memo = NoMemo, !.gen = m.gen \/ asid # m.asid]

\* TLBR loads EntryHi, the ASID with it, from an entry.
tlbRead(m, i) == [m EXCEPT !.asid = m.tlb[i].asid]

\* One instruction of a handler, whatever the kernel chooses to do.
service(m, curPc) ==
    LET slots == IF tlbMatches(m, m.bad) = {} THEN 1 .. TlbSize ELSE tlbMatches(m, m.bad)
    IN  UNION ({Completed([m EXCEPT !.intr = FALSE]),
                Completed([m EXCEPT !.cu1 = TRUE, !.memo = NoMemo]),
                dataAccess(m, curPc, FALSE)}
               \cup {Completed(tlbWrite(m, i, m.bad, e[1], e[2])) :
                       i \in slots,
                       e \in {<<FALSE, FALSE>>, <<TRUE, FALSE>>, <<TRUE, TRUE>>}}
               \cup {Completed(writeEntryHi(m, a)) : a \in Asids}
               \cup IF TlbrUsed THEN {Completed(tlbRead(m, i)) : i \in 1 .. TlbSize} ELSE {})

eret(m) ==
    LET m1 == IF m.erl THEN [m EXCEPT !.pc = m.errorEpc, !.erl = FALSE]
              ELSE [m EXCEPT !.pc = m.epc, !.exl = FALSE]
    IN  Completed([m1 EXCEPT !.next = m1.pc + 1, !.delay = FALSE, !.memo = NoMemo])

\* pc is already the delay slot's address here, as in execute().
execute(m, curPc, k) ==
    CASE k = "op"      -> Completed(m)
      [] k = "ld"      -> dataAccess(m, curPc, FALSE)
      [] k = "st"      -> dataAccess(m, curPc, TRUE)
      [] k = "fp"      -> IF m.cu1 THEN Completed(m) ELSE copUnusable(m, curPc)
      [] k = "ei"      -> writeStatus(m, curPc, TRUE)
      [] k = "di"      -> writeStatus(m, curPc, FALSE)
      [] k \in {"br", "likely"} ->
             {[m |-> [m EXCEPT !.next = 0], jb |-> TRUE, exc |-> FALSE]}
      [] k = "brn"     -> {[m |-> m, jb |-> TRUE, exc |-> FALSE]}
      [] k = "likelyn" -> Completed([m EXCEPT !.pc = m.next, !.next = m.next + 1])
      [] k = "service" -> service(m, curPc)
      [] k = "eret"    -> eret(m)

----------------------------------------------------------------------------
(* The reference: the program by itself, no exception and no block.  ref.at  *)
(* is the next instruction; when it is a delay slot, the branch before it may *)
(* be executed again, which is how a fault in the slot is resumed.           *)

RefStep(r, a) ==
    LET k == prog[a]
    IN  CASE k = "likelyn" -> [at |-> a + 2, slot |-> FALSE, to |-> 0]
          [] k \in {"br", "likely"} -> [at |-> a + 1, slot |-> TRUE, to |-> 0]
          [] k = "brn" -> [at |-> a + 1, slot |-> TRUE, to |-> a + 2]
          [] OTHER -> [at |-> IF r.slot /\ a = r.at THEN r.to ELSE a + 1,
                       slot |-> FALSE, to |-> 0]

\* Every exception sets EXL, so a step that enters a vector is an event.
Bounded == /\ c'.pc \in {Refill, General} => events < Events
           /\ events' = IF c'.pc \in {Refill, General} THEN events + 1 ELSE events

Retire(a) == IF a \in DOMAIN prog THEN done' = a /\ ref' = RefStep(ref, a)
             ELSE done' = -1 /\ UNCHANGED ref
NotRetired == done' = -1 /\ UNCHANGED ref

----------------------------------------------------------------------------
(* CPU::step().  After an interrupt is delivered the same step goes on with  *)
(* the first instruction of the handler.                                     *)

step ==
    /\ blk = Idle
    /\ Runnable(c.pc)
    /\ LET m1 == IF Deliverable(c) THEN takeException(c, c.pc, FALSE) ELSE c
           t  == translate(m1, PageOf(m1.pc), FALSE)
           a  == m1.pc
       IN  IF m1.memo # PageOf(a) /\ ~t.ok
           THEN c' = Raise(m1, c.pc, PageOf(a), t) /\ NotRetired
           ELSE \E r \in execute([m1 EXCEPT !.pc = m1.next, !.next = m1.next + 1,
                                            !.memo = PageOf(a)], c.pc, InsnAt(a)) :
                  /\ c' = [r.m EXCEPT !.delay = r.jb]
                  /\ IF r.exc THEN NotRetired ELSE Retire(a)
    /\ known' = IF c'.gen THEN NotKnown ELSE known
    /\ Bounded
    /\ UNCHANGED <<prog, blk>>

raiseIntr == /\ ~c.intr /\ events < Events
             /\ events' = events + 1
             /\ c' = [c EXCEPT !.intr = TRUE]
             /\ done' = -1
             /\ UNCHANGED <<prog, blk, ref, known>>

----------------------------------------------------------------------------
(* A compiled block.  pc stays at the entry until the block leaves; the       *)
(* driver enters only outside a delay slot, with no interrupt to deliver and  *)
(* with the links of an older mapping generation dropped.                     *)

enterBlock ==
    /\ blk = Idle /\ ~c.delay /\ ~Deliverable(c) /\ c.pc \in DOMAIN prog
    /\ translate(c, PageOf(c.pc), FALSE).ok
    /\ blk' = [off |-> 0, br |-> FALSE]
    /\ c' = [c EXCEPT !.gen = FALSE, !.cause = c.intr]
    /\ known' = IF c.gen THEN <<c.asid, c.tlb>> ELSE known
    /\ UNCHANGED events
    /\ done' = -1
    /\ UNCHANGED <<prog, ref>>

Va == c.pc + blk.off
InBlock == blk.off >= 0
SameBlock(a) == a \in DOMAIN prog /\ PageOf(a) = PageOf(c.pc)
Absorbable(a) == SameBlock(a + 1) /\ prog[a + 1] \in {"op", "ld", "st", "fp"}

\* Leave after n sequential instructions: nothing moves when n is 0.
Leave(m, n) == IF n = 0 THEN m
               ELSE [m EXCEPT !.pc = m.pc + n, !.next = m.pc + n + 1, !.delay = FALSE]

\* The context of the interpreter for the instruction at a: jitInterpOp.
jitInterpOp(a, slot) ==
    execute([c EXCEPT !.pc = a + 1, !.next = a + 2, !.delay = slot], a, prog[a])

\* jitMemOp: probing first, and no effect when the access would fault.
Probes(k) == translate(c, DataPage, k = "st").ok

jitEnds ==
    /\ InBlock /\ ~blk.br
    /\ SameBlock(Va) => \/ prog[Va] \in Branches /\ ~Absorbable(Va)
                        \/ prog[Va] \in {"ld", "st"} /\ ~Probes(prog[Va])
    /\ c' = Leave(c, blk.off)
    /\ blk' = Idle /\ done' = -1
    /\ UNCHANGED <<prog, ref, known, events>>

\* A straight instruction.  A store that arms a device leaves behind itself.
jitStraight(armed) ==
    /\ InBlock /\ ~blk.br /\ SameBlock(Va)
    /\ \/ prog[Va] = "op" /\ ~armed
       \/ prog[Va] \in {"ld", "st"} /\ Probes(prog[Va])
       \/ prog[Va] = "fp" /\ c.cu1 /\ ~armed
    /\ Retire(Va)
    /\ IF armed THEN c' = Leave(c, blk.off + 1) /\ blk' = Idle
       ELSE blk' = [blk EXCEPT !.off = @ + 1] /\ UNCHANGED c
    /\ UNCHANGED <<prog, known, events>>

jitCop1Unusable(slot) ==
    /\ InBlock /\ blk.br = slot
    /\ LET a == IF slot THEN Va + 1 ELSE Va
       IN  /\ SameBlock(a) /\ prog[a] = "fp" /\ ~c.cu1
           /\ \E r \in jitInterpOp(a, slot) : c' = r.m
    /\ blk' = Idle /\ NotRetired /\ Bounded
    /\ UNCHANGED <<prog, known>>

\* MTC0 Status: in line when only IE changes, the mode is kernel and nothing
\* enabled is pending in Cause; else by the interpreter, leaving behind it.
Inline(m, ie) == cpuMode(m) = "kernel" /\ ~m.erl /\ (ie /\ ~m.exl => ~m.cause)

emitMtc0Status ==
    /\ InBlock /\ ~blk.br /\ SameBlock(Va) /\ prog[Va] \in {"ei", "di"}
    /\ LET ie == prog[Va] = "ei"
       IN  IF Inline(c, ie)
           THEN /\ c' = [c EXCEPT !.ie = ie]
                /\ blk' = [blk EXCEPT !.off = @ + 1]
                /\ Retire(Va)
           ELSE \E r \in jitInterpOp(Va, FALSE) :
                  /\ c' = IF r.exc THEN r.m ELSE [r.m EXCEPT !.pc = Va + 1, !.next = Va + 2]
                  /\ blk' = Idle
                  /\ IF r.exc THEN NotRetired ELSE Retire(Va)
    /\ Bounded
    /\ UNCHANGED <<prog, known>>

\* The condition and the link, before the slot.
jitBranch ==
    /\ InBlock /\ ~blk.br /\ SameBlock(Va)
    /\ prog[Va] \in Branches /\ Absorbable(Va)
    /\ IF prog[Va] = "likelyn"
       THEN blk' = Idle /\ c' = [c EXCEPT !.pc = Va + 2, !.next = Va + 3, !.delay = FALSE]
       ELSE blk' = [blk EXCEPT !.br = TRUE] /\ UNCHANGED c
    /\ Retire(Va)
    /\ UNCHANGED <<prog, known, events>>

\* Where a slot that would fault resumes: at its branch.
SlotBail(n) == n

slotExit ==
    /\ InBlock /\ blk.br
    /\ LET k == prog[Va + 1]
           to == IF prog[Va] = "brn" THEN Va + 2 ELSE 0
       IN  /\ k = "fp" => c.cu1
           /\ IF k \in {"ld", "st"} /\ ~Probes(k)
              THEN c' = Leave(c, SlotBail(blk.off)) /\ NotRetired
              ELSE c' = [c EXCEPT !.pc = to, !.next = to + 1, !.delay = FALSE] /\ Retire(Va + 1)
    /\ blk' = Idle
    /\ UNCHANGED <<prog, known, events>>

----------------------------------------------------------------------------
VrInit ==
    /\ prog \in Progs
    /\ \E erl, ie \in BOOLEAN, ksu \in {"kernel", "user"} :
         /\ ksu = "user" => ~erl /\ \A a \in DOMAIN prog : prog[a] \notin {"ei", "di"}
         /\ c = [pc |-> 0, next |-> 1, delay |-> FALSE, ie |-> ie, exl |-> FALSE,
                 erl |-> erl, ksu |-> ksu, cu1 |-> erl, epc |-> 0, errorEpc |-> 0,
                 bd |-> FALSE, bad |-> 0, intr |-> FALSE,
                 asid |-> 0, tlb |-> [i \in 1 .. TlbSize |-> NoEntry],
                 memo |-> NoMemo, gen |-> TRUE, cause |-> FALSE]
    /\ blk = Idle /\ done = -1
    /\ ref = [at |-> 0, slot |-> FALSE, to |-> 0]
    /\ known = NotKnown /\ events = 0

VrNext ==
    \/ step \/ raiseIntr
    \/ enterBlock \/ jitEnds \/ emitMtc0Status \/ jitBranch \/ slotExit
    \/ \E b \in BOOLEAN : jitStraight(b) \/ jitCop1Unusable(b)

VrSpec == VrInit /\ [][VrNext]_vrVars

----------------------------------------------------------------------------
(* Precise exceptions.  Whatever faults, interrupts, nested faults and block  *)
(* exits come between, the instructions of the program complete in program    *)
(* order, none twice and none skipped: only a branch may run again, and only  *)
(* while its delay slot has not completed (takeException, eret, jitInterpOp,  *)
(* the exit stubs of a block).                                                *)
PreciseExceptions ==
    [][done' >= 0 => \/ done' = ref.at
                     \/ ref.slot /\ done' = ref.at - 1]_vrVars

(* An interrupt that was pending when interrupts were opened is not kept      *)
(* waiting by a block: a block never completes an instruction with an         *)
(* interrupt that its own entry saw pending, open and deliverable.            *)
OpenedIsTaken == InBlock => ~(c.cause /\ c.ie /\ ~c.exl /\ ~c.erl)

(* The caches of a translation are as old as the mapping: the fetch memo names *)
(* a page the TLB still maps, and while the mapping generation has not moved   *)
(* the links of the compiled code were made under this ASID and this TLB       *)
(* (xlatEpoch and tlbGen, cpu.hpp).                                            *)
MapIsKnown ==
    /\ c.memo # NoMemo => translate(c, c.memo, FALSE).ok
    /\ ~c.gen => known = <<c.asid, c.tlb>>
=============================================================================
