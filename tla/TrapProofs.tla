----------------------------- MODULE TrapProofs -----------------------------
(***************************************************************************)
(* The exceptions of the VR4300 are precise, interpreted and compiled, for *)
(* any program, TLB and service of the kernel: wherever the processor is,  *)
(* it is at the next instruction of the program, or will return to it, or  *)
(* to the branch whose delay slot that is.                                 *)
(***************************************************************************)
EXTENDS MCCpu, TLAPS

----------------------------------------------------------------------------
(* The inductive invariant.                                                *)

\* An entry of the TLB, and the processor.
Entry == [page : Int, asid : Asids \cup {0}, v : BOOLEAN, d : BOOLEAN]
Machine ==
  [pc : Int, next : Int, delay : BOOLEAN, ie : BOOLEAN, exl : BOOLEAN, erl : BOOLEAN,
   ksu : {"kernel", "user"}, cu1 : BOOLEAN, epc : Int, errorEpc : Int, bd : BOOLEAN, bad : Int,
   intr : BOOLEAN, asid : Asids \cup {0}, tlb : [1 .. TlbSize -> Entry], memo : Int, gen : BOOLEAN,
   cause : BOOLEAN]

VrTyped ==
  /\ WellFormed(prog) /\ c \in Machine
  /\ blk \in [off : Int, br : BOOLEAN]
  /\ ref \in [at : Int, slot : BOOLEAN, to : Int]

Slotted == Branches \ {"likelyn"}
Straight == {"op", "ld", "st", "fp", "ei", "di"}
Handler == {Refill, Refill + 1, General, General + 1}

\* The reference stands below the vectors and, in a slot, behind the branch that has it.
RefKept(p, r) ==
  /\ r.at < Refill /\ r.to < Refill
  /\ r.slot => /\ r.at - 1 \in DOMAIN p /\ p[r.at - 1] \in Slotted
               /\ r.to = IF p[r.at - 1] = "brn" THEN r.at + 1 ELSE 0

\* Where the program may be resumed: at its next instruction, or at the branch whose slot that is.
Resumes(r, a) == IF r.slot THEN a = r.at - 1 ELSE a = r.at

\* The program goes on where the reference stands; a handler will return there.
Precise(m, r) ==
  /\ m.exl => m.pc \in Handler /\ ~m.delay /\ ~m.erl /\ Resumes(r, m.epc)
  /\ ~m.exl /\ ~m.delay => Resumes(r, m.pc)
  /\ ~m.delay => m.next = m.pc + 1
  /\ ~m.exl /\ m.delay => r.slot /\ m.pc = r.at /\ m.next = r.to
  /\ m.erl => m.cu1

\* A block is where the reference is, and has nothing open that it saw pending.
BlockPrecise(m, b, p, r) ==
  /\ b.off \in Nat /\ ~m.exl /\ ~m.delay /\ m.next = m.pc + 1 /\ m.pc \in DOMAIN p
  /\ m.erl => m.cu1
  /\ ~b.br => Resumes(r, m.pc + b.off)
  /\ b.br => r.slot /\ r.at = m.pc + b.off + 1 /\ r.at \in DOMAIN p /\ p[r.at] \in {"op", "ld", "st", "fp"}
  /\ ~(m.cause /\ m.ie /\ ~m.erl)

Placed(m, b, p, r) == IF b.off >= 0 THEN BlockPrecise(m, b, p, r) ELSE b = Idle /\ Precise(m, r)

\* The memo names a page that is mapped, and the generation moves with the mapping, unless the kernel
\* executes TLBR.
MapKept(m, kn) ==
  \/ TlbrUsed
  \/ /\ m.memo # NoMemo => translate(m, m.memo, FALSE).ok
     /\ ~m.gen => kn = <<m.asid, m.tlb>>

VrInv == VrTyped /\ RefKept(prog, ref) /\ Placed(c, blk, prog, ref) /\ MapKept(c, known)

----------------------------------------------------------------------------
(* What an instruction does.                                               *)

\* n translates as m does.
SameSpace(m, n) == n.exl = m.exl /\ n.erl = m.erl /\ n.ksu = m.ksu /\ n.asid = m.asid /\ n.tlb = m.tlb

\* Translation reads no more than the space.
LEMMA SameTranslation ==
  ASSUME NEW m, NEW n, SameSpace(m, n), NEW page
  PROVE  translate(n, page, FALSE) = translate(m, page, FALSE)
<1>1. tlbMatches(n, page) = tlbMatches(m, page)
  BY DEF SameSpace, tlbMatches
<1>2. tlbLookup(n, page, FALSE) = tlbLookup(m, page, FALSE)
  BY <1>1 DEF SameSpace, tlbLookup
<1>3. cpuMode(n) = cpuMode(m)
  BY DEF SameSpace, cpuMode
<1> QED BY <1>2, <1>3 DEF SameSpace, translate

\* What is kept of m on the side in n is right if it was in m, TLBR aside.
Follows(m, n) ==
  /\ n \in Machine
  /\ \/ TlbrUsed
     \/ /\ n.memo = NoMemo \/ (n.memo = m.memo /\ SameSpace(m, n))
        /\ n.gen \/ (~m.gen /\ n.asid = m.asid /\ n.tlb = m.tlb)

\* n has left the instruction at a of m for a vector.
Trapped(m, n, a) ==
  /\ n.pc \in {Refill, General} /\ n.next = n.pc + 1 /\ ~n.delay /\ n.exl
  /\ n.erl = m.erl /\ n.cu1 = m.cu1
  /\ n.epc = IF m.exl THEN m.epc ELSE IF m.delay THEN a - 1 ELSE a

\* n has gone on from m in the same mode.
WentOn(m, n) ==
  /\ n.exl = m.exl /\ n.epc = m.epc /\ n.delay = m.delay /\ (n.erl => m.erl) /\ (m.cu1 => n.cu1)

\* takeException leaves for a vector and remembers where it was, the branch if in a slot.
LEMMA ExceptionTraps ==
  ASSUME NEW m \in Machine, NEW a \in Int, NEW rf \in BOOLEAN
  PROVE  /\ Follows(m, takeException(m, a, rf)) /\ Trapped(m, takeException(m, a, rf), a)
<1> DEFINE n == takeException(m, a, rf)
<1>1. n \in Machine
  <2> DEFINE v == IF rf /\ ~m.exl THEN Refill ELSE General
             e == IF m.exl THEN m.epc ELSE IF m.delay THEN a - 1 ELSE a
             d == IF m.exl THEN m.bd ELSE m.delay
  <2>1. v \in Int /\ v + 1 \in Int /\ NoMemo \in Int
    BY DEF Refill, General, NoMemo
  <2>2. e \in Int
    BY DEF Machine
  <2>3. d \in BOOLEAN
    BY DEF Machine
  <2>4. n = [m EXCEPT !.epc = e, !.bd = d, !.exl = TRUE, !.memo = NoMemo, !.pc = v, !.next = v + 1, !.delay = FALSE]
    BY DEF takeException, Machine
  <2> HIDE DEF v, e, d, n
  <2> QED BY <2>1, <2>2, <2>3, <2>4 DEF Machine
<1>2. n.memo = NoMemo /\ n.gen = m.gen /\ n.asid = m.asid /\ n.tlb = m.tlb
  BY DEF takeException, Machine
<1>3. Trapped(m, n, a)
  BY DEF takeException, Machine, Trapped, Refill, General
<1>4. m.gen \in BOOLEAN
  BY DEF Machine
<1> QED BY <1>1, <1>2, <1>3, <1>4 DEF Follows

\* A fault of the TLB does the same.
LEMMA FaultTraps ==
  ASSUME NEW m \in Machine, NEW a \in Int, NEW page \in Int, NEW f, NEW rf \in BOOLEAN, f.refill = rf
  PROVE  Follows(m, Raise(m, a, page, f)) /\ Trapped(m, Raise(m, a, page, f), a)
<1> DEFINE b == [m EXCEPT !.bad = page]
<1>1. b \in Machine /\ SameSpace(m, b) /\ b.gen = m.gen /\ b.epc = m.epc /\ b.delay = m.delay /\ b.cu1 = m.cu1
  BY DEF Machine, SameSpace
<1>2. Follows(b, Raise(m, a, page, f)) /\ Trapped(b, Raise(m, a, page, f), a)
  BY <1>1, ExceptionTraps DEF Raise
<1>3. Raise(m, a, page, f).memo = NoMemo
  BY DEF Raise, takeException, Machine
<1> HIDE DEF b
<1> QED BY <1>1, <1>2, <1>3 DEF Follows, Trapped, SameSpace

\* A translation that fails says which vector it wants.
LEMMA FaultType ==
  ASSUME NEW m, NEW page, NEW w, ~translate(m, page, w).ok
  PROVE  translate(m, page, w).refill \in BOOLEAN
<1>1. tlbLookup(m, page, w).ok \/ tlbLookup(m, page, w).refill \in BOOLEAN
  BY DEF tlbLookup, Fault, Frame
<1> QED BY <1>1 DEF translate, Fault, Frame

\* Below the vectors nothing faults while ERL is set, and in a handler nothing at a vector does.
LEMMA NoFault ==
  ASSUME NEW m, NEW page \in Int, NEW w
  PROVE  /\ m.erl /\ page < Refill => translate(m, page, w).ok
         /\ m.exl /\ page >= Refill => translate(m, page, w).ok
BY DEF translate, Frame, cpuMode, Refill

\* A load or store leaves the processor alone or traps.
LEMMA AccessDoes ==
  ASSUME NEW m \in Machine, NEW a \in Int, NEW w \in BOOLEAN, NEW r \in dataAccess(m, a, w)
  PROVE  /\ r.jb = FALSE /\ r.exc \in BOOLEAN /\ Follows(m, r.m)
         /\ r.exc => Trapped(m, r.m, a) /\ ~m.erl
         /\ ~r.exc => r.m = m
<1> DEFINE t == translate(m, DataPage, w)
<1>0. DataPage \in Int /\ DataPage < Refill
  BY DEF DataPage, Refill
<1>1. CASE t.ok
  <2>1. r = [m |-> m, jb |-> FALSE, exc |-> FALSE]
    BY <1>1 DEF dataAccess, Completed
  <2>2. Follows(m, m)
    BY DEF Follows, SameSpace, Machine
  <2> QED BY <2>1, <2>2
<1>2. CASE ~t.ok
  <2>1. r = [m |-> Raise(m, a, DataPage, t), jb |-> FALSE, exc |-> TRUE]
    BY <1>2 DEF dataAccess, Raised
  <2>2. t.refill \in BOOLEAN
    BY <1>2, FaultType
  <2>3. ~m.erl
    BY <1>0, <1>2, NoFault
  <2>4. Follows(m, Raise(m, a, DataPage, t)) /\ Trapped(m, Raise(m, a, DataPage, t), a)
    BY <1>0, <2>2, FaultTraps
  <2> HIDE DEF t
  <2> QED BY <2>1, <2>3, <2>4
<1> QED BY <1>1, <1>2

\* An instruction of a coprocessor that is off traps.
LEMMA UnusableDoes ==
  ASSUME NEW m \in Machine, NEW a \in Int, NEW r \in copUnusable(m, a)
  PROVE  r.jb = FALSE /\ r.exc = TRUE /\ Follows(m, r.m) /\ Trapped(m, r.m, a)
<1>1. r = [m |-> takeException(m, a, FALSE), jb |-> FALSE, exc |-> TRUE]
  BY DEF copUnusable, Raised
<1> QED BY <1>1, ExceptionTraps

\* A write of Status goes on in kernel mode and traps in user mode.
LEMMA StatusDoes ==
  ASSUME NEW m \in Machine, NEW a \in Int, NEW ie \in BOOLEAN, NEW r \in writeStatus(m, a, ie)
  PROVE  /\ r.jb = FALSE /\ r.exc \in BOOLEAN /\ Follows(m, r.m)
         /\ r.exc => Trapped(m, r.m, a) /\ ~m.erl
         /\ ~r.exc => r.m.pc = m.pc /\ r.m.next = m.next /\ WentOn(m, r.m)
<1>1. CASE cpuMode(m) # "kernel"
  <2>1. ~m.erl
    BY <1>1 DEF cpuMode
  <2>2. r \in copUnusable(m, a)
    BY <1>1 DEF writeStatus
  <2> QED BY <2>1, <2>2, UnusableDoes
<1>2. CASE cpuMode(m) = "kernel"
  <2> DEFINE n == [m EXCEPT !.ie = ie, !.erl = FALSE, !.memo = NoMemo]
  <2>1. r = [m |-> n, jb |-> FALSE, exc |-> FALSE]
    BY <1>2 DEF writeStatus, Completed
  <2>0. m.gen \in BOOLEAN /\ NoMemo \in Int
    BY DEF Machine, NoMemo
  <2>2. n \in Machine
    BY <2>0 DEF Machine
  <2>4. /\ n.memo = NoMemo /\ n.gen = m.gen
        /\ n.asid = m.asid /\ n.tlb = m.tlb /\ n.pc = m.pc /\ n.next = m.next
    BY DEF Machine
  <2>3. WentOn(m, n)
    BY DEF Machine, WentOn
  <2> HIDE DEF n
  <2> QED BY <2>0, <2>1, <2>2, <2>3, <2>4 DEF Follows
<1> QED BY <1>1, <1>2

\* One thing the kernel may do to m in a handler.
Serviced(m, n) ==
  \/ n = [m EXCEPT !.intr = FALSE]
  \/ n = [m EXCEPT !.cu1 = TRUE, !.memo = NoMemo]
  \/ \E i \in 1 .. TlbSize, v, d \in BOOLEAN : n = tlbWrite(m, i, m.bad, v, d)
  \/ \E x \in Asids : n = writeEntryHi(m, x)
  \/ TlbrUsed /\ \E i \in 1 .. TlbSize : n = tlbRead(m, i)

\* Whatever the kernel does, what is kept on the side stays right.
LEMMA ServicedFollows ==
  ASSUME NEW m \in Machine, NEW n, Serviced(m, n)
  PROVE  Follows(m, n) /\ n.pc = m.pc /\ n.next = m.next /\ WentOn(m, n)
<1>0. m.gen \in BOOLEAN /\ m.asid \in Asids \cup {0} /\ m.tlb \in [1 .. TlbSize -> Entry] /\ NoMemo \in Int
  BY DEF Machine, NoMemo
<1>1. CASE n = [m EXCEPT !.intr = FALSE]
  <2>1. n \in Machine
    BY <1>1 DEF Machine
  <2>2. n.memo = m.memo /\ SameSpace(m, n) /\ n.gen = m.gen
    BY <1>1 DEF Machine, SameSpace
  <2>3. n.pc = m.pc /\ n.next = m.next /\ WentOn(m, n)
    BY <1>1 DEF Machine, WentOn
  <2> QED BY <1>0, <2>1, <2>2, <2>3 DEF Follows, SameSpace
<1>2. CASE n = [m EXCEPT !.cu1 = TRUE, !.memo = NoMemo]
  <2>1. n \in Machine
    BY <1>0, <1>2 DEF Machine
  <2>2. n.memo = NoMemo /\ n.gen = m.gen /\ n.asid = m.asid /\ n.tlb = m.tlb
    BY <1>2 DEF Machine
  <2>3. n.pc = m.pc /\ n.next = m.next /\ WentOn(m, n)
    BY <1>2 DEF Machine, WentOn
  <2> QED BY <1>0, <2>1, <2>2, <2>3 DEF Follows
<1>3. ASSUME NEW i \in 1 .. TlbSize, NEW v \in BOOLEAN, NEW d \in BOOLEAN, n = tlbWrite(m, i, m.bad, v, d)
      PROVE  Follows(m, n) /\ n.pc = m.pc /\ n.next = m.next /\ WentOn(m, n)
  <2> DEFINE T == [m.tlb EXCEPT ![i] = [page |-> m.bad, asid |-> m.asid, v |-> v, d |-> d]]
  <2>1. n = [m EXCEPT !.tlb = T, !.memo = NoMemo, !.gen = TRUE]
    BY <1>3 DEF tlbWrite, Machine
  <2>2. T \in [1 .. TlbSize -> Entry]
    <3>1. m.bad \in Int
      BY DEF Machine
    <3>2. [page |-> m.bad, asid |-> m.asid, v |-> v, d |-> d] \in Entry
      BY <1>0, <3>1 DEF Entry
    <3> QED BY <1>0, <3>2
  <2> HIDE DEF T
  <2>3. n \in Machine
    BY <1>0, <2>1, <2>2 DEF Machine
  <2>4. n.memo = NoMemo /\ n.gen = TRUE
    BY <2>1 DEF Machine
  <2>5. n.pc = m.pc /\ n.next = m.next /\ WentOn(m, n)
    BY <2>1 DEF Machine, WentOn
  <2> QED BY <2>3, <2>4, <2>5 DEF Follows
<1>4. ASSUME NEW x \in Asids, n = writeEntryHi(m, x)
      PROVE  Follows(m, n) /\ n.pc = m.pc /\ n.next = m.next /\ WentOn(m, n)
  <2> DEFINE G == m.gen \/ x # m.asid
  <2>1. n = [m EXCEPT !.asid = x, !.memo = NoMemo, !.gen = G]
    BY <1>4 DEF writeEntryHi, Machine
  <2>2. G \in BOOLEAN /\ (G <=> m.gen \/ x # m.asid)
    BY <1>0
  <2> HIDE DEF G
  <2>3. n \in Machine
    BY <1>0, <2>1, <2>2 DEF Machine
  <2>4. n.memo = NoMemo /\ n.gen = G /\ n.asid = x /\ n.tlb = m.tlb
    BY <2>1 DEF Machine
  <2>5. n.pc = m.pc /\ n.next = m.next /\ WentOn(m, n)
    BY <2>1 DEF Machine, WentOn
  <2> QED BY <2>2, <2>3, <2>4, <2>5 DEF Follows
<1>5. ASSUME TlbrUsed, NEW i \in 1 .. TlbSize, n = tlbRead(m, i)
      PROVE  Follows(m, n) /\ n.pc = m.pc /\ n.next = m.next /\ WentOn(m, n)
  <2> DEFINE x == m.tlb[i].asid
  <2>1. n = [m EXCEPT !.asid = x]
    BY <1>5 DEF tlbRead
  <2>2. x \in Asids \cup {0}
    BY <1>0, <1>5 DEF Entry
  <2> HIDE DEF x
  <2>3. n \in Machine
    BY <2>1, <2>2 DEF Machine
  <2>4. n.pc = m.pc /\ n.next = m.next /\ WentOn(m, n)
    BY <2>1 DEF Machine, WentOn
  <2> QED BY <1>5, <2>3, <2>4 DEF Follows
<1> QED BY <1>1, <1>2, <1>3, <1>4, <1>5 DEF Serviced

\* An instruction of a handler goes on or traps.
LEMMA ServiceDoes ==
  ASSUME NEW m \in Machine, NEW a \in Int, NEW r \in service(m, a)
  PROVE  /\ r.jb = FALSE /\ r.exc \in BOOLEAN /\ Follows(m, r.m)
         /\ r.exc => Trapped(m, r.m, a) /\ ~m.erl
         /\ ~r.exc => r.m.pc = m.pc /\ r.m.next = m.next /\ WentOn(m, r.m)
<1>1. \/ r \in dataAccess(m, a, FALSE)
      \/ \E n : Serviced(m, n) /\ r \in Completed(n)
  <2> DEFINE slots == IF tlbMatches(m, m.bad) = {} THEN 1 .. TlbSize ELSE tlbMatches(m, m.bad)
             rights == {<<FALSE, FALSE>>, <<TRUE, FALSE>>, <<TRUE, TRUE>>}
  <2>1. slots \subseteq 1 .. TlbSize
    BY DEF tlbMatches
  <2>2. \A e \in rights : e[1] \in BOOLEAN /\ e[2] \in BOOLEAN
    <3> SUFFICES ASSUME NEW e \in rights PROVE e[1] \in BOOLEAN /\ e[2] \in BOOLEAN
      OBVIOUS
    <3>1. CASE e = <<FALSE, FALSE>>
      BY <3>1
    <3>2. CASE e = <<TRUE, FALSE>>
      BY <3>2
    <3>3. CASE e = <<TRUE, TRUE>>
      BY <3>3
    <3> QED BY <3>1, <3>2, <3>3
  <2> DEFINE simple == {Completed([m EXCEPT !.intr = FALSE]), Completed([m EXCEPT !.cu1 = TRUE, !.memo = NoMemo]),
                       dataAccess(m, a, FALSE)}
             writes == {Completed(tlbWrite(m, i, m.bad, e[1], e[2])) : i \in slots, e \in rights}
             spaces == {Completed(writeEntryHi(m, x)) : x \in Asids}
             reads == IF TlbrUsed THEN {Completed(tlbRead(m, i)) : i \in 1 .. TlbSize} ELSE {}
  <2>4. service(m, a) = UNION (simple \cup writes \cup spaces \cup reads)
    BY DEF service
  <2>3. \/ r \in Completed([m EXCEPT !.intr = FALSE])
        \/ r \in Completed([m EXCEPT !.cu1 = TRUE, !.memo = NoMemo])
        \/ r \in dataAccess(m, a, FALSE)
        \/ \E i \in slots, e \in rights : r \in Completed(tlbWrite(m, i, m.bad, e[1], e[2]))
        \/ \E x \in Asids : r \in Completed(writeEntryHi(m, x))
        \/ TlbrUsed /\ \E i \in 1 .. TlbSize : r \in Completed(tlbRead(m, i))
    <3> HIDE DEF simple, writes, spaces, reads, slots, rights
    <3>1. PICK S \in simple \cup writes \cup spaces \cup reads : r \in S
      BY <2>4
    <3>2. CASE S \in simple
      BY <3>1, <3>2 DEF simple
    <3>3. CASE S \in writes
      <4>1. PICK i \in slots, e \in rights : S = Completed(tlbWrite(m, i, m.bad, e[1], e[2]))
        BY <3>3 DEF writes
      <4> QED BY <3>1, <4>1
    <3>4. CASE S \in spaces
      BY <3>1, <3>4 DEF spaces
    <3>5. CASE S \in reads
      BY <3>1, <3>5 DEF reads
    <3> QED BY <3>1, <3>2, <3>3, <3>4, <3>5
  <2> HIDE DEF slots, rights
  <2> QED BY <2>1, <2>2, <2>3 DEF Serviced
<1>2. ASSUME NEW n, Serviced(m, n), r \in Completed(n)
      PROVE  /\ r.jb = FALSE /\ r.exc = FALSE /\ Follows(m, r.m)
             /\ r.m.pc = m.pc /\ r.m.next = m.next /\ WentOn(m, r.m)
  BY <1>2, ServicedFollows DEF Completed
<1>3. CASE r \in dataAccess(m, a, FALSE)
  <2>1. WentOn(m, m)
    BY DEF WentOn
  <2> QED BY <1>3, <2>1, AccessDoes
<1> QED BY <1>1, <1>2, <1>3

\* ERET goes back to EPC.
LEMMA EretDoes ==
  ASSUME NEW m \in Machine, ~m.erl, NEW r \in eret(m)
  PROVE  /\ r.jb = FALSE /\ r.exc = FALSE /\ Follows(m, r.m)
         /\ r.m.pc = m.epc /\ r.m.next = m.epc + 1 /\ ~r.m.exl /\ ~r.m.erl /\ ~r.m.delay
<1> DEFINE n == [m EXCEPT !.pc = m.epc, !.exl = FALSE, !.next = m.epc + 1, !.delay = FALSE, !.memo = NoMemo]
<1>0. m.epc \in Int /\ NoMemo \in Int /\ m.gen \in BOOLEAN
  BY DEF Machine, NoMemo
<1>1. r = [m |-> n, jb |-> FALSE, exc |-> FALSE]
  BY DEF eret, Completed, Machine
<1>2. n \in Machine
  <2> DEFINE x == m.epc
             y == m.epc + 1
  <2>1. x \in Int /\ y \in Int
    BY <1>0
  <2>2. n = [m EXCEPT !.pc = x, !.exl = FALSE, !.next = y, !.delay = FALSE, !.memo = NoMemo]
    OBVIOUS
  <2> HIDE DEF x, y, n
  <2> QED BY <1>0, <2>1, <2>2 DEF Machine
<1>3. n.memo = NoMemo /\ n.gen = m.gen /\ n.asid = m.asid /\ n.tlb = m.tlb
  BY DEF Machine
<1>4. n.pc = m.epc /\ n.next = m.epc + 1 /\ n.exl = FALSE /\ n.erl = m.erl /\ n.delay = FALSE
  BY DEF Machine
<1> HIDE DEF n
<1> QED BY <1>0, <1>1, <1>2, <1>3, <1>4 DEF Follows

\* An instruction that is no branch and no ERET goes on or traps; with ERL and CU1 it goes on.
LEMMA StraightDoes ==
  ASSUME NEW m \in Machine, NEW a \in Int, NEW k \in Straight \cup {"service"},
         NEW r \in execute(m, a, k)
  PROVE  /\ r.jb = FALSE /\ r.exc \in BOOLEAN /\ Follows(m, r.m)
         /\ r.exc => Trapped(m, r.m, a) /\ ~(m.erl /\ m.cu1)
         /\ ~r.exc => r.m.pc = m.pc /\ r.m.next = m.next /\ WentOn(m, r.m)
<1>0. Follows(m, m) /\ WentOn(m, m)
  BY DEF Follows, WentOn, SameSpace, Machine
<1>1. CASE k = "op"
  <2>1. r = [m |-> m, jb |-> FALSE, exc |-> FALSE]
    BY <1>1 DEF execute, Completed
  <2> QED BY <1>0, <2>1
<1>2. CASE k = "ld"
  <2>1. r \in dataAccess(m, a, FALSE)
    BY <1>2 DEF execute
  <2> QED BY <1>0, <2>1, AccessDoes
<1>3. CASE k = "st"
  <2>1. r \in dataAccess(m, a, TRUE)
    BY <1>3 DEF execute
  <2> QED BY <1>0, <2>1, AccessDoes
<1>4. CASE k = "fp"
  <2>1. CASE m.cu1
    <3>1. r = [m |-> m, jb |-> FALSE, exc |-> FALSE]
      BY <1>4, <2>1 DEF execute, Completed
    <3> QED BY <1>0, <3>1
  <2>2. CASE ~m.cu1
    <3>1. r \in copUnusable(m, a)
      BY <1>4, <2>2 DEF execute
    <3> QED BY <2>2, <3>1, UnusableDoes
  <2> QED BY <2>1, <2>2
<1>5. CASE k = "ei"
  <2>1. r \in writeStatus(m, a, TRUE)
    BY <1>5 DEF execute
  <2> QED BY <2>1, StatusDoes
<1>6. CASE k = "di"
  <2>1. r \in writeStatus(m, a, FALSE)
    BY <1>6 DEF execute
  <2> QED BY <2>1, StatusDoes
<1>7. CASE k = "service"
  <2>1. r \in service(m, a)
    BY <1>7 DEF execute
  <2> QED BY <2>1, ServiceDoes
<1> QED BY <1>1, <1>2, <1>3, <1>4, <1>5, <1>6, <1>7 DEF Straight

Branched(m, k, r) ==
  /\ r.exc = FALSE /\ r.jb = (k # "likelyn") /\ Follows(m, r.m) /\ WentOn(m, r.m)
  /\ k = "likelyn" => r.m.pc = m.next /\ r.m.next = m.next + 1
  /\ k # "likelyn" => r.m.pc = m.pc /\ r.m.next = IF k = "brn" THEN m.next ELSE 0

\* A branch only moves pc and next.
LEMMA BranchDoes ==
  ASSUME NEW m \in Machine, NEW a \in Int, NEW k \in Branches, NEW r \in execute(m, a, k)
  PROVE  Branched(m, k, r)
<1> DEFINE x == IF k = "likelyn" THEN m.next ELSE m.pc
           y == CASE k = "likelyn" -> m.next + 1 [] k = "brn" -> m.next [] OTHER -> 0
           n == [m EXCEPT !.pc = x, !.next = y]
<1>1. r = [m |-> n, jb |-> (k # "likelyn"), exc |-> FALSE]
  BY DEF execute, Branches, Completed, Machine
<1>2. x \in Int /\ y \in Int
  BY DEF Machine
<1>3. n.pc = x /\ n.next = y
  BY DEF Machine
<1>4. Follows(m, n) /\ WentOn(m, n)
  <2> HIDE DEF x, y
  <2>1. n \in Machine
    BY <1>2 DEF Machine
  <2>2. n.memo = m.memo /\ SameSpace(m, n) /\ n.gen = m.gen /\ m.gen \in BOOLEAN
    BY DEF Machine, SameSpace
  <2>3. WentOn(m, n)
    BY DEF Machine, WentOn
  <2> HIDE DEF n
  <2> QED BY <2>1, <2>2, <2>3 DEF Follows, SameSpace
<1> HIDE DEF n
<1> QED BY <1>1, <1>3, <1>4 DEF Branches, Branched

----------------------------------------------------------------------------
(* The reference and what is kept on the side.                             *)

\* a is where the program goes on, in a slot or not.
Here(r, a) == Resumes(r, a) \/ (r.slot /\ a = r.at)

\* The reference completes the instruction where it is, and stays in place.
LEMMA ReferenceGoes ==
  ASSUME VrTyped, RefKept(prog, ref), NEW a \in DOMAIN prog, Here(ref, a)
  PROVE  /\ RefStep(ref, a) \in [at : Int, slot : BOOLEAN, to : Int] /\ RefKept(prog, RefStep(ref, a))
         /\ prog[a] = "likelyn" => RefStep(ref, a).slot = FALSE /\ RefStep(ref, a).at = a + 2
         /\ prog[a] \in Slotted => /\ RefStep(ref, a).slot = TRUE /\ RefStep(ref, a).at = a + 1
                                   /\ RefStep(ref, a).to = IF prog[a] = "brn" THEN a + 2 ELSE 0
         /\ prog[a] \in Straight => /\ RefStep(ref, a).slot = FALSE
                                    /\ RefStep(ref, a).at = IF ref.slot THEN ref.to ELSE a + 1
         /\ ref.slot /\ a = ref.at => prog[a] \in Straight
         /\ ref.slot /\ a # ref.at => prog[a] \in Slotted
<1> DEFINE q == RefStep(ref, a)
<1>0. /\ a \in Int /\ a >= 0 /\ a <= Refill - 3 /\ ref.at \in Int /\ ref.to \in Int /\ ref.slot \in BOOLEAN
      /\ prog[a] \in Straight \cup Branches
  BY DEF VrTyped, WellFormed, Straight, Refill
<1>1. ref.slot /\ a = ref.at => prog[a] \in Straight
  <2> SUFFICES ASSUME ref.slot, a = ref.at PROVE prog[a] \in Straight
    OBVIOUS
  <2>1. a - 1 \in DOMAIN prog /\ prog[a - 1] \in Slotted /\ (a - 1) + 1 = a
    BY <1>0 DEF RefKept
  <2>2. prog[a] \notin Branches
    BY <2>1 DEF VrTyped, WellFormed, Slotted
  <2> QED BY <1>0, <2>2
<1>2. ref.slot /\ a # ref.at => prog[a] \in Slotted
  BY <1>0 DEF Here, Resumes, RefKept
<1>3. CASE prog[a] = "likelyn"
  <2>1. q = [at |-> a + 2, slot |-> FALSE, to |-> 0]
    BY <1>3 DEF RefStep
  <2> HIDE DEF q
  <2> QED BY <1>0, <1>1, <1>2, <1>3, <2>1 DEF RefKept, Slotted, Straight, Refill, q
<1>4. CASE prog[a] \in Slotted
  <2>1. q = [at |-> a + 1, slot |-> TRUE, to |-> IF prog[a] = "brn" THEN a + 2 ELSE 0]
    BY <1>4 DEF RefStep, Slotted, Branches
  <2>2. RefKept(prog, q)
    <3>1. (a + 1) - 1 = a /\ (a + 1) + 1 = a + 2
      BY <1>0
    <3> HIDE DEF q
    <3> QED BY <1>0, <1>4, <2>1, <3>1 DEF RefKept, Refill
  <2>3. prog[a] # "likelyn" /\ prog[a] \notin Straight
    BY <1>4 DEF Slotted, Straight, Branches
  <2>4. q \in [at : Int, slot : BOOLEAN, to : Int]
    BY <1>0, <2>1
  <2> HIDE DEF q
  <2> QED BY <1>1, <1>2, <2>1, <2>2, <2>3, <2>4 DEF q
<1>5. CASE prog[a] \in Straight
  <2>0. ref.slot => a = ref.at
    BY <1>2, <1>5 DEF Slotted, Straight, Branches
  <2>1. q = [at |-> IF ref.slot THEN ref.to ELSE a + 1, slot |-> FALSE, to |-> 0]
    BY <1>5, <2>0 DEF RefStep, Straight
  <2>2. prog[a] # "likelyn" /\ prog[a] \notin Slotted
    BY <1>5 DEF Slotted, Straight, Branches
  <2>3. q \in [at : Int, slot : BOOLEAN, to : Int]
    BY <1>0, <2>1
  <2>4. RefKept(prog, q)
    <3> HIDE DEF q
    <3> QED BY <1>0, <2>1 DEF RefKept, Refill
  <2> HIDE DEF q
  <2> QED BY <1>1, <1>2, <2>1, <2>2, <2>3, <2>4 DEF q
<1> QED BY <1>0, <1>3, <1>4, <1>5 DEF Slotted

\* What is kept on the side is right after a step that Follows.
LEMMA MapFollows ==
  ASSUME NEW m \in Machine, NEW n, NEW kn, Follows(m, n), MapKept(m, kn)
  PROVE  MapKept(n, kn)
<1>0. SUFFICES ASSUME ~TlbrUsed PROVE MapKept(n, kn)
  BY DEF MapKept
<1>1. n.memo # NoMemo => translate(n, n.memo, FALSE).ok
  <2>1. SameSpace(m, n) => translate(n, m.memo, FALSE) = translate(m, m.memo, FALSE)
    BY SameTranslation
  <2> QED BY <1>0, <2>1 DEF Follows, MapKept
<1>2. ~n.gen => kn = <<n.asid, n.tlb>>
  BY <1>0 DEF Follows, MapKept
<1> QED BY <1>1, <1>2 DEF MapKept

\* The machine that is about to execute the instruction of its page.
Fetched(m) == [m EXCEPT !.pc = m.next, !.next = m.next + 1, !.memo = PageOf(m.pc)]

\* A fetch remembers a page that is mapped.
LEMMA FetchKeeps ==
  ASSUME NEW m \in Machine, NEW kn, MapKept(m, kn), m.memo = PageOf(m.pc) \/ translate(m, PageOf(m.pc), FALSE).ok
  PROVE  /\ Fetched(m) \in Machine /\ MapKept(Fetched(m), kn) /\ SameSpace(m, Fetched(m))
         /\ Fetched(m).pc = m.next /\ Fetched(m).next = m.next + 1 /\ Fetched(m).epc = m.epc
         /\ Fetched(m).delay = m.delay /\ Fetched(m).cu1 = m.cu1
<1> DEFINE n == Fetched(m)
           g == PageOf(m.pc)
           y == m.next + 1
<1>0. g \in Int /\ m.next \in Int /\ y \in Int /\ m.pc \in Int
  BY DEF PageOf, Machine
<1>1. n = [m EXCEPT !.pc = m.next, !.next = y, !.memo = g]
  BY DEF Fetched
<1> HIDE DEF n, g, y
<1>2. n \in Machine
  BY <1>0, <1>1 DEF Machine
<1>3. SameSpace(m, n) /\ n.gen = m.gen /\ n.memo = g
  BY <1>1 DEF Machine, SameSpace
<1>4. n.pc = m.next /\ n.next = y /\ n.epc = m.epc /\ n.delay = m.delay /\ n.cu1 = m.cu1
  BY <1>1 DEF Machine
<1>5. ~TlbrUsed /\ n.memo # NoMemo => translate(n, n.memo, FALSE).ok
  <2>1. ~TlbrUsed /\ g # NoMemo => translate(m, g, FALSE).ok
    BY DEF MapKept, g
  <2>2. translate(n, g, FALSE) = translate(m, g, FALSE)
    BY <1>3, SameTranslation
  <2> QED BY <1>3, <2>1, <2>2
<1>6. MapKept(n, kn)
  BY <1>3, <1>5 DEF MapKept, SameSpace
<1> QED BY <1>2, <1>3, <1>4, <1>6 DEF n, y

\* n is m with its delay bit set so.
DelayIs(m, n, b) ==
  /\ Follows(m, n) /\ n.pc = m.pc /\ n.next = m.next /\ n.delay = b /\ n.exl = m.exl /\ n.erl = m.erl
  /\ n.cu1 = m.cu1 /\ n.epc = m.epc

\* Only the delay bit changes.
LEMMA DelaySet ==
  ASSUME NEW m \in Machine, NEW b \in BOOLEAN
  PROVE  DelayIs(m, [m EXCEPT !.delay = b], b)
<1> DEFINE n == [m EXCEPT !.delay = b]
<1>1. n \in Machine
  BY DEF Machine
<1>2. n.memo = m.memo /\ SameSpace(m, n) /\ n.gen = m.gen
  BY DEF Machine, SameSpace
<1>3. m.gen \in BOOLEAN
  BY DEF Machine
<1>4. /\ n.pc = m.pc /\ n.next = m.next /\ n.delay = b /\ n.exl = m.exl /\ n.erl = m.erl
      /\ n.cu1 = m.cu1 /\ n.epc = m.epc
  BY DEF Machine
<1> HIDE DEF n
<1>5. Follows(m, n)
  BY <1>1, <1>2, <1>3 DEF Follows, SameSpace
<1> QED BY <1>4, <1>5 DEF n, DelayIs

----------------------------------------------------------------------------
(* The interpreter.                                                        *)

\* An instruction completed in program order.
InOrder == done' >= 0 => done' = ref.at \/ (ref.slot /\ done' = ref.at - 1)

\* What a step of the interpreter leaves right.
StepRight ==
  /\ c' \in Machine /\ MapKept(c', known)
  /\ ref' \in [at : Int, slot : BOOLEAN, to : Int] /\ RefKept(prog, ref')
  /\ Precise(c', ref') /\ InOrder

\* Wherever the program stands, a trap out of it can return.
LEMMA TrapReturns ==
  ASSUME NEW m \in Machine, NEW n, NEW r \in [at : Int, slot : BOOLEAN, to : Int], Precise(m, r), Trapped(m, n, m.pc),
         m.exl \/ ~m.erl
  PROVE  Precise(n, r)
<1>1. n.exl /\ n.pc \in Handler /\ ~n.delay /\ n.next = n.pc + 1
  BY DEF Trapped, Handler
<1>2. ~n.erl
  BY DEF Trapped, Precise
<1>3. Resumes(r, n.epc)
  <2>1. CASE m.exl
    BY <2>1 DEF Trapped, Precise
  <2>2. CASE ~m.exl /\ m.delay
    BY <2>2 DEF Trapped, Precise, Resumes
  <2>3. CASE ~m.exl /\ ~m.delay
    BY <2>3 DEF Trapped, Precise
  <2> QED BY <2>1, <2>2, <2>3
<1> QED BY <1>1, <1>2, <1>3 DEF Precise

\* The fetch faults.
LEMMA FetchFaults ==
  ASSUME VrInv, blk = Idle, Runnable(c.pc), ~translate(c, PageOf(c.pc), FALSE).ok,
         c' = Raise(c, c.pc, PageOf(c.pc), translate(c, PageOf(c.pc), FALSE)), NotRetired
  PROVE  StepRight
<1> DEFINE t == translate(c, PageOf(c.pc), FALSE)
<1>0. c \in Machine /\ MapKept(c, known) /\ Precise(c, ref) /\ c.pc \in Int /\ PageOf(c.pc) \in Int
  BY DEF VrInv, VrTyped, Placed, Idle, Machine, PageOf
<1>1. t.refill \in BOOLEAN
  BY FaultType
<1>2. Follows(c, c') /\ Trapped(c, c', c.pc)
  <2>1. c' = Raise(c, c.pc, PageOf(c.pc), t)
    OBVIOUS
  <2> HIDE DEF t
  <2>2. ASSUME NEW g \in Int PROVE Follows(c, Raise(c, c.pc, g, t)) /\ Trapped(c, Raise(c, c.pc, g, t), c.pc)
    BY ONLY <1>0, <1>1, <2>2, FaultTraps, Zenon
  <2>3. Follows(c, Raise(c, c.pc, PageOf(c.pc), t)) /\ Trapped(c, Raise(c, c.pc, PageOf(c.pc), t), c.pc)
    BY ONLY <1>0, <2>2, Zenon
  <2> QED BY ONLY <2>1, <2>3, Zenon
<1>3. ~c.exl
  <2>1. c.pc \in Handler => PageOf(c.pc) >= Refill
    BY DEF Handler, PageOf, Refill, General
  <2> QED BY <1>0, <2>1, NoFault DEF Precise
<1>4. ~c.erl
  <2>1. c.pc < Refill
    <3>1. ref.at < Refill /\ ref.at \in Int /\ (c.pc = ref.at \/ c.pc = ref.at - 1)
      BY <1>0, <1>3 DEF Precise, Resumes, VrInv, VrTyped, RefKept
    <3> QED BY <3>1 DEF Refill
  <2>2. PageOf(c.pc) < Refill
    BY <1>0, <2>1 DEF PageOf, Refill
  <2> QED BY <1>0, <2>2, NoFault
<1>5. Precise(c', ref)
  BY <1>0, <1>2, <1>4, TrapReturns DEF VrInv, VrTyped
<1>6. MapKept(c', known) /\ c' \in Machine
  BY <1>0, <1>2, MapFollows DEF Follows
<1>7. ref' = ref /\ InOrder
  BY DEF NotRetired, InOrder
<1> QED BY <1>5, <1>6, <1>7 DEF StepRight, VrInv, VrTyped

\* An instruction in a handler: at a vector reached in this step or before.
LEMMA HandlerSteps ==
  ASSUME VrInv, NEW m \in Machine, MapKept(m, known), m.exl, m.pc \in Handler, ~m.delay, ~m.erl,
         m.next = m.pc + 1, Resumes(ref, m.epc), NEW a \in Int,
         NEW r \in execute(Fetched(m), a, InsnAt(m.pc)), c' = [r.m EXCEPT !.delay = r.jb],
         IF r.exc THEN NotRetired ELSE Retire(m.pc)
  PROVE  StepRight
<1>0. /\ m.pc \notin DOMAIN prog /\ m.pc \in Int /\ PageOf(m.pc) = m.pc /\ PageOf(m.pc) >= Refill
      /\ ref \in [at : Int, slot : BOOLEAN, to : Int] /\ RefKept(prog, ref)
  <2>1. ref \in [at : Int, slot : BOOLEAN, to : Int] /\ RefKept(prog, ref) /\ DOMAIN prog \subseteq 0 .. Refill - 3
    BY DEF VrInv, VrTyped, WellFormed
  <2>2. m.pc \in {100, 101, 200, 201}
    BY DEF Handler, Refill, General
  <2>3. m.pc \in Int /\ m.pc >= Refill /\ m.pc \notin 0 .. Refill - 3
    BY <2>2 DEF Refill
  <2> QED BY <2>1, <2>3 DEF PageOf
<1>1. ref' = ref /\ InOrder
  BY <1>0 DEF NotRetired, Retire, InOrder
<1>2. translate(m, PageOf(m.pc), FALSE).ok
  BY <1>0, NoFault
<1> DEFINE n == Fetched(m)
<1>3. /\ n \in Machine /\ MapKept(n, known) /\ SameSpace(m, n) /\ n.pc = m.next /\ n.next = m.next + 1
      /\ n.epc = m.epc /\ n.delay = m.delay /\ n.cu1 = m.cu1
  BY <1>2, FetchKeeps
<1>4. r \in execute(n, a, InsnAt(m.pc))
  OBVIOUS
<1>c. c' = [r.m EXCEPT !.delay = r.jb]
  OBVIOUS
<1> HIDE DEF n
<1>5. CASE m.pc \in {Refill, General}
  <2>1. InsnAt(m.pc) = "service"
    BY <1>5 DEF InsnAt, Refill, General
  <2>2. /\ r.jb = FALSE /\ r.exc \in BOOLEAN /\ Follows(n, r.m)
        /\ r.exc => Trapped(n, r.m, a)
        /\ ~r.exc => r.m.pc = n.pc /\ r.m.next = n.next /\ WentOn(n, r.m)
    <3>1. r \in execute(n, a, "service") /\ "service" \in Straight \cup {"service"}
      BY <1>4, <2>1
    <3>2. n \in Machine /\ a \in Int
      BY <1>3
    <3> QED BY ONLY <3>1, <3>2, StraightDoes
  <2>3. r.m \in Machine /\ MapKept(r.m, known)
    BY <1>3, <2>2, MapFollows DEF Follows
  <2>d. DelayIs(r.m, c', r.jb) /\ r.jb = FALSE
    BY <1>c, <2>2, <2>3, DelaySet
  <2>4. Follows(r.m, c') /\ c'.delay = FALSE /\ c'.pc = r.m.pc /\ c'.next = r.m.next /\ c'.exl = r.m.exl
        /\ c'.erl = r.m.erl /\ c'.cu1 = r.m.cu1 /\ c'.epc = r.m.epc
    BY <2>d DEF DelayIs
  <2>5. c' \in Machine /\ MapKept(c', known)
    BY <2>3, <2>4, MapFollows DEF Follows
  <2>6. n.exl /\ ~n.erl
    BY <1>3 DEF SameSpace
  <2>7. c'.pc \in Handler /\ c'.next = c'.pc + 1 /\ c'.exl /\ ~c'.erl /\ c'.epc = m.epc
    <3>1. CASE r.exc
      BY <1>3, <2>2, <2>4, <2>6, <3>1 DEF Trapped, Handler
    <3>2. CASE ~r.exc
      BY <1>3, <1>5, <2>2, <2>4, <2>6, <3>2 DEF WentOn, Handler
    <3> QED BY <3>1, <3>2
  <2>8. Precise(c', ref)
    BY <2>4, <2>7 DEF Precise
  <2> QED BY <1>0, <1>1, <2>5, <2>8 DEF StepRight
<1>6. CASE m.pc \in {Refill + 1, General + 1}
  <2>1. InsnAt(m.pc) = "eret"
    BY <1>6 DEF InsnAt, Refill, General
  <2>0. r \in eret(n) /\ ~n.erl
    BY <1>3, <1>4, <2>1 DEF execute, SameSpace
  <2>2. /\ r.jb = FALSE /\ r.exc = FALSE /\ Follows(n, r.m)
        /\ r.m.pc = n.epc /\ r.m.next = n.epc + 1 /\ ~r.m.exl /\ ~r.m.erl
    BY <1>3, <2>0, EretDoes
  <2>3. r.m \in Machine /\ MapKept(r.m, known)
    BY <1>3, <2>2, MapFollows DEF Follows
  <2>d. DelayIs(r.m, c', r.jb) /\ r.jb = FALSE
    BY <1>c, <2>2, <2>3, DelaySet
  <2>4. Follows(r.m, c') /\ c'.delay = FALSE /\ c'.pc = r.m.pc /\ c'.next = r.m.next /\ c'.exl = r.m.exl
        /\ c'.erl = r.m.erl
    BY <2>d DEF DelayIs
  <2>5. c' \in Machine /\ MapKept(c', known)
    BY <2>3, <2>4, MapFollows DEF Follows
  <2>6. Precise(c', ref)
    BY <1>3, <2>2, <2>4 DEF Precise
  <2> QED BY <1>0, <1>1, <2>5, <2>6 DEF StepRight
<1> QED BY <1>5, <1>6 DEF Handler

\* An instruction of the program.
LEMMA ProgramSteps ==
  ASSUME VrInv, blk = Idle, ~c.exl, c.pc \in DOMAIN prog,
         c.memo = PageOf(c.pc) \/ translate(c, PageOf(c.pc), FALSE).ok,
         NEW r \in execute(Fetched(c), c.pc, InsnAt(c.pc)), c' = [r.m EXCEPT !.delay = r.jb],
         IF r.exc THEN NotRetired ELSE Retire(c.pc)
  PROVE  StepRight
<1> DEFINE n == Fetched(c)
           a == c.pc
           q == RefStep(ref, a)
<1>0. /\ c \in Machine /\ MapKept(c, known) /\ Precise(c, ref) /\ a \in Int /\ a \in DOMAIN prog /\ VrTyped
      /\ a >= 0 /\ a <= Refill - 3 /\ ref \in [at : Int, slot : BOOLEAN, to : Int] /\ RefKept(prog, ref)
      /\ prog[a] \in Straight \cup Branches
  <2>1. c \in Machine /\ MapKept(c, known) /\ Precise(c, ref)
    BY DEF VrInv, VrTyped, Placed, Idle
  <2>2. VrTyped /\ ref \in [at : Int, slot : BOOLEAN, to : Int] /\ RefKept(prog, ref) /\ WellFormed(prog)
    BY DEF VrInv, VrTyped
  <2>3. a \in 0 .. Refill - 3 /\ prog[a] \in Straight \cup Branches
    BY <2>2 DEF WellFormed, Straight
  <2> QED BY <2>1, <2>2, <2>3 DEF Refill
<1>1. /\ n \in Machine /\ MapKept(n, known) /\ SameSpace(c, n) /\ n.pc = c.next /\ n.next = c.next + 1
      /\ n.epc = c.epc /\ n.delay = c.delay /\ n.cu1 = c.cu1
  BY <1>0, FetchKeeps
<1>2. r \in execute(n, a, prog[a])
  BY <1>0 DEF InsnAt, Refill, General
<1>3. Here(ref, a) /\ (c.delay => ref.slot /\ a = ref.at) /\ (~c.delay => Resumes(ref, a) /\ c.next = a + 1)
  BY <1>0 DEF Precise, Here
<1>4. /\ q \in [at : Int, slot : BOOLEAN, to : Int] /\ RefKept(prog, q)
      /\ prog[a] = "likelyn" => q.slot = FALSE /\ q.at = a + 2
      /\ prog[a] \in Slotted => /\ q.slot = TRUE /\ q.at = a + 1
                                /\ q.to = IF prog[a] = "brn" THEN a + 2 ELSE 0
      /\ prog[a] \in Straight => /\ q.slot = FALSE
                                 /\ q.at = IF ref.slot THEN ref.to ELSE a + 1
      /\ ref.slot /\ a = ref.at => prog[a] \in Straight
      /\ ref.slot /\ a # ref.at => prog[a] \in Slotted
  BY <1>0, <1>3, ReferenceGoes
<1>5. r.exc = FALSE => ref' = q /\ InOrder
  BY <1>0, <1>3 DEF Retire, InOrder, Here, Resumes
<1>6. r.exc = TRUE => ref' = ref /\ InOrder
  BY DEF NotRetired, InOrder
<1>c. c' = [r.m EXCEPT !.delay = r.jb]
  OBVIOUS
<1>7. c.delay \in BOOLEAN /\ c.erl \in BOOLEAN /\ c.cu1 \in BOOLEAN
  BY <1>0 DEF Machine
<1> HIDE DEF n, q
<1>8. CASE prog[a] \in Straight
  <2>2. /\ r.jb = FALSE /\ r.exc \in BOOLEAN /\ Follows(n, r.m)
        /\ r.exc => Trapped(n, r.m, a) /\ ~(n.erl /\ n.cu1)
        /\ ~r.exc => r.m.pc = n.pc /\ r.m.next = n.next /\ WentOn(n, r.m)
    BY <1>0, <1>1, <1>2, <1>8, StraightDoes
  <2>3. r.m \in Machine /\ MapKept(r.m, known)
    BY <1>1, <2>2, MapFollows DEF Follows
  <2>d. DelayIs(r.m, c', r.jb) /\ r.jb = FALSE
    BY <1>c, <2>2, <2>3, DelaySet
  <2>4. Follows(r.m, c') /\ c'.delay = FALSE /\ c'.pc = r.m.pc /\ c'.next = r.m.next /\ c'.exl = r.m.exl
        /\ c'.erl = r.m.erl /\ c'.cu1 = r.m.cu1 /\ c'.epc = r.m.epc
    BY <2>d DEF DelayIs
  <2>5. c' \in Machine /\ MapKept(c', known)
    BY <2>3, <2>4, MapFollows DEF Follows
  <2>6. CASE r.exc
    <3>1. Trapped(c, c', c.pc)
      BY <1>1, <2>2, <2>4, <2>6 DEF Trapped, SameSpace
    <3>2. ~c.erl
      BY <1>0, <1>1, <2>2, <2>6 DEF SameSpace, Precise
    <3>3. Precise(c', ref)
      BY <1>0, <3>1, <3>2, TrapReturns
    <3> QED BY <1>0, <1>6, <2>2, <2>5, <2>6, <3>3 DEF StepRight
  <2>7. CASE ~r.exc
    <3>1. c'.pc = c.next /\ c'.next = c'.pc + 1 /\ ~c'.exl /\ (c'.erl => c'.cu1)
      BY <1>0, <1>1, <2>2, <2>4, <2>7 DEF WentOn, SameSpace, Precise
    <3>2. Resumes(q, c.next)
      <4>1. CASE c.delay
        BY <1>0, <1>3, <1>4, <1>8, <4>1 DEF Precise, Resumes
      <4>2. CASE ~c.delay
        <5>1. ~ref.slot
          BY <1>0, <1>3, <1>4, <1>8, <4>2 DEF Resumes, Slotted, Straight, Branches
        <5> QED BY <1>3, <1>4, <1>8, <4>2, <5>1 DEF Resumes
      <4> QED BY <4>1, <4>2
    <3>3. Precise(c', q)
      BY <2>4, <3>1, <3>2 DEF Precise
    <3> QED BY <1>4, <1>5, <2>2, <2>5, <2>7, <3>3 DEF StepRight
  <2> QED BY <2>6, <2>7
<1>9. CASE prog[a] \in Branches
  <2>1. /\ r.exc = FALSE /\ r.jb = (prog[a] # "likelyn") /\ Follows(n, r.m) /\ WentOn(n, r.m)
        /\ prog[a] = "likelyn" => r.m.pc = n.next /\ r.m.next = n.next + 1
        /\ prog[a] # "likelyn" => r.m.pc = n.pc /\ r.m.next = IF prog[a] = "brn" THEN n.next ELSE 0
    <3>1. Branched(n, prog[a], r)
      BY <1>0, <1>1, <1>2, <1>9, BranchDoes
    <3> QED BY <3>1 DEF Branched
  <2>2. r.jb \in BOOLEAN
    BY <2>1
  <2>3. r.m \in Machine /\ MapKept(r.m, known)
    BY <1>1, <2>1, MapFollows DEF Follows
  <2>4. Follows(r.m, c') /\ c'.delay = r.jb /\ c'.pc = r.m.pc /\ c'.next = r.m.next /\ c'.exl = r.m.exl
        /\ c'.erl = r.m.erl /\ c'.cu1 = r.m.cu1 /\ c'.epc = r.m.epc
    BY <1>c, <2>2, <2>3, DelaySet DEF DelayIs
  <2>5. c' \in Machine /\ MapKept(c', known)
    <3>1. c' \in Machine
      BY <2>4 DEF Follows
    <3> QED BY <2>3, <2>4, <3>1, MapFollows
  <2>6. ~c.delay /\ c.next = a + 1
    BY <1>3, <1>4, <1>7, <1>9 DEF Straight, Branches
  <2>7. ~c'.exl /\ (c'.erl => c'.cu1)
    BY <1>0, <1>1, <2>1, <2>4 DEF WentOn, SameSpace, Precise
  <2>8. Precise(c', q)
    <3>1. CASE prog[a] = "likelyn"
      <4>1. c'.delay = FALSE
        BY <2>1, <2>4, <3>1
      <4>2. c'.pc = a + 2 /\ c'.next = c'.pc + 1
        <5>1. n.next = a + 2
          BY <1>0, <1>1, <2>6
        <5> QED BY <1>0, <2>1, <2>4, <3>1, <5>1
      <4> QED BY <1>4, <2>7, <3>1, <4>1, <4>2 DEF Precise, Resumes
    <3>2. CASE prog[a] # "likelyn"
      <4>0. c'.delay = TRUE
        BY <2>1, <2>4, <3>2
      <4>1. c'.pc = a + 1 /\ c'.next = IF prog[a] = "brn" THEN a + 2 ELSE 0
        <5>1. n.next = a + 2 /\ n.pc = a + 1
          BY <1>0, <1>1, <2>6
        <5> QED BY <2>1, <2>4, <3>2, <5>1
      <4>2. prog[a] \in Slotted
        BY <1>9, <3>2 DEF Slotted
      <4> QED BY <1>4, <2>7, <4>0, <4>1, <4>2 DEF Precise
    <3> QED BY <3>1, <3>2
  <2> QED BY <1>4, <1>5, <2>1, <2>5, <2>8 DEF StepRight
<1> QED BY <1>0, <1>8, <1>9

\* Below the vectors and at them are two places.
LEMMA ProgramOrHandler ==
  ASSUME VrInv, blk = Idle, Runnable(c.pc)
  PROVE  /\ c.exl => c.pc \in Handler /\ c.pc \notin DOMAIN prog
         /\ ~c.exl => c.pc \in DOMAIN prog
<1>1. Precise(c, ref) /\ RefKept(prog, ref) /\ ref.at \in Int /\ DOMAIN prog \subseteq 0 .. Refill - 3 /\ ref.to \in Int
  BY DEF VrInv, VrTyped, Placed, Idle, WellFormed
<1>2. ~c.exl => c.pc = ref.at \/ c.pc = ref.at - 1
  BY <1>1 DEF Precise, Resumes
<1>3. ~c.exl => c.pc \notin Handler
  BY <1>1, <1>2 DEF RefKept, Handler, Refill, General
<1>4. c.pc \in Handler => c.pc \notin DOMAIN prog
  <2>1. c.pc \in Handler => c.pc \notin 0 .. Refill - 3
    BY DEF Handler, Refill, General
  <2> QED BY <1>1, <2>1
<1>5. c.pc \in DOMAIN prog \/ c.pc \in Handler
  BY DEF Runnable, Handler
<1> QED BY <1>1, <1>3, <1>4, <1>5 DEF Precise

\* step(), with an interrupt delivered first or not.
LEMMA StepIsRight ==
  ASSUME VrInv, step
  PROVE  StepRight
<1> DEFINE m1 == IF Deliverable(c) THEN takeException(c, c.pc, FALSE) ELSE c
           t == translate(m1, PageOf(m1.pc), FALSE)
<1>0. /\ c \in Machine /\ MapKept(c, known) /\ Precise(c, ref) /\ c.pc \in Int
      /\ ref \in [at : Int, slot : BOOLEAN, to : Int] /\ blk = Idle /\ Runnable(c.pc)
  BY DEF VrInv, VrTyped, Placed, Idle, step, Machine
<1>1. \/ m1.memo # PageOf(m1.pc) /\ ~t.ok /\ c' = Raise(m1, c.pc, PageOf(m1.pc), t) /\ NotRetired
      \/ /\ m1.memo = PageOf(m1.pc) \/ t.ok
         /\ \E r \in execute(Fetched(m1), c.pc, InsnAt(m1.pc)) :
              c' = [r.m EXCEPT !.delay = r.jb] /\ IF r.exc THEN NotRetired ELSE Retire(m1.pc)
  BY DEF step, Fetched
<1>2. CASE Deliverable(c)
  <2>1. Follows(c, m1) /\ Trapped(c, m1, c.pc)
    BY <1>0, <1>2, ExceptionTraps
  <2> HIDE DEF m1
  <2>2. m1 \in Machine /\ MapKept(m1, known)
    BY <1>0, <2>1, MapFollows DEF Follows
  <2>3. ~c.erl /\ ~c.exl
    BY <1>2 DEF Deliverable
  <2>4. Precise(m1, ref)
    BY <1>0, <2>1, <2>3, TrapReturns
  <2>5. m1.exl /\ m1.pc \in Handler /\ ~m1.delay /\ ~m1.erl /\ m1.next = m1.pc + 1 /\ Resumes(ref, m1.epc)
    BY <2>1, <2>3, <2>4 DEF Trapped, Precise
  <2>6. t.ok
    <3>1. PageOf(m1.pc) \in Int /\ PageOf(m1.pc) >= Refill
      BY <2>5 DEF Handler, PageOf, Refill, General
    <3> QED BY <2>5, <3>1, NoFault
  <2>7. PICK r \in execute(Fetched(m1), c.pc, InsnAt(m1.pc)) :
          c' = [r.m EXCEPT !.delay = r.jb] /\ IF r.exc THEN NotRetired ELSE Retire(m1.pc)
    BY <1>1, <2>6
  <2> QED BY <1>0, <2>2, <2>5, <2>7, HandlerSteps
<1>3. CASE ~Deliverable(c)
  <2>1. m1 = c
    BY <1>3
  <2>2. CASE ~(c.memo = PageOf(c.pc) \/ translate(c, PageOf(c.pc), FALSE).ok)
    BY <1>0, <1>1, <2>1, <2>2, FetchFaults
  <2>3. CASE c.memo = PageOf(c.pc) \/ translate(c, PageOf(c.pc), FALSE).ok
    <3>1. PICK r \in execute(Fetched(c), c.pc, InsnAt(c.pc)) :
            c' = [r.m EXCEPT !.delay = r.jb] /\ IF r.exc THEN NotRetired ELSE Retire(c.pc)
      BY <1>1, <2>1, <2>3
    <3>2. CASE c.exl
      <4>1. c.pc \in Handler /\ ~c.delay /\ ~c.erl /\ c.next = c.pc + 1 /\ Resumes(ref, c.epc)
        BY <1>0, <3>2 DEF Precise
      <4> QED BY <1>0, <3>1, <3>2, <4>1, HandlerSteps
    <3>3. CASE ~c.exl
      <4>1. c.pc \in DOMAIN prog
        BY <1>0, <3>3, ProgramOrHandler
      <4> QED BY <1>0, <2>3, <3>1, <3>3, <4>1, ProgramSteps
    <3> QED BY <3>2, <3>3
  <2> QED BY <2>2, <2>3
<1> QED BY <1>2, <1>3

\* A step of the interpreter keeps the invariant.
LEMMA StepKeeps ==
  ASSUME VrInv, step
  PROVE  VrInv' /\ InOrder
<1>1. StepRight
  BY StepIsRight
<1>2. prog' = prog /\ blk' = blk /\ blk = Idle /\ known' = (IF c'.gen THEN NotKnown ELSE known)
  BY DEF step
<1>3. MapKept(c', known')
  BY <1>1, <1>2 DEF StepRight, MapKept
<1>4. Placed(c', blk', prog', ref')
  BY <1>1, <1>2 DEF StepRight, Placed, Idle
<1>5. VrTyped'
  BY <1>1, <1>2 DEF StepRight, VrInv, VrTyped
<1>6. RefKept(prog', ref')
  BY <1>1, <1>2 DEF StepRight
<1> QED BY <1>1, <1>3, <1>4, <1>5, <1>6 DEF VrInv, StepRight

----------------------------------------------------------------------------
(* Compiled blocks.                                                        *)

\* What is enough of a step in a block, out of it or of the interrupt lines.
LEMMA BlockSteps ==
  ASSUME VrInv, prog' = prog, Follows(c, c'), known' = known,
         blk' \in [off : Int, br : BOOLEAN], ref' \in [at : Int, slot : BOOLEAN, to : Int],
         RefKept(prog, ref'), Placed(c', blk', prog, ref')
  PROVE  VrInv'
<1>1. c \in Machine /\ MapKept(c, known)
  BY DEF VrInv, VrTyped
<1>2. MapKept(c', known')
  BY <1>1, MapFollows
<1>3. VrTyped'
  BY DEF VrInv, VrTyped, Follows
<1> QED BY <1>2, <1>3 DEF VrInv

\* An interrupt line may rise at any time.
LEMMA InterruptKeeps ==
  ASSUME VrInv, raiseIntr
  PROVE  VrInv' /\ InOrder
<1>1. c \in Machine /\ c' = [c EXCEPT !.intr = TRUE]
  BY DEF VrInv, VrTyped, raiseIntr
<1>2. c' \in Machine
  BY <1>1 DEF Machine
<1>3. c'.memo = c.memo /\ SameSpace(c, c') /\ c'.gen = c.gen /\ c.gen \in BOOLEAN
  BY <1>1 DEF Machine, SameSpace
<1>4. /\ c'.pc = c.pc /\ c'.next = c.next /\ c'.delay = c.delay /\ c'.epc = c.epc /\ c'.cu1 = c.cu1
      /\ c'.cause = c.cause /\ c'.ie = c.ie
  BY <1>1 DEF Machine
<1>5. Follows(c, c')
  BY <1>2, <1>3 DEF Follows, SameSpace
<1>6. prog' = prog /\ blk' = blk /\ ref' = ref /\ known' = known /\ done' = -1
  BY DEF raiseIntr
<1>7. Placed(c', blk, prog, ref)
  BY <1>3, <1>4 DEF VrInv, Placed, Precise, BlockPrecise, SameSpace
<1>8. VrInv'
  BY <1>5, <1>6, <1>7, BlockSteps DEF VrInv, VrTyped
<1> QED BY <1>6, <1>8 DEF InOrder

\* Two steps that Follow are one.
LEMMA FollowsOn ==
  ASSUME NEW m, NEW n, NEW o, Follows(m, n), Follows(n, o)
  PROVE  Follows(m, o)
BY DEF Follows, SameSpace

\* A machine sent to a, outside a slot.
LEMMA SentTo ==
  ASSUME NEW m \in Machine, NEW a \in Int, NEW r, Resumes(r, a), ~m.exl, m.erl => m.cu1
  PROVE  /\ Follows(m, [m EXCEPT !.pc = a, !.next = a + 1, !.delay = FALSE])
         /\ Precise([m EXCEPT !.pc = a, !.next = a + 1, !.delay = FALSE], r)
<1> DEFINE y == a + 1
           n == [m EXCEPT !.pc = a, !.next = y, !.delay = FALSE]
<1>0. y \in Int /\ m.gen \in BOOLEAN
  BY DEF Machine
<1>1. n \in Machine
  <2> HIDE DEF y
  <2> QED BY <1>0 DEF Machine
<1>2. n.memo = m.memo /\ SameSpace(m, n) /\ n.gen = m.gen
  BY DEF Machine, SameSpace
<1>3. n.pc = a /\ n.next = a + 1 /\ n.delay = FALSE /\ n.exl = m.exl /\ n.erl = m.erl /\ n.cu1 = m.cu1
  BY DEF Machine
<1> HIDE DEF n
<1>4. Follows(m, n)
  BY <1>0, <1>1, <1>2 DEF Follows, SameSpace
<1>5. Precise(n, r)
  BY <1>3 DEF Precise
<1> QED BY <1>4, <1>5 DEF n, y

\* A block that leaves after k instructions leaves the processor where the reference is.
LEMMA LeaveRight ==
  ASSUME NEW m \in Machine, NEW k \in Int, NEW r, Resumes(r, m.pc + k), ~m.exl, m.erl => m.cu1, ~m.delay,
         m.next = m.pc + 1
  PROVE  Follows(m, Leave(m, k)) /\ Precise(Leave(m, k), r)
<1>0. m.pc \in Int
  BY DEF Machine
<1>1. CASE k = 0
  <2>1. Leave(m, k) = m /\ m.pc + k = m.pc
    BY <1>0, <1>1 DEF Leave
  <2>2. Follows(m, m)
    BY DEF Follows, SameSpace, Machine
  <2>3. Precise(m, r)
    BY <2>1 DEF Precise
  <2> QED BY <2>1, <2>2, <2>3
<1>2. CASE k # 0
  <2> DEFINE a == m.pc + k
  <2>1. Leave(m, k) = [m EXCEPT !.pc = a, !.next = a + 1, !.delay = FALSE]
    BY <1>2 DEF Leave
  <2>2. a \in Int /\ Resumes(r, a)
    BY <1>0
  <2> HIDE DEF a
  <2> QED BY <2>1, <2>2, SentTo
<1> QED BY <1>1, <1>2

\* What holds while a block runs.
LEMMA BlockFacts ==
  ASSUME VrInv, InBlock
  PROVE  /\ BlockPrecise(c, blk, prog, ref) /\ c \in Machine /\ MapKept(c, known) /\ RefKept(prog, ref)
         /\ ref \in [at : Int, slot : BOOLEAN, to : Int] /\ blk \in [off : Int, br : BOOLEAN]
         /\ c.pc \in Int /\ blk.off \in Int /\ Va \in Int /\ Va = c.pc + blk.off /\ VrTyped
<1>1. c \in Machine /\ blk \in [off : Int, br : BOOLEAN] /\ blk.off >= 0
  BY DEF VrInv, VrTyped, InBlock
<1>2. c.pc \in Int /\ blk.off \in Int
  BY <1>1 DEF Machine
<1> QED BY <1>1, <1>2 DEF VrInv, VrTyped, Placed, Va

\* The instruction at Va completes where the reference is.
LEMMA RetiresInBlock ==
  ASSUME VrInv, InBlock, ~blk.br, Va \in DOMAIN prog, Retire(Va)
  PROVE  /\ InOrder /\ ref' \in [at : Int, slot : BOOLEAN, to : Int] /\ RefKept(prog, ref')
         /\ prog[Va] \in Straight => Resumes(ref', Va + 1)
         /\ prog[Va] = "likelyn" => Resumes(ref', Va + 2)
         /\ prog[Va] \in Slotted => ref'.slot = TRUE /\ ref'.at = Va + 1
<1>1. Resumes(ref, Va) /\ RefKept(prog, ref) /\ VrTyped /\ ref \in [at : Int, slot : BOOLEAN, to : Int] /\ Va \in Int
  BY BlockFacts DEF BlockPrecise
<1>2. ref' = RefStep(ref, Va) /\ done' = Va
  BY DEF Retire
<1>3. Here(ref, Va)
  BY <1>1 DEF Here
<1>4. /\ ref' \in [at : Int, slot : BOOLEAN, to : Int] /\ RefKept(prog, ref')
      /\ prog[Va] = "likelyn" => ref'.slot = FALSE /\ ref'.at = Va + 2
      /\ prog[Va] \in Slotted => ref'.slot = TRUE /\ ref'.at = Va + 1
      /\ prog[Va] \in Straight => ref'.slot = FALSE /\ ref'.at = IF ref.slot THEN ref.to ELSE Va + 1
      /\ ref.slot /\ Va # ref.at => prog[Va] \in Slotted
  BY <1>1, <1>2, <1>3, ReferenceGoes
<1>5. prog[Va] \in Straight => ~ref.slot
  <2>1. ref.slot => Va # ref.at
    BY <1>1 DEF Resumes
  <2> QED BY <1>4, <2>1 DEF Slotted, Straight, Branches
<1>6. InOrder
  BY <1>1, <1>2 DEF InOrder, Resumes
<1> QED BY <1>4, <1>5, <1>6 DEF Resumes

\* The driver enters a block at the program's next instruction.
LEMMA EnterKeeps ==
  ASSUME VrInv, enterBlock
  PROVE  VrInv' /\ InOrder
<1>0. /\ c \in Machine /\ MapKept(c, known) /\ Precise(c, ref) /\ blk = Idle /\ c.pc \in DOMAIN prog /\ ~c.delay
      /\ ~Deliverable(c) /\ c.pc \in Int
  BY DEF VrInv, VrTyped, Placed, Idle, enterBlock, Machine
<1>1. /\ prog' = prog /\ ref' = ref /\ done' = -1 /\ blk' = [off |-> 0, br |-> FALSE]
      /\ c' = [c EXCEPT !.gen = FALSE, !.cause = c.intr] /\ known' = IF c.gen THEN <<c.asid, c.tlb>> ELSE known
  BY DEF enterBlock
<1>2. c.intr \in BOOLEAN /\ c.gen \in BOOLEAN
  BY <1>0 DEF Machine
<1>3. c' \in Machine
  BY <1>0, <1>1, <1>2 DEF Machine
<1>4. c'.memo = c.memo /\ SameSpace(c, c') /\ c'.gen = FALSE
  BY <1>0, <1>1 DEF Machine, SameSpace
<1>5. c'.pc = c.pc /\ c'.next = c.next /\ c'.delay = c.delay /\ c'.cu1 = c.cu1 /\ c'.cause = c.intr /\ c'.ie = c.ie
  BY <1>0, <1>1 DEF Machine
<1>6. ~c.exl
  <2>1. Runnable(c.pc)
    BY <1>0 DEF Runnable
  <2> QED BY <1>0, <2>1, ProgramOrHandler
<1>7. MapKept(c', known')
  <2>1. translate(c', c.memo, FALSE) = translate(c, c.memo, FALSE)
    BY <1>4, SameTranslation
  <2>2. ~TlbrUsed => known' = <<c'.asid, c'.tlb>>
    BY <1>0, <1>1, <1>4 DEF MapKept, SameSpace
  <2> QED BY <1>0, <1>4, <2>1, <2>2 DEF MapKept
<1>8. BlockPrecise(c', blk', prog, ref)
  <2>1. blk'.off = 0 /\ blk'.br = FALSE
    BY <1>1
  <2>2. Resumes(ref, c'.pc + blk'.off) /\ c'.next = c'.pc + 1
    BY <1>0, <1>5, <1>6, <2>1 DEF Precise
  <2>3. ~(c'.cause /\ c'.ie /\ ~c'.erl)
    BY <1>0, <1>4, <1>5, <1>6 DEF Deliverable, SameSpace
  <2>4. ~c'.exl /\ ~c'.delay /\ (c'.erl => c'.cu1)
    BY <1>0, <1>4, <1>5, <1>6 DEF SameSpace, Precise
  <2> QED BY <1>0, <1>5, <2>1, <2>2, <2>3, <2>4 DEF BlockPrecise
<1>9. Placed(c', blk', prog', ref')
  BY <1>1, <1>8 DEF Placed
<1>10. VrTyped' /\ RefKept(prog', ref')
  BY <1>1, <1>3 DEF VrInv, VrTyped
<1> QED BY <1>1, <1>7, <1>9, <1>10 DEF VrInv, InOrder

\* A block ends, or bails before an access that would fault.
LEMMA EndKeeps ==
  ASSUME VrInv, jitEnds
  PROVE  VrInv' /\ InOrder
<1>0. InBlock /\ ~blk.br /\ c' = Leave(c, blk.off) /\ blk' = Idle /\ done' = -1 /\ prog' = prog /\ ref' = ref
      /\ known' = known
  BY DEF jitEnds
<1>1. Follows(c, c') /\ Precise(c', ref)
  BY <1>0, BlockFacts, LeaveRight DEF BlockPrecise
<1>2. Placed(c', blk', prog, ref') /\ blk' \in [off : Int, br : BOOLEAN]
  BY <1>0, <1>1 DEF Placed, Idle
<1>3. VrInv'
  BY <1>0, <1>1, <1>2, BlockFacts, BlockSteps
<1> QED BY <1>0, <1>3 DEF InOrder

\* A step that leaves the processor alone.
LEMMA FollowsItself ==
  ASSUME NEW m \in Machine
  PROVE  Follows(m, m)
BY DEF Follows, SameSpace, Machine

\* A straight instruction of a block.
LEMMA StraightKeeps ==
  ASSUME VrInv, NEW armed \in BOOLEAN, jitStraight(armed)
  PROVE  VrInv' /\ InOrder
<1>0. /\ InBlock /\ ~blk.br /\ Va \in DOMAIN prog /\ prog[Va] \in Straight /\ Retire(Va)
      /\ prog' = prog /\ known' = known
  BY DEF jitStraight, SameBlock, Straight
<1>1. /\ InOrder /\ ref' \in [at : Int, slot : BOOLEAN, to : Int] /\ RefKept(prog, ref')
      /\ Resumes(ref', Va + 1)
  BY <1>0, RetiresInBlock
<1>2. /\ BlockPrecise(c, blk, prog, ref) /\ c \in Machine /\ blk \in [off : Int, br : BOOLEAN]
      /\ c.pc \in Int /\ blk.off \in Int /\ Va = c.pc + blk.off
  BY <1>0, BlockFacts
<1>3. CASE armed
  <2>1. c' = Leave(c, blk.off + 1) /\ blk' = Idle
    BY <1>3 DEF jitStraight
  <2>2. Resumes(ref', c.pc + (blk.off + 1)) /\ blk.off + 1 \in Int
    <3>1. c.pc + (blk.off + 1) = Va + 1 /\ blk.off + 1 \in Int
      BY <1>2
    <3> QED BY <1>1, <3>1
  <2>3. Follows(c, c') /\ Precise(c', ref')
    <3>1. ~c.exl /\ (c.erl => c.cu1) /\ ~c.delay /\ c.next = c.pc + 1
      BY <1>2 DEF BlockPrecise
    <3> QED BY <1>2, <2>1, <2>2, <3>1, LeaveRight
  <2>4. Placed(c', blk', prog, ref') /\ blk' \in [off : Int, br : BOOLEAN]
    BY <2>1, <2>3 DEF Placed, Idle
  <2>5. VrInv'
    BY <1>0, <1>1, <2>3, <2>4, BlockSteps
  <2> QED BY <1>1, <2>5
<1>4. CASE ~armed
  <2>1. c' = c /\ blk' = [blk EXCEPT !.off = @ + 1]
    BY <1>4 DEF jitStraight
  <2>2. blk'.off = blk.off + 1 /\ blk'.br = blk.br /\ blk' \in [off : Int, br : BOOLEAN] /\ blk.off >= 0
    BY <1>2, <2>1 DEF BlockPrecise
  <2>3. BlockPrecise(c, blk', prog, ref')
    <3>1. c.pc + blk'.off = Va + 1 /\ blk'.off \in Nat
      BY <1>2, <2>2
    <3> QED BY <1>0, <1>1, <1>2, <2>2, <3>1 DEF BlockPrecise
  <2>4. Placed(c', blk', prog, ref')
    <3>1. blk'.off >= 0
      BY <1>2, <2>2
    <3> QED BY <2>1, <2>3, <3>1 DEF Placed
  <2>5. Follows(c, c')
    BY <1>2, <2>1, FollowsItself
  <2>6. VrInv'
    BY <1>0, <1>1, <2>2, <2>4, <2>5, BlockSteps
  <2> QED BY <1>1, <2>6
<1> QED BY <1>3, <1>4

\* The context a block gives the interpreter.
Context(a, inSlot) == [c EXCEPT !.pc = a + 1, !.next = a + 2, !.delay = inSlot]

\* The interpreter is called with the instruction's own address behind it.
LEMMA ContextIs ==
  ASSUME c \in Machine, NEW a \in Int, NEW inSlot \in BOOLEAN
  PROVE  /\ Context(a, inSlot) \in Machine /\ Follows(c, Context(a, inSlot))
         /\ Context(a, inSlot).pc = a + 1 /\ Context(a, inSlot).next = a + 2 /\ Context(a, inSlot).delay = inSlot
         /\ Context(a, inSlot).exl = c.exl /\ Context(a, inSlot).erl = c.erl /\ Context(a, inSlot).cu1 = c.cu1
<1> DEFINE x == a + 1
           y == a + 2
           n == [c EXCEPT !.pc = x, !.next = y, !.delay = inSlot]
<1>0. x \in Int /\ y \in Int /\ c.gen \in BOOLEAN
  BY DEF Machine
<1>1. n \in Machine
  <2> HIDE DEF x, y
  <2> QED BY <1>0 DEF Machine
<1>2. n.memo = c.memo /\ SameSpace(c, n) /\ n.gen = c.gen
  BY DEF Machine, SameSpace
<1>3. n.pc = x /\ n.next = y /\ n.delay = inSlot /\ n.exl = c.exl /\ n.erl = c.erl /\ n.cu1 = c.cu1
  BY DEF Machine
<1>5. Context(a, inSlot) = n
  BY DEF Context
<1> HIDE DEF n
<1>4. Follows(c, n)
  BY <1>0, <1>1, <1>2 DEF Follows, SameSpace
<1> QED BY <1>1, <1>3, <1>4, <1>5

\* A trap out of a block, in the slot of its branch or not.
LEMMA BlockTraps ==
  ASSUME VrInv, InBlock, NEW inSlot \in BOOLEAN, blk.br = inSlot, NEW a \in Int, a = (IF inSlot THEN Va + 1 ELSE Va),
         Trapped(Context(a, inSlot), c', a), Follows(Context(a, inSlot), c'), ~c.erl,
         blk' = Idle, NotRetired, prog' = prog, known' = known
  PROVE  VrInv' /\ InOrder
<1>1. /\ BlockPrecise(c, blk, prog, ref) /\ c \in Machine /\ Va = c.pc + blk.off /\ Va \in Int
      /\ ref \in [at : Int, slot : BOOLEAN, to : Int] /\ RefKept(prog, ref)
  BY BlockFacts
<1>2. /\ Follows(c, Context(a, inSlot)) /\ Context(a, inSlot).delay = inSlot /\ Context(a, inSlot).exl = c.exl
      /\ Context(a, inSlot).erl = c.erl
  BY <1>1, ContextIs
<1>3. Follows(c, c')
  BY <1>2, FollowsOn
<1>4. ~c.exl
  BY <1>1 DEF BlockPrecise
<1>5. Resumes(ref, c'.epc)
  <2>1. c'.epc = IF inSlot THEN a - 1 ELSE a
    BY <1>2, <1>4 DEF Trapped
  <2>2. CASE inSlot
    <3>1. c'.epc = ref.at - 1 /\ ref.slot
      BY <1>1, <2>1, <2>2 DEF BlockPrecise
    <3> QED BY <3>1 DEF Resumes
  <2>3. CASE ~inSlot
    <3>1. c'.epc = c.pc + blk.off
      BY <1>1, <2>1, <2>3
    <3> QED BY <1>1, <2>3, <3>1 DEF BlockPrecise
  <2> QED BY <2>2, <2>3
<1>6. Precise(c', ref)
  <2>1. c'.exl /\ c'.pc \in Handler /\ ~c'.delay /\ ~c'.erl /\ c'.next = c'.pc + 1
    BY <1>2 DEF Trapped, Handler
  <2> QED BY <1>5, <2>1 DEF Precise
<1>7. ref' = ref /\ done' = -1
  BY DEF NotRetired
<1>8. Placed(c', blk', prog, ref') /\ blk' \in [off : Int, br : BOOLEAN]
  BY <1>6, <1>7 DEF Placed, Idle
<1>9. VrInv'
  BY <1>1, <1>3, <1>7, <1>8, BlockSteps
<1> QED BY <1>7, <1>9 DEF InOrder

\* A block calls the interpreter for a COP1 instruction while COP1 is off.
LEMMA UnusableKeeps ==
  ASSUME VrInv, NEW inSlot \in BOOLEAN, jitCop1Unusable(inSlot)
  PROVE  VrInv' /\ InOrder
<1> DEFINE a == IF inSlot THEN Va + 1 ELSE Va
<1>1. /\ InBlock /\ blk.br = inSlot /\ prog[a] = "fp" /\ ~c.cu1 /\ blk' = Idle /\ NotRetired
      /\ prog' = prog /\ known' = known
  BY DEF jitCop1Unusable
<1>2. /\ BlockPrecise(c, blk, prog, ref) /\ c \in Machine /\ Va \in Int /\ a \in Int
  BY <1>1, BlockFacts
<1>3. PICK r \in jitInterpOp(a, inSlot) : c' = r.m
  BY DEF jitCop1Unusable
<1> HIDE DEF a
<1>4. r \in execute(Context(a, inSlot), a, "fp")
  BY <1>1, <1>3 DEF jitInterpOp, Context
<1>5. Context(a, inSlot) \in Machine /\ Context(a, inSlot).cu1 = c.cu1
  BY <1>2, ContextIs
<1>6. r \in copUnusable(Context(a, inSlot), a)
  BY <1>1, <1>4, <1>5 DEF execute
<1>7. Trapped(Context(a, inSlot), c', a) /\ Follows(Context(a, inSlot), c')
  BY <1>2, <1>3, <1>5, <1>6, UnusableDoes
<1>8. ~c.erl
  BY <1>1, <1>2 DEF BlockPrecise
<1>9. a = IF inSlot THEN Va + 1 ELSE Va
  BY DEF a
<1> QED BY <1>1, <1>2, <1>7, <1>8, <1>9, BlockTraps

\* pc and next set behind the instruction at a.
LEMMA MovedOn ==
  ASSUME NEW m \in Machine, NEW a \in Int
  PROVE  /\ Follows(m, [m EXCEPT !.pc = a + 1, !.next = a + 2]) /\ WentOn(m, [m EXCEPT !.pc = a + 1, !.next = a + 2])
         /\ [m EXCEPT !.pc = a + 1, !.next = a + 2].pc = a + 1 /\ [m EXCEPT !.pc = a + 1, !.next = a + 2].next = a + 2
<1> DEFINE x == a + 1
           y == a + 2
           n == [m EXCEPT !.pc = x, !.next = y]
<1>0. x \in Int /\ y \in Int /\ m.gen \in BOOLEAN
  BY DEF Machine
<1>1. n \in Machine
  <2> HIDE DEF x, y
  <2> QED BY <1>0 DEF Machine
<1>2. n.memo = m.memo /\ SameSpace(m, n) /\ n.gen = m.gen
  BY DEF Machine, SameSpace
<1>3. n.pc = a + 1 /\ n.next = a + 2
  BY DEF Machine
<1>4. WentOn(m, n)
  BY DEF Machine, WentOn
<1> HIDE DEF n
<1>5. Follows(m, n)
  BY <1>0, <1>1, <1>2 DEF Follows, SameSpace
<1> QED BY <1>3, <1>4, <1>5 DEF n, x, y

\* A write to Status that is left to the interpreter.
LEMMA StatusCallKeeps ==
  ASSUME VrInv, InBlock, ~blk.br, Va \in DOMAIN prog, prog[Va] \in {"ei", "di"},
         NEW r \in jitInterpOp(Va, FALSE), blk' = Idle, prog' = prog, known' = known,
         c' = IF r.exc THEN r.m ELSE [r.m EXCEPT !.pc = Va + 1, !.next = Va + 2],
         IF r.exc THEN NotRetired ELSE Retire(Va)
  PROVE  VrInv' /\ InOrder
<1> DEFINE n == Context(Va, FALSE)
<1>1. BlockPrecise(c, blk, prog, ref) /\ c \in Machine /\ Va \in Int /\ blk \in [off : Int, br : BOOLEAN]
  BY BlockFacts
<1>2. /\ n \in Machine /\ Follows(c, n) /\ n.pc = Va + 1 /\ n.next = Va + 2 /\ n.delay = FALSE
      /\ n.exl = c.exl /\ n.erl = c.erl /\ n.cu1 = c.cu1
  BY <1>1, ContextIs
<1>3. r \in execute(n, Va, prog[Va])
  BY DEF jitInterpOp, Context
<1>0. prog[Va] \in Straight \cup {"service"}
  BY DEF Straight
<1> HIDE DEF n
<1>4. /\ r.exc \in BOOLEAN /\ Follows(n, r.m)
      /\ r.exc => Trapped(n, r.m, Va) /\ ~(n.erl /\ n.cu1)
      /\ ~r.exc => r.m.pc = n.pc /\ r.m.next = n.next /\ WentOn(n, r.m)
  BY <1>0, <1>1, <1>2, <1>3, StraightDoes
<1>5. CASE r.exc
  <2>1. c' = r.m /\ NotRetired
    BY <1>5
  <2>2. ~c.erl
    BY <1>1, <1>2, <1>4, <1>5 DEF BlockPrecise
  <2>3. blk.br = FALSE
    BY <1>1
  <2>4. Trapped(Context(Va, FALSE), c', Va) /\ Follows(Context(Va, FALSE), c')
    BY <1>4, <1>5, <2>1 DEF n
  <2> QED BY <1>1, <2>1, <2>2, <2>3, <2>4, BlockTraps
<1>6. CASE ~r.exc
  <2>1. r.m \in Machine /\ c' = [r.m EXCEPT !.pc = Va + 1, !.next = Va + 2] /\ Retire(Va)
    BY <1>4, <1>6 DEF Follows
  <2>2. Follows(r.m, c') /\ WentOn(r.m, c') /\ c'.pc = Va + 1 /\ c'.next = Va + 2
    <3> DEFINE u == r.m
    <3>1. u \in Machine /\ c' = [u EXCEPT !.pc = Va + 1, !.next = Va + 2]
      BY <2>1
    <3>2. /\ Follows(u, [u EXCEPT !.pc = Va + 1, !.next = Va + 2])
          /\ WentOn(u, [u EXCEPT !.pc = Va + 1, !.next = Va + 2])
          /\ [u EXCEPT !.pc = Va + 1, !.next = Va + 2].pc = Va + 1
          /\ [u EXCEPT !.pc = Va + 1, !.next = Va + 2].next = Va + 2
      <4> HIDE DEF u
      <4> QED BY <1>1, <3>1, MovedOn
    <3> HIDE DEF u
    <3>3. Follows(u, c') /\ WentOn(u, c') /\ c'.pc = Va + 1 /\ c'.next = Va + 2
      BY <3>1, <3>2
    <3> QED BY <3>3 DEF u
  <2>3. /\ InOrder /\ ref' \in [at : Int, slot : BOOLEAN, to : Int] /\ RefKept(prog, ref')
        /\ Resumes(ref', Va + 1)
    BY <1>1, <2>1, RetiresInBlock DEF Straight
  <2>4. Follows(c, c')
    <3>1. Follows(c, r.m)
      BY <1>2, <1>4, FollowsOn
    <3> QED BY <2>2, <3>1, FollowsOn
  <2>5. Precise(c', ref')
    <3>1. c'.pc = Va + 1 /\ c'.next = c'.pc + 1
      BY <1>1, <2>2
    <3>2. ~c'.exl /\ ~c'.delay /\ (c'.erl => c'.cu1)
      BY <1>1, <1>2, <1>4, <1>6, <2>2 DEF WentOn, BlockPrecise
    <3> QED BY <2>3, <3>1, <3>2 DEF Precise
  <2>6. Placed(c', blk', prog, ref') /\ blk' \in [off : Int, br : BOOLEAN]
    BY <2>5 DEF Placed, Idle
  <2>7. VrInv'
    BY <2>3, <2>4, <2>6, BlockSteps
  <2> QED BY <2>3, <2>7
<1> QED BY <1>4, <1>5, <1>6

\* MTC0 Status in a block, in line or not.
LEMMA StatusKeeps ==
  ASSUME VrInv, emitMtc0Status
  PROVE  VrInv' /\ InOrder
<1> DEFINE ie == prog[Va] = "ei"
<1>0. /\ InBlock /\ ~blk.br /\ Va \in DOMAIN prog /\ prog[Va] \in {"ei", "di"}
      /\ prog' = prog /\ known' = known
  BY DEF emitMtc0Status, SameBlock
<1>1. CASE Inline(c, ie)
  <2>1. c' = [c EXCEPT !.ie = ie] /\ blk' = [blk EXCEPT !.off = @ + 1] /\ Retire(Va)
    BY <1>1 DEF emitMtc0Status
  <2>2. /\ BlockPrecise(c, blk, prog, ref) /\ c \in Machine /\ blk \in [off : Int, br : BOOLEAN]
        /\ c.pc \in Int /\ blk.off \in Int /\ Va = c.pc + blk.off
    BY <1>0, BlockFacts
  <2>3. /\ InOrder /\ ref' \in [at : Int, slot : BOOLEAN, to : Int] /\ RefKept(prog, ref')
        /\ Resumes(ref', Va + 1)
    BY <1>0, <2>1, RetiresInBlock DEF Straight
  <2>4. ie \in BOOLEAN /\ c.gen \in BOOLEAN /\ (ie /\ ~c.exl => ~c.cause)
    BY <1>1, <2>2 DEF Machine, Inline
  <2> HIDE DEF ie
  <2>5. c' \in Machine
    BY <2>1, <2>2, <2>4 DEF Machine
  <2>6. c'.memo = c.memo /\ SameSpace(c, c') /\ c'.gen = c.gen
    BY <2>1, <2>2 DEF Machine, SameSpace
  <2>7. c'.pc = c.pc /\ c'.next = c.next /\ c'.delay = c.delay /\ c'.cu1 = c.cu1 /\ c'.cause = c.cause /\ c'.ie = ie
    BY <2>1, <2>2 DEF Machine
  <2>8. Follows(c, c')
    BY <2>4, <2>5, <2>6 DEF Follows, SameSpace
  <2>9. blk'.off = blk.off + 1 /\ blk'.br = blk.br /\ blk' \in [off : Int, br : BOOLEAN] /\ blk'.off >= 0
    BY <2>1, <2>2 DEF BlockPrecise
  <2>10. BlockPrecise(c', blk', prog, ref')
    <3>1. c'.pc + blk'.off = Va + 1 /\ blk'.off \in Nat /\ c'.next = c'.pc + 1 /\ c'.pc \in DOMAIN prog
      BY <2>2, <2>7, <2>9 DEF BlockPrecise
    <3>2. ~c'.exl /\ ~c'.delay /\ (c'.erl => c'.cu1) /\ ~(c'.cause /\ c'.ie /\ ~c'.erl)
      BY <2>2, <2>4, <2>6, <2>7 DEF BlockPrecise, SameSpace
    <3> QED BY <1>0, <2>3, <2>9, <3>1, <3>2 DEF BlockPrecise
  <2>11. Placed(c', blk', prog, ref')
    BY <2>9, <2>10 DEF Placed
  <2>12. VrInv'
    BY <1>0, <2>3, <2>8, <2>9, <2>11, BlockSteps
  <2> QED BY <2>3, <2>12
<1>2. CASE ~Inline(c, ie)
  <2>1. PICK r \in jitInterpOp(Va, FALSE) :
          /\ c' = IF r.exc THEN r.m ELSE [r.m EXCEPT !.pc = Va + 1, !.next = Va + 2]
          /\ blk' = Idle
          /\ IF r.exc THEN NotRetired ELSE Retire(Va)
    BY <1>2 DEF emitMtc0Status
  <2> QED BY <1>0, <2>1, StatusCallKeeps
<1> QED BY <1>1, <1>2

\* A branch of a block, before its slot.
LEMMA BranchKeeps ==
  ASSUME VrInv, jitBranch
  PROVE  VrInv' /\ InOrder
<1>0. /\ InBlock /\ ~blk.br /\ Va \in DOMAIN prog /\ prog[Va] \in Branches /\ Retire(Va)
      /\ Va + 1 \in DOMAIN prog /\ prog[Va + 1] \in {"op", "ld", "st", "fp"} /\ prog' = prog /\ known' = known
  BY DEF jitBranch, SameBlock, Absorbable
<1>1. /\ BlockPrecise(c, blk, prog, ref) /\ c \in Machine /\ blk \in [off : Int, br : BOOLEAN]
      /\ c.pc \in Int /\ blk.off \in Int /\ Va = c.pc + blk.off /\ Va \in Int
  BY <1>0, BlockFacts
<1>2. /\ InOrder /\ ref' \in [at : Int, slot : BOOLEAN, to : Int] /\ RefKept(prog, ref')
      /\ prog[Va] = "likelyn" => Resumes(ref', Va + 2)
      /\ prog[Va] \in Slotted => ref'.slot = TRUE /\ ref'.at = Va + 1
  BY <1>0, RetiresInBlock
<1>3. CASE prog[Va] = "likelyn"
  <2> DEFINE a == Va + 2
  <2>1. a \in Int /\ c' = [c EXCEPT !.pc = a, !.next = a + 1, !.delay = FALSE] /\ blk' = Idle /\ Resumes(ref', a)
    <3>1. blk' = Idle /\ c' = [c EXCEPT !.pc = Va + 2, !.next = Va + 3, !.delay = FALSE]
      BY <1>3 DEF jitBranch
    <3>2. Va + 2 \in Int /\ Va + 3 = (Va + 2) + 1
      BY <1>1
    <3> QED BY <1>2, <1>3, <3>1, <3>2
  <2> HIDE DEF a
  <2>2. Follows(c, c') /\ Precise(c', ref')
    BY <1>1, <2>1, SentTo DEF BlockPrecise
  <2>3. Placed(c', blk', prog, ref') /\ blk' \in [off : Int, br : BOOLEAN]
    BY <2>1, <2>2 DEF Placed, Idle
  <2>4. VrInv'
    BY <1>0, <1>2, <2>2, <2>3, BlockSteps
  <2> QED BY <1>2, <2>4
<1>4. CASE prog[Va] # "likelyn"
  <2>1. c' = c /\ blk' = [blk EXCEPT !.br = TRUE] /\ ref'.slot = TRUE /\ ref'.at = Va + 1
    BY <1>0, <1>2, <1>4 DEF jitBranch, Slotted
  <2>2. blk'.off = blk.off /\ blk'.br = TRUE /\ blk' \in [off : Int, br : BOOLEAN] /\ blk'.off >= 0
    <3>1. blk.off >= 0
      BY <1>1 DEF BlockPrecise
    <3>2. blk'.off = blk.off /\ blk'.br = TRUE /\ blk' \in [off : Int, br : BOOLEAN]
      BY <1>1, <2>1
    <3> QED BY <3>1, <3>2
  <2>3. BlockPrecise(c', blk', prog, ref')
    <3>1. ref'.at = c.pc + blk'.off + 1 /\ ref'.at \in DOMAIN prog /\ prog[ref'.at] \in {"op", "ld", "st", "fp"}
      BY <1>0, <1>1, <2>1, <2>2
    <3> QED BY <1>1, <2>1, <2>2, <3>1 DEF BlockPrecise
  <2>4. Placed(c', blk', prog, ref')
    BY <2>2, <2>3 DEF Placed
  <2>5. Follows(c, c')
    BY <1>1, <2>1, FollowsItself
  <2>6. VrInv'
    BY <1>0, <1>2, <2>2, <2>4, <2>5, BlockSteps
  <2> QED BY <1>2, <2>6
<1> QED BY <1>3, <1>4

\* A slot of a block completes, or bails to its branch.
LEMMA SlotKeeps ==
  ASSUME VrInv, slotExit
  PROVE  VrInv' /\ InOrder
<1> DEFINE k == prog[Va + 1]
           to == IF prog[Va] = "brn" THEN Va + 2 ELSE 0
<1>0. InBlock /\ blk.br /\ blk' = Idle /\ prog' = prog /\ known' = known
  BY DEF slotExit
<1>1. /\ BlockPrecise(c, blk, prog, ref) /\ c \in Machine /\ blk \in [off : Int, br : BOOLEAN] /\ VrTyped
      /\ c.pc \in Int /\ blk.off \in Int /\ Va = c.pc + blk.off /\ Va \in Int
      /\ ref \in [at : Int, slot : BOOLEAN, to : Int] /\ RefKept(prog, ref)
  BY <1>0, BlockFacts
<1>2. ref.slot /\ ref.at = Va + 1 /\ ref.at \in DOMAIN prog /\ prog[ref.at] \in Straight
  BY <1>0, <1>1 DEF BlockPrecise, Straight
<1>3. ref.to = to /\ to \in Int
  <2>1. ref.at - 1 = Va /\ ref.at + 1 = Va + 2
    BY <1>1, <1>2
  <2> QED BY <1>1, <1>2, <2>1 DEF RefKept
<1>4. ~c.exl /\ (c.erl => c.cu1) /\ ~c.delay /\ c.next = c.pc + 1
  BY <1>1 DEF BlockPrecise
<1>5. CASE k \in {"ld", "st"} /\ ~Probes(k)
  <2>1. c' = Leave(c, blk.off) /\ ref' = ref /\ done' = -1
    BY <1>5 DEF slotExit, SlotBail, NotRetired
  <2>2. Resumes(ref, c.pc + blk.off)
    BY <1>1, <1>2 DEF Resumes
  <2>3. Follows(c, c') /\ Precise(c', ref)
    BY <1>1, <1>4, <2>1, <2>2, LeaveRight
  <2>4. Placed(c', blk', prog, ref') /\ blk' \in [off : Int, br : BOOLEAN]
    BY <1>0, <2>1, <2>3 DEF Placed, Idle
  <2>5. VrInv'
    BY <1>0, <1>1, <2>1, <2>3, <2>4, BlockSteps
  <2> QED BY <2>1, <2>5 DEF InOrder
<1>6. CASE ~(k \in {"ld", "st"} /\ ~Probes(k))
  <2>1. c' = [c EXCEPT !.pc = to, !.next = to + 1, !.delay = FALSE] /\ Retire(Va + 1)
    BY <1>6 DEF slotExit
  <2> HIDE DEF k, to
  <2>2. ref' = RefStep(ref, ref.at) /\ done' = ref.at
    BY <1>2, <2>1 DEF Retire
  <2>3. Here(ref, ref.at)
    BY <1>2 DEF Here
  <2>4. /\ ref' \in [at : Int, slot : BOOLEAN, to : Int] /\ RefKept(prog, ref')
        /\ ref'.slot = FALSE /\ ref'.at = to
    BY <1>1, <1>2, <1>3, <2>2, <2>3, ReferenceGoes
  <2>5. Resumes(ref', to)
    BY <2>4 DEF Resumes
  <2>6. Follows(c, c') /\ Precise(c', ref')
    BY <1>1, <1>3, <1>4, <2>1, <2>5, SentTo
  <2>7. Placed(c', blk', prog, ref') /\ blk' \in [off : Int, br : BOOLEAN]
    BY <1>0, <2>6 DEF Placed, Idle
  <2>8. VrInv'
    BY <1>0, <2>4, <2>6, <2>7, BlockSteps
  <2> QED BY <2>2, <2>8 DEF InOrder
<1> QED BY <1>5, <1>6

----------------------------------------------------------------------------
(* The program and the processor together.                                 *)

\* The processor starts in place.
LEMMA VrStart == VrInit => VrInv
<1> SUFFICES ASSUME VrInit PROVE VrInv
  OBVIOUS
<1>0. PICK erl \in BOOLEAN, ie \in BOOLEAN, ksu \in {"kernel", "user"} :
        c = [pc |-> 0, next |-> 1, delay |-> FALSE, ie |-> ie, exl |-> FALSE,
             erl |-> erl, ksu |-> ksu, cu1 |-> erl, epc |-> 0, errorEpc |-> 0,
             bd |-> FALSE, bad |-> 0, intr |-> FALSE,
             asid |-> 0, tlb |-> [i \in 1 .. TlbSize |-> NoEntry],
             memo |-> NoMemo, gen |-> TRUE, cause |-> FALSE]
  BY DEF VrInit
<1>1. WellFormed(prog)
  BY VrAssumption DEF VrInit
<1>2. c \in Machine
  <2> DEFINE T == [i \in 1 .. TlbSize |-> NoEntry]
  <2>1. T \in [1 .. TlbSize -> Entry]
    BY DEF NoEntry, Entry
  <2>2. NoMemo \in Int
    BY DEF NoMemo
  <2>3. c = [pc |-> 0, next |-> 1, delay |-> FALSE, ie |-> ie, exl |-> FALSE,
             erl |-> erl, ksu |-> ksu, cu1 |-> erl, epc |-> 0, errorEpc |-> 0,
             bd |-> FALSE, bad |-> 0, intr |-> FALSE,
             asid |-> 0, tlb |-> T, memo |-> NoMemo, gen |-> TRUE, cause |-> FALSE]
    BY <1>0
  <2> HIDE DEF T
  <2> QED BY <2>1, <2>2, <2>3 DEF Machine
<1>3. blk = [off |-> -1, br |-> FALSE] /\ ref = [at |-> 0, slot |-> FALSE, to |-> 0]
  BY DEF VrInit, Idle
<1>4. VrTyped
  <2>1. blk \in [off : Int, br : BOOLEAN] /\ ref \in [at : Int, slot : BOOLEAN, to : Int]
    BY <1>3
  <2> QED BY <1>1, <1>2, <2>1 DEF VrTyped
<1>5. RefKept(prog, ref)
  BY <1>3 DEF RefKept, Refill
<1>6. Placed(c, blk, prog, ref)
  <2>1. c.pc = 0 /\ c.next = 1 /\ c.delay = FALSE /\ c.exl = FALSE /\ c.erl = c.cu1
    BY <1>0
  <2>2. Precise(c, ref)
    BY <1>3, <2>1 DEF Precise, Resumes
  <2> QED BY <1>3, <2>2 DEF Placed, Idle
<1>7. MapKept(c, known)
  BY <1>0 DEF MapKept
<1> QED BY <1>4, <1>5, <1>6, <1>7 DEF VrInv

\* Every step of the machine keeps the invariant, and completes what it completes in order.
LEMMA VrSteps ==
  ASSUME VrInv, VrNext
  PROVE  VrInv' /\ InOrder
<1>1. ASSUME NEW b \in BOOLEAN, jitStraight(b) PROVE VrInv' /\ InOrder
  BY <1>1, StraightKeeps
<1>2. ASSUME NEW b \in BOOLEAN, jitCop1Unusable(b) PROVE VrInv' /\ InOrder
  BY <1>2, UnusableKeeps
<1> QED BY <1>1, <1>2, StepKeeps, InterruptKeeps, EnterKeeps, EndKeeps, StatusKeeps, BranchKeeps, SlotKeeps DEF VrNext

\* And stays while another machine of the run moves.
LEMMA VrRests ==
  ASSUME VrInv, UNCHANGED vrVars
  PROVE  VrInv'
<1>1. prog' = prog /\ c' = c /\ blk' = blk /\ ref' = ref /\ known' = known
  BY DEF vrVars
<1>2. c \in Machine /\ Follows(c, c')
  BY <1>1, FollowsItself DEF VrInv, VrTyped
<1> QED BY <1>1, <1>2, BlockSteps DEF VrInv, VrTyped

\* What the invariant says of a state.
LEMMA VrShows ==
  ASSUME VrInv
  PROVE  OpenedIsTaken /\ (~TlbrUsed => MapIsKnown)
<1>1. OpenedIsTaken
  BY BlockFacts DEF OpenedIsTaken, BlockPrecise
<1>2. ~TlbrUsed => MapIsKnown
  BY DEF VrInv, MapKept, MapIsKnown
<1> QED BY <1>1, <1>2

\* The invariant of the processor holds in every behaviour of the run, and its steps are in order.
THEOREM VrKept == Spec => []VrInv /\ PreciseExceptions
<1>1. CpuInit => VrInv
  BY VrStart DEF CpuInit
<1>2. ASSUME VrInv, [CpuNext]_<<clockVars, codeVars, rcVars, dcVars, vrVars, fpuVars, focus>>
      PROVE  VrInv' /\ [InOrder]_vrVars
  <2>1. CASE UNCHANGED vrVars
    BY <1>2, <2>1, VrRests
  <2>2. CASE VrNext
    BY <1>2, <2>2, VrSteps
  <2>3. UNCHANGED vrVars \/ VrNext
    BY <1>2 DEF CpuNext, Others
  <2> QED BY <2>1, <2>2, <2>3
<1>4. [InOrder]_vrVars =>
        [done' >= 0 => \/ done' = ref.at
                       \/ ref.slot /\ done' = ref.at - 1]_vrVars
  BY DEF InOrder
<1> QED BY <1>1, <1>2, <1>4, PTL DEF Spec, PreciseExceptions

\* Whatever the program, the TLB and the kernel's service, and wherever a fault, an interrupt or the end
\* of a block comes (takeException, step, eret, the exits of jit.cpp), the instructions of a program
\* complete in order, and a block keeps no interrupt waiting that it opened.
THEOREM ProgramsRunInOrder == Spec => PreciseExceptions /\ []OpenedIsTaken
<1>1. VrInv => OpenedIsTaken
  BY VrShows
<1> QED BY <1>1, VrKept, PTL

\* And under a kernel that does not execute TLBR, which changes the ASID without the generation, the
\* memo of the last fetch and the links of the compiled code are as old as the mapping (xlatEpoch,
\* tlbGen).
THEOREM TrapsStayPrecise ==
  ASSUME ~TlbrUsed
  PROVE  Spec => TrapsPrecise
<1>1. VrInv => (focus = "vr4300" => OpenedIsTaken /\ MapIsKnown)
  BY VrShows
<1> QED BY <1>1, VrKept, PTL DEF TrapsPrecise
=============================================================================
