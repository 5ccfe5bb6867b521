------------------------------ MODULE RegCache ------------------------------
(* The registers of the guest that a block of the dynarec keeps in registers *)
(* of the host.  "cpu->gpr tiene que estar coherente en TODO punto donde el  *)
(* bloque pueda ceder el control": a helper reads and writes gpr in memory,  *)
(* and every way out of the block spills the slots that were dirty where the *)
(* exit was taken (RcSnap), which the emitter has to note at that point.     *)
(*                                                                           *)
(* A block is straight code, so what the emitter knows at an instruction and *)
(* what the host's registers hold there move together: one action emits and  *)
(* executes an instruction.  The value of a register is the number of the    *)
(* instruction that wrote it.                                                *)
EXTENDS Integers

CONSTANTS
  Gprs,       \* registers of the guest, 0 included
  RcN,        \* kRcN, registers of the host
  RcOps       \* instructions of a block

ASSUME RcAssumption ==
  /\ Gprs \subseteq Nat /\ 0 \in Gprs
  /\ RcN \in Nat \ {0} /\ RcOps \in Nat

VARIABLES
  rc,         \* the cache and the memory: [of, dirty, val, rr, gpr, ok]
  gprRef,     \* what the interpreter would have in gpr
  rcStep,     \* instructions emitted
  left        \* the block has been left

rcVars == <<rc, gprRef, rcStep, left>>

Free == -1
Slots == 1 .. RcN

\* RegCache::reset.  ok: every value read so far was the interpreter's.
rcReset == [of    |-> [k \in Slots |-> Free], dirty |-> [k \in Slots |-> FALSE],
            val   |-> [k \in Slots |-> 0],    rr |-> 1,
            gpr   |-> [g \in Gprs |-> -g],    ok |-> TRUE]

Turn(k) == (k % RcN) + 1

Holder(c, g) == {k \in Slots : c.of[k] = g}

evict(c, k) ==
  IF c.dirty[k]
  THEN [c EXCEPT !.gpr[c.of[k]] = c.val[k], !.of[k] = Free, !.dirty[k] = FALSE]
  ELSE [c EXCEPT !.of[k] = Free]

\* pick: free, then clean from the turn on, then whoever has the turn.
First(c, S) == CHOOSE k \in S : \A j \in S : (k - c.rr) % RcN <= (j - c.rr) % RcN
pick(c) ==
  LET free  == {k \in Slots : c.of[k] = Free}
      clean == {k \in Slots : ~c.dirty[k]}
  IN CASE free # {}  -> [k |-> CHOOSE k \in free : \A j \in free : k <= j, rr |-> c.rr]
       [] free = {} /\ clean # {} -> [k |-> First(c, clean), rr |-> Turn(First(c, clean))]
       [] OTHER      -> [k |-> c.rr, rr |-> Turn(c.rr)]

\* slot: the slot of g, given to it now if it had none.
slot(c, g, load) ==
  IF g = 0 \/ Holder(c, g) # {} THEN c
  ELSE LET p == pick(c)
           e == evict([c EXCEPT !.rr = p.rr], p.k)
       IN [e EXCEPT !.of[p.k] = g, !.dirty[p.k] = ~load,
                    !.val[p.k] = IF load THEN e.gpr[g] ELSE @]

Held(c, g) == IF Holder(c, g) = {} THEN c.gpr[g]
              ELSE c.val[CHOOSE k \in Holder(c, g) : TRUE]

\* ld32, ld64, alu32, alu64, cmp64: the instruction reads g.
ld(c, g) == LET d == slot(c, g, TRUE)
            IN [d EXCEPT !.ok = @ /\ Held(d, g) = gprRef[g]]

\* st64: the instruction leaves v in g.
st(c, g, v) ==
  IF g = 0 THEN c
  ELSE LET d == slot(c, g, FALSE)
           k == CHOOSE j \in Holder(d, g) : TRUE
       IN [d EXCEPT !.val[k] = v, !.dirty[k] = TRUE]

writebackOne(c, g) ==
  [c EXCEPT !.gpr = [h \in Gprs |-> IF h = g /\ g # 0 THEN Held(c, g) ELSE @[h]],
            !.dirty = [k \in Slots |-> @[k] /\ c.of[k] # g]]

\* writeback; and the spill of a snap() in an exit stub.
writeback(c) ==
  [c EXCEPT !.gpr = [h \in Gprs |->
                       IF \E k \in Slots : c.dirty[k] /\ c.of[k] = h THEN Held(c, h) ELSE @[h]],
            !.dirty = [k \in Slots |-> FALSE]]

\* forget: a helper has written g in memory.
forget(c, g) ==
  [c EXCEPT !.of = [k \in Slots |-> IF @[k] = g THEN Free ELSE @[k]],
            !.dirty = [k \in Slots |-> @[k] /\ c.of[k] # g]]

\* disable: before the machinery of a branch.
disable(c) == [writeback(c) EXCEPT !.of = [k \in Slots |-> Free]]

\* A helper that reads, and one that writes, a register in cpu->gpr.
helperReads(c, g)  == [c EXCEPT !.ok = @ /\ c.gpr[g] = gprRef[g]]
helperWrites(c, g) == IF g = 0 THEN c ELSE [c EXCEPT !.gpr[g] = rcStep + 1]

-----------------------------------------------------------------------------
(* The ways on from an instruction.                                          *)

\* The next instruction follows; written: the register the instruction wrote.
Goes(c, written) ==
  /\ rc' = c /\ left' = FALSE
  /\ gprRef' = [g \in Gprs |-> IF g = written /\ g # 0 THEN rcStep + 1 ELSE gprRef[g]]

\* The block is left through a stub that spills snap.
Leaves(snap, written) ==
  /\ rc' = writeback(snap) /\ left' = TRUE
  /\ gprRef' = [g \in Gprs |-> IF g = written /\ g # 0 THEN rcStep + 1 ELSE gprRef[g]]

NoGpr == 0

\* emitSafeOp: d := op(s, t).
emitSafeOp(d, s, t) == Goes(st(ld(ld(rc, s), t), d, rcStep + 1), d)

\* emitTrapAlu, emitAlu64: leaves before the destination is touched.
emitTrapAlu(d, s, t) ==
  LET c == ld(ld(rc, s), t)
  IN Leaves(c, NoGpr) \/ Goes(st(c, d, rcStep + 1), d)

\* emitMemOp, a load of d from base b.  The fast path and the helper both
\* write gpr in memory.  The helper may fail, and nothing happened (bail), or
\* arm a deadline, and the block is left behind the load (MMIO).
bailSnapLate(c, d) == forget(c, d)
bailSnap(c, d) == c
emitLoad(d, b) ==
  LET c == ld(rc, b)
      w == helperWrites(c, d)
  IN \/ Leaves(bailSnap(c, d), NoGpr)
     \/ Leaves(forget(w, d), d)
     \/ Goes(forget(w, d), d)

emitStore(t, b) ==
  LET c == ld(ld(rc, b), t)
  IN Leaves(c, NoGpr) \/ Goes(c, NoGpr)

\* emitInterpOp: the helper gets the registers the instruction names, and
\* only those; on an exception it has written none.
emitMoveFrom(d) ==                                  \* MFC1, DMFC1, CFC1
  \/ Leaves(rc, NoGpr)
  \/ Goes(forget(helperWrites(rc, d), d), d)
emitInterpReads(s, t) ==                            \* MTC1, SWL, LDC1, DIV
  LET c == helperReads(helperReads(writebackOne(writebackOne(rc, s), t), s), t)
  IN Leaves(c, NoGpr) \/ Goes(c, NoGpr)
emitMerge(d, b) ==                                  \* LWL, LWR, LDL, LDR
  LET c == helperReads(helperReads(writebackOne(writebackOne(rc, b), d), b), d)
  IN Leaves(c, NoGpr) \/ Goes(forget(helperWrites(c, d), d), d)

\* The block ends: in a branch, whose delay slot runs on gpr in memory, or
\* because the next instruction is not its own.
emitBranch == Leaves(disable(rc), NoGpr)
emitEnd    == Leaves(rc, NoGpr)

RcInit == rc = rcReset /\ gprRef = rcReset.gpr /\ rcStep = 0 /\ left = FALSE

RcNext ==
  /\ ~left /\ rcStep < RcOps /\ rcStep' = rcStep + 1
  /\ \/ \E d, s, t \in Gprs : s <= t /\ (emitSafeOp(d, s, t) \/ emitTrapAlu(d, s, t))
     \/ \E d, b \in Gprs : emitLoad(d, b) \/ emitStore(d, b) \/ emitMerge(d, b)
                           \/ emitInterpReads(d, b)
     \/ \E d \in Gprs : emitMoveFrom(d)
     \/ emitBranch \/ emitEnd

RcSpec == RcInit /\ [][RcNext]_rcVars

-----------------------------------------------------------------------------
(* However a block is left, cpu->gpr is what the interpreter would have, and *)
(* no instruction and no helper has read another value on the way.           *)
ExitsCoherent == rc.ok /\ (left => rc.gpr = gprRef)

=============================================================================
