------------------------------- MODULE RspJit -------------------------------
(***************************************************************************)
(* The RSP's dynarec: tables of compiled blocks, one per image of IMEM,    *)
(* each with the shadow of the bytes it was compiled from; the choice of a *)
(* table by likeness and the exact invalidation by content; the run loop   *)
(* that enters blocks while they fit in the batch; the links from block to *)
(* block; and the COP0 bridge that may cut a block in the middle.          *)
(*                                                                         *)
(* An instruction word is "alu", "cop0" (MFC0/MTC0), "jump" (to Target,    *)
(* with a delay slot) or "stop" (BREAK: not compiled, ends the task).      *)
(* Two words make the chunk that is compared (8 bytes).                    *)
(*                                                                         *)
(* And inside a block, the vector accumulator.  With two or more vector    *)
(* instructions in line its three slices live in xmm6..xmm8.  What is      *)
(* valid and what is dirty is known when the block is compiled (Ctx); the  *)
(* values move when it runs.  A memory access in line has two ways at run  *)
(* time, its own and the call to the helper, but one compile-time state    *)
(* after it.  There an instruction is [kind, reads, writes]: "vu" (in      *)
(* line), "call" (a helper: a vector instruction not in line), "mem" (in   *)
(* line with a slow way), "cop0" (may cut the block) and "alu".  A slice's *)
(* value is the number of the instruction that wrote it.                   *)
(***************************************************************************)
EXTENDS Integers, Sequences, FiniteSets, FiniteSetsExt

CONSTANTS N,        \* words of IMEM
          Target,   \* where the jumps go
          Images,   \* the images IMEM may start with
          kMinOps, kMaxOps, kJitWays, kJitNewWay,
          Tanda,    \* instructions of a batch (kRspTanda)
          Writes,   \* rewrites of an IMEM word in a behaviour
          Batches   \* batches in a behaviour

ASSUME JitAssumption ==
  /\ N \in Nat /\ N % 2 = 0 /\ Target \in 0 .. (N - 1) /\ kJitWays >= 1
  /\ 1 <= kMinOps /\ kMinOps <= kMaxOps

VARIABLES imem,
          ways,      \* the tables: shadow and blocks (a block is the words it was compiled from)
          jcCur,
          run,       \* "off", "loop", "block"
          ip,        \* pc, inDelay, pendingTarget
          bal,       \* c of the loop, jitBudget, chunk and instructions really run
          blk,       \* the block in execution: way, first, words, next index
          syncReq,   \* jitImemSyncReq
          seen,      \* exactLeft of the last COP0 and what it should be
          foreign,   \* IMEM rewritten from outside since the table was synchronised
          mixed,     \* a block was compiled meanwhile
          jitLeft    \* rewrites and batches left

jitVars == <<imem, ways, jcCur, run, ip, bal, blk, syncReq, seen, foreign, mixed, jitLeft>>

Slots == 0 .. (N - 1)
Kinds == {"alu", "cop0", "jump", "stop"}
Unknown == <<>>
NoComp == <<"nocomp">>
Compiled(b) == b # Unknown /\ b # NoComp
Empty(image) == [shadow |-> image, blocks |-> [s \in Slots |-> Unknown]]
NoBlock == [way |-> 0, first |-> 0, words |-> <<>>, i |-> 0]

-----------------------------------------------------------------------------
(***************************************************************************)
(* The tables.                                                             *)
(***************************************************************************)
Dirty(shadow, image) == {s \in Slots : \E t \in Slots : t \div 2 = s \div 2 /\ shadow[t] # image[t]}
diffChunks(w, image) == Cardinality({s \div 2 : s \in Dirty(w.shadow, image)})

\* The words a table entry depends on; an entry that does not compile
\* depends on everything its scan may have looked at.
Covers(blocks, s) ==
  LET n == IF Compiled(blocks[s]) THEN Len(blocks[s]) ELSE kMaxOps
  IN {t \in Slots : t >= s /\ t < s + n}

syncImem(w, image) ==
  LET d == Dirty(w.shadow, image)
  IN [shadow |-> image,
      blocks |-> [s \in Slots |-> IF Covers(w.blocks, s) \cap d # {} THEN Unknown ELSE w.blocks[s]]]

\* The table whose shadow differs least; an equal one is taken as it is, a
\* very different image gets a new table while there is room for one.
jitSelectImage(image) ==
  LET ids == 1 .. Len(ways)
      least == Min({diffChunks(ways[w], image) : w \in ids})
      best == IF diffChunks(ways[jcCur], image) = least THEN jcCur
              ELSE Min({w \in ids : diffChunks(ways[w], image) = least})
      zero == [s \in Slots |-> "stop"]
  IN IF least = 0 THEN jcCur' = best /\ UNCHANGED ways
     ELSE IF least >= kJitNewWay /\ Len(ways) < kJitWays
     THEN /\ ways' = Append(ways, syncImem(Empty(zero), image))
          /\ jcCur' = Len(ways) + 1
     ELSE /\ ways' = [ways EXCEPT ![best] = syncImem(@, image)]
          /\ jcCur' = best

\* How many words compile from pc on: a jump closes the block with its delay
\* slot, unless the pair does not fit or the slot is a jump or a stop.
BlockLen(image, p) ==
  LET plain(n) == \A i \in 0 .. (n - 1) : image[p + i] \in {"alu", "cop0"}
      straight == Max({n \in 0 .. kMaxOps : p + n <= N /\ plain(n)})
      j == p + straight
  IN IF straight + 2 <= kMaxOps /\ j + 1 < N /\ image[j] = "jump" /\ image[j + 1] \in {"alu", "cop0"}
     THEN straight + 2 ELSE straight

compile(w, image, p) ==
  LET n == BlockLen(image, p)
  IN [w EXCEPT !.blocks[p] = IF n < kMinOps THEN NoComp ELSE SubSeq([i \in 1 .. N |-> image[i - 1]], p + 1, p + n)]

\* The buffer is full: the whole table is recycled before the block goes in.
clear(w) == [w EXCEPT !.blocks = [s \in Slots |-> Unknown]]

-----------------------------------------------------------------------------
(***************************************************************************)
(* The run loop.                                                           *)
(***************************************************************************)
JitInit ==
  /\ imem \in Images
  /\ ways = <<Empty([s \in Slots |-> "stop"])>>
  /\ jcCur = 1
  /\ run = "off"
  /\ ip = [pc |-> 0, delay |-> FALSE, to |-> 0]
  /\ bal = [c |-> 0, budget |-> 0, chunk |-> 0, ran |-> 0]
  /\ blk = NoBlock
  /\ syncReq = FALSE
  /\ seen = [left |-> 0, true |-> 0]
  /\ foreign = FALSE /\ mixed = FALSE
  /\ jitLeft = [writes |-> Writes, batches |-> Batches]

\* A task begins: the image decides the table.
start ==
  /\ run = "off" /\ jitLeft.batches > 0
  /\ jitSelectImage(imem)
  /\ run' = "loop"
  /\ ip' = [pc |-> 0, delay |-> FALSE, to |-> 0]
  /\ bal' = [bal EXCEPT !.c = 0]
  /\ foreign' = FALSE
  /\ UNCHANGED <<imem, blk, syncReq, seen, mixed, jitLeft>>

\* A batch begins: a rewrite from outside is synchronised here.
batch ==
  /\ run = "loop" /\ bal.c = 0 /\ jitLeft.batches > 0
  /\ bal' = [c |-> Tanda, budget |-> 0, chunk |-> Tanda, ran |-> 0]
  /\ jitLeft' = [jitLeft EXCEPT !.batches = @ - 1]
  /\ ways' = IF syncReq THEN [ways EXCEPT ![jcCur] = syncImem(@, imem)] ELSE ways
  /\ foreign' = IF syncReq THEN FALSE ELSE foreign
  /\ syncReq' = FALSE
  /\ UNCHANGED <<imem, jcCur, run, ip, blk, seen, mixed>>

Here == ways[jcCur].blocks[ip.pc]
Eligible == run = "loop" /\ ~ip.delay /\ bal.c >= kMinOps

translate ==
  /\ Eligible /\ Here = Unknown
  /\ \E full \in BOOLEAN :
       ways' = [ways EXCEPT ![jcCur] = compile(IF full THEN clear(@) ELSE @, imem, ip.pc)]
  /\ mixed' = (mixed \/ foreign)
  /\ UNCHANGED <<imem, jcCur, run, ip, bal, blk, syncReq, seen, foreign, jitLeft>>

\* The loop pays the entry block.
enter ==
  /\ Eligible /\ Compiled(Here) /\ Len(Here) <= bal.c
  /\ run' = "block"
  /\ blk' = [way |-> jcCur, first |-> ip.pc, words |-> Here, i |-> 1]
  /\ bal' = [bal EXCEPT !.budget = bal.c - Len(Here)]
  /\ UNCHANGED <<imem, ways, jcCur, ip, syncReq, seen, foreign, mixed, jitLeft>>

\* What an MTC0 may do: nothing the loop sees, stop the core, or a DMA that
\* rewrites a word of IMEM and selects the table for the new image.
Cop0Effects(image) ==
  {[halt |-> h, dma |-> FALSE, image |-> image] : h \in BOOLEAN}
    \cup (IF jitLeft.writes = 0 THEN {}
          ELSE {[halt |-> FALSE, dma |-> TRUE, image |-> [image EXCEPT ![s] = k]] :
                  s \in Slots, k \in Kinds})

ApplyCop0(fx) ==
  /\ imem' = fx.image
  /\ IF ~fx.dma THEN UNCHANGED <<ways, jcCur, jitLeft, foreign>>
     ELSE /\ jitSelectImage(fx.image)
          /\ foreign' = FALSE
          /\ jitLeft' = [jitLeft EXCEPT !.writes = @ - 1]

\* The interpreter: one instruction of whatever IMEM holds.
interpret ==
  LET w == imem[ip.pc]
      next == (ip.pc + 1) % N
      c == bal.c - 1
      goes == IF ip.delay THEN [pc |-> ip.to, delay |-> FALSE, to |-> 0]
              ELSE IF w = "jump" THEN [pc |-> next, delay |-> TRUE, to |-> Target]
              ELSE [pc |-> next, delay |-> FALSE, to |-> 0]
  IN /\ run = "loop" /\ bal.c > 0
     /\ ~(Eligible /\ (Here = Unknown \/ (Compiled(Here) /\ Len(Here) <= bal.c)))
     /\ bal' = [bal EXCEPT !.c = c, !.ran = @ + 1]
     /\ ip' = goes
     /\ IF w = "cop0"
        THEN /\ seen' = [left |-> c, true |-> bal.chunk - (bal.ran + 1)]
             /\ \E fx \in Cop0Effects(imem) :
                  ApplyCop0(fx) /\ run' = IF fx.halt THEN "off" ELSE "loop"
        ELSE /\ run' = IF w = "stop" THEN "off" ELSE "loop"
             /\ UNCHANGED <<seen, imem, ways, jcCur, jitLeft, foreign>>
     /\ UNCHANGED <<blk, syncReq, mixed>>

-----------------------------------------------------------------------------
(***************************************************************************)
(* Inside a block.                                                         *)
(***************************************************************************)
Word0 == blk.words[blk.i]
Rem == Len(blk.words) - blk.i
Slot0 == blk.i = Len(blk.words) /\ blk.i > 1 /\ blk.words[blk.i - 1] = "jump"
InBlock == run = "block" /\ blk.i <= Len(blk.words)

native ==
  /\ InBlock /\ Word0 \in {"alu", "jump"}
  /\ ip' = IF Word0 = "jump" THEN [ip EXCEPT !.pc = Target] ELSE ip
  /\ blk' = [blk EXCEPT !.i = @ + 1]
  /\ bal' = [bal EXCEPT !.ran = @ + 1]
  /\ UNCHANGED <<imem, ways, jcCur, run, syncReq, seen, foreign, mixed, jitLeft>>

\* At a cut the instructions not run go back to the balance.
cutBalance == bal.budget + Rem

jitCop0 ==
  /\ InBlock /\ Word0 = "cop0"
  /\ seen' = [left |-> bal.budget + Rem, true |-> bal.chunk - (bal.ran + 1)]
  /\ \E fx \in Cop0Effects(imem) :
       /\ ApplyCop0(fx)
       /\ IF fx.halt \/ fx.dma
          THEN /\ run' = IF fx.halt THEN "off" ELSE "loop"
               /\ bal' = [bal EXCEPT !.budget = cutBalance, !.ran = @ + 1, !.c = cutBalance]
               /\ ip' = IF Slot0 THEN ip ELSE [ip EXCEPT !.pc = (blk.first + blk.i) % N]
               /\ blk' = NoBlock
          ELSE /\ blk' = [blk EXCEPT !.i = @ + 1]
               /\ bal' = [bal EXCEPT !.ran = @ + 1]
               /\ UNCHANGED <<run, ip>>
  /\ UNCHANGED <<syncReq, mixed>>

\* The end of a block: its pc, then the link to the block of the same table
\* that is there, if it fits; the one who jumps pays.
EndsJump == Len(blk.words) > 1 /\ blk.words[Len(blk.words) - 1] = "jump"
ExitPc == IF EndsJump THEN ip.pc ELSE (blk.first + Len(blk.words)) % N
NextBlock == ways[blk.way].blocks[ExitPc]

leave ==
  /\ run = "block" /\ blk.i > Len(blk.words)
  /\ ip' = [ip EXCEPT !.pc = ExitPc]
  /\ IF Compiled(NextBlock) /\ Len(NextBlock) <= bal.budget
     THEN /\ blk' = [way |-> blk.way, first |-> ExitPc, words |-> NextBlock, i |-> 1]
          /\ bal' = [bal EXCEPT !.budget = @ - Len(NextBlock)]
          /\ UNCHANGED run
     ELSE /\ run' = "loop"
          /\ blk' = NoBlock
          /\ bal' = [bal EXCEPT !.c = IF bal.budget > 0 THEN bal.budget ELSE 0]
  /\ UNCHANGED <<imem, ways, jcCur, syncReq, seen, foreign, mixed, jitLeft>>

\* A DMA of the CPU into IMEM: with the core stopped start() will see it, with
\* the core running the RSP's thread is told.
cpuDma ==
  /\ jitLeft.writes > 0
  /\ \E s \in Slots, k \in Kinds : imem' = [imem EXCEPT ![s] = k]
  /\ jitLeft' = [jitLeft EXCEPT !.writes = @ - 1]
  /\ syncReq' = (syncReq \/ run # "off")
  /\ foreign' = (foreign \/ run # "off")
  /\ UNCHANGED <<ways, jcCur, run, ip, bal, blk, seen, mixed>>

JitNext == start \/ batch \/ translate \/ enter \/ interpret \/ native \/ jitCop0 \/ leave \/ cpuDma

-----------------------------------------------------------------------------
\* An instruction that runs from a block is the one IMEM holds at its place:
\* a rewrite by the microcode itself, inside a block or not, never leaves old
\* code running, and a table that is taken up again holds only blocks of the
\* image that is there.  A rewrite by the CPU under a running core reaches the
\* blocks at the next batch; it is the only excuse.  (A block compiled between
\* such a rewrite and that batch is outside the claim.)
RunsWhatIsThere ==
  (InBlock /\ ~foreign /\ ~mixed) => Word0 = imem[blk.first + blk.i - 1]

\* The clock a COP0 instruction sees is the interpreter's, instruction by
\* instruction, wherever in a chain of blocks it is, and what a block did not
\* run goes back to the batch: the balance and the instructions run add up.
RspClockExact ==
  /\ seen.left = seen.true
  /\ run = "loop" /\ bal.chunk > 0 /\ bal.c > 0 => bal.c + bal.ran = bal.chunk
  /\ bal.ran <= bal.chunk

-----------------------------------------------------------------------------
\* The accumulator inside a block.
CONSTANTS BlockOps   \* instructions of a block

ASSUME BlockAssumption == BlockOps \in Nat

VARIABLES code,   \* the block
          at,     \* the instruction being emitted and run
          accReg, \* the prologue saved xmm6..xmm8
          ctx,    \* compile time: valid and dirty slices
          xmm,    \* run time: the registers
          mem,    \* run time: acch, accm, accl of the Rsp object
          ref,    \* what the interpreter would have in them
          got     \* the slices an instruction read, and what it should have read

blockVars == <<code, at, accReg, ctx, xmm, mem, ref, got>>

Slices == {"h", "m", "l"}
Shapes == {[kind |-> "vu", reads |-> Slices, writes |-> Slices],        \* VMADN
           [kind |-> "vu", reads |-> {"h", "m"}, writes |-> {"h", "m"}],  \* VMADH
           [kind |-> "vu", reads |-> {}, writes |-> {"l"}],             \* VAND
           [kind |-> "vu", reads |-> {"m"}, writes |-> {}],             \* VSAR
           [kind |-> "call", reads |-> Slices, writes |-> Slices],      \* VRNDP
           [kind |-> "mem", reads |-> {}, writes |-> {}],               \* LQV, SW
           [kind |-> "cop0", reads |-> {}, writes |-> {}],
           [kind |-> "alu", reads |-> {}, writes |-> {}]}

vuOps(p) == Cardinality({i \in DOMAIN p : p[i].kind = "vu"})

BlockInit ==
  /\ code \in [1 .. BlockOps -> Shapes]
  /\ at = 1
  /\ accReg = (vuOps(code) >= 2)
  /\ ctx = [valid |-> {}, dirty |-> {}]
  /\ mem = [s \in Slices |-> 0] /\ ref = mem
  /\ xmm = [s \in Slices |-> -1]
  /\ got = [want |-> [s \in {} |-> 0], have |-> [s \in {} |-> 0]]

Op == code[at]

\* Stores the dirty slices; accSpill also forgets the registers.
accFlush(c, x, m) == [mem |-> [s \in Slices |-> IF s \in c.dirty THEN x[s] ELSE m[s]],
                      ctx |-> [c EXCEPT !.dirty = {}]]
accSpill(c, x, m) == [mem |-> accFlush(c, x, m).mem, ctx |-> [valid |-> {}, dirty |-> {}]]

\* accGet loads what is not valid, accPut writes the register.
emitVu ==
  LET loaded == [s \in Slices |-> IF s \in Op.reads /\ s \notin ctx.valid THEN mem[s] ELSE xmm[s]]
  IN /\ at <= BlockOps /\ Op.kind = "vu"
     /\ got' = [want |-> [s \in Op.reads |-> ref[s]],
                have |-> [s \in Op.reads |-> IF accReg THEN loaded[s] ELSE mem[s]]]
     /\ ref' = [s \in Slices |-> IF s \in Op.writes THEN at ELSE ref[s]]
     /\ IF accReg
        THEN /\ xmm' = [s \in Slices |-> IF s \in Op.writes THEN at ELSE loaded[s]]
             /\ ctx' = [valid |-> ctx.valid \cup Op.reads \cup Op.writes,
                        dirty |-> ctx.dirty \cup Op.writes]
             /\ UNCHANGED mem
        ELSE /\ mem' = [s \in Slices |-> IF s \in Op.writes THEN at ELSE mem[s]]
             /\ UNCHANGED <<xmm, ctx>>
     /\ at' = at + 1
     /\ UNCHANGED <<code, accReg>>

\* A helper works on the copy in memory.
emitCall ==
  LET sp == accSpill(ctx, xmm, mem)
  IN /\ at <= BlockOps /\ Op.kind = "call"
     /\ got' = [want |-> [s \in Op.reads |-> ref[s]], have |-> [s \in Op.reads |-> sp.mem[s]]]
     /\ mem' = [s \in Slices |-> IF s \in Op.writes THEN at ELSE sp.mem[s]]
     /\ ref' = [s \in Slices |-> IF s \in Op.writes THEN at ELSE ref[s]]
     /\ ctx' = sp.ctx
     /\ at' = at + 1
     /\ UNCHANGED <<code, accReg, xmm>>

\* Mutant: the flush is left to the call of the slow way.
BeforeForkNothing == [mem |-> mem, ctx |-> ctx]

\* The flush comes before the fork.
BeforeFork == accFlush(ctx, xmm, mem)

\* Either way runs; the compile-time state is the slow way's, emitted last.
emitMem(slow) ==
  LET b == BeforeFork
      sp == accSpill(b.ctx, xmm, b.mem)
  IN /\ at <= BlockOps /\ Op.kind = "mem"
     /\ mem' = IF slow THEN sp.mem ELSE b.mem
     /\ ctx' = sp.ctx
     /\ at' = at + 1
     /\ UNCHANGED <<code, accReg, xmm, ref, got>>

\* COP0 spills, and on a cut leaves without the epilogue's flush.
emitCop0(cut) ==
  LET sp == accSpill(ctx, xmm, mem)
  IN /\ at <= BlockOps /\ Op.kind = "cop0"
     /\ mem' = sp.mem /\ ctx' = sp.ctx
     /\ at' = IF cut THEN BlockOps + 2 ELSE at + 1
     /\ UNCHANGED <<code, accReg, xmm, ref, got>>

emitNative ==
  /\ at <= BlockOps /\ Op.kind = "alu"
  /\ at' = at + 1
  /\ UNCHANGED <<code, accReg, ctx, xmm, mem, ref, got>>

\* The end of the block flushes; another block may follow.
epilogue ==
  /\ at = BlockOps + 1
  /\ mem' = accFlush(ctx, xmm, mem).mem /\ ctx' = accFlush(ctx, xmm, mem).ctx
  /\ at' = BlockOps + 2
  /\ UNCHANGED <<code, accReg, xmm, ref, got>>

BlockNext ==
  \/ emitVu \/ emitCall \/ emitNative \/ epilogue
  \/ \E b \in BOOLEAN : emitMem(b) \/ emitCop0(b)

-----------------------------------------------------------------------------
\* Whatever the block holds and whichever way its memory accesses go, every
\* instruction reads the accumulator the interpreter would have, helpers
\* included, and the block leaves it whole in memory, at its end and at a cut.
AccumulatorKept ==
  /\ got.have = got.want
  /\ at = BlockOps + 2 => mem = ref
=============================================================================
