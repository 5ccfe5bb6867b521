------------------------------ MODULE RdpWalk ------------------------------
(***************************************************************************)
(* SoftRdp::run walks a span of the command list twice: softCost, at the   *)
(* kick, only charges it and notes the zone of RDRAM it may write; the     *)
(* painter draws it later, one command at a time.  A painter with the GPU  *)
(* on its side does not draw what it can queue: the queue is brought down  *)
(* to RDRAM before a command that would miss it, and always before run     *)
(* returns.                                                                *)
(*                                                                         *)
(* A cell is a halfword of RDRAM.  What it holds is the trail of the       *)
(* commands its value depends on, so two orders that differ show.  A "set" *)
(* stands for the SET_* commands between two that draw or load.  The       *)
(* texture image is where the depth image is, which a list also draws in:  *)
(* its loads read what was drawn.                                          *)
(***************************************************************************)
EXTENDS Naturals, Sequences, SequencesExt

CONSTANTS Cells,      \* halfwords of RDRAM
          CiAddrs,    \* colour images a list uses
          ZiAddr,     \* its depth image (zi_addr = 0 is none)
          CiWidth,    \* ci_width = ti_width, in pixels
          ScissorXs,  \* values of sx1
          ScissorY,   \* sy1
          Modes,      \* values of SET_OTHER_MODES
          Commands,   \* the commands a list may hold
          MaxCmds,    \* bound: commands in all the lists
          MaxDirty,   \* gpuDirtyLo/Hi
          WrSlots,    \* kWrSlots
          MaxTri      \* kMaxTri

ASSUME RdpWalkAssumption ==
  /\ Cells \in Nat /\ ZiAddr \in Nat \ {0} /\ CiWidth \in Nat \ {0} /\ ScissorY \in Nat
  /\ MaxCmds \in Nat /\ MaxDirty \in Nat \ {0} /\ WrSlots \in Nat \ {0} /\ MaxTri \in Nat \ {0}

VARIABLES prog,      \* the commands kicked so far
          spans,     \* spans still to be painted: where each ends, and whether the
                     \* painter has the GPU for it (gpuRun: a choice of the host)
          creg, reg, \* registers of the cost walk and of the painter
          ram, tmem, combined,  \* what the painter has written
          queue,     \* primitives the GPU has pending
          dirty,     \* gpuDirtyLo/Hi
          pos,       \* commands painted
          zone,      \* softCost.wrLo/wrHi, published in dpWrLo/dpWrHi
          missed,    \* the rectangles that fail the depth test everywhere at the kick
          want       \* [ram, tmem, combined] had every command been drawn in its turn

walkVars == <<prog, spans, creg, reg, ram, tmem, combined, queue, dirty, pos, zone, missed,
              want>>

MinOf(a, b) == IF a < b THEN a ELSE b
MaxOf(a, b) == IF a < b THEN b ELSE a
Meets(i, lo, hi) == lo < i[2] /\ i[1] < hi
Touches(i, lo, hi) == lo <= i[2] /\ i[1] <= hi
Grown(i, lo, hi) == <<MinOf(i[1], lo), MaxOf(i[2], hi)>>
Least(S) == CHOOSE i \in S : \A j \in S : i <= j

(***************************************************************************)
(* Registers.  A command that sets one never looks at RDRAM.               *)
(***************************************************************************)
IsFill(r) == r.mode = "fill"
ZUpd(r) == r.mode \in {"zupd", "zcmp"}

SetRegister(r, c) ==
  IF c.op # "set" THEN r
  ELSE [k \in DOMAIN r |-> IF k \in DOMAIN c.regs THEN c.regs[k] ELSE r[k]]

(***************************************************************************)
(* A primitive: the pixels it covers, in the order they are drawn, and     *)
(* what it does to each.                                                   *)
(***************************************************************************)
Draws(c) == c.op \in {"tri", "rect"}

Columns(r, c) == IF c.op = "tri" THEN <<0, r.sx1>> ELSE <<c.x0, MinOf(c.x1, r.sx1)>>

Pixels(r, c) ==
  LET x == Columns(r, c)
      w == IF x[1] < x[2] THEN x[2] - x[1] ELSE 0
  IN  [k \in 1..(w * (c.y1 - c.y0)) |->
         (c.y0 + (k - 1) \div w) * CiWidth + x[1] + ((k - 1) % w)]

Prim(r, c, id, tm) == [id |-> id, ci |-> r.ci, mode |-> r.mode, op |-> c.op,
                       px |-> Pixels(r, c), tm |-> tm]

\* depth found in a z cell: the depth of the command that left it there
zDecode(v) == IF v = <<>> THEN 0 ELSE prog[Last(v)].d

Paint(m, p) ==
  LET Pixel(s, o) ==
        LET c == p.ci + o  z == ZiAddr + o
            shade == CASE p.mode = "tex" -> Append(p.tm, p.id)
                       [] p.mode = "feed" -> Append(s.combined, p.id)
                       [] OTHER -> <<p.id>>
            out == IF p.mode = "blend" THEN Append(s.ram[c], p.id) ELSE shade
            next == [s EXCEPT !.combined = IF p.mode = "fill" THEN @ ELSE shade]
        IN  IF p.mode = "zcmp" /\ prog[p.id].d >= zDecode(s.ram[z]) THEN next
            ELSE [next EXCEPT !.ram = IF p.mode \in {"zupd", "zcmp"}
                                      THEN [@ EXCEPT ![c] = out, ![z] = <<p.id>>]
                                      ELSE [@ EXCEPT ![c] = out]]
  IN  FoldLeft(Pixel, m, p.px)

\* LOAD_TILE, LOAD_BLOCK and LOAD_TLUT read RDRAM from row t of the texture image
loadTile(mem, r, c) ==
  FlattenSeq([k \in 1..c.n |-> Append(mem[r.ti + c.t * CiWidth + k - 1], 0)])

-----------------------------------------------------------------------------
(***************************************************************************)
(* The zone of the cost walk.                                              *)
(***************************************************************************)
wrAdd(s, lo, hi) ==
  LET touching == {i \in 1..Len(s) : Touches(s[i], lo, hi)}
      Grow(i) == MaxOf(s[i][2], hi) - MinOf(s[i][1], lo) - (s[i][2] - s[i][1])
      best == Least({i \in 1..Len(s) : \A j \in 1..Len(s) : Grow(i) <= Grow(j)})
      into == IF touching # {} THEN Least(touching) ELSE best
  IN  IF touching = {} /\ Len(s) < WrSlots THEN Append(s, <<lo, hi>>)
      ELSE [s EXCEPT ![into] = Grown(@, lo, hi)]

\* pixels the cost walk thinks a primitive writes: it tests depth only for a
\* rectangle, against RDRAM as it is now
CostWrites(r, c) ==
  LET px == Pixels(r, c)
  IN  IF c.op = "rect" /\ r.mode = "zcmp"
      THEN {k \in 1..Len(px) : c.d < zDecode(ram[ZiAddr + px[k]])}
      ELSE 1..Len(px)


acctFinish(s, r, c) ==
  LET cells == (MaxOf(CiWidth, r.sx1) + 1) * (ScissorY + 1) * 2
      colour == wrAdd(s, r.ci, r.ci + cells)
  IN  IF ~Draws(c) \/ CostWrites(r, c) = {} THEN s
      ELSE IF ZUpd(r) THEN wrAdd(colour, ZiAddr, ZiAddr + cells) ELSE colour

\* the registers, the zone and the commands walked; a rectangle that the test leaves without a
\* pixel is one the zone does not know of
rdpCostPass(span) ==
  FoldLeft(LAMBDA w, c :
             [reg |-> SetRegister(w.reg, c), zone |-> acctFinish(w.zone, w.reg, c), n |-> w.n + 1,
              missed |-> IF Draws(c) /\ CostWrites(w.reg, c) = {} THEN w.missed \cup {w.n + 1}
                         ELSE w.missed],
           [reg |-> creg, zone |-> zone, n |-> Len(prog), missed |-> missed], span)

-----------------------------------------------------------------------------
(***************************************************************************)
(* The GPU queue.                                                          *)
(***************************************************************************)
\* a plausible slip: with no slot left the interval is forgotten
gpuMarkFull(s, lo, hi) == IF Len(s) < MaxDirty THEN Append(s, <<lo, hi>>) ELSE s

gpuMark(s, lo, hi) ==
  LET touching == {i \in 1..Len(s) : Touches(s[i], lo, hi)}
  IN  IF touching # {} THEN [s EXCEPT ![Least(touching)] = Grown(@, lo, hi)]
      ELSE IF Len(s) < MaxDirty THEN Append(s, <<lo, hi>>)
      ELSE [s EXCEPT ![MaxDirty] = Grown(@, lo, hi)]

gpuDirtyHit(lo, hi) == \E i \in 1..Len(dirty) : Meets(dirty[i], lo, hi)

gpuNoFlush(c) == c.op = "rect" => IsFill(reg)

\* what the head of the loop brings the queue down for: 4 bytes a texel and 8 of margin
LoadReads(c) ==
  IF c.op = "block" THEN <<reg.ti, reg.ti + c.n * 2 + 4>>
  ELSE <<reg.ti, reg.ti + (c.t + 1) * CiWidth * 2 + c.n * 2 + 4>>

FlushFirst(c) ==
  /\ queue # <<>>
  /\ IF c.op \in {"tile", "block"} THEN gpuDirtyHit(LoadReads(c)[1], LoadReads(c)[2])
                                   ELSE ~gpuNoFlush(c)

Down(m) == FoldLeft(Paint, m, queue)
Mine == [ram |-> ram, combined |-> combined]

\* what a triangle (whole rows) or a fill (from its first pixel to its last) may write, as the
\* queue is told
ColourRange(c) ==
  IF c.op = "tri" THEN <<reg.ci + c.y0 * CiWidth, reg.ci + c.y1 * CiWidth>>
  ELSE <<reg.ci + c.y0 * CiWidth + Columns(reg, c)[1],
         reg.ci + (c.y1 - 1) * CiWidth + Columns(reg, c)[2]>>
DepthRows(c) == <<ZiAddr + c.y0 * CiWidth, ZiAddr + c.y1 * CiWidth>>

gpuTriangleTakes(c) ==
  /\ reg.sx1 <= CiWidth
  /\ reg.mode # "feed"                   \* COMBINED of the pixel before
  /\ ZUpd(reg) => ~Meets(ColourRange(c), DepthRows(c)[1], DepthRows(c)[2])

fillRectTakes(c) == IsFill(reg) /\ Columns(reg, c)[2] <= CiWidth

Takes(c) == IF c.op = "tri" THEN gpuTriangleTakes(c) ELSE fillRectTakes(c)

Marked(d, c) ==
  LET colour == gpuMark(d, ColourRange(c)[1], ColourRange(c)[2])
  IN  IF ZUpd(reg) THEN gpuMark(colour, DepthRows(c)[1], DepthRows(c)[2]) ELSE colour

Tris(q) == Len(SelectSeq(q, LAMBDA p : p.op = "tri"))

-----------------------------------------------------------------------------
(***************************************************************************)
(* Actions.                                                                *)
(***************************************************************************)
WalkInit ==
  /\ prog = <<>> /\ spans = <<>> /\ pos = 0 /\ zone = <<>> /\ missed = {}
  /\ creg \in [ci : CiAddrs, ti : {ZiAddr}, mode : Modes, sx1 : ScissorXs]
  /\ reg = creg
  /\ ram = [c \in 0..(Cells - 1) |-> <<>>] /\ tmem = <<>> /\ combined = <<>>
  /\ queue = <<>> /\ dirty = <<>>
  /\ want = [ram |-> ram, combined |-> combined, tmem |-> tmem]

\* dpScheduleSpan: charge the span, publish its zone, hand it to the worker
Kick(span, onGpu) ==
  /\ prog' = prog \o span
  /\ spans' = Append(spans, [end |-> Len(prog) + Len(span), gpu |-> onGpu])
  /\ LET w == rdpCostPass(span) IN creg' = w.reg /\ zone' = w.zone /\ missed' = w.missed
  /\ UNCHANGED <<reg, ram, tmem, combined, queue, dirty, pos, want>>

PrimHere == prog[pos + 1]
Walking == spans # <<>> /\ pos < Head(spans).end
gpuRun == Head(spans).gpu
Drawn == Prim(reg, PrimHere, pos + 1, tmem)

\* the reference: the command drawn at once on a memory of its own
InTurn ==
  LET c == PrimHere
      m == [ram |-> want.ram, combined |-> want.combined]
      p == Paint(m, Prim(reg, c, pos + 1, want.tmem))
  IN  want' = IF Draws(c) THEN [want EXCEPT !.ram = p.ram, !.combined = p.combined]
              ELSE IF c.op \in {"tile", "block"} THEN [want EXCEPT !.tmem = loadTile(want.ram, reg, c)]
              ELSE want

\* SET_*, SYNC_*: nothing of RDRAM
StepSet ==
  /\ Walking /\ ~Draws(PrimHere) /\ PrimHere.op \notin {"tile", "block"}
  /\ reg' = SetRegister(reg, PrimHere) /\ pos' = pos + 1
  /\ InTurn
  /\ UNCHANGED <<prog, spans, creg, ram, tmem, combined, queue, dirty, zone, missed>>

StepLoad ==
  /\ Walking /\ PrimHere.op \in {"tile", "block"}
  /\ LET m == IF FlushFirst(PrimHere) THEN Down(Mine) ELSE Mine
     IN  /\ ram' = m.ram /\ combined' = m.combined
         /\ tmem' = loadTile(m.ram, reg, PrimHere)
  /\ IF FlushFirst(PrimHere) THEN queue' = <<>> /\ dirty' = <<>> ELSE UNCHANGED <<queue, dirty>>
  /\ pos' = pos + 1
  /\ InTurn
  /\ UNCHANGED <<prog, spans, creg, reg, zone, missed>>

\* queueTri, queueFill; a queue with no room for a triangle goes down first
StepQueue ==
  /\ Walking /\ Draws(PrimHere) /\ gpuRun /\ Takes(PrimHere) /\ Drawn.px # <<>>
  /\ LET down == FlushFirst(PrimHere) \/ (PrimHere.op = "tri" /\ Tris(queue) >= MaxTri)
         m == IF down THEN Down(Mine) ELSE Mine
     IN  /\ ram' = m.ram /\ combined' = m.combined
         /\ queue' = Append(IF down THEN <<>> ELSE queue, Drawn)
         /\ dirty' = Marked(IF down THEN <<>> ELSE dirty, PrimHere)
  /\ pos' = pos + 1
  /\ InTurn
  /\ UNCHANGED <<prog, spans, creg, reg, tmem, zone, missed>>

\* what stays with the CPU: a triangle brings the queue down itself, a rectangle
\* only if the head of the loop did
StepPaint ==
  /\ Walking /\ Draws(PrimHere) /\ ~(gpuRun /\ Takes(PrimHere) /\ Drawn.px # <<>>)
  /\ LET down == FlushFirst(PrimHere) \/ (PrimHere.op = "tri" /\ gpuRun /\ ~gpuTriangleTakes(PrimHere) /\ queue # <<>>)
         m == Paint(IF down THEN Down(Mine) ELSE Mine, Drawn)
     IN  /\ ram' = m.ram /\ combined' = m.combined
         /\ IF down THEN queue' = <<>> /\ dirty' = <<>> ELSE UNCHANGED <<queue, dirty>>
  /\ pos' = pos + 1
  /\ InTurn
  /\ UNCHANGED <<prog, spans, creg, reg, tmem, zone, missed>>

\* the end of run(); with nothing left to paint the zone is dropped (dpWrReset)
EndSpan ==
  /\ spans # <<>> /\ pos = Head(spans).end
  /\ ram' = Down(Mine).ram /\ combined' = Down(Mine).combined
  /\ queue' = <<>> /\ dirty' = <<>>
  /\ spans' = Tail(spans)
  /\ zone' = IF Len(spans) = 1 THEN <<>> ELSE zone
  /\ UNCHANGED <<prog, creg, reg, tmem, pos, missed, want>>

WalkNext ==
  \/ \E n \in 1..(MaxCmds - Len(prog)) : \E span \in [1..n -> Commands], onGpu \in BOOLEAN :
       Kick(span, onGpu)
  \/ StepSet \/ StepLoad \/ StepQueue \/ StepPaint \/ EndSpan

-----------------------------------------------------------------------------
(***************************************************************************)
(* Whatever the GPU still owes: RDRAM with the pending queue brought down, *)
(* the COMBINED register it leaves and the texture memory are what drawing *)
(* every command in its turn gives (run: "fuera de run() la RDRAM siempre  *)
(* esta al dia", and everything that reads it before has it up to date).   *)
(***************************************************************************)
QueueInOrder ==
  /\ Down(Mine) = [ram |-> want.ram, combined |-> want.combined]
  /\ tmem = want.tmem

(***************************************************************************)
(* No cell is written that the published zone does not cover: an RSP DMA   *)
(* that finds its cells outside the zone goes on without waiting           *)
(* (rspDmaRdpWait), so it must never see one of them change.  The          *)
(* exception is a rectangle with depth compare that fails everywhere on    *)
(* the RDRAM of the kick (fillRect and texRect, costOnly) and passes once  *)
(* the spans before it have been painted.                                  *)
(***************************************************************************)
Covered(c) == \E i \in 1..Len(zone) : zone[i][1] <= c /\ c < zone[i][2]


(***************************************************************************)
(* Said and not kept: "Cota por arriba de lo que el motor que pinta de     *)
(* verdad puede escribir" (rdp.hpp, wrLo).                                 *)
(***************************************************************************)
ZoneIsUpperBound == [][\A c \in DOMAIN ram : ram'[c] # ram[c] => Covered(c)]_walkVars
=============================================================================
