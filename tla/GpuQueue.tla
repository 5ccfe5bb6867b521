------------------------------ MODULE GpuQueue ------------------------------
(***************************************************************************)
(* The batches of the GPU rasterizer.  A fill or a triangle that SoftRdp   *)
(* hands over is queued; flush() copies to the mirror of RDRAM what the    *)
(* triangles read, records one dispatch per unit with a barrier only       *)
(* between units whose footprints meet, waits and copies back.  With       *)
(* upscaling (shadow mode) the CPU paints RDRAM itself and the batch only  *)
(* paints the large copy: it is sent at the end of a run and not waited    *)
(* for, and the mirror tells what the RDP left from what others wrote.     *)
(*                                                                         *)
(* Pixels are 16 bits wide, so that an aligned group of 8 bytes (a word of *)
(* hidden bits) is four of them.  The value of a pixel is the sequence of  *)
(* the primitives it is made of: a fill starts it again, a triangle blends *)
(* over it.  <<>> is the zero of a new buffer.                             *)
(***************************************************************************)
EXTENDS Integers, Sequences, FiniteSets, SequencesExt

CONSTANTS
  Screen,      \* the number of pixels of RDRAM
  Prims,       \* the primitives a list may hold
  LiveMax,     \* 64 in recordOps: footprints kept since the last barrier
  QueueMax,    \* kMaxTri: triangles a batch holds
  GpuConfigs,  \* where it may start: <<local, up, bound on the changes of scale asked for>>
  PrimMax,     \* bound: primitives of a behaviour
  ForeignPx,   \* the pixels others write
  OverLast,    \* may one be painted over the primitive queued last?
  ForeignMax   \* bound: writes of others

Px == 0 .. Screen - 1
Group(p) == p \div 4

VARIABLES
  rdram,      \* the guest's memory
  q,          \* the Ctx: ram (mirror), twin, hi, up, ops, patches, last; lost: its device is
  work,       \* what the GPU has to run: units, their epochs and how far each is
  upReq,      \* g_upReq, -1 when nothing is asked
  inRun,      \* "out" of SoftRdp::run; in one that will "queue" or "shadow"; "send": it ends
  inOrder,    \* what the primitives painted one by one leave
  byOthers,   \* the pixels others wrote since the RDP painted or copied them
  flattened,  \* the pixels patched although nobody else had written them
  primsLeft, foreignLeft, rescalesLeft

gpuVars == <<rdram, q, work, upReq, inRun, inOrder, byOthers, flattened, primsLeft, foreignLeft,
             rescalesLeft>>

ZeroRam == [p \in Px |-> <<>>]
NoBatch == [lo |-> FALSE, units |-> <<>>, epoch |-> <<>>, at |-> <<>>]

-----------------------------------------------------------------------------
(* Footprints *)

BoxOf(base, w, x0, x1, y0, y1) ==
  {base + y * w + x : x \in x0 .. x1 - 1, y \in y0 .. y1 - 1} \cap Px

HasZ(o) == o.tri /\ o.zi > 0
Colour(o) == BoxOf(o.base, o.w, o.x0, o.x1, o.y0, o.y1)
Depth(o) == IF HasZ(o) THEN BoxOf(o.zi, o.w, o.x0, o.x1, o.y0, o.y1) ELSE {}
Painted(o) == Colour(o) \cup Depth(o)

\* The whole rows a triangle reads, uploaded before the batch.
Zone(o) ==
  IF ~o.tri THEN {}
  ELSE BoxOf(o.base, o.w, 0, o.w, o.y0, o.y1)
         \cup (IF HasZ(o) THEN BoxOf(o.zi, o.w, 0, o.w, o.y0, o.y1) ELSE {})

makeFoot(base, w, x0, x1, y0, y1) ==
  [base |-> base, w |-> w, x0 |-> x0, x1 |-> x1, y0 |-> y0, y1 |-> y1,
   lo |-> ((base + y0 * w + x0) \div 4) * 4,
   hi |-> ((base + (y1 - 1) * w + x1 + 3) \div 4) * 4]

footsMeet(a, b) ==
  /\ a.hi > b.lo /\ b.hi > a.lo
  /\ (a.base = b.base /\ a.w = b.w /\ a.base % 4 = 0 /\ a.w % 4 = 0)
       => /\ a.y1 > b.y0 /\ b.y1 > a.y0
          /\ Group(a.x1 + 3) > Group(b.x0) /\ Group(b.x1 + 3) > Group(a.x0)

-----------------------------------------------------------------------------
(* recordOps *)

\* A unit: a fill, or triangles in a row over the same images; its box is the union.
UnitOf(o) == [ops |-> <<o>>, tri |-> o.tri, base |-> o.base, w |-> o.w, zi |-> o.zi,
              z |-> HasZ(o), x0 |-> o.x0, x1 |-> o.x1, y0 |-> o.y0, y1 |-> o.y1]

Smaller(a, b) == IF a < b THEN a ELSE b
Larger(a, b) == IF a > b THEN a ELSE b

Joined(u, o) == [u EXCEPT !.ops = Append(u.ops, o), !.z = u.z \/ HasZ(o),
                          !.x0 = Smaller(u.x0, o.x0), !.x1 = Larger(u.x1, o.x1),
                          !.y0 = Smaller(u.y0, o.y0), !.y1 = Larger(u.y1, o.y1)]

ColourFoot(u) == makeFoot(u.base, u.w, u.x0, u.x1, u.y0, u.y1)
DepthFoot(u) == makeFoot(u.zi, u.w, u.x0, u.x1, u.y0, u.y1)
Feet(u) == <<ColourFoot(u)>> \o (IF u.z THEN <<DepthFoot(u)>> ELSE <<>>)

Joins(u, o) ==
  /\ u.tri /\ o.tri
  /\ u.base = o.base /\ u.w = o.w /\ u.zi = o.zi
  /\ LET j == Joined(u, o) IN j.z => ~footsMeet(ColourFoot(j), DepthFoot(j))

Batched(us, o) ==
  IF us # <<>> /\ Joins(Last(us), o) THEN Append(Front(us), Joined(Last(us), o))
  ELSE Append(us, UnitOf(o))

Units(ops) == FoldLeft(Batched, <<>>, ops)

\* fence(): a unit whose feet meet a live one, or one too many, waits for all of them.
Fenced(r, u) ==
  LET fs == Feet(u)
      need == \/ Len(r.live) >= LiveMax
              \/ \E i \in DOMAIN fs, j \in DOMAIN r.live : footsMeet(fs[i], r.live[j])
      bar == need /\ r.live # <<>>
      e == IF bar THEN r.now + 1 ELSE r.now
  IN [now |-> e, live |-> (IF bar THEN <<>> ELSE r.live) \o fs, epoch |-> Append(r.epoch, e)]

Epochs(us) == FoldLeft(Fenced, [now |-> 0, live |-> <<>>, epoch |-> <<>>], us).epoch

\* `lo' in the branch of a fill is the address of its first byte, not the parameter.
FirstPixel(o) == o.base + o.y0 * o.w + o.x0
Runs1x(lo, u) == IF u.tri THEN lo ELSE FirstPixel(u.ops[1]) # 0

recordOps(ops, lo) ==
  LET us == Units(ops)
  IN [lo |-> lo, units |-> us, epoch |-> Epochs(us), at |-> [i \in DOMAIN us |-> <<"wait">>]]

-----------------------------------------------------------------------------
(* Painting *)

paint(m, o) ==
  LET box == Painted(o)
  IN [p \in Px |-> IF p \notin box THEN m[p] ELSE IF o.tri THEN Append(m[p], o.n) ELSE <<o.n>>]

paintAll(m, ops) == FoldLeft(paint, m, ops)

Onto(m, S, from) == [p \in Px |-> IF p \in S THEN from[p] ELSE m[p]]

PaintedBy(u) == UNION {Painted(u.ops[i]) : i \in DOMAIN u.ops}
WordsOf(S) == {p \in Px : \E s \in S : Group(s) = Group(p)}

Zones(ops) == UNION {Zone(ops[i]) : i \in DOMAIN ops}
Fills(ops) == UNION {IF ops[i].tri THEN {} ELSE Painted(ops[i]) : i \in DOMAIN ops}

local == q.local
BatchDone == \A i \in DOMAIN work.units : work.at[i][1] = "done"
Idle == work.units = <<>>

-----------------------------------------------------------------------------
(* The GPU *)

\* A unit starts when every unit before the last barrier has ended.
UnitReads(i) ==
  /\ work.at[i][1] = "wait"
  /\ \A j \in DOMAIN work.units : work.epoch[j] < work.epoch[i] => work.at[j][1] = "done"
  /\ work' = [work EXCEPT !.at[i] = <<"read", IF local THEN q.twin ELSE q.ram, q.hi>>]
  /\ UNCHANGED <<rdram, q, upReq, inRun, inOrder, byOthers, flattened, primsLeft, foreignLeft,
                 rescalesLeft>>

\* It writes whole words: what it painted over what it read.  In the large copy a pixel is a
\* block of whole words of its own, so only the pixels painted are written there.  The border of
\* one pixel by which the large box of a triangle grows is left out.
UnitWrites(i) ==
  LET u == work.units[i]
      words == WordsOf(PaintedBy(u))
      old == IF local THEN q.twin ELSE q.ram
      new == IF Runs1x(work.lo, u)
             THEN Onto(old, words, paintAll(work.at[i][2], u.ops)) ELSE old
  IN /\ work.at[i][1] = "read"
     /\ work' = [work EXCEPT !.at[i] = <<"done">>]
     /\ q' = [q EXCEPT !.twin = IF local THEN new ELSE @,
                       !.ram = IF local THEN @ ELSE new,
                       !.hi = IF q.up = 1 THEN Onto(@, PaintedBy(u), paintAll(work.at[i][3], u.ops))
                              ELSE @]
     /\ UNCHANGED <<rdram, upReq, inRun, inOrder, byOthers, flattened, primsLeft, foreignLeft,
                    rescalesLeft>>

-----------------------------------------------------------------------------
(* The scale *)

requestUpscale ==
  /\ rescalesLeft > 0
  /\ upReq' = 1 - q.up
  /\ rescalesLeft' = rescalesLeft - 1
  /\ UNCHANGED <<rdram, q, work, inRun, inOrder, byOthers, flattened, primsLeft, foreignLeft>>

\* The mirror goes to zero, for the whole large copy to be taken for old.
applyUp(c) ==
  IF upReq = -1 \/ upReq = c.up THEN c
  ELSE [c EXCEPT !.up = upReq, !.ram = IF upReq = 1 THEN ZeroRam ELSE @]

TurnsOn(c) == c.up = 0 /\ upReq = 1

-----------------------------------------------------------------------------
\* gpuShadow is decided at the start of a run and kept until its end.
RunBegins ==
  /\ inRun = "out"
  /\ primsLeft > 0
  /\ inRun' = IF q.up = 1 THEN "shadow" ELSE "queue"
  /\ UNCHANGED <<rdram, q, work, upReq, inOrder, byOthers, flattened, primsLeft, foreignLeft,
                 rescalesLeft>>

-----------------------------------------------------------------------------
(* Authoritative mode: what is queued reaches RDRAM at the flush *)

\* gpuTriangle, gpuRect, fillRect: a full queue is flushed first.
Queue(o) ==
  /\ inRun = "queue" /\ Idle /\ primsLeft > 0
  /\ o.tri => Cardinality({i \in DOMAIN q.ops : q.ops[i].tri}) < QueueMax
  /\ q' = [q EXCEPT !.ops = Append(@, o)]
  /\ inOrder' = paint(inOrder, o)
  /\ primsLeft' = primsLeft - 1
  /\ UNCHANGED <<rdram, work, upReq, inRun, byOthers, flattened, foreignLeft, rescalesLeft>>

\* With upscaling, resyncHi replicates what others wrote in the zones before the copy up.
flush ==
  LET c == applyUp(q)
      zs == Zones(q.ops)
      others == IF TurnsOn(q) THEN Px ELSE byOthers
      old == {p \in zs : c.up = 1 /\ rdram[p] # c.ram[p]}
  IN /\ inRun = "queue" /\ Idle /\ q.ops # <<>>
     /\ q' = [c EXCEPT !.hi = Onto(@, old, rdram), !.ram = Onto(@, zs, rdram),
                       !.twin = IF local THEN Onto(@, zs, rdram) ELSE @]
     /\ work' = recordOps(q.ops, TRUE)
     /\ upReq' = -1
     /\ flattened' = flattened \cup (old \ others)
     /\ byOthers' = others \ (zs \cup Fills(q.ops))
     /\ UNCHANGED <<rdram, inRun, inOrder, primsLeft, foreignLeft, rescalesLeft>>

\* The fence is signalled: the bytes of the primitives come back.
FlushEnds ==
  LET back == Zones(q.ops) \cup Fills(q.ops)
      ram == IF local THEN Onto(q.ram, back, q.twin) ELSE q.ram
  IN /\ work.lo /\ ~Idle /\ BatchDone
     /\ rdram' = Onto(rdram, back, ram)
     /\ q' = [q EXCEPT !.ram = ram, !.ops = <<>>]
     /\ work' = NoBatch
     /\ UNCHANGED <<upReq, inRun, inOrder, byOthers, flattened, primsLeft, foreignLeft,
                    rescalesLeft>>

\* The submission fails, or the device is lost when some of the batch has run: the batch is
\* thrown away and nothing of it reaches RDRAM.
FlushFails ==
  /\ work.lo /\ ~Idle
  /\ \A i \in DOMAIN work.units : work.at[i][1] # "read"
  /\ q' = [q EXCEPT !.ops = <<>>,
                    !.lost = @ \/ \E i \in DOMAIN work.units : work.at[i][1] = "done"]
  /\ work' = NoBatch
  /\ inOrder' = rdram
  /\ byOthers' = byOthers \cup Fills(q.ops) \cup Zones(q.ops)
  /\ UNCHANGED <<rdram, upReq, inRun, flattened, primsLeft, foreignLeft, rescalesLeft>>

-----------------------------------------------------------------------------
(* Shadow mode: the CPU paints RDRAM, the batch the large copy *)

\* commitRect over the boxes of the last primitive: they are what the RDP left.
commit(c) == [c EXCEPT !.ram = Onto(@, c.last, rdram), !.last = {}]

\* triRects: the box of a triangle grows by a pixel to every side, inside the rows.
Rects(o) ==
  IF ~o.tri THEN Painted(o)
  ELSE LET x0 == Larger(o.x0 - 1, 0)
           x1 == Smaller(o.x1 + 1, o.w)
           y0 == Larger(o.y0 - 1, 0)
       IN BoxOf(o.base, o.w, x0, x1, y0, o.y1 + 1)
            \cup (IF HasZ(o) THEN BoxOf(o.zi, o.w, x0, x1, y0, o.y1 + 1) ELSE {})

\* diffRect: what the mirror does not know goes into a patch and into the mirror.
Differ(c, S) == {p \in S : rdram[p] # c.ram[p]}

\* submitHi over a context whose last boxes are committed: the patches are applied, the batch
\* recorded and sent.
Kept(c) == [c |-> c, b |-> work, r |-> upReq, waits |-> FALSE]

Patched(c) ==
  [p \in Px |-> IF \E e \in c.patches : e[1] = p
                THEN (CHOOSE e \in c.patches : e[1] = p)[2] ELSE c.hi[p]]

Submitted(c) ==
  [c |-> [c EXCEPT !.ops = <<>>, !.patches = {}, !.hi = IF c.up = 1 THEN Patched(c) ELSE @],
   b |-> IF c.up = 1 /\ c.ops # <<>> THEN recordOps(c.ops, FALSE) ELSE NoBatch,
   r |-> -1, waits |-> TRUE]

Sent(c) == IF c.ops = <<>> /\ c.patches = {} THEN Kept(c) ELSE Submitted(applyUp(c))

\* The boxes of the last primitive pass to the mirror; a full queue is sent.
SentIfFull(c, o) ==
  IF o.tri /\ Cardinality({i \in DOMAIN c.ops : c.ops[i].tri}) >= QueueMax THEN Sent(c) ELSE Kept(c)

\* Patches behind queued primitives send the batch first.
SentIfBehind(s, c, ps) == IF ps # {} /\ c.ops # <<>> THEN Sent(c) ELSE [s EXCEPT !.c = c]

shadowPre(s, ps, o) ==
  [SentIfBehind(s, [s.c EXCEPT !.ram = Onto(@, ps, rdram)], ps)
     EXCEPT !.c.patches = @ \cup {<<p, rdram[p]>> : p \in ps}, !.c.last = Rects(o)]

\* queueTriHi and queueFillHi, and then the CPU paints the primitive.  A batch is sent only when
\* the one in flight has ended (waitIdle).
ShadowPrim(o) ==
  /\ inRun = "shadow" /\ primsLeft > 0
  /\ \E s1 \in {SentIfFull(commit(q), o)} : \E ps \in {Differ(s1.c, Rects(o))} :
     \E s \in {shadowPre(s1, ps, o)} :
       /\ s.waits => BatchDone
       /\ q' = [s.c EXCEPT !.ops = Append(@, o)]
       /\ work' = s.b
       /\ upReq' = s.r
       /\ flattened' = flattened \cup (ps \ byOthers)
  /\ rdram' = paint(rdram, o)
  /\ inOrder' = paint(inOrder, o)
  /\ byOthers' = byOthers \ Rects(o)
  /\ primsLeft' = primsLeft - 1
  /\ UNCHANGED <<inRun, foreignLeft, rescalesLeft>>

\* The end of SoftRdp::run in shadow mode: submitHi passes the last boxes to the mirror before it
\* waits for the batch in flight.
Commits ==
  /\ inRun = "shadow"
  /\ q' = commit(q)
  /\ inRun' = "send"
  /\ UNCHANGED <<rdram, work, upReq, inOrder, byOthers, flattened, primsLeft, foreignLeft,
                 rescalesLeft>>

\* The end of SoftRdp::run: the queue is empty, or the batch is sent.
RunEnds ==
  /\ \/ /\ inRun = "queue" /\ Idle /\ q.ops = <<>>
        /\ UNCHANGED <<q, work, upReq>>
     \/ /\ inRun = "send"
        /\ \E s \in {Sent(q)} :
             /\ s.waits => BatchDone
             /\ q' = s.c /\ work' = s.b /\ upReq' = s.r
  /\ inRun' = "out"
  /\ UNCHANGED <<rdram, inOrder, byOthers, flattened, primsLeft, foreignLeft, rescalesLeft>>

\* waitIdle found the fence signalled.
BatchEnds ==
  /\ ~work.lo /\ ~Idle /\ BatchDone
  /\ work' = NoBatch
  /\ UNCHANGED <<rdram, q, upReq, inRun, inOrder, byOthers, flattened, primsLeft, foreignLeft,
                 rescalesLeft>>

-----------------------------------------------------------------------------
\* The CPU or a DMA between two runs of the RDP, or a primitive the GPU does not paint in one:
\* with the queue flushed, or in shadow mode at any time.
ForeignWrite(p) ==
  /\ foreignLeft > 0
  /\ inRun # "send"
  /\ inRun = "queue" => q.ops = <<>>
  /\ p \in q.last => OverLast
  /\ rdram' = [rdram EXCEPT ![p] = <<"cpu">>]
  /\ inOrder' = rdram'
  /\ byOthers' = byOthers \cup {p}
  /\ foreignLeft' = foreignLeft - 1
  /\ UNCHANGED <<q, work, upReq, inRun, flattened, primsLeft, rescalesLeft>>

GpuInit ==
  /\ rdram = [p \in Px |-> <<"ram">>]
  /\ \E g \in GpuConfigs :
       /\ q = [local |-> g[1], up |-> g[2], ram |-> ZeroRam, twin |-> ZeroRam, hi |-> ZeroRam,
               ops |-> <<>>, patches |-> {}, last |-> {}, lost |-> FALSE]
       /\ rescalesLeft = g[3]
  /\ work = NoBatch /\ upReq = -1 /\ inRun = "out"
  /\ inOrder = rdram /\ byOthers = Px /\ flattened = {}
  /\ primsLeft = PrimMax /\ foreignLeft = ForeignMax

GpuNext ==
  \/ \E i \in DOMAIN work.units : UnitReads(i)
  \/ \E i \in DOMAIN work.units : UnitWrites(i)
  \/ requestUpscale
  \/ RunBegins
  \/ \E o \in Prims : Queue(o)
  \/ flush
  \/ FlushEnds
  \/ FlushFails
  \/ \E o \in Prims : ShadowPrim(o)
  \/ Commits
  \/ RunEnds
  \/ BatchEnds
  \/ \E p \in ForeignPx : ForeignWrite(p)

-----------------------------------------------------------------------------
(* Units of an epoch run in any order, and at the same time, over shared   *)
(* words of memory; RDRAM ends as if the primitives had been painted one   *)
(* by one.                                                                 *)
BatchIsInOrder == inRun = "out" => rdram = inOrder

(* A pixel of RDRAM that is still what the RDP left, as scanoutHi tells it *)
(* by the mirror, shows in the large copy the same primitives: nothing is  *)
(* old there, nothing was overtaken by a patch or by a batch in flight.    *)
HiFollows ==
  (q.up = 1 /\ inRun = "out" /\ Idle /\ ~q.lost)
    => \A p \in Px : rdram[p] = q.ram[p] => q.hi[p] = rdram[p]

(* Only what others wrote is replicated from RDRAM: the detail of what the *)
(* RDP painted in the large copy is never thrown away.                     *)
DetailKept == flattened = {}
=============================================================================
