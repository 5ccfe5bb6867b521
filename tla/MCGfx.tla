------------------------------- MODULE MCGfx -------------------------------
(***************************************************************************)
(* The machines of the RSP's vector unit and translator and of the RDP,    *)
(* side by side: a behaviour moves one of them, chosen in the initial      *)
(* state.                                                                  *)
(***************************************************************************)
EXTENDS RspVector, RspVecMem, RspJit, RdpWalk, RdpRaster, RdpCombiner, RdpBlender,
        RdpTmem, GpuQueue

CONSTANT Foci   \* the machines a behaviour may move

VARIABLE focus

\* TLC evaluates a definition once but a substituted constant at every use: what replaces a large
\* constant (Small...) only names a definition (The...).

\* Two images of IMEM: words that end blocks at different places.
Im(a, b, d, e, f, g) == [s \in 0 .. 5 |-> <<a, b, d, e, f, g>>[s + 1]]
SmallImages == {Im("cop0", "alu", "cop0", "jump", "alu", "stop"),
                Im("alu", "jump", "cop0", "alu", "alu", "cop0")}

\* Display lists: triangles, rectangles, images that overlap, loads that read what was drawn.
Tri(a, b) == [op |-> "tri", y0 |-> a, y1 |-> b, d |-> 1]
Rect(a, b, y) == [op |-> "rect", x0 |-> a, x1 |-> b, y0 |-> 0, y1 |-> y, d |-> 0]
Set(regs) == [op |-> "set", regs |-> regs]
TheCommands == {Tri(0, 2), Rect(1, 2, 2), Set([ci |-> 2]), Set([ci |-> 14]),
               Set([mode |-> "fill"]), Set([mode |-> "blend"]),
               Set([ci |-> 32, mode |-> "zcmp"]), Set([sx1 |-> 3]),
               [op |-> "tile", t |-> 1, n |-> 1], [op |-> "block", t |-> 0, n |-> 2]}
SmallLists == TheCommands

SmallScissors == {<<0, 9, 0, 9>>, <<1, 2, 0, 1>>}
SmallPlanes == {<<1, 5>>, <<-2, 3>>}

\* A modulated shade in two cycles, and every word one selector away from it.
Cycle1 == <<1, 8, 4, 7, 1, 7, 4, 7>>
Cycle2 == <<0, 2, 13, 0, 0, 2, 0, 0>>
TheWords ==
  UNION {{<<[Cycle1 EXCEPT ![k] = i], Cycle2>>, <<Cycle1, [Cycle2 EXCEPT ![k] = i]>>}
          : k \in 1 .. 8, i \in 0 .. 7}
    \cup UNION {{<<[Cycle1 EXCEPT ![3] = i], Cycle2>>, <<Cycle1, [Cycle2 EXCEPT ![3] = i]>>}
                 : i \in 8 .. 15}
NearWords == TheWords
NextWords == {<<Cycle1, Cycle2>>, <<[Cycle1 EXCEPT ![1] = 3], Cycle2>>,
              <<Cycle1, [Cycle2 EXCEPT ![3] = 7]>>}
SmallTexels == {<< <<255, 255>>, <<3, 128>> >>, << <<100, 0>>, <<250, 255>> >>}

\* The blender's modes: the muxes of both cycles, coverage, and the depth modes.
Mixing(p, a, m, b, two, f, im, fo, aa, cd, cc) ==
  [p |-> p, a |-> a, m |-> m, b |-> b, two |-> two,
   p0 |-> f[1], a0 |-> f[2], m0 |-> f[3], b0 |-> f[4],
   imRd |-> im, force |-> fo, aaEn |-> aa, cvgDst |-> cd, colorOnCvg |-> cc,
   cvgXAlpha |-> FALSE, alphaCvgSel |-> FALSE, zCmp |-> FALSE, zUpd |-> FALSE, zmode |-> 0]
MuxModes(P) ==
  {Mixing(p, a, m, b, two, f, im, fo, aa, cd, cc) :
     p \in P, a \in {0, 2}, m \in 0 .. 2, b \in 0 .. 2, two \in BOOLEAN,
     f \in {<<3, 2, 0, 0>>}, im \in BOOLEAN, fo \in BOOLEAN, aa \in BOOLEAN,
     cd \in 0 .. 3, cc \in BOOLEAN}
CoverModes ==
  {[Mixing(0, 0, 1, b, FALSE, <<0, 0, 0, 0>>, TRUE, FALSE, aa, cd, FALSE)
      EXCEPT !.cvgXAlpha = x, !.alphaCvgSel = s] :
     b \in 0 .. 1, aa \in BOOLEAN, cd \in 0 .. 3, x \in BOOLEAN, s \in BOOLEAN}
DepthModes ==
  {[Mixing(0, 0, 1, b, FALSE, <<0, 0, 0, 0>>, im, FALSE, TRUE, 0, FALSE)
      EXCEPT !.zCmp = TRUE, !.zUpd = TRUE, !.zmode = z] :
     b \in 0 .. 1, z \in 0 .. 3, im \in BOOLEAN}
TheBlends == UNION {MuxModes({0, 1, 3}), CoverModes, DepthModes}
SmallBlends == TheBlends
SmallSources == {<<200, 128>>, <<200, 255>>}
TheDepths == {1000, 131071, 131103, 229375, 229383, 262100} \X {0, 3, 12}
SmallDepths == TheDepths
SmallFb == {<<16, 2>>, <<224, 7>>}

\* Loads of every size and kind into a small TMEM.
TexLoad(op, size, view, base, line, s0, s1, t0, t1) ==
  [op |-> op, size |-> size, view |-> view, tsize |-> 0, yuv |-> FALSE, ci |-> FALSE,
   base |-> base, line |-> line, vline |-> IF line = 0 THEN 1 ELSE line,
   s0 |-> s0, s1 |-> s1, t0 |-> t0, t1 |-> t1, addr |-> 0, dxt |-> 0, rowWords |-> 1]
TheLoads ==
  {TexLoad("tile", 0, 0, 1, 1, 3, 12, 1, 3), TexLoad("tile", 1, 1, 0, 1, 0, 7, 0, 2),
   TexLoad("tile", 2, 2, 4, 2, 1, 5, 0, 1), TexLoad("tile", 3, 3, 2, 1, 0, 3, 1, 3),
   [TexLoad("tile", 2, 2, 0, 1, 0, 7, 0, 2) EXCEPT !.yuv = TRUE],
   [TexLoad("block", 2, 1, 0, 0, 0, 15, 1, 0) EXCEPT !.dxt = 2048],
   [TexLoad("block", 2, 2, 2, 0, 4, 27, 0, 0) EXCEPT !.dxt = 1024, !.rowWords = 2, !.vline = 2],
   [TexLoad("block", 3, 3, 1, 0, 0, 7, 0, 0) EXCEPT !.dxt = 1024],
   [TexLoad("block", 1, 0, 0, 0, 0, 23, 0, 0) EXCEPT !.dxt = 2048, !.ci = TRUE],
   TexLoad("tlut", 2, 2, 8, 0, 0, 3, 0, 0),
   [TexLoad("tlut", 2, 2, 10, 0, 4, 7, 0, 0) EXCEPT !.tsize = 1],
   [TexLoad("tile", 1, 1, 0, 1, 0, 7, 10, 12) EXCEPT !.addr = 40]}
SmallLoads == TheLoads
SmallFoldings == {<<0, 0>>, <<0, 2>>, <<2, 1>>, <<1, 3>>}
SmallPoints == {-40, 16, 49, 250}

\* Fills and triangles that share words, images that overlap, rows that are not aligned.
GpuPrim(n, tri, base, w, zi, x0, x1, y0, y1) ==
  [n |-> n, tri |-> tri, base |-> base, w |-> w, zi |-> zi,
   x0 |-> x0, x1 |-> x1, y0 |-> y0, y1 |-> y1]
ThePrims ==
  {GpuPrim("f1", FALSE, 4, 8, 0, 0, 2, 0, 1), GpuPrim("f2", FALSE, 4, 8, 0, 2, 8, 0, 1),
   GpuPrim("t1", TRUE, 4, 8, 20, 0, 3, 0, 1),
   GpuPrim("t3", TRUE, 4, 8, 8, 1, 4, 0, 1), GpuPrim("t4", TRUE, 4, 6, 0, 0, 3, 1, 2)}
SmallPrims == ThePrims

\* Without twins in the GPU's memory: at 1x.  With them: either way, with one change of scale.
TwinConfigs == {<<FALSE, 0, 0>>, <<TRUE, 0, 1>>, <<TRUE, 1, 1>>}
PlainShadow == {<<FALSE, 1, 0>>}

Others(f) ==
  /\ f # "vector" => UNCHANGED vuVars
  /\ f # "vecmem" => UNCHANGED vmVars
  /\ f # "jit" => UNCHANGED jitVars
  /\ f # "block" => UNCHANGED blockVars
  /\ f # "walk" => UNCHANGED walkVars
  /\ f # "raster" => UNCHANGED rasterVars
  /\ f # "comb" => UNCHANGED combVars
  /\ f # "blend" => UNCHANGED blendVars
  /\ f # "tmem" => UNCHANGED tmemVars
  /\ f # "gpu" => UNCHANGED gpuVars

\* The machines that do not move rest in one of their initial states.
Some(S) == CHOOSE x \in S : TRUE
RestLane == Some(Before("mac"))
RestCode == [i \in 1 .. BlockOps |-> Some(Shapes)]
RestQuad == Some(Quads)
RestBlend == Some(BlendModes)
RestReg == [ci |-> Some(CiAddrs), ti |-> ZiAddr, mode |-> Some(Modes), sx1 |-> Some(ScissorXs)]

Rest ==
  /\ focus # "vector" => /\ family = "mac"
                         /\ lane = [scalar |-> RestLane, sse |-> RestLane, jit |-> RestLane]
  /\ focus # "jit" => imem = Some(Images)
  /\ focus # "block" => code = RestCode
  /\ focus # "walk" => creg = RestReg
  /\ focus # "raster" => quad = RestQuad /\ scissor = Some(Scissors) /\ plane = Some(Planes)
  /\ focus # "comb" => combine = Some(CombWords) /\ cycleTwo = FALSE
  /\ focus # "blend" => bmode = RestBlend /\ fb = Some(FbPixels)

GfxInit ==
  /\ focus \in Foci
  /\ Rest
  /\ VectorInit /\ VecMemInit /\ JitInit /\ BlockInit /\ WalkInit /\ RasterInit /\ CombInit
  /\ BlendInit /\ TmemInit
  /\ GpuInit /\ (focus # "gpu" => <<q.local, q.up, rescalesLeft>> = Some(GpuConfigs))

GfxNext ==
  /\ UNCHANGED focus
  /\ Others(focus)
  /\ \/ focus = "vector" /\ VectorNext
     \/ focus = "vecmem" /\ VecMemNext
     \/ focus = "jit" /\ JitNext
     \/ focus = "block" /\ BlockNext
     \/ focus = "walk" /\ WalkNext
     \/ focus = "raster" /\ RasterNext
     \/ focus = "comb" /\ CombNext
     \/ focus = "blend" /\ BlendNext
     \/ focus = "tmem" /\ TmemNext
     \/ focus = "gpu" /\ GpuNext

Spec == GfxInit /\ [][GfxNext]_<<vuVars, vmVars, jitVars, blockVars, walkVars, rasterVars,
                                combVars, blendVars, tmemVars, gpuVars, focus>>

-----------------------------------------------------------------------------
\* The vector unit computes what the scalar reading of its manual computes, lane by lane, and moves
\* the same bytes, in the SSE code and in the translated one (vmac's limbs, vecFast's spans).
VectorExact ==
  /\ focus = "vector" => VectorIsScalar
  /\ focus = "vecmem" => SpansAreBytes

\* A translated block runs the instructions that are in IMEM, counts their clock as the interpreter
\* does and leaves the accumulator it would leave, through DMA, COP0 reads and every exit.
TranslatorExact ==
  /\ focus = "jit" => RunsWhatIsThere /\ RspClockExact
  /\ focus = "block" => AccumulatorKept

\* A pixel is what the RDP's stages say: spans that share an edge neither leave a gap nor overlap,
\* attributes stay on their plane, the plan of the combiner is its words, the blender reads memory
\* when it mixes with it, a surface is not hidden by itself, and texels are those that were loaded.
PixelsExact ==
  /\ focus = "raster" => NoSeams /\ AttributesOnPlane
  /\ focus = "comb" => PlanIsDecode
  /\ focus = "blend" => ReadWhenUsed /\ SurfaceMeetsItself
  /\ focus = "tmem" => TexelsComeBack

\* With a GPU that paints in batches the picture is the one of the display list in its order, and the
\* picture at high resolution follows it without losing detail.
PaintedInOrder ==
  /\ focus = "walk" => QueueInOrder
  /\ focus = "gpu" => BatchIsInOrder /\ HiFollows /\ DetailKept
=============================================================================
