----------------------------- MODULE RdpBlender -----------------------------
(***************************************************************************)
(* The end of the pixel pipeline (blendPixel, blendColor): coverage and    *)
(* alpha, the depth stage, the blender and the write.  A pixel of the      *)
(* framebuffer is read only when the plan of the mode word says something  *)
(* will look at it.  One colour lane stands for the three.                 *)
(***************************************************************************)
EXTENDS Integers, Sequences, FiniteSets

CONSTANTS BlendModes,   \* values of SET_OTHER_MODES (see BlendMode)
          Sources,      \* <<colour, alpha>> out of the combiner
          Coverages,       \* coverage of the pixel, 1..8
          Depths,       \* <<z, log2 of delta z>> of the pixel
          FbPixels,     \* <<colour, coverage>> found in the framebuffer
          BlendSteps    \* bound: pixels drawn on the one spot

VARIABLES bmode, fb,    \* mode word; the spot: <<colour, coverage 0..7>>
          fbAll,        \* the same, had the framebuffer been read for every pixel
          zword,        \* the depth word: [z |-> compressed z, dz |-> 0..15]
          lastZ,        \* <<z, dz>> of the pixel that wrote it, <<>> when it was cleared
          verdict,      \* how the last pixel fared: [was, pass, z, dz, over]
          blendSteps

blendVars == <<bmode, fb, fbAll, zword, lastZ, verdict, blendSteps>>

BlendColor == <<90, 0>>
Fog == <<30, 48>>
ShadeAlpha == 160

Least2(a, b) == IF a < b THEN a ELSE b
Most2(a, b) == IF a < b THEN b ELSE a
Clamp(v, lo, hi) == Most2(lo, Least2(v, hi))

-----------------------------------------------------------------------------
(***************************************************************************)
(* Depth words: 18 bits in an exponent of 3 and a mantissa of 11.          *)
(***************************************************************************)
zBase == <<0, 131072, 196608, 229376, 245760, 253952, 258048, 260096>>
zShift == <<6, 5, 4, 3, 2, 1, 0, 0>>

Exponent(z) == CHOOSE e \in 0..7 : /\ z >= zBase[e + 1]
                                   /\ \A f \in (e + 1)..7 : z < zBase[f + 1]

zEncode(z) == LET c == Least2(z, 262143)  e == Exponent(c)
              IN  <<e, ((c - zBase[e + 1]) \div 2 ^ zShift[e + 1]) % 2048>>

zDecode2(w) == w[2] * 2 ^ zShift[w[1] + 1] + zBase[w[1] + 1]

FarWord == [z |-> <<7, 2047>>, dz |-> 15]

-----------------------------------------------------------------------------
(***************************************************************************)
(* The plan.                                                               *)
(***************************************************************************)
usesMem(bm) == bm.m = 1 \/ bm.b = 1 \/ (bm.two /\ (bm.p0 = 1 \/ bm.m0 = 1 \/ bm.b0 = 1))

needMem(bm) == usesMem(bm) \/ bm.colorOnCvg \/ bm.aaEn \/ bm.cvgDst # 2 \/ bm.zCmp

-----------------------------------------------------------------------------
(***************************************************************************)
(* The blender.  The divider is blender_lut, a measured table: where the   *)
(* weights add up to no more than one it divides.  Elsewhere its entries   *)
(* follow no rule, and a colour above 255 stands for the entry at one      *)
(* index: two indices are two colours.                                     *)
(***************************************************************************)
blendDivide(sum, n) == IF sum <= 8 /\ n < 256 * sum THEN n \div sum ELSE 256 + 2048 * sum + n

Mux(sel, src, mem) == CASE sel = 0 -> src[1] [] sel = 1 -> mem[1] [] sel = 2 -> BlendColor[1] [] sel = 3 -> Fog[1]
MuxA(sel, src) == CASE sel = 0 -> src[2] [] sel = 1 -> Fog[2] [] sel = 2 -> ShadeAlpha [] sel = 3 -> 0
MuxB(sel, a, mem) == CASE sel = 0 -> 255 - a [] sel = 1 -> mem[2] * 32 [] sel = 2 -> 255 [] sel = 3 -> 0

\* five-bit weights; a memory alpha goes through the shifters of the depth stage
Weights(asel, bsel, src, mem, shA, shB) ==
  LET a == MuxA(asel, src)
      a5 == a \div 8
      b5 == MuxB(bsel, a, mem) \div 8
  IN  IF bsel # 1 THEN <<a5, b5>>
      ELSE <<((a5 \div 2 ^ shA) \div 4) * 4, LET s == b5 \div 2 ^ shB IN (s \div 4) * 4 + 3>>

FirstCycle(bm, src, mem, shA, shB) ==
  LET w == Weights(bm.a0, bm.b0, src, mem, shA, shB)
  IN  IF ~bm.two THEN src
      ELSE <<((Mux(bm.p0, src, mem) * w[1] + Mux(bm.m0, src, mem) * (w[2] + 1)) \div 32) % 256, src[2]>>

blendColor(bm, src0, mem, blendEn, wrap, shA, shB) ==
  LET src == FirstCycle(bm, src0, mem, shA, shB)
      paint == Mux(bm.p, src, mem)
      keep == Mux(bm.m, src, mem)
      w == Weights(bm.a, bm.b, src, mem, shA, shB)
      n == paint * w[1] + keep * (w[2] + 1)
  IN  IF bm.colorOnCvg /\ ~wrap THEN keep
      ELSE IF ~blendEn \/ (bm.a = 0 /\ bm.b = 0 /\ src[2] = 255) THEN paint
      ELSE IF bm.force THEN (n \div 32) % 256
      ELSE blendDivide((w[1] \div 4) + (w[2] \div 4) + 1, (n \div 4) % 2048)

-----------------------------------------------------------------------------
(***************************************************************************)
(* The depth stage.                                                        *)
(***************************************************************************)
TopBit(n) == CHOOSE p \in {2 ^ i : i \in 0..16} : p <= n /\ n < 2 * p
BitOr16(a, b) == Most2(a, b)    \* only the top bit of the two is used

\* the slope in memory, widened where the stored depth is coarse
MemDz(w) ==
  LET prec == w.z[1]
  IN  IF prec >= 3 THEN [dz |-> 2 ^ w.dz, coplanar |-> FALSE]
      ELSE IF w.dz = 15 THEN [dz |-> 65535, coplanar |-> TRUE]
      ELSE [dz |-> Most2(2 ^ (w.dz + 1), 16 \div 2 ^ prec), coplanar |-> FALSE]

\* [pass, cvg, blendEn, shA, shB] of a pixel
DepthStage(bm, d, cvg, over) ==
  LET memZ == zDecode2(zword.z)
      md == MemDz(zword)
      cdzI == TopBit(BitOr16(2 ^ d[2], md.dz))
      cdz == cdzI * 8
      z == Clamp(d[1], 0, 262143)
      farther == md.coplanar \/ z + cdz >= memZ
      nearer == md.coplanar \/ z - cdz <= memZ
      maxZ == memZ = 262143
      front == z < memZ
      opaque == maxZ \/ (IF over THEN front ELSE nearer)
      crossing == bm.zmode = 1 /\ front /\ farther /\ over
      scale == cdzI % 65536
      coeff == ((memZ \div scale) - (z \div scale)) % 16
  IN  IF ~bm.zCmp
      THEN [pass |-> TRUE, cvg |-> cvg, blendEn |-> bm.force \/ (~over /\ bm.aaEn),
            shA |-> 0, shB |-> Least2(15 - d[2], 4)]
      ELSE [pass |-> CASE bm.zmode = 0 -> opaque
                       [] bm.zmode = 1 -> crossing \/ opaque
                       [] bm.zmode = 2 -> front \/ maxZ
                       [] bm.zmode = 3 -> farther /\ nearer /\ ~maxZ,
            cvg |-> IF crossing THEN Least2((coeff * cvg) \div 8, 8) ELSE cvg,
            blendEn |-> bm.force \/ (~over /\ bm.aaEn /\ farther),
            shA |-> Clamp(d[2] - zword.dz, 0, 4), shB |-> Clamp(zword.dz - d[2], 0, 4)]

-----------------------------------------------------------------------------
(***************************************************************************)
(* A pixel.  The dither of alpha and colour is off.                        *)
(***************************************************************************)
\* CVG_TIMES_ALPHA and ALPHA_CVG_SELECT: <<alpha, coverage>>
CoverAlpha(bm, alpha, cvg) ==
  LET expanded == alpha + (alpha + 1) \div 256
      mod == IF bm.cvgXAlpha THEN (expanded * cvg + 4) \div 8 ELSE cvg * 32
      left == IF bm.cvgXAlpha THEN mod \div 32 ELSE cvg
  IN  <<Least2(IF bm.alphaCvgSel THEN mod ELSE expanded, 255), left>>

NewCover(bm, cvg, mem, blendEn) ==
  CASE bm.cvgDst = 0 -> IF blendEn THEN Least2(7, mem + cvg) ELSE (cvg - 1) % 8
    [] bm.cvgDst = 1 -> (cvg + mem) % 8
    [] bm.cvgDst = 2 -> 7
    [] bm.cvgDst = 3 -> mem

\* what the spot holds after a pixel, given what was read of it; a framebuffer that
\* is not read shows a full pixel
Written(bm, src, cvg0, d, spot, read) ==
  LET mem == IF read THEN spot ELSE <<0, 7>>
      memColour == IF read THEN spot ELSE <<0, 0>>
      ca == CoverAlpha(bm, src[2], cvg0)
      over == ca[2] + mem[2] >= 8
      ds == DepthStage(bm, d, ca[2], over)
      straight == usesMem(bm) /\ ~bm.imRd
      dead == (bm.aaEn /\ ca[2] = 0)
              \/ (~straight /\ bm.zCmp /\ (~ds.pass \/ (bm.aaEn /\ ds.cvg = 0)))
              \/ (straight /\ bm.zCmp /\ d[1] >= zDecode2(zword.z))
      plainEn == bm.force \/ (ca[2] + 7 < 8 /\ bm.aaEn)
  IN  [dead |-> dead,
       spot |-> IF dead THEN spot
                ELSE IF straight
                THEN <<src[1], IF bm.cvgDst = 0 /\ plainEn THEN 7 ELSE NewCover(bm, ca[2], 7, FALSE)>>
                ELSE <<blendColor(bm, <<src[1], ca[1]>>, memColour, ds.blendEn, over, ds.shA, ds.shB),
                       NewCover(bm, ds.cvg, mem[2], ds.blendEn)>>,
       over |-> over, straight |-> straight]

BlendInit ==
  /\ bmode \in BlendModes /\ fb \in FbPixels /\ fbAll = fb
  /\ zword = FarWord /\ lastZ = <<>> /\ blendSteps = 0
  /\ verdict = [was |-> <<>>, pass |-> TRUE, z |-> 0, dz |-> 0, over |-> TRUE, straight |-> FALSE]

blendPixel(src, cvg, d) ==
  LET got == Written(bmode, src, cvg, d, fb, bmode.imRd /\ needMem(bmode))
      all == Written(bmode, src, cvg, d, fbAll, bmode.imRd)
  IN  /\ fb' = got.spot /\ fbAll' = all.spot
      /\ IF bmode.zUpd /\ ~got.dead
         THEN /\ zword' = [z |-> zEncode(d[1]), dz |-> IF got.straight THEN zword.dz % 4 ELSE d[2]]
              /\ lastZ' = IF got.straight THEN <<>> ELSE d
         ELSE UNCHANGED <<zword, lastZ>>
      /\ verdict' = [was |-> lastZ, pass |-> ~got.dead, z |-> d[1], dz |-> d[2],
                     over |-> got.over, straight |-> got.straight]

BlendNext ==
  /\ blendSteps < BlendSteps /\ blendSteps' = blendSteps + 1
  /\ \E src \in Sources, cvg \in Coverages, d \in (IF bmode.zUpd THEN Depths ELSE {<<0, 12>>}) :
       blendPixel(src, cvg, d)
  /\ UNCHANGED bmode

(***************************************************************************)
(* Not reading the framebuffer is only a saving: the spot holds what it    *)
(* would hold had every pixel read it.  The exception is P = MEM in the    *)
(* last cycle, which usesMem does not ask for (buildBlendPlan).            *)
(***************************************************************************)
Overlooked(bm) == bm.p = 1 /\ ~needMem(bm)

ReadWhenUsed == Overlooked(bmode) \/ fb = fbAll

(***************************************************************************)
(* A surface meets itself: a pixel drawn at the depth of the one that      *)
(* wrote the spot passes as opaque (sharing the edge) and as a decal,      *)
(* whatever the compression of the stored depth lost; one that is farther  *)
(* than the last by more than both slopes and that loss passes as nothing. *)
(***************************************************************************)
SurfaceMeetsItself ==
  LET v == verdict
      slack == 2 ^ zShift[Exponent(v.was[1]) + 1]
      wide == 16 * Most2(2 ^ (v.was[2] + 1), Most2(2 ^ v.dz, 16))
  IN  v.was # <<>> /\ bmode.zCmp /\ ~v.straight /\ v.was[2] < 15 =>
        /\ (v.z = v.was[1] /\ v.dz = v.was[2] /\ v.z < 262143 /\ ~bmode.cvgXAlpha)
             => ((bmode.zmode = 0 /\ ~v.over) \/ bmode.zmode = 3 => v.pass)
        /\ v.z > v.was[1] + slack + wide => ~v.pass
=============================================================================
