---------------------------- MODULE RdpCombiner ----------------------------
(***************************************************************************)
(* The colour combiner: out = (A - B) * C + D, twice in two-cycle mode.    *)
(* combineColor runs a plan, built once for a combine word and a cycle     *)
(* type, that names a row of sources for each of the eight ports and fills *)
(* only the rows that it needs; combineColorSlow decodes every port for    *)
(* every pixel and is the reference.  COMBINED is a register: it carries   *)
(* the result of a pixel to the next.                                      *)
(*                                                                         *)
(* The three colour lanes run the same equation: one stands for them.      *)
(***************************************************************************)
EXTENDS Integers, Sequences, FiniteSets

CONSTANTS CombWords,    \* values of SET_COMBINE: <<cycle 0, cycle 1>>, eight selectors each
          LaterWords,   \* those a later SET_COMBINE may bring
          TexelPairs,   \* <<TEXEL0, TEXEL1>>, each <<colour, alpha>>
          CombSteps     \* bound: commands and pixels

VARIABLES combine, cycleTwo,   \* SET_COMBINE and the cycle type
          combPlan,            \* the cached plan
          combinedReg,         \* combined[]: <<colour, alpha>>
          combinedSlow,        \* the same, had every pixel gone through combineColorSlow
          pixelOut,            \* <<what combineColor returned, what the reference returns>>
          combSteps

combVars == <<combine, cycleTwo, combPlan, combinedReg, combinedSlow, pixelOut, combSteps>>

(***************************************************************************)
(* Sources.  The constant ones get values that tell them apart.            *)
(***************************************************************************)
PrimC == <<64, 255>>
ShadeC == <<200, 16>>
EnvC == <<255, 128>>
KeyCenter == 40
KeyScale == 96
K4 == 300         \* k4 & 0x1ff
K5 == -20
LodFrac == 256    \* 0xff shows as 0x100
PrimLod == 31
Noise == 77       \* any value: the plan is never used with it

\* what a row that was not filled holds: whatever was on the stack
Garbage == <<9999, 9999>>

\* row -> <<colour, alpha>> for a pixel
RowValue(r, cin, tex) ==
  CASE r = "CIN" -> cin                       [] r = "CINA" -> <<cin[2], cin[2]>>
    [] r = "TEX0" -> tex[1]                   [] r = "TEX0A" -> <<tex[1][2], tex[1][2]>>
    [] r = "TEX1" -> tex[2]                   [] r = "TEX1A" -> <<tex[2][2], tex[2][2]>>
    [] r = "PRIM" -> PrimC                     [] r = "PRIMA" -> <<PrimC[2], PrimC[2]>>
    [] r = "SHADE" -> ShadeC                   [] r = "SHADEA" -> <<ShadeC[2], ShadeC[2]>>
    [] r = "ENV" -> EnvC                       [] r = "ENVA" -> <<EnvC[2], EnvC[2]>>
    [] r = "ONE" -> <<256, 256>>              [] r = "ZERO" -> <<0, 0>>
    [] r = "LOD" -> <<LodFrac, LodFrac>>      [] r = "PLOD" -> <<PrimLod, PrimLod>>
    [] r = "K4" -> <<K4, K4>>                 [] r = "K5" -> <<K5, K5>>
    [] r = "KEYC" -> <<KeyCenter, 0>>         [] r = "KEYS" -> <<KeyScale, 0>>
    [] r = "NOISE" -> <<Noise, Noise>>

Sel(table, i) == IF i < Len(table) THEN table[i + 1] ELSE "ZERO"

Colours == <<"CIN", "TEX0", "TEX1", "PRIM", "SHADE", "ENV">>
Alphas == <<"CINA", "TEX0A", "TEX1A", "PRIMA", "SHADEA", "ENVA">>

\* the ports, in the order of CombSet: aR bR cR dR aA bA cA dA
PortTable == <<Colours \o <<"ONE", "NOISE">>,
               Colours \o <<"KEYC", "K4">>,
               Colours \o <<"KEYS">> \o Alphas \o <<"LOD", "PLOD", "K5">>,
               Colours \o <<"ONE">>,
               Alphas \o <<"ONE">>,
               Alphas \o <<"ONE">>,
               <<"LOD", "TEX0A", "TEX1A", "PRIMA", "SHADEA", "ENVA", "PLOD">>,
               Alphas \o <<"ONE">>>>

-----------------------------------------------------------------------------
(***************************************************************************)
(* The equation, in nine bits.                                             *)
(***************************************************************************)
sexp(v) == LET x == (v - 128) % 512 IN (IF x >= 256 THEN x - 512 ELSE x) + 128
clampN(v) == LET x == sexp(v) IN IF x < 0 THEN 0 ELSE IF x > 255 THEN 255 ELSE x
eq(a, b, c, d) == (((sexp(a) - sexp(b)) * c + 128) \div 256) + sexp(d)

Clamped(p) == <<clampN(p[1]), clampN(p[2])>>
\* the latched alpha is expanded: 0xff becomes 0x100
Latched(p) == <<p[1], p[2] + (p[2] + 1) \div 256>>

(***************************************************************************)
(* The reference.                                                          *)
(***************************************************************************)
oneCycle(cs, cin, tex) ==
  LET S(k, lane) == RowValue(Sel(PortTable[k], cs[k]), cin, tex)[lane]
  IN  <<eq(S(1, 1), S(2, 1), S(3, 1), S(4, 1)), eq(S(5, 2), S(6, 2), S(7, 2), S(8, 2))>>

combineColorSlow(cin, tex) ==
  IF cycleTwo
  THEN oneCycle(combine[2], oneCycle(combine[1], cin, tex), <<tex[2], tex[1]>>)
  ELSE oneCycle(combine[2], cin, tex)

(***************************************************************************)
(* The plan.                                                               *)
(***************************************************************************)
Crossed(r) == CASE r = "TEX0" -> "TEX1" [] r = "TEX1" -> "TEX0"
                [] r = "TEX0A" -> "TEX1A" [] r = "TEX1A" -> "TEX0A" [] OTHER -> r

PlanRow(c, k) == LET r == Sel(PortTable[k], combine[c][k])
                 IN  IF cycleTwo /\ c = 2 THEN Crossed(r) ELSE r

Runs == IF cycleTwo THEN {1, 2} ELSE {2}

buildCombPlan ==
  LET sel == [c \in 1..2 |-> [k \in 1..8 |-> PlanRow(c, k)]]
      used == {sel[c][k] : c \in Runs, k \in 1..8}
  IN  [sel |-> sel, two |-> cycleTwo, fast |-> "NOISE" \notin used,
       need |-> used \ {"NOISE"}, key |-> combine, keyTwo |-> cycleTwo]

PlanValid == combPlan.key = combine /\ combPlan.keyTwo = cycleTwo

runCycle(p, c, rows) ==
  LET S(k, lane) == rows[p.sel[c][k]][lane]
  IN  <<eq(S(1, 1), S(2, 1), S(3, 1), S(4, 1)), eq(S(5, 2), S(6, 2), S(7, 2), S(8, 2))>>

RowNames == {"CIN", "TEX0", "TEX1", "PRIM", "SHADE", "ENV", "CINA", "TEX0A", "TEX1A", "PRIMA",
             "SHADEA", "ENVA", "ONE", "ZERO", "LOD", "PLOD", "K4", "K5", "KEYC", "KEYS", "NOISE"}

combineColor(p, cin, tex) ==
  LET rows == [r \in RowNames |-> IF r \in p.need THEN RowValue(r, cin, tex) ELSE Garbage]
      mid == runCycle(p, 1, rows)
      \* COMBINED of the second cycle is the raw result of the first
      rows2 == [r \in RowNames |-> IF r \in p.need \cap {"CIN", "CINA"} THEN RowValue(r, mid, tex) ELSE rows[r]]
  IN  IF ~p.fast THEN combineColorSlow(cin, tex)
      ELSE runCycle(p, 2, IF p.two THEN rows2 ELSE rows)

-----------------------------------------------------------------------------
CombInit ==
  /\ combine \in CombWords /\ cycleTwo \in BOOLEAN
  /\ combPlan = [sel |-> <<>>, two |-> FALSE, fast |-> FALSE, need |-> {}, key |-> <<>>, keyTwo |-> FALSE]
  /\ combinedReg = <<0, 0>> /\ combinedSlow = <<0, 0>>
  /\ pixelOut = <<<<0, 0>>, <<0, 0>>>> /\ combSteps = 0

SET_COMBINE(w) ==
  /\ combine' = w
  /\ UNCHANGED <<cycleTwo, combPlan, combinedReg, combinedSlow, pixelOut>>

SET_CYCLE ==
  /\ cycleTwo' = ~cycleTwo
  /\ UNCHANGED <<combine, combPlan, combinedReg, combinedSlow, pixelOut>>

CombPixel(tex) ==
  LET p == IF PlanValid THEN combPlan ELSE buildCombPlan
      fast == Clamped(combineColor(p, combinedReg, tex))
      slow == Clamped(combineColorSlow(combinedSlow, tex))
  IN  /\ combPlan' = p
      /\ combinedReg' = Latched(fast) /\ combinedSlow' = Latched(slow)
      /\ pixelOut' = <<fast, slow>>
      /\ UNCHANGED <<combine, cycleTwo>>

CombNext ==
  /\ combSteps < CombSteps /\ combSteps' = combSteps + 1
  /\ (\E w \in LaterWords : w # combine /\ SET_COMBINE(w)) \/ SET_CYCLE \/ \E tex \in TexelPairs : CombPixel(tex)

(***************************************************************************)
(* The plan computes what decoding every port for every pixel computes,    *)
(* through any changes of word and cycle type, overflow folds included,    *)
(* and leaves the same COMBINED for the next pixel.                        *)
(***************************************************************************)
PlanIsDecode == pixelOut[1] = pixelOut[2] /\ combinedReg = combinedSlow
=============================================================================
