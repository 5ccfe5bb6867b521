----------------------------- MODULE RspVector -----------------------------
(***************************************************************************)
(* The arithmetic of the RSP's vector unit, written three times in the     *)
(* program: the scalar reference (execCop2Scalar, execCop2Div), the SSE    *)
(* bodies (vuOpT) that keep the 48-bit accumulator as three 16-bit limbs,  *)
(* and the code the dynarec emits in line (emitVu).  Each runs on its own  *)
(* copy of one lane.  The limb has W bits instead of 16, the accumulator   *)
(* 3 W; every constant of the code (0x8000, 0x7fff, -32768...) is written  *)
(* as the power of two it is.                                              *)
(***************************************************************************)
EXTENDS Integers, Sequences, FiniteSetsExt

CONSTANTS W,          \* bits of a limb (16 in the program)
          IndexBits,  \* bits of the index into the reciprocal ROM (9)
          Factors,    \* first operands of the products
          VuOps       \* instructions a behaviour runs on one lane

ASSUME VectorAssumption ==
  /\ W \in 2 .. 4 /\ IndexBits \in 1 .. W /\ VuOps \in Nat
  /\ Factors \subseteq 0 .. (2^W - 1)

VARIABLES lane,    \* the lane as each implementation has left it
          family,  \* the family of instructions this behaviour draws from
          vuLeft   \* instructions left to run

vuVars == <<lane, family, vuLeft>>

Word == 0 .. (2^W - 1)
Half == 2^(W - 1)
MaxS == Half - 1
Wrap(x) == x % 2^W
S16(x) == IF x >= Half THEN x - 2^W ELSE x
S32(x) == LET y == x % 2^(2 * W) IN IF y >= 2^(2 * W - 1) THEN y - 2^(2 * W) ELSE y
Top(x) == x >= Half
Not(x) == 2^W - 1 - x
Bit(x, k) == (x \div 2^k) % 2
sclamp16(x) == IF x > MaxS THEN MaxS ELSE IF x < -Half THEN Half ELSE Wrap(x)
Bitwise(F(_, _), a, b) ==
  MapThenSumSet(LAMBDA k : F(Bit(a, k), Bit(b, k)) * 2^k, 0 .. (W - 1))

-----------------------------------------------------------------------------
(***************************************************************************)
(* The scalar reference.                                                   *)
(***************************************************************************)
Acc(v) == LET u == (v.h * 2^W + v.m) * 2^W + v.l
          IN IF Top(v.h) THEN u - 2^(3 * W) ELSE u

accSet(v, x) == LET u == x % 2^(3 * W)
                IN [v EXCEPT !.h = u \div 2^(2 * W), !.m = Wrap(u \div 2^W), !.l = Wrap(u)]

\* The slice, unless the upper limbs do not fit in it.
accSat(v, slice, neg, pos) ==
  CASE Top(v.h) /\ (v.h # Not(0) \/ ~Top(v.m)) -> neg
    [] ~Top(v.h) /\ (v.h # 0 \/ Top(v.m)) -> pos
    [] OTHER -> IF slice = 1 THEN v.m ELSE v.l

satS(v) == accSat(v, 1, Half, MaxS)
satU(v) == accSat(v, 0, 0, Not(0))
MulU(v) == CASE Top(v.h) -> 0 [] ~Top(v.h) /\ Top(v.m) -> Not(0) [] OTHER -> v.m
MacU(v) == CASE Top(v.h) -> 0 [] ~Top(v.h) /\ (v.h # 0 \/ Top(v.m)) -> Not(0) [] OTHER -> v.m

\* The destination takes f of the accumulator just written.
Into(v, f(_)) == [v EXCEPT !.d = f(v)]

scalarMac(fn, v, s, t) ==
  LET ss == S16(s) * S16(t)
      su == S16(s) * t
      us == s * S16(t)
      uu == (s * t) \div 2^W
  IN CASE fn = "VMULF" -> Into(accSet(v, 2 * ss + Half), satS)
       [] fn = "VMULU" -> Into(accSet(v, 2 * ss + Half), MulU)
       [] fn = "VMACF" -> Into(accSet(v, Acc(v) + 2 * ss), satS)
       [] fn = "VMACU" -> Into(accSet(v, Acc(v) + 2 * ss), MacU)
       [] fn = "VMUDL" -> Into(accSet(v, uu), LAMBDA a : a.l)
       [] fn = "VMUDM" -> Into(accSet(v, su), LAMBDA a : a.m)
       [] fn = "VMUDN" -> Into(accSet(v, us), LAMBDA a : a.l)
       [] fn = "VMUDH" -> Into(accSet(v, ss * 2^W), satS)
       [] fn = "VMADL" -> Into(accSet(v, Acc(v) + uu), satU)
       [] fn = "VMADM" -> Into(accSet(v, Acc(v) + su), satS)
       [] fn = "VMADN" -> Into(accSet(v, Acc(v) + us), satU)
       [] fn = "VMADH" -> LET r == (Acc(v) \div 2^W + ss) % 2^(2 * W)
                          IN Into([v EXCEPT !.h = r \div 2^W, !.m = Wrap(r)], satS)

\* accl and the destination take x.
Low(v, x) == [v EXCEPT !.l = x, !.d = x]

\* VLT, VEQ, VNE, VGE: the comparison goes to VCC.low, the rest is cleared.
Compare(v, c, s, t) ==
  [Low(v, IF c THEN s ELSE t) EXCEPT !.ccl = c, !.cch = FALSE, !.col = FALSE, !.coh = FALSE]

scalarVcl(v, s, t) ==
  LET sum == Wrap(s + t)
      carry == s + t # sum
      ccl == IF v.ce THEN sum = 0 \/ ~carry ELSE sum = 0 /\ ~carry
      cch == s - t >= 0
      n == CASE v.col /\ v.coh -> Low(v, IF v.ccl THEN Wrap(-t) ELSE s)
             [] v.col /\ ~v.coh -> [Low(v, IF ccl THEN Wrap(-t) ELSE s) EXCEPT !.ccl = ccl]
             [] ~v.col /\ v.coh -> Low(v, IF v.cch THEN t ELSE s)
             [] OTHER -> [Low(v, IF cch THEN t ELSE s) EXCEPT !.cch = cch]
  IN [n EXCEPT !.col = FALSE, !.coh = FALSE, !.ce = FALSE]

scalarVch(v, s, t) ==
  IF Top(s) # Top(t)
  THEN LET r == S16(Wrap(s + t))
       IN [Low(v, IF r <= 0 THEN Wrap(-t) ELSE s) EXCEPT
             !.ccl = r <= 0, !.cch = Top(t), !.col = TRUE,
             !.coh = r # 0 /\ s # Not(t), !.ce = r = -1]
  ELSE LET r == S16(Wrap(s - t))
       IN [Low(v, IF r >= 0 THEN t ELSE s) EXCEPT
             !.ccl = Top(t), !.cch = r >= 0, !.col = FALSE,
             !.coh = r # 0 /\ s # Not(t), !.ce = FALSE]

scalarVcr(v, s, t) ==
  LET n == IF Top(s) # Top(t)
           THEN LET c == S16(s) + S16(t) + 1 <= 0
                IN [Low(v, IF c THEN Not(t) ELSE s) EXCEPT !.cch = Top(t), !.ccl = c]
           ELSE LET c == S16(s) - S16(t) >= 0
                IN [Low(v, IF c THEN t ELSE s) EXCEPT !.ccl = Top(t), !.cch = c]
  IN [n EXCEPT !.col = FALSE, !.coh = FALSE, !.ce = FALSE]

\* The opcodes 0x28 .. 0x2d in their order.
Opcodes28 == <<"VAND", "VNAND", "VOR", "VNOR", "VXOR", "VNXOR">>
Logicals == {Opcodes28[k] : k \in 1 .. 6}

Col(v) == IF v.col THEN 1 ELSE 0

scalarAlu(fn, v, s, t) ==
  LET a == S16(s)
      b == S16(t)
  IN CASE fn = "VADD" -> [v EXCEPT !.l = Wrap(a + b + Col(v)), !.d = sclamp16(a + b + Col(v)),
                                   !.col = FALSE, !.coh = FALSE]
       [] fn = "VSUB" -> [v EXCEPT !.l = Wrap(a - b - Col(v)), !.d = sclamp16(a - b - Col(v)),
                                   !.col = FALSE, !.coh = FALSE]
       [] fn = "VABS" -> CASE a < 0 -> [v EXCEPT !.l = Wrap(-b), !.d = IF b = -Half THEN MaxS ELSE Wrap(-b)]
                           [] a > 0 -> Low(v, t)
                           [] OTHER -> Low(v, 0)
       [] fn = "VADDC" -> [Low(v, Wrap(s + t)) EXCEPT !.col = s + t >= 2^W, !.coh = FALSE]
       [] fn = "VSUBC" -> [Low(v, Wrap(s - t)) EXCEPT !.col = s - t < 0, !.coh = s - t # 0]
       [] fn = "VLT" -> Compare(v, a < b \/ (a = b /\ v.col /\ v.coh), s, t)
       [] fn = "VEQ" -> Compare(v, ~v.coh /\ s = t, s, t)
       [] fn = "VNE" -> Compare(v, s # t \/ v.coh, s, t)
       [] fn = "VGE" -> Compare(v, a > b \/ (a = b /\ (~v.col \/ ~v.coh)), s, t)
       [] fn = "VCL" -> scalarVcl(v, s, t)
       [] fn = "VCH" -> scalarVch(v, s, t)
       [] fn = "VCR" -> scalarVcr(v, s, t)
       [] fn = "VMRG" -> [Low(v, IF v.ccl THEN s ELSE t) EXCEPT !.coh = FALSE, !.col = FALSE]
       [] fn = "VAND" -> Low(v, Bitwise(LAMBDA p, q : p * q, s, t))
       [] fn = "VNAND" -> Low(v, Bitwise(LAMBDA p, q : 1 - p * q, s, t))
       [] fn = "VOR" -> Low(v, Bitwise(LAMBDA p, q : p + q - p * q, s, t))
       [] fn = "VNOR" -> Low(v, Bitwise(LAMBDA p, q : 1 - (p + q - p * q), s, t))
       [] fn = "VXOR" -> Low(v, Bitwise(LAMBDA p, q : (p + q) % 2, s, t))
       [] fn = "VNXOR" -> Low(v, Bitwise(LAMBDA p, q : (1 + p + q) % 2, s, t))

-----------------------------------------------------------------------------
(***************************************************************************)
(* The SSE bodies: limbs, carries by the adder's formula, masks.           *)
(***************************************************************************)
vcarry16(a, b, s) == IF (Top(a) /\ Top(b)) \/ ((Top(a) \/ Top(b)) /\ ~Top(s)) THEN 1 ELSE 0

\* Mutant: the carry that the +1 from below makes is lost.
vadd48OneCarry(a, b) ==
  LET l == Wrap(a.l + b.l)
      t == Wrap(a.m + b.m)
      m == Wrap(t + vcarry16(a.l, b.l, l))
  IN [h |-> Wrap(a.h + b.h + vcarry16(a.m, b.m, t)), m |-> m, l |-> l]

vadd48(a, b) ==
  LET l == Wrap(a.l + b.l)
      c == vcarry16(a.l, b.l, l)
      t == Wrap(a.m + b.m)
      c1 == vcarry16(a.m, b.m, t)
      m == Wrap(t + c)
      c2 == vcarry16(t, c, m)
  IN [h |-> Wrap(a.h + b.h + (IF c1 + c2 > 0 THEN 1 ELSE 0)), m |-> m, l |-> l]

SignLimb(x) == IF Top(x) THEN Not(0) ELSE 0
mullo(s, t) == Wrap(s * t)
mulhiS(s, t) == Wrap((S16(s) * S16(t)) \div 2^W)
mulhiU(s, t) == (s * t) \div 2^W

vprodSS(s, t) == [h |-> SignLimb(mulhiS(s, t)), m |-> mulhiS(s, t), l |-> mullo(s, t)]

\* signed x unsigned from the unsigned high product.
vprodSU(s, t) ==
  LET hi == Wrap(mulhiU(s, t) - (IF Top(s) THEN t ELSE 0))
  IN [h |-> SignLimb(hi), m |-> hi, l |-> mullo(s, t)]

vprodUS(s, t) == vprodSU(t, s)

\* packs: the signed saturation of the pair (h:m).
HighPair(v) == S32(v.h * 2^W + v.m)
vsatSigned(v) == sclamp16(HighPair(v))
vsatUnsignedN(v) ==
  CASE HighPair(v) < -Half -> 0 [] HighPair(v) > MaxS -> Not(0) [] OTHER -> v.l
vsatMulU(v) == CASE Top(v.h) -> 0 [] Top(v.h) # Top(v.m) -> Not(0) [] OTHER -> v.m
vsatMacU(v) == CASE Top(v.h) -> 0 [] v.h # 0 \/ Top(v.m) -> Not(0) [] OTHER -> v.m

Limbs(v) == [h |-> v.h, m |-> v.m, l |-> v.l]
Put(v, a) == [v EXCEPT !.h = a.h, !.m = a.m, !.l = a.l]
Rounding == [h |-> 0, m |-> 0, l |-> Half]
LowOnly(x) == [h |-> 0, m |-> 0, l |-> x]

vuMac(fn, v, s, t) ==
  LET p == vprodSS(s, t)
      mulf == Put(v, vadd48(vadd48(p, p), Rounding))
      macf == Put(v, vadd48(Limbs(v), vadd48(p, p)))
      hi == [h |-> mulhiS(s, t), m |-> mullo(s, t), l |-> 0]
      nm == Wrap(v.m + hi.m)
      madh == [v EXCEPT !.m = nm, !.h = Wrap(v.h + hi.h + vcarry16(v.m, hi.m, nm))]
  IN CASE fn = "VMULF" -> Into(mulf, vsatSigned)
       [] fn = "VMULU" -> Into(mulf, vsatMulU)
       [] fn = "VMACF" -> Into(macf, vsatSigned)
       [] fn = "VMACU" -> Into(macf, vsatMacU)
       [] fn = "VMUDL" -> Into(Put(v, LowOnly(mulhiU(s, t))), LAMBDA a : a.l)
       [] fn = "VMUDM" -> Into(Put(v, vprodSU(s, t)), LAMBDA a : a.m)
       [] fn = "VMUDN" -> Into(Put(v, vprodUS(s, t)), LAMBDA a : a.l)
       [] fn = "VMUDH" -> Into(Put(v, hi), vsatSigned)
       [] fn = "VMADL" -> Into(Put(v, vadd48(Limbs(v), LowOnly(mulhiU(s, t)))), vsatUnsignedN)
       [] fn = "VMADM" -> Into(Put(v, vadd48(Limbs(v), vprodSU(s, t))), vsatSigned)
       [] fn = "VMADN" -> Into(Put(v, vadd48(Limbs(v), vprodUS(s, t))), vsatUnsignedN)
       [] fn = "VMADH" -> Into(madh, vsatSigned)

\* blendv: the second operand where the mask is set.
Blend(a, b, mask) == IF mask THEN b ELSE a

vuVcl(v, s, t) ==
  LET sum == Wrap(s + t)
      carry == Max({sum, s}) # sum
      cclNew == Blend(sum = 0 /\ ~carry, sum = 0 \/ ~carry, v.ce)
      cchNew == Max({s, t}) = s
      withCarry == Blend(Blend(s, Wrap(-t), cclNew), Blend(s, Wrap(-t), v.ccl), v.coh)
      without == Blend(Blend(s, t, cchNew), Blend(s, t, v.cch), v.coh)
  IN [Low(v, Blend(without, withCarry, v.col)) EXCEPT
        !.ccl = Blend(v.ccl, cclNew, v.col /\ ~v.coh),
        !.cch = Blend(v.cch, cchNew, ~v.col /\ ~v.coh),
        !.col = FALSE, !.coh = FALSE, !.ce = FALSE]

vuVch(v, s, t) ==
  LET diff == Top(s) # Top(t)
      r == Blend(S16(Wrap(s - t)), S16(Wrap(s + t)), diff)
  IN [Low(v, Blend(Blend(s, t, r >= 0), Blend(s, Wrap(-t), r <= 0), diff)) EXCEPT
        !.ccl = Blend(Top(t), r <= 0, diff), !.cch = Blend(r >= 0, Top(t), diff),
        !.col = diff, !.coh = r # 0 /\ s # Not(t), !.ce = diff /\ r = -1]

\* below and above are the two thresholds, computed by each caller its way.
VcrWith(v, s, t, below, above) ==
  LET diff == Top(s) # Top(t)
  IN [Low(v, Blend(Blend(s, t, above), Blend(s, Not(t), below), diff)) EXCEPT
        !.ccl = Blend(Top(t), below, diff), !.cch = Blend(above, Top(t), diff),
        !.col = FALSE, !.coh = FALSE, !.ce = FALSE]

\* SSE widens the sum to 32 bits and compares S with T.
vuVcr(v, s, t) == VcrWith(v, s, t, S16(s) + S16(t) < 0, S16(s) >= S16(t))

\* 16-bit lanes wrap into accl; the exact 32-bit sum is packed into D.
vuSum(v, x, y, c) ==
  [v EXCEPT !.l = Wrap(x + y + c), !.d = sclamp16(S32(S16(x) + S16(y) + c)),
            !.col = FALSE, !.coh = FALSE]
vuDifference(v, x, y, c) ==
  [v EXCEPT !.l = Wrap(x - y - c), !.d = sclamp16(S32(S16(x) - S16(y) - c)),
            !.col = FALSE, !.coh = FALSE]

\* The masks of the four comparisons: pcmpeqw, a signed pcmpgtw, VCO.
vuMask(fn, v, s, t) ==
  LET eq == s = t
      gt(x, y) == S16(x) > S16(y)
      both == v.col /\ v.coh
  IN CASE fn = "VLT" -> gt(t, s) \/ (eq /\ both)
       [] fn = "VEQ" -> eq /\ ~v.coh
       [] fn = "VNE" -> ~eq \/ v.coh
       [] fn = "VGE" -> gt(s, t) \/ (eq /\ ~both)

vuCompare(v, mask, s, t) ==
  [Low(v, Blend(t, s, mask)) EXCEPT !.ccl = mask, !.cch = FALSE, !.col = FALSE, !.coh = FALSE]

pand(s, t) == Bitwise(LAMBDA p, q : p * q, s, t)
por(s, t) == Bitwise(LAMBDA p, q : Max({p, q}), s, t)
pxor(s, t) == Bitwise(LAMBDA p, q : IF p = q THEN 0 ELSE 1, s, t)

vuAlu(fn, v, s, t) ==
  CASE fn = "VADD" -> vuSum(v, s, t, Col(v))
    [] fn = "VSUB" -> vuDifference(v, s, t, Col(v))
    [] fn = "VABS" ->
         LET neg(sat) == Blend(t, IF sat THEN sclamp16(-S16(t)) ELSE Wrap(-t), Top(s))
         IN [v EXCEPT !.l = IF s = 0 THEN 0 ELSE neg(FALSE), !.d = IF s = 0 THEN 0 ELSE neg(TRUE)]
    [] fn = "VSUBC" ->
         LET d == (s - t) % 2^(2 * W)
         IN [Low(v, Wrap(s - t)) EXCEPT !.col = (d \div 2^W) % 2 = 1, !.coh = d # 0]
    [] fn = "VADDC" -> [Low(v, Wrap(s + t)) EXCEPT !.col = (s + t) \div 2^W = 1, !.coh = FALSE]
    [] fn \in {"VLT", "VEQ", "VNE", "VGE"} -> vuCompare(v, vuMask(fn, v, s, t), s, t)
    [] fn = "VCL" -> vuVcl(v, s, t)
    [] fn = "VCH" -> vuVch(v, s, t)
    [] fn = "VCR" -> vuVcr(v, s, t)
    [] fn = "VMRG" -> [Low(v, Blend(t, s, v.ccl)) EXCEPT !.coh = FALSE, !.col = FALSE]
    [] fn = "VAND" -> Low(v, pand(s, t))
    [] fn = "VNAND" -> Low(v, Not(pand(s, t)))
    [] fn = "VOR" -> Low(v, por(s, t))
    [] fn = "VNOR" -> Low(v, Not(por(s, t)))
    [] fn = "VXOR" -> Low(v, pxor(s, t))
    [] fn = "VNXOR" -> Low(v, Not(pxor(s, t)))

-----------------------------------------------------------------------------
(***************************************************************************)
(* The emitted bodies that differ from the SSE ones.                       *)
(***************************************************************************)

\* The product doubled by a shift that drags the top bit of each limb.
emitDouble48(p) ==
  LET top(x) == IF Top(x) THEN 1 ELSE 0
  IN [h |-> Wrap(2 * SignLimb(p.m) + top(p.m)), m |-> Wrap(2 * p.m + top(p.l)), l |-> Wrap(2 * p.l)]

\* Twice the product and the rounding, with the two carries that can occur.
emitMulf(v, s, t) ==
  LET p == emitDouble48(vprodSS(s, t))
      l == Wrap(p.l + Half)
      c == vcarry16(p.l, Half, l)
      m == Wrap(p.m + c)
  IN [v EXCEPT !.l = l, !.m = m, !.h = Wrap(p.h + vcarry16(p.m, c, m))]

emitAccAdd48(v, p) == Put(v, vadd48(Limbs(v), p))

\* (accl or overflow) and not underflow.
emitSatUnsignedN(v) ==
  LET over == IF HighPair(v) > MaxS THEN Not(0) ELSE v.l
  IN IF -Half > HighPair(v) THEN 0 ELSE over

emitMac(fn, v, s, t) ==
  LET double == emitDouble48(vprodSS(s, t))
  IN CASE fn = "VMULF" -> Into(emitMulf(v, s, t), vsatSigned)
       [] fn = "VMULU" -> Into(emitMulf(v, s, t), vsatMulU)
       [] fn = "VMACF" -> Into(emitAccAdd48(v, double), vsatSigned)
       [] fn = "VMACU" -> Into(emitAccAdd48(v, double), vsatMacU)
       [] fn = "VMADL" -> Into(emitAccAdd48(v, LowOnly(mulhiU(s, t))), emitSatUnsignedN)
       [] fn = "VMADN" -> Into(emitAccAdd48(v, vprodUS(s, t)), emitSatUnsignedN)
       [] OTHER -> vuMac(fn, v, s, t)

\* The emitted VCR looks at the sign of the wrapped sum and difference.
emitVcr(v, s, t) == VcrWith(v, s, t, Top(Wrap(s + t)), ~Top(Wrap(s - t)))

\* The emitted VCL blends the masks and selects once; it compares without a
\* sign by flipping the top bit.
emitVcl(v, s, t) ==
  LET bias(x) == S16(Wrap(x + Half))
      sum == Wrap(s + t)
      noCarry == ~(bias(s) > bias(sum))
      cclNew == Blend(sum = 0 /\ noCarry, sum = 0 \/ noCarry, v.ce)
      cchNew == ~(bias(t) > bias(s))
      mask == Blend(Blend(cchNew, v.cch, v.coh), Blend(cclNew, v.ccl, v.coh), v.col)
  IN [Low(v, Blend(s, Blend(t, Wrap(-t), v.col), mask)) EXCEPT
        !.ccl = Blend(v.ccl, cclNew, v.col /\ ~v.coh),
        !.cch = Blend(v.cch, cchNew, ~(v.col \/ v.coh)),
        !.col = FALSE, !.coh = FALSE, !.ce = FALSE]

\* The six logical instructions: an operation by the pair of opcodes, and one
\* exclusive or with ones for the odd ones.
emitLogical(k, v, s, t) ==
  LET r == CASE k \div 2 = 0 -> pand(s, t) [] k \div 2 = 1 -> por(s, t) [] OTHER -> pxor(s, t)
  IN Low(v, IF k % 2 = 1 THEN pxor(r, Not(0)) ELSE r)

emitAlu(fn, v, s, t) ==
  CASE fn = "VCR" -> emitVcr(v, s, t)
    [] fn = "VCL" -> emitVcl(v, s, t)
    [] fn \in Logicals -> emitLogical(CHOOSE k \in 0 .. 5 : Opcodes28[k + 1] = fn, v, s, t)
    [] OTHER -> vuAlu(fn, v, s, t)

-----------------------------------------------------------------------------
(***************************************************************************)
(* The reciprocal family: divin, divout and divdp chain its instructions.  *)
(* The ROM is any function of its index.                                   *)
(***************************************************************************)
Rom(i) == (5 * i + 3) % 2^W
Dividend(v, long, t) == IF long /\ v.divdp THEN S32(v.divin * 2^W + t) ELSE S16(t)

\* clz of a positive number of 2 W bits, and the position of its top bit.
Msb(x) == Max({k \in 0 .. (2 * W - 1) : x >= 2^k})
clz(x) == 2 * W - 1 - Msb(x)

\* The absolute value, except below -Half, where it stays ones' complement.
Magnitude(x) == IF x < 0 THEN IF x > -Half THEN -x ELSE -x - 1 ELSE x

\* The table's entry, shifted back and complemented for a negative input.
Quotient(x, index, back) ==
  LET q == ((2^W + Rom(index)) * 2^(W - 2)) \div 2^back
  IN IF x < 0 THEN -q - 1 ELSE q

Extreme(x, regular) ==
  CASE Magnitude(x) = 0 -> 2^(2 * W - 1) - 1
    [] x = -Half -> -(2^W)
    [] OTHER -> regular

TableIndex(x, shift) ==
  ((Magnitude(x) * 2^shift) \div 2^(2 * W - 1 - IndexBits)) % 2^IndexBits

\* The interpreter counts the leading zeros.
execRecip(x, root) ==
  IF Magnitude(x) = 0 THEN Extreme(x, 0)
  ELSE LET shift == clz(Magnitude(x))
           i == TableIndex(x, shift)
       IN Extreme(x, IF root THEN Quotient(x, (i - (i % 2)) + (shift % 2), (2 * W - 1 - shift) \div 2)
                             ELSE Quotient(x, i, 2 * W - 1 - shift))

\* The emitted code takes the position of the top bit instead.
emitRecip(x, root) ==
  IF Magnitude(x) = 0 THEN Extreme(x, 0)
  ELSE LET msb == Msb(Magnitude(x))
           i == TableIndex(x, 2 * W - 1 - msb)
       IN Extreme(x, IF root THEN Quotient(x, (i - (i % 2)) + ((2 * W - 1 - msb) % 2), msb \div 2)
                             ELSE Quotient(x, i, msb))

\* VRCPH/VRSQH keep the upper half for the L instruction that follows and
\* return the upper half of the last quotient; the others consume it.
Divide(recip(_, _), fn, v, t) ==
  CASE fn = "VRCPH" -> [v EXCEPT !.divdp = TRUE, !.divin = t, !.l = t, !.d = v.divout]
    [] fn = "VMOV" -> Low(v, t)
    [] OTHER ->
         LET q == recip(Dividend(v, fn \in {"VRCPL", "VRSQL"}, t), fn \in {"VRSQ", "VRSQL"}) % 2^(2 * W)
         IN [v EXCEPT !.divdp = FALSE, !.divout = q \div 2^W, !.l = t, !.d = Wrap(q)]

\* VSAR copies one slice of the accumulator.
Vsar(v, e) == [v EXCEPT !.d = CASE e = 8 -> v.h [] e = 9 -> v.m [] e = 10 -> v.l [] OTHER -> 0]

-----------------------------------------------------------------------------
MacOps == {"VMULF", "VMULU", "VMACF", "VMACU", "VMUDL", "VMUDM", "VMUDN", "VMUDH",
           "VMADL", "VMADM", "VMADN", "VMADH"}
AluOps == {"VADD", "VSUB", "VABS", "VADDC", "VSUBC", "VLT", "VEQ", "VNE", "VGE",
           "VCL", "VCH", "VCR", "VMRG"} \cup Logicals
DivOps == {"VRCP", "VRCPL", "VRCPH", "VMOV", "VRSQ", "VRSQL"}

Clean == [h |-> 0, m |-> 0, l |-> 0, d |-> 0, col |-> FALSE, coh |-> FALSE, ccl |-> FALSE,
          cch |-> FALSE, ce |-> FALSE, divin |-> 0, divout |-> 0, divdp |-> FALSE]

\* The states a family reads: any accumulator, any flags, any pending half.
Before(f) ==
  CASE f = "mac" -> {[Clean EXCEPT !.h = a, !.m = b, !.l = x] : a, b, x \in Word}
    [] f = "alu" -> {[Clean EXCEPT !.col = a, !.coh = b, !.ccl = x, !.cch = y, !.ce = z] :
                       a, b, x, y, z \in BOOLEAN}
    [] f = "div" -> {[Clean EXCEPT !.divin = a, !.divout = x, !.divdp = b] :
                       a, x \in Word, b \in BOOLEAN}

VectorInit ==
  /\ family \in {"mac", "alu", "div"}
  /\ \E v \in Before(family) : lane = [scalar |-> v, sse |-> v, jit |-> v]
  /\ vuLeft = VuOps

\* One instruction of the family, by the three implementations.
Mac(fn, s, t) ==
  lane' = [scalar |-> scalarMac(fn, lane.scalar, s, t), sse |-> vuMac(fn, lane.sse, s, t),
           jit |-> emitMac(fn, lane.jit, s, t)]

Alu(fn, s, t) ==
  lane' = [scalar |-> scalarAlu(fn, lane.scalar, s, t), sse |-> vuAlu(fn, lane.sse, s, t),
           jit |-> emitAlu(fn, lane.jit, s, t)]

\* The interpreter has one body for these (execCop2Div), the emitter its own.
Div(fn, t) ==
  LET ref == Divide(execRecip, fn, lane.scalar, t)
  IN lane' = [scalar |-> ref, sse |-> ref, jit |-> Divide(emitRecip, fn, lane.jit, t)]

Sar(e) == lane' = [i \in DOMAIN lane |-> Vsar(lane[i], e)]

VectorNext ==
  /\ vuLeft > 0
  /\ vuLeft' = vuLeft - 1
  /\ UNCHANGED family
  /\ \/ family = "mac" /\ \E fn \in MacOps, s \in Factors, t \in Word : Mac(fn, s, t)
     \/ family = "alu" /\ \E fn \in AluOps, s, t \in Word : Alu(fn, s, t)
     \/ family = "div" /\ \E fn \in DivOps, t \in Word : Div(fn, t)
     \/ family # "alu" /\ \E e \in 8 .. 11 : Sar(e)

-----------------------------------------------------------------------------
\* Whatever the accumulator, the flags and the operands, the limb arithmetic
\* of the SSE bodies and of the emitted code leaves the accumulator, the
\* flags, the destination and the division latch as the scalar reference
\* does: no carry is lost between limbs, no saturation picks another side.
VectorIsScalar == lane.sse = lane.scalar /\ lane.jit = lane.scalar
=============================================================================
