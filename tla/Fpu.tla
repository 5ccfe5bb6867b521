-------------------------------- MODULE Fpu --------------------------------
(* The floating-point unit.  cop1op is the reference: it screens the         *)
(* operands, computes with the host's unit and folds the host's flags into   *)
(* FCSR.  The dynarec has two shortcuts in front of it, code emitted in the  *)
(* block (emitFpInline) and helpers (jitCop1Alu, jitCop1Cvt, jitCop1Cmp),    *)
(* that must decline whatever they would not compute to the last flag.  In a *)
(* block, a guard that was passed once is not emitted again (FpKnow).        *)
(*                                                                           *)
(* Formats are toys with the proportions of the real ones: a product of two  *)
(* singles fits a double (2 * PS <= PD) and a sum does when the exponents    *)
(* are at most PD - PS - 1 apart (28 in the code).  A magnitude is a number  *)
(* of fine units, FineBits below the quantum of the single's subnormals.     *)
EXTENDS Integers, FiniteSets

CONSTANTS
  PS, PD,       \* bits of mantissa of the two formats (24, 53)
  ExpS,         \* binades of normal singles (254)
  OneBits,      \* 1.0 is 2^OneBits quanta of the single
  FineBits,     \* a quantum is 2^FineBits fine units
  IntBits,      \* bits of the integers of .W (32)
  KnowOps       \* COP1 instructions of a block

ASSUME FpuAssumption ==
  /\ {PS, PD, ExpS, OneBits, FineBits, IntBits} \subseteq Nat \ {0}
  /\ PS >= 2 /\ 2 * PS <= PD /\ KnowOps \in Nat

VARIABLES
  fpCase,     \* [op, rm, fs, enI, a, b]: one computation
  fk,         \* FpKnow: what the block knows where it stands: [cu1, fr1, rcg]
  may,        \* g_fkMayFr, g_fkMayRc: the guest's state when it was compiled
  guestFp,    \* [cu1, fr, rm, enI]: Status and FCSR now
  hostRc,     \* the rounding mode of the host's MXCSR
  fastOk,     \* no shortcut computed under a guard that does not hold
  fpLeft      \* COP1 instructions left in the block; -1: a computation by itself

fpuVars == <<fpCase, fk, may, guestFp, hostRc, fastOk, fpLeft>>

Modes == {"RN", "RZ", "RP", "RM"}

-----------------------------------------------------------------------------
(* Numbers.  external: the host's unit, IEEE 754.                            *)

Single == [p |-> PS, quantum |-> 2^FineBits, min |-> 2^(FineBits + PS - 1),
           max |-> (2^PS - 1) * 2^(FineBits + ExpS - 1)]
Double == [p |-> PD, quantum |-> 1, min |-> 2^(PD - 1), max |-> (2^PD - 1) * 2^12]
Unit == 2^(OneBits + FineBits)

Magnitudes(f, binades) ==
  {0} \cup {m * f.quantum : m \in 1 .. 2^(f.p - 1) - 1}
      \cup {m * f.quantum * 2^e : m \in 2^(f.p - 1) .. 2^f.p - 1, e \in 0 .. binades - 1}

Fin(neg, n) == [cls |-> "fin", neg |-> neg, n |-> n]
Special(cls, neg) == [cls |-> cls, neg |-> neg, n |-> 0]
Values(f, binades) ==
  {Fin(s, n) : s \in BOOLEAN, n \in Magnitudes(f, binades)}
    \cup {Special(k, FALSE) : k \in {"inf", "qnan", "snan"}} \cup {Special("inf", TRUE)}

Subnormal(x, f) == x.cls = "fin" /\ x.n # 0 /\ x.n < f.min
plain(x, f) == x.cls = "fin" /\ ~Subnormal(x, f)
Nan(x) == x.cls \in {"qnan", "snan"}
Signed(x) == IF x.neg THEN -x.n ELSE x.n

\* The exponent of a normal number: the binade of its magnitude.
Exponent(n) == CHOOSE e \in 0 .. 18 : 2^e <= n /\ n < 2^(e + 1)

\* num/den rounded to a multiple of q.
RoundTo(num, den, q, neg, rm) ==
  LET lo   == (num \div (den * q)) * q
      rest == num - lo * den
      up   == CASE rm = "RN" -> \/ 2 * rest > den * q
                                \/ 2 * rest = den * q /\ (lo \div q) % 2 = 1
                [] rm = "RZ" -> FALSE
                [] rm = "RP" -> ~neg
                [] rm = "RM" -> neg
  IN IF rest # 0 /\ up THEN lo + q ELSE lo

\* The finite value num/den in format f: the result and the flags it raises.
\* Tininess is detected after rounding, and raises Underflow when inexact.
RoundF(num, den, neg, f, rm) ==
  LET k       == CHOOSE k \in 0 .. 18 : /\ num < den * f.quantum * 2^(f.p + k)
                                        /\ k > 0 => num >= den * f.quantum * 2^(f.p + k - 1)
      r       == RoundTo(num, den, f.quantum * 2^k, neg, rm)
      inexact == r * den # num
      tiny    == 2 * RoundTo(2 * num, den, f.quantum, neg, rm) < 2 * (2 * f.min)
      toInf   == rm = "RN" \/ (rm = "RP" /\ ~neg) \/ (rm = "RM" /\ neg)
  IN IF r > f.max
     THEN [v |-> IF toInf THEN Special("inf", neg) ELSE Fin(neg, f.max), ex |-> {"O", "I"}]
     ELSE [v |-> Fin(neg, r), ex |-> (IF inexact THEN {"I"} ELSE {})
                                       \cup (IF inexact /\ num # 0 /\ tiny THEN {"U"} ELSE {})]

Exact(v) == [v |-> v, ex |-> {}]
InvalidOp == [v |-> Special("qnan", FALSE), ex |-> {"V"}]

\* a + b with a, b finite or infinite.
Sum(a, b, f, rm) ==
  LET s == Signed(a) + Signed(b)
  IN CASE a.cls = "inf" /\ b.cls = "inf" /\ a.neg # b.neg -> InvalidOp
       [] a.cls = "inf" -> Exact(a)
       [] b.cls = "inf" /\ a.cls # "inf" -> Exact(b)
       [] a.cls = "fin" /\ b.cls = "fin" /\ s = 0 ->
            Exact(Fin(IF a.neg = b.neg THEN a.neg ELSE rm = "RM", 0))
       [] OTHER -> RoundF(IF s < 0 THEN -s ELSE s, 1, s < 0, f, rm)

Neg(x) == [x EXCEPT !.neg = ~@]

Native(op, a, b, f, rm) ==
  LET neg == a.neg # b.neg
  IN CASE op = "add" -> Sum(a, b, f, rm)
       [] op = "sub" -> Sum(a, Neg(b), f, rm)
       [] op = "mul" ->
            IF a.cls = "inf" \/ b.cls = "inf"
            THEN IF a = Fin(a.neg, 0) \/ b = Fin(b.neg, 0) THEN InvalidOp
                 ELSE Exact(Special("inf", neg))
            ELSE RoundF(a.n * b.n, Unit, neg, f, rm)
       [] op = "div" ->
            IF a.cls = b.cls /\ (a.cls = "inf" \/ (a.n = 0 /\ b.n = 0)) THEN InvalidOp
            ELSE IF a.cls = "inf" THEN Exact(Special("inf", neg))
            ELSE IF b.cls = "inf" THEN Exact(Fin(neg, 0))
            ELSE IF b.n = 0 THEN [v |-> Special("inf", neg), ex |-> {"Z"}]
            ELSE RoundF(a.n * Unit, b.n, neg, f, rm)
       [] op = "cvtsd" -> IF a.cls = "inf" THEN Exact(a) ELSE RoundF(a.n, 1, a.neg, f, rm)

-----------------------------------------------------------------------------
(* The reference.                                                            *)

Binary == {"add", "sub", "mul", "div"}
ToInt == [round |-> "RN", trunc |-> "RZ", ceil |-> "RP", floor |-> "RM"]
ToW == DOMAIN ToInt \cup {"cvtw"}
Compares == {"lt", "eq", "le", "un", "ngt"}

\* The outcome of an instruction: whether it traps, the Cause and the Flags it
\* leaves, the condition and what it writes.
Untouched == Special("none", FALSE)
Outcome(trap, cause, flags, cond, v) ==
  [trap |-> trap, cause |-> cause, flags |-> flags, cond |-> cond, v |-> v]
unimpl == Outcome(TRUE, {"E"}, {}, FALSE, Untouched)

\* harvest: the host's flags fold into FCSR; an enabled one traps.
harvest(r, en, fs) ==
  IF "U" \in r.ex
  THEN IF ~fs \/ en # {} THEN unimpl ELSE Outcome(FALSE, {"U", "I"}, {"U", "I"}, FALSE, r.v)
  ELSE IF r.ex \cap en # {} THEN Outcome(TRUE, r.ex, {}, FALSE, Untouched)
  ELSE Outcome(FALSE, r.ex, r.ex, FALSE, r.v)

\* setS: a subnormal result is flushed, with the rounding of flushMin32, or
\* the instruction is unimplemented.
setS(r, en, fs, f, rm) ==
  IF Subnormal(r.v, f)
  THEN IF ~fs \/ en # {} THEN unimpl
       ELSE Outcome(FALSE, {"U", "I"}, {"U", "I"}, FALSE,
              Fin(r.v.neg, IF \/ rm = "RP" /\ ~r.v.neg
                              \/ rm = "RM" /\ r.v.neg THEN f.min ELSE 0))
  ELSE harvest(r, en, fs)

\* cvtInt: the integer of w bits nearest to src in the mode of the instruction.
cvtInt(src, rm, en) ==
  LET n == RoundTo(src.n, 1, Unit, src.neg, rm)
      i == IF src.neg THEN -(n \div Unit) ELSE n \div Unit
      c == IF n # src.n THEN {"I"} ELSE {}
  IN IF src.cls = "inf" \/ i >= 2^(IntBits - 1) \/ i < -(2^(IntBits - 1)) THEN unimpl
     ELSE IF c \cap en # {} THEN Outcome(TRUE, c, {}, FALSE, Untouched)
     ELSE Outcome(FALSE, c, c, FALSE, [cls |-> "int", neg |-> i < 0, n |-> i])

SourceFormat(op) == IF op \in {"cvtsd", "cvtwd"} THEN Double ELSE Single

Less(a, b) ==
  CASE a.cls = "inf" /\ b.cls = "inf" -> a.neg /\ ~b.neg
    [] a.cls = "inf" /\ b.cls # "inf" -> a.neg
    [] b.cls = "inf" /\ a.cls # "inf" -> ~b.neg
    [] OTHER -> Signed(a) < Signed(b)
Equal(a, b) == IF a.cls = "fin" /\ b.cls = "fin" THEN Signed(a) = Signed(b) ELSE a = b
Satisfied(op, a, b) ==
  \/ op \in {"lt", "le", "ngt"} /\ Less(a, b)
  \/ op \in {"eq", "le", "ngt"} /\ Equal(a, b)

\* The comparison: a NaN with its top bit set is the one that signals.
ccond(op, a, b, en) ==
  LET unordered == Nan(a) \/ Nan(b)
      invalid   == IF op = "ngt" THEN unordered ELSE "qnan" \in {a.cls, b.cls}
      c         == IF invalid THEN {"V"} ELSE {}
  IN IF c \cap en # {} THEN Outcome(TRUE, c, {}, FALSE, Untouched)
     ELSE Outcome(FALSE, c, c,
            IF unordered THEN op \in {"un", "ngt"} ELSE Satisfied(op, a, b), Untouched)

cop1op(op, a, b, rm, en, fs) ==
  LET f       == SourceFormat(op)
      args    == IF op \in Binary THEN {a, b} ELSE {a}
      has(P)  == \E x \in args : x.cls = P
      toInt   == op \in ToW \cup {"cvtwd"}
  IN CASE op \in Compares -> ccond(op, a, b, en)
       [] op \notin Compares /\ (has("snan") \/ \E x \in args : Subnormal(x, f)) -> unimpl
       [] op \notin Compares /\ ~has("snan") /\ ~(\E x \in args : Subnormal(x, f)) ->
            IF has("qnan")
            THEN IF toInt THEN unimpl
                 ELSE IF "V" \in en THEN Outcome(TRUE, {"V"}, {}, FALSE, Untouched)
                 ELSE Outcome(FALSE, {"V"}, {"V"}, FALSE, Special("qnan", FALSE))
            ELSE IF toInt
                 THEN cvtInt(a, IF op \in DOMAIN ToInt THEN ToInt[op] ELSE rm, en)
                 ELSE setS(Native(op, a, b, Single, rm), en, fs, Single, rm)

-----------------------------------------------------------------------------
(* The shortcuts.                                                            *)

Declined == Outcome(TRUE, {}, {}, FALSE, Untouched)
Done(v, ex) == Outcome(FALSE, ex, ex, FALSE, v)

\* The exponents are too far apart for the sum to be exact in a double.
FarApartWide(a, b) ==
  a.n # 0 /\ b.n # 0 /\ Exponent(a.n) - Exponent(b.n) \notin -PD .. PD
FarApart(a, b) ==
  a.n # 0 /\ b.n # 0 /\ Exponent(a.n) - Exponent(b.n) \notin -(PD - PS - 1) .. PD - PS - 1

\* One rounding of a double, exact by the guards in front, to single: nothing
\* but Inexact can be told outside the range of the normal singles.
roundTail(d, top, rm) ==
  LET r == RoundF(d.n, 1, d.neg, Single, rm)
  IN IF d.n # 0 /\ (d.n < Single.min \/ d.n > top) THEN Declined
     ELSE Done(r.v, IF r.v.n # d.n THEN {"I"} ELSE {})

\* The operation in its own format with the flags of the host.
flagsTail(r) == IF ~plain(r.v, Single) \/ r.ex \ {"I"} # {} THEN Declined ELSE Done(r.v, r.ex)

ViaDouble(op, a, b, top, rm) == roundTail(Native(op, a, b, Double, rm).v, top, rm)

\* jitCop1Alu and the conversions of jitCop1Cvt: Enable I only matters when the
\* result is inexact.
jitCop1Alu(op, a, b, rm, enI) ==
  LET f == SourceFormat(op)
      r == IF op \in {"mul"} \/ (op \in {"add", "sub"} /\ ~FarApart(a, b))
           THEN ViaDouble(op, a, b, Single.max, rm)
           ELSE flagsTail(Native(op, a, b, Single, rm))
  IN IF ~plain(a, f) \/ (op \in Binary /\ ~plain(b, f)) THEN Declined
     ELSE IF "I" \in r.cause /\ enI THEN Declined ELSE r

jitCop1Cvt(op, a, rm, enI) ==
  LET r == cvtInt(a, IF op \in DOMAIN ToInt THEN ToInt[op] ELSE rm, {})
  IN IF ~plain(a, SourceFormat(op)) \/ r.trap \/ ("I" \in r.cause /\ enI) THEN Declined ELSE r

jitCop1Cmp(op, a, b) ==
  IF Nan(a) \/ Nan(b) THEN Declined ELSE Outcome(FALSE, {}, {}, Satisfied(op, a, b), Untouched)

\* emitFpInline: Enable I declines before anything is computed, and the range
\* of roundTail is told by the exponent, the last binade left out.
emitFpInline(op, a, b, rm, enI) ==
  LET f   == SourceFormat(op)
      top == 2^(FineBits + PS + ExpS - 2) - 1
  IN CASE ~plain(a, f) \/ (op \in Binary \cup Compares /\ ~plain(b, f)) -> Declined
       [] plain(a, f) /\ (op \in Binary \cup Compares => plain(b, f)) ->
            CASE op \in Compares -> Outcome(FALSE, {}, {}, Satisfied(op, a, b), Untouched)
              [] op \notin Compares /\ enI -> Declined
              [] op \in ToW \cup {"cvtwd"} /\ ~enI -> jitCop1Cvt(op, a, rm, FALSE)
              [] op = "cvtsd" /\ ~enI -> roundTail(a, top, rm)
              [] op \in Binary /\ ~enI ->
                   IF op = "mul" \/ (op \in {"add", "sub"} /\ ~FarApart(a, b))
                   THEN ViaDouble(op, a, b, top, rm)
                   ELSE flagsTail(Native(op, a, b, Single, rm))

Helper(op, a, b, rm, enI) ==
  CASE op \in Compares -> jitCop1Cmp(op, a, b)
    [] op \in ToW \cup {"cvtwd"} -> jitCop1Cvt(op, a, rm, enI)
    [] op \in Binary \cup {"cvtsd"} -> jitCop1Alu(op, a, b, rm, enI)

-----------------------------------------------------------------------------
(* The facts of a block.                                                     *)

NothingKnown == [cu1 |-> FALSE, fr1 |-> FALSE, rcg |-> FALSE]

\* The guards that the emitted code of an instruction still has: those of the
\* facts that are not known.  odd: its source is an odd register.
GuardsPass(odd, sync) ==
  /\ ~fk.cu1 => guestFp.cu1
  /\ odd /\ ~fk.fr1 => guestFp.fr
  /\ sync # "none" /\ ~(fk.rcg /\ sync \in {"guest", "trunc"}) => ~guestFp.enI

\* What the shortcut computes with is what the interpreter would use.
Sound(odd, sync) ==
  /\ guestFp.cu1
  /\ odd => guestFp.fr
  /\ sync # "none" => ~guestFp.enI
  /\ sync = "guest" => hostRc' = guestFp.rm

NewFr(odd) == odd /\ ~fk.fr1 /\ may.fr
NewRc(sync) == sync = "guest" /\ ~fk.rcg /\ may.rc
AfterKeepingMode(odd, sync) ==
  [cu1 |-> TRUE, fr1 |-> fk.fr1 \/ NewFr(odd), rcg |-> fk.rcg \/ NewRc(sync)]
\* g_fkAfter: an instruction with its own rounding mode leaves it in MXCSR.
After(odd, sync) == [AfterKeepingMode(odd, sync) EXCEPT !.rcg = @ /\ sync \notin Modes]

Computes == UNCHANGED <<fpCase, may>> /\ fpLeft > 0 /\ fpLeft' = fpLeft - 1

\* An instruction emitted in line: sync is "guest", a fixed mode, "trunc" (its
\* conversion ignores the mode) or "none" (MOV, ABS, NEG, C.cond, CVT.D.S).
fpFast(odd, sync) ==
  /\ Computes /\ GuardsPass(odd, sync)
  /\ hostRc' = CASE sync = "guest" /\ ~fk.rcg -> guestFp.rm
                 [] sync \in Modes            -> sync
                 [] OTHER                     -> hostRc
  /\ fastOk' = (fastOk /\ Sound(odd, sync))
  /\ fk' = After(odd, sync)
  /\ UNCHANGED guestFp

\* ... and its slow way: the helper leaves MXCSR in whatever mode it used; the
\* facts the code ahead counts on are made true or the block is left.
fpSlow(odd, sync) ==
  /\ Computes /\ UNCHANGED <<guestFp, fastOk>>
  /\ IF ~guestFp.cu1 \/ (NewFr(odd) /\ ~guestFp.fr) \/ (NewRc(sync) /\ guestFp.enI)
     THEN /\ hostRc' \in Modes
          /\ fk' = NothingKnown
     ELSE /\ hostRc' \in IF After(odd, sync).rcg THEN {guestFp.rm} ELSE Modes
          /\ fk' = After(odd, sync)

\* The instructions COP1 that are only helpers: a format that is not emitted
\* loses the mode, a move does not.
fpHelper(format) ==
  /\ Computes /\ UNCHANGED <<guestFp, fastOk>>
  /\ hostRc' \in IF format THEN Modes ELSE {hostRc}
  /\ fk' = IF guestFp.cu1 THEN [fk EXCEPT !.cu1 = TRUE, !.rcg = @ /\ ~format] ELSE NothingKnown

\* A move that finds its register by FR: emitFpMove, LWC1 and SWC1.
fpMove ==
  /\ Computes /\ (~fk.cu1 => guestFp.cu1)
  /\ fastOk' = (fastOk /\ guestFp.cu1 /\ (fk.fr1 => guestFp.fr))
  /\ fk' = [fk EXCEPT !.cu1 = TRUE]
  /\ UNCHANGED <<guestFp, hostRc>>

\* CTC1 changes the mode and Enable I.
ctc1(rm, enI) ==
  /\ Computes /\ guestFp.cu1
  /\ guestFp' = [guestFp EXCEPT !.rm = rm, !.enI = enI]
  /\ fk' = [fk EXCEPT !.cu1 = TRUE, !.rcg = FALSE]
  /\ UNCHANGED <<hostRc, fastOk>>

\* MTC0 Status changes CU1 and FR.
mtc0Status(cu1, fr) ==
  /\ Computes
  /\ guestFp' = [guestFp EXCEPT !.cu1 = cu1, !.fr = fr]
  /\ fk' = NothingKnown
  /\ UNCHANGED <<hostRc, fastOk>>

NoCase ==
  [op |-> "none", rm |-> "RN", fs |-> FALSE, en |-> {}, a |-> Untouched, b |-> Untouched]

Idling == fpLeft = -1 /\ fpCase = NoCase

\* A computation with every operand, mode and enable.
compute(op, rm, fs, en, a, b) ==
  /\ Idling
  /\ fpCase' = [op |-> op, rm |-> rm, fs |-> fs, en |-> en, a |-> a, b |-> b]
  /\ UNCHANGED <<fk, may, guestFp, hostRc, fastOk, fpLeft>>

FpuInit ==
  /\ fpCase = NoCase
  /\ fk = NothingKnown
  /\ may \in [fr: BOOLEAN, rc: BOOLEAN]
  /\ guestFp \in [cu1: BOOLEAN, fr: BOOLEAN, rm: Modes, enI: BOOLEAN]
  /\ hostRc \in Modes
  /\ fastOk = TRUE
  /\ fpLeft \in {-1, KnowOps}
  /\ fpLeft = -1 => /\ may = [fr |-> TRUE, rc |-> TRUE] /\ hostRc = "RN"
                   /\ guestFp = [cu1 |-> TRUE, fr |-> TRUE, rm |-> "RN", enI |-> FALSE]

Syncs == {"guest", "none", "trunc", "RN", "RP", "RM"}

FpuNext ==
  \/ \E odd \in BOOLEAN, sync \in Syncs : fpFast(odd, sync) \/ fpSlow(odd, sync)
  \/ \E format \in BOOLEAN : fpHelper(format)
  \/ fpMove
  \/ \E rm \in Modes, enI \in BOOLEAN : ctc1(rm, enI)
  \/ \E cu1, fr \in BOOLEAN : mtc0Status(cu1, fr)
  \/ /\ Idling
     /\ \E op \in Binary \cup {"lt", "le", "un", "ngt"}, rm \in Modes, fs \in BOOLEAN,
           en \in {{}, {"I"}, {"V"}} : \E a, b \in Values(Single, ExpS) :
          compute(op, rm, fs, en, a, b)
  \/ /\ Idling
     /\ \E op \in ToW, rm \in Modes, en \in {{}, {"I"}} : \E a \in Values(Single, ExpS) :
          compute(op, rm, FALSE, en, a, a)
  \/ /\ Idling
     /\ \E op \in {"cvtsd", "cvtwd"}, rm \in Modes, en \in {{}, {"I"}} :
          \E a \in Values(Double, FineBits + ExpS) : compute(op, rm, TRUE, en, a, a)

FpuSpec == FpuInit /\ [][FpuNext]_fpuVars

-----------------------------------------------------------------------------
(* Properties.                                                               *)

\* A shortcut that does not decline leaves the value, the Cause, the Flags and
\* the condition that the interpreter would (KESTREL_FPORACLE compares the two
\* at run time): no double rounding, no Overflow or Underflow that the
\* comparison with the exact double cannot see.
FastIsSlow ==
  fpCase # NoCase =>
    LET enI  == "I" \in fpCase.en
        slow == cop1op(fpCase.op, fpCase.a, fpCase.b, fpCase.rm, fpCase.en, fpCase.fs)
    IN /\ Helper(fpCase.op, fpCase.a, fpCase.b, fpCase.rm, enI) \in {Declined, slow}
       /\ emitFpInline(fpCase.op, fpCase.a, fpCase.b, fpCase.rm, enI) \in {Declined, slow}

\* A guard that an instruction left out because the block had seen it holds
\* where it would have been: no instruction computes in line without CU1, with
\* the wrong half of a register pair, in another rounding mode or with Enable I.
KnownIsTrue == fastOk
=============================================================================
