----------------------------- MODULE RspVecMem -----------------------------
(***************************************************************************)
(* Loads and stores of the RSP between DMEM and a vector register, and the *)
(* scalar accesses and moves that go with them.  The interpreter walks     *)
(* byte by byte, with DMEM wrapping at its end; when element and length    *)
(* allow it, it copies whole spans with the two bytes of each lane         *)
(* swapped (a vector byte k is kept at the host's byte k^1).  The emitted  *)
(* code has its own spans, shuffles and fall-backs to the helper.          *)
(*                                                                         *)
(* A byte is the name of the place it came from, so that two results are   *)
(* equal only if every byte is.  V bytes make a register (16), M make DMEM *)
(* (4096).                                                                 *)
(***************************************************************************)
EXTENDS Integers, Sequences

CONSTANTS V,  \* bytes of a vector register
          M   \* bytes of DMEM

ASSUME VecMemAssumption == V \in {8, 16} /\ M \in Nat /\ M % V = 0 /\ M > V

VARIABLES unit,  \* [v, dm, r] as each implementation leaves it
          vmDone

vmVars == <<unit, vmDone>>

H == V \div 2
Bytes == 0 .. (V - 1)
Swap(k) == IF k % 2 = 0 THEN k + 1 ELSE k - 1

\* Names: DMEM byte a is a; register byte k is 100 + k; the scalar's bytes
\* are 200..; a byte shifted right by one or its lost bit, and a lane shifted
\* right by seven, are named after their source.
Shift1(b) == 1000 + b
Lost1(b) == 2000 + b
Zero == 3000
Seven(hi, lo) == 100000 + 1000 * hi + lo

Fresh == [v |-> [k \in Bytes |-> 100 + Swap(k)], dm |-> [a \in 0 .. (M - 1) |-> a],
          r |-> <<200, 201, 202, 203>>]

-----------------------------------------------------------------------------
(***************************************************************************)
(* The interpreter's byte accesses.                                        *)
(***************************************************************************)
rb(u, a) == u.dm[a % M]
gb(u, k) == u.v[Swap(k % V)]
\* Writes the logical bytes that f gives: f[k] for k in its domain.
sb(u, f) == [u EXCEPT !.v = [h \in Bytes |-> IF Swap(h) \in DOMAIN f THEN f[Swap(h)] ELSE u.v[h]]]
wb(u, f) == [u EXCEPT !.dm = [a \in DOMAIN u.dm |-> IF a \in DOMAIN f THEN f[a] ELSE u.dm[a]]]

\* wb of a span: n bytes from a, wrapping.
Span(a, n, val(_)) ==
  [x \in {(a + i) % M : i \in 0 .. (n - 1)} |-> val((x - a) % M)]

Size(op) == CASE op \in {"LSV", "SSV", "LH", "SH"} -> 2 [] op \in {"LLV", "SLV", "LW", "SW"} -> 4
              [] op \in {"LDV", "SDV"} -> H [] OTHER -> V

\* LBV, LSV, LLV, LDV: the register does not wrap.
loadShort(u, op, e, a) ==
  sb(u, [k \in {x \in Bytes : x >= e /\ x < e + Size(op)} |-> rb(u, a + k - e)])

\* LQV: up to the end of the aligned quadword and of the register.
LqvLen(e, a) == LET lim == (V - 1) - (a % V) IN (IF lim > V - 1 - e THEN V - 1 - e ELSE lim) + 1
loadQuad(u, e, a) == sb(u, [k \in {x \in Bytes : x >= e /\ x < e + LqvLen(e, a)} |-> rb(u, a + k - e)])

\* LRV: the high bytes of the register from the start of the quadword.
LrvStart(e, a) == V - ((a % V) - e)
loadRight(u, e, a) ==
  sb(u, [k \in {x \in Bytes : x >= LrvStart(e, a)} |-> rb(u, (a - (a % V)) + k - LrvStart(e, a))])

\* LPV and LUV: a byte of the window per lane, in its upper half or one lower.
loadPack(u, op, e, a) ==
  LET from(o) == rb(u, (a - (a % H)) + (((a % H) - e + o) % V))
  IN sb(u, [k \in Bytes |-> CASE op = "LPV" -> IF k % 2 = 0 THEN from(k \div 2) ELSE Zero
                              [] op = "LUV" -> IF k % 2 = 0 THEN Shift1(from(k \div 2))
                                               ELSE Lost1(from(k \div 2))])

\* SSV, SLV, SDV: the element wraps.
storeShort(u, op, e, a) == wb(u, Span(a % M, Size(op), LAMBDA i : gb(u, e + i)))
SqvLen(a) == V - (a % V)
storeQuad(u, e, a) == wb(u, Span(a % M, SqvLen(a), LAMBDA i : gb(u, e + i)))
storeRight(u, e, a) ==
  wb(u, [x \in {(a - (a % V)) + i : i \in 0 .. ((a % V) - 1)} |->
           gb(u, e + (x - (a - (a % V))) + (V - (a % V)))])

High(u, n) == gb(u, 2 * n)
Lane7(u, n) == Seven(gb(u, 2 * n), gb(u, 2 * n + 1))

\* SPV and SUV: one byte per lane; past the last lane each becomes the other.
storePack(u, op, e, a) ==
  wb(u, Span(a % M, H, LAMBDA i : LET o == e + i
                                  IN IF (o % V < H) = (op = "SPV") THEN High(u, o % H) ELSE Lane7(u, o % H)))

-----------------------------------------------------------------------------
(***************************************************************************)
(* The interpreter's spans.                                                *)
(***************************************************************************)

\* Even element and length, no end of the register nor of DMEM in between.
vecFast(a, e, n) == e % 2 = 0 /\ n % 2 = 0 /\ e + n <= V /\ a + n <= M

dmemToVec(u, a, e, n) ==
  [u EXCEPT !.v = [h \in Bytes |-> IF h >= e /\ h < e + n THEN u.dm[a + Swap(h - e)] ELSE u.v[h]]]
vecToDmem(u, a, e, n) ==
  [u EXCEPT !.dm = [x \in DOMAIN u.dm |-> IF x >= a /\ x < a + n THEN u.v[e + Swap(x - a)]
                                          ELSE u.dm[x]]]

execBytes(u, op, e, a) ==
  CASE op = "LBV" -> sb(u, [k \in {e} |-> rb(u, a)])
    [] op \in {"LSV", "LLV", "LDV"} -> loadShort(u, op, e, a)
    [] op = "LQV" -> loadQuad(u, e, a)
    [] op = "LRV" -> loadRight(u, e, a)
    [] op \in {"LPV", "LUV"} -> loadPack(u, op, e, a)
    [] op = "SBV" -> wb(u, [x \in {a % M} |-> gb(u, e)])
    [] op \in {"SSV", "SLV", "SDV"} -> storeShort(u, op, e, a)
    [] op = "SQV" -> storeQuad(u, e, a)
    [] op = "SRV" -> storeRight(u, e, a)
    [] op \in {"SPV", "SUV"} -> storePack(u, op, e, a)
    [] op \in {"LH", "LW"} -> [u EXCEPT !.r = [i \in 1 .. Size(op) |-> rb(u, a + i - 1)]]
    [] op \in {"SH", "SW"} -> wb(u, Span(a % M, Size(op), LAMBDA i : u.r[4 - Size(op) + i + 1]))
    [] op = "MFC2" -> [u EXCEPT !.r = <<gb(u, e), gb(u, e + 1)>>]
    [] op = "MTC2" -> sb(u, [k \in {x \in {e, e + 1} : x < V} |-> u.r[3 + k - e]])

\* execLoadT and execStoreT with their fast path.
execSpans(u, op, e, a) ==
  LET a0 == a % M
      short == IF e + Size(op) > V THEN V - e ELSE Size(op)
  IN CASE op \in {"LSV", "LLV", "LDV"} /\ vecFast(a0, e, short) -> dmemToVec(u, a0, e, short)
       [] op = "LQV" /\ vecFast(a0, e, LqvLen(e, a)) -> dmemToVec(u, a0, e, LqvLen(e, a))
       [] op \in {"SSV", "SLV", "SDV"} /\ vecFast(a0, e, Size(op)) -> vecToDmem(u, a0, e, Size(op))
       [] op = "SQV" /\ vecFast(a0, e, SqvLen(a)) -> vecToDmem(u, a0, e, SqvLen(a))
       [] OTHER -> execBytes(u, op, e, a)

-----------------------------------------------------------------------------
(***************************************************************************)
(* The emitted code.                                                       *)
(***************************************************************************)

\* LPV/LUV: pshufb over the V bytes from the address aligned to H.
emitVecPack(u, op, e, a) ==
  LET w == (a % M) - (a % H)
      mask(o) == ((a % H) + V - e + o) % V
      lane(o) == u.dm[w + mask(o)]
  IN IF w > M - V THEN execSpans(u, op, e, a)
     ELSE [u EXCEPT !.v = [h \in Bytes |->
             CASE op = "LPV" -> IF h % 2 = 1 THEN lane(h \div 2) ELSE Zero
               [] op = "LUV" -> IF h % 2 = 1 THEN Shift1(lane(h \div 2)) ELSE Lost1(lane(h \div 2))]]

\* SPV/SUV with element 0 or half.
emitVecPackStore(u, op, e, a) ==
  LET high == (op = "SPV") # (e = H)
  IN IF a % M > M - H THEN execSpans(u, op, e, a)
     ELSE [u EXCEPT !.dm = [x \in DOMAIN u.dm |->
             IF x >= a % M /\ x < (a % M) + H
             THEN LET n == x - (a % M) IN IF high THEN u.v[2 * n + 1] ELSE Seven(u.v[2 * n + 1], u.v[2 * n])
             ELSE u.dm[x]]]

\* The lengths the emitter takes in line, and when it calls the helper.
emitVecMem(u, op, e, a) ==
  LET store == op \in {"SSV", "SLV", "SDV", "SQV"}
      quad == op \in {"LQV", "SQV"}
      len == IF quad THEN V - e ELSE IF e + Size(op) > V THEN V - e ELSE Size(op)
      inline == /\ e % 2 = 0
                /\ (store /\ quad) => e = 0
                /\ (store /\ ~quad) => e + Size(op) <= V
      slow == IF quad THEN a % V # 0 ELSE a % M > M - len
  IN IF ~inline \/ slow THEN execSpans(u, op, e, a)
     ELSE IF store THEN vecToDmem(u, a % M, e, len) ELSE dmemToVec(u, a % M, e, len)

\* LH..SW: the host's load and a byte swap, unless the access would wrap.
emitScalar(u, op, a) ==
  LET a0 == a % M
      n == Size(op)
  IN IF a0 > M - n THEN execBytes(u, op, 0, a)
     ELSE IF op \in {"LH", "LW"} THEN [u EXCEPT !.r = [i \in 1 .. n |-> u.dm[a0 + i - 1]]]
     ELSE [u EXCEPT !.dm = [x \in DOMAIN u.dm |->
             IF x >= a0 /\ x < a0 + n THEN u.r[4 - n + 1 + (x - a0)] ELSE u.dm[x]]]

emitVecMove(u, op, e) ==
  LET b0 == Swap(e)
      b1 == Swap((e + 1) % V)
  IN IF op = "MFC2" THEN [u EXCEPT !.r = <<u.v[b0], u.v[b1]>>]
     ELSE [u EXCEPT !.v = [h \in Bytes |-> CASE h = b0 -> u.r[3]
                                             [] h = b1 /\ e # V - 1 -> u.r[4]
                                             [] OTHER -> u.v[h]]]

emitOp(u, op, e, a) ==
  CASE op \in {"LPV", "LUV"} -> emitVecPack(u, op, e, a)
    [] op \in {"SPV", "SUV"} /\ e \in {0, H} -> emitVecPackStore(u, op, e, a)
    [] op \in {"LSV", "LLV", "LDV", "LQV", "SSV", "SLV", "SDV", "SQV"} -> emitVecMem(u, op, e, a)
    [] op = "LBV" -> [u EXCEPT !.v[Swap(e)] = u.dm[a % M]]
    [] op = "SBV" -> [u EXCEPT !.dm[a % M] = u.v[Swap(e)]]
    [] op \in {"LH", "LW", "SH", "SW"} -> emitScalar(u, op, a)
    [] op \in {"MFC2", "MTC2"} -> emitVecMove(u, op, e)
    [] OTHER -> execSpans(u, op, e, a)

-----------------------------------------------------------------------------
VecOps == {"LBV", "LSV", "LLV", "LDV", "LQV", "LRV", "LPV", "LUV",
           "SBV", "SSV", "SLV", "SDV", "SQV", "SRV", "SPV", "SUV",
           "LH", "LW", "SH", "SW", "MFC2", "MTC2"}

VecMemInit == unit = [bytes |-> Fresh, spans |-> Fresh, jit |-> Fresh] /\ vmDone = FALSE

\* One instruction from a state where every byte is distinct, at any element
\* and any address, the last ones of DMEM included.
Access(op, e, a) ==
  unit' = [bytes |-> execBytes(unit.bytes, op, e, a), spans |-> execSpans(unit.spans, op, e, a),
           jit |-> emitOp(unit.jit, op, e, a)]

VecMemNext ==
  /\ ~vmDone /\ vmDone' = TRUE
  /\ \E op \in VecOps, e \in Bytes, a \in 0 .. (M - 1) : Access(op, e, a)

-----------------------------------------------------------------------------
\* Every byte of the register, of DMEM and of the scalar register is the same
\* whichever path ran the instruction: the spans and the shuffles read and
\* write what the byte loop does, at DMEM's end and past the register's end
\* too.
SpansAreBytes == unit.spans = unit.bytes /\ unit.jit = unit.bytes
=============================================================================
