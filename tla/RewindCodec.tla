---------------------------- MODULE RewindCodec ----------------------------
(***************************************************************************)
(* The differences of the rewind tape (core/rewind.hpp, namespace codec).  *)
(* A difference rebuilds the old photo from the new one: the length of the *)
(* old photo and records that cover it, each a run to be copied from the   *)
(* new photo and a run of literal bytes.  A photo is a sequence of bytes;  *)
(* positions count from 0, as in the code.                                 *)
(***************************************************************************)
EXTENDS Integers, Sequences, FiniteSets, SequencesExt

CONSTANTS
  Word,          \* makeDelta compares words of 4 bytes
  Gap            \* kGap: a run of equal bytes that ends a run of literals

ASSUME CodecAssumption == Word \in Nat \ {0} /\ Gap \in Nat \ {0}

\* The n bytes of s from position i.
Bytes(s, i, n) == SubSeq(s, i + 1, i + n)

Rec(same, diff) == [same |-> same, diff |-> diff]

\* What a difference takes in memory: u64, and two u32 and the literals of each record.
DeltaSize(d) == FoldLeft(LAMBDA n, r : n + 8 + Len(r.diff), 8, d.recs)

----------------------------------------------------------------------------
(* makeDelta: the whole of both photos is there. *)

\* The words that both photos have in full, in bytes.
Common(new, old) ==
  LET n == IF Len(new) < Len(old) THEN Len(new) ELSE Len(old) IN (n \div Word) * Word
EqualWord(new, old, i) ==
  i + Word <= Common(new, old) /\ Bytes(new, i, Word) = Bytes(old, i, Word)

SameRun(new, old, i) ==
  LET run[j \in 0 .. Len(old)] == IF EqualWord(new, old, j) THEN Word + run[j + Word] ELSE 0
  IN run[i]

\* Up to the next equal word; outside the common words all is literal.
DiffRun(new, old, i) ==
  LET run[j \in 0 .. Len(old)] ==
        LET step == IF j + Word <= Common(new, old) THEN Word ELSE Len(old) - j
        IN IF j >= Len(old) \/ EqualWord(new, old, j) THEN 0 ELSE step + run[j + step]
  IN run[i]

Records(new, old) ==
  LET from[i \in 0 .. Len(old)] ==
        LET same == SameRun(new, old, i)
            diff == Bytes(old, i + same, DiffRun(new, old, i + same))
        IN IF i >= Len(old) THEN <<>> ELSE <<Rec(same, diff)>> \o from[i + same + Len(diff)]
  IN from[0]

MakeDelta(new, old) == [len |-> Len(old), recs |-> Records(new, old)]

----------------------------------------------------------------------------
(* DeltaSink: the new state comes in pieces and is written over the old    *)
(* photo as it is compared with it.                                        *)

\* DeltaSink::begin
Start(old) == [base |-> old, pos |-> 0, recs |-> <<>>, same |-> 0, pendEq |-> 0, diff |-> <<>>,
               overflow |-> FALSE]

\* DeltaSink::pair
Pair(k) == [k EXCEPT !.recs = Append(@, Rec(k.same, k.diff)), !.diff = <<>>]

\* DeltaSink::eq, and pos moves on: a short run of equal bytes waits to see
\* whether it is one with the literals on its two sides.
Eq(k, n) ==
  LET w == [k EXCEPT !.pendEq = @ + n, !.pos = @ + n]
  IN IF k.diff = <<>> THEN [k EXCEPT !.same = @ + n, !.pos = @ + n]
     ELSE IF w.pendEq >= Gap THEN [Pair(w) EXCEPT !.same = w.pendEq, !.pendEq = 0] ELSE w

\* DeltaSink::ne, and pos moves on: the old bytes become literals, after the
\* equal ones that waited, and the new ones take their place.
NeForgetsGap(k, src) ==
  [k EXCEPT !.diff = @ \o Bytes(k.base, k.pos, Len(src)),
            !.pendEq = 0,
            !.base = SubSeq(@, 1, k.pos) \o src \o SubSeq(@, k.pos + Len(src) + 1, Len(@)),
            !.pos = @ + Len(src)]
Ne(k, src) ==
  [k EXCEPT !.diff = @ \o Bytes(k.base, k.pos - k.pendEq, k.pendEq + Len(src)),
            !.pendEq = 0,
            !.base = SubSeq(@, 1, k.pos) \o src \o SubSeq(@, k.pos + Len(src) + 1, Len(@)),
            !.pos = @ + Len(src)]

\* How many of the n bytes of src from i agree (differ) with base at pos.
RunLength(k, src, i, agree) ==
  CHOOSE n \in 0 .. Len(src) - i :
    /\ \A m \in 0 .. n - 1 : (src[i + m + 1] = k.base[k.pos + m + 1]) = agree
    /\ i + n < Len(src) => (src[i + n + 1] = k.base[k.pos + n + 1]) # agree

\* DeltaSink::feed: in each turn of its loop what agrees, then what differs.
Feed(k, src) ==
  LET fed[n \in 0 .. Len(src)] ==    \* the sink and the bytes it took, after n turns
        IF n = 0 THEN [sink |-> k, i |-> 0]
        ELSE LET f == fed[n - 1]
                 e == RunLength(f.sink, src, f.i, TRUE)
                 k1 == IF e > 0 THEN Eq(f.sink, e) ELSE f.sink
                 m == RunLength(k1, src, f.i + e, FALSE)
             IN IF f.i >= Len(src) THEN f
                ELSE IF f.i + e >= Len(src) THEN [sink |-> k1, i |-> f.i + e]
                ELSE [sink |-> Ne(k1, Bytes(src, f.i + e, m)), i |-> f.i + e + m]
  IN IF k.overflow \/ k.pos + Len(src) > Len(k.base) THEN [k EXCEPT !.overflow = TRUE]
     ELSE fed[Len(src)].sink

\* DeltaSink::finish: what is still open is written out.
Finish(k) ==
  IF k.diff # <<>>
  THEN IF k.pendEq # 0 THEN Pair([Pair(k) EXCEPT !.same = k.pendEq]) ELSE Pair(k)
  ELSE IF k.same # 0 THEN Pair(k) ELSE k
Finished(k) == ~k.overflow /\ k.pos = Len(k.base)

\* The state comes in two pieces: captureDelta feeds it field by field.
HotDelta(new, old, cut) ==
  LET k == Feed(Feed(Start(old), SubSeq(new, 1, cut)), SubSeq(new, cut + 1, Len(new)))
  IN [ok |-> Finished(k), cur |-> k.base,
      delta |-> [len |-> Len(old), recs |-> Finish(k).recs]]

----------------------------------------------------------------------------
(* applyDelta: FALSE instead of a photo when the records do not fit. *)

ApplyDelta(new, d) ==
  LET after[n \in 0 .. Len(d.recs)] ==  \* the photo after n records, <<>> when one did not fit
        IF n = 0 THEN <<>>
        ELSE LET a == after[n - 1]
                 r == d.recs[n]
                 j == Len(a) + r.same
             IN IF n > 1 /\ a = <<>> THEN a
                ELSE IF Len(a) >= d.len THEN a
                ELSE IF (r.same = 0 /\ r.diff = <<>>) \/ j > d.len \/ j > Len(new) \/ j + Len(r.diff) > d.len
                THEN <<>>
                ELSE a \o Bytes(new, Len(a), r.same) \o r.diff
      photo == after[Len(d.recs)]
  IN [ok |-> Len(photo) = d.len, photo |-> photo]
=============================================================================
