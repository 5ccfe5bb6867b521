------------------------------- MODULE RdpTmem -------------------------------
(***************************************************************************)
(* The texture memory of the rasterizer (src/src/rdp/rdp.cpp): the three   *)
(* loads that fill it (LOAD_TILE, LOAD_BLOCK, LOAD_TLUT) and the sampler   *)
(* that reads it back.  The loads store every odd row with the halves of   *)
(* its 64-bit words exchanged, split 32-bit and YUV texels between the two *)
(* halves of the memory and wrap at its end; the sampler undoes all that   *)
(* from the folded coordinate alone, and sees rows where LOAD_BLOCK only   *)
(* saw a counter.                                                          *)
(*                                                                         *)
(* A texel is the sequence of RDRAM nibbles it was made of, so what comes  *)
(* back can be compared with what the texture image held; turning those    *)
(* bits into a colour is left out.  A byte of TMEM is a pair of nibbles.   *)
(* Every load uses a tile of its own.                                      *)
(***************************************************************************)
EXTENDS Integers, Sequences, FiniteSets

CONSTANTS TmemBytes,    \* 0x1000 in the code, two halves of 0x800
          RamBytes,     \* installed RDRAM
          TiWidth,      \* SET_TEXTURE_IMAGE: width in texels
          Loads,        \* the loads a display list may contain
          Foldings,     \* <<mask, cm>> of the tiles it samples with
          Points,       \* S or T coordinates it samples at (10.5)
          MaxLoads      \* bound: loads in a display list

VARIABLES texMem,         \* byte of TMEM -> its two nibbles
          tiles         \* the loads performed, oldest first

tmemVars == <<texMem, tiles>>

HalfWord == TmemBytes \div 2
Pow2(n) == 2 ^ n
Xor4(a) == IF (a \div 4) % 2 = 1 THEN a - 4 ELSE a + 4
SwapOdd(a, row) == IF row % 2 = 1 THEN Xor4(a) ELSE a
RamByte(a) == <<2 * a, 2 * a + 1>>
Empty2 == <<-1, -1>>
\* Nibbles of a texel of each ti_size / tile size (0 = 4 bits ... 3 = 32 bits).
Nibbles(size) == Pow2(size)
CeilDiv(a, b) == (a + b - 1) \div b

(***************************************************************************)
(* Loads.  A load is a list of writes of RDRAM bytes (source, destination),*)
(* where a source past the installed memory does not exist.                *)
(***************************************************************************)
\* Write the bytes of W, a set of <<destination, source>>, modulo the memory's end.
PutBytes(m, W) ==
    [d \in 0 .. TmemBytes - 1 |->
        LET here == {w \in W : w[1] % TmemBytes = d /\ w[2] < RamBytes}
        IN  IF here = {} THEN m[d] ELSE RamByte((CHOOSE w \in here : TRUE)[2])]

\* put32: one 32-bit texel, or one YUV pair, half in the low and half in the high half.
put32(d0, sa, yuv) ==
    LET d == (d0 % HalfWord) - (d0 % 2)
        at == IF yuv THEN <<0, 2, 1, 3>> ELSE <<0, 1, 2, 3>>
    IN  IF sa + 3 >= RamBytes THEN {}
        ELSE {<<d, sa + at[1]>>, <<d + 1, sa + at[2]>>, <<d + HalfWord, sa + at[3]>>, <<d + HalfWord + 1, sa + at[4]>>}

Split(l) == l.size = 3 \/ l.yuv

\* blockCopy's row counter: DXT (1.11) per 64-bit word.
RowOf(i, dxt) == (i * dxt) \div Pow2(11)

blockCopy(l, src, nb) ==
    LET dst == l.base * 8 IN
    IF Split(l)
    THEN UNION {LET row == RowOf(i, l.dxt)
                    w == SwapOdd(dst + i * 4 + row * l.line * 8, row)
                IN  put32(w, src + 8 * i, l.yuv) \cup (IF 8 * i + 4 < nb THEN put32(w + 2, src + 8 * i + 4, l.yuv) ELSE {}) :
                i \in 0 .. CeilDiv(nb, 8) - 1}
    ELSE {LET row == RowOf(b \div 8, l.dxt)
          IN  <<SwapOdd(dst + (b \div 8 + row * l.line) * 8 + (b % 8), row), src + b>> : b \in 0 .. nb - 1}

\* The contiguous texels sl .. sh of row tlo.
LoadBlock(m, l) ==
    LET count == IF l.s1 >= l.s0 THEN l.s1 - l.s0 + 1 ELSE 1
    IN  PutBytes(m, blockCopy(l, l.addr + ((l.t0 * TiWidth + l.s0) * Nibbles(l.size)) \div 2, CeilDiv(count * Nibbles(l.size), 2)))

RowStart(l, r) == l.base * 8 + r * l.line * 8
TexelAddr(l, x, y) == ((y * TiWidth + x) * Nibbles(l.size)) \div 2 + l.addr

\* 4-bit tiles are copied nibble by nibble: the parity of the source and of the
\* destination need not agree.
LoadNibbles(m, l) ==
    [d \in 0 .. TmemBytes - 1 |->
        [h \in 1 .. 2 |->
            LET here == {p \in (l.s0 .. l.s1) \X (l.t0 .. l.t1) :
                            /\ SwapOdd(RowStart(l, p[2] - l.t0) + (p[1] - l.s0) \div 2, p[2] - l.t0) % TmemBytes = d
                            /\ (p[1] - l.s0) % 2 = h - 1
                            /\ TexelAddr(l, p[1], p[2]) < RamBytes}
            IN  IF here = {} THEN m[d][h]
                ELSE LET p == CHOOSE p \in here : TRUE IN RamByte(TexelAddr(l, p[1], p[2]))[(p[1] % 2) + 1]]]

LoadTile(m, l) ==
    LET rows == 0 .. l.t1 - l.t0
        texels == l.s1 - l.s0 + 1
        pairs == ((texels + 3) \div 4) * 2
    IN  IF l.size = 0 THEN LoadNibbles(m, l)
        ELSE IF l.s1 < l.s0 \/ l.t1 < l.t0 THEN m
        ELSE PutBytes(m, UNION {
            LET src == TexelAddr(l, l.s0, l.t0 + r) IN
            IF Split(l)
            THEN UNION {put32(SwapOdd(RowStart(l, r) + 2 * k, r), src + 4 * k, l.yuv) :
                            k \in 0 .. (IF l.yuv THEN pairs ELSE texels) - 1}
            ELSE {<<SwapOdd(RowStart(l, r) + b, r), src + b>> : b \in 0 .. (texels * Nibbles(l.size)) \div 2 - 1} : r \in rows})

\* LOAD_TLUT: the texel that the 16-bit word po after the tile's base takes, -1 for none.
TlutTexel(vs, ts, w, po) ==
    LET effW == IF vs = 1 THEN CeilDiv(w, 8) * 8 ELSE IF vs = 2 THEN w ELSE CeilDiv(w, 2) * 2
        shift == Pow2(ts + (IF vs = 2 THEN 2 ELSE 0))
        sp == CASE vs - ts = 2  -> (po \div 4) * Pow2(vs - 2)
                [] vs - ts = 1  -> IF (po \div 4) % 2 = 1 THEN -1 ELSE (po - (po % 8)) \div shift
                [] vs - ts = 0  -> IF (po \div 4) % 4 # 0 THEN -1 ELSE (po - (po % 4)) \div shift
                [] vs - ts = -1 -> IF (po \div 4) % 8 # 0 THEN -1 ELSE (po \div Pow2(ts)) - ((po \div Pow2(ts)) % 8)
                [] OTHER        -> IF (po \div 4) * 4 + 2 < effW THEN (po \div 4) * 4 + 2 ELSE (po \div 4) * 4
    IN  IF sp >= effW THEN -1 ELSE sp

LoadTlut(m, l) ==
    LET w == l.s1 - l.s0 + 1
        Words == TmemBytes \div 2
        from(n) == LET sp == TlutTexel(l.size, l.tsize, w, (n - l.base * 4) % Words)
                       ra == TexelAddr(l, l.s0, l.t0) + sp * Pow2(l.size - 1)
                   IN  IF sp < 0 THEN -1 ELSE ra + 2 * (ra % 2) * (((n - l.base * 4) % Words) % 4)
    IN  IF l.size = 0 \/ l.tsize = 3 THEN m
        ELSE [d \in 0 .. TmemBytes - 1 |->
                LET ra == from(d \div 2) IN IF ra < 0 \/ ra + 1 >= RamBytes THEN m[d] ELSE RamByte(ra + (d % 2))]

(***************************************************************************)
(* The sampler: the tile's coordinate, the two folds and the read.         *)
(***************************************************************************)
Saturated16(c) == IF c < -32768 THEN -32768 ELSE IF c > 32767 THEN 32767 ELSE c
Signed16(c) == ((c + 32768) % 65536) - 32768

tileCoordClamp(c0, shift, lo, hi, cl) ==
    LET c1 == Saturated16(c0)
        c == IF shift = 0 THEN c1 ELSE IF shift <= 10 THEN c1 \div Pow2(shift) ELSE Signed16(c1 * Pow2(16 - shift))
    IN  IF ~cl THEN c - lo * 8
        ELSE IF c \div 8 >= hi THEN ((hi \div 4 - lo \div 4) % 1024) * 32
        ELSE IF c - lo * 8 < 0 THEN 0 ELSE c - lo * 8

Mirrors(cm) == cm % 2 = 1
Clamps(mask, cm) == cm >= 2 \/ mask = 0

\* maskCoord: c ^= (c & m) - 1 in the odd periods, then the AND.
maskCoord(c, mask, cm) ==
    LET m == Pow2(mask)
    IN  IF mask = 0 THEN c
        ELSE IF Mirrors(cm) /\ (c \div m) % 2 = 1 THEN (m - 1) - (c % m) ELSE c % m

\* The tile whose masks neither clamp nor mirror goes straight to the AND.
fold(c, mask, cm) == IF mask # 0 /\ cm = 0 THEN c % Pow2(mask) ELSE maskCoord(c, mask, cm)

\* What the filter reads at a coordinate of the tile, as <<texel, fraction>>.
At(c) == <<c \div 32, c % 32>>

\* filterK's taps that carry weight, as offsets from (s0, t0).
Taps(fx, fy) ==
    IF fx + fy >= 32 THEN {o \in {<<1, 1>>, <<1, 0>>, <<0, 1>>} : o = <<1, 1>> => fx + fy > 32}
    ELSE {o \in {<<0, 0>>, <<1, 0>>, <<0, 1>>} : (o = <<1, 0>> => fx > 0) /\ (o = <<0, 1>> => fy > 0)}

Bytes2(a, n) == [k \in 1 .. 2 * n |-> texMem[(a + (k - 1) \div 2)][((k - 1) % 2) + 1]]

\* fetchK: the texel (s, t) of a tile, by the size it is sampled with.
fetchK(l, s, t) ==
    LET row == l.base * 8 + t * l.vline * 8 IN
    IF l.yuv
    THEN LET c == SwapOdd(((row + 2 * (s \div 2)) % HalfWord), t)
         IN  Bytes2(c, 2) \o Bytes2(HalfWord + SwapOdd((row + s) % HalfWord, t), 1)
    ELSE CASE l.view = 3 -> LET off == (SwapOdd(row + 2 * s, t) % HalfWord) IN Bytes2(off, 2) \o Bytes2(off + HalfWord, 2)
           [] l.view = 0 -> LET raw == row + s \div 2
                                off == IF l.ci THEN SwapOdd(raw % HalfWord, t) ELSE SwapOdd(raw, t)
                            IN  IF off >= TmemBytes THEN <<0>> ELSE <<texMem[off][(s % 2) + 1]>>
           [] OTHER -> LET n == Pow2(l.view - 1)
                           raw == row + n * s
                           off == IF l.ci THEN SwapOdd(raw % HalfWord, t) ELSE SwapOdd(raw, t)
                       IN  IF off + n - 1 >= TmemBytes THEN <<0>> ELSE Bytes2(off, n)

\* The palette entry a filter tap reads in its bank.
tlutEntry(idx, bank) == Bytes2(HalfWord + idx * 8 + bank * 2, 2)

(***************************************************************************)
(* The display list.                                                       *)
(***************************************************************************)
TmemInit ==
    /\ texMem = [d \in 0 .. TmemBytes - 1 |-> Empty2]
    /\ tiles = << >>

Loaded(m, l) ==
    CASE l.op = "tile"  -> LoadTile(m, l)
      [] l.op = "block" -> LoadBlock(m, l)
      [] OTHER          -> LoadTlut(m, l)

Load(l) ==
    /\ Len(tiles) < MaxLoads
    /\ texMem' = Loaded(texMem, l)
    /\ tiles' = Append(tiles, l)

TmemNext == \E l \in Loads : Load(l)

(***************************************************************************)
(* What a display list counts on.                                          *)
(***************************************************************************)
\* The 64-bit words a row takes (of one half, when the texels are split).
RowWords(l) ==
    IF l.yuv THEN CeilDiv(((l.s1 - l.s0 + 4) \div 4) * 4, 8)
    ELSE IF l.size = 3 THEN CeilDiv((l.s1 - l.s0 + 1) * 2, 8)
    ELSE CeilDiv((l.s1 - l.s0 + 1) * Nibbles(l.size), 16)

Words(l) ==
    CASE l.op = "tlut" -> {l.base + i * Pow2(l.tsize) : i \in 0 .. l.s1 - l.s0}
      [] l.op = "tile" -> {l.base + r * l.line + i : r \in 0 .. l.t1 - l.t0, i \in 0 .. RowWords(l) - 1}
      [] OTHER         -> l.base .. l.base + RowWords(l) - 1

\* Both halves when the texels are split; a load that passes the end goes on at the start.
Taken(l) == {w % (TmemBytes \div 8) : w \in Words(l) \cup (IF l.op # "tlut" /\ Split(l) THEN {v + HalfWord \div 8 : v \in Words(l)} ELSE {})}
InTmem(l) == \A w \in Words(l) : w < (IF l.op # "tlut" /\ Split(l) THEN HalfWord ELSE TmemBytes) \div 8
Intact(i) == InTmem(tiles[i]) /\ \A k \in i + 1 .. Len(tiles) : Taken(tiles[i]) \cap Taken(tiles[k]) = {}

\* The rows and columns of a loaded texture, in texels of the size it is sampled with.
\* A block's rows are the ones its DXT was chosen for.
Height(l) == IF l.op = "tile" THEN l.t1 - l.t0 + 1 ELSE RowWords(l) \div l.rowWords
RowLength(l) ==
    IF l.op = "tile" THEN ((l.s1 - l.s0 + 1) * Nibbles(l.size)) \div (IF l.yuv THEN 4 ELSE Nibbles(l.view))
    ELSE (l.rowWords * (IF Split(l) THEN 32 ELSE 16)) \div (IF l.yuv THEN 4 ELSE Nibbles(l.view))

\* The nibbles of the texture image a texel was made of.
Source(l, s, t) ==
    LET first == (IF l.op = "tile" THEN ((l.t0 + t) * TiWidth + l.s0) * Nibbles(l.size)
                  ELSE (l.t0 * TiWidth + l.s0) * Nibbles(l.size) + t * l.rowWords * (IF Split(l) THEN 32 ELSE 16)) + 2 * l.addr
        bytes(a) == RamByte(a)
        pair == first \div 2 + 4 * (s \div 2)
    IN  IF l.yuv THEN bytes(pair) \o bytes(pair + 2) \o bytes(pair + 1 + 2 * (s % 2))
        ELSE [k \in 1 .. Nibbles(l.view) |-> first + s * Nibbles(l.view) + k - 1]

InRam(seq) == \A k \in DOMAIN seq : seq[k] < 2 * RamBytes

\* A coordinate of the plane, repeated or mirrored every 2^mask texels.
Tiled(c, mask, cm) ==
    LET period == Pow2(mask)
    IN  IF mask = 0 THEN c
        ELSE CHOOSE x \in 0 .. period - 1 :
                \E n \in -64 .. 64 : IF Mirrors(cm) THEN c = 2 * n * period + x \/ c = 2 * n * period - 1 - x ELSE c = n * period + x

\* The point of the tile that a coordinate stands for, held in [0, last] by the clamp.
Held2(p, last, clamped) == IF ~clamped THEN p ELSE IF p < 0 THEN 0 ELSE IF p > 32 * last THEN 32 * last ELSE p

\* What comes back is what was loaded: at every point the list samples, under every way
\* of folding, each tap that carries weight reads exactly the texel of the texture image
\* that the repeated, mirrored or clamped plane has there, whatever was loaded around it
\* and however the rows went in (rdp.cpp loadTile, filterK, fetchK), and every bank of a
\* palette holds its entries (LOAD_TLUT, tlutEntry).
TexelsComeBack ==
    \A i \in DOMAIN tiles :
        LET l == tiles[i] IN
        Intact(i) =>
            IF l.op = "tlut"
            THEN (l.size = 2 /\ l.tsize = 0 /\ l.base >= HalfWord \div 8) =>
                    \A n \in 0 .. l.s1 - l.s0, bank \in 0 .. 3 :
                        LET a == TexelAddr(l, l.s0 + n, l.t0)
                        IN  (a + 1 < RamBytes /\ a % 2 = 0) => tlutEntry(l.base - HalfWord \div 8 + n, bank) = RamByte(a) \o RamByte(a + 1)
            ELSE LET w == RowLength(l)
                     h == Height(l)
                 IN  \A f \in Foldings, g \in Foldings :
                        (Pow2(f[1]) <= w /\ Pow2(g[1]) <= h) =>
                        \A p \in Points, q \in Points :
                            LET c == At(tileCoordClamp(p, 0, 0, 4 * (w - 1), Clamps(f[1], f[2])))
                                d == At(tileCoordClamp(q, 0, 0, 4 * (h - 1), Clamps(g[1], g[2])))
                                x == At(Held2(p, w - 1, Clamps(f[1], f[2])))
                                y == At(Held2(q, h - 1, Clamps(g[1], g[2])))
                            IN  {fetchK(l, fold(c[1] + o[1], f[1], f[2]), fold(d[1] + o[2], g[1], g[2])) : o \in Taps(c[2], d[2])}
                                = {LET s == Tiled(x[1] + o[1], f[1], f[2])
                                       t == Tiled(y[1] + o[2], g[1], g[2])
                                       src == Source(l, s, t)
                                   IN  IF InRam(src) THEN src ELSE fetchK(l, s, t) : o \in Taps(x[2], y[2])}
=============================================================================
