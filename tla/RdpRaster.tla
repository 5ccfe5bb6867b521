----------------------------- MODULE RdpRaster -----------------------------
(***************************************************************************)
(* The edge walk of a triangle (drawTriangle; the cost walk and            *)
(* gpuTriangle repeat it word for word): every edge is evaluated on the    *)
(* four sub-scanlines of a row, quantised to eighths of a pixel with a     *)
(* sticky bit, and eight samples a pixel say what is covered.  Shade and   *)
(* depth are anchored on the major edge and taken at the first covered     *)
(* sample.                                                                 *)
(*                                                                         *)
(* x is in sixteenths of a pixel (16.15 in the code: the bits below are    *)
(* only the sticky bit's), y in quarters of a line.  The setup of the      *)
(* coefficients is the microcode's; only slopes that are exact are used,   *)
(* so the low bits the code drops of an attribute are zero.                *)
(***************************************************************************)
EXTENDS Integers, Sequences, FiniteSets

CONSTANTS VertexX, VertexY,   \* coordinates of the corners
          Scissors,           \* values of <<sx0, sx1, sy0, sy1>>, in pixels
          Planes              \* <<gx, gy>>: slope of an attribute per unit of x and of y

VARIABLES quad,     \* four corners, in order
          scissor,
          plane,
          row,      \* the line being walked
          lines     \* what the walk of this line gave, for each of the four triangles

rasterVars == <<quad, scissor, plane, row, lines>>

Columns2 == 0..((CHOOSE m \in VertexX : \A x \in VertexX : x <= m) \div 16)
LastRow == (CHOOSE m \in VertexY : \A y \in VertexY : y <= m) \div 4

(***************************************************************************)
(* Corners and coefficients (external: the microcode's setup).             *)
(***************************************************************************)
Cross(a, b, c) == (b[1] - a[1]) * (c[2] - a[2]) - (b[2] - a[2]) * (c[1] - a[1])
Exact(a, b) == a[2] # b[2] => (b[1] - a[1]) % (IF b[2] > a[2] THEN b[2] - a[2] ELSE a[2] - b[2]) = 0
Slope(a, b) == IF a[2] = b[2] THEN 0 ELSE
  LET dy == b[2] - a[2]  dx == b[1] - a[1] IN IF dx < 0 THEN -((-dx) \div dy) ELSE dx \div dy

Quads ==
  LET Grid == VertexX \X VertexY
      From(a) == {v \in Grid : v[2] > a[2] \/ (v[2] = a[2] /\ v[1] > a[1])}
      Pairs == UNION {{<<a, b>> : b \in {v \in From(a) : Exact(a, v)}} : a \in Grid}
      Triples == UNION {{Append(p, c) : c \in {v \in From(p[1]) : /\ Cross(p[1], p[2], v) > 0
                                                     /\ Exact(p[1], v) /\ Exact(p[2], v)}} : p \in Pairs}
  IN  UNION {{Append(t, d) : d \in {v \in From(t[1]) :
                /\ Cross(t[2], t[3], v) > 0 /\ Cross(t[3], v, t[1]) > 0 /\ Cross(v, t[1], t[2]) > 0
                /\ Exact(t[1], v) /\ Exact(t[2], v) /\ Exact(t[3], v)}} : t \in Triples}

Setup(a, b, c) ==
  LET S == {a, b, c}
      t == CHOOSE v \in S : \A w \in S : v[2] < w[2] \/ (v[2] = w[2] /\ v[1] <= w[1])
      l == CHOOSE v \in S \ {t} : \A w \in S \ {t} : v[2] > w[2] \/ (v[2] = w[2] /\ v[1] <= w[1])
      m == CHOOSE v \in S \ {t, l} : TRUE
      base == (t[2] \div 4) * 4
      \* a horizontal top: the edge that goes down from its right end is the L edge
  IN  [yh |-> t[2], ym |-> m[2], yl |-> l[2],
       dxh |-> Slope(t, l), xh |-> t[1] - (t[2] - base) * Slope(t, l),
       dxm |-> Slope(t, m), xm |-> t[1] - (t[2] - base) * Slope(t, m),
       dxl |-> Slope(m, l), xl |-> m[1],
       left |-> Cross(t, l, m) < 0]

Triangles(q) == <<Setup(q[1], q[2], q[3]), Setup(q[1], q[3], q[4]),
                  Setup(q[1], q[2], q[4]), Setup(q[2], q[3], q[4])>>

-----------------------------------------------------------------------------
(***************************************************************************)
(* The walk.                                                               *)
(***************************************************************************)
Lesser(a, b) == IF a < b THEN a ELSE b
Greater(a, b) == IF a < b THEN b ELSE a

\* eighths of a pixel; what falls below leaves the lowest bit set
quant(x) == LET e == x \div 2 IN IF x % 2 # 0 /\ e % 2 = 0 THEN e + 1 ELSE e

\* a plausible slip: the middle and the major edge are anchored at yh itself
yhBaseFraction(t) == t.yh

yhBase(t) == (t.yh \div 4) * 4

EdgeH(t, ys) == t.xh + (ys - yhBase(t)) * t.dxh
EdgeL(t, ys) == IF ys < t.ym THEN t.xm + (ys - yhBase(t)) * t.dxm ELSE t.xl + (ys - t.ym) * t.dxl

\* [L, R) of a sub-scanline, clipped to the scissor; empty when it has no pixel
SubSpan(t, s, ys) ==
  LET L == quant(IF t.left THEN EdgeH(t, ys) ELSE EdgeL(t, ys))
      R == quant(IF t.left THEN EdgeL(t, ys) ELSE EdgeH(t, ys))
      Clip(v) == Lesser(Greater(v, s[1] * 8), s[2] * 8)
      subLo == Greater(t.yh, s[3] * 4)
      subHi == Lesser(t.yl, s[4] * 4)
  IN  IF (L \div 2) > (R \div 2) \/ ys < subLo \/ ys >= subHi THEN <<65535, 0>>
      ELSE <<Clip(L), Clip(R)>>

\* the samples of pixel x of line y: k is the sub-scanline, h its left or right half
SampleX(x, k, h) == x * 8 + (IF k % 2 = 1 THEN 2 ELSE 0) + 4 * h

coverage(t, s, x, y) ==
  {kh \in (0..3) \X (0..1) :
     LET q == SubSpan(t, s, y * 4 + kh[1])
     IN  q[1] <= SampleX(x, kh[1], kh[2]) /\ SampleX(x, kh[1], kh[2]) < q[2]}

centroid(cv) ==
  CHOOSE kh \in cv : \A o \in cv : kh[1] < o[1] \/ (kh[1] = o[1] /\ kh[2] <= o[2])

\* the attribute at the start of a line: base_x and the value there
rowAttr(t, c0, ddx, dde, ddy, y) ==
  LET dyRow == y - t.yh \div 4
      doOffset == t.left = (t.dxh < 0)
      xhRow == t.xh + dyRow * 4 * t.dxh + (IF doOffset THEN 3 * t.dxh ELSE 0)
      diff == IF doOffset THEN 3 * (dde \div 4) - 3 * (ddy \div 4) ELSE 0
  IN  [base |-> xhRow \div 16, v |-> c0 + dde * dyRow + diff - (xhRow % 16) * (ddx \div 16)]

\* shadeAt, zAt: the value at the centroid of a pixel
AttributeAt(t, p, x, y, cv) ==
  LET ddx == 16 * p[1]  ddy == 4 * p[2]
      dde == 4 * (p[2] + t.dxh * p[1])
      r == rowAttr(t, p[1] * t.xh + p[2] * yhBase(t), ddx, dde, ddy, y)
      yo == centroid(cv)[1]
      xo == 2 * centroid(cv)[2] + (yo % 2)
  IN  r.v + ddx * (x - r.base) + xo * (ddx \div 4) + yo * (ddy \div 4)

\* one line of a triangle: what each of its pixels covers, and its attribute
Line(t, s, p, y) ==
  [x \in Columns2 |-> LET cv == coverage(t, s, x, y) IN
     [cov |-> cv, at |-> IF cv = {} THEN 0 ELSE AttributeAt(t, p, x, y, cv)]]

Blank == [x \in Columns2 |-> [cov |-> {}, at |-> 0]]

RasterInit ==
  /\ quad \in Quads /\ scissor \in Scissors /\ plane \in Planes
  /\ row = -1 /\ lines = [i \in 1..4 |-> Blank]

RasterNext ==
  /\ row < LastRow
  /\ row' = row + 1
  /\ lines' = [i \in 1..4 |-> Line(Triangles(quad)[i], scissor, plane, row + 1)]
  /\ UNCHANGED <<quad, scissor, plane>>

-----------------------------------------------------------------------------
\* the sides of the quad a sub-scanline crosses, and where
Crossings(ys) ==
  {LET a == quad[i]  b == quad[(i % 4) + 1]
       t == IF a[2] < b[2] THEN a ELSE b
       l == IF a[2] < b[2] THEN b ELSE a
   IN  t[1] + (ys - t[2]) * Slope(t, l) : i \in
     {j \in 1..4 : LET a == quad[j]  b == quad[(j % 4) + 1]
                   IN  Lesser(a[2], b[2]) <= ys /\ ys < Greater(a[2], b[2])}}

Inside(x, k, h) ==
  LET X == Crossings(row * 4 + k)
      s == 2 * SampleX(x, k, h)
  IN  /\ \E c \in X : c <= s /\ \E c2 \in X : s < c2
      /\ scissor[1] <= x /\ x < scissor[2] /\ scissor[3] <= row /\ row < scissor[4]

(***************************************************************************)
(* Two triangles that share an edge leave no seam and no double pixel: cut *)
(* along either diagonal, every sample inside the quad is covered by       *)
(* exactly one of the two, and no other sample by any ("quedaban pixeles   *)
(* que no pintaba ninguno" is what the anchor of the edges cures).         *)
(***************************************************************************)
NoSeams ==
  row >= 0 => \A x \in Columns2, k \in 0..3, h \in 0..1, cut \in {<<1, 2>>, <<3, 4>>} :
    LET hits == {i \in {cut[1], cut[2]} : <<k, h>> \in lines[i][x].cov}
    IN  IF Inside(x, k, h) THEN Cardinality(hits) = 1 ELSE hits = {}

(***************************************************************************)
(* Whichever triangle draws it and whatever its anchor, a pixel takes the  *)
(* value its attribute has at the sample it is drawn for: an attribute     *)
(* that is one plane over the quad shows no step along the cut.            *)
(***************************************************************************)
AttributesOnPlane ==
  \A i \in 1..4, x \in Columns2 : LET l == lines[i][x] IN l.cov # {} =>
    l.at = plane[1] * 2 * SampleX(x, centroid(l.cov)[1], centroid(l.cov)[2])
           + plane[2] * (row * 4 + centroid(l.cov)[1])
=============================================================================
