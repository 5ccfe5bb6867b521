----------------------------- MODULE DataCache -----------------------------
(* The write-back D-cache over an RDRAM whose RSP DMAs wait in a journal.    *)
(* An entry of the journal is older than anything the CPU does now, so every *)
(* place where the CPU touches RDRAM settles the journal first (dmaSettle):  *)
(* a line filled too early holds old bytes, and a line written back too      *)
(* early is overwritten by an older DMA.                                     *)
(*                                                                           *)
(* The same operations run on two machines: one with the journal, one where  *)
(* a DMA reaches RDRAM at once.  A line is one value; the lines of RDRAM     *)
(* share Indexes lines of the cache.                                         *)
EXTENDS Integers, Sequences

CONSTANTS
  Lines,        \* lines of RDRAM
  Indexes,      \* lines of the cache (512)
  CacheOps      \* bound on the operations of a behaviour

ASSUME DcAssumption ==
  /\ Lines \subseteq Nat /\ Indexes \in Nat \ {0} /\ CacheOps \in Nat

VARIABLES
  lazy,         \* [ram, dc, journal]: the program
  eager,        \* the same with the DMAs applied at once
  got,          \* what the last read returned in each
  dcStep

dcVars == <<lazy, eager, got, dcStep>>

NoTag == -1
ix(x) == x % Indexes
NoLineD == [tag |-> NoTag, dirty |-> FALSE, data |-> 0]

Fresh == [ram |-> [x \in Lines |-> 0],
          dc |-> [i \in 0 .. Indexes - 1 |-> NoLineD], journal |-> <<>>]

-----------------------------------------------------------------------------
(* dpLogApply, and dmaSettle: the journal goes if it touches the line.       *)
LastIn(j, x) == {k \in DOMAIN j : j[k].line = x /\ \A l \in DOMAIN j : l > k => j[l].line # x}
Applied(m) ==
  [m EXCEPT !.ram = [x \in Lines |-> IF LastIn(m.journal, x) = {} THEN @[x]
                                     ELSE m.journal[CHOOSE k \in LastIn(m.journal, x) : TRUE].val],
            !.journal = <<>>]
dmaSettle(m, x) == IF \E k \in DOMAIN m.journal : m.journal[k].line = x
                   THEN Applied(m) ELSE m

Tagged(m, x) == m.dc[ix(x)].tag = x

dcFlushUnsettled(m, i) ==
  LET l == m.dc[i]
  IN IF l.tag = NoTag \/ ~l.dirty THEN m
     ELSE [m EXCEPT !.ram[l.tag] = l.data, !.dc[i].dirty = FALSE]
dcFlush(m, i) ==
  LET l == m.dc[i]
      s == dmaSettle(m, l.tag)
  IN IF l.tag = NoTag \/ ~l.dirty THEN m
     ELSE [s EXCEPT !.ram[l.tag] = l.data, !.dc[i].dirty = FALSE]

\* dcMiss: the new line's bytes are settled first, then the old line goes out.
dcMiss(m, x) ==
  LET s == dcFlush(dmaSettle(m, x), ix(x))
  IN [s EXCEPT !.dc[ix(x)] = [tag |-> x, dirty |-> FALSE, data |-> s.ram[x]]]

Present(m, x) == IF Tagged(m, x) THEN m ELSE dcMiss(m, x)
dcRead(m, x)  == Present(m, x)
dcWrite(m, x, v) ==
  [Present(m, x) EXCEPT !.dc[ix(x)] = [tag |-> x, dirty |-> TRUE, data |-> v]]

\* read/write of an uncached address: ramSettle, then the bus.
busRead(m, x)     == dmaSettle(m, x)
busWrite(m, x, v) == [dmaSettle(m, x) EXCEPT !.ram[x] = v]

Invalid(m, i) == [m EXCEPT !.dc[i].tag = NoTag, !.dc[i].dirty = FALSE]

\* cacheOp on the D-cache, by its function.
cacheOp(m, fn, x, tag) ==
  LET i == ix(x)
  IN CASE fn = "IndexWritebackInvalidate" -> Invalid(dcFlush(m, i), i)
       [] fn = "IndexStoreTag" -> [m EXCEPT !.dc[i].tag = tag, !.dc[i].dirty = FALSE]
       [] fn = "CreateDirtyExclusive" ->
            [(IF m.dc[i].tag # NoTag /\ m.dc[i].dirty /\ m.dc[i].tag # x
              THEN dcFlush(m, i) ELSE m)
             EXCEPT !.dc[i].tag = x, !.dc[i].dirty = TRUE]
       [] fn = "HitInvalidate" -> IF Tagged(m, x) THEN Invalid(m, i) ELSE m
       [] fn = "HitWritebackInvalidate" ->
            IF Tagged(m, x) THEN Invalid(dcFlush(m, i), i) ELSE m
       [] fn = "HitWriteback" -> IF Tagged(m, x) THEN dcFlush(m, i) ELSE m

Functions == {"IndexWritebackInvalidate", "IndexStoreTag", "CreateDirtyExclusive",
              "HitInvalidate", "HitWritebackInvalidate", "HitWriteback"}

-----------------------------------------------------------------------------
Count1 == dcStep < CacheOps /\ dcStep' = dcStep + 1

load(x) ==
  /\ lazy' = dcRead(lazy, x) /\ eager' = dcRead(eager, x)
  /\ got' = <<lazy'.dc[ix(x)].data, eager'.dc[ix(x)].data>>
store(x) ==
  /\ lazy' = dcWrite(lazy, x, dcStep') /\ eager' = dcWrite(eager, x, dcStep')
  /\ UNCHANGED got
uncachedRead(x) ==
  /\ lazy' = busRead(lazy, x) /\ eager' = busRead(eager, x)
  /\ got' = <<lazy'.ram[x], eager'.ram[x]>>
uncachedWrite(x) ==
  /\ lazy' = busWrite(lazy, x, dcStep') /\ eager' = busWrite(eager, x, dcStep')
  /\ UNCHANGED got
cache(fn, x, tag) ==
  /\ fn # "IndexStoreTag" => tag = NoTag
  /\ lazy' = cacheOp(lazy, fn, x, tag) /\ eager' = cacheOp(eager, fn, x, tag)
  /\ UNCHANGED got
\* The RSP writes a line by DMA: into the journal.
rspDma(x) ==
  /\ lazy' = [lazy EXCEPT !.journal = Append(@, [line |-> x, val |-> dcStep'])]
  /\ eager' = [eager EXCEPT !.ram[x] = dcStep']
  /\ UNCHANGED got
\* The CPU retires the journal at a boundary of its own.
retire ==
  /\ lazy.journal # <<>>
  /\ lazy' = Applied(lazy) /\ UNCHANGED <<eager, got>>

DcInit == lazy = Fresh /\ eager = Fresh /\ got = <<0, 0>> /\ dcStep = 0

DcNext ==
  /\ Count1
  /\ \/ \E x \in Lines :
          \/ load(x) \/ store(x) \/ uncachedRead(x) \/ uncachedWrite(x) \/ rspDma(x)
          \/ \E fn \in Functions, t \in {NoTag} \cup {y \in Lines : ix(y) = ix(x)} :
               cache(fn, x, t)
     \/ retire

DcSpec == DcInit /\ [][DcNext]_dcVars

-----------------------------------------------------------------------------
(* The journal cannot be told from DMAs applied at once: every read returns  *)
(* the same, the lines of the cache are the same, and RDRAM is the same once *)
(* the journal is applied, whatever was filled, written back or thrown away. *)
LazyIsEager ==
  /\ got[1] = got[2]
  /\ lazy.dc = eager.dc
  /\ Applied(lazy).ram = eager.ram

=============================================================================
