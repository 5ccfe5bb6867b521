----------------------------- MODULE CpuProofs -----------------------------
(***************************************************************************)
(* What the dynarec and the data cache of the VR4300 may be relied upon for,*)
(* whatever the program does: the tables of chained jumps (CodeCache), the *)
(* registers kept in host registers (RegCache) and the journal of the RSP's*)
(* DMAs (DataCache).                                                       *)
(***************************************************************************)
EXTENDS CodeCache, RegCache, DataCache, SequenceTheorems, WellFoundedInduction, TLAPS

----------------------------------------------------------------------------
(***************************************************************************)
(* A chained jump lands in the block of the page its address translates to,*)
(* for any pages, code and buffer: what holds of the tables always, and what*)
(* holds of them while the mapping is the one the driver last looked at.   *)
(***************************************************************************)

Emitted == [phys : Pages, src : Codes, va : VA]
Block == [at : Nat, dead : BOOLEAN, epoch : BOOLEAN]
Site == [from : Nat, va : VA, phys : Pages, tlb : BOOLEAN, ok : BOOLEAN, to : Nat]
CcState == [emitted : Seq(Emitted), blocks : [Pages -> Block], links : SUBSET Site,
            anyLinked : BOOLEAN, itc : [VA -> Nat], over : BOOLEAN]

\* A page knows its own block.
BlocksInPlace(c) ==
  \A p \in Pages : c.blocks[p].at # 0 =>
    c.blocks[p].at \in 1 .. Len(c.emitted) /\ c.emitted[c.blocks[p].at].phys = p

Alive(c, p, n) == c.blocks[p].at = n /\ ~c.blocks[p].dead

\* A site knows where it leads; an armed one leads to a live block it may jump to, and is known to
\* unlinkAll.
SitesInPlace(c) ==
  \A s \in c.links :
    /\ s.tlb = ~Direct(s.va)
    /\ ~s.tlb => s.phys = s.va[2]
    /\ s.to # 0 => /\ c.anyLinked /\ Alive(c, s.phys, s.to)
                   /\ s.tlb => s.ok /\ ~Long(c, s.phys)

ItcInPlace(c) == \A v \in VA : c.itc[v] # 0 => \E p \in Pages : Alive(c, p, c.itc[v])

InPlace(c) == c \in CcState /\ BlocksInPlace(c) /\ SitesInPlace(c) /\ ItcInPlace(c)

\* What the driver has checked once and the chained jumps rely on: the translations of the sites
\* and of the entries of the ITC are those of now.
Translated(c) ==
  /\ \A s \in c.links : s.tlb /\ s.ok => Phys(s.va) = s.phys
  /\ \A v \in VA : c.itc[v] # 0 =>
       /\ Phys(v) \in Pages /\ Alive(c, Phys(v), c.itc[v])
       /\ Long(c, Phys(v)) => Direct(v)

CodeInv ==
  /\ ram \in [Pages -> Codes] /\ icache \in [Pages -> Codes \cup {NoLine}]
  /\ tlb \in [Pages -> Pages \cup {Absent}] /\ mapMoved \in BOOLEAN
  /\ pc \in VA /\ cur \in Nat
  /\ InPlace(cc)
  /\ ~mapMoved => Translated(cc)
  /\ cur # 0 => /\ ~mapMoved /\ Phys(pc) \in Pages /\ cc.blocks[Phys(pc)].at = cur
                /\ Long(cc, Phys(pc)) => Direct(pc)

----------------------------------------------------------------------------
(* The tables of links. *)

\* An address is a segment and a page.
LEMMA VaParts == \A v \in VA : v[1] \in {"k", "m"} /\ v[2] \in Pages
BY DEF VA

\* Disarming everything.
LEMMA UnlinkAllKeeps ==
  ASSUME NEW c, InPlace(c)
  PROVE  /\ InPlace(unlinkAll(c))
         /\ \A s \in unlinkAll(c).links : s.to = 0
         /\ \A v \in VA : unlinkAll(c).itc[v] = 0
<1> DEFINE d == unlinkAll(c)
<1>0. c \in CcState /\ BlocksInPlace(c) /\ SitesInPlace(c) /\ ItcInPlace(c)
  BY DEF InPlace
<1>1. CASE ~c.anyLinked
  <2>1. d = [c EXCEPT !.itc = [v \in VA |-> 0]]
    BY <1>1 DEF unlinkAll, itcClear
  <2> HIDE DEF d
  <2>2. /\ d \in CcState /\ d.emitted = c.emitted /\ d.blocks = c.blocks /\ d.links = c.links
        /\ d.anyLinked = c.anyLinked /\ d.itc = [v \in VA |-> 0]
    BY <2>1, <1>0 DEF CcState
  <2>3. \A s \in d.links : s.to = 0
    BY <1>1, <1>0, <2>2 DEF SitesInPlace
  <2>4. BlocksInPlace(d)
    BY <1>0, <2>2 DEF BlocksInPlace
  <2>5. SitesInPlace(d)
    BY <1>0, <2>2, <2>3 DEF SitesInPlace
  <2> QED BY <2>2, <2>3, <2>4, <2>5 DEF InPlace, ItcInPlace, d
<1>2. CASE c.anyLinked
  <2> DEFINE off == {[s EXCEPT !.to = 0] : s \in c.links}
             bl == [p \in Pages |-> [c.blocks[p] EXCEPT !.epoch = FALSE]]
  <2>1. d = [c EXCEPT !.itc = [v \in VA |-> 0], !.anyLinked = FALSE, !.links = off, !.blocks = bl]
    BY <1>2, <1>0 DEF unlinkAll, itcClear, CcState
  <2>2. \A s \in c.links : s \in Site
    BY <1>0 DEF CcState
  <2>3. off \in SUBSET Site /\ \A s \in off : s.to = 0
    BY <2>2 DEF Site
  <2>4. /\ bl \in [Pages -> Block]
        /\ \A p \in Pages : bl[p].at = c.blocks[p].at
    BY <1>0 DEF CcState, Block
  <2>5. \A s \in off : \E u \in c.links : s.tlb = u.tlb /\ s.va = u.va /\ s.phys = u.phys
    BY <2>2 DEF Site
  <2> HIDE DEF d, off, bl
  <2>6. /\ d \in CcState /\ d.emitted = c.emitted /\ d.blocks = bl /\ d.links = off
        /\ d.itc = [v \in VA |-> 0]
    BY <2>1, <2>3, <2>4, <1>0 DEF CcState
  <2>7. BlocksInPlace(d)
    BY <1>0, <2>4, <2>6 DEF BlocksInPlace
  <2>8. SitesInPlace(d)
    BY <1>0, <2>3, <2>5, <2>6 DEF SitesInPlace
  <2> QED BY <2>3, <2>6, <2>7, <2>8 DEF InPlace, ItcInPlace, d
<1>3. c.anyLinked \in BOOLEAN
  BY <1>0 DEF CcState
<1> QED BY <1>1, <1>2, <1>3

\* What the driver does after a change of the mapping: nothing is armed and every pair is probed.
LEMMA SyncedKeeps ==
  ASSUME InPlace(cc), ~mapMoved => Translated(cc), mapMoved \in BOOLEAN
  PROVE  InPlace(Synced(cc)) /\ Translated(Synced(cc))
<1>1. CASE ~mapMoved
  BY <1>1 DEF Synced
<1>2. CASE mapMoved
  <2> DEFINE u == unlinkAll(cc)
             probed == {[s EXCEPT !.ok = ~s.tlb \/ Phys(s.va) = s.phys] : s \in u.links}
             d == Synced(cc)
  <2>1. /\ InPlace(u) /\ \A s \in u.links : s.to = 0
        /\ \A v \in VA : u.itc[v] = 0
    BY UnlinkAllKeeps
  <2>2. d = [u EXCEPT !.links = probed]
    BY <1>2 DEF Synced, reprobe
  <2> HIDE DEF u
  <2>3. u \in CcState /\ BlocksInPlace(u) /\ SitesInPlace(u) /\ ItcInPlace(u)
    BY <2>1 DEF InPlace
  <2>4. \A s \in u.links : s \in Site
    BY <2>3 DEF CcState
  <2>5. probed \in SUBSET Site
    <3> SUFFICES ASSUME NEW s \in u.links
                 PROVE  [s EXCEPT !.ok = ~s.tlb \/ Phys(s.va) = s.phys] \in Site
      OBVIOUS
    <3>1. s \in Site /\ (~s.tlb \/ Phys(s.va) = s.phys) \in BOOLEAN
      BY <2>4
    <3> QED BY <3>1 DEF Site
  <2>6. ASSUME NEW r \in probed
        PROVE  /\ \E s \in u.links : r.tlb = s.tlb /\ r.va = s.va /\ r.phys = s.phys /\ r.to = s.to
               /\ r.ok => ~r.tlb \/ Phys(r.va) = r.phys
    <3>1. PICK s \in u.links : r = [s EXCEPT !.ok = ~s.tlb \/ Phys(s.va) = s.phys]
      BY <2>6
    <3>2. s \in Site
      BY <2>4
    <3>3. r.tlb = s.tlb /\ r.va = s.va /\ r.phys = s.phys /\ r.to = s.to
      BY <3>1, <3>2 DEF Site
    <3>4. r.ok = (~s.tlb \/ Phys(s.va) = s.phys)
      BY <3>1, <3>2 DEF Site
    <3> QED BY <3>3, <3>4
  <2> HIDE DEF probed, d
  <2>7. /\ d \in CcState /\ d.emitted = u.emitted /\ d.blocks = u.blocks /\ d.links = probed
        /\ d.itc = u.itc /\ d.anyLinked = u.anyLinked
    BY <2>2, <2>3, <2>5 DEF CcState
  <2>8. BlocksInPlace(d) /\ ItcInPlace(d)
    BY <2>1, <2>3, <2>7 DEF BlocksInPlace, ItcInPlace
  <2>9. SitesInPlace(d)
    BY <2>1, <2>3, <2>6, <2>7 DEF SitesInPlace
  <2>10. Translated(d)
    BY <2>1, <2>6, <2>7 DEF Translated
  <2> QED BY <2>7, <2>8, <2>9, <2>10 DEF InPlace, d
<1> QED BY <1>1, <1>2

\* Arming sites whose target is alive and may be jumped to.
LEMMA ArmKeeps ==
  ASSUME NEW c, InPlace(c), Translated(c), NEW T \in SUBSET c.links,
         \A s \in T : /\ c.blocks[s.phys].at # 0 /\ ~c.blocks[s.phys].dead
                      /\ Eligible(s, Long(c, s.phys))
  PROVE  /\ InPlace(Arm(c, T)) /\ Translated(Arm(c, T))
         /\ Arm(c, T).emitted = c.emitted /\ Arm(c, T).blocks = c.blocks
         /\ Arm(c, T).itc = c.itc
<1> DEFINE armed == {[s EXCEPT !.to = c.blocks[s.phys].at] : s \in T}
           any == c.anyLinked \/ T # {}
           d == Arm(c, T)
<1>0. c \in CcState /\ BlocksInPlace(c) /\ SitesInPlace(c) /\ ItcInPlace(c)
  BY DEF InPlace
<1>1. \A s \in c.links : s \in Site
  BY <1>0 DEF CcState
<1>2. d = [c EXCEPT !.links = (c.links \ T) \cup armed, !.anyLinked = any]
  BY <1>0 DEF Arm, CcState
<1>3. ASSUME NEW s \in T
      PROVE  /\ [s EXCEPT !.to = c.blocks[s.phys].at] \in Site
             /\ s \in c.links
  <2>1. s \in Site /\ s \in c.links
    BY <1>1
  <2>2. c.blocks[s.phys].at \in Nat
    BY <2>1, <1>0 DEF CcState, Block, Site
  <2> QED BY <2>1, <2>2 DEF Site
<1>4. armed \in SUBSET Site
  BY <1>3
<1>5. ASSUME NEW r \in armed
      PROVE  \E s \in T : /\ r.tlb = s.tlb /\ r.va = s.va /\ r.phys = s.phys /\ r.ok = s.ok
                          /\ r.to = c.blocks[s.phys].at
  <2>1. PICK s \in T : r = [s EXCEPT !.to = c.blocks[s.phys].at]
    BY <1>5
  <2>2. s \in Site
    BY <1>1
  <2> QED BY <2>1, <2>2 DEF Site
<1>6. any \in BOOLEAN
  BY <1>0 DEF CcState
<1>7. armed # {} => any
  OBVIOUS
<1> HIDE DEF armed, any, d
<1>8. /\ d \in CcState /\ d.emitted = c.emitted /\ d.blocks = c.blocks
      /\ d.links = (c.links \ T) \cup armed /\ d.itc = c.itc /\ d.anyLinked = any
  BY <1>0, <1>2, <1>4, <1>6 DEF CcState
<1>9. BlocksInPlace(d) /\ ItcInPlace(d)
  BY <1>0, <1>8 DEF BlocksInPlace, ItcInPlace, Alive
<1>10. \A p \in Pages : Long(d, p) = Long(c, p)
  BY <1>8 DEF Long
<1>11. SitesInPlace(d)
  <2> SUFFICES ASSUME NEW s \in d.links
               PROVE  /\ s.tlb = ~Direct(s.va)
                      /\ ~s.tlb => s.phys = s.va[2]
                      /\ s.to # 0 => /\ d.anyLinked /\ Alive(d, s.phys, s.to)
                                     /\ s.tlb => s.ok /\ ~Long(d, s.phys)
    BY DEF SitesInPlace
  <2>0. s \in Site
    BY <1>8 DEF CcState
  <2>1. CASE s \in c.links \ T
    <3>1. c.anyLinked => d.anyLinked
      BY <1>8 DEF any
    <3> QED BY <2>0, <2>1, <3>1, <1>0, <1>8, <1>10 DEF SitesInPlace, Alive, Site
  <2>2. CASE s \in armed
    <3>1. PICK r \in T : /\ s.tlb = r.tlb /\ s.va = r.va /\ s.phys = r.phys /\ s.ok = r.ok
                         /\ s.to = c.blocks[r.phys].at
      BY <2>2, <1>5
    <3>2. d.anyLinked
      BY <2>2, <1>7, <1>8
    <3>3. r \in c.links /\ r \in Site
      BY <1>1
    <3>4. /\ s.tlb = ~Direct(s.va)
          /\ ~s.tlb => s.phys = s.va[2]
      BY <3>1, <3>3, <1>0 DEF SitesInPlace
    <3>5. Alive(d, s.phys, s.to)
      BY <3>1, <1>8 DEF Alive
    <3>6. s.tlb => s.ok /\ ~Long(d, s.phys)
      BY <3>1, <3>3, <1>10 DEF Eligible, Site
    <3> QED BY <3>2, <3>4, <3>5, <3>6
  <2> QED BY <2>1, <2>2, <1>8
<1>12. Translated(d)
  <2>1. ASSUME NEW s \in d.links, s.tlb, s.ok PROVE Phys(s.va) = s.phys
    <3>1. CASE s \in c.links
      BY <2>1, <3>1 DEF Translated
    <3>2. CASE s \in armed
      BY <2>1, <3>2, <1>5 DEF Translated
    <3> QED BY <3>1, <3>2, <1>8
  <2>2. ASSUME NEW v \in VA, d.itc[v] # 0
        PROVE  /\ Phys(v) \in Pages /\ Alive(d, Phys(v), d.itc[v])
               /\ Long(d, Phys(v)) => Direct(v)
    BY <2>2, <1>8, <1>10 DEF Translated, Alive
  <2> QED BY <2>1, <2>2 DEF Translated
<1> QED BY <1>8, <1>9, <1>11, <1>12 DEF InPlace, d

\* A live block gets the jumps that lead to it.
LEMMA LinkToKeeps ==
  ASSUME NEW c, InPlace(c), Translated(c), NEW p \in Pages,
         c.blocks[p].at # 0, ~c.blocks[p].dead
  PROVE  /\ InPlace(linkTo(c, p)) /\ Translated(linkTo(c, p))
         /\ linkTo(c, p).emitted = c.emitted /\ linkTo(c, p).blocks = c.blocks
         /\ linkTo(c, p).itc = c.itc
<1> DEFINE T == {s \in c.links : s.phys = p /\ Eligible(s, Long(c, p))}
<1>1. T \in SUBSET c.links
  OBVIOUS
<1>2. \A s \in T : /\ c.blocks[s.phys].at # 0 /\ ~c.blocks[s.phys].dead
                   /\ Eligible(s, Long(c, s.phys))
  OBVIOUS
<1>3. linkTo(c, p) = Arm(c, T)
  BY DEF linkTo
<1> HIDE DEF T
<1> QED BY <1>1, <1>2, <1>3, ArmKeeps

\* A new site, armed at once when its target is there.
LEMMA AddLinkKeeps ==
  ASSUME NEW c, InPlace(c), Translated(c), NEW s \in Site, s.to = 0,
         s.tlb = ~Direct(s.va), ~s.tlb => s.phys = s.va[2], s.tlb => Phys(s.va) = s.phys
  PROVE  /\ InPlace(addLink(c, s)) /\ Translated(addLink(c, s))
         /\ addLink(c, s).emitted = c.emitted /\ addLink(c, s).blocks = c.blocks
<1> DEFINE d == [c EXCEPT !.links = @ \cup {s}]
<1>0. c \in CcState /\ BlocksInPlace(c) /\ SitesInPlace(c) /\ ItcInPlace(c)
  BY DEF InPlace
<1>1. /\ d \in CcState /\ d.emitted = c.emitted /\ d.blocks = c.blocks
      /\ d.links = c.links \cup {s} /\ d.itc = c.itc /\ d.anyLinked = c.anyLinked
  BY <1>0 DEF CcState
<1>2. addLink(c, s) = d \/ (/\ addLink(c, s) = Arm(d, {s})
                            /\ c.blocks[s.phys].at # 0 /\ ~c.blocks[s.phys].dead
                            /\ Eligible(s, Long(c, s.phys)))
  BY DEF addLink
<1> HIDE DEF d
<1>3. \A p \in Pages : Long(d, p) = Long(c, p)
  BY <1>1 DEF Long
<1>4. BlocksInPlace(d) /\ ItcInPlace(d)
  BY <1>0, <1>1 DEF BlocksInPlace, ItcInPlace, Alive
<1>5. SitesInPlace(d)
  <2> SUFFICES ASSUME NEW r \in d.links
               PROVE  /\ r.tlb = ~Direct(r.va)
                      /\ ~r.tlb => r.phys = r.va[2]
                      /\ r.to # 0 => /\ d.anyLinked /\ Alive(d, r.phys, r.to)
                                     /\ r.tlb => r.ok /\ ~Long(d, r.phys)
    BY DEF SitesInPlace
  <2>1. CASE r \in c.links
    <3>1. r.phys \in Pages
      BY <2>1, <1>0 DEF CcState, Site
    <3> QED BY <2>1, <3>1, <1>0, <1>1, <1>3 DEF SitesInPlace, Alive
  <2>2. CASE r = s
    BY <2>2
  <2> QED BY <2>1, <2>2, <1>1
<1>6. Translated(d)
  <2>1. ASSUME NEW r \in d.links, r.tlb, r.ok PROVE Phys(r.va) = r.phys
    BY <2>1, <1>1 DEF Translated
  <2>2. ASSUME NEW v \in VA, d.itc[v] # 0
        PROVE  /\ Phys(v) \in Pages /\ Alive(d, Phys(v), d.itc[v])
               /\ Long(d, Phys(v)) => Direct(v)
    BY <2>2, <1>1, <1>3 DEF Translated, Alive
  <2> QED BY <2>1, <2>2 DEF Translated
<1>7. InPlace(d)
  BY <1>1, <1>4, <1>5 DEF InPlace
<1>8. CASE addLink(c, s) = d
  BY <1>1, <1>6, <1>7, <1>8
<1>9. CASE /\ addLink(c, s) = Arm(d, {s})
           /\ c.blocks[s.phys].at # 0 /\ ~c.blocks[s.phys].dead
           /\ Eligible(s, Long(c, s.phys))
  <2>1. {s} \in SUBSET d.links
    BY <1>1
  <2>2. \A r \in {s} : /\ d.blocks[r.phys].at # 0 /\ ~d.blocks[r.phys].dead
                       /\ Eligible(r, Long(d, r.phys))
    <3>1. s.phys \in Pages
      BY DEF Site
    <3> QED BY <3>1, <1>1, <1>3, <1>9
  <2> QED BY <2>1, <2>2, <1>1, <1>6, <1>7, <1>9, ArmKeeps
<1> QED BY <1>2, <1>8, <1>9

----------------------------------------------------------------------------
(* Code that was there since the last invalidation. *)

\* Block n of tables c was compiled from what its page has held, h.
Good(c, h, n) == c.emitted[n].src \in h[c.emitted[n].phys]

\* The blocks the driver has compared (pages k) and those a jump leads to are good, but for the
\* pages of b.
UpToDate(c, h, k, b) ==
  /\ \A q \in Pages : q \in k /\ ~Dead(c, q) => Good(c, h, c.blocks[q].at)
  /\ \A t \in c.links : t.to # 0 => t.phys \in b \/ Good(c, h, t.to)
  /\ \A v \in VA : c.itc[v] # 0 => Good(c, h, c.itc[v])

\* Tables d are c with another block for page p, perhaps, and the jumps to it; block n is new.
Grown(c, d, p, n) ==
  /\ Len(c.emitted) <= Len(d.emitted)
  /\ \A i \in 1 .. Len(c.emitted) : d.emitted[i] = c.emitted[i]
  /\ \A q \in Pages : q # p => d.blocks[q].at = c.blocks[q].at /\ d.blocks[q].dead = c.blocks[q].dead
  /\ \A v \in VA : d.itc[v] \in {0, c.itc[v], d.blocks[p].at}
  /\ \A t \in d.links : t.to # 0 => t.phys = p \/ t \in c.links \/ t.from = n

CodeNow ==
  /\ had \in [Pages -> SUBSET Codes] /\ \A p \in Pages : Fetch(p) \in had[p]
  /\ UpToDate(cc, had, checked, blind)
  /\ cur # 0 => Good(cc, had, cur) \/ cc.emitted[cur].phys \in blind

\* An armed jump leads to the block of its page.
LEMMA ArmedTo ==
  ASSUME NEW c, InPlace(c), NEW t \in c.links, t.to # 0
  PROVE  /\ t.phys \in Pages /\ t.to = c.blocks[t.phys].at /\ ~Dead(c, t.phys)
         /\ t.to \in 1 .. Len(c.emitted) /\ c.emitted[t.to].phys = t.phys
<1>1. t.phys \in Pages
  BY DEF InPlace, CcState, Site
<1>2. Alive(c, t.phys, t.to)
  BY DEF InPlace, SitesInPlace
<1> QED BY <1>1, <1>2 DEF InPlace, BlocksInPlace, Alive, Dead

\* The driver enters the block of page p: it has compared it, and the jumps that lead to it are good.
LEMMA EnterSettled ==
  ASSUME NEW c, NEW d, NEW h, NEW k, NEW b, NEW p \in Pages, NEW n, InPlace(c), InPlace(d),
         UpToDate(c, h, k, b), Grown(c, d, p, n), ~Dead(d, p), Good(d, h, d.blocks[p].at)
  PROVE  UpToDate(d, h, k \cup {p}, {q \in b \cup (Joined(d, n) \ k) : q # p /\ Armed(d, q)})
<1> DEFINE B == {q \in b \cup (Joined(d, n) \ k) : q # p /\ Armed(d, q)}
<1>0. /\ c \in CcState /\ d \in CcState /\ BlocksInPlace(c) /\ BlocksInPlace(d) /\ ItcInPlace(c)
  BY DEF InPlace
<1>1. ASSUME NEW i \in 1 .. Len(c.emitted) PROVE Good(d, h, i) = Good(c, h, i)
  BY DEF Grown, Good
<1>2. ASSUME NEW q \in Pages, q \in k \cup {p}, ~Dead(d, q) PROVE Good(d, h, d.blocks[q].at)
  <2>1. CASE q = p
    BY <2>1
  <2>2. CASE q # p
    <3>1. q \in k /\ ~Dead(c, q) /\ d.blocks[q].at = c.blocks[q].at
      BY <1>2, <2>2 DEF Grown, Dead
    <3>2. c.blocks[q].at \in 1 .. Len(c.emitted)
      BY <1>0, <3>1 DEF BlocksInPlace, Dead
    <3> QED BY <1>1, <3>1, <3>2 DEF UpToDate
  <2> QED BY <2>1, <2>2
<1>3. ASSUME NEW t \in d.links, t.to # 0 PROVE t.phys \in B \/ Good(d, h, t.to)
  <2>1. t.phys \in Pages /\ t.to = d.blocks[t.phys].at /\ ~Dead(d, t.phys)
    BY <1>3, ArmedTo
  <2>2. CASE t.phys = p
    BY <2>1, <2>2
  <2>3. CASE t.phys # p /\ t \in c.links
    <3>1. t.to \in 1 .. Len(c.emitted)
      BY <1>3, <2>3, ArmedTo
    <3>2. t.phys \in b \/ Good(c, h, t.to)
      BY <1>3, <2>3 DEF UpToDate
    <3>3. Armed(d, t.phys)
      BY <1>3 DEF Armed
    <3> QED BY <1>1, <2>3, <3>1, <3>2, <3>3
  <2>4. CASE t.phys # p /\ t.from = n
    <3>1. Armed(d, t.phys) /\ t.phys \in Joined(d, n)
      BY <1>3, <2>1, <2>4 DEF Armed, Joined
    <3>2. t.phys \in k => Good(d, h, t.to)
      BY <1>2, <2>1
    <3> QED BY <2>4, <3>1, <3>2
  <2> QED BY <1>3, <2>2, <2>3, <2>4 DEF Grown
<1>4. ASSUME NEW v \in VA, d.itc[v] # 0 PROVE Good(d, h, d.itc[v])
  <2>1. CASE d.itc[v] = c.itc[v]
    <3>1. PICK q \in Pages : Alive(c, q, c.itc[v])
      BY <1>0, <1>4, <2>1 DEF ItcInPlace
    <3>2. c.itc[v] \in 1 .. Len(c.emitted)
      BY <1>0, <1>4, <2>1, <3>1 DEF BlocksInPlace, Alive
    <3> QED BY <1>1, <1>4, <2>1, <3>2 DEF UpToDate
  <2>2. CASE d.itc[v] = d.blocks[p].at
    BY <2>2
  <2> QED BY <1>4, <2>1, <2>2 DEF Grown
<1> QED BY <1>2, <1>3, <1>4 DEF UpToDate

\* A site that Arm leaves is an old one, or one of those it arms.
LEMMA ArmFrom ==
  ASSUME NEW c, c \in CcState, NEW T \in SUBSET c.links, NEW t \in Arm(c, T).links
  PROVE  t \in c.links \/ \E u \in T : t.from = u.from /\ t.phys = u.phys
<1>1. Arm(c, T).links = (c.links \ T) \cup {[s EXCEPT !.to = c.blocks[s.phys].at] : s \in T}
  BY DEF Arm, CcState
<1>2. CASE t \in {[s EXCEPT !.to = c.blocks[s.phys].at] : s \in T}
  <2>1. PICK u \in T : t = [u EXCEPT !.to = c.blocks[u.phys].at]
    BY <1>2
  <2>2. u \in Site
    BY DEF CcState
  <2> QED BY <2>1, <2>2 DEF Site
<1> QED BY <1>1, <1>2

LEMMA LinkToFrom ==
  ASSUME NEW c, c \in CcState, NEW p \in Pages, NEW t \in linkTo(c, p).links
  PROVE  t \in c.links \/ t.phys = p
<1> DEFINE T == {s \in c.links : s.phys = p /\ Eligible(s, Long(c, p))}
<1>1. linkTo(c, p) = Arm(c, T) /\ T \in SUBSET c.links /\ \A u \in T : u.phys = p
  BY DEF linkTo
<1> HIDE DEF T
<1> QED BY <1>1, ArmFrom

LEMMA AddLinkFrom ==
  ASSUME NEW c, c \in CcState, NEW s \in Site, NEW t \in addLink(c, s).links
  PROVE  t \in c.links \/ t = s \/ t.from = s.from
<1> DEFINE d == [c EXCEPT !.links = @ \cup {s}]
<1>1. d \in CcState /\ d.links = c.links \cup {s}
  BY DEF CcState
<1>2. addLink(c, s) = d \/ addLink(c, s) = Arm(d, {s})
  BY DEF addLink
<1> HIDE DEF d
<1>3. CASE addLink(c, s) = Arm(d, {s})
  <2>1. {s} \in SUBSET d.links
    BY <1>1
  <2> QED BY <1>1, <1>3, <2>1, ArmFrom
<1> QED BY <1>1, <1>2, <1>3

LEMMA ArmItc ==
  ASSUME NEW c, c \in CcState, NEW T
  PROVE  Arm(c, T).itc = c.itc
BY DEF Arm, CcState

LEMMA AddLinkItc ==
  ASSUME NEW c, c \in CcState, NEW s \in Site
  PROVE  addLink(c, s).itc = c.itc
<1> DEFINE d == [c EXCEPT !.links = @ \cup {s}]
<1>1. d \in CcState /\ d.itc = c.itc
  BY DEF CcState
<1>2. addLink(c, s) = d \/ addLink(c, s) = Arm(d, {s})
  BY DEF addLink
<1> HIDE DEF d
<1> QED BY <1>1, <1>2, ArmItc

----------------------------------------------------------------------------
(* Compilation. *)

\* What the processor fetches is code.
LEMMA FetchType ==
  ASSUME CodeInv, NEW p \in Pages
  PROVE  Fetch(p) \in Codes
BY DEF CodeInv, Fetch

\* Block b is the last in the buffer and the one of its page.
Inserted(c, b) ==
  [c EXCEPT !.emitted = Append(@, b),
            !.blocks[b.phys] = [at |-> Len(c.emitted) + 1, dead |-> FALSE, epoch |-> TRUE]]

\* The block of a page that had none, or a dead one, takes its place.
LEMMA InsertKeeps ==
  ASSUME NEW c, NEW b \in Emitted, InPlace(c), Translated(c), Dead(c, b.phys)
  PROVE  /\ InPlace(Inserted(c, b)) /\ Translated(Inserted(c, b))
         /\ ~Dead(Inserted(c, b), b.phys)
         /\ Inserted(c, b).emitted[Inserted(c, b).blocks[b.phys].at] = b
         /\ Len(Inserted(c, b).emitted) = Len(c.emitted) + 1
         /\ Grown(c, Inserted(c, b), b.phys, Len(c.emitted) + 1)
         /\ Inserted(c, b).links = c.links /\ Inserted(c, b).itc = c.itc
<1> DEFINE p == b.phys
           at == Len(c.emitted) + 1
           new == [at |-> at, dead |-> FALSE, epoch |-> TRUE]
           d == Inserted(c, b)
<1>0. c \in CcState /\ BlocksInPlace(c) /\ SitesInPlace(c) /\ ItcInPlace(c)
  BY DEF InPlace
<1>1. p \in Pages /\ c.emitted \in Seq(Emitted) /\ c.blocks \in [Pages -> Block]
  BY <1>0 DEF CcState, Emitted
<1>2. at \in Nat \ {0} /\ new \in Block /\ new.at = at /\ new.dead = FALSE
  BY <1>1 DEF Block
<1>3. /\ Append(c.emitted, b) \in Seq(Emitted) /\ Len(Append(c.emitted, b)) = at
      /\ Append(c.emitted, b)[at] = b
      /\ \A i \in 1 .. Len(c.emitted) : Append(c.emitted, b)[i] = c.emitted[i]
  BY <1>1
<1>a. d = [c EXCEPT !.emitted = Append(@, b), !.blocks[p] = new]
  BY DEF Inserted
<1> HIDE DEF new, d, p, at
<1>4. /\ d.emitted = Append(c.emitted, b) /\ d.blocks = [c.blocks EXCEPT ![p] = new]
      /\ d.links = c.links /\ d.itc = c.itc /\ d.anyLinked = c.anyLinked /\ d.over = c.over
  BY <1>a, <1>0 DEF CcState
<1>5. d \in CcState
  <2>1. d = [emitted |-> d.emitted, blocks |-> d.blocks, links |-> c.links,
             anyLinked |-> c.anyLinked, itc |-> c.itc, over |-> c.over]
    BY <1>a, <1>0 DEF CcState
  <2>2. d.emitted \in Seq(Emitted) /\ d.blocks \in [Pages -> Block]
    BY <1>1, <1>2, <1>3, <1>4
  <2> QED BY <1>0, <2>1, <2>2 DEF CcState
<1>6. d.blocks[p] = new /\ \A q \in Pages : q # p => d.blocks[q] = c.blocks[q]
  BY <1>1, <1>4
<1>7. \A i \in 1 .. Len(c.emitted) : d.emitted[i] = c.emitted[i]
  BY <1>3, <1>4
<1>8. d.emitted[at] = b /\ Len(d.emitted) = at
  BY <1>3, <1>4
<1>9. BlocksInPlace(d)
  <2> SUFFICES ASSUME NEW q \in Pages, d.blocks[q].at # 0
               PROVE  /\ d.blocks[q].at \in 1 .. Len(d.emitted)
                      /\ d.emitted[d.blocks[q].at].phys = q
    BY DEF BlocksInPlace
  <2>1. CASE q = p
    BY <2>1, <1>2, <1>6, <1>8 DEF p
  <2>2. CASE q # p
    <3>1. c.blocks[q].at \in 1 .. Len(c.emitted) /\ c.emitted[c.blocks[q].at].phys = q
      BY <2>2, <1>0, <1>6 DEF BlocksInPlace
    <3>2. Len(c.emitted) \in Nat /\ Len(d.emitted) = Len(c.emitted) + 1
      BY <1>1, <1>8 DEF at
    <3>3. d.blocks[q].at = c.blocks[q].at
      BY <2>2, <1>6
    <3>4. c.blocks[q].at \in 1 .. Len(d.emitted)
      BY <3>1, <3>2
    <3>5. d.emitted[c.blocks[q].at].phys = q
      BY <3>1, <1>7
    <3> QED BY <3>3, <3>4, <3>5
  <2> QED BY <2>1, <2>2
<1>10. \A q \in Pages : c.blocks[q].at # 0 /\ ~c.blocks[q].dead => q # p
  BY DEF Dead, p
<1>11. ASSUME NEW q \in Pages, c.blocks[q].at # 0, ~c.blocks[q].dead
       PROVE  d.blocks[q] = c.blocks[q] /\ Long(d, q) = Long(c, q)
  <2>1. d.blocks[q] = c.blocks[q]
    BY <1>6, <1>10, <1>11
  <2>2. c.blocks[q].at \in 1 .. Len(c.emitted)
    BY <1>0, <1>11 DEF BlocksInPlace
  <2>3. d.emitted[c.blocks[q].at] = c.emitted[c.blocks[q].at]
    BY <2>2, <1>7
  <2> QED BY <2>1, <2>3 DEF Long
<1>12. SitesInPlace(d)
  <2> SUFFICES ASSUME NEW s \in c.links
               PROVE  /\ s.tlb = ~Direct(s.va)
                      /\ ~s.tlb => s.phys = s.va[2]
                      /\ s.to # 0 => /\ d.anyLinked /\ Alive(d, s.phys, s.to)
                                     /\ s.tlb => s.ok /\ ~Long(d, s.phys)
    BY <1>4 DEF SitesInPlace
  <2>1. s.phys \in Pages
    BY <1>0 DEF CcState, Site
  <2> QED BY <2>1, <1>0, <1>4, <1>11 DEF SitesInPlace, Alive
<1>13. ItcInPlace(d)
  <2> SUFFICES ASSUME NEW v \in VA, c.itc[v] # 0
               PROVE  \E q \in Pages : Alive(d, q, c.itc[v])
    BY <1>4 DEF ItcInPlace
  <2>1. PICK q \in Pages : Alive(c, q, c.itc[v])
    BY <1>0 DEF ItcInPlace
  <2> QED BY <2>1, <1>11 DEF Alive
<1>14. Translated(d)
  <2>1. ASSUME NEW r \in d.links, r.tlb, r.ok PROVE Phys(r.va) = r.phys
    BY <2>1, <1>4 DEF Translated
  <2>2. ASSUME NEW v \in VA, d.itc[v] # 0
        PROVE  /\ Phys(v) \in Pages /\ Alive(d, Phys(v), d.itc[v])
               /\ Long(d, Phys(v)) => Direct(v)
    BY <2>2, <1>4, <1>11 DEF Translated, Alive
  <2> QED BY <2>1, <2>2 DEF Translated
<1>15. Grown(c, d, p, at)
  <2>1. Len(c.emitted) \in Nat /\ Len(d.emitted) = Len(c.emitted) + 1
    BY <1>1, <1>8 DEF at
  <2> QED BY <2>1, <1>4, <1>6, <1>7 DEF Grown
<1>16. Len(d.emitted) = Len(c.emitted) + 1
  BY <1>8 DEF at
<1>17. Grown(c, d, p, Len(c.emitted) + 1) /\ d.links = c.links /\ d.itc = c.itc
  BY <1>4, <1>15 DEF at
<1> QED BY <1>2, <1>5, <1>6, <1>8, <1>9, <1>12, <1>13, <1>14, <1>16, <1>17 DEF InPlace, d, p, Dead

\* compileBlock: the new block, its site and the jumps that lead to it.
LEMMA CompileKeeps ==
  ASSUME CodeInv, NEW c, InPlace(c), Translated(c), NEW va \in VA, Phys(va) \in Pages,
         Dead(c, Phys(va))
  PROVE  LET d == compileInto(c, va)
         IN  /\ InPlace(d) /\ Translated(d)
             /\ ~Dead(d, Phys(va)) /\ (Long(d, Phys(va)) => Direct(va))
             /\ Grown(c, d, Phys(va), Len(d.emitted))
             /\ d.emitted[d.blocks[Phys(va)].at].src = Fetch(Phys(va))
<1> DEFINE p == Phys(va)
           at == Len(c.emitted) + 1
           src == Fetch(p)
           b == [phys |-> p, src |-> src, va |-> va]
           ins == [c EXCEPT !.emitted = Append(@, b),
                            !.blocks[p] = [at |-> at, dead |-> FALSE, epoch |-> TRUE]]
           sites == Sites(at, src, va)
           reg == IF sites = {} THEN ins ELSE addLink(ins, CHOOSE s \in sites : TRUE)
<1>1. src \in Codes
  BY FetchType
<1>2. b \in Emitted /\ b.phys = p /\ b.va = va /\ b.src = Fetch(p)
  BY <1>1 DEF Emitted
<1>3. compileInto(c, va) = linkTo(reg, p)
  BY DEF compileInto
<1>4. /\ InPlace(ins) /\ Translated(ins) /\ ~Dead(ins, p)
      /\ ins.emitted[ins.blocks[p].at] = b
      /\ Len(ins.emitted) = at /\ Grown(c, ins, p, at) /\ ins.links = c.links /\ ins.itc = c.itc
  <2>1. ins = Inserted(c, b)
    BY <1>2 DEF Inserted
  <2> HIDE DEF b, ins
  <2> QED BY <1>2, <2>1, InsertKeeps
<1>5. ASSUME NEW s \in sites
      PROVE  /\ s \in Site /\ s.to = 0 /\ s.tlb = ~Direct(s.va)
             /\ ~s.tlb => s.phys = s.va[2]
             /\ s.tlb => Phys(s.va) = s.phys
             /\ s.from = at
  <2>1. src.to # Reg
    BY <1>5 DEF Sites
  <2>2. src.to \in Pages
    BY <2>1, <1>1, CodeAssumption
  <2>3. PICK w \in JumpsTo(src, va) :
          /\ linkable(w, va)
          /\ s = [from |-> at, va |-> w, phys |-> Phys(w), tlb |-> ~Direct(w), ok |-> TRUE, to |-> 0]
    BY <1>5, <2>1 DEF Sites
  <2>4. w \in VA
    BY <2>1, <2>2, <2>3, VaParts DEF JumpsTo, VA
  <2>5. Direct(w) => Phys(w) = w[2] /\ Phys(w) \in Pages
    BY <2>4, VaParts DEF Phys
  <2>6. ~Direct(w) => Phys(w) \in Pages
    BY <2>3, <2>4, VaParts DEF linkable, Phys, CodeInv
  <2>7. at \in Nat
    BY DEF InPlace, CcState
  <2> HIDE DEF at
  <2>8. s \in Site
    BY <2>3, <2>4, <2>5, <2>6, <2>7 DEF Site
  <2>9. s.to = 0 /\ s.va = w /\ s.phys = Phys(w) /\ s.tlb = ~Direct(w) /\ s.from = at
    BY <2>3
  <2> QED BY <2>5, <2>8, <2>9
<1> HIDE DEF ins, sites, b, at
<1>6. /\ InPlace(reg) /\ Translated(reg) /\ reg.emitted = ins.emitted /\ reg.blocks = ins.blocks
      /\ reg.itc = ins.itc /\ \A t \in reg.links : t \in ins.links \/ t.from = at
  <2>1. CASE sites = {}
    BY <2>1, <1>4
  <2>2. CASE sites # {}
    <3> DEFINE s == CHOOSE s \in sites : TRUE
    <3>1. s \in sites
      BY <2>2
    <3>2. reg = addLink(ins, s)
      BY <2>2
    <3> HIDE DEF s
    <3>3. InPlace(reg) /\ Translated(reg) /\ reg.emitted = ins.emitted /\ reg.blocks = ins.blocks
      BY <1>4, <1>5, <3>1, <3>2, AddLinkKeeps
    <3>4. ins \in CcState /\ s \in Site /\ s.from = at
      BY <1>4, <1>5, <3>1 DEF InPlace
    <3>5. reg.itc = ins.itc /\ \A t \in reg.links : t \in ins.links \/ t = s \/ t.from = s.from
      BY <3>2, <3>4, AddLinkItc, AddLinkFrom
    <3> QED BY <3>3, <3>4, <3>5
  <2> QED BY <2>1, <2>2
<1> HIDE DEF reg
<1>7. /\ InPlace(linkTo(reg, p)) /\ Translated(linkTo(reg, p))
      /\ linkTo(reg, p).emitted = ins.emitted /\ linkTo(reg, p).blocks = ins.blocks
      /\ linkTo(reg, p).itc = ins.itc
      /\ \A t \in linkTo(reg, p).links : t \in reg.links \/ t.phys = p
  <2>1. reg.blocks[p].at # 0 /\ ~reg.blocks[p].dead
    BY <1>4, <1>6 DEF Dead
  <2> HIDE DEF p
  <2>2. p \in Pages
    BY DEF p
  <2>3. reg \in CcState
    BY <1>6 DEF InPlace
  <2> QED BY <1>6, <2>1, <2>2, <2>3, LinkToKeeps, LinkToFrom
<1>8. ~Dead(linkTo(reg, p), p)
  BY <1>4, <1>7 DEF Dead
<1>9. Long(linkTo(reg, p), p) => Direct(va)
  BY <1>2, <1>4, <1>7 DEF Long
<1>10. Grown(c, linkTo(reg, p), p, Len(linkTo(reg, p).emitted))
  BY <1>4, <1>6, <1>7 DEF Grown
<1>11. linkTo(reg, p).emitted[linkTo(reg, p).blocks[p].at].src = Fetch(p)
  BY <1>2, <1>4, <1>7
<1> QED BY <1>3, <1>7, <1>8, <1>9, <1>10, <1>11

----------------------------------------------------------------------------
(* The driver. *)

\* A cache that holds nothing is in place.
LEMMA EmptyInPlace == InPlace(Empty) /\ Translated(Empty)
<1>1. /\ Empty.emitted = <<>> /\ Empty.links = {} /\ Empty.itc = [v \in VA |-> 0]
      /\ Empty.blocks = [p \in Pages |-> NoBlock]
  BY DEF Empty
<1>2. NoBlock \in Block /\ NoBlock.at = 0
  BY DEF NoBlock, Block
<1>3. Empty \in CcState
  BY <1>2 DEF Empty, CcState
<1> QED BY <1>1, <1>2, <1>3
     DEF InPlace, Translated, BlocksInPlace, SitesInPlace, ItcInPlace

\* What the driver may find after it has looked for the block of page p: the tables as they were,
\* or with a new block.
SameTables(c, d) ==
  d.emitted = c.emitted /\ d.blocks = c.blocks /\ d.links = c.links /\ d.itc = c.itc
Compiled(c, d, p) ==
  /\ Grown(c, d, p, Len(d.emitted))
  /\ ~Dead(d, p) /\ d.emitted[d.blocks[p].at].src = Fetch(p)

\* The block the driver finds or compiles; one that it compiles crosses no page of the TLB.
LEMMA WithBlockKeeps ==
  ASSUME CodeInv, NEW c, InPlace(c), Translated(c), NEW va \in VA, Phys(va) \in Pages
  PROVE  LET d == WithBlock(c, va)
         IN  /\ InPlace(d) /\ Translated(d)
             /\ \/ d = c
                \/ Dead(d, Phys(va))
                \/ Long(d, Phys(va)) => Direct(va)
             /\ \/ SameTables(c, d)
                \/ Compiled(c, d, Phys(va)) \/ Compiled(Empty, d, Phys(va))
<1> DEFINE d == WithBlock(c, va)
<1>1. CASE ~Dead(c, Phys(va))
  BY <1>1 DEF WithBlock, SameTables
<1>2. CASE Dead(c, Phys(va)) /\ c.over
  <2>1. d = compileInto(Empty, va)
    BY <1>2 DEF WithBlock, clear
  <2>2. Dead(Empty, Phys(va))
    BY DEF Dead, Empty, NoBlock
  <2> QED BY <2>1, <2>2, EmptyInPlace, CompileKeeps DEF Compiled
<1>3. CASE Dead(c, Phys(va)) /\ ~c.over /\ Len(c.emitted) = BufMax
  <2>1. d = [c EXCEPT !.over = TRUE]
    BY <1>3 DEF WithBlock
  <2> HIDE DEF d
  <2>0. c \in CcState /\ BlocksInPlace(c) /\ SitesInPlace(c) /\ ItcInPlace(c)
    BY DEF InPlace
  <2>2. /\ d \in CcState /\ d.emitted = c.emitted /\ d.blocks = c.blocks /\ d.links = c.links
        /\ d.itc = c.itc /\ d.anyLinked = c.anyLinked
    BY <2>0, <2>1 DEF CcState
  <2>3. \A p : Long(d, p) = Long(c, p)
    BY <2>2 DEF Long
  <2>4. BlocksInPlace(d) /\ ItcInPlace(d)
    BY <2>0, <2>2 DEF BlocksInPlace, ItcInPlace, Alive
  <2>5. SitesInPlace(d)
    BY <2>0, <2>2, <2>3 DEF SitesInPlace, Alive
  <2>6. Translated(d)
    BY <2>2, <2>3 DEF Translated, Alive
  <2>7. Dead(d, Phys(va))
    BY <1>3, <2>2 DEF Dead
  <2> QED BY <2>2, <2>4, <2>5, <2>6, <2>7 DEF InPlace, d, SameTables
<1>4. CASE Dead(c, Phys(va)) /\ ~c.over /\ Len(c.emitted) # BufMax
  <2>1. d = compileInto(c, va)
    BY <1>4 DEF WithBlock
  <2> QED BY <1>4, <2>1, CompileKeeps DEF Compiled
<1> QED BY <1>1, <1>2, <1>3, <1>4

\* A block the driver has validated is published again.
LEMMA PublishedKeeps ==
  ASSUME NEW c, InPlace(c), Translated(c), NEW p \in Pages, ~Dead(c, p)
  PROVE  /\ InPlace(Published(c, p)) /\ Translated(Published(c, p))
         /\ Published(c, p).blocks[p].at = c.blocks[p].at
         /\ ~Published(c, p).blocks[p].dead
         /\ Long(Published(c, p), p) = Long(c, p)
         /\ Published(c, p).emitted = c.emitted /\ Published(c, p).itc = c.itc
         /\ \A q \in Pages : /\ Published(c, p).blocks[q].at = c.blocks[q].at
                            /\ Published(c, p).blocks[q].dead = c.blocks[q].dead
         /\ \A t \in Published(c, p).links : t \in c.links \/ t.phys = p
<1>0. c.blocks[p].at # 0 /\ ~c.blocks[p].dead
  BY DEF Dead
<1>1. CASE c.blocks[p].epoch
  BY <1>0, <1>1 DEF Published
<1>2. CASE ~c.blocks[p].epoch
  <2> DEFINE l == linkTo(c, p)
             d == Published(c, p)
  <2>1. /\ InPlace(l) /\ Translated(l) /\ l.emitted = c.emitted /\ l.blocks = c.blocks
        /\ l.itc = c.itc
    BY <1>0, LinkToKeeps
  <2>a. \A t \in l.links : t \in c.links \/ t.phys = p
    BY LinkToFrom DEF InPlace
  <2>2. d = [l EXCEPT !.blocks[p].epoch = TRUE]
    BY <1>2 DEF Published
  <2> HIDE DEF l, d
  <2>3. l \in CcState /\ BlocksInPlace(l) /\ SitesInPlace(l) /\ ItcInPlace(l)
    BY <2>1 DEF InPlace
  <2>4. l.blocks \in [Pages -> Block]
    BY <2>3 DEF CcState
  <2>5. /\ d.emitted = l.emitted /\ d.blocks = [l.blocks EXCEPT ![p].epoch = TRUE]
        /\ d.links = l.links /\ d.itc = l.itc /\ d.anyLinked = l.anyLinked
    BY <2>2, <2>3 DEF CcState
  <2>6. /\ d.blocks \in [Pages -> Block]
        /\ \A q \in Pages : d.blocks[q].at = l.blocks[q].at /\ d.blocks[q].dead = l.blocks[q].dead
    <3> DEFINE b == [l.blocks[p] EXCEPT !.epoch = TRUE]
    <3>1. b \in Block /\ b.at = l.blocks[p].at /\ b.dead = l.blocks[p].dead
      BY <2>4 DEF Block
    <3>2. d.blocks = [l.blocks EXCEPT ![p] = b]
      BY <2>5
    <3> HIDE DEF b
    <3> QED BY <2>4, <3>1, <3>2
  <2>7. d \in CcState
    <3>1. d = [emitted |-> l.emitted, blocks |-> d.blocks, links |-> l.links,
               anyLinked |-> l.anyLinked, itc |-> l.itc, over |-> l.over]
      BY <2>2, <2>3 DEF CcState
    <3> QED BY <3>1, <2>3, <2>6 DEF CcState
  <2>8. \A q \in Pages : Long(d, q) = Long(l, q)
    BY <2>5, <2>6 DEF Long
  <2>9. BlocksInPlace(d) /\ ItcInPlace(d)
    BY <2>3, <2>5, <2>6 DEF BlocksInPlace, ItcInPlace, Alive
  <2>10. SitesInPlace(d)
    <3>1. \A s \in l.links : s.phys \in Pages
      BY <2>3 DEF CcState, Site
    <3> QED BY <3>1, <2>3, <2>5, <2>6, <2>8 DEF SitesInPlace, Alive
  <2>11. Translated(d)
    BY <2>1, <2>5, <2>6, <2>8 DEF Translated, Alive
  <2>12. Long(d, p) = Long(c, p)
    BY <2>8, <2>1 DEF Long
  <2>13. d.blocks[p].at = c.blocks[p].at /\ ~d.blocks[p].dead
    BY <1>0, <2>1, <2>6
  <2>14. /\ d.emitted = c.emitted /\ d.itc = c.itc
         /\ \A q \in Pages : d.blocks[q].at = c.blocks[q].at /\ d.blocks[q].dead = c.blocks[q].dead
         /\ \A t \in d.links : t \in c.links \/ t.phys = p
    BY <2>1, <2>a, <2>5, <2>6
  <2> QED BY <2>7, <2>9, <2>10, <2>11, <2>12, <2>13, <2>14 DEF InPlace, d
<1> QED BY <1>1, <1>2

\* The entry of the ITC for the address the driver has just translated.
LEMMA NotedKeeps ==
  ASSUME NEW c, InPlace(c), Translated(c), NEW va \in VA, Phys(va) \in Pages,
         ~Dead(c, Phys(va)), Long(c, Phys(va)) => Direct(va)
  PROVE  /\ InPlace(Noted(c, va)) /\ Translated(Noted(c, va))
         /\ Noted(c, va).blocks = c.blocks
         /\ Long(Noted(c, va), Phys(va)) = Long(c, Phys(va))
         /\ Noted(c, va).emitted = c.emitted /\ Noted(c, va).links = c.links
         /\ \A v \in VA : Noted(c, va).itc[v] \in {c.itc[v], c.blocks[Phys(va)].at}
<1> DEFINE n == c.blocks[Phys(va)].at
           d == Noted(c, va)
<1>0. c \in CcState /\ BlocksInPlace(c) /\ SitesInPlace(c) /\ ItcInPlace(c)
  BY DEF InPlace
<1>1. n \in Nat /\ Alive(c, Phys(va), n)
  BY <1>0 DEF CcState, Block, Alive, Dead
<1>2. d = [c EXCEPT !.itc[va] = n]
  BY DEF Noted
<1> HIDE DEF d, n
<1>3. /\ d \in CcState /\ d.emitted = c.emitted /\ d.blocks = c.blocks /\ d.links = c.links
      /\ d.anyLinked = c.anyLinked /\ d.itc = [c.itc EXCEPT ![va] = n]
  BY <1>0, <1>1, <1>2 DEF CcState
<1>4. \A v \in VA : d.itc[v] = IF v = va THEN n ELSE c.itc[v]
  BY <1>0, <1>3 DEF CcState
<1>5. \A p : Long(d, p) = Long(c, p)
  BY <1>3 DEF Long
<1>6. \A p, m : Alive(d, p, m) = Alive(c, p, m)
  BY <1>3 DEF Alive
<1>7. BlocksInPlace(d)
  BY <1>0, <1>3 DEF BlocksInPlace
<1>8. SitesInPlace(d)
  BY <1>0, <1>3, <1>5 DEF SitesInPlace, Alive
<1>9. ItcInPlace(d)
  BY <1>0, <1>1, <1>4, <1>6 DEF ItcInPlace
<1>10. Translated(d)
  <2>1. ASSUME NEW r \in d.links, r.tlb, r.ok PROVE Phys(r.va) = r.phys
    BY <2>1, <1>3 DEF Translated
  <2>2. ASSUME NEW v \in VA, d.itc[v] # 0
        PROVE  /\ Phys(v) \in Pages /\ Alive(d, Phys(v), d.itc[v])
               /\ Long(d, Phys(v)) => Direct(v)
    <3>1. CASE v = va
      BY <3>1, <1>1, <1>3, <1>4, <1>5 DEF Alive
    <3>2. CASE v # va
      BY <2>2, <3>2, <1>3, <1>4, <1>5 DEF Translated, Alive
    <3> QED BY <3>1, <3>2
  <2> QED BY <2>1, <2>2 DEF Translated
<1>11. \A v \in VA : d.itc[v] \in {c.itc[v], c.blocks[Phys(va)].at}
  BY <1>4 DEF n
<1> QED BY <1>3, <1>5, <1>7, <1>8, <1>9, <1>10, <1>11 DEF InPlace, d

\* A block that is no longer what is in memory: nothing leads to it any more.
LEMMA KilledKeeps ==
  ASSUME NEW c, InPlace(c), Translated(c), NEW p \in Pages
  PROVE  /\ InPlace(Killed(c, p)) /\ Translated(Killed(c, p))
         /\ Killed(c, p).emitted = c.emitted /\ \A v \in VA : Killed(c, p).itc[v] = 0
         /\ \A q \in Pages : Killed(c, p).blocks[q].at = c.blocks[q].at
         /\ \A q \in Pages : Dead(c, q) => Dead(Killed(c, p), q)
         /\ \A t \in Killed(c, p).links : t.to # 0 => \E u \in c.links : t.to = u.to /\ t.phys = u.phys
<1> DEFINE off == {IF s.phys = p THEN [s EXCEPT !.to = 0] ELSE s : s \in c.links}
           dead == [c.blocks[p] EXCEPT !.dead = TRUE]
           d == Killed(c, p)
<1>0. c \in CcState /\ BlocksInPlace(c) /\ SitesInPlace(c) /\ ItcInPlace(c)
  BY DEF InPlace
<1>1. d = [c EXCEPT !.blocks[p] = dead, !.itc = [v \in VA |-> 0], !.links = off]
  BY <1>0 DEF Killed, unlinkTo, unlinkStatic, itcClear, CcState
<1>2. c.blocks \in [Pages -> Block] /\ \A s \in c.links : s \in Site
  BY <1>0 DEF CcState
<1>3. dead \in Block /\ dead.at = c.blocks[p].at
  BY <1>2 DEF Block
<1>4. off \in SUBSET Site
  <2> SUFFICES ASSUME NEW s \in c.links
               PROVE  (IF s.phys = p THEN [s EXCEPT !.to = 0] ELSE s) \in Site
    OBVIOUS
  <2> QED BY <1>2 DEF Site
<1>5. ASSUME NEW r \in off
      PROVE  \E s \in c.links : /\ r.tlb = s.tlb /\ r.va = s.va /\ r.phys = s.phys /\ r.ok = s.ok
                                /\ r.to = IF s.phys = p THEN 0 ELSE s.to
  <2>1. PICK s \in c.links : r = IF s.phys = p THEN [s EXCEPT !.to = 0] ELSE s
    BY <1>5
  <2>2. s \in Site
    BY <1>2
  <2> QED BY <2>1, <2>2 DEF Site
<1> HIDE DEF off, dead, d
<1>6. /\ d.emitted = c.emitted /\ d.blocks = [c.blocks EXCEPT ![p] = dead] /\ d.links = off
      /\ d.itc = [v \in VA |-> 0] /\ d.anyLinked = c.anyLinked
  BY <1>0, <1>1 DEF CcState
<1>7. /\ d.blocks \in [Pages -> Block]
      /\ \A q \in Pages : d.blocks[q].at = c.blocks[q].at /\ (q # p => d.blocks[q] = c.blocks[q])
  BY <1>2, <1>3, <1>6
<1>8. d \in CcState
  <2>1. d = [emitted |-> c.emitted, blocks |-> d.blocks, links |-> off,
             anyLinked |-> c.anyLinked, itc |-> [v \in VA |-> 0], over |-> c.over]
    BY <1>0, <1>1 DEF CcState
  <2> QED BY <2>1, <1>0, <1>4, <1>7 DEF CcState
<1>9. \A q \in Pages : Long(d, q) = Long(c, q)
  BY <1>6, <1>7 DEF Long
<1>10. BlocksInPlace(d) /\ ItcInPlace(d)
  BY <1>0, <1>6, <1>7 DEF BlocksInPlace, ItcInPlace
<1>11. SitesInPlace(d)
  <2> SUFFICES ASSUME NEW r \in off
               PROVE  /\ r.tlb = ~Direct(r.va)
                      /\ ~r.tlb => r.phys = r.va[2]
                      /\ r.to # 0 => /\ d.anyLinked /\ Alive(d, r.phys, r.to)
                                     /\ r.tlb => r.ok /\ ~Long(d, r.phys)
    BY <1>6 DEF SitesInPlace
  <2>1. PICK s \in c.links : /\ r.tlb = s.tlb /\ r.va = s.va /\ r.phys = s.phys /\ r.ok = s.ok
                             /\ r.to = IF s.phys = p THEN 0 ELSE s.to
    BY <1>5
  <2>2. s.phys \in Pages
    BY <1>2 DEF Site
  <2> QED BY <2>1, <2>2, <1>0, <1>6, <1>7, <1>9 DEF SitesInPlace, Alive
<1>12. Translated(d)
  <2>1. ASSUME NEW r \in d.links, r.tlb, r.ok PROVE Phys(r.va) = r.phys
    BY <2>1, <1>5, <1>6 DEF Translated
  <2> QED BY <2>1, <1>6 DEF Translated
<1>13. dead.dead = TRUE
  BY <1>2 DEF Block, dead
<1>14. \A q \in Pages : Dead(c, q) => Dead(d, q)
  BY <1>2, <1>6, <1>7, <1>13 DEF Dead
<1>15. \A t \in d.links : t.to # 0 => \E u \in c.links : t.to = u.to /\ t.phys = u.phys
  BY <1>5, <1>6
<1> QED BY <1>6, <1>7, <1>8, <1>10, <1>11, <1>12, <1>14, <1>15 DEF InPlace, d

\* A jump leads to an address.
LEMMA JumpsType ==
  ASSUME NEW src \in Codes, NEW va \in VA
  PROVE  JumpsTo(src, va) \subseteq VA
<1>1. CASE src.to = Reg
  BY <1>1 DEF JumpsTo
<1>2. CASE src.to # Reg
  <2>1. src.to \in Pages
    BY <1>2, CodeAssumption
  <2> QED BY <1>2, <2>1, VaParts DEF JumpsTo, VA
<1> QED BY <1>1, <1>2

\* An address has a page, or none.
LEMMA PhysType ==
  ASSUME CodeInv, NEW va \in VA, Phys(va) # Absent
  PROVE  Phys(va) \in Pages
BY VaParts DEF Phys, CodeInv

\* The driver's turn.
LEMMA DriverKeeps ==
  ASSUME CodeInv, jitTryBlock
  PROVE  CodeInv'
<1> DEFINE p == Phys(pc)
           s == Synced(cc)
           c == IF CrossesPage(s, pc) THEN s ELSE WithBlock(s, pc)
           smc == ~Dead(c, p) /\ c.emitted[c.blocks[p].at].src # Fetch(p)
           enters == ~CrossesPage(s, pc) /\ ~Dead(c, p) /\ ~smc
<1>1. p \in Pages /\ pc \in VA
  BY PhysType DEF jitTryBlock, CodeInv
<1>2. InPlace(s) /\ Translated(s)
  BY SyncedKeeps DEF CodeInv
<1>3. ~mapMoved' /\ mapMoved' \in BOOLEAN /\ tlb' = tlb /\ ram' = ram
  BY DEF jitTryBlock
<1>4. icache' \in [Pages -> Codes \cup {NoLine}] /\ cur = 0
  BY <1>1, FetchType DEF jitTryBlock, CodeInv
<1>5. \/ enters /\ cc' = Noted(Published(c, p), pc) /\ cur' = c.blocks[p].at /\ pc' = pc
      \/ (cc' = Killed(c, p) \/ cc' = c) /\ interpret /\ cur' = cur
  BY DEF jitTryBlock
<1> HIDE DEF s
<1>6. /\ InPlace(c) /\ Translated(c)
      /\ enters => (Long(c, p) => Direct(pc))
  <2>1. CASE CrossesPage(s, pc)
    BY <1>2, <2>1
  <2>2. CASE ~CrossesPage(s, pc)
    <3>1. c = WithBlock(s, pc)
      BY <2>2
    <3>2. /\ InPlace(c) /\ Translated(c)
          /\ c = s \/ Dead(c, p) \/ (Long(c, p) => Direct(pc))
      BY <1>1, <1>2, <3>1, WithBlockKeeps
    <3>3. c = s /\ ~Dead(c, p) => (Long(c, p) => Direct(pc))
      BY <2>2 DEF CrossesPage
    <3> QED BY <3>2, <3>3
  <2> QED BY <2>1, <2>2
<1>7. \A v : Phys(v)' = Phys(v)
  BY <1>3 DEF Phys
<1> HIDE DEF c, p
<1>8. CASE enters /\ cc' = Noted(Published(c, p), pc) /\ cur' = c.blocks[p].at /\ pc' = pc
  <2> DEFINE b == Published(c, p)
  <2>1. /\ InPlace(b) /\ Translated(b) /\ b.blocks[p].at = c.blocks[p].at /\ ~b.blocks[p].dead
        /\ Long(b, p) = Long(c, p)
    BY <1>1, <1>6, <1>8, PublishedKeeps
  <2>2. c.blocks[p].at \in Nat \ {0}
    BY <1>1, <1>6, <1>8 DEF InPlace, CcState, Block, Dead
  <2>3. ~Dead(b, p) /\ (Long(b, p) => Direct(pc))
    BY <1>6, <1>8, <2>1, <2>2 DEF Dead
  <2> HIDE DEF b
  <2>4. /\ InPlace(Noted(b, pc)) /\ Translated(Noted(b, pc)) /\ Noted(b, pc).blocks = b.blocks
        /\ Long(Noted(b, pc), p) = Long(b, p)
    BY <1>1, <2>1, <2>3, NotedKeeps DEF p
  <2>5. cc' = Noted(b, pc)
    BY <1>8 DEF b
  <2>6. InPlace(cc') /\ Translated(cc') /\ cc'.blocks[p].at = cur' /\ (Long(cc', p) => Direct(pc))
    BY <1>8, <2>1, <2>3, <2>4, <2>5
  <2>7. InPlace(cc)'
    BY <2>6 DEF InPlace, BlocksInPlace, SitesInPlace, ItcInPlace, Alive, Long
  <2>8. Translated(cc)'
    BY <2>6, <1>7 DEF Translated, Alive, Long
  <2>9. Phys(pc)' = p
    BY <1>8, <1>3 DEF Phys, p
  <2>10. (cur # 0 => /\ ~mapMoved /\ Phys(pc) \in Pages /\ cc.blocks[Phys(pc)].at = cur
                     /\ Long(cc, Phys(pc)) => Direct(pc))'
    BY <1>1, <1>3, <1>8, <2>6, <2>9 DEF Long
  <2>11. pc' \in VA /\ cur' \in Nat
    BY <1>1, <1>8, <2>2
  <2> QED BY <2>7, <2>8, <2>10, <2>11, <1>3, <1>4 DEF CodeInv
<1>9. CASE (cc' = Killed(c, p) \/ cc' = c) /\ interpret /\ cur' = cur
  <2>1. InPlace(cc') /\ Translated(cc')
    BY <1>1, <1>6, <1>9, KilledKeeps
  <2>2. pc' \in VA
    BY <1>1, <1>9, FetchType, JumpsType DEF interpret, p
  <2>3. InPlace(cc)'
    BY <2>1 DEF InPlace, BlocksInPlace, SitesInPlace, ItcInPlace, Alive, Long
  <2>4. Translated(cc)'
    BY <2>1, <1>7 DEF Translated, Alive, Long
  <2> QED BY <1>3, <1>4, <1>9, <2>2, <2>3, <2>4 DEF CodeInv
<1> QED BY <1>5, <1>8, <1>9

\* A chained jump lands in the block of the page its address translates to.
LEMMA ChainedLands ==
  ASSUME CodeInv, cur # 0, NEW va \in VA, NEW n \in Chained(va)
  PROVE  /\ n \in Nat \ {0} /\ Phys(va) \in Pages /\ cc.blocks[Phys(va)].at = n
         /\ Long(cc, Phys(va)) => Direct(va)
<1>0. /\ cc \in CcState /\ SitesInPlace(cc) /\ Translated(cc)
  BY DEF CodeInv, InPlace
<1>1. CASE \E t \in cc.links : t.from = cur /\ t.va = va /\ t.to # 0 /\ n = t.to
  <2>1. PICK t \in cc.links : t.from = cur /\ t.va = va /\ t.to # 0 /\ n = t.to
    BY <1>1
  <2>2. t \in Site /\ t.phys \in Pages /\ t.to \in Nat
    BY <1>0 DEF CcState, Site
  <2>3. /\ t.tlb = ~Direct(va) /\ (~t.tlb => t.phys = va[2])
        /\ cc.blocks[t.phys].at = n /\ (t.tlb => t.ok /\ ~Long(cc, t.phys))
    BY <1>0, <2>1 DEF SitesInPlace, Alive
  <2>4. Phys(va) = t.phys
    <3>1. CASE t.tlb
      BY <1>0, <2>1, <2>3, <3>1 DEF Translated
    <3>2. CASE ~t.tlb
      BY <2>3, <3>2 DEF Phys
    <3> QED BY <3>1, <3>2
  <2> QED BY <2>1, <2>2, <2>3, <2>4
<1>2. CASE cc.itc[va] # 0 /\ n = cc.itc[va]
  <2>1. cc.itc[va] \in Nat
    BY <1>0 DEF CcState
  <2> QED BY <2>1, <1>0, <1>2 DEF Translated, Alive
<1> QED BY <1>1, <1>2 DEF Chained

\* Leaving a block.
LEMMA ExitKeeps ==
  ASSUME CodeInv, emitCtrlExit
  PROVE  CodeInv'
<1>0. /\ cur # 0 /\ cc \in CcState /\ BlocksInPlace(cc) /\ pc \in VA /\ ~mapMoved
      /\ Phys(pc) \in Pages /\ cc.blocks[Phys(pc)].at = cur
  BY DEF CodeInv, InPlace, emitCtrlExit
<1>1. cc.emitted[cur].src \in Codes
  <2>1. cur \in 1 .. Len(cc.emitted)
    BY <1>0 DEF BlocksInPlace
  <2>2. cc.emitted[cur] \in Emitted
    BY <1>0, <2>1 DEF CcState
  <2> QED BY <2>2 DEF Emitted
<1>2. PICK va \in JumpsTo(cc.emitted[cur].src, pc) : pc' = va /\ cur' \in {0} \cup Chained(va)
  BY DEF emitCtrlExit
<1>3. va \in VA
  BY <1>0, <1>1, <1>2, JumpsType
<1>4. UNCHANGED <<ram, icache, tlb, mapMoved, cc>>
  BY DEF emitCtrlExit
<1>5. InPlace(cc)' /\ Translated(cc)'
  BY <1>0, <1>4
     DEF CodeInv, InPlace, BlocksInPlace, SitesInPlace, ItcInPlace, Alive, Long, Translated, Phys
<1>6. CASE cur' = 0
  BY <1>2, <1>3, <1>4, <1>5, <1>6 DEF CodeInv
<1>7. CASE cur' \in Chained(va)
  <2>1. /\ cur' \in Nat \ {0} /\ Phys(va) \in Pages /\ cc.blocks[Phys(va)].at = cur'
        /\ Long(cc, Phys(va)) => Direct(va)
    BY <1>0, <1>3, <1>7, ChainedLands
  <2>2. Phys(pc)' = Phys(va)
    BY <1>2, <1>4 DEF Phys
  <2>3. (cur # 0 => /\ ~mapMoved /\ Phys(pc) \in Pages /\ cc.blocks[Phys(pc)].at = cur
                    /\ Long(cc, Phys(pc)) => Direct(pc))'
    BY <1>0, <1>2, <1>4, <2>1, <2>2 DEF Long
  <2> QED BY <1>2, <1>3, <1>4, <1>5, <2>1, <2>3 DEF CodeInv
<1> QED BY <1>2, <1>6, <1>7

\* What the guest and the host do to the code, the I-cache and the mapping.
LEMMA MoveKeeps ==
  ASSUME CodeInv, NEW p \in Pages, NEW q \in Pages \cup {Absent}, NEW w \in Codes,
         \/ cacheInvalidate(p) \/ cacheFill(p) \/ evictLine(p)
         \/ writeCode(p, w) \/ hostPoke(p, w) \/ remap(p, q)
  PROVE  CodeInv'
<1>1. CASE cacheInvalidate(p)
  <2>1. InPlace(unlinkAll(cc)) /\ \A s \in unlinkAll(cc).links : s.to = 0
    BY UnlinkAllKeeps DEF CodeInv
  <2>2. \A v \in VA : unlinkAll(cc).itc[v] = 0
    BY UnlinkAllKeeps DEF CodeInv
  <2>3. ASSUME Translated(cc) PROVE \A s \in unlinkAll(cc).links : s.tlb /\ s.ok => Phys(s.va) = s.phys
    <3>1. \A s \in cc.links : s \in Site
      BY DEF CodeInv, InPlace, CcState
    <3>2. \A s \in unlinkAll(cc).links :
            \E u \in cc.links : s.tlb = u.tlb /\ s.ok = u.ok /\ s.va = u.va /\ s.phys = u.phys
      <4>1. CASE ~cc.anyLinked
        <5>1. unlinkAll(cc).links = cc.links
          BY <4>1 DEF unlinkAll, itcClear, CodeInv, InPlace, CcState
        <5> QED BY <5>1
      <4>2. CASE cc.anyLinked
        <5>1. unlinkAll(cc).links = {[s EXCEPT !.to = 0] : s \in cc.links}
          BY <4>2 DEF unlinkAll, itcClear, CodeInv, InPlace, CcState
        <5> QED BY <5>1, <3>1 DEF Site
      <4> QED BY <4>1, <4>2
    <3> QED BY <2>3, <3>2 DEF Translated
  <2>4. ~mapMoved => Translated(unlinkAll(cc))
    BY <2>2, <2>3 DEF Translated, CodeInv
  <2>5. /\ cc' = unlinkAll(cc) /\ cur' = 0 /\ UNCHANGED <<ram, tlb, mapMoved, pc>>
        /\ icache' = [icache EXCEPT ![p] = NoLine]
    BY <1>1 DEF cacheInvalidate, Invalidated
  <2>6. InPlace(cc')
    BY <2>1, <2>5
  <2>7. InPlace(cc)'
    BY <2>6 DEF InPlace, BlocksInPlace, SitesInPlace, ItcInPlace, Alive, Long
  <2>8. (~mapMoved => Translated(cc))'
    BY <2>4, <2>5 DEF Translated, Alive, Long, Phys
  <2> QED BY <2>5, <2>7, <2>8 DEF CodeInv
<1>2. CASE cacheFill(p) \/ evictLine(p) \/ writeCode(p, w)
  <2>1. /\ UNCHANGED <<tlb, mapMoved, cc, pc>> /\ (cur' = cur \/ cur' = 0)
        /\ ram' \in [Pages -> Codes] /\ icache' \in [Pages -> Codes \cup {NoLine}]
    BY <1>2 DEF cacheFill, evictLine, writeCode, CodeInv
  <2>2. InPlace(cc)'
    BY <2>1 DEF CodeInv, InPlace, BlocksInPlace, SitesInPlace, ItcInPlace, Alive, Long
  <2>3. (~mapMoved => Translated(cc))'
    BY <2>1 DEF CodeInv, Translated, Alive, Long, Phys
  <2>4. (cur # 0 => /\ ~mapMoved /\ Phys(pc) \in Pages /\ cc.blocks[Phys(pc)].at = cur
                    /\ Long(cc, Phys(pc)) => Direct(pc))'
    BY <2>1 DEF CodeInv, Phys, Long
  <2> QED BY <2>1, <2>2, <2>3, <2>4 DEF CodeInv
<1>3. CASE hostPoke(p, w)
  <2>1. /\ UNCHANGED <<tlb, mapMoved, pc, cur>> /\ cur = 0 /\ cc' = Empty
        /\ ram' \in [Pages -> Codes] /\ icache' \in [Pages -> Codes \cup {NoLine}]
    BY <1>3 DEF hostPoke, clear, CodeInv
  <2>2. InPlace(cc') /\ Translated(cc')
    BY <2>1, EmptyInPlace
  <2>3. InPlace(cc)'
    BY <2>2 DEF InPlace, BlocksInPlace, SitesInPlace, ItcInPlace, Alive, Long
  <2>4. Translated(cc)'
    BY <2>1, <2>2 DEF Translated, Alive, Long, Phys
  <2> QED BY <2>1, <2>3, <2>4 DEF CodeInv
<1>4. CASE remap(p, q)
  <2>1. /\ UNCHANGED <<ram, icache, cc, pc>> /\ mapMoved' = TRUE /\ cur' = 0
        /\ tlb' \in [Pages -> Pages \cup {Absent}]
    BY <1>4 DEF remap, CodeInv
  <2>2. InPlace(cc)'
    BY <2>1 DEF CodeInv, InPlace, BlocksInPlace, SitesInPlace, ItcInPlace, Alive, Long
  <2> QED BY <2>1, <2>2 DEF CodeInv
<1> QED BY <1>1, <1>2, <1>3, <1>4

----------------------------------------------------------------------------
(* Every step keeps the code current. *)

\* Tables that lead nowhere new are as current as those they come from.
LEMMA StaysSettled ==
  ASSUME NEW c, NEW d, NEW h, NEW k, NEW b, UpToDate(c, h, k, b), d.emitted = c.emitted,
         \A q \in Pages : d.blocks[q].at = c.blocks[q].at /\ (~Dead(d, q) => ~Dead(c, q)),
         \A v \in VA : d.itc[v] \in {0, c.itc[v]},
         \A t \in d.links : t.to # 0 => \E u \in c.links : t.to = u.to /\ t.phys = u.phys
  PROVE  UpToDate(d, h, k, b)
<1>1. \A n : Good(d, h, n) = Good(c, h, n)
  BY DEF Good
<1>2. ASSUME NEW q \in Pages, q \in k, ~Dead(d, q) PROVE Good(d, h, d.blocks[q].at)
  BY <1>1, <1>2 DEF UpToDate
<1>3. ASSUME NEW t \in d.links, t.to # 0 PROVE t.phys \in b \/ Good(d, h, t.to)
  BY <1>1, <1>3 DEF UpToDate
<1>4. ASSUME NEW v \in VA, d.itc[v] # 0 PROVE Good(d, h, d.itc[v])
  BY <1>1, <1>4 DEF UpToDate
<1> QED BY <1>2, <1>3, <1>4 DEF UpToDate

\* Empty tables lead nowhere.
LEMMA EmptySettled == \A h, k, b : UpToDate(Empty, h, k, b)
<1>1. /\ Empty.links = {} /\ \A v \in VA : Empty.itc[v] = 0
      /\ \A q \in Pages : Empty.blocks[q].at = 0
  BY DEF Empty, NoBlock
<1> QED BY <1>1 DEF UpToDate, Dead

\* unlinkAll leaves the blocks.
LEMMA UnlinkAllBlocks ==
  ASSUME NEW c, InPlace(c)
  PROVE  /\ unlinkAll(c).emitted = c.emitted
         /\ \A q \in Pages : /\ unlinkAll(c).blocks[q].at = c.blocks[q].at
                             /\ unlinkAll(c).blocks[q].dead = c.blocks[q].dead
<1>1. c \in CcState /\ c.blocks \in [Pages -> Block]
  BY DEF InPlace, CcState
<1>2. CASE ~c.anyLinked
  BY <1>1, <1>2 DEF unlinkAll, itcClear, CcState
<1>3. CASE c.anyLinked
  <2> DEFINE bl == [p \in Pages |-> [c.blocks[p] EXCEPT !.epoch = FALSE]]
  <2>1. unlinkAll(c).emitted = c.emitted /\ unlinkAll(c).blocks = bl
    BY <1>1, <1>3 DEF unlinkAll, itcClear, CcState
  <2>2. \A q \in Pages : bl[q].at = c.blocks[q].at /\ bl[q].dead = c.blocks[q].dead
    BY <1>1 DEF Block
  <2> QED BY <2>1, <2>2
<1> QED BY <1>2, <1>3

\* unlinkAll leaves nothing that is not current but blocks that nothing leads to.
LEMMA UnlinkAllSettled ==
  ASSUME NEW c, NEW h, NEW k, NEW b, NEW b2, InPlace(c), UpToDate(c, h, k, b)
  PROVE  UpToDate(unlinkAll(c), h, k, b2)
<1> DEFINE d == unlinkAll(c)
<1>1. d.emitted = c.emitted /\ \A q \in Pages : d.blocks[q].at = c.blocks[q].at /\ d.blocks[q].dead = c.blocks[q].dead
  BY UnlinkAllBlocks
<1>2. (\A t \in d.links : t.to = 0) /\ (\A v \in VA : d.itc[v] = 0)
  BY UnlinkAllKeeps
<1> HIDE DEF d
<1>3. \A q \in Pages : q \in k /\ ~Dead(d, q) => Good(d, h, d.blocks[q].at)
  BY <1>1 DEF UpToDate, Good, Dead
<1>4. UpToDate(d, h, k, b2)
  BY <1>2, <1>3 DEF UpToDate
<1> QED BY <1>4 DEF d

LEMMA SyncedSettled ==
  ASSUME CodeInv, CodeNow
  PROVE  UpToDate(Synced(cc), had, checked, blind)
<1>1. CASE ~mapMoved
  BY <1>1 DEF Synced, CodeNow
<1>2. CASE mapMoved
  <2> DEFINE u == unlinkAll(cc)
             probed == {[s EXCEPT !.ok = ~s.tlb \/ Phys(s.va) = s.phys] : s \in u.links}
             d == Synced(cc)
  <2>1. /\ InPlace(u) /\ \A s \in u.links : s.to = 0
        /\ UpToDate(u, had, checked, blind)
    BY UnlinkAllKeeps, UnlinkAllSettled DEF CodeInv, CodeNow
  <2>2. d = [u EXCEPT !.links = probed]
    BY <1>2 DEF Synced, reprobe
  <2> HIDE DEF u
  <2>3. u \in CcState /\ \A s \in u.links : s \in Site
    BY <2>1 DEF InPlace, CcState
  <2>4. \A t \in probed : t.to = 0
    BY <2>1, <2>3 DEF Site
  <2> HIDE DEF probed, d
  <2>5. d.emitted = u.emitted /\ d.blocks = u.blocks /\ d.itc = u.itc /\ d.links = probed
    BY <2>2, <2>3 DEF CcState
  <2>6. UpToDate(d, had, checked, blind)
    BY <2>1, <2>4, <2>5, StaysSettled DEF Dead
  <2> QED BY <2>6 DEF d
<1> QED BY <1>1, <1>2 DEF CodeInv

\* The driver's turn.
LEMMA DriverNow ==
  ASSUME CodeInv, CodeNow, jitTryBlock
  PROVE  CodeNow'
<1> DEFINE p == Phys(pc)
           s == Synced(cc)
           c == IF CrossesPage(s, pc) THEN s ELSE WithBlock(s, pc)
           smc == ~Dead(c, p) /\ c.emitted[c.blocks[p].at].src # Fetch(p)
           enters == ~CrossesPage(s, pc) /\ ~Dead(c, p) /\ ~smc
           B == {q \in blind \cup (Joined(cc', Len(cc'.emitted)) \ checked) : q # p /\ Armed(cc', q)}
<1>1. p \in Pages /\ pc \in VA
  BY PhysType DEF jitTryBlock, CodeInv
<1>2. InPlace(s) /\ Translated(s) /\ UpToDate(s, had, checked, blind)
  BY SyncedKeeps, SyncedSettled DEF CodeInv
<1>3. had' = had /\ ram' = ram /\ icache' = [icache EXCEPT ![p] = Fetch(p)] /\ cur = 0
  BY DEF jitTryBlock
<1>4. \A q \in Pages : Fetch(q)' \in had'[q]
  <2>1. Fetch(p) \in Codes /\ icache \in [Pages -> Codes \cup {NoLine}]
    BY <1>1, FetchType DEF CodeInv
  <2>2. Fetch(p) # NoLine
    <3>1. Fetch(p).to # -2
      BY <2>1, CodeAssumption DEF Reg
    <3> QED BY <3>1 DEF NoLine
  <2>3. \A q \in Pages : Fetch(q)' = Fetch(q)
    BY <1>1, <1>3, <2>1, <2>2 DEF Fetch
  <2> QED BY <1>3, <2>3 DEF CodeNow
<1>5. \/ /\ enters /\ cc' = Noted(Published(c, p), pc) /\ cur' = c.blocks[p].at
         /\ checked' = checked \cup {p} /\ blind' = B
      \/ /\ ~enters /\ (cc' = Killed(c, p) \/ cc' = c) /\ cur' = cur
         /\ checked' = checked /\ blind' = blind
  BY DEF jitTryBlock
<1> HIDE DEF s
<1>6. /\ InPlace(c) /\ Translated(c)
      /\ enters => (Long(c, p) => Direct(pc))
      /\ SameTables(s, c) \/ (enters /\ (Compiled(s, c, p) \/ Compiled(Empty, c, p)))
  <2>1. CASE CrossesPage(s, pc)
    BY <1>2, <2>1 DEF SameTables
  <2>2. CASE ~CrossesPage(s, pc)
    <3>1. c = WithBlock(s, pc)
      BY <2>2
    <3>2. /\ InPlace(c) /\ Translated(c)
          /\ c = s \/ Dead(c, p) \/ (Long(c, p) => Direct(pc))
          /\ SameTables(s, c) \/ Compiled(s, c, p) \/ Compiled(Empty, c, p)
      BY <1>1, <1>2, <3>1, WithBlockKeeps
    <3>3. c = s /\ ~Dead(c, p) => (Long(c, p) => Direct(pc))
      BY <2>2 DEF CrossesPage
    <3>4. Compiled(s, c, p) \/ Compiled(Empty, c, p) => enters
      BY <2>2 DEF Compiled
    <3> QED BY <3>2, <3>3, <3>4
  <2> QED BY <2>1, <2>2
<1> HIDE DEF c, p
<1>7. CASE /\ enters /\ cc' = Noted(Published(c, p), pc) /\ cur' = c.blocks[p].at
           /\ checked' = checked \cup {p} /\ blind' = B
  <2> DEFINE g == Published(c, p)
  <2>1. /\ InPlace(g) /\ Translated(g) /\ g.blocks[p].at = c.blocks[p].at /\ ~g.blocks[p].dead
        /\ Long(g, p) = Long(c, p)
        /\ g.emitted = c.emitted /\ g.itc = c.itc
        /\ \A q \in Pages : g.blocks[q].at = c.blocks[q].at /\ g.blocks[q].dead = c.blocks[q].dead
        /\ \A t \in g.links : t \in c.links \/ t.phys = p
    BY <1>1, <1>6, <1>7, PublishedKeeps
  <2>2. ~Dead(g, p) /\ (Long(g, p) => Direct(pc))
    BY <1>6, <1>7, <2>1 DEF Dead
  <2> HIDE DEF g
  <2>3. /\ InPlace(Noted(g, pc)) /\ Noted(g, pc).blocks = g.blocks
        /\ Noted(g, pc).emitted = g.emitted /\ Noted(g, pc).links = g.links
        /\ \A v \in VA : Noted(g, pc).itc[v] \in {g.itc[v], g.blocks[p].at}
    BY <1>1, <2>1, <2>2, NotedKeeps DEF p
  <2> DEFINE e == cc'
             n == Len(e.emitted)
  <2>4. e = Noted(g, pc)
    BY <1>7 DEF g
  <2>5. /\ InPlace(e) /\ e.blocks = g.blocks /\ e.emitted = c.emitted /\ e.links = g.links
        /\ \A v \in VA : e.itc[v] \in {c.itc[v], e.blocks[p].at}
    BY <2>1, <2>3, <2>4
  <2> HIDE DEF e
  <2>6. ~Dead(e, p) /\ e.emitted[e.blocks[p].at].src = Fetch(p)
    BY <1>7, <2>1, <2>2, <2>5 DEF Dead
  <2>7. e.emitted[e.blocks[p].at].phys = p
    BY <1>1, <2>5, <2>6 DEF InPlace, BlocksInPlace, Dead
  <2>8. Good(e, had, e.blocks[p].at)
    BY <1>1, <2>6, <2>7 DEF Good, CodeNow
  <2>9. PICK base : /\ InPlace(base) /\ UpToDate(base, had, checked, blind)
                    /\ Grown(base, c, p, n)
    <3>1. CASE SameTables(s, c)
      <4>1. Grown(s, c, p, n)
        BY <3>1, <1>2 DEF SameTables, Grown, InPlace, CcState
      <4> QED BY <1>2, <4>1
    <3>2. CASE Compiled(s, c, p)
      BY <1>2, <2>5, <3>2 DEF Compiled
    <3>3. CASE Compiled(Empty, c, p)
      BY <2>5, <3>3, EmptyInPlace, EmptySettled DEF Compiled
    <3> QED BY <1>6, <3>1, <3>2, <3>3
  <2>10. Grown(base, e, p, n)
    <3>1. \A q \in Pages : q # p => e.blocks[q].at = base.blocks[q].at /\ e.blocks[q].dead = base.blocks[q].dead
      BY <2>1, <2>5, <2>9 DEF Grown
    <3>2. \A v \in VA : e.itc[v] \in {0, base.itc[v], e.blocks[p].at}
      BY <1>1, <2>1, <2>5, <2>9 DEF Grown
    <3>3. \A t \in e.links : t.to # 0 => t.phys = p \/ t \in base.links \/ t.from = n
      BY <2>1, <2>5, <2>9 DEF Grown
    <3> QED BY <2>5, <2>9, <3>1, <3>2, <3>3 DEF Grown
  <2>11. UpToDate(e, had, checked \cup {p}, {q \in blind \cup (Joined(e, n) \ checked) : q # p /\ Armed(e, q)})
    BY <1>1, <2>5, <2>6, <2>8, <2>9, <2>10, EnterSettled
  <2>12. UpToDate(cc', had', checked', blind')
    BY <1>3, <1>7, <2>11 DEF e
  <2>13. Good(cc', had', cur')
    BY <1>3, <1>7, <2>1, <2>5, <2>8 DEF e
  <2>14. UpToDate(cc, had, checked, blind)'
    BY <2>12 DEF UpToDate, Good, Dead
  <2>15. Good(cc, had, cur)'
    BY <2>13 DEF Good
  <2> QED BY <1>3, <1>4, <2>14, <2>15 DEF CodeNow
<1>8. CASE /\ ~enters /\ (cc' = Killed(c, p) \/ cc' = c) /\ cur' = cur
           /\ checked' = checked /\ blind' = blind
  <2>1. UpToDate(c, had, checked, blind)
    <3>1. SameTables(s, c)
      BY <1>6, <1>8
    <3>2. /\ c.emitted = s.emitted /\ \A v \in VA : c.itc[v] \in {0, s.itc[v]}
          /\ \A q \in Pages : c.blocks[q].at = s.blocks[q].at /\ (~Dead(c, q) => ~Dead(s, q))
          /\ \A t \in c.links : t.to # 0 => \E u \in s.links : t.to = u.to /\ t.phys = u.phys
      BY <3>1 DEF SameTables, Dead
    <3> QED BY <1>2, <3>2, StaysSettled
  <2>2. UpToDate(Killed(c, p), had, checked, blind)
    <3> DEFINE d == Killed(c, p)
    <3>0. InPlace(c) /\ Translated(c) /\ p \in Pages
      BY <1>1, <1>6
    <3>a. d.emitted = c.emitted /\ \A v \in VA : d.itc[v] = 0
      BY <3>0, KilledKeeps
    <3>b. \A q \in Pages : d.blocks[q].at = c.blocks[q].at
      BY <3>0, KilledKeeps
    <3>d. \A q \in Pages : Dead(c, q) => Dead(d, q)
      BY <3>0, KilledKeeps
    <3>c. \A t \in d.links : t.to # 0 => \E u \in c.links : t.to = u.to /\ t.phys = u.phys
      BY <3>0, KilledKeeps
    <3> HIDE DEF d
    <3>1. /\ d.emitted = c.emitted /\ \A v \in VA : d.itc[v] = 0
          /\ \A q \in Pages : d.blocks[q].at = c.blocks[q].at /\ (~Dead(d, q) => ~Dead(c, q))
          /\ \A t \in d.links : t.to # 0 => \E u \in c.links : t.to = u.to /\ t.phys = u.phys
      BY <3>a, <3>b, <3>c, <3>d
    <3>2. UpToDate(d, had, checked, blind)
      BY <2>1, <3>1, StaysSettled
    <3> QED BY <3>2 DEF d
  <2>3. UpToDate(cc', had', checked', blind')
    BY <1>3, <1>8, <2>1, <2>2
  <2>4. UpToDate(cc, had, checked, blind)'
    BY <2>3 DEF UpToDate, Good, Dead
  <2> QED BY <1>3, <1>4, <1>8, <2>4 DEF CodeNow
<1> QED BY <1>5, <1>7, <1>8

\* Leaving a block, by a chained jump or to the driver.
LEMMA ExitNow ==
  ASSUME CodeInv, CodeNow, emitCtrlExit
  PROVE  CodeNow'
<1>1. UNCHANGED <<ram, icache, cc, had, checked, blind>> /\ cur # 0
  BY DEF emitCtrlExit, ghosts
<1>2. PICK va \in JumpsTo(cc.emitted[cur].src, pc) : cur' \in {0} \cup Chained(va)
  BY DEF emitCtrlExit
<1>3. cc.emitted[cur].src \in Codes /\ pc \in VA
  <2>1. cur \in 1 .. Len(cc.emitted) /\ cc \in CcState /\ pc \in VA
    BY <1>1 DEF CodeInv, InPlace, BlocksInPlace
  <2>2. cc.emitted[cur] \in Emitted
    BY <2>1 DEF CcState
  <2> QED BY <2>1, <2>2 DEF Emitted
<1>4. va \in VA
  BY <1>2, <1>3, JumpsType
<1>5. cur' # 0 => Good(cc, had, cur') \/ cc.emitted[cur'].phys \in blind
  <2> SUFFICES ASSUME cur' # 0 PROVE Good(cc, had, cur') \/ cc.emitted[cur'].phys \in blind
    OBVIOUS
  <2>1. cur' \in Chained(va)
    BY <1>2
  <2>2. CASE \E t \in cc.links : t.from = cur /\ t.va = va /\ t.to # 0 /\ cur' = t.to
    <3>1. PICK t \in cc.links : t.to # 0 /\ cur' = t.to
      BY <2>2
    <3>2. cc.emitted[t.to].phys = t.phys
      BY <3>1, ArmedTo DEF CodeInv
    <3> QED BY <3>1, <3>2 DEF CodeNow, UpToDate
  <2>3. CASE cc.itc[va] # 0 /\ cur' = cc.itc[va]
    BY <1>4, <2>3 DEF CodeNow, UpToDate
  <2> QED BY <2>1, <2>2, <2>3 DEF Chained
<1> QED BY <1>1, <1>5 DEF CodeNow, UpToDate, Good, Fetch, Dead

\* A page that may be fetched as more than before leaves current what was.
LEMMA HoldNow ==
  ASSUME CodeInv, CodeNow, NEW p \in Pages, Hold(p), blind' = blind, cc' = cc, cur' \in {0, cur},
         \A q \in Pages : q # p => ram'[q] = ram[q] /\ icache'[q] = icache[q], Fetch(p)' \in Codes
  PROVE  CodeNow'
<1>1. /\ had' = [had EXCEPT ![p] = had[p] \cup {Fetch(p)'}] /\ checked' = checked
      /\ had \in [Pages -> SUBSET Codes]
  BY DEF Hold, CodeNow
<1>2. had' \in [Pages -> SUBSET Codes]
  BY <1>1
<1>3. \A q \in Pages : had[q] \subseteq had'[q]
  BY <1>1
<1>4. \A q \in Pages : Fetch(q)' \in had'[q]
  <2>1. Fetch(p)' \in had'[p]
    BY <1>1
  <2>2. \A q \in Pages : q # p => Fetch(q)' = Fetch(q)
    BY DEF Fetch
  <2> QED BY <1>3, <2>1, <2>2 DEF CodeNow
<1>5. ASSUME NEW n, n \in 1 .. Len(cc.emitted), Good(cc, had, n) PROVE Good(cc, had', n)
  <2>1. cc.emitted[n] \in Emitted
    BY <1>5 DEF CodeInv, InPlace, CcState
  <2> QED BY <1>3, <1>5, <2>1 DEF Good, Emitted
<1>6. UpToDate(cc, had', checked, blind)
  <2>0. InPlace(cc) /\ BlocksInPlace(cc) /\ ItcInPlace(cc) /\ UpToDate(cc, had, checked, blind)
    BY DEF CodeInv, InPlace, CodeNow
  <2>1. ASSUME NEW q \in Pages, q \in checked, ~Dead(cc, q) PROVE Good(cc, had', cc.blocks[q].at)
    BY <1>5, <2>0, <2>1 DEF BlocksInPlace, Dead, UpToDate
  <2>2. ASSUME NEW t \in cc.links, t.to # 0 PROVE t.phys \in blind \/ Good(cc, had', t.to)
    BY <1>5, <2>0, <2>2, ArmedTo DEF UpToDate
  <2>3. ASSUME NEW v \in VA, cc.itc[v] # 0 PROVE Good(cc, had', cc.itc[v])
    <3>1. cc.itc[v] \in 1 .. Len(cc.emitted)
      BY <2>0, <2>3 DEF ItcInPlace, BlocksInPlace, Alive
    <3> QED BY <1>5, <2>0, <2>3, <3>1 DEF UpToDate
  <2> QED BY <2>1, <2>2, <2>3 DEF UpToDate
<1>7. cur' # 0 => Good(cc, had', cur') \/ cc.emitted[cur'].phys \in blind
  <2>1. cur # 0 => cur \in 1 .. Len(cc.emitted)
    BY DEF CodeInv, InPlace, BlocksInPlace
  <2> QED BY <1>5, <2>1 DEF CodeNow
<1>8. UpToDate(cc, had, checked, blind)'
  BY <1>1, <1>6 DEF UpToDate, Good, Dead
<1>9. (cur # 0 => Good(cc, had, cur) \/ cc.emitted[cur].phys \in blind)'
  BY <1>7 DEF Good
<1> QED BY <1>2, <1>4, <1>8, <1>9 DEF CodeNow

\* What the guest and the host do to the code, the I-cache and the mapping.
LEMMA MoveNow ==
  ASSUME CodeInv, CodeNow, NEW p \in Pages, NEW q \in Pages \cup {Absent}, NEW w \in Codes,
         \/ cacheInvalidate(p) \/ cacheFill(p) \/ evictLine(p)
         \/ writeCode(p, w) \/ hostPoke(p, w) \/ remap(p, q)
  PROVE  CodeNow'
<1>0. /\ ram \in [Pages -> Codes] /\ icache \in [Pages -> Codes \cup {NoLine}]
      /\ had \in [Pages -> SUBSET Codes] /\ \A x \in Pages : Fetch(x) \in had[x]
      /\ InPlace(cc) /\ UpToDate(cc, had, checked, blind)
  BY DEF CodeInv, CodeNow
<1>1. CASE cacheInvalidate(p)
  <2>1. /\ cc' = unlinkAll(cc) /\ cur' = 0 /\ ram' = ram /\ icache' = [icache EXCEPT ![p] = NoLine]
        /\ had' = [had EXCEPT ![p] = {ram[p]}] /\ checked' = checked \ {p} /\ blind' = {}
    BY <1>1 DEF cacheInvalidate, Invalidated
  <2> DEFINE d == unlinkAll(cc)
  <2>2. /\ d.emitted = cc.emitted
        /\ \A x \in Pages : d.blocks[x].at = cc.blocks[x].at /\ d.blocks[x].dead = cc.blocks[x].dead
    BY <1>0, UnlinkAllBlocks
  <2>3. (\A t \in d.links : t.to = 0) /\ (\A v \in VA : d.itc[v] = 0)
    BY <1>0, UnlinkAllKeeps
  <2> HIDE DEF d
  <2>4. ASSUME NEW x \in Pages, x \in checked \ {p}, ~Dead(d, x) PROVE Good(d, had', d.blocks[x].at)
    <3>1. ~Dead(cc, x) /\ Good(cc, had, cc.blocks[x].at)
      BY <1>0, <2>2, <2>4 DEF Dead, UpToDate
    <3>2. cc.emitted[cc.blocks[x].at].phys = x
      BY <1>0, <3>1 DEF InPlace, BlocksInPlace, Dead
    <3>3. had'[x] = had[x]
      BY <1>0, <2>1, <2>4
    <3> QED BY <2>2, <3>1, <3>2, <3>3 DEF Good
  <2>5. UpToDate(d, had', checked', blind')
    BY <2>1, <2>3, <2>4 DEF UpToDate
  <2>6. UpToDate(cc, had, checked, blind)'
    BY <2>1, <2>5 DEF d, UpToDate, Good, Dead
  <2>7. had' \in [Pages -> SUBSET Codes]
    BY <1>0, <2>1
  <2>8. \A x \in Pages : Fetch(x)' \in had'[x]
    <3>1. Fetch(p)' = ram[p] /\ had'[p] = {ram[p]}
      BY <1>0, <2>1 DEF Fetch
    <3>2. \A x \in Pages : x # p => Fetch(x)' = Fetch(x) /\ had'[x] = had[x]
      BY <1>0, <2>1 DEF Fetch
    <3> QED BY <1>0, <3>1, <3>2
  <2> QED BY <2>1, <2>6, <2>7, <2>8 DEF CodeNow
<1>2. CASE cacheFill(p)
  <2>1. Hold(p) /\ blind' = blind /\ cc' = cc /\ cur' = 0 /\ ram' = ram /\ icache' = [icache EXCEPT ![p] = ram[p]]
    BY <1>2 DEF cacheFill
  <2>2. Fetch(p)' \in Codes
    BY <1>0, <2>1 DEF Fetch
  <2> QED BY <1>0, <2>1, <2>2, HoldNow
<1>3. CASE evictLine(p)
  <2>1. Hold(p) /\ blind' = blind /\ cc' = cc /\ cur' = cur /\ ram' = ram /\ icache' = [icache EXCEPT ![p] = NoLine]
    BY <1>3 DEF evictLine
  <2>2. Fetch(p)' \in Codes
    BY <1>0, <2>1 DEF Fetch
  <2> QED BY <1>0, <2>1, <2>2, HoldNow
<1>4. CASE writeCode(p, w)
  <2>1. Hold(p) /\ blind' = blind /\ cc' = cc /\ cur' = cur /\ ram' = [ram EXCEPT ![p] = w] /\ icache' = icache
    BY <1>4 DEF writeCode
  <2>2. Fetch(p)' \in Codes
    BY <1>0, <2>1 DEF Fetch
  <2> QED BY <1>0, <2>1, <2>2, HoldNow
<1>5. CASE hostPoke(p, w)
  <2>1. /\ Hold(p) /\ blind' = {} /\ cc' = Empty /\ cur' = 0 /\ ram' = [ram EXCEPT ![p] = w]
        /\ icache' = [icache EXCEPT ![p] = IF icache[p] = NoLine THEN icache[p] ELSE w]
    BY <1>5 DEF hostPoke, clear
  <2>2. Fetch(p)' \in Codes /\ had' = [had EXCEPT ![p] = had[p] \cup {Fetch(p)'}]
    BY <1>0, <2>1 DEF Fetch, Hold
  <2>3. had' \in [Pages -> SUBSET Codes]
    BY <1>0, <2>2
  <2>4. \A x \in Pages : Fetch(x)' \in had'[x]
    <3>1. Fetch(p)' \in had'[p]
      BY <1>0, <2>2
    <3>2. \A x \in Pages : x # p => Fetch(x)' = Fetch(x) /\ had'[x] = had[x]
      BY <1>0, <2>1, <2>2 DEF Fetch
    <3> QED BY <1>0, <3>1, <3>2
  <2>5. UpToDate(cc', had', checked', blind')
    BY <2>1, EmptySettled
  <2>6. UpToDate(cc, had, checked, blind)'
    BY <2>5 DEF UpToDate, Good, Dead
  <2> QED BY <2>1, <2>3, <2>4, <2>6 DEF CodeNow
<1>6. CASE remap(p, q)
  <2>1. UNCHANGED <<ram, icache, cc, had, checked, blind>> /\ cur' = 0
    BY <1>6 DEF remap, ghosts
  <2> QED BY <1>0, <2>1 DEF CodeNow, UpToDate, Good, Fetch, Dead
<1> QED BY <1>1, <1>2, <1>3, <1>4, <1>5, <1>6

\* What runs is the block of the page its address translates to now, alive where an armed jump
\* leads to it and compiled from what the page could be fetched as since the guest last invalidated
\* it, but where a new block was joined to it blind, for any pages, code, buffer and sequence of
\* writes, invalidations, refills and remappings (CodeCache, addLink, unlinkTo, unlinkAll, reprobe).
THEOREM ChainsLandRight == CodeSpec => []CodeIsThere
<1>1. CodeInit => CodeInv /\ CodeNow
  <2> SUFFICES ASSUME CodeInit PROVE CodeInv /\ CodeNow
    OBVIOUS
  <2>1. InPlace(cc) /\ Translated(cc)
    BY EmptyInPlace DEF CodeInit
  <2>2. pc \in VA
    BY DEF CodeInit, VA
  <2>3. had \in [Pages -> SUBSET Codes] /\ \A p \in Pages : Fetch(p) \in had[p]
    BY DEF CodeInit, Fetch
  <2>4. UpToDate(cc, had, checked, blind) /\ cur = 0
    BY EmptySettled DEF CodeInit
  <2>5. CodeInv
    BY <2>1, <2>2 DEF CodeInit, CodeInv
  <2>6. CodeNow
    BY <2>3, <2>4 DEF CodeNow
  <2> QED BY <2>5, <2>6
<1>2. CodeInv /\ CodeNow /\ [CodeNext]_codeVars => (CodeInv /\ CodeNow)'
  <2> SUFFICES ASSUME CodeInv, CodeNow, [CodeNext]_codeVars PROVE CodeInv' /\ CodeNow'
    OBVIOUS
  <2>1. CASE jitTryBlock
    BY <2>1, DriverKeeps, DriverNow
  <2>2. CASE declined \/ fetchFault
    <3>1. /\ UNCHANGED <<ram, tlb, mapMoved, cc, cur>> /\ cur = 0
          /\ icache' \in [Pages -> Codes \cup {NoLine}] /\ pc' \in VA
      <4>1. CASE declined
        BY <4>1, PhysType, FetchType, JumpsType DEF declined, interpret, CodeInv
      <4>2. CASE fetchFault
        BY <4>2 DEF fetchFault, VA, CodeInv
      <4> QED BY <2>2, <4>1, <4>2
    <3>2. InPlace(cc)'
      BY <3>1 DEF CodeInv, InPlace, BlocksInPlace, SitesInPlace, ItcInPlace, Alive, Long
    <3>3. (~mapMoved => Translated(cc))'
      BY <3>1 DEF CodeInv, Translated, Alive, Long, Phys
    <3>4. CodeInv'
      BY <3>1, <3>2, <3>3 DEF CodeInv
    <3>5. \A p \in Pages : Fetch(p)' = Fetch(p)
      <4>1. CASE declined
        <5>1. Phys(pc) \in Pages /\ icache' = [icache EXCEPT ![Phys(pc)] = Fetch(Phys(pc))]
          BY <4>1, PhysType DEF declined, CodeInv
        <5>2. Fetch(Phys(pc)) \in Codes
          BY <5>1, FetchType
        <5>3. Fetch(Phys(pc)) # NoLine
          <6>1. Fetch(Phys(pc)).to # -2
            BY <5>2, CodeAssumption DEF Reg
          <6> QED BY <6>1 DEF NoLine
        <5> QED BY <3>1, <5>1, <5>2, <5>3 DEF Fetch, CodeInv
      <4>2. CASE fetchFault
        BY <4>2 DEF fetchFault, Fetch
      <4> QED BY <2>2, <4>1, <4>2
    <3>6. UNCHANGED <<had, checked, blind>>
      BY <2>2 DEF declined, fetchFault, ghosts
    <3>7. CodeNow'
      BY <3>1, <3>5, <3>6 DEF CodeNow, UpToDate, Good, Dead
    <3> QED BY <3>4, <3>7
  <2>3. CASE emitCtrlExit
    BY <2>3, ExitKeeps, ExitNow
  <2>4. CASE \E p \in Pages :
               \/ cacheInvalidate(p) \/ cacheFill(p) \/ evictLine(p)
               \/ \E c \in Codes : writeCode(p, c) \/ hostPoke(p, c)
               \/ \E q \in Pages \cup {Absent} : remap(p, q)
    <3>1. PICK p \in Pages :
               \/ cacheInvalidate(p) \/ cacheFill(p) \/ evictLine(p)
               \/ \E c \in Codes : writeCode(p, c) \/ hostPoke(p, c)
               \/ \E q \in Pages \cup {Absent} : remap(p, q)
      BY <2>4
    <3>2. \E c \in Codes : TRUE
      BY DEF CodeInv
    <3>3. Absent \in Pages \cup {Absent}
      OBVIOUS
    <3> QED BY <3>1, <3>2, <3>3, MoveKeeps, MoveNow
  <2>5. CASE UNCHANGED codeVars
    <3>1. CodeInv'
      BY <2>5 DEF codeVars, CodeInv, InPlace, BlocksInPlace, SitesInPlace, ItcInPlace, Alive, Long,
                  Translated, Phys
    <3>2. CodeNow'
      BY <2>5 DEF codeVars, ghosts, CodeNow, UpToDate, Good, Dead, Fetch
    <3> QED BY <3>1, <3>2
  <2> QED BY <2>1, <2>2, <2>3, <2>4, <2>5 DEF CodeNext
<1>3. CodeInv /\ CodeNow => CodeIsThere
  <2> SUFFICES ASSUME CodeInv, CodeNow PROVE CodeIsThere
    OBVIOUS
  <2>1. ArmedIsAlive
    BY DEF CodeInv, InPlace, SitesInPlace, ItcInPlace, Alive, ArmedIsAlive
  <2>2. RunsInItsPlace
    <3> SUFFICES ASSUME cur # 0
                 PROVE  /\ cc.emitted[cur].phys = Phys(pc)
                        /\ Long(cc, cc.emitted[cur].phys) => Direct(pc)
      BY DEF RunsInItsPlace
    <3>1. /\ Phys(pc) \in Pages /\ cc.blocks[Phys(pc)].at = cur
          /\ Long(cc, Phys(pc)) => Direct(pc)
      BY DEF CodeInv
    <3>2. cc.emitted[cur].phys = Phys(pc)
      BY <3>1 DEF CodeInv, InPlace, BlocksInPlace
    <3> QED BY <3>1, <3>2
  <2>3. RunsWhatIsThere
    <3>1. \A s \in cc.links : s.to # 0 => WasThere(s.to) \/ JoinedBlind(s.to)
      BY ArmedTo DEF CodeInv, CodeNow, UpToDate, Good, WasThere, JoinedBlind
    <3> QED BY <3>1 DEF CodeNow, UpToDate, Good, WasThere, JoinedBlind, RunsWhatIsThere
  <2> QED BY <2>1, <2>2, <2>3 DEF CodeIsThere
<1> QED BY <1>1, <1>2, <1>3, PTL DEF CodeSpec

----------------------------------------------------------------------------
(***************************************************************************)
(* cpu->gpr is coherent wherever a block is left, for any registers, any   *)
(* number of slots and any block: the slots and the memory together hold the*)
(* registers of the interpreter.                                           *)
(***************************************************************************)

RcState == [of : [Slots -> (Gprs \ {0}) \cup {Free}], dirty : [Slots -> BOOLEAN],
            val : [Slots -> Int], rr : Slots, gpr : [Gprs -> Int], ok : BOOLEAN]

\* Register g is in a slot that has not been written back.
IsDirty(c, g) == \E k \in Slots : c.of[k] = g /\ c.dirty[k]

\* A register has one slot, and a slot without register nothing to write back.
OneSlot(c) == \A j, k \in Slots : c.of[j] = c.of[k] /\ c.of[j] # Free => j = k
DirtyIsHeld(c) == \A k \in Slots : c.dirty[k] => c.of[k] # Free

\* Slots and memory hold the values of ref, but for the registers of X.
Copies(c, ref, X) == \A k \in Slots : c.of[k] # Free /\ c.of[k] \notin X => c.val[k] = ref[c.of[k]]
Stored(c, ref, X) == \A g \in Gprs \ X : ~IsDirty(c, g) => c.gpr[g] = ref[g]

Coherent(c, ref, X) ==
  c \in RcState /\ OneSlot(c) /\ DirtyIsHeld(c) /\ Copies(c, ref, X) /\ Stored(c, ref, X)

\* The cache holds the interpreter's registers, and a block that has been left has them in memory.
RcInv ==
  /\ rcStep \in Nat /\ gprRef \in [Gprs -> Int]
  /\ Coherent(rc, gprRef, {})
  /\ rc.ok /\ (left => rc.gpr = gprRef)

----------------------------------------------------------------------------
(* The slot a register is given. *)

\* A set of slots has one that comes first in any order that counts from zero.
LEMMA MinExists ==
  ASSUME NEW S, NEW f \in [S -> Nat], S # {}
  PROVE  \E k \in S : \A j \in S : f[k] <= f[j]
<1> DEFINE T == {f[k] : k \in S}
<1>1. T \in SUBSET Nat /\ T # {}
  OBVIOUS
<1>2. PICK n \in T : \A m \in T : ~(<<m, n>> \in OpToRel(<, Nat))
  BY <1>1, NatLessThanWellFounded, WFMin
<1>3. PICK k \in S : f[k] = n
  BY <1>2
<1>4. ASSUME NEW j \in S PROVE f[k] <= f[j]
  <2>1. f[j] \in Nat /\ n \in Nat
    BY <1>2, <1>1
  <2>2. ~(f[j] < n)
    BY <1>2, <2>1 DEF OpToRel
  <2>3. n <= f[j]
    BY <2>1, <2>2
  <2> QED BY <2>3, <1>3
<1> QED BY <1>4

\* pick chooses a slot, and so does the turn it leaves.
LEMMA PickType ==
  ASSUME NEW c \in RcState
  PROVE  pick(c).k \in Slots /\ pick(c).rr \in Slots
<1> DEFINE free == {k \in Slots : c.of[k] = Free}
           clean == {k \in Slots : ~c.dirty[k]}
<1>0. c.rr \in Slots
  BY DEF RcState
<1>1. \A k \in Slots : Turn(k) \in Slots
  <2> SUFFICES ASSUME NEW k \in Slots PROVE Turn(k) \in Slots
    OBVIOUS
  <2>1. k \in Nat /\ RcN \in Nat \ {0}
    BY RcAssumption DEF Slots
  <2>2. k % RcN \in 0 .. RcN - 1
    BY <2>1
  <2> QED BY <2>1, <2>2 DEF Turn, Slots
<1>2. CASE free # {}
  <2>1. \E k \in free : \A j \in free : k <= j
    <3>1. [k \in free |-> k] \in [free -> Nat]
      BY RcAssumption DEF Slots
    <3>2. PICK k \in free : \A j \in free : [i \in free |-> i][k] <= [i \in free |-> i][j]
      BY <1>2, <3>1, MinExists
    <3> QED BY <3>2
  <2>2. (CHOOSE k \in free : \A j \in free : k <= j) \in free
    BY <2>1
  <2>3. pick(c) = [k |-> CHOOSE k \in free : \A j \in free : k <= j, rr |-> c.rr]
    BY <1>2 DEF pick
  <2> HIDE DEF free
  <2>4. pick(c).k \in free /\ pick(c).rr = c.rr
    BY <2>2, <2>3
  <2> QED BY <2>4, <1>0 DEF free
<1>3. CASE free = {} /\ clean # {}
  <2> DEFINE f == [k \in clean |-> (k - c.rr) % RcN]
  <2>1. f \in [clean -> Nat]
    BY RcAssumption, <1>0 DEF Slots
  <2>2. PICK k \in clean : \A j \in clean : f[k] <= f[j]
    BY <1>3, <2>1, MinExists
  <2>3. \A j \in clean : (k - c.rr) % RcN <= (j - c.rr) % RcN
    BY <2>2
  <2>4. First(c, clean) \in clean
    BY <2>2, <2>3 DEF First
  <2>5. pick(c) = [k |-> First(c, clean), rr |-> Turn(First(c, clean))]
    BY <1>3 DEF pick
  <2> QED BY <2>4, <2>5, <1>1
<1>4. CASE free = {} /\ clean = {}
  <2>1. pick(c) = [k |-> c.rr, rr |-> Turn(c.rr)]
    BY <1>4 DEF pick
  <2> QED BY <2>1, <1>0, <1>1
<1> QED BY <1>2, <1>3, <1>4

\* What a register that ref does know about is read as.
LEMMA HeldValue ==
  ASSUME NEW c, NEW ref, NEW X, Coherent(c, ref, X), NEW g \in Gprs \ X
  PROVE  Held(c, g) = ref[g]
<1>0. g # Free
  BY RcAssumption DEF Free
<1>1. CASE Holder(c, g) = {}
  BY <1>1 DEF Held, Holder, Coherent, Stored, IsDirty
<1>2. CASE Holder(c, g) # {}
  <2>1. (CHOOSE k \in Holder(c, g) : TRUE) \in Holder(c, g)
    BY <1>2
  <2> QED BY <1>0, <1>2, <2>1 DEF Held, Holder, Coherent, Copies
<1> QED BY <1>1, <1>2

\* Evicting a slot frees it and loses nothing.
LEMMA EvictKeeps ==
  ASSUME NEW c, NEW ref, Coherent(c, ref, {}), NEW k \in Slots
  PROVE  /\ Coherent(evict(c, k), ref, {})
         /\ evict(c, k).of = [c.of EXCEPT ![k] = Free]
         /\ evict(c, k).ok = c.ok /\ evict(c, k).rr = c.rr
         /\ ~evict(c, k).dirty[k]
<1> DEFINE e == evict(c, k)
<1>0. c \in RcState /\ OneSlot(c) /\ DirtyIsHeld(c) /\ Copies(c, ref, {}) /\ Stored(c, ref, {})
  BY DEF Coherent
<1>1. CASE c.dirty[k]
  <2>1. /\ c.of[k] \in Gprs /\ c.of[k] # Free
        /\ c.val[k] = ref[c.of[k]] /\ c.val[k] \in Int
    BY <1>0, <1>1 DEF RcState, DirtyIsHeld, Copies
  <2>2. e = [c EXCEPT !.gpr[c.of[k]] = c.val[k], !.of[k] = Free, !.dirty[k] = FALSE]
    BY <1>1 DEF evict
  <2>3. /\ e.of = [c.of EXCEPT ![k] = Free] /\ e.dirty = [c.dirty EXCEPT ![k] = FALSE]
        /\ e.val = c.val /\ e.rr = c.rr /\ e.ok = c.ok
        /\ e.gpr = [c.gpr EXCEPT ![c.of[k]] = c.val[k]]
    BY <2>2, <1>0 DEF RcState
  <2>4. e \in RcState
    <3>1. /\ e.of \in [Slots -> (Gprs \ {0}) \cup {Free}] /\ e.dirty \in [Slots -> BOOLEAN]
          /\ e.gpr \in [Gprs -> Int]
      BY <2>1, <2>3, <1>0 DEF RcState
    <3>2. e = [of |-> e.of, dirty |-> e.dirty, val |-> c.val, rr |-> c.rr, gpr |-> e.gpr,
               ok |-> c.ok]
      BY <2>2, <1>0 DEF RcState
    <3> HIDE DEF e
    <3> QED BY <3>1, <3>2, <1>0 DEF RcState
  <2> HIDE DEF e
  <2>5. OneSlot(e) /\ DirtyIsHeld(e) /\ Copies(e, ref, {})
    BY <2>3, <1>0 DEF RcState, OneSlot, DirtyIsHeld, Copies
  <2>6. ASSUME NEW g \in Gprs, ~IsDirty(e, g) PROVE e.gpr[g] = ref[g]
    <3>1. CASE g = c.of[k]
      BY <3>1, <2>1, <2>3, <1>0 DEF RcState
    <3>2. CASE g # c.of[k]
      <4>1. ~IsDirty(c, g)
        BY <2>3, <2>6, <3>2, <1>0 DEF IsDirty, RcState
      <4> QED BY <4>1, <3>2, <2>3, <1>0 DEF Stored, RcState
    <3> QED BY <3>1, <3>2
  <2>7. ~e.dirty[k]
    BY <2>3, <1>0 DEF RcState
  <2> QED BY <2>3, <2>4, <2>5, <2>6, <2>7 DEF Coherent, Stored, e
<1>2. CASE ~c.dirty[k]
  <2>2. e = [c EXCEPT !.of[k] = Free]
    BY <1>2 DEF evict
  <2>3. /\ e.of = [c.of EXCEPT ![k] = Free] /\ e.dirty = c.dirty
        /\ e.val = c.val /\ e.rr = c.rr /\ e.ok = c.ok /\ e.gpr = c.gpr
    BY <2>2, <1>0 DEF RcState
  <2>4. e \in RcState
    BY <2>2, <1>0 DEF RcState
  <2> HIDE DEF e
  <2>5. OneSlot(e) /\ DirtyIsHeld(e) /\ Copies(e, ref, {})
    BY <1>2, <2>3, <1>0 DEF RcState, OneSlot, DirtyIsHeld, Copies
  <2>6. ASSUME NEW g \in Gprs, ~IsDirty(e, g) PROVE e.gpr[g] = ref[g]
    <3>1. ~IsDirty(c, g)
      BY <1>2, <2>3, <2>6, <1>0 DEF IsDirty, RcState
    <3> QED BY <3>1, <2>3, <1>0 DEF Stored
  <2> QED BY <1>2, <2>3, <2>4, <2>5, <2>6 DEF Coherent, Stored, e
<1> QED BY <1>1, <1>2

\* slot(g) leaves the cache coherent, but for g when it is not loaded; g has a slot after it.
LEMMA SlotKeeps ==
  ASSUME NEW c, NEW ref, Coherent(c, ref, {}), NEW g \in Gprs, NEW loads \in BOOLEAN
  PROVE  /\ Coherent(slot(c, g, loads), ref, IF loads THEN {} ELSE {g})
         /\ slot(c, g, loads).ok = c.ok
         /\ g # 0 => Holder(slot(c, g, loads), g) # {}
<1> DEFINE X == IF loads THEN {} ELSE {g}
           p == pick(c)
           e == evict([c EXCEPT !.rr = p.rr], p.k)
           d == slot(c, g, loads)
<1>0. c \in RcState /\ OneSlot(c) /\ DirtyIsHeld(c) /\ Copies(c, ref, {}) /\ Stored(c, ref, {})
  BY DEF Coherent
<1>1. CASE g = 0 \/ Holder(c, g) # {}
  <2>1. d = c
    BY <1>1 DEF slot
  <2> QED BY <1>0, <1>1, <2>1 DEF Coherent, Copies, Stored
<1>2. CASE g # 0 /\ Holder(c, g) = {}
  <2>0. g # Free
    BY RcAssumption DEF Free
  <2>1. p.k \in Slots /\ p.rr \in Slots
    BY <1>0, PickType
  <2> DEFINE c1 == [c EXCEPT !.rr = p.rr]
  <2>2. /\ c1 \in RcState /\ c1.of = c.of /\ c1.dirty = c.dirty /\ c1.val = c.val
        /\ c1.gpr = c.gpr /\ c1.ok = c.ok
    BY <1>0, <2>1 DEF RcState
  <2>3. Coherent(c1, ref, {})
    BY <2>2, <1>0 DEF Coherent, OneSlot, DirtyIsHeld, Copies, Stored, IsDirty
  <2>4. /\ Coherent(e, ref, {}) /\ e.of = [c.of EXCEPT ![p.k] = Free] /\ e.ok = c.ok
        /\ ~e.dirty[p.k]
    <3>1. e = evict(c1, p.k)
      OBVIOUS
    <3> HIDE DEF e, c1, p
    <3> QED BY <2>1, <2>2, <2>3, <3>1, EvictKeeps
  <2>5. d = [e EXCEPT !.of[p.k] = g, !.dirty[p.k] = ~loads,
                      !.val[p.k] = IF loads THEN e.gpr[g] ELSE @]
    BY <1>2 DEF slot
  <2> HIDE DEF e, d, p
  <2>6. e \in RcState /\ OneSlot(e) /\ DirtyIsHeld(e) /\ Copies(e, ref, {}) /\ Stored(e, ref, {})
    BY <2>4 DEF Coherent
  <2>7. /\ d.of = [e.of EXCEPT ![p.k] = g] /\ d.dirty = [e.dirty EXCEPT ![p.k] = ~loads]
        /\ d.val = [e.val EXCEPT ![p.k] = IF loads THEN e.gpr[g] ELSE @]
        /\ d.gpr = e.gpr /\ d.ok = e.ok /\ d.rr = e.rr
    BY <2>5, <2>6 DEF RcState
  <2>8. d \in RcState
    BY <1>2, <2>1, <2>5, <2>6 DEF RcState
  <2>9. \A k \in Slots : c.of[k] # g
    BY <1>2 DEF Holder
  <2>10. \A k \in Slots : e.of[k] # g
    BY <2>9, <2>4, <2>0, <2>1, <1>0 DEF RcState
  <2>11. OneSlot(d)
    BY <2>6, <2>7, <2>10, <2>1 DEF OneSlot, RcState
  <2>12. DirtyIsHeld(d)
    BY <2>0, <2>6, <2>7, <2>1 DEF DirtyIsHeld, RcState
  <2>13. e.gpr[g] = ref[g]
    BY <2>6, <2>10 DEF Stored, IsDirty
  <2>14. Copies(d, ref, X)
    <3> SUFFICES ASSUME NEW k \in Slots, d.of[k] # Free, d.of[k] \notin X
                 PROVE  d.val[k] = ref[d.of[k]]
      BY DEF Copies
    <3>1. CASE k = p.k
      BY <3>1, <2>13, <2>7, <2>6, <2>1 DEF RcState
    <3>2. CASE k # p.k
      BY <3>2, <2>7, <2>6, <2>1 DEF RcState, Copies
    <3> QED BY <3>1, <3>2
  <2>15. Stored(d, ref, X)
    <3> SUFFICES ASSUME NEW h \in Gprs \ X, ~IsDirty(d, h)
                 PROVE  d.gpr[h] = ref[h]
      BY DEF Stored
    <3>1. \A k \in Slots : k # p.k => d.of[k] = e.of[k] /\ d.dirty[k] = e.dirty[k]
      BY <2>7, <2>6, <2>1 DEF RcState
    <3>2. ~IsDirty(e, h)
      BY <3>1, <2>4 DEF IsDirty
    <3> QED BY <3>2, <2>6, <2>7 DEF Stored
  <2>16. d.of[p.k] = g
    BY <2>7, <2>6, <2>1 DEF RcState
  <2>17. d.ok = c.ok
    BY <2>7, <2>4
  <2> QED BY <2>8, <2>11, <2>12, <2>14, <2>15, <2>16, <2>17, <2>1 DEF Coherent, Holder, d
<1> QED BY <1>1, <1>2

----------------------------------------------------------------------------
(* The operations of the cache. *)

\* What the interpreter has after an instruction that left v in g.
Written(ref, g, v) == [h \in Gprs |-> IF h = g /\ h # 0 THEN v ELSE ref[h]]

\* Coherence looks at the registers, not at ok or at the turn.
LEMMA CoherentFields ==
  ASSUME NEW c, NEW d, NEW ref, NEW X, Coherent(c, ref, X), d \in RcState,
         d.of = c.of, d.dirty = c.dirty, d.val = c.val, d.gpr = c.gpr
  PROVE  Coherent(d, ref, X)
BY DEF Coherent, OneSlot, DirtyIsHeld, Copies, Stored, IsDirty

\* An instruction that reads g gets the interpreter's value.
LEMMA LdKeeps ==
  ASSUME NEW c, Coherent(c, gprRef, {}), c.ok, NEW g \in Gprs
  PROVE  Coherent(ld(c, g), gprRef, {}) /\ ld(c, g).ok
<1> DEFINE d == slot(c, g, TRUE)
<1>1. Coherent(d, gprRef, {}) /\ d.ok
  BY SlotKeeps
<1>3. ld(c, g) = [d EXCEPT !.ok = @ /\ Held(d, g) = gprRef[g]]
  BY DEF ld
<1> HIDE DEF d
<1>2. Held(d, g) = gprRef[g]
  <2>1. g \in Gprs \ {}
    OBVIOUS
  <2> QED BY <1>1, <2>1, HeldValue
<1>4. d \in RcState
  BY <1>1 DEF Coherent
<1>5. /\ ld(c, g) \in RcState /\ ld(c, g).of = d.of /\ ld(c, g).dirty = d.dirty
      /\ ld(c, g).val = d.val /\ ld(c, g).gpr = d.gpr /\ ld(c, g).ok
  BY <1>1, <1>2, <1>3, <1>4 DEF RcState
<1> QED BY <1>1, <1>5, CoherentFields

\* An instruction that writes g.
LEMMA StKeeps ==
  ASSUME NEW c, NEW ref \in [Gprs -> Int], Coherent(c, ref, {}), NEW g \in Gprs, NEW v \in Int
  PROVE  Coherent(st(c, g, v), Written(ref, g, v), {}) /\ st(c, g, v).ok = c.ok
<1> DEFINE ref2 == Written(ref, g, v)
<1>1. CASE g = 0
  <2>1. st(c, g, v) = c
    BY <1>1 DEF st
  <2>2. ref2 = ref
    BY <1>1 DEF Written
  <2> QED BY <2>1, <2>2
<1>2. CASE g # 0
  <2>0. g # Free /\ \A h \in Gprs : ref2[h] = IF h = g THEN v ELSE ref[h]
    BY <1>2, RcAssumption DEF Free, Written
  <2> DEFINE d == slot(c, g, FALSE)
             k == CHOOSE j \in Holder(d, g) : TRUE
             s == st(c, g, v)
  <2>1. Coherent(d, ref, {g}) /\ d.ok = c.ok /\ Holder(d, g) # {}
    BY <1>2, SlotKeeps
  <2>2. k \in Slots /\ d.of[k] = g
    <3>1. k \in Holder(d, g)
      BY <2>1
    <3> QED BY <3>1 DEF Holder
  <2>3. s = [d EXCEPT !.val[k] = v, !.dirty[k] = TRUE]
    BY <1>2 DEF st
  <2> HIDE DEF d, k, s, ref2
  <2>4. d \in RcState /\ OneSlot(d) /\ DirtyIsHeld(d) /\ Copies(d, ref, {g}) /\ Stored(d, ref, {g})
    BY <2>1 DEF Coherent
  <2>5. /\ s \in RcState /\ s.of = d.of /\ s.dirty = [d.dirty EXCEPT ![k] = TRUE]
        /\ s.val = [d.val EXCEPT ![k] = v] /\ s.gpr = d.gpr /\ s.ok = d.ok
    BY <2>2, <2>3, <2>4 DEF RcState
  <2>6. OneSlot(s) /\ DirtyIsHeld(s)
    BY <2>0, <2>2, <2>4, <2>5 DEF OneSlot, DirtyIsHeld, RcState
  <2>7. Copies(s, ref2, {})
    <3> SUFFICES ASSUME NEW j \in Slots, s.of[j] # Free PROVE s.val[j] = ref2[s.of[j]]
      BY DEF Copies
    <3>1. CASE j = k
      BY <3>1, <2>0, <2>2, <2>4, <2>5 DEF RcState
    <3>2. CASE j # k
      <4>1. d.of[j] # g /\ d.of[j] \in Gprs
        BY <3>2, <2>0, <2>2, <2>4, <2>5 DEF OneSlot, RcState
      <4>2. s.val[j] = d.val[j] /\ s.of[j] = d.of[j]
        BY <3>2, <2>4, <2>5 DEF RcState
      <4> QED BY <4>1, <4>2, <2>0, <2>4 DEF Copies
    <3> QED BY <3>1, <3>2
  <2>8. Stored(s, ref2, {})
    <3> SUFFICES ASSUME NEW h \in Gprs, ~IsDirty(s, h) PROVE s.gpr[h] = ref2[h]
      BY DEF Stored
    <3>1. h # g
      BY <2>2, <2>4, <2>5 DEF IsDirty, RcState
    <3>2. ~IsDirty(d, h)
      BY <3>1, <2>2, <2>4, <2>5 DEF IsDirty, RcState
    <3> QED BY <3>1, <3>2, <2>0, <2>4, <2>5 DEF Stored
  <2> QED BY <2>1, <2>5, <2>6, <2>7, <2>8 DEF Coherent, s, ref2
<1> QED BY <1>1, <1>2

\* A helper that leaves v in g, in memory, and the slot of g forgotten.
LEMMA HelperWritesKeeps ==
  ASSUME NEW c, Coherent(c, gprRef, {}), NEW g \in Gprs, rcStep \in Nat, gprRef \in [Gprs -> Int]
  PROVE  /\ Coherent(forget(helperWrites(c, g), g), Written(gprRef, g, rcStep + 1), {})
         /\ forget(helperWrites(c, g), g).ok = c.ok
<1> DEFINE w == helperWrites(c, g)
           d == forget(w, g)
           ref2 == Written(gprRef, g, rcStep + 1)
<1>0. /\ c \in RcState /\ OneSlot(c) /\ DirtyIsHeld(c) /\ Copies(c, gprRef, {})
      /\ Stored(c, gprRef, {})
  BY DEF Coherent
<1>1. /\ w \in RcState /\ w.of = c.of /\ w.dirty = c.dirty /\ w.val = c.val /\ w.ok = c.ok
      /\ \A h \in Gprs : w.gpr[h] = IF h = g /\ g # 0 THEN rcStep + 1 ELSE c.gpr[h]
  <2>1. CASE g = 0
    BY <2>1, <1>0 DEF helperWrites
  <2>2. CASE g # 0
    BY <2>2, <1>0 DEF helperWrites, RcState
  <2> QED BY <2>1, <2>2
<1>2. \A h \in Gprs : ref2[h] = IF h = g /\ g # 0 THEN rcStep + 1 ELSE gprRef[h]
  BY DEF Written
<1>3. d = [w EXCEPT !.of = [k \in Slots |-> IF @[k] = g THEN Free ELSE @[k]],
                    !.dirty = [k \in Slots |-> @[k] /\ w.of[k] # g]]
  BY DEF forget
<1> HIDE DEF w, d, ref2
<1>4. /\ d.of = [k \in Slots |-> IF w.of[k] = g THEN Free ELSE w.of[k]]
      /\ d.dirty = [k \in Slots |-> w.dirty[k] /\ w.of[k] # g]
      /\ d.val = w.val /\ d.gpr = w.gpr /\ d.ok = w.ok /\ d.rr = w.rr
  BY <1>1, <1>3 DEF RcState
<1>5. d \in RcState
  <2>1. d = [of |-> d.of, dirty |-> d.dirty, val |-> w.val, rr |-> w.rr, gpr |-> w.gpr, ok |-> w.ok]
    BY <1>1, <1>3 DEF RcState
  <2>2. d.of \in [Slots -> (Gprs \ {0}) \cup {Free}]
    BY <1>1, <1>4 DEF RcState
  <2>3. d.dirty \in [Slots -> BOOLEAN]
    BY <1>1, <1>4 DEF RcState
  <2> QED BY <1>1, <2>1, <2>2, <2>3 DEF RcState
<1>6. \A k \in Slots : /\ d.of[k] = IF c.of[k] = g THEN Free ELSE c.of[k]
                       /\ d.dirty[k] <=> c.dirty[k] /\ c.of[k] # g
                       /\ d.val[k] = c.val[k]
  <2>1. \A k \in Slots : d.of[k] = (IF c.of[k] = g THEN Free ELSE c.of[k]) /\ d.val[k] = c.val[k]
    BY <1>1, <1>4
  <2>2. d.dirty = [k \in Slots |-> c.dirty[k] /\ c.of[k] # g]
    BY SMTT(60), <1>1, <1>4
  <2>3. \A k \in Slots : d.dirty[k] <=> c.dirty[k] /\ c.of[k] # g
    BY <2>2, Zenon
  <2> QED BY <2>1, <2>3
<1>7. OneSlot(d) /\ DirtyIsHeld(d)
  BY <1>0, <1>6 DEF OneSlot, DirtyIsHeld
<1>8. Copies(d, ref2, {})
  <2>1. \A k \in Slots : d.of[k] # Free => c.of[k] # Free /\ d.of[k] = c.of[k] /\ c.of[k] # g
                                           /\ c.of[k] \in Gprs
    BY <1>0, <1>6 DEF RcState
  <2> QED BY <2>1, <1>0, <1>2, <1>6 DEF Copies
<1>9. Stored(d, ref2, {})
  <2> SUFFICES ASSUME NEW h \in Gprs, ~IsDirty(d, h) PROVE d.gpr[h] = ref2[h]
    BY DEF Stored
  <2>1. CASE h = g /\ g # 0
    BY <2>1, <1>1, <1>2, <1>4
  <2>2. CASE h = g /\ g = 0
    <3>1. ~IsDirty(c, h)
      BY <2>2, <1>0 DEF IsDirty, RcState, Free
    <3> QED BY <2>2, <3>1, <1>0, <1>1, <1>2, <1>4 DEF Stored
  <2>3. CASE h # g
    <3>0. h # Free
      BY RcAssumption DEF Free
    <3>1. ~IsDirty(c, h)
      BY <2>3, <3>0, <1>6 DEF IsDirty
    <3> QED BY <2>3, <3>1, <1>0, <1>1, <1>2, <1>4 DEF Stored
  <2> QED BY <2>1, <2>2, <2>3
<1> QED BY <1>1, <1>4, <1>5, <1>7, <1>8, <1>9 DEF Coherent, d, w, ref2

\* Writing g back leaves it in memory, and what was in memory stays there.
LEMMA WritebackOneKeeps ==
  ASSUME NEW c, NEW ref \in [Gprs -> Int], Coherent(c, ref, {}), NEW g \in Gprs
  PROVE  /\ Coherent(writebackOne(c, g), ref, {})
         /\ writebackOne(c, g).ok = c.ok
         /\ ~IsDirty(writebackOne(c, g), g)
         /\ \A h \in Gprs : ~IsDirty(c, h) => ~IsDirty(writebackOne(c, g), h)
<1> DEFINE d == writebackOne(c, g)
<1>0. c \in RcState /\ OneSlot(c) /\ DirtyIsHeld(c) /\ Copies(c, ref, {}) /\ Stored(c, ref, {})
  BY DEF Coherent
<1>1. Held(c, g) = ref[g]
  <2>1. g \in Gprs \ {}
    OBVIOUS
  <2> QED BY <2>1, HeldValue
<1>2. d = [c EXCEPT !.gpr = [h \in Gprs |-> IF h = g /\ g # 0 THEN Held(c, g) ELSE @[h]],
                    !.dirty = [k \in Slots |-> @[k] /\ c.of[k] # g]]
  BY DEF writebackOne
<1> HIDE DEF d
<1>3. /\ d.of = c.of /\ d.val = c.val /\ d.rr = c.rr /\ d.ok = c.ok
      /\ d.dirty = [k \in Slots |-> c.dirty[k] /\ c.of[k] # g]
      /\ d.gpr = [h \in Gprs |-> IF h = g /\ g # 0 THEN ref[g] ELSE c.gpr[h]]
  BY <1>0, <1>1, <1>2 DEF RcState
<1>4. d \in RcState
  <2>1. d = [of |-> c.of, dirty |-> d.dirty, val |-> c.val, rr |-> c.rr, gpr |-> d.gpr, ok |-> c.ok]
    BY <1>0, <1>2 DEF RcState
  <2>2. d.gpr \in [Gprs -> Int]
    BY <1>0, <1>3 DEF RcState
  <2>3. d.dirty \in [Slots -> BOOLEAN]
    BY <1>3
  <2> QED BY <1>0, <2>1, <2>2, <2>3 DEF RcState
<1>5. \A k \in Slots : d.dirty[k] <=> c.dirty[k] /\ c.of[k] # g
  BY <1>3, Zenon
<1>6. OneSlot(d) /\ DirtyIsHeld(d) /\ Copies(d, ref, {})
  BY <1>0, <1>3, <1>5 DEF OneSlot, DirtyIsHeld, Copies
<1>7. Stored(d, ref, {})
  <2> SUFFICES ASSUME NEW h \in Gprs, ~IsDirty(d, h) PROVE d.gpr[h] = ref[h]
    BY DEF Stored
  <2>1. CASE h = g /\ g # 0
    BY <2>1, <1>3
  <2>2. CASE h = g /\ g = 0
    <3>1. ~IsDirty(c, h)
      BY <2>2, <1>0 DEF IsDirty, RcState, Free
    <3> QED BY <2>2, <3>1, <1>0, <1>3 DEF Stored
  <2>3. CASE h # g
    <3>1. ~IsDirty(c, h)
      BY <2>3, <1>3, <1>5 DEF IsDirty
    <3> QED BY <2>3, <3>1, <1>0, <1>3 DEF Stored
  <2> QED BY <2>1, <2>2, <2>3
<1>8. ~IsDirty(d, g) /\ \A h \in Gprs : ~IsDirty(c, h) => ~IsDirty(d, h)
  BY <1>3, <1>5 DEF IsDirty
<1> QED BY <1>3, <1>4, <1>6, <1>7, <1>8 DEF Coherent, d

\* A helper reads the interpreter's value of a register that is in memory.
LEMMA HelperReadsKeeps ==
  ASSUME NEW c, Coherent(c, gprRef, {}), c.ok, NEW g \in Gprs, ~IsDirty(c, g)
  PROVE  /\ Coherent(helperReads(c, g), gprRef, {}) /\ helperReads(c, g).ok
         /\ \A h \in Gprs : ~IsDirty(c, h) => ~IsDirty(helperReads(c, g), h)
<1>1. c \in RcState /\ c.gpr[g] = gprRef[g]
  BY DEF Coherent, Stored
<1> DEFINE d == helperReads(c, g)
<1>2. d = [c EXCEPT !.ok = @ /\ c.gpr[g] = gprRef[g]]
  BY DEF helperReads
<1> HIDE DEF d
<1>3. /\ d \in RcState /\ d.of = c.of /\ d.dirty = c.dirty
      /\ d.val = c.val /\ d.gpr = c.gpr /\ d.ok
  BY <1>1, <1>2 DEF RcState
<1> QED BY <1>3, CoherentFields DEF IsDirty, d

\* The registers an instruction names reach its helper.
LEMMA HelperGets ==
  ASSUME NEW c, Coherent(c, gprRef, {}), c.ok, gprRef \in [Gprs -> Int],
         NEW s \in Gprs, NEW t \in Gprs
  PROVE  LET d == helperReads(helperReads(writebackOne(writebackOne(c, s), t), s), t)
         IN  Coherent(d, gprRef, {}) /\ d.ok
<1> DEFINE c1 == writebackOne(c, s)
           c2 == writebackOne(c1, t)
           c3 == helperReads(c2, s)
<1>1. Coherent(c1, gprRef, {}) /\ c1.ok /\ ~IsDirty(c1, s)
  BY WritebackOneKeeps
<1> HIDE DEF c1
<1>2. Coherent(c2, gprRef, {}) /\ c2.ok /\ ~IsDirty(c2, s) /\ ~IsDirty(c2, t)
  BY <1>1, WritebackOneKeeps
<1> HIDE DEF c2
<1>3. Coherent(c3, gprRef, {}) /\ c3.ok /\ ~IsDirty(c3, t)
  BY <1>2, HelperReadsKeeps
<1> HIDE DEF c3
<1>4. Coherent(helperReads(c3, t), gprRef, {}) /\ helperReads(c3, t).ok
  BY <1>3, HelperReadsKeeps
<1> QED BY <1>4 DEF c1, c2, c3

\* Writing everything back leaves the registers in memory.
LEMMA WritebackKeeps ==
  ASSUME NEW c, NEW ref \in [Gprs -> Int], Coherent(c, ref, {})
  PROVE  /\ Coherent(writeback(c), ref, {})
         /\ writeback(c).ok = c.ok /\ writeback(c).gpr = ref
<1> DEFINE d == writeback(c)
<1>0. c \in RcState /\ OneSlot(c) /\ DirtyIsHeld(c) /\ Copies(c, ref, {}) /\ Stored(c, ref, {})
  BY DEF Coherent
<1>1. ASSUME NEW h \in Gprs PROVE Held(c, h) = ref[h]
  <2>1. h \in Gprs \ {}
    OBVIOUS
  <2> QED BY <2>1, HeldValue
<1>2. d = [c EXCEPT !.gpr = [h \in Gprs |->
                               IF \E k \in Slots : c.dirty[k] /\ c.of[k] = h
                               THEN Held(c, h) ELSE @[h]],
                    !.dirty = [k \in Slots |-> FALSE]]
  BY DEF writeback
<1> HIDE DEF d
<1>3. /\ d.of = c.of /\ d.val = c.val /\ d.rr = c.rr /\ d.ok = c.ok
      /\ d.dirty = [k \in Slots |-> FALSE]
      /\ d.gpr = [h \in Gprs |-> IF \E k \in Slots : c.dirty[k] /\ c.of[k] = h
                                 THEN Held(c, h) ELSE c.gpr[h]]
  BY <1>0, <1>2 DEF RcState
<1>4. ASSUME NEW h \in Gprs PROVE d.gpr[h] = ref[h]
  <2>1. CASE IsDirty(c, h)
    <3>1. \E k \in Slots : c.dirty[k] /\ c.of[k] = h
      BY <2>1 DEF IsDirty
    <3> QED BY <1>1, <1>3, <3>1
  <2>2. CASE ~IsDirty(c, h)
    <3>1. ~\E k \in Slots : c.dirty[k] /\ c.of[k] = h
      BY <2>2 DEF IsDirty
    <3> QED BY <1>0, <1>3, <2>2, <3>1 DEF Stored
  <2> QED BY <2>1, <2>2
<1>5. d.gpr = ref
  BY <1>3, <1>4
<1>6. d \in RcState
  BY <1>0, <1>2, <1>5, <1>3 DEF RcState
<1>7. OneSlot(d) /\ DirtyIsHeld(d) /\ Copies(d, ref, {}) /\ Stored(d, ref, {})
  BY <1>0, <1>3, <1>5 DEF OneSlot, DirtyIsHeld, Copies, Stored
<1> QED BY <1>3, <1>5, <1>6, <1>7 DEF Coherent, d

\* disable empties the cache, with the registers in memory.
LEMMA DisableKeeps ==
  ASSUME NEW c, NEW ref \in [Gprs -> Int], Coherent(c, ref, {})
  PROVE  Coherent(disable(c), ref, {}) /\ disable(c).ok = c.ok
<1> DEFINE w == writeback(c)
           d == disable(c)
<1>1. w \in RcState /\ w.gpr = ref /\ w.ok = c.ok
  BY WritebackKeeps DEF Coherent
<1>2. w.dirty = [k \in Slots |-> FALSE]
  BY DEF writeback, Coherent, RcState
<1>3. d = [w EXCEPT !.of = [k \in Slots |-> Free]]
  BY DEF disable
<1> HIDE DEF w, d
<1>4. /\ d \in RcState /\ d.of = [k \in Slots |-> Free] /\ d.gpr = ref /\ d.dirty = w.dirty
      /\ d.ok = c.ok
  BY <1>1, <1>3 DEF RcState
<1> QED BY <1>2, <1>4 DEF Coherent, OneSlot, DirtyIsHeld, Copies, Stored, d

----------------------------------------------------------------------------
(* The ways on. *)

\* The next instruction follows.
LEMMA GoesKeeps ==
  ASSUME RcInv, NEW c, NEW g \in Gprs, Goes(c, g), rcStep' = rcStep + 1,
         Coherent(c, Written(gprRef, g, rcStep + 1), {}), c.ok
  PROVE  RcInv'
<1>1. gprRef' = Written(gprRef, g, rcStep + 1)
  BY DEF Goes, Written
<1>2. gprRef' \in [Gprs -> Int] /\ rcStep' \in Nat
  BY <1>1 DEF RcInv, Written
<1>3. Coherent(rc, gprRef, {})'
  BY <1>1 DEF Goes, Coherent, OneSlot, DirtyIsHeld, Copies, Stored, IsDirty
<1> QED BY <1>2, <1>3 DEF RcInv, Goes

\* The block is left, with the registers in memory.
LEMMA LeavesKeeps ==
  ASSUME RcInv, NEW c, NEW g \in Gprs, Leaves(c, g), rcStep' = rcStep + 1,
         Coherent(c, Written(gprRef, g, rcStep + 1), {}), c.ok
  PROVE  RcInv'
<1>1. gprRef' = Written(gprRef, g, rcStep + 1)
  BY DEF Leaves, Written
<1>2. gprRef' \in [Gprs -> Int] /\ rcStep' \in Nat
  BY <1>1 DEF RcInv, Written
<1>3. Coherent(rc', gprRef', {}) /\ rc'.ok /\ rc'.gpr = gprRef'
  BY <1>1, <1>2, WritebackKeeps DEF Leaves
<1> QED BY <1>2, <1>3 DEF RcInv, Coherent, OneSlot, DirtyIsHeld, Copies, Stored, IsDirty

\* Nothing is written to no register.
LEMMA NothingWritten ==
  ASSUME gprRef \in [Gprs -> Int]
  PROVE  Written(gprRef, NoGpr, rcStep + 1) = gprRef /\ NoGpr \in Gprs
BY RcAssumption DEF Written, NoGpr

\* Every instruction and every end of the block keeps the invariant.
LEMMA RcStepKeeps ==
  ASSUME RcInv, RcNext
  PROVE  RcInv'
<1>0. /\ rcStep \in Nat /\ rcStep + 1 \in Int /\ rcStep' = rcStep + 1
      /\ gprRef \in [Gprs -> Int] /\ Coherent(rc, gprRef, {}) /\ rc.ok
  BY DEF RcInv, RcNext
<1>1. ASSUME NEW d \in Gprs, NEW s \in Gprs, NEW t \in Gprs,
             emitSafeOp(d, s, t) \/ emitTrapAlu(d, s, t)
      PROVE  RcInv'
  <2> DEFINE c == ld(ld(rc, s), t)
             n == st(c, d, rcStep + 1)
  <2>1. Coherent(c, gprRef, {}) /\ c.ok
    <3>1. Coherent(ld(rc, s), gprRef, {}) /\ ld(rc, s).ok
      BY <1>0, LdKeeps
    <3> QED BY <3>1, LdKeeps
  <2>2. Goes(n, d) \/ Leaves(c, NoGpr)
    BY <1>1 DEF emitSafeOp, emitTrapAlu
  <2> HIDE DEF c
  <2>3. Coherent(n, Written(gprRef, d, rcStep + 1), {}) /\ n.ok
    BY <1>0, <2>1, StKeeps
  <2> HIDE DEF n
  <2>4. CASE Goes(n, d)
    BY <1>0, <2>3, <2>4, GoesKeeps
  <2>5. CASE Leaves(c, NoGpr)
    BY <1>0, <2>1, <2>5, LeavesKeeps, NothingWritten
  <2> QED BY <2>2, <2>4, <2>5
<1>2. ASSUME NEW d \in Gprs, NEW b \in Gprs, emitLoad(d, b)
      PROVE  RcInv'
  <2> DEFINE c == ld(rc, b)
             n == forget(helperWrites(c, d), d)
  <2>1. Coherent(c, gprRef, {}) /\ c.ok
    BY <1>0, LdKeeps
  <2>2. Leaves(c, NoGpr) \/ Leaves(n, d) \/ Goes(n, d)
    BY <1>2 DEF emitLoad, bailSnap
  <2> HIDE DEF c
  <2>3. Coherent(n, Written(gprRef, d, rcStep + 1), {}) /\ n.ok
    BY <1>0, <2>1, HelperWritesKeeps
  <2> HIDE DEF n
  <2>4. CASE Leaves(c, NoGpr)
    BY <1>0, <2>1, <2>4, LeavesKeeps, NothingWritten
  <2>5. CASE Leaves(n, d)
    BY <1>0, <2>3, <2>5, LeavesKeeps
  <2>6. CASE Goes(n, d)
    BY <1>0, <2>3, <2>6, GoesKeeps
  <2> QED BY <2>2, <2>4, <2>5, <2>6
<1>3. ASSUME NEW d \in Gprs, NEW b \in Gprs, emitStore(d, b)
      PROVE  RcInv'
  <2> DEFINE c == ld(ld(rc, b), d)
  <2>1. Coherent(c, gprRef, {}) /\ c.ok
    <3>1. Coherent(ld(rc, b), gprRef, {}) /\ ld(rc, b).ok
      BY <1>0, LdKeeps
    <3> QED BY <3>1, LdKeeps
  <2>2. Leaves(c, NoGpr) \/ Goes(c, NoGpr)
    BY <1>3 DEF emitStore
  <2> HIDE DEF c
  <2> QED BY <1>0, <2>1, <2>2, GoesKeeps, LeavesKeeps, NothingWritten
<1>4. ASSUME NEW d \in Gprs, NEW b \in Gprs, emitMerge(d, b) \/ emitInterpReads(d, b)
      PROVE  RcInv'
  <2>1. PICK s \in Gprs, t \in Gprs :
          LET c == helperReads(helperReads(writebackOne(writebackOne(rc, s), t), s), t)
          IN  Leaves(c, NoGpr) \/ Goes(c, NoGpr) \/ Goes(forget(helperWrites(c, d), d), d)
    BY <1>4 DEF emitMerge, emitInterpReads
  <2> DEFINE c == helperReads(helperReads(writebackOne(writebackOne(rc, s), t), s), t)
             n == forget(helperWrites(c, d), d)
  <2>2. Coherent(c, gprRef, {}) /\ c.ok
    BY <1>0, HelperGets
  <2>3. Leaves(c, NoGpr) \/ Goes(c, NoGpr) \/ Goes(n, d)
    BY <2>1
  <2> HIDE DEF c
  <2>4. Coherent(n, Written(gprRef, d, rcStep + 1), {}) /\ n.ok
    BY <1>0, <2>2, HelperWritesKeeps
  <2> HIDE DEF n
  <2>5. CASE Leaves(c, NoGpr) \/ Goes(c, NoGpr)
    BY <1>0, <2>2, <2>5, LeavesKeeps, GoesKeeps, NothingWritten
  <2>6. CASE Goes(n, d)
    BY <1>0, <2>4, <2>6, GoesKeeps
  <2> QED BY <2>3, <2>5, <2>6
<1>5. ASSUME NEW d \in Gprs, emitMoveFrom(d)
      PROVE  RcInv'
  <2> DEFINE n == forget(helperWrites(rc, d), d)
  <2>1. Leaves(rc, NoGpr) \/ Goes(n, d)
    BY <1>5 DEF emitMoveFrom
  <2>2. Coherent(n, Written(gprRef, d, rcStep + 1), {}) /\ n.ok
    BY <1>0, HelperWritesKeeps
  <2> HIDE DEF n
  <2>3. CASE Leaves(rc, NoGpr)
    BY <1>0, <2>3, LeavesKeeps, NothingWritten
  <2>4. CASE Goes(n, d)
    BY <1>0, <2>2, <2>4, GoesKeeps
  <2> QED BY <2>1, <2>3, <2>4
<1>6. CASE emitBranch
  <2>1. Coherent(disable(rc), gprRef, {}) /\ disable(rc).ok
    BY <1>0, DisableKeeps
  <2> QED BY <1>0, <1>6, <2>1, LeavesKeeps, NothingWritten DEF emitBranch
<1>7. CASE emitEnd
  BY <1>0, <1>7, LeavesKeeps, NothingWritten DEF emitEnd
<1>8. \/ \E d, s, t \in Gprs : emitSafeOp(d, s, t) \/ emitTrapAlu(d, s, t)
      \/ \E d, b \in Gprs : emitLoad(d, b) \/ emitStore(d, b) \/ emitMerge(d, b)
                            \/ emitInterpReads(d, b)
      \/ \E d \in Gprs : emitMoveFrom(d)
      \/ emitBranch \/ emitEnd
  BY DEF RcNext
<1> QED BY <1>1, <1>2, <1>3, <1>4, <1>5, <1>6, <1>7, <1>8

\* However a block of the dynarec is left, cpu->gpr is what the interpreter would have, and no
\* instruction or helper has read another value on the way (RegCache, its writebacks and snaps).
THEOREM RegistersCoherent == RcSpec => []ExitsCoherent
<1>1. RcInit => RcInv
  <2> SUFFICES ASSUME RcInit PROVE RcInv
    OBVIOUS
  <2> DEFINE c == rcReset
  <2>1. /\ c.of = [k \in Slots |-> Free] /\ c.dirty = [k \in Slots |-> FALSE] /\ c.ok
        /\ c.gpr = [g \in Gprs |-> -g]
    BY DEF rcReset
  <2>2. c \in RcState /\ c.gpr \in [Gprs -> Int]
    BY RcAssumption DEF rcReset, RcState, Slots
  <2>3. Coherent(c, c.gpr, {})
    <3> HIDE DEF c
    <3> QED BY <2>1, <2>2 DEF Coherent, OneSlot, DirtyIsHeld, Copies, Stored
  <2>4. rc = c /\ gprRef = c.gpr /\ rcStep = 0 /\ left = FALSE
    BY DEF RcInit
  <2> HIDE DEF c
  <2> QED BY <2>1, <2>2, <2>3, <2>4 DEF RcInv
<1>2. RcInv /\ [RcNext]_rcVars => RcInv'
  <2>1. ASSUME RcInv, UNCHANGED rcVars PROVE RcInv'
    BY <2>1 DEF RcInv, rcVars, Coherent, OneSlot, DirtyIsHeld, Copies, Stored, IsDirty
  <2> QED BY <2>1, RcStepKeeps
<1>3. RcInv => ExitsCoherent
  BY DEF RcInv, ExitsCoherent
<1> QED BY <1>1, <1>2, <1>3, PTL DEF RcSpec

----------------------------------------------------------------------------
(***************************************************************************)
(* The journal of the RSP's DMAs cannot be told from DMAs applied at once, *)
(* for any set of lines, any size of the cache and any number of operations.*)
(***************************************************************************)

CacheLine == [tag : Lines \cup {NoTag}, dirty : BOOLEAN, data : Int]
Entry == [line : Lines, val : Int]
Machine == [ram : [Lines -> Int], dc : [0 .. Indexes - 1 -> CacheLine], journal : Seq(Entry)]

\* The two machines show the same: their caches are equal, and so is RDRAM
\* once what the first has in its journal is applied.
Same(l, e) ==
  /\ l \in Machine /\ e \in Machine
  /\ e.journal = <<>>
  /\ l.dc = e.dc
  /\ Applied(l).ram = e.ram

\* No entry of the journal is for line x.
Settled(m, x) == \A k \in DOMAIN m.journal : m.journal[k].line # x

----------------------------------------------------------------------------
(* The journal. *)

\* Every line is indexed inside the cache.
LEMMA IndexType == \A x \in Lines : ix(x) \in 0 .. Indexes - 1
BY DcAssumption DEF ix

\* A line with no entry in the journal is in RDRAM as it is.
LEMMA SettledRam ==
  ASSUME NEW m \in Machine, NEW x \in Lines, Settled(m, x)
  PROVE  Applied(m).ram[x] = m.ram[x]
<1>1. LastIn(m.journal, x) = {}
  BY DEF LastIn, Settled
<1> QED BY <1>1 DEF Applied, Machine

\* An empty journal changes nothing.
LEMMA AppliedEmpty ==
  ASSUME NEW m \in Machine, m.journal = <<>>
  PROVE  Applied(m).ram = m.ram
<1>1. \A x \in Lines : Settled(m, x)
  BY DEF Settled
<1>2. \A x \in Lines : Applied(m).ram[x] = m.ram[x]
  BY <1>1, SettledRam
<1>3. Applied(m).ram = [x \in Lines |-> Applied(m).ram[x]]
  BY DEF Applied, Machine
<1>4. m.ram = [x \in Lines |-> m.ram[x]]
  BY DEF Machine
<1> QED BY <1>2, <1>3, <1>4

\* A line that has an entry has one that is the last.
LEMMA AppliedType ==
  ASSUME NEW m \in Machine
  PROVE  /\ Applied(m) \in Machine /\ Applied(m).journal = <<>>
         /\ Applied(m).dc = m.dc
<1>1. ASSUME NEW x \in Lines, LastIn(m.journal, x) # {}
      PROVE  m.journal[CHOOSE k \in LastIn(m.journal, x) : TRUE].val \in Int
  <2> DEFINE k == CHOOSE k \in LastIn(m.journal, x) : TRUE
  <2>1. k \in DOMAIN m.journal
    BY <1>1 DEF LastIn
  <2> HIDE DEF k
  <2>2. m.journal[k] \in Entry
    BY <2>1 DEF Machine
  <2>3. m.journal[k].val \in Int
    BY <2>2 DEF Entry
  <2> QED BY <2>3 DEF k
<1>2. <<>> \in Seq(Entry)
  OBVIOUS
<1> QED BY <1>1, <1>2 DEF Applied, Machine

\* dmaSettle keeps what the machine shows, and leaves no entry for the line.
LEMMA SettleKeeps ==
  ASSUME NEW m \in Machine, NEW x \in Lines
  PROVE  /\ dmaSettle(m, x) \in Machine
         /\ dmaSettle(m, x).dc = m.dc
         /\ Applied(dmaSettle(m, x)).ram = Applied(m).ram
         /\ Settled(dmaSettle(m, x), x)
         /\ \A y \in Lines : Settled(m, y) => Settled(dmaSettle(m, x), y)
<1>1. CASE \E k \in DOMAIN m.journal : m.journal[k].line = x
  <2>1. dmaSettle(m, x) = Applied(m)
    BY <1>1 DEF dmaSettle
  <2>2. Applied(Applied(m)).ram = Applied(m).ram
    BY AppliedType, AppliedEmpty
  <2>3. \A y \in Lines : Settled(Applied(m), y)
    BY AppliedType DEF Settled
  <2> QED BY <2>1, <2>2, <2>3, AppliedType
<1>2. CASE ~\E k \in DOMAIN m.journal : m.journal[k].line = x
  BY <1>2 DEF dmaSettle, Settled
<1> QED BY <1>1, <1>2

\* A store into a settled line is a store after the journal.
LEMMA WriteAfter ==
  ASSUME NEW m \in Machine, NEW x \in Lines, NEW v \in Int, Settled(m, x)
  PROVE  /\ [m EXCEPT !.ram[x] = v] \in Machine
         /\ Applied([m EXCEPT !.ram[x] = v]).ram = [Applied(m).ram EXCEPT ![x] = v]
<1> DEFINE n == [m EXCEPT !.ram[x] = v]
<1>1. n \in Machine /\ n.journal = m.journal
  BY DEF Machine
<1>2. \A y \in Lines : y # x => n.ram[y] = m.ram[y]
  BY DEF Machine
<1>3. n.ram[x] = v
  BY DEF Machine
<1> HIDE DEF n
<1>4. Applied(n).ram[x] = v
  BY <1>1, <1>3, SettledRam DEF Settled
<1>5. \A y \in Lines : y # x => Applied(n).ram[y] = Applied(m).ram[y]
  BY <1>1, <1>2 DEF Applied, Machine
<1>6. Applied(n).ram \in [Lines -> Int] /\ Applied(m).ram \in [Lines -> Int]
  BY <1>1, AppliedType DEF Machine
<1>7. Applied(n).ram = [Applied(m).ram EXCEPT ![x] = v]
  BY <1>4, <1>5, <1>6
<1> QED BY <1>1, <1>7 DEF n

\* A DMA into the journal is a store after everything in it.
LEMMA FileAfter ==
  ASSUME NEW m \in Machine, NEW x \in Lines, NEW v \in Int
  PROVE  /\ [m EXCEPT !.journal = Append(@, [line |-> x, val |-> v])] \in Machine
         /\ Applied([m EXCEPT !.journal = Append(@, [line |-> x, val |-> v])]).ram
              = [Applied(m).ram EXCEPT ![x] = v]
<1> DEFINE en == [line |-> x, val |-> v]
           j == m.journal
           n == [m EXCEPT !.journal = Append(j, en)]
<1>0. n = [m EXCEPT !.journal = Append(@, en)]
  BY DEF Machine
<1>a. en.line = x /\ en.val = v /\ en \in Entry
  BY DEF Entry
<1>b. j \in Seq(Entry)
  BY DEF Machine
<1>c. Append(j, en) \in Seq(Entry)
  BY <1>a, <1>b
<1>d. n \in Machine /\ n.journal = Append(j, en) /\ n.ram = m.ram
  <2> HIDE DEF en, j
  <2> QED BY <1>c DEF Machine
<1>1. /\ n \in Machine /\ n.journal = Append(j, en) /\ n.ram = m.ram
      /\ en.line = x /\ en.val = v /\ j \in Seq(Entry) /\ en \in Entry
  BY <1>a, <1>b, <1>d
<1>2. /\ DOMAIN j = 1 .. Len(j) /\ Len(j) \in Nat /\ DOMAIN Append(j, en) = 1 .. Len(j) + 1
      /\ Append(j, en)[Len(j) + 1] = en
      /\ \A k \in 1 .. Len(j) : Append(j, en)[k] = j[k]
  BY <1>1
<1> HIDE DEF n, j, en
<1>3. LastIn(Append(j, en), x) = {Len(j) + 1}
  BY <1>1, <1>2 DEF LastIn
<1>4. \A y \in Lines : y # x => LastIn(Append(j, en), y) = LastIn(j, y)
  <2> SUFFICES ASSUME NEW y \in Lines, y # x
               PROVE  LastIn(Append(j, en), y) = LastIn(j, y)
    OBVIOUS
  <2>1. ASSUME NEW k \in LastIn(Append(j, en), y) PROVE k \in LastIn(j, y)
    BY <2>1, <1>1, <1>2 DEF LastIn
  <2>2. ASSUME NEW k \in LastIn(j, y) PROVE k \in LastIn(Append(j, en), y)
    BY <2>2, <1>1, <1>2 DEF LastIn
  <2> QED BY <2>1, <2>2
<1>5. Applied(n).ram[x] = v
  <2>1. (CHOOSE k \in LastIn(Append(j, en), x) : TRUE) = Len(j) + 1
    BY <1>3
  <2> QED BY <1>1, <1>2, <1>3, <2>1 DEF Applied, Machine
<1>6. \A y \in Lines : y # x => Applied(n).ram[y] = Applied(m).ram[y]
  <2> SUFFICES ASSUME NEW y \in Lines, y # x PROVE Applied(n).ram[y] = Applied(m).ram[y]
    OBVIOUS
  <2>1. LastIn(Append(j, en), y) = LastIn(j, y)
    BY <1>4
  <2>2. CASE LastIn(j, y) = {}
    BY <2>1, <2>2, <1>1 DEF Applied, Machine, j
  <2>3. CASE LastIn(j, y) # {}
    <3> DEFINE k == CHOOSE k \in LastIn(j, y) : TRUE
    <3>1. k \in LastIn(j, y)
      BY <2>3
    <3>2. k \in 1 .. Len(j)
      BY <3>1, <1>2 DEF LastIn
    <3> HIDE DEF k
    <3>3. Applied(m).ram[y] = j[k].val
      BY <2>3 DEF Applied, Machine, j, k
    <3>4. Applied(n).ram[y] = Append(j, en)[k].val
      BY <2>1, <2>3, <1>1 DEF Applied, Machine, k
    <3> QED BY <3>2, <3>3, <3>4, <1>2
  <2> QED BY <2>2, <2>3
<1>7. Applied(n).ram \in [Lines -> Int] /\ Applied(m).ram \in [Lines -> Int]
  BY <1>1, AppliedType DEF Machine
<1>8. Applied(n).ram = [Applied(m).ram EXCEPT ![x] = v]
  BY <1>5, <1>6, <1>7
<1> QED BY <1>0, <1>1, <1>8 DEF n, en

----------------------------------------------------------------------------
(* The operations of the CPU keep the two machines the same. *)

\* Settling the journal of one of them.
LEMMA SettleSame ==
  ASSUME NEW l, NEW e, Same(l, e), NEW x \in Lines
  PROVE  /\ Same(dmaSettle(l, x), e) /\ dmaSettle(e, x) = e
         /\ Settled(dmaSettle(l, x), x) /\ Settled(e, x)
<1>1. l \in Machine /\ e \in Machine /\ e.journal = <<>>
  BY DEF Same
<1>2. Settled(e, x) /\ dmaSettle(e, x) = e
  BY <1>1 DEF Settled, dmaSettle
<1> QED BY <1>1, <1>2, SettleKeeps DEF Same

\* A settled line holds the same in both.
LEMMA SameRam ==
  ASSUME NEW l, NEW e, Same(l, e), NEW x \in Lines, Settled(l, x)
  PROVE  l.ram[x] = e.ram[x] /\ e.ram[x] \in Int
BY SettledRam DEF Same, Machine

\* A store into a settled line.
LEMMA WriteSame ==
  ASSUME NEW l, NEW e, Same(l, e), NEW x \in Lines, NEW v \in Int, Settled(l, x)
  PROVE  Same([l EXCEPT !.ram[x] = v], [e EXCEPT !.ram[x] = v])
<1>1. l \in Machine /\ e \in Machine
  BY DEF Same
<1>2. [l EXCEPT !.ram[x] = v] \in Machine
  BY <1>1, WriteAfter
<1>3. /\ [e EXCEPT !.ram[x] = v] \in Machine
      /\ [e EXCEPT !.ram[x] = v].journal = <<>>
      /\ [e EXCEPT !.ram[x] = v].ram = [e.ram EXCEPT ![x] = v]
      /\ [l EXCEPT !.ram[x] = v].dc = [e EXCEPT !.ram[x] = v].dc
  BY <1>1 DEF Same, Machine
<1>4. Applied([l EXCEPT !.ram[x] = v]).ram = [e.ram EXCEPT ![x] = v]
  BY <1>1, WriteAfter DEF Same
<1> QED BY <1>2, <1>3, <1>4 DEF Same

\* The same change to a line of both caches.
LEMMA LineSame ==
  ASSUME NEW l, NEW e, Same(l, e), NEW i \in 0 .. Indexes - 1, NEW c \in CacheLine
  PROVE  Same([l EXCEPT !.dc[i] = c], [e EXCEPT !.dc[i] = c])
<1> DEFINE l1 == [l EXCEPT !.dc[i] = c]
           e1 == [e EXCEPT !.dc[i] = c]
<1>1. /\ l1 \in Machine /\ e1 \in Machine /\ l1.dc = e1.dc
      /\ l1.journal = l.journal /\ l1.ram = l.ram
      /\ e1.journal = <<>> /\ e1.ram = e.ram
  BY DEF Same, Machine
<1> HIDE DEF l1, e1
<1>2. Applied(l1).ram = Applied(l).ram
  BY <1>1 DEF Applied, Same, Machine
<1>3. Same(l1, e1)
  BY <1>1, <1>2 DEF Same
<1> QED BY <1>3 DEF l1, e1

\* dcFlush writes the same line back, after the DMAs into it.
LEMMA FlushSame ==
  ASSUME NEW l, NEW e, Same(l, e), NEW i \in 0 .. Indexes - 1
  PROVE  /\ Same(dcFlush(l, i), dcFlush(e, i))
         /\ \A y \in Lines : Settled(l, y) => Settled(dcFlush(l, i), y)
<1> DEFINE c == l.dc[i]
           s == dmaSettle(l, c.tag)
           clean == [c EXCEPT !.dirty = FALSE]
<1>1. l \in Machine /\ e \in Machine /\ e.dc[i] = c /\ c \in CacheLine
  BY DEF Same, Machine
<1>2. CASE c.tag = NoTag \/ ~c.dirty
  BY <1>1, <1>2 DEF dcFlush
<1>3. CASE ~(c.tag = NoTag \/ ~c.dirty)
  <2>1. c.tag \in Lines /\ c.data \in Int /\ clean \in CacheLine
    BY <1>1, <1>3 DEF CacheLine
  <2> HIDE DEF c
  <2>2. /\ Same(s, e) /\ Settled(s, c.tag) /\ s.dc = l.dc /\ dmaSettle(e, c.tag) = e
        /\ \A y \in Lines : Settled(l, y) => Settled(s, y)
    BY <1>1, <2>1, SettleSame, SettleKeeps
  <2>3. s \in Machine
    BY <2>2 DEF Same
  <2> HIDE DEF s
  <2> DEFINE s1 == [s EXCEPT !.ram[c.tag] = c.data]
             e1 == [e EXCEPT !.ram[c.tag] = c.data]
  <2>4. Same(s1, e1)
    BY <2>1, <2>2, WriteSame
  <2>5. /\ s1.journal = s.journal /\ s1.dc = s.dc /\ e1.dc = e.dc
        /\ s1 \in Machine /\ e1 \in Machine
    BY <2>1, <2>3, <2>4, <1>1 DEF Machine, Same
  <2> HIDE DEF s1, e1
  <2>6. Same([s1 EXCEPT !.dc[i] = clean], [e1 EXCEPT !.dc[i] = clean])
    BY <2>1, <2>4, LineSame
  <2>7. s1.dc[i] = c /\ e1.dc[i] = c
    BY <1>1, <2>2, <2>5 DEF c
  <2>8. /\ [s1 EXCEPT !.dc[i] = clean] = [s1 EXCEPT !.dc[i].dirty = FALSE]
        /\ [e1 EXCEPT !.dc[i] = clean] = [e1 EXCEPT !.dc[i].dirty = FALSE]
    BY <2>5, <2>7 DEF Machine, CacheLine
  <2>9. /\ dcFlush(l, i) = [s1 EXCEPT !.dc[i].dirty = FALSE]
        /\ dcFlush(e, i) = [e1 EXCEPT !.dc[i].dirty = FALSE]
    BY <1>1, <1>3, <2>2 DEF dcFlush, c, s, s1, e1
  <2>10. dcFlush(l, i).journal = s.journal
    BY <2>5, <2>9 DEF Machine
  <2> QED BY <2>2, <2>6, <2>8, <2>9, <2>10 DEF Settled
<1> QED BY <1>2, <1>3

\* dcMiss fills both lines with the same.
LEMMA MissSame ==
  ASSUME NEW l, NEW e, Same(l, e), NEW x \in Lines
  PROVE  Same(dcMiss(l, x), dcMiss(e, x))
<1> DEFINE i == ix(x)
           s == dmaSettle(l, x)
           f == dcFlush(s, i)
           g == dcFlush(e, i)
           c == [tag |-> x, dirty |-> FALSE, data |-> g.ram[x]]
<1>1. i \in 0 .. Indexes - 1
  BY IndexType
<1> HIDE DEF i
<1>2. Same(s, e) /\ Settled(s, x) /\ dmaSettle(e, x) = e
  BY SettleSame
<1> HIDE DEF s
<1>3. Same(f, g) /\ Settled(f, x)
  BY <1>1, <1>2, FlushSame
<1> HIDE DEF f, g
<1>4. f.ram[x] = g.ram[x] /\ g.ram[x] \in Int
  BY <1>3, SameRam
<1>5. c \in CacheLine
  BY <1>4 DEF CacheLine
<1>6. Same([f EXCEPT !.dc[i] = c], [g EXCEPT !.dc[i] = c])
  BY <1>1, <1>3, <1>5, LineSame
<1>7. dcMiss(l, x) = [f EXCEPT !.dc[i] = c] /\ dcMiss(e, x) = [g EXCEPT !.dc[i] = c]
  BY <1>2, <1>4 DEF dcMiss, f, g, s, i
<1> QED BY <1>6, <1>7

\* A line is brought in by both or by none, with the same bytes.
LEMMA PresentSame ==
  ASSUME NEW l, NEW e, Same(l, e), NEW x \in Lines
  PROVE  Same(Present(l, x), Present(e, x))
BY MissSame DEF Same, Present, Tagged

\* A store of the CPU (dcWrite) leaves both with the same dirty line.
LEMMA StoreSame ==
  ASSUME NEW l, NEW e, Same(l, e), NEW x \in Lines, NEW v \in Int
  PROVE  Same(dcWrite(l, x, v), dcWrite(e, x, v))
<1>1. [tag |-> x, dirty |-> TRUE, data |-> v] \in CacheLine
  BY DEF CacheLine
<1> QED BY <1>1, IndexType, PresentSame, LineSame DEF dcWrite

\* Tag and dirty bit of a line, one after the other.
Tags(m, i, t, b) == [m EXCEPT !.dc[i].tag = t, !.dc[i].dirty = b]

\* They are changed in both.
LEMMA TagsSame ==
  ASSUME NEW l, NEW e, Same(l, e), NEW i \in 0 .. Indexes - 1, NEW t \in Lines \cup {NoTag},
         NEW b \in BOOLEAN
  PROVE  Same(Tags(l, i, t, b), Tags(e, i, t, b))
<1> DEFINE c == [l.dc[i] EXCEPT !.tag = t, !.dirty = b]
<1>1. l \in Machine /\ e \in Machine /\ l.dc[i] = e.dc[i] /\ l.dc[i] \in CacheLine
  BY DEF Same, Machine
<1>2. c \in CacheLine
  BY <1>1 DEF CacheLine
<1>3. ASSUME NEW m \in Machine, m.dc[i] = l.dc[i]
      PROVE  Tags(m, i, t, b) = [m EXCEPT !.dc[i] = c]
  BY <1>3 DEF Machine, Tags
<1>4. Tags(l, i, t, b) = [l EXCEPT !.dc[i] = c] /\ Tags(e, i, t, b) = [e EXCEPT !.dc[i] = c]
  BY <1>1, <1>3
<1> QED BY <1>2, <1>4, LineSame

\* An invalidated line, in both.
LEMMA InvalidSame ==
  ASSUME NEW l, NEW e, Same(l, e), NEW i \in 0 .. Indexes - 1
  PROVE  Same(Invalid(l, i), Invalid(e, i))
<1>1. Invalid(l, i) = Tags(l, i, NoTag, FALSE) /\ Invalid(e, i) = Tags(e, i, NoTag, FALSE)
  BY DEF Invalid, Tags
<1> QED BY <1>1, TagsSame

\* The CACHE instruction, whatever its function and tag.
LEMMA CacheOpSame ==
  ASSUME NEW l, NEW e, Same(l, e), NEW fn \in Functions, NEW x \in Lines,
         NEW t \in Lines \cup {NoTag}
  PROVE  Same(cacheOp(l, fn, x, t), cacheOp(e, fn, x, t))
<1> DEFINE i == ix(x)
<1>1. i \in 0 .. Indexes - 1
  BY IndexType
<1> HIDE DEF i
<1>2. l \in Machine /\ e \in Machine /\ l.dc[i] = e.dc[i] /\ l.dc[i] \in CacheLine
  BY <1>1 DEF Same, Machine
<1>3. Same(dcFlush(l, i), dcFlush(e, i))
  BY <1>1, FlushSame
<1>4. Tagged(l, x) <=> Tagged(e, x)
  BY <1>2 DEF Tagged, i
<1>5. CASE fn = "IndexWritebackInvalidate"
  BY <1>1, <1>3, <1>5, InvalidSame DEF cacheOp, i
<1>6. CASE fn = "IndexStoreTag"
  <2>1. /\ cacheOp(l, fn, x, t) = Tags(l, i, t, FALSE)
        /\ cacheOp(e, fn, x, t) = Tags(e, i, t, FALSE)
    BY <1>6 DEF cacheOp, i, Tags
  <2> QED BY <1>1, <2>1, TagsSame
<1>7. CASE fn = "CreateDirtyExclusive"
  <2> DEFINE out(m) == m.dc[i].tag # NoTag /\ m.dc[i].dirty /\ m.dc[i].tag # x
             a == IF out(l) THEN dcFlush(l, i) ELSE l
             b == IF out(e) THEN dcFlush(e, i) ELSE e
  <2>1. Same(a, b)
    BY <1>2, <1>3
  <2>2. cacheOp(l, fn, x, t) = Tags(a, i, x, TRUE) /\ cacheOp(e, fn, x, t) = Tags(b, i, x, TRUE)
    BY <1>7 DEF cacheOp, i, Tags
  <2> HIDE DEF a, b
  <2> QED BY <1>1, <2>1, <2>2, TagsSame
<1>8. CASE fn = "HitInvalidate"
  BY <1>1, <1>4, <1>8, InvalidSame DEF cacheOp, i
<1>9. CASE fn = "HitWritebackInvalidate"
  BY <1>1, <1>3, <1>4, <1>9, InvalidSame DEF cacheOp, i
<1>10. CASE fn = "HitWriteback"
  BY <1>3, <1>4, <1>10 DEF cacheOp, i
<1> QED BY <1>5, <1>6, <1>7, <1>8, <1>9, <1>10 DEF Functions

----------------------------------------------------------------------------
(* The specification. *)

DcInv == Same(lazy, eager) /\ got[1] = got[2] /\ dcStep \in Nat

\* At reset both machines are the same one.
LEMMA DcStart == DcInit => DcInv
<1> SUFFICES ASSUME DcInit PROVE DcInv
  OBVIOUS
<1>1. Fresh \in Machine /\ Fresh.journal = <<>>
  BY DcAssumption DEF Fresh, Machine, CacheLine, NoLineD, NoTag
<1>2. Same(Fresh, Fresh)
  BY <1>1, AppliedEmpty DEF Same
<1> QED BY <1>2 DEF DcInit, DcInv

\* Every operation keeps the machines the same and reads the same from both.
LEMMA DcStep == DcInv /\ [DcNext]_dcVars => DcInv'
<1> SUFFICES ASSUME DcInv, [DcNext]_dcVars PROVE DcInv'
  OBVIOUS
<1> USE DEF DcInv
<1>0. CASE UNCHANGED dcVars
  BY <1>0 DEF dcVars
<1>s. ASSUME DcNext PROVE dcStep' \in Nat /\ dcStep' \in Int
  BY <1>s DEF DcNext, Count1
<1>1. ASSUME DcNext, NEW x \in Lines, load(x) PROVE DcInv'
  <2>1. Same(lazy', eager')
    BY <1>1, PresentSame DEF load, dcRead
  <2>2. lazy'.dc[ix(x)].data = eager'.dc[ix(x)].data
    BY <2>1 DEF Same
  <2> QED BY <1>1, <1>s, <2>1, <2>2 DEF load
<1>2. ASSUME DcNext, NEW x \in Lines, store(x) PROVE DcInv'
  BY <1>2, <1>s, StoreSame DEF store
<1>3. ASSUME DcNext, NEW x \in Lines, uncachedRead(x) PROVE DcInv'
  <2>1. Same(lazy', eager') /\ Settled(lazy', x)
    BY <1>3, SettleSame DEF uncachedRead, busRead
  <2>2. lazy'.ram[x] = eager'.ram[x]
    BY <2>1, SameRam
  <2> QED BY <1>3, <1>s, <2>1, <2>2 DEF uncachedRead
<1>4. ASSUME DcNext, NEW x \in Lines, uncachedWrite(x) PROVE DcInv'
  <2>1. Same(dmaSettle(lazy, x), eager) /\ Settled(dmaSettle(lazy, x), x)
        /\ dmaSettle(eager, x) = eager
    BY SettleSame
  <2>2. Same(lazy', eager')
    BY <1>4, <1>s, <2>1, WriteSame DEF uncachedWrite, busWrite
  <2> QED BY <1>4, <1>s, <2>2 DEF uncachedWrite
<1>5. ASSUME DcNext, NEW x \in Lines, rspDma(x) PROVE DcInv'
  <2> DEFINE v == dcStep'
  <2>1. lazy \in Machine /\ eager \in Machine /\ v \in Int
    BY <1>5, <1>s DEF Same
  <2>2. /\ lazy' = [lazy EXCEPT !.journal = Append(@, [line |-> x, val |-> v])]
        /\ eager' = [eager EXCEPT !.ram[x] = v]
    BY <1>5 DEF rspDma
  <2> HIDE DEF v
  <2>3. lazy' \in Machine /\ Applied(lazy').ram = [Applied(lazy).ram EXCEPT ![x] = v]
    BY SMTT(60), <2>1, <2>2, FileAfter
  <2>4. /\ eager' \in Machine /\ eager'.journal = <<>> /\ eager'.dc = eager.dc
        /\ eager'.ram = [eager.ram EXCEPT ![x] = v]
    BY <2>1, <2>2 DEF Same, Machine
  <2>5. lazy'.dc = lazy.dc
    BY <2>1, <2>2 DEF Machine
  <2>6. Same(lazy', eager')
    BY <2>3, <2>4, <2>5 DEF Same
  <2> QED BY <1>5, <1>s, <2>6 DEF rspDma
<1>6. ASSUME DcNext, NEW x \in Lines, NEW fn \in Functions, NEW t \in Lines \cup {NoTag},
             cache(fn, x, t)
      PROVE  DcInv'
  BY <1>6, <1>s, CacheOpSame DEF cache
<1>7. ASSUME DcNext, retire PROVE DcInv'
  <2>1. Same(lazy', eager')
    BY <1>7, AppliedType, AppliedEmpty DEF retire, Same
  <2> QED BY <1>7, <1>s, <2>1 DEF retire
<1> QED BY <1>0, <1>1, <1>2, <1>3, <1>4, <1>5, <1>6, <1>7 DEF DcNext

\* The journal of the RSP's DMAs is invisible to the CPU (dmaSettle, dcMiss, dcFlush, ramSettle):
\* every read, the cache and RDRAM are what they would be with the DMAs applied at once.
THEOREM JournalInvisible == DcSpec => []LazyIsEager
<1>1. DcInv => LazyIsEager
  BY DEF DcInv, LazyIsEager, Same
<1> QED BY <1>1, DcStart, DcStep, PTL DEF DcSpec
=============================================================================
