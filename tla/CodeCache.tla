----------------------------- MODULE CodeCache -----------------------------
(* The dynarec's blocks and the jumps that join them without passing through *)
(* the driver: static sites armed and disarmed by writing data (LinkSite),   *)
(* and the table of indirect targets (ITC).  A chained jump skips every      *)
(* check the driver makes, so what makes it right is that the tables are     *)
(* disarmed whenever one of those checks could give another answer.          *)
(*                                                                           *)
(* A page holds one block and one line of the I-cache.  Its code is a jump,  *)
(* to a page of the segment it runs in (J) or wherever a register says (JR); *)
(* a long block goes on into the next page.  Pages are reached directly      *)
(* ("k", ckseg0) or through the TLB ("m").                                   *)
EXTENDS Integers, Sequences

CONSTANTS
  Pages,      \* physical pages of RDRAM with code
  Codes,      \* contents: [to: Pages \cup {Reg}, long: BOOLEAN]
  BufMax,     \* blocks that fit in the code buffer
  Evictions,  \* whether a line may be refilled without an invalidation
  Moves       \* bound on writes, invalidations, refills and remappings

Reg    == -1                            \* the target is in a register
Absent == -1                            \* a page with no translation
NoLine == [to |-> -2, long |-> FALSE]   \* an invalid line

ASSUME CodeAssumption ==
  /\ Codes \subseteq [to: Pages \cup {Reg}, long: BOOLEAN]
  /\ Pages \subseteq Nat /\ BufMax \in Nat \ {0} /\ Evictions \in BOOLEAN /\ Moves \in Nat

VA == {"k", "m"} \X Pages

VARIABLES
  ram,        \* the code in RDRAM
  icache,     \* the lines of the I-cache
  tlb,        \* page of the mapped segment -> physical page
  mapMoved,   \* cc->tlbGen # tlbGen
  cc,         \* the CodeCache
  pc,         \* where the guest is
  cur,        \* the emitted block that runs, 0 in the driver
  moves,      \* writes, invalidations, refills and remappings so far
  had,        \* ghost: what each page could be fetched as since its last invalidation
  checked,    \* ghost: the pages whose block the driver has compared with memory since then
  blind       \* ghost: the pages a new block was joined to without such a look

ghosts == <<had, checked, blind>>
codeVars == <<ram, icache, tlb, mapMoved, cc, pc, cur, moves, ghosts>>

NoBlock == [at |-> 0, dead |-> FALSE, epoch |-> FALSE]

\* init: an empty cache.
\*   emitted : the code buffer, [phys, src, va] per block in order of emission
\*   blocks  : phys -> [at: index in emitted, dead, epoch: linkedEpoch = linkEpoch]
\*   links   : the sites, [from, va, phys, tlb, ok, to]; to = 0 is disarmed
Empty == [emitted |-> <<>>, blocks |-> [p \in Pages |-> NoBlock], links |-> {},
          anyLinked |-> FALSE, itc |-> [v \in VA |-> 0], over |-> FALSE]

Direct(va) == va[1] = "k"
\* The translation the driver and tlbProbePhys give.
Phys(va) == IF Direct(va) THEN va[2] ELSE tlb[va[2]]
\* What the processor would fetch (jitPeekWord).
Fetch(p) == IF icache[p] = NoLine THEN ram[p] ELSE icache[p]

itcClear(c) == [c EXCEPT !.itc = [v \in VA |-> 0]]

-----------------------------------------------------------------------------
(* The tables of links.                                                      *)

\* May the site jump to the block of its target?
Eligible(s, long) == s.tlb => ~long /\ s.ok

Arm(c, these) ==
  [c EXCEPT !.links = (@ \ these) \cup
                      {[s EXCEPT !.to = c.blocks[s.phys].at] : s \in these},
            !.anyLinked = @ \/ these # {}]

Long(c, p) == LET b == c.emitted[c.blocks[p].at] IN b.src.long /\ Direct(b.va)

addLink(c, s) ==
  LET b == c.blocks[s.phys]
      d == [c EXCEPT !.links = @ \cup {s}]
  IN IF b.at # 0 /\ ~b.dead /\ Eligible(s, Long(c, s.phys)) THEN Arm(d, {s}) ELSE d

linkTo(c, p) ==
  Arm(c, {s \in c.links : s.phys = p /\ Eligible(s, Long(c, p))})

unlinkStatic(c, p) ==
  [c EXCEPT !.links = {IF s.phys = p THEN [s EXCEPT !.to = 0] ELSE s : s \in @}]
unlinkTo(c, p) == unlinkStatic(itcClear(c), p)

unlinkAll(c) ==
  IF ~c.anyLinked THEN itcClear(c)
  ELSE [itcClear(c) EXCEPT
          !.anyLinked = FALSE,
          !.links = {[s EXCEPT !.to = 0] : s \in @},
          !.blocks = [p \in Pages |-> [@[p] EXCEPT !.epoch = FALSE]]]

clear(c) == Empty

-----------------------------------------------------------------------------
(* compileBlock: the site it emits.                                          *)

JumpsTo(src, va) == IF src.to = Reg THEN VA ELSE {<<va[1], src.to>>}

\* linkable: a direct target from anywhere; a mapped one only from a block
\* entered through the TLB, with the translation of now.
linkable(va, va0) == Direct(va) \/ (~Direct(va0) /\ Phys(va) # Absent)

Sites(at, src, va0) ==
  IF src.to = Reg THEN {}
  ELSE {[from |-> at, va |-> va, phys |-> Phys(va), tlb |-> ~Direct(va),
         ok |-> TRUE, to |-> 0] :
        va \in {w \in JumpsTo(src, va0) : linkable(w, va0)}}

\* Compile at va, insert in place, register the site and publish the block.
compileInto(c, va) ==
  LET p   == Phys(va)
      at  == Len(c.emitted) + 1
      src == Fetch(p)
      ins == [c EXCEPT !.emitted = Append(@, [phys |-> p, src |-> src, va |-> va]),
                       !.blocks[p] = [at |-> at, dead |-> FALSE, epoch |-> TRUE]]
      st  == Sites(at, src, va)
      reg == IF st = {} THEN ins ELSE addLink(ins, CHOOSE s \in st : TRUE)
  IN linkTo(reg, p)

-----------------------------------------------------------------------------
(* jitTryBlock: the driver enters a block at pc.                             *)

\* Every mapped site keeps the pair (VA, phys) of its compilation: is it true?
reprobe(c) ==
  [c EXCEPT !.links = {[s EXCEPT !.ok = ~s.tlb \/ Phys(s.va) = s.phys] : s \in @}]

\* After a change of the mapping every link goes and every pair is probed.
Synced(c) == IF mapMoved THEN reprobe(unlinkAll(c)) ELSE c

\* The block of page p: the one in the cache, or a new one.  A buffer that
\* overflowed is given up before the next compilation; the compilation that
\* overflows it yields nothing.
Dead(c, p) == c.blocks[p].at = 0 \/ c.blocks[p].dead
WithBlock(c, va) ==
  IF ~Dead(c, Phys(va)) THEN c
  ELSE IF c.over THEN compileInto(clear(c), va)
  ELSE IF Len(c.emitted) = BufMax THEN [c EXCEPT !.over = TRUE]
  ELSE compileInto(c, va)

\* Validated against the line: published again after a global disarm, and
\* entered in the table of indirect targets.
Published(c, p) ==
  IF c.blocks[p].epoch THEN c
  ELSE [linkTo(c, p) EXCEPT !.blocks[p].epoch = TRUE]
Noted(c, va) == [c EXCEPT !.itc[va] = c.blocks[Phys(va)].at]

\* The pages new block n was joined to by addLink, which looks at no memory.
Armed(c, p) == \E s \in c.links : s.phys = p /\ s.to # 0
Joined(c, n) == {p \in Pages : \E s \in c.links : s.from = n /\ s.phys = p /\ s.to # 0}

Killed(c, p) == unlinkTo([c EXCEPT !.blocks[p].dead = TRUE], p)

\* The interpreter executes the jump it fetches.
interpret == \E va \in JumpsTo(Fetch(Phys(pc)), pc) : pc' = va

\* crossPage: the block assumes that its pages are neighbours.
CrossesPage(c, va) == ~Dead(c, Phys(va)) /\ Long(c, Phys(va)) /\ ~Direct(va)

jitTryBlock ==
  LET p == Phys(pc)
      s == Synced(cc)
      c == IF CrossesPage(s, pc) THEN s ELSE WithBlock(s, pc)
      smc == ~Dead(c, p) /\ c.emitted[c.blocks[p].at].src # Fetch(p)
      enters == ~CrossesPage(s, pc) /\ ~Dead(c, p) /\ ~smc
  IN /\ cur = 0 /\ p # Absent
     /\ mapMoved' = FALSE
     /\ icache' = [icache EXCEPT ![p] = Fetch(p)]
     /\ UNCHANGED <<ram, tlb, moves, had>>
     /\ \/ /\ enters
           /\ cc' = Noted(Published(c, p), pc)
           /\ cur' = c.blocks[p].at
           /\ checked' = checked \cup {p}
           /\ blind' = {q \in blind \cup (Joined(cc', Len(cc'.emitted)) \ checked) :
                        q # p /\ Armed(cc', q)}
           /\ UNCHANGED pc
        \/ /\ ~enters
           /\ cc' = IF smc /\ ~CrossesPage(s, pc) THEN Killed(c, p) ELSE c
           /\ interpret
           /\ UNCHANGED <<cur, checked, blind>>

\* The driver declines before it looks at the mapping (an interrupt, a delay
\* slot, a watchpoint, RE, a mode): the interpreter executes.
declined ==
  /\ cur = 0 /\ Phys(pc) # Absent
  /\ icache' = [icache EXCEPT ![Phys(pc)] = Fetch(Phys(pc))]
  /\ interpret
  /\ UNCHANGED <<ram, tlb, mapMoved, cc, cur, moves, ghosts>>

\* The pc has no translation: the interpreter raises the exception.
fetchFault ==
  /\ cur = 0 /\ Phys(pc) = Absent
  /\ \E p \in Pages : pc' = <<"k", p>>
  /\ UNCHANGED <<ram, icache, tlb, mapMoved, cc, cur, moves, ghosts>>

\* emitCtrlExit: the block jumps to va; an armed guard or the ITC takes it to
\* the entry it holds, which may refuse (jitReenterProceed).
Chained(va) ==
  {s.to : s \in {t \in cc.links : t.from = cur /\ t.va = va /\ t.to # 0}} \cup
  (IF cc.emitted[cur].src.to = Reg /\ cc.itc[va] # 0 THEN {cc.itc[va]} ELSE {})

emitCtrlExit ==
  /\ cur # 0
  /\ \E va \in JumpsTo(cc.emitted[cur].src, pc) :
       /\ pc' = va
       /\ cur' \in {0} \cup Chained(va)
  /\ UNCHANGED <<ram, icache, tlb, mapMoved, cc, moves, ghosts>>

-----------------------------------------------------------------------------
(* What the guest does to its code and its mapping.  CACHE on the I-cache,   *)
(* TLBWI and MTC0 EntryHi end their block, so the driver comes next.         *)

Move == moves < Moves /\ moves' = moves + 1
\* Page p may be fetched as something else from now on.
Hold(p) == had' = [had EXCEPT ![p] = @ \cup {Fetch(p)'}] /\ UNCHANGED checked

\* A store or a DMA, in a block or out of it.
writeCode(p, c) ==
  /\ Move /\ ram[p] # c /\ ram' = [ram EXCEPT ![p] = c]
  /\ UNCHANGED <<icache, tlb, mapMoved, cc, pc, cur>>
  /\ Hold(p) /\ UNCHANGED blind

\* cacheOp: Index_Invalidate, Hit_Invalidate.
Invalidated(p, c) ==
  /\ Move
  /\ icache' = [icache EXCEPT ![p] = NoLine]
  /\ cc' = c /\ cur' = 0
  /\ had' = [had EXCEPT ![p] = {ram[p]}] /\ checked' = checked \ {p} /\ blind' = {}
  /\ UNCHANGED <<ram, tlb, mapMoved, pc>>
cacheInvalidateOnly(p) == Invalidated(p, cc)
cacheInvalidate(p) == Invalidated(p, unlinkAll(cc))

\* cacheOp: Fill.
cacheFill(p) ==
  /\ Evictions /\ Move
  /\ icache' = [icache EXCEPT ![p] = ram[p]] /\ cur' = 0
  /\ UNCHANGED <<ram, tlb, mapMoved, cc, pc>>
  /\ Hold(p) /\ UNCHANGED blind

\* A fetch elsewhere takes the line.
evictLine(p) ==
  /\ Evictions /\ Move /\ icache[p] # NoLine
  /\ icache' = [icache EXCEPT ![p] = NoLine]
  /\ UNCHANGED <<ram, tlb, mapMoved, cc, pc, cur>>
  /\ Hold(p) /\ UNCHANGED blind

\* tlbWrite, or EntryHi with another ASID.
remap(v, p) ==
  /\ Move /\ tlb[v] # p /\ tlb' = [tlb EXCEPT ![v] = p]
  /\ mapMoved' = TRUE /\ cur' = 0
  /\ UNCHANGED <<ram, icache, cc, pc, ghosts>>

\* hostPoke with code: RDRAM, the resident line, and the cache goes.
hostPoke(p, c) ==
  /\ Move /\ cur = 0
  /\ ram' = [ram EXCEPT ![p] = c]
  /\ icache' = [icache EXCEPT ![p] = IF @ = NoLine THEN @ ELSE c]
  /\ cc' = clear(cc)
  /\ UNCHANGED <<tlb, mapMoved, pc, cur>>
  /\ Hold(p) /\ blind' = {}

CodeInit ==
  /\ ram \in [Pages -> Codes]
  /\ icache = [p \in Pages |-> NoLine]
  /\ tlb = [p \in Pages |-> Absent] /\ mapMoved = FALSE
  /\ cc = Empty /\ cur = 0 /\ moves = 0
  /\ \E p \in Pages : pc = <<"k", p>>
  /\ had = [p \in Pages |-> {ram[p]}] /\ checked = {} /\ blind = {}

CodeNext ==
  \/ jitTryBlock \/ declined \/ fetchFault \/ emitCtrlExit
  \/ \E p \in Pages :
       \/ cacheInvalidate(p) \/ cacheFill(p) \/ evictLine(p)
       \/ \E c \in Codes : writeCode(p, c) \/ hostPoke(p, c)
       \/ \E q \in Pages \cup {Absent} : remap(p, q)

CodeSpec == CodeInit /\ [][CodeNext]_codeVars

-----------------------------------------------------------------------------
(* Every armed guard and every entry of the ITC leads to the block that is   *)
(* in the cache for its page, alive: never to code that a write killed, that *)
(* was compiled anew elsewhere, or whose bytes the buffer has given away.    *)
ArmedIsAlive ==
  /\ \A s \in cc.links : s.to # 0 =>
       cc.blocks[s.phys].at = s.to /\ ~cc.blocks[s.phys].dead
  /\ \A v \in VA : cc.itc[v] # 0 =>
       \E p \in Pages : cc.blocks[p].at = cc.itc[v] /\ ~cc.blocks[p].dead

(* The block that runs is the block of the page the pc translates to now,    *)
(* however it was reached, and it goes on into the next page only where the  *)
(* next page is the next one.                                                *)
RunsInItsPlace ==
  cur # 0 => /\ cc.emitted[cur].phys = Phys(pc)
             /\ Long(cc, cc.emitted[cur].phys) => Direct(pc)

(* What a guest that invalidates its code may count on, for the jumps that   *)
(* go through no check: an armed guard, an entry of the ITC and the block    *)
(* that runs were compiled from what their page could be fetched as since it *)
(* was last invalidated (CACHE; a line may be refilled in between), so code  *)
(* written before an invalidation is never passed over for the code it       *)
(* replaced.  The exception is a page a new block was joined to (addLink)    *)
(* before the driver compared the page's own block with memory again.        *)
WasThere(n) == cc.emitted[n].src \in had[cc.emitted[n].phys]
JoinedBlind(n) == cc.emitted[n].phys \in blind
RunsWhatIsThere ==
  /\ \A s \in cc.links : s.to # 0 => WasThere(s.to) \/ JoinedBlind(s.to)
  /\ \A v \in VA : cc.itc[v] # 0 => WasThere(cc.itc[v])
  /\ cur # 0 => WasThere(cur) \/ JoinedBlind(cur)

\* What runs is the block of the page the guest is in, alive where a chained jump leads to it, and
\* compiled from code that was there since the guest last invalidated the page (CodeCache, unlinkTo,
\* unlinkAll, reprobe); blind names the exception.
CodeIsThere == ArmedIsAlive /\ RunsInItsPlace /\ RunsWhatIsThere

(* "Sube linkEpoch para que cada bloque se re-enlace en su proxima entrada   *)
(* VALIDADA por el driver" (jit.hpp, unlinkAll), said and not kept: addLink  *)
(* joins a new block to one that was not validated since.                    *)
OnlyValidated == blind = {}

=============================================================================
