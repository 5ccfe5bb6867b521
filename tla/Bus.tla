-------------------------------- MODULE Bus --------------------------------
(***************************************************************************)
(* The devices of the console that end their work at an instant of the     *)
(* guest's clock (core/memory.cpp): the cartridge bus (PI), the serial bus *)
(* (SI), the video scan (VI) and the audio DAC (AI), with the interrupt    *)
(* lines they raise (MI).  A machine is one record, and every register     *)
(* access and every deadline is a function of it and of the clock, so that *)
(* two machines can be run side by side, in the two ways the program has   *)
(* to run the guest (System::stepCpu).  m is the machine of the player:    *)
(* compiled blocks, idle loops skipped, and a look at the video clock      *)
(* wherever the host happens to end a slice.  ref runs the same            *)
(* instructions one by one in the interpreter.  What the guest can see     *)
(* must not tell them apart.                                               *)
(***************************************************************************)
EXTENDS Integers, Sequences

CONSTANTS
  Field,      \* Memory::viFieldInsns, instructions per video field
  Heights,    \* half-lines a field may have (VI_V_SYNC)
  Lines,      \* lines a game programs in VI_INTR
  PiTimes,    \* lengths of a cartridge transfer, in instructions
  SiTimes,    \* lengths of a joybus transaction
  IoTime,     \* how long a single write keeps the cartridge bus busy
  LatchTime,  \* Memory::cartLatchTtl
  AiDen,      \* instructions per second (x1000), the DAC's denominator
  AiRates,    \* bytes per second (x1000) for each DACRATE
  AiLens,     \* lengths of an audio buffer
  MaxClock,   \* the run ends when this many instructions have retired
  MaxBlock,   \* instructions of the longest compiled block
  MaxAccess,  \* accesses to a device in a run; its other instructions do nothing
  Registers   \* the registers this guest touches

ASSUME DeviceAssumption ==
  /\ Field \in Nat \ {0} /\ AiDen \in Nat \ {0}
  /\ Heights \subseteq Nat \ {0} /\ Lines \subseteq Nat
  /\ AiRates \subseteq 1 .. AiDen /\ AiLens \subseteq Nat
  /\ Heights # {} /\ Lines # {} /\ AiRates # {}
  /\ PiTimes \union SiTimes \union {IoTime, LatchTime} \subseteq Nat

NoDeadline == -1          \* ~0: no deadline
Due(at, now) == IF at = NoDeadline THEN NoDeadline ELSE IF at > now THEN at - now ELSE 0
Earlier(a, b) == IF a = NoDeadline THEN b ELSE IF b = NoDeadline \/ a < b THEN a ELSE b

----------------------------------------------------------------------------
(* MI: the interrupt lines.                                                *)

raiseIntr(m, line) == [m EXCEPT !.intr = @ \union {line}]
clearIntr(m, line) == [m EXCEPT !.intr = @ \ {line}]

\* Memory::jitCancelChain: the compiled block that runs leaves at this store.
jitCancelChain(m) == [m EXCEPT !.armed = TRUE]

MI_MASK(m, off, on) == jitCancelChain([m EXCEPT !.mask = (@ \ off) \union on])

----------------------------------------------------------------------------
(* PI: transfers and single accesses of the cartridge bus.                 *)

piFinish(m) ==
  IF m.piBusy THEN raiseIntr([m EXCEPT !.piBusy = FALSE, !.piStatus = {"int"}], "PI") ELSE m

piArm(m, now, length) ==
  jitCancelChain([m EXCEPT !.piBusy = TRUE, !.piDoneAt = now + length, !.piStatus = {"dma"}])
\* Memory::piDma closes the transfer in flight before it starts its own.
piDma(m, now, length) == piArm(piFinish(m), now, length)

piIoDecay(m, now) ==
  [m EXCEPT !.piStatus = IF now >= m.ioUntil THEN @ \ {"io"} ELSE @,
            !.latched = @ /\ now < m.latchEnd]

PI_STATUS_read(m, now) ==
  LET d == piIoDecay(m, now) IN IF now >= d.piDoneAt THEN piFinish(d) ELSE d

PI_STATUS_write(m, reset, ack) ==
  LET r == IF reset THEN [m EXCEPT !.piBusy = FALSE, !.piStatus = {}] ELSE m
  IN IF ack THEN clearIntr([r EXCEPT !.piStatus = @ \ {"int"}], "PI") ELSE r

\* A write is lost on a busy bus, and on a bus that still holds an older one.
cartWrite(m, now) ==
  LET d == piIoDecay(m, now) IN
  IF "io" \in d.piStatus \/ d.latched THEN d
  ELSE [d EXCEPT !.latched = TRUE, !.latchEnd = now + LatchTime,
                 !.ioUntil = now + IoTime, !.piStatus = @ \union {"io"}]

\* A read takes what floats on the bus, and frees it.
cartRead(m, now) ==
  IF m.latched /\ now < m.latchEnd
  THEN [m EXCEPT !.latched = FALSE, !.piStatus = @ \ {"io"}]
  ELSE piIoDecay(m, now)

----------------------------------------------------------------------------
(* SI: the joybus runs when the transaction starts, its answer reaches     *)
(* memory when it ends.  pif and rdram count the answers they hold, mod 2. *)

siFinish(m) ==
  IF ~m.siBusy THEN m
  ELSE raiseIntr([m EXCEPT !.siBusy = FALSE, !.siStatus = FALSE,
                           !.rdram = IF m.siToPif THEN @ ELSE m.pif], "SI")

pifProcessJoybus(m) == [m EXCEPT !.pif = 1 - @]

siDma(m, now, toPif, length) ==
  LET f == siFinish(m)
      w == IF toPif THEN f ELSE pifProcessJoybus(f)
  IN jitCancelChain([w EXCEPT !.siBusy = TRUE, !.siToPif = toPif,
                              !.siDoneAt = now + length, !.siStatus = TRUE])

SI_STATUS_zero(m) == clearIntr([m EXCEPT !.siStatus = FALSE], "SI")
SI_STATUS_write(m) == clearIntr([m EXCEPT !.siStatus = m.siBusy], "SI")

----------------------------------------------------------------------------
(* AI: a queue of two buffers, drained by samples.                         *)

aiNextEvent(m) ==
  LET need == m.playing * AiDen IN
  IF m.fifo = <<>> THEN NoDeadline
  ELSE IF m.aiAcc >= need THEN m.aiLast
  ELSE m.aiLast + (need - m.aiAcc + m.rate - 1) \div m.rate

evArm(m) == [m EXCEPT !.evNext = Earlier(m.viNext, m.aiNext)]
aiArm(m) == evArm([m EXCEPT !.aiNext = aiNextEvent(m)])

\* One turn of the loop of aiTick: c is the machine and the bytes still due.
Drain(c) ==
  IF c.bytes = 0 \/ c.m.fifo = <<>> THEN c
  ELSE IF c.m.playing > c.bytes
  THEN [m |-> [c.m EXCEPT !.playing = @ - c.bytes], bytes |-> 0]
  ELSE [m |-> raiseIntr([c.m EXCEPT !.fifo = Tail(@), !.ended = @ + 1,
                           !.playing = IF Len(c.m.fifo) > 1 THEN c.m.fifo[2] ELSE 0], "AI"),
        bytes |-> c.bytes - c.m.playing]

aiTick(m, now) ==
  LET delta == IF now - m.aiLast > 4 * Field THEN 4 * Field ELSE now - m.aiLast
      acc   == m.aiAcc + delta * m.rate
      c     == Drain(Drain([m |-> [m EXCEPT !.aiLast = now, !.aiAcc = acc % AiDen],
                            bytes |-> acc \div AiDen]))
  IN IF m.fifo = <<>>
     THEN [m EXCEPT !.aiLast = now, !.aiAcc = 0, !.aiNext = NoDeadline]
     ELSE [c.m EXCEPT !.aiNext = aiNextEvent(c.m)]

Enqueue(m, len) ==
  IF len = 0 \/ Len(m.fifo) = 2 THEN m
  ELSE jitCancelChain(aiArm(
         [m EXCEPT !.fifo = Append(@, len), !.queued = @ + 1,
                   !.playing = IF m.fifo = <<>> THEN len ELSE @]))
AI_LEN_stale(m, now, len) == Enqueue(m, len)
AI_LEN_write(m, now, len) == Enqueue(aiTick(m, now), len)

AI_DACRATE_write(m, now, rate) ==
  jitCancelChain(aiArm([aiTick(m, now) EXCEPT !.rate = rate]))

----------------------------------------------------------------------------
(* VI: the scan never stops.  It crosses the line of VI_INTR once a field. *)

LineAt(m) == (m.line * Field) \div m.height
Crossings(m, x) == IF x >= LineAt(m) THEN (x - LineAt(m)) \div Field + 1 ELSE 0

viNextEvent(m, now) ==
  LET o == LineAt(m)
      nextLine == IF now < o THEN o ELSE o + ((now - o) \div Field + 1) * Field
  IN Earlier(nextLine, (now \div Field + 1) * Field)

viTick(m, now) ==
  LET fire  == Crossings(m, now) > Crossings(m, m.viLast)
      close == now \div Field > m.viLast \div Field
      v == [m EXCEPT !.viLast = now, !.fields = IF close THEN @ + 1 ELSE @]
      a == aiTick(IF fire THEN raiseIntr(v, "VI") ELSE v, now)
  IN evArm([a EXCEPT !.viNext = viNextEvent(a, now)])

\* VI_INTR and VI_V_SYNC: the deadline in force was that of the old line.
viMoved(m) == jitCancelChain(evArm([m EXCEPT !.viNext = viNextEvent(m, m.viLast)]))
VI_INTR_write(m, line) == viMoved([m EXCEPT !.line = line])
VI_V_SYNC_write(m, height) == viMoved([m EXCEPT !.height = height])

----------------------------------------------------------------------------
\* Memory::eventDueIn: instructions left to the nearest deadline.
piDueIn(m, now) == IF m.piBusy THEN Due(m.piDoneAt, now) ELSE NoDeadline
siDueIn(m, now) == IF m.siBusy THEN Due(m.siDoneAt, now) ELSE NoDeadline
eventDueIn(m, now) ==
  Earlier(Earlier(siDueIn(m, now), piDueIn(m, now)), Due(m.evNext, now))
\* System::stepCpu, after an instruction or a compiled block: what is due ends.
retireDue(m, now) ==
  LET s == IF m.siBusy /\ now >= m.siDoneAt THEN siFinish(m) ELSE m
      p == IF s.piBusy /\ now >= s.piDoneAt THEN piFinish(s) ELSE s
  IN IF now >= p.evNext THEN viTick(p, now) ELSE p

Reset ==
  [intr |-> {}, mask |-> {}, armed |-> FALSE,
   piBusy |-> FALSE, piDoneAt |-> 0, piStatus |-> {}, ioUntil |-> 0,
   latched |-> FALSE, latchEnd |-> 0,
   siBusy |-> FALSE, siToPif |-> FALSE, siDoneAt |-> 0, siStatus |-> FALSE,
   pif |-> 0, rdram |-> 0,
   fifo |-> <<>>, playing |-> 0, aiAcc |-> 0, aiLast |-> 0, aiNext |-> NoDeadline,
   rate |-> CHOOSE r \in AiRates : TRUE, queued |-> 0, ended |-> 0,
   line |-> CHOOSE l \in Lines : TRUE, height |-> CHOOSE h \in Heights : TRUE,
   viLast |-> 0, viNext |-> 0, evNext |-> 0, fields |-> 0]

----------------------------------------------------------------------------
(* The two machines of a run. *)

VARIABLES m, ref, clock, left, moved, accesses

accessVars == <<m, ref, clock, left, moved, accesses>>

Op(reg, a, b) == [reg |-> reg, arg |-> a, arg2 |-> b]

\* The accesses of the guest that change a device.
Ops == { o \in
  {Op("nop", 0, 0), Op("cartWrite", 0, 0), Op("cartRead", 0, 0),
   Op("PI_STATUS_read", 0, 0), Op("SI_STATUS", 0, 0), Op("AI_LEN_read", 0, 0),
   Op("AI_STATUS", 0, 0), Op("VI_CURRENT", 0, 0)}
  \union {Op("MI_MASK", s[1], s[2]) : s \in {<<{}, {"PI"}>>, <<{"PI"}, {}>>}}
  \union {Op("PI_LEN", t, 0) : t \in PiTimes}
  \union {Op("PI_STATUS", r, TRUE) : r \in BOOLEAN}
  \union {Op("SI_DMA", p, t) : p \in BOOLEAN, t \in SiTimes}
  \union {Op("AI_LEN", l, 0) : l \in AiLens}
  \union {Op("AI_DACRATE", r, 0) : r \in AiRates}
  \union {Op("VI_INTR", l, 0) : l \in Lines}
  \union {Op("VI_V_SYNC", h, 0) : h \in Heights} : o.reg \in Registers }

\* Memory::mmioRead32 and mmioWrite32, by register.
Access(o, d, t) ==
  CASE o.reg = "nop"            -> d
    [] o.reg = "MI_MASK"        -> MI_MASK(d, o.arg, o.arg2)
    [] o.reg = "cartWrite"      -> cartWrite(d, t)
    [] o.reg = "cartRead"       -> cartRead(d, t)
    [] o.reg = "PI_LEN"         -> piDma(d, t, o.arg)
    [] o.reg = "PI_STATUS_read" -> PI_STATUS_read(d, t)
    [] o.reg = "PI_STATUS"      -> PI_STATUS_write(d, o.arg, o.arg2)
    [] o.reg = "SI_DMA"         -> siDma(d, t, o.arg, o.arg2)
    [] o.reg = "SI_STATUS"      -> SI_STATUS_write(d)
    [] o.reg = "AI_LEN_read"    -> aiTick(d, t)
    [] o.reg = "AI_LEN"         -> AI_LEN_write(d, t, o.arg)
    [] o.reg = "AI_DACRATE"     -> AI_DACRATE_write(d, t, o.arg)
    [] o.reg = "AI_STATUS"      -> clearIntr(d, "AI")
    [] o.reg = "VI_INTR"        -> VI_INTR_write(d, o.arg)
    [] o.reg = "VI_V_SYNC"      -> VI_V_SYNC_write(d, o.arg)
    [] o.reg = "VI_CURRENT"     -> clearIntr(d, "VI")

Execute(o, d, t) == Access(o, [d EXCEPT !.armed = FALSE], t)

BusInit == m = Reset /\ ref = Reset /\ clock = 0 /\ left = 0
        /\ moved = FALSE /\ accesses = 0

Allowed(o) == clock < MaxClock /\ (o.reg # "nop" => accesses < MaxAccess)

\* The interpreter's step, and what the loop does after it.
stepCpu(o, d) == retireDue(Execute(o, d, clock), clock + 1)

AfterStep(o) ==
  /\ clock' = clock + 1
  /\ ref' = stepCpu(o, ref)
  /\ moved' = (moved \/ o.reg \in {"VI_INTR", "VI_V_SYNC"})
  /\ accesses' = IF o.reg = "nop" THEN accesses ELSE accesses + 1

Interpret(o) == /\ Allowed(o) /\ left = 0
                /\ m' = stepCpu(o, m) /\ AfterStep(o) /\ UNCHANGED left

\* CPU::jitTryBlock declines a block that would cross a deadline.
jitTryBlock(k) ==
  /\ clock < MaxClock /\ left = 0
  /\ LET due == eventDueIn(m, clock) IN due = NoDeadline \/ due > k
  /\ left' = k /\ UNCHANGED <<m, ref, clock, moved, accesses>>
\* Inside the block no deadline is looked at; a store that arms one leaves it.
InBlock(o) ==
  LET d == Execute(o, m, clock) IN
  /\ Allowed(o) /\ left > 0 /\ AfterStep(o)
  /\ left' = IF d.armed THEN 0 ELSE left - 1
  /\ m' = IF left' = 0 THEN retireDue(d, clock + 1) ELSE d

\* One turn of an empty loop in the interpreter: the branch to itself and its slot.
idleTurn(d, t) == retireDue(retireDue(d, t + 1), t + 2)
\* CPU::jitIdleSkip: whole turns of that loop at once, up to the deadline itself.
jitIdleSkip(turns) ==
  LET k == 2 * turns
      due == eventDueIn(m, clock)
  IN /\ left = 0 /\ clock + k <= MaxClock
     /\ due = NoDeadline \/ k <= due
     /\ clock' = clock + k
     /\ m' = retireDue(m, clock + k)
     /\ ref' = IF turns = 1 THEN idleTurn(ref, clock)
               ELSE idleTurn(idleTurn(ref, clock), clock + 2)
     /\ UNCHANGED <<left, moved, accesses>>

\* System::run looks at the video clock at the end of a slice of the host.
endOfSlice == /\ left = 0 /\ m' = viTick(m, clock)
              /\ UNCHANGED <<ref, clock, left, moved, accesses>>

BusNext ==
  \/ \E o \in Ops : Interpret(o)
  \/ \E o \in Ops : InBlock(o)
  \/ \E k \in 1 .. MaxBlock : jitTryBlock(k)
  \/ \E turns \in {1, 2} : jitIdleSkip(turns)
  \/ endOfSlice

BusSpec == BusInit /\ [][BusNext]_accessVars

----------------------------------------------------------------------------
(* What the guest can read, with the DAC brought up to date as a read does. *)
Visible(d) ==
  LET a == aiTick(d, clock) IN
  [intr |-> d.intr, mask |-> d.mask, pi |-> piIoDecay(d, clock).piStatus,
   latched |-> piIoDecay(d, clock).latched,
   si |-> d.siStatus, rdram |-> d.rdram, pif |-> d.pif,
   fifo |-> a.fifo, playing |-> a.playing, line |-> d.line, height |-> d.height]

(* The guest sees the same machine whether it is compiled or interpreted   *)
(* and wherever the host ends its slices (the comment of System::stepCpu:  *)
(* an interrupt falls on the same instruction in every mode).              *)
HostInvisible == Visible(m) = Visible(ref)

(* The same, but for the scan's line once the game has moved it: the       *)
(* deadline of the new line is counted from the last look at the clock,    *)
(* which the host chooses.                                                 *)
HostInvisibleButLine ==
  [Visible(m) EXCEPT !.intr = @ \ {"VI"}] = [Visible(ref) EXCEPT !.intr = @ \ {"VI"}]
  /\ (~moved => ("VI" \in m.intr) = ("VI" \in ref.intr))

(* A busy bit is up exactly while its transfer is in flight: acknowledging *)
(* an interrupt or starting a transfer over another one never leaves the   *)
(* guest polling a bit nobody will clear, nor clears one too early.        *)
BusyIsInFlight ==
  \A d \in {m, ref} : /\ d.siStatus = d.siBusy
                      /\ ("dma" \in d.piStatus <=> d.piBusy)

(* Between instructions nothing is overdue: a transfer whose time has come *)
(* has ended, and the audio queue and the scan have been looked at.        *)
NothingOverdue ==
  \A d \in {m, ref} : /\ d.piBusy => d.piDoneAt > clock
                      /\ d.siBusy => d.siDoneAt > clock
                      /\ clock > 0 => Due(d.evNext, clock) # 0
                      /\ d.aiNext # NoDeadline => d.aiNext >= d.evNext

(* Every audio buffer the queue took is either still in it or has raised   *)
(* its interrupt, and what plays is the head of the queue.                 *)
BuffersAccounted ==
  \A d \in {m, ref} : /\ d.queued = d.ended + Len(d.fifo)
                      /\ Len(d.fifo) <= 2
                      /\ d.playing = 0 <=> d.fifo = <<>>
                      /\ d.fifo # <<>> => d.playing <= d.fifo[1]

(* No transfer, interrupt or audio buffer is left behind by the way its    *)
(* registers were written (PI, SI, AI and VI together).                    *)
TransfersEnd == BusyIsInFlight /\ NothingOverdue /\ BuffersAccounted
=============================================================================
