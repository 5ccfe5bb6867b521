----------------------------- MODULE GuestClock -----------------------------
(* The guest's clocks as the dynarec keeps them: Count and the clock of the  *)
(* deadlines are charged in one go when a chain of linked blocks is left,    *)
(* and the interpreter charges them instruction by instruction.  A chain is  *)
(* only allowed to run where nobody can tell the two apart: the permission   *)
(* of jitReenterProceed must not reach Compare, a deadline or the end of the *)
(* caller's window, whatever the instructions of the chain stall for.        *)
(*                                                                           *)
(* 1/256 of a tick is 1/One here and Count wraps at Wrap instead of 2^32.    *)
EXTENDS Integers

CONSTANTS
  One,          \* fractions of a tick: 256 in the code
  Cpi,          \* cpi256: fractions of a tick per instruction, at most One
  Wrap,         \* Count is 32 bits wide in the code
  StallMax,     \* stallPerOpMax() with the costs of the caches on
  BlockMax,     \* instructions of a block (64)
  ClockOps      \* bound on the instructions of a behaviour

ASSUME ClockAssumption ==
  /\ One \in Nat \ {0} /\ One % 2 = 0
  /\ Cpi \in 1 .. One
  /\ Wrap \in Nat \ {0} /\ StallMax \in Nat
  /\ BlockMax \in Nat \ {0} /\ ClockOps \in Nat

VARIABLES
  per,      \* stallPerOpMax(): 0 when every cost is off
  interp,      \* the interpreter: [count, frac, timer, guest, rem, random]
  jit,      \* the dynarec, as charged so far: the same fields
  chain,    \* [on, pending, idx, left, guard, stall, window]: the running chain
  unmasked, \* Status lets the timer interrupt in: IE and IM7 set, EXL and ERL clear
  compare, due, wired, steps

clockVars == <<per, interp, jit, chain, unmasked, compare, due, wired, steps>>

CostsOn == per # 0

-----------------------------------------------------------------------------
(* Charging.                                                                 *)

\* countAdd: Count moved by ct crosses Compare.
Crosses(old, ct) == ct > 0 /\ (compare - old - 1) % Wrap < ct

\* One step of Random: 31 after Wired, else one less, in six bits.
RandomStep(r) == IF r = wired THEN 31 ELSE (r - 1) % 64

\* randomAdvance: p steps of Random in closed form.
randomAdvance(r, p) ==
  LET d == (r - wired) % 64
      n == ((31 - wired) % 64) + 1
  IN IF p <= d THEN (r - p) % 64
     ELSE (wired + ((n - ((p - d) % n)) % n)) % 64

\* The ticks of ops instructions that stalled for s cycles in all.
Ticks(c, ops, s) == (c.frac + ops * Cpi + s * (One \div 2)) \div One

\* countTicks and countAdd, with the guest clock the stalls also move.
countTicks(c, ops, s) ==
  LET a == c.frac + ops * Cpi + s * (One \div 2)
      b == c.rem + s * (One \div 2)
  IN [count  |-> (c.count + (a \div One)) % Wrap,
      frac   |-> a % One,
      timer  |-> c.timer \/ Crosses(c.count, a \div One),
      guest  |-> c.guest + ops + (b \div Cpi),
      rem    |-> b % Cpi,
      random |-> c.random]

\* The upper bounds the guards compare with, and their inverses.  s is what is
\* left in stallCycles: nothing, wherever the guards ask, for countTicks has just
\* emptied it.
countTicksMax(ops, s) ==
  IF ~CostsOn THEN ops ELSE ops + (ops * per + s + 1) \div 2

guestOpsMax(ops) ==
  IF ~CostsOn THEN ops
  ELSE ops + ((ops * per * (One \div 2) + Cpi - 1) \div Cpi) + 1

opsForTicks(t) == IF CostsOn THEN t \div (1 + (per + 1) \div 2) ELSE t

opsForGuest(g) ==
  IF ~CostsOn THEN g
  ELSE IF g > 1 THEN (g - 1) \div (1 + ((per * (One \div 2) + Cpi - 1) \div Cpi)) ELSE 0

-----------------------------------------------------------------------------
NoChain == [on |-> FALSE, pending |-> 0, idx |-> 0, left |-> 0, guard |-> 0,
            stall |-> 0, window |-> 0]

\* The clock of the deadlines in the middle of a chain: what is charged, what is
\* pending and the stalls not yet converted.
cartNow == jit.guest + chain.pending + chain.idx
             + ((jit.rem + chain.stall * (One \div 2)) \div Cpi)

\* The value an MFC0 Count reads inside a block.
MidBlockLate == (jit.count + Ticks(jit, chain.idx, chain.stall)) % Wrap

MidBlockCount ==
  (jit.count + Ticks(jit, chain.pending + chain.idx, chain.stall)) % Wrap

\* ops instructions that stalled for s cycles are charged to c in one go.
Charged(c, ops, s) ==
  [countTicks(c, ops, s) EXCEPT !.random = randomAdvance(c.random, ops)]

\* jitReenterProceed for a block of k instructions, over the clock c with
\* nothing pending: refused, or the permission left for the blocks behind it.
Refused(c, k, w) ==
  \/ k > w
  \/ c.timer /\ unmasked
  \/ (compare - c.count) % Wrap <= countTicksMax(k, 0)
  \/ due - c.guest <= guestOpsMax(k)

Permission(c, k, w) ==
  LET slack == opsForTicks(((compare - c.count) % Wrap) - countTicksMax(k, 0) - 1)
      reach == opsForGuest((due - c.guest) - guestOpsMax(k) - 1)
      low   == IF reach < slack THEN reach ELSE slack
  IN IF w - k < low THEN w - k ELSE low

-----------------------------------------------------------------------------
ClockInit ==
  /\ per \in {0, StallMax} /\ unmasked \in BOOLEAN
  /\ wired \in {0, 30, 40}
  /\ compare \in 4 .. Wrap - 1 /\ due \in {6, 11, 40}
  /\ interp = [count |-> 0, frac |-> 0, timer |-> FALSE, guest |-> 0, rem |-> 0, random |-> 31]
  /\ jit = interp
  /\ chain = NoChain /\ steps = 0

\* step(): the interpreter executes one instruction, the dynarec having declined.
InterpStep ==
  /\ ~chain.on /\ steps < ClockOps
  /\ \E s \in {0, per} :
       LET c == [countTicks(interp, 1, s) EXCEPT !.random = RandomStep(interp.random)]
       IN interp' = c /\ jit' = c
  /\ steps' = steps + 1
  /\ UNCHANGED <<per, chain, unmasked, compare, due, wired>>

\* jitTryBlock takes a block of k instructions for a window of w.
Dispatch ==
  /\ ~chain.on
  /\ \E k \in 1 .. BlockMax, w \in {BlockMax, 3 * BlockMax} :
       /\ steps + k <= ClockOps
       /\ ~Refused(jit, k, w)
       /\ chain' = [NoChain EXCEPT !.on = TRUE, !.left = k, !.window = w,
                                   !.guard = Permission(jit, k, w)]
  /\ UNCHANGED <<per, interp, jit, unmasked, compare, due, wired, steps>>

\* One instruction of the block: only the interpreter's clock moves.
BlockOp ==
  /\ chain.on /\ chain.left > 0
  /\ \E s \in {0, per} :
       /\ interp' = [countTicks(interp, 1, s) EXCEPT !.random = RandomStep(interp.random)]
       /\ chain' = [chain EXCEPT !.idx = @ + 1, !.left = @ - 1, !.stall = @ + s]
  /\ steps' = steps + 1
  /\ UNCHANGED <<per, jit, unmasked, compare, due, wired>>

\* The linked jump: the block's instructions go to jitPending and the next block
\* enters by the fast prologue, within the permission.
LinkFast ==
  /\ chain.on /\ chain.left = 0
  /\ \E k \in 1 .. BlockMax :
       /\ steps + k <= ClockOps
       /\ k <= chain.guard
       /\ ~jit.timer
       /\ chain' = [chain EXCEPT !.pending = @ + chain.idx, !.idx = 0, !.left = k,
                                 !.guard = @ - k]
  /\ UNCHANGED <<per, interp, jit, unmasked, compare, due, wired, steps>>

\* No permission, or the timer is latched: the trampoline charges what is pending
\* and asks again.
LinkSlow ==
  /\ chain.on /\ chain.left = 0
  /\ \E k \in 1 .. BlockMax :
       /\ steps + k <= ClockOps
       /\ k > chain.guard \/ jit.timer
       /\ LET p == chain.pending + chain.idx
              c == Charged(jit, p, chain.stall)
              w == IF p >= chain.window THEN 0 ELSE chain.window - p
          IN /\ jit' = c
             /\ chain' = IF Refused(c, k, w) THEN NoChain
                         ELSE [NoChain EXCEPT !.on = TRUE, !.left = k, !.window = w,
                                              !.guard = Permission(c, k, w)]
  /\ UNCHANGED <<per, interp, unmasked, compare, due, wired, steps>>

\* The block returns to the driver, at its end or where an instruction bailed:
\* its own instructions are charged first, with every stall of the chain, and
\* then the ones the links left pending.
LeaveChain ==
  /\ chain.on
  /\ jit' = Charged(Charged(jit, chain.idx, chain.stall), chain.pending, 0)
  /\ chain' = NoChain
  /\ UNCHANGED <<per, interp, unmasked, compare, due, wired, steps>>

ClockNext == InterpStep \/ Dispatch \/ BlockOp \/ LinkFast \/ LinkSlow \/ LeaveChain

-----------------------------------------------------------------------------
(* Both engines are the same machine: outside a chain every clock of the     *)
(* dynarec is the interpreter's, Random's closed form included, and inside   *)
(* it an MFC0 Count reads what the interpreter's Count is at that very       *)
(* instruction (emitCop0, countTicks, randomAdvance).                        *)
ClocksAgree ==
  /\ ~chain.on => jit = interp
  /\ chain.on => MidBlockCount = interp.count /\ cartNow = interp.guest

(* No chain runs past an instant the system has to look at: while it runs,   *)
(* Compare has not been crossed, no deadline has been reached and the        *)
(* window of the caller is not exceeded, whatever its instructions stalled   *)
(* for (jitReenterProceed's permission and its inverses).                    *)
NothingSwallowed ==
  chain.on =>
    /\ interp.timer = jit.timer
    /\ interp.guest < due
    /\ chain.pending + chain.idx + chain.left <= chain.window
=============================================================================
