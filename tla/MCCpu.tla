------------------------------- MODULE MCCpu -------------------------------
(***************************************************************************)
(* The mechanisms of the VR4300 and of its dynarec, side by side: a        *)
(* behaviour moves one of them, chosen in the initial state.               *)
(***************************************************************************)
EXTENDS GuestClock, CodeCache, RegCache, DataCache, Vr4300, Fpu

VARIABLE focus

\* A jump to page 0, a jump to page 1, a long block that ends in a JR.
SmallCodes == {[to |-> 0, long |-> FALSE], [to |-> 1, long |-> FALSE],
               [to |-> -1, long |-> TRUE]}

Prog4(a, b, d, e) ==
  [i \in 0 .. 3 |-> CASE i = 0 -> a [] i = 1 -> b [] i = 2 -> d [] i = 3 -> e]

SmallProgs == {Prog4("op", "br", "st", "op"), Prog4("br", "ld", "op", "op"),
               Prog4("ei", "op", "brn", "fp"), Prog4("brn", "fp", "di", "ld"),
               Prog4("likelyn", "op", "likely", "ld")}

Machines == {"clock", "code", "regs", "data", "vr4300", "fpu"}

Others(f) ==
  /\ f # "clock" => UNCHANGED clockVars
  /\ f # "code" => UNCHANGED codeVars
  /\ f # "regs" => UNCHANGED rcVars
  /\ f # "data" => UNCHANGED dcVars
  /\ f # "vr4300" => UNCHANGED vrVars
  /\ f # "fpu" => UNCHANGED fpuVars

\* The machines that do not move rest in one of their initial states. The pages are alike, so the
\* code that moves starts on page 0; a page that jumps to itself comes with the writes.
CpuInit ==
  /\ focus \in Machines
  /\ ClockInit /\ (focus # "clock" => unmasked /\ per = 0 /\ wired = 0 /\ compare = 4 /\ due = 6)
  /\ CodeInit /\ pc = <<"k", 0>> /\ (\A p \in Pages : ram[p].to # p)
  /\ (focus # "code" => \A p \in Pages : ram[p].long)
  /\ RcInit /\ DcInit
  /\ VrInit /\ (focus # "vr4300" => /\ prog = Prog4("op", "br", "st", "op") /\ c.ie
                                   /\ ~c.erl /\ c.ksu = "user")
  /\ FpuInit /\ (focus # "fpu" => fpLeft = -1)

CpuNext ==
  /\ UNCHANGED focus
  /\ Others(focus)
  /\ \/ focus = "clock" /\ ClockNext
     \/ focus = "code" /\ CodeNext
     \/ focus = "regs" /\ RcNext
     \/ focus = "data" /\ DcNext
     \/ focus = "vr4300" /\ VrNext
     \/ focus = "fpu" /\ FpuNext

Spec == CpuInit /\ [][CpuNext]_<<clockVars, codeVars, rcVars, dcVars, vrVars, fpuVars, focus>>

-----------------------------------------------------------------------------
\* Compiled, chained, skipped or interpreted, the guest's clock counts the same instructions: Count,
\* the deadlines and what a block was allowed to run before one (retire, MidBlockCount, permission).
TimeKept == focus = "clock" => ClocksAgree /\ NothingSwallowed

\* Exceptions are precise (EPC, BD, the slot's branch re-run), an interrupt that was opened is taken
\* before the next instruction that could tell, and cached translations follow the TLB's.
TrapsPrecise ==
  /\ PreciseExceptions
  /\ [](focus = "vr4300" => OpenedIsTaken /\ MapIsKnown)

\* The fast paths of the FPU give the results and flags of the slow one, and what a block believes
\* of the FPU's mode is so.
FpExact == focus = "fpu" => FastIsSlow /\ KnownIsTrue
=============================================================================
