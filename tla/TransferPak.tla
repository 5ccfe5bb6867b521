---------------------------- MODULE TransferPak ----------------------------
(***************************************************************************)
(* A Game Boy cartridge behind a Transfer Pak: the registers of the pak    *)
(* (the accessory branch of Memory::pifProcessJoybus and tpakSync) and the *)
(* cartridge with its bank registers, its battery RAM and the clock of an  *)
(* MBC3 (GbCart).  The user changes cartridges while the game runs.  The   *)
(* copy that a latch takes for the game to read, and a register set to     *)
(* what its bits hold and no clock shows (60 seconds), are left out.       *)
(***************************************************************************)
EXTENDS Integers, Sequences

CONSTANTS
  Carts,        \* cartridges the user has
  GbBanks,      \* banks of RAM of one
  GbData,       \* contents of a bank
  Minute, Hour, Day, Days,   \* units of the clock: 60, 60, 24 and 512
  MaxGb         \* bound: seconds of the host's clock

NoCart == "none"

ASSUME GbAssumption ==
  {Minute, Hour, Day, Days} \subseteq Nat \ {0} /\ MaxGb \in Nat /\ NoCart \notin Carts

GbBankSet == 0 .. GbBanks - 1
FreshRegs(t) == [ramOn |-> FALSE, bank |-> 0, sec |-> 0, min |-> 0, hour |-> 0,
                 day |-> 0, carry |-> FALSE, halt |-> FALSE, base |-> t]
NoSav == [exists |-> FALSE, ram |-> [b \in GbBankSet |-> 0], regs |-> FreshRegs(0), total |-> 0, wrapped |-> FALSE]

VARIABLES
  slot,      \* rt::tpakRom and tpakGen: what the user put in, and how often
  tp,        \* PadPort::TpakRegs and the generation the pak has seen
  gb,        \* the cartridge in the pak: its registers, RAM, ramDirty
  sav,       \* the .sav file of each cartridge
  gbWall,    \* the host's clock
  wrote      \* ghost: the last datum the game stored in each bank of a cartridge

tpakVars == <<slot, tp, gb, sav, gbWall, wrote>>

TpakInit ==
  /\ slot = [cart |-> NoCart, gen |-> 0]
  /\ tp = [power |-> FALSE, cartOn |-> FALSE, pull |-> FALSE, rst |-> FALSE, gen |-> 0]
  /\ gb = [cart |-> NoCart, ram |-> NoSav.ram, dirty |-> FALSE, regs |-> FreshRegs(0),
           total |-> 0, wrapped |-> FALSE]
  /\ sav = [c \in Carts |-> NoSav]
  /\ gbWall = 0
  /\ wrote = [c \in Carts |-> NoSav.ram]

----------------------------------------------------------------------------
(* GbCart.  total counts the seconds the clock ran, for reference.         *)

rtcSync(r) ==
  LET dt == gbWall - r.base
      s == r.sec + dt
      m == r.min + s \div Minute
      h == r.hour + m \div Hour
      d == r.day + h \div Day
  IN IF dt <= 0 \/ r.halt THEN [r EXCEPT !.base = gbWall]
     ELSE [r EXCEPT !.base = gbWall, !.sec = s % Minute, !.min = m % Hour, !.hour = h % Day,
                    !.day = d % Days, !.carry = @ \/ d >= Days]

\* GbCart::flush and load: the clock goes to the file as it is now.
flush ==
  IF gb.cart # NoCart /\ gb.dirty
  THEN [sav EXCEPT ![gb.cart] = [exists |-> TRUE, ram |-> gb.ram, regs |-> rtcSync(gb.regs),
                                 total |-> gb.total, wrapped |-> gb.wrapped]]
  ELSE sav
load(c, files) ==
  [cart |-> c, dirty |-> FALSE,
   ram |-> files[c].ram, total |-> files[c].total, wrapped |-> files[c].wrapped,
   regs |-> IF files[c].exists THEN [files[c].regs EXCEPT !.ramOn = FALSE, !.bank = 0]
            ELSE FreshRegs(gbWall)]
clear == [cart |-> NoCart, ram |-> NoSav.ram, dirty |-> FALSE, regs |-> FreshRegs(0),
          total |-> 0, wrapped |-> FALSE]

\* Memory::tpakSync.
Synced == tp.gen = slot.gen
tpakSyncReg ==
  IF Synced THEN tp
  ELSE [tp EXCEPT !.gen = slot.gen, !.pull = (gb.cart # NoCart), !.cartOn = FALSE]
tpakSyncCart == IF Synced THEN gb ELSE IF slot.cart = NoCart THEN clear ELSE load(slot.cart, flush)
tpakSyncFiles == IF Synced THEN sav ELSE flush

\* The user picks another cartridge in the menu, from one that is in place.
UserSwaps(c) ==
  /\ c # slot.cart /\ Synced
  /\ slot' = [cart |-> c, gen |-> 1 - slot.gen]
  /\ UNCHANGED <<tp, gb, sav, gbWall, wrote>>

\* Every access of the pak collects the change first, then answers.
Collected(t, g) == tp' = t /\ gb' = g /\ sav' = tpakSyncFiles

SetPower(on) ==
  /\ Collected([tpakSyncReg EXCEPT !.power = on], tpakSyncCart)
  /\ UNCHANGED <<slot, gbWall, wrote>>
SetCartPower(on) ==
  /\ Collected(IF tp.power THEN [tpakSyncReg EXCEPT !.cartOn = on, !.rst = TRUE] ELSE tpakSyncReg,
               tpakSyncCart)
  /\ UNCHANGED <<slot, gbWall, wrote>>
\* The status: GBCART_PULL and the reset flag are delivered once.
ReadStatus ==
  LET loaded == tpakSyncCart.cart # NoCart IN
  /\ Collected(IF tp.power /\ loaded THEN [tpakSyncReg EXCEPT !.pull = FALSE, !.rst = FALSE]
               ELSE tpakSyncReg, tpakSyncCart)
  /\ UNCHANGED <<slot, gbWall, wrote>>

\* The window on the Game Boy bus: GbCart::write with an MBC3.
Window(g, w) ==
  /\ tp.power /\ tpakSyncCart.cart # NoCart
  /\ Collected(tpakSyncReg, g) /\ wrote' = w
  /\ UNCHANGED <<slot, gbWall>>
EnableRam(on) == Window([tpakSyncCart EXCEPT !.regs.ramOn = on], wrote)
SelectBank(b) == Window([tpakSyncCart EXCEPT !.regs.bank = b], wrote)
WriteRam(d) ==
  LET g == tpakSyncCart IN
  Window(IF g.regs.ramOn THEN [g EXCEPT !.ram[g.regs.bank] = d, !.dirty = TRUE] ELSE g,
         IF g.regs.ramOn /\ g.cart # NoCart THEN [wrote EXCEPT ![g.cart][g.regs.bank] = d] ELSE wrote)
\* Latching syncs the clock.
Latch == Window([tpakSyncCart EXCEPT !.regs = rtcSync(@)], wrote)

\* The seconds a clock shows, and the digits of so many seconds.
Elapsed(r) == ((r.day * Day + r.hour) * Hour + r.min) * Minute + r.sec
Digits(t) == [sec |-> t % Minute, min |-> (t \div Minute) % Hour,
              hour |-> ((t \div Minute) \div Hour) % Day, day |-> ((t \div Minute) \div Hour) \div Day]

\* A register of the clock set by the game, to a value such a register shows: S, M, H or, of the
\* days, DL.  Of the reference only that digit changes.
Registers == {"S", "M", "H", "D"}
Shown(reg) == 0 .. (CASE reg = "S" -> Minute [] reg = "M" -> Hour [] reg = "H" -> Day
                      [] reg = "D" -> Days) - 1
SetDigit(x, reg, v) ==
  [x EXCEPT !.sec = IF reg = "S" THEN v ELSE @, !.min = IF reg = "M" THEN v ELSE @,
            !.hour = IF reg = "H" THEN v ELSE @, !.day = IF reg = "D" THEN v ELSE @]
WriteClock(reg, v) ==
  LET g == tpakSyncCart IN
  Window(IF g.regs.ramOn
         THEN [g EXCEPT !.regs = SetDigit(rtcSync(g.regs), reg, v), !.dirty = TRUE,
                        !.total = Elapsed(SetDigit(Digits(g.total), reg, v))]
         ELSE g, wrote)
\* DH holds the high bit of the days, the carry, and the bit that stops the clock.
DHOnto(r, on, over, d) == [r EXCEPT !.day = d, !.carry = over, !.halt = on]
SetDH(g, r) ==
  [g EXCEPT !.regs = r, !.dirty = TRUE, !.wrapped = r.carry,
            !.total = Elapsed(SetDigit(Digits(g.total), "D", r.day))]
WriteDHUnsynced(on, over, d) ==
  LET g == tpakSyncCart IN
  Window(IF g.regs.ramOn THEN SetDH(g, DHOnto(g.regs, on, over, d)) ELSE g, wrote)
WriteDH(on, over, d) ==
  LET g == tpakSyncCart IN
  Window(IF g.regs.ramOn THEN SetDH(g, DHOnto(rtcSync(g.regs), on, over, d)) ELSE g, wrote)

\* A second goes by for every clock, whether its cartridge is in or not.
GbSecond ==
  /\ gbWall < MaxGb /\ gbWall' = gbWall + 1
  /\ LET Ran(c) == IF c.regs.halt THEN c
                   ELSE [c EXCEPT !.total = (@ + 1) % (Minute * Hour * Day * Days),
                                  !.wrapped = @ \/ c.total + 1 = Minute * Hour * Day * Days]
     IN /\ gb' = IF gb.cart = NoCart THEN gb ELSE Ran(gb)
        /\ sav' = [c \in Carts |-> IF sav[c].exists THEN Ran(sav[c]) ELSE sav[c]]
  /\ UNCHANGED <<slot, tp, wrote>>

TpakNext ==
  \/ \E c \in Carts \union {NoCart} : UserSwaps(c)
  \/ \E on \in BOOLEAN : SetPower(on) \/ SetCartPower(on) \/ EnableRam(on)
  \/ \E on, over \in BOOLEAN, d \in Shown("D") : WriteDH(on, over, d)
  \/ \E reg \in Registers : \E v \in Shown(reg) : WriteClock(reg, v)
  \/ ReadStatus \/ Latch \/ GbSecond
  \/ \E b \in GbBankSet : SelectBank(b)
  \/ \E d \in GbData : WriteRam(d)

----------------------------------------------------------------------------
\* Whatever the moments at which the clock is brought up to date, latched, set, stopped, saved
\* with the cartridge and loaded again, it shows the time it was set to and the
\* seconds it ran since, and its carry says that the days ran over.
GbClockExact ==
  LET r == rtcSync(gb.regs) IN
  gb.cart # NoCart => Elapsed(r) = gb.total /\ r.carry = gb.wrapped

\* The RAM of the cartridge in the pak is what the game last wrote in it, and
\* that of a cartridge that was taken out is in its file.
GbRamKept ==
  /\ gb.cart # NoCart => gb.ram = wrote[gb.cart]
  /\ \A c \in Carts \ {gb.cart} : sav[c].ram = wrote[c]
=============================================================================
