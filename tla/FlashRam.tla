------------------------------ MODULE FlashRam ------------------------------
(***************************************************************************)
(* The FlashRAM chip of a cartridge (Memory::flashCommand, saveRead,       *)
(* saveWrite and the save branch of piDma), driven by the library of the   *)
(* game.  An address counts half pages: the chip the emulator announces is *)
(* an old one, which is asked for page n at n half pages.                  *)
(***************************************************************************)
EXTENDS Integers, FiniteSets

CONSTANTS
  FlashPages,     \* pages of the array
  SectorPages,    \* pages that one erase command covers
  FlashData       \* contents of a page, Erased aside

ASSUME FlashAssumption == FlashPages \in Nat \ {0} /\ SectorPages \in Nat \ {0}

Erased == 255
Chip == -1        \* flashErasePage = ~0: the whole chip
Pages == 0 .. FlashPages - 1
Contents == FlashData \union {Erased}

VARIABLES
  flash,     \* the chip: array, mode, status register, erase page, buffer
  dirty,     \* Memory::saveDirty
  image,     \* what the save file holds: the array at power-on
  lib,       \* the library: what it does and how far it is
  promised   \* what the library told the game each page holds

flashVars == <<flash, dirty, image, lib, promised>>

LibIdle == [op |-> "idle", page |-> 0, datum |-> Erased, count |-> 0]

FlashInit ==
  /\ image \in [Pages -> Contents]
  /\ flash = [array |-> image, mode |-> "Read", sr |-> {}, erase |-> Chip, buf |-> Erased]
  /\ dirty = FALSE
  /\ lib = LibIdle
  /\ promised = image

----------------------------------------------------------------------------
(* The chip.                                                               *)

\* Memory::flashCommand, one operator per command byte.
SetSr(f, clr, set) == [f EXCEPT !.sr = (@ \ clr) \union set]
ReadId(f)       == SetSr([f EXCEPT !.mode = "Status"], {}, {"programming"})
ReadMode(f)     == [f EXCEPT !.mode = "Read"]
StatusMode(f)   == [f EXCEPT !.mode = "Status"]
SelectErase(f, p) == [f EXCEPT !.erase = p]
SectorOf(p)     == (p \div SectorPages) * SectorPages
ToErase(f) ==
  IF f.erase = Chip THEN Pages
  ELSE {p \in Pages : p >= SectorOf(f.erase) /\ p < SectorOf(f.erase) + SectorPages}
Erase(f) ==
  SetSr([f EXCEPT !.array = [p \in Pages |-> IF p \in ToErase(f) THEN Erased ELSE @[p]],
                  !.mode = "Status"], {"erasing"}, {"erased"})
WriteMode(f) == [f EXCEPT !.mode = "Write"]
Program(f, p) ==
  SetSr([f EXCEPT !.array = IF p \in Pages THEN [@ EXCEPT ![p] = f.buf] ELSE @,
                  !.mode = "Status"], {"programming"}, {"programmed"})
\* Memory::saveWrite below the command register: in status mode the first word
\* is the status register and the rest nothing, in every other the page buffer.
StoreBelow(f, offset, bits, datum) ==
  IF f.mode # "Status" THEN [f EXCEPT !.buf = datum]
  ELSE IF offset < 4 THEN [f EXCEPT !.sr = bits] ELSE f

flashArrayDirect(address) == address
\* Memory::flashArrayOff: the start of a burst goes through the shifted lines.
flashArrayOff(address) == 2 * address
\* The burst of piDma in read mode: the start is wired, the rest is linear.
ReadBurst(f, address, n) ==
  [i \in 0 .. n - 1 |->
     LET p == flashArrayOff(address) \div 2 + i IN IF p \in Pages THEN f.array[p] ELSE 0]

----------------------------------------------------------------------------
(* The library (external), a command or a transfer at a time.              *)

Begin(op) ==
  /\ lib.op = "idle"
  /\ \E p \in Pages, d \in FlashData, n \in 1 .. 2 :
       lib' = [op |-> op, page |-> p, datum |-> d, count |-> n]
  /\ UNCHANGED <<flash, dirty, image, promised>>

Goto(op) == lib' = [lib EXCEPT !.op = op]
Command(at, f, next) ==
  lib.op = at /\ flash' = f /\ Goto(next) /\ UNCHANGED <<dirty, image, promised>>

EraseSelect == Command("erase", SelectErase(flash, lib.page), "erase_go")
EraseAll    == Command("erase_chip", SelectErase(flash, Chip), "erase_go")
EraseGo ==
  /\ lib.op = "erase_go" /\ flash' = Erase(flash) /\ dirty' = TRUE /\ Goto("erase_poll")
  /\ promised' = [p \in Pages |-> IF p \in ToErase(flash) THEN Erased ELSE promised[p]]
  /\ UNCHANGED image

WriteOpen == Command("write", WriteMode(flash), "write_data")
WriteData == Command("write_data", StoreBelow(flash, 0, {}, lib.datum), "write_go")
WriteGo ==
  /\ lib.op = "write_go" /\ flash' = Program(flash, lib.page) /\ dirty' = TRUE
  /\ Goto("write_poll") /\ promised' = [promised EXCEPT ![lib.page] = lib.datum]
  /\ UNCHANGED image

\* The poll reads the status window; an answer that is not final is asked again.
PollDone ==
  /\ \/ lib.op = "erase_poll" /\ "erasing" \notin flash.sr
     \/ lib.op = "write_poll" /\ "programming" \notin flash.sr
  /\ flash.mode # "Read"
  /\ Goto("clear") /\ UNCHANGED <<flash, dirty, image, promised>>
ClearMode  == Command("clear", StatusMode(flash), "clear_sr")
ClearStore == Command("clear_sr", StoreBelow(flash, 0, {}, Erased), "idle")

AskId   == Command("id", ReadId(flash), "clear")
ReadSet == Command("read", ReadMode(flash), "read_dma")
ReadDma == Command("read_dma", flash, "idle")

FlashNext ==
  \/ \E op \in {"erase", "erase_chip", "write", "id", "read"} : Begin(op)
  \/ EraseSelect \/ EraseAll \/ EraseGo
  \/ WriteOpen \/ WriteData \/ WriteGo
  \/ PollDone \/ ClearMode \/ ClearStore \/ AskId \/ ReadSet \/ ReadDma

----------------------------------------------------------------------------
\* The burst the library reads holds what the library was told to keep in
\* those pages, zeros beyond the end, after every sequence of erases, writes
\* and identifications.
ReadsBack ==
  lib.op = "read_dma" =>
    \A i \in 0 .. lib.count - 1 :
      ReadBurst(flash, lib.page, lib.count)[i] =
        IF lib.page + i \in Pages THEN promised[lib.page + i] ELSE 0

\* The poll that follows an erase or a program reads the status register, not
\* the array, and finds the operation finished: no poll of the library spins.
PollEnds ==
  lib.op \in {"erase_poll", "write_poll"} =>
    /\ flash.mode # "Read"
    /\ (IF lib.op = "erase_poll" THEN "erased" ELSE "programmed") \in flash.sr
    /\ (IF lib.op = "erase_poll" THEN "erasing" ELSE "programming") \notin flash.sr

\* An array that no longer is what the save file holds is known to be dirty, so
\* the way out of the emulator writes it.
ChangesAreDirty == flash.array # image => dirty

\* FlashRAM is a memory to the library that drives it: what was written is read, no poll spins, and
\* the way out knows what to save.
FlashKeeps == ReadsBack /\ PollEnds /\ ChangesAreDirty
=============================================================================
