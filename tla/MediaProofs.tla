---------------------------- MODULE MediaProofs ----------------------------
(***************************************************************************)
(* The media a game and its player keep things on, for every size: what    *)
(* FlashRAM, the save files and a Game Boy cartridge were given is there,  *)
(* the clocks show the time that went by, and injected buttons and the     *)
(* polls of a take reach the game as they were made.                       *)
(***************************************************************************)
EXTENDS MCMedia, SequenceTheorems, TLAPS

(***************************************************************************)
(* FlashRAM.                                                               *)
(***************************************************************************)

FlashSpec == FlashInit /\ [][FlashNext]_flashVars

LibOps == {"idle", "erase", "erase_chip", "erase_go", "erase_poll", "write", "write_data",
           "write_go", "write_poll", "clear", "clear_sr", "id", "read", "read_dma"}

ChipStates ==
  [array : [Pages -> Contents], mode : {"Read", "Status", "Write"},
   sr : SUBSET {"erasing", "erased", "programming", "programmed"},
   erase : Pages \cup {Chip}, buf : Contents]

\* The chip and its library, typed.
FlashTyped ==
  /\ image \in [Pages -> Contents] /\ promised \in [Pages -> Contents]
  /\ flash \in ChipStates
  /\ dirty \in BOOLEAN
  /\ lib \in [op : LibOps, page : Pages, datum : Contents, count : 0 .. 2]

\* Which window the chip shows at each step of the library: a program takes the
\* buffer only if the store before it did not go to the status register.
WindowsOpen ==
  /\ lib.op \in {"write_data", "write_go"} => flash.mode = "Write"
  /\ lib.op = "write_go" => flash.buf = lib.datum
  /\ lib.op = "clear_sr" => flash.mode = "Status"

\* The array is what the library told the game.
ArrayKept == flash.array = promised

FlashInv == FlashTyped /\ WindowsOpen /\ ArrayKept /\ PollEnds /\ ChangesAreDirty

----------------------------------------------------------------------------
\* What the commands leave of the chip.
LEMMA EraseKeeps ==
  ASSUME FlashTyped
  PROVE  /\ Erase(flash).array
              = [p \in Pages |-> IF p \in ToErase(flash) THEN Erased ELSE flash.array[p]]
         /\ Erase(flash).mode = "Status"
         /\ Erase(flash).sr = (flash.sr \ {"erasing"}) \cup {"erased"}
         /\ Erase(flash) \in ChipStates
<1> DEFINE ar == [p \in Pages |-> IF p \in ToErase(flash) THEN Erased ELSE flash.array[p]]
<1>1. ar \in [Pages -> Contents]
  BY DEF FlashTyped, ChipStates, Contents
<1>2. Erase(flash) = SetSr([flash EXCEPT !.array = ar, !.mode = "Status"], {"erasing"}, {"erased"})
  BY DEF Erase
<1> HIDE DEF ar
<1>3. /\ Erase(flash).array = ar /\ Erase(flash).mode = "Status"
      /\ Erase(flash).sr = (flash.sr \ {"erasing"}) \cup {"erased"}
      /\ Erase(flash) \in ChipStates
  BY ZenonT(60), <1>1, <1>2 DEF FlashTyped, ChipStates, SetSr
<1> QED BY <1>3 DEF ar

\* Programming a page (flashCommand 0xA5) writes that page from the buffer and no other.
LEMMA ProgramKeeps ==
  ASSUME FlashTyped
  PROVE  /\ Program(flash, lib.page).array = [flash.array EXCEPT ![lib.page] = flash.buf]
         /\ Program(flash, lib.page).mode = "Status"
         /\ Program(flash, lib.page).sr = (flash.sr \ {"programming"}) \cup {"programmed"}
         /\ Program(flash, lib.page) \in ChipStates
<1> DEFINE ar == [flash.array EXCEPT ![lib.page] = flash.buf]
<1>1. ar \in [Pages -> Contents] /\ lib.page \in Pages
  BY DEF FlashTyped, ChipStates
<1>2. Program(flash, lib.page)
        = SetSr([flash EXCEPT !.array = ar, !.mode = "Status"], {"programming"}, {"programmed"})
  BY <1>1 DEF Program
<1> HIDE DEF ar
<1> DEFINE bits == (flash.sr \ {"programming"}) \cup {"programmed"}
<1>3. bits \in SUBSET {"erasing", "erased", "programming", "programmed"} /\ flash \in ChipStates
  BY DEF FlashTyped, ChipStates
<1>4. Program(flash, lib.page) = [flash EXCEPT !.array = ar, !.mode = "Status", !.sr = bits]
  BY <1>2, <1>3 DEF ChipStates, SetSr
<1> HIDE DEF bits
<1>5. /\ Program(flash, lib.page).array = ar /\ Program(flash, lib.page).mode = "Status"
      /\ Program(flash, lib.page).sr = bits
      /\ Program(flash, lib.page) \in ChipStates
  BY <1>1, <1>3, <1>4 DEF ChipStates
<1> QED BY <1>5 DEF ar, bits

\* A blank chip with an idle library is a start.
LEMMA FlashStart == FlashInit => FlashInv
<1> SUFFICES ASSUME FlashInit PROVE FlashInv
  OBVIOUS
<1>1. 0 \in Pages /\ Erased \in Contents /\ LibIdle.op = "idle"
  BY FlashAssumption DEF Pages, Contents, LibIdle
<1>2. LibIdle \in [op : LibOps, page : Pages, datum : Contents, count : 0 .. 2]
  BY <1>1 DEF LibIdle, LibOps
<1>3. flash \in ChipStates
  BY <1>1 DEF FlashInit, ChipStates
<1>4. FlashTyped
  BY <1>2, <1>3 DEF FlashInit, FlashTyped
<1>5. WindowsOpen /\ PollEnds
  BY <1>1 DEF FlashInit, WindowsOpen, PollEnds
<1> QED BY <1>4, <1>5 DEF FlashInit, FlashInv, ArrayKept, ChangesAreDirty

\* Every command of the library and every answer of the chip keeps the invariant.
LEMMA FlashStep == FlashInv /\ [FlashNext]_flashVars => FlashInv'
<1> SUFFICES ASSUME FlashInv, [FlashNext]_flashVars PROVE FlashInv'
  OBVIOUS
<1> USE DEF FlashInv
<1>1. ASSUME NEW op \in {"erase", "erase_chip", "write", "id", "read"}, Begin(op)
      PROVE  FlashInv'
  BY <1>1 DEF Begin, FlashTyped, ChipStates, WindowsOpen, ArrayKept, PollEnds, ChangesAreDirty, LibOps,
              Contents
<1>2. CASE EraseSelect
  BY <1>2 DEF EraseSelect, Command, Goto, SelectErase, FlashTyped, ChipStates, WindowsOpen, ArrayKept,
              PollEnds, ChangesAreDirty, LibOps
<1>3. CASE EraseAll
  BY <1>3 DEF EraseAll, Command, Goto, SelectErase, FlashTyped, ChipStates, WindowsOpen, ArrayKept,
              PollEnds, ChangesAreDirty, LibOps
<1>4. CASE EraseGo
  <2>1. /\ flash' = Erase(flash) /\ dirty' = TRUE /\ lib' = [lib EXCEPT !.op = "erase_poll"]
        /\ promised' = [p \in Pages |-> IF p \in ToErase(flash) THEN Erased ELSE promised[p]]
        /\ image' = image
    BY <1>4 DEF EraseGo, Goto
  <2>2. flash'.array = promised'
    BY <2>1, EraseKeeps DEF ArrayKept
  <2>3. promised' \in [Pages -> Contents]
    BY <2>1 DEF FlashTyped, Contents
  <2>4. FlashTyped'
    BY <2>1, <2>2, <2>3, EraseKeeps DEF FlashTyped, LibOps, ChipStates
  <2>5. lib'.op = "erase_poll"
    BY <2>1 DEF FlashTyped
  <2>6. PollEnds'
    BY <2>1, <2>5, EraseKeeps DEF PollEnds
  <2> QED BY <2>1, <2>2, <2>4, <2>5, <2>6 DEF WindowsOpen, ArrayKept, ChangesAreDirty
<1>5. CASE WriteOpen
  BY <1>5 DEF WriteOpen, Command, Goto, WriteMode, FlashTyped, ChipStates, WindowsOpen, ArrayKept,
              PollEnds, ChangesAreDirty, LibOps
<1>6. CASE WriteData
  BY <1>6 DEF WriteData, Command, Goto, StoreBelow, FlashTyped, ChipStates, WindowsOpen, ArrayKept,
              PollEnds, ChangesAreDirty, LibOps
<1>7. CASE WriteGo
  <2>1. /\ flash' = Program(flash, lib.page) /\ dirty' = TRUE
        /\ lib' = [lib EXCEPT !.op = "write_poll"] /\ lib.op = "write_go"
        /\ promised' = [promised EXCEPT ![lib.page] = lib.datum] /\ image' = image
    BY <1>7 DEF WriteGo, Goto
  <2>2. flash'.array = promised'
    <3>1. flash'.array = [flash.array EXCEPT ![lib.page] = flash.buf]
      BY <2>1, ProgramKeeps
    <3>2. flash.buf = lib.datum /\ flash.array = promised
      BY <2>1 DEF ArrayKept, WindowsOpen
    <3> QED BY <2>1, <3>1, <3>2
  <2>3. promised' \in [Pages -> Contents]
    BY <2>1 DEF FlashTyped
  <2>4. FlashTyped'
    BY <2>1, <2>2, <2>3, ProgramKeeps DEF FlashTyped, LibOps, ChipStates
  <2>5. lib'.op = "write_poll"
    BY <2>1 DEF FlashTyped
  <2>6. PollEnds'
    BY <2>1, <2>5, ProgramKeeps DEF PollEnds
  <2> QED BY <2>1, <2>2, <2>4, <2>5, <2>6 DEF WindowsOpen, ArrayKept, ChangesAreDirty
<1>8. CASE PollDone
  BY <1>8 DEF PollDone, Goto, FlashTyped, ChipStates, WindowsOpen, ArrayKept, PollEnds, ChangesAreDirty,
              LibOps
<1>9. CASE ClearMode
  BY <1>9 DEF ClearMode, Command, Goto, StatusMode, FlashTyped, ChipStates, WindowsOpen, ArrayKept,
              PollEnds, ChangesAreDirty, LibOps
<1>10. CASE ClearStore
  BY <1>10 DEF ClearStore, Command, Goto, StoreBelow, FlashTyped, ChipStates, WindowsOpen, ArrayKept,
               PollEnds, ChangesAreDirty, LibOps
<1>11. CASE AskId
  BY <1>11 DEF AskId, Command, Goto, ReadId, SetSr, FlashTyped, ChipStates, WindowsOpen, ArrayKept,
               PollEnds, ChangesAreDirty, LibOps
<1>12. CASE ReadSet
  BY <1>12 DEF ReadSet, Command, Goto, ReadMode, FlashTyped, ChipStates, WindowsOpen, ArrayKept,
               PollEnds, ChangesAreDirty, LibOps
<1>13. CASE ReadDma
  BY <1>13 DEF ReadDma, Command, Goto, FlashTyped, ChipStates, WindowsOpen, ArrayKept, PollEnds,
               ChangesAreDirty, LibOps
<1>14. CASE UNCHANGED flashVars
  BY <1>14 DEF flashVars, FlashTyped, ChipStates, WindowsOpen, ArrayKept, PollEnds, ChangesAreDirty, ToErase
<1> QED BY <1>1, <1>2, <1>3, <1>4, <1>5, <1>6, <1>7, <1>8, <1>9, <1>10, <1>11, <1>12, <1>13,
           <1>14 DEF FlashNext

\* A burst starts at the page it is asked for, through the shifted address lines.
LEMMA BurstReads ==
  ASSUME FlashTyped, ArrayKept
  PROVE  ReadsBack
<1> SUFFICES ASSUME lib.op = "read_dma", NEW i \in 0 .. lib.count - 1
             PROVE  ReadBurst(flash, lib.page, lib.count)[i] =
                      IF lib.page + i \in Pages THEN promised[lib.page + i] ELSE 0
  BY DEF ReadsBack
<1>1. lib.page \in Nat /\ lib.count \in Nat
  BY FlashAssumption DEF FlashTyped, Pages
<1>2. flashArrayOff(lib.page) \div 2 + i = lib.page + i
  BY <1>1 DEF flashArrayOff
<1> QED BY <1>1, <1>2 DEF ReadBurst, ArrayKept

\* What was written is read back, no poll spins, and what is not in the save file is known to be
\* dirty (flashCommand, saveWrite, piDma), whatever the library erases, writes and reads.
THEOREM FlashIsMemory == FlashSpec => []FlashKeeps
<1>1. FlashInv => FlashKeeps
  BY BurstReads DEF FlashInv, FlashKeeps
<1> QED BY <1>1, FlashStart, FlashStep, PTL DEF FlashSpec

(***************************************************************************)
(* Save files.                                                             *)
(***************************************************************************)

SaveSpec == SaveInit /\ [][SaveNext]_saveVars

Contained == Datums \union {Blank}

\* Backings, files and flags, typed.
SaveTyped ==
  /\ back \in [Backings -> [Cells -> Contained]]
  /\ file \in [Backings -> Seq(Contained)]
  /\ unsaved \subseteq Backings /\ replaced \subseteq Backings
  /\ phase \in {"off", "on", "flushing"}
  /\ guest \in BOOLEAN /\ clean \in BOOLEAN

\* flushSaveFile has what is dirty left to do, in its order, the first of it perhaps with its file
\* open; for the guest of a network game it has nothing to do.
TodoKept ==
  phase = "flushing" =>
    \/ todo = flushSaveFile
    \/ ~guest /\ unsaved # {} /\ todo = <<"fwrite">> \o flushEverybody

\* b's file says what is in memory, or need not.
OnDisk(b) == b \in replaced \ {"save"} \/ loadInto(file[b]) = back[b]

\* What is not dirty is on the disk, and when the emulator has ended by itself nothing is.
DiskKept ==
  /\ phase # "off" => \A b \in Backings \ unsaved : OnDisk(b)
  /\ phase = "off" /\ clean /\ ~guest => \A b \in Backings : OnDisk(b)

SaveInv == SaveTyped /\ TodoKept /\ DiskKept

\* A backing is a sequence, a file of its size loads as it is, and no part of it is more than that.
LEMMA BackingLoads ==
  ASSUME NEW c \in [Cells -> Contained]
  PROVE  /\ c \in Seq(Contained) /\ loadInto(c) = c
         /\ \A n \in 0 .. MediaSize : SubSeq(c, 1, n) \in Seq(Contained)
<1>1. MediaSize \in Nat
  BY MediaAssumption
<1>2. c \in Seq(Contained) /\ Len(c) = MediaSize
  BY <1>1 DEF Cells
<1>3. loadInto(c) = c
  BY <1>1, <1>2 DEF loadInto, Cells
<1>4. \A n \in 0 .. MediaSize : SubSeq(c, 1, n) \in Seq(Contained)
  BY <1>1, <1>2
<1> QED BY <1>2, <1>3, <1>4

\* What fits of a file is a backing.
LEMMA LoadedIsBacking ==
  ASSUME NEW f \in Seq(Contained)
  PROVE  loadInto(f) \in [Cells -> Contained]
  BY MediaAssumption DEF loadInto, Cells, Contained

\* The order of flushSaveFile: what comes first is dirty, and the rest is the list without it.

\* flushEverybody, of any set of dirty backings.
Flushes(u) ==
  (IF "pak" \in u THEN <<"pak">> ELSE <<>>) \o (IF "gb" \in u THEN <<"gb">> ELSE <<>>)
    \o (IF "save" \in u THEN <<"save">> ELSE <<>>)

\* The order of flushSaveFile: what comes first is dirty, and the rest is the list without it.
LEMMA FlushOrder ==
  ASSUME NEW u, u \subseteq Backings, u # {}
  PROVE  \E b \in u : Flushes(u) = <<b>> \o Flushes(u \ {b}) /\ Flushes(u \ {b}) \in Seq(Backings)
<1> DEFINE gbs == IF "gb" \in u THEN <<"gb">> ELSE <<>>
           saves == IF "save" \in u THEN <<"save">> ELSE <<>>
<1>0. gbs \in Seq(Backings) /\ saves \in Seq(Backings) /\ <<"pak">> \in Seq(Backings) /\ <<"gb">> \in Seq(Backings)
  <2>1. <<>> \in Seq(Backings) /\ \A b \in Backings : <<b>> \in Seq(Backings)
    OBVIOUS
  <2>2. {"pak", "gb", "save"} = Backings
    BY DEF Backings
  <2> QED BY <2>1, <2>2
<1>1. CASE "pak" \in u
  <2>1. Flushes(u) = (<<"pak">> \o gbs) \o saves
    BY <1>1 DEF Flushes
  <2>2. Flushes(u \ {"pak"}) = (<<>> \o gbs) \o saves
    BY DEF Flushes
  <2> HIDE DEF gbs, saves
  <2>3. Flushes(u \ {"pak"}) = gbs \o saves
    BY <1>0, <2>2, ConcatEmptySeq
  <2>4. Flushes(u) = <<"pak">> \o (gbs \o saves) /\ gbs \o saves \in Seq(Backings)
    BY <1>0, <2>1, ConcatAssociative, ConcatProperties
  <2> QED BY <1>1, <2>3, <2>4
<1>2. CASE "pak" \notin u /\ "gb" \in u
  <2>1. Flushes(u) = (<<>> \o <<"gb">>) \o saves
    BY <1>2 DEF Flushes
  <2>2. Flushes(u \ {"gb"}) = (<<>> \o <<>>) \o saves
    BY <1>2 DEF Flushes
  <2> HIDE DEF gbs, saves
  <2>3. Flushes(u \ {"gb"}) = saves /\ Flushes(u) = <<"gb">> \o saves
    BY <1>0, <2>1, <2>2, ConcatEmptySeq
  <2> QED BY <1>0, <1>2, <2>3
<1>3. CASE "pak" \notin u /\ "gb" \notin u
  <2>1. "save" \in u
    BY <1>3 DEF Backings
  <2>2. Flushes(u) = <<"save">> \o Flushes(u \ {"save"}) /\ Flushes(u \ {"save"}) \in Seq(Backings)
    BY <1>3, <2>1 DEF Flushes, Backings
  <2> QED BY <2>1, <2>2
<1> QED BY <1>1, <1>2, <1>3

\* With nothing dirty there is nothing to store.
LEMMA NothingToFlush == Flushes({}) = <<>>
  BY DEF Flushes

\* What is left to do, in terms of what is dirty.
LEMMA TodoIs ==
  flushEverybody = Flushes(unsaved) /\ flushSaveFile = (IF guest THEN <<>> ELSE Flushes(unsaved))
  BY DEF flushEverybody, flushSaveFile, Flushes, Dirty

\* A file is opened for the first of what is dirty.
LEMMA OpensDirty ==
  ASSUME SaveInv, StoreOpen
  PROVE  ~guest /\ Head(todo) \in unsaved /\ todo = flushEverybody
<1>1. phase = "flushing" /\ todo # <<>> /\ Head(todo) # "fwrite"
  BY DEF StoreOpen
<1>2. todo # <<"fwrite">> \o flushEverybody
  <2>1. CASE unsaved = {}
    BY <1>1, <2>1, TodoIs, NothingToFlush
  <2>2. CASE unsaved # {}
    <3>1. PICK b \in unsaved : Flushes(unsaved) = <<b>> \o Flushes(unsaved \ {b}) /\ Flushes(unsaved \ {b}) \in Seq(Backings)
      BY <2>2, FlushOrder DEF SaveInv, SaveTyped
    <3>2. Flushes(unsaved) \in Seq(Backings \union {"fwrite"})
      BY <3>1 DEF SaveInv, SaveTyped, Backings
    <3>3. Head(<<"fwrite">> \o Flushes(unsaved)) = "fwrite"
      BY <3>2
    <3> QED BY <1>1, <3>3, TodoIs
  <2> QED BY <2>1, <2>2
<1>3. ~guest /\ todo = Flushes(unsaved)
  BY <1>1, <1>2, TodoIs DEF SaveInv, TodoKept
<1>4. unsaved # {}
  BY <1>1, <1>3, NothingToFlush
<1>5. PICK b \in unsaved : Flushes(unsaved) = <<b>> \o Flushes(unsaved \ {b}) /\ Flushes(unsaved \ {b}) \in Seq(Backings)
  BY <1>4, FlushOrder DEF SaveInv, SaveTyped
<1>6. Head(todo) = b
  <2>1. b \in Backings
    BY <1>5 DEF SaveInv, SaveTyped
  <2> QED BY <1>3, <1>5, <2>1
<1> QED BY <1>3, <1>5, <1>6, TodoIs

\* The file that is filled is that of the first of what is dirty, and then it no longer is.
LEMMA WritesDirty ==
  ASSUME SaveInv, phase = "flushing", todo # <<>>, Head(todo) = "fwrite"
  PROVE  /\ ~guest /\ todo[2] \in unsaved
         /\ SubSeq(todo, 3, Len(todo)) = Flushes(unsaved \ {todo[2]})
<1>1. todo # flushSaveFile
  <2>1. CASE guest \/ unsaved = {}
    BY <2>1, TodoIs, NothingToFlush
  <2>2. CASE ~guest /\ unsaved # {}
    <3>1. PICK b \in unsaved : Flushes(unsaved) = <<b>> \o Flushes(unsaved \ {b}) /\ Flushes(unsaved \ {b}) \in Seq(Backings)
      BY <2>2, FlushOrder DEF SaveInv, SaveTyped
    <3>2. b \in Backings /\ b # "fwrite"
      BY <3>1 DEF SaveInv, SaveTyped, Backings
    <3>3. Head(Flushes(unsaved)) = b
      BY <3>1, <3>2
    <3> QED BY <2>2, <3>2, <3>3, TodoIs
  <2> QED BY <2>1, <2>2
<1>2. ~guest /\ unsaved # {} /\ todo = <<"fwrite">> \o Flushes(unsaved)
  BY <1>1, TodoIs DEF SaveInv, TodoKept
<1>3. PICK b \in unsaved : Flushes(unsaved) = <<b>> \o Flushes(unsaved \ {b}) /\ Flushes(unsaved \ {b}) \in Seq(Backings)
  BY <1>2, FlushOrder DEF SaveInv, SaveTyped
<1>4. b \in Backings
  BY <1>3 DEF SaveInv, SaveTyped
<1> DEFINE rest == Flushes(unsaved \ {b})
<1>5. rest \in Seq(Backings \union {"fwrite"}) /\ todo = <<"fwrite">> \o (<<b>> \o rest)
  BY <1>2, <1>3
<1> HIDE DEF rest
<1>6. todo[2] = b /\ SubSeq(todo, 3, Len(todo)) = rest
  <2>1. todo \in Seq(Backings \union {"fwrite"}) /\ Len(todo) = Len(rest) + 2 /\ todo[2] = b
        /\ \A i \in 1 .. Len(rest) : todo[i + 2] = rest[i]
    BY <1>4, <1>5
  <2>2. /\ SubSeq(todo, 3, Len(todo)) \in Seq(Backings \union {"fwrite"})
        /\ Len(SubSeq(todo, 3, Len(todo))) = Len(rest)
        /\ \A i \in 1 .. Len(rest) : SubSeq(todo, 3, Len(todo))[i] = rest[i]
    BY <1>5, <2>1
  <2> QED BY <1>5, <2>1, <2>2, SeqEqual
<1> QED BY <1>2, <1>3, <1>6 DEF rest

\* SaveInv holds of the initial states.
LEMMA SaveInitial == SaveInit => SaveInv
<1> SUFFICES ASSUME SaveInit PROVE SaveInv
  OBVIOUS
<1>1. back \in [Backings -> [Cells -> Contained]] /\ file \in [Backings -> Seq(Contained)]
  BY DEF SaveInit, Fresh, Contained
<1>2. SaveTyped
  BY <1>1 DEF SaveInit, SaveTyped
<1>3. TodoKept /\ DiskKept
  BY DEF SaveInit, TodoKept, DiskKept
<1> QED BY <1>2, <1>3 DEF SaveInv

\* Every step keeps the types.
LEMMA SaveStaysTyped ==
  ASSUME SaveInv, [SaveNext]_saveVars
  PROVE  SaveTyped'
<1> USE DEF SaveInv, SaveTyped
<1>1. CASE attachSaveFile
  <2>1. back' \in [Backings -> [Cells -> Contained]]
    BY <1>1, LoadedIsBacking DEF attachSaveFile
  <2> QED BY <1>1, <2>1 DEF attachSaveFile
<1>2. CASE tpakSync
  <2> DEFINE kept == IF "gb" \in unsaved THEN back["gb"] ELSE file["gb"]
  <2>1. kept \in Seq(Contained)
    BY BackingLoads DEF Backings
  <2>2. file' = [file EXCEPT !["gb"] = kept] /\ back' = [back EXCEPT !["gb"] = loadInto(kept)]
    BY <1>2 DEF tpakSync
  <2> HIDE DEF kept
  <2>3. file' \in [Backings -> Seq(Contained)] /\ back' \in [Backings -> [Cells -> Contained]]
    BY <2>1, <2>2, LoadedIsBacking
  <2> QED BY <1>2, <2>3 DEF tpakSync
<1>3. CASE Exit
  BY <1>3 DEF Exit
<1>4. CASE StoreOpen
  <2>1. <<>> \in Seq(Contained) /\ file' = [file EXCEPT ![Head(todo)] = <<>>]
    BY <1>4 DEF StoreOpen
  <2>2. file' \in [Backings -> Seq(Contained)]
    BY <2>1
  <2> QED BY <1>4, <2>2 DEF StoreOpen
<1>5. CASE StoreWrite
  <2>1. todo[2] \in unsaved
    BY <1>5, WritesDirty DEF StoreWrite
  <2>2. back[todo[2]] \in Seq(Contained)
    BY <2>1, BackingLoads
  <2> QED BY <1>5, <2>2 DEF StoreWrite
<1>6. CASE Exited
  BY <1>6 DEF Exited, Leave
<1>7. CASE Crash
  <2>1. file' \in [Backings -> Seq(Contained)]
    <3>1. CASE phase = "flushing" /\ todo # <<>> /\ Head(todo) = "fwrite"
      <4>1. PICK n \in 0 .. MediaSize : file' = [file EXCEPT ![todo[2]] = SubSeq(back[todo[2]], 1, n)]
        BY <1>7, <3>1 DEF Crash
      <4>2. todo[2] \in unsaved
        BY <3>1, WritesDirty
      <4>3. SubSeq(back[todo[2]], 1, n) \in Seq(Contained)
        BY <4>2, BackingLoads
      <4> QED BY <4>1, <4>3
    <3>2. CASE ~(phase = "flushing" /\ todo # <<>> /\ Head(todo) = "fwrite")
      BY <1>7, <3>2 DEF Crash
    <3> QED BY <3>1, <3>2
  <2> QED BY <1>7, <2>1 DEF Crash, Leave
<1>8. ASSUME NEW b \in Backings, NEW i \in Cells, NEW d \in Datums, GameWrites(b, i, d) PROVE SaveTyped'
  BY <1>8 DEF GameWrites, Contained
<1>9. ASSUME NEW foreign \in BOOLEAN, LoadState(foreign) PROVE SaveTyped'
  <2>1. back' \in [Backings -> [Cells -> Contained]]
    BY <1>9 DEF LoadState, Contained
  <2>2. guest' \in BOOLEAN
    BY <1>9 DEF LoadState
  <2>3. unsaved' \subseteq Backings
    BY <1>9 DEF LoadState, Backings
  <2> QED BY <1>9, <2>1, <2>2, <2>3 DEF LoadState
<1>10. CASE UNCHANGED saveVars
  BY <1>10 DEF saveVars
<1> QED BY <1>1, <1>2, <1>3, <1>4, <1>5, <1>6, <1>7, <1>8, <1>9, <1>10 DEF SaveNext

\* Every step keeps the list of what is still to be stored.
LEMMA TodoStaysKept ==
  ASSUME SaveInv, [SaveNext]_saveVars
  PROVE  TodoKept'
<1> USE DEF TodoKept
<1>1. CASE attachSaveFile
  BY <1>1 DEF attachSaveFile
<1>2. CASE tpakSync
  BY <1>2 DEF tpakSync
<1>3. CASE Exit
  BY <1>3 DEF Exit, flushSaveFile, Dirty
<1>4. CASE StoreOpen
  <2>1. ~guest /\ Head(todo) \in unsaved /\ todo = flushEverybody
    BY <1>4, OpensDirty
  <2>2. guest' = guest /\ unsaved' = unsaved /\ todo' = <<"fwrite">> \o todo
    BY <1>4 DEF StoreOpen
  <2>3. flushEverybody' = flushEverybody
    BY <2>2 DEF flushEverybody, Dirty
  <2> QED BY <2>1, <2>2, <2>3
<1>5. CASE StoreWrite
  <2>1. ~guest /\ todo[2] \in unsaved /\ SubSeq(todo, 3, Len(todo)) = Flushes(unsaved \ {todo[2]})
    BY <1>5, WritesDirty DEF StoreWrite
  <2>2. guest' = guest /\ unsaved' = unsaved \ {todo[2]} /\ todo' = SubSeq(todo, 3, Len(todo))
    BY <1>5 DEF StoreWrite
  <2>3. flushSaveFile' = (IF guest' THEN <<>> ELSE Flushes(unsaved'))
    BY DEF flushSaveFile, Flushes, Dirty
  <2> QED BY <2>1, <2>2, <2>3
<1>6. CASE Exited \/ Crash
  BY <1>6 DEF Exited, Crash, Leave
<1>7. ASSUME NEW b \in Backings, NEW i \in Cells, NEW d \in Datums, GameWrites(b, i, d) PROVE TodoKept'
  BY <1>7 DEF GameWrites
<1>8. ASSUME NEW foreign \in BOOLEAN, LoadState(foreign) PROVE TodoKept'
  BY <1>8 DEF LoadState
<1>9. CASE UNCHANGED saveVars
  <2>1. flushSaveFile' = flushSaveFile /\ flushEverybody' = flushEverybody
    BY <1>9 DEF saveVars, flushSaveFile, flushEverybody, Dirty
  <2> QED BY <1>9, <2>1 DEF saveVars, SaveInv
<1> QED BY <1>1, <1>2, <1>3, <1>4, <1>5, <1>6, <1>7, <1>8, <1>9 DEF SaveNext

\* Every step keeps what is not dirty on the disk.
LEMMA DiskStaysKept ==
  ASSUME SaveInv, [SaveNext]_saveVars
  PROVE  DiskKept'
<1> USE DEF SaveInv, SaveTyped, DiskKept, OnDisk
<1>1. CASE attachSaveFile
  <2>1. \A b \in Backings : loadInto(file[b])' = loadInto(file[b])
    BY <1>1 DEF attachSaveFile, loadInto
  <2> QED BY <1>1, <2>1 DEF attachSaveFile
<1>2. CASE tpakSync
  <2> DEFINE kept == IF "gb" \in unsaved THEN back["gb"] ELSE file["gb"]
  <2>1. file' = [file EXCEPT !["gb"] = kept] /\ back' = [back EXCEPT !["gb"] = loadInto(kept)]
        /\ unsaved' = unsaved \ {"gb"} /\ replaced' = replaced \ {"gb"} /\ phase' = "on" /\ phase = "on"
    BY <1>2 DEF tpakSync
  <2> HIDE DEF kept
  <2>2. loadInto(file["gb"])' = back'["gb"]
    BY <2>1 DEF loadInto, Backings
  <2>3. \A b \in Backings \ {"gb"} : file'[b] = file[b] /\ back'[b] = back[b]
    BY <2>1
  <2> QED BY <2>1, <2>2, <2>3
<1>3. CASE Exit
  BY <1>3 DEF Exit
<1>4. CASE StoreOpen
  <2>1. Head(todo) \in unsaved
    BY <1>4, OpensDirty
  <2>2. /\ file' = [file EXCEPT ![Head(todo)] = <<>>]
        /\ phase = "flushing" /\ UNCHANGED <<back, unsaved, phase, guest, replaced, clean>>
    BY <1>4 DEF StoreOpen
  <2>3. \A b \in Backings \ unsaved : file'[b] = file[b]
    BY <2>1, <2>2
  <2> QED BY <2>2, <2>3
<1>5. CASE StoreWrite
  <2>1. todo[2] \in unsaved
    BY <1>5, WritesDirty DEF StoreWrite
  <2>2. /\ file' = [file EXCEPT ![todo[2]] = back[todo[2]]] /\ unsaved' = unsaved \ {todo[2]}
        /\ phase = "flushing" /\ UNCHANGED <<back, phase, guest, replaced, clean>>
    BY <1>5 DEF StoreWrite
  <2>3. loadInto(file'[todo[2]]) = back[todo[2]]
    BY <2>1, <2>2, BackingLoads
  <2>4. \A b \in Backings \ unsaved : file'[b] = file[b]
    BY <2>1, <2>2
  <2>5. \A b \in Backings \ unsaved' : b \in Backings \ unsaved \/ b = todo[2]
    BY <2>2
  <2> QED BY <2>2, <2>3, <2>4, <2>5
<1>6. CASE Exited
  <2>1. phase = "flushing" /\ todo = <<>> /\ UNCHANGED <<file, back, guest, replaced>> /\ phase' = "off"
    BY <1>6 DEF Exited, Leave
  <2>2. ~guest => unsaved = {}
    <3>1. CASE unsaved # {} /\ ~guest
      <4>1. PICK b \in unsaved : Flushes(unsaved) = <<b>> \o Flushes(unsaved \ {b}) /\ Flushes(unsaved \ {b}) \in Seq(Backings)
        BY <3>1, FlushOrder
      <4>2. b \in Backings
        BY <4>1
      <4>3. Flushes(unsaved) # <<>> /\ Flushes(unsaved) \in Seq(Backings)
        BY <4>1, <4>2
      <4>4. <<"fwrite">> \o Flushes(unsaved) # <<>>
        <5>1. Flushes(unsaved) \in Seq(Backings \union {"fwrite"})
          BY <4>3
        <5> QED BY <5>1
      <4> QED BY <2>1, <3>1, <4>3, <4>4, TodoIs DEF TodoKept
    <3> QED BY <3>1
  <2> QED BY <2>1, <2>2
<1>7. CASE Crash
  BY <1>7 DEF Crash, Leave
<1>8. ASSUME NEW b \in Backings, NEW i \in Cells, NEW d \in Datums, GameWrites(b, i, d) PROVE DiskKept'
  <2>1. /\ back' = [back EXCEPT ![b][i] = d] /\ unsaved' = unsaved \union {b} /\ replaced' = replaced \ {b}
        /\ phase = "on" /\ phase' = "on" /\ file' = file
    BY <1>8 DEF GameWrites
  <2>2. \A o \in Backings \ unsaved' : back'[o] = back[o] /\ o # b
    BY <2>1
  <2> QED BY <2>1, <2>2
<1>9. ASSUME NEW foreign \in BOOLEAN, LoadState(foreign) PROVE DiskKept'
  BY <1>9 DEF LoadState
<1>10. CASE UNCHANGED saveVars
  BY <1>10 DEF saveVars
<1> QED BY <1>1, <1>2, <1>3, <1>4, <1>5, <1>6, <1>7, <1>8, <1>9, <1>10 DEF SaveNext

\* SaveInv holds of every behaviour of the files.
LEMMA SaveInvariant == SaveSpec => []SaveInv
<1>1. SaveInv /\ [SaveNext]_saveVars => SaveInv'
  BY SaveStaysTyped, TodoStaysKept, DiskStaysKept DEF SaveInv
<1> QED BY SaveInitial, <1>1, PTL DEF SaveSpec

\* An emulator that ends by itself leaves in every file what was in memory (flushSaveFile, storeFrom,
\* loadInto), however often it crashed before, whatever states were loaded and cartridges pulled, for
\* backings of any size.
THEOREM SavesOutlive == SaveSpec => []NothingLost
<1>1. SaveInv => NothingLost
  BY DEF SaveInv, DiskKept, OnDisk, NothingLost
<1> QED BY SaveInvariant, <1>1, PTL

\* Once a foreign state is in memory the player's own save and pak stay as they are on the disk until
\* the next start (netplay::tainted in flushSaveFile), through exits, crashes and cartridges pulled.
THEOREM GuestsKeepTheirs == SaveSpec => OwnSaveKept
<1> DEFINE Kept == guest /\ phase # "off" => file'["save"] = file["save"] /\ file'["pak"] = file["pak"]
<1>1. SaveInv /\ [SaveNext]_saveVars => [Kept]_saveVars
  <2> SUFFICES ASSUME SaveInv, SaveNext, guest, phase # "off"
               PROVE  file'["save"] = file["save"] /\ file'["pak"] = file["pak"]
    OBVIOUS
  <2>1. CASE attachSaveFile
    BY <2>1 DEF attachSaveFile
  <2>2. CASE tpakSync
    BY <2>2 DEF tpakSync, SaveInv, SaveTyped, Backings
  <2>3. CASE Exit \/ Exited
    BY <2>3 DEF Exit, Exited
  <2>4. CASE StoreOpen
    BY <2>4, OpensDirty
  <2>5. CASE StoreWrite
    BY <2>5, WritesDirty DEF StoreWrite
  <2>6. CASE Crash
    BY <2>6, WritesDirty DEF Crash
  <2>7. ASSUME NEW b \in Backings, NEW i \in Cells, NEW d \in Datums, GameWrites(b, i, d) PROVE file' = file
    BY <2>7 DEF GameWrites
  <2>8. ASSUME NEW foreign \in BOOLEAN, LoadState(foreign) PROVE file' = file
    BY <2>8 DEF LoadState
  <2> QED BY <2>1, <2>2, <2>3, <2>4, <2>5, <2>6, <2>7, <2>8 DEF SaveNext
<1> QED BY SaveInvariant, <1>1, PTL DEF SaveSpec, OwnSaveKept

(***************************************************************************)
(* A Game Boy cartridge.                                                   *)
(***************************************************************************)

TpakSpec == TpakInit /\ [][TpakNext]_tpakVars

\* Quotient and remainder.
LEMMA DivMod ==
  ASSUME NEW x \in Nat, NEW n \in Nat \ {0}
  PROVE  x \div n \in Nat /\ x % n \in 0 .. n - 1 /\ x = n * (x \div n) + (x % n)
OBVIOUS

\* The remainder is determined by its bound.
LEMMA RemainderIs ==
  ASSUME NEW q \in Nat, NEW n \in Nat \ {0}, NEW y \in 0 .. n - 1, NEW x \in Nat, x = n * q + y
  PROVE  x % n = y /\ (x >= n <=> q > 0)
<1> DEFINE p == x \div n
           r == x % n
<1>1. p \in Nat /\ r \in 0 .. n - 1 /\ x = n * p + r
  BY DivMod
<1> HIDE DEF p, r
<1>2. ~(p < q)
  <2> SUFFICES ASSUME p < q PROVE FALSE
    OBVIOUS
  <2>1. n * (p + 1) <= n * q
    BY <1>1
  <2>2. n * (p + 1) = n * p + n
    BY <1>1
  <2> QED BY <1>1, <2>1, <2>2
<1>3. ~(q < p)
  <2> SUFFICES ASSUME q < p PROVE FALSE
    OBVIOUS
  <2>1. n * (q + 1) <= n * p
    BY <1>1
  <2>2. n * (q + 1) = n * q + n
    BY <1>1
  <2> QED BY <1>1, <2>1, <2>2
<1>4. p = q
  BY <1>1, <1>2, <1>3
<1>5. r = y
  BY <1>1, <1>4
<1>6. q > 0 => n * q >= n
  OBVIOUS
<1>7. q = 0 => n * q = 0
  OBVIOUS
<1>8. n * q \in Nat
  OBVIOUS
<1> QED BY <1>5, <1>6, <1>7, <1>8 DEF r

\* A number of two digits is made of its digits.
LEMMA TwoDigits ==
  ASSUME NEW q \in Nat, NEW n \in Nat \ {0}, NEW y \in 0 .. n - 1
  PROVE  q * n + y \in Nat /\ (q * n + y) % n = y /\ (q * n + y) \div n = q
<1> DEFINE x == q * n + y
           p == x \div n
<1>1. x \in Nat /\ x = n * q + y
  OBVIOUS
<1> HIDE DEF x
<1>2. x % n = y
  BY <1>1, RemainderIs
<1>3. p \in Nat /\ x = n * p + y
  BY <1>1, <1>2, DivMod
<1> HIDE DEF p
<1>4. n * p = n * q
  BY <1>1, <1>3
<1>5. p = q
  BY <1>3, <1>4
<1> QED BY <1>1, <1>2, <1>5 DEF x, p

\* One more.
LEMMA RemainderNext ==
  ASSUME NEW x \in Nat, NEW n \in Nat \ {0}
  PROVE  /\ (x + 1) % n = ((x % n) + 1) % n
         /\ x + 1 >= n <=> (x >= n \/ (x % n) + 1 = n)
<1> DEFINE q == x \div n
           y == x % n
<1>1. q \in Nat /\ y \in 0 .. n - 1 /\ x = n * q + y
  BY DivMod
<1> HIDE DEF q, y
<1>2. CASE y + 1 < n
  <2>1. (x + 1) % n = y + 1 /\ (x + 1 >= n <=> q > 0)
    BY <1>1, <1>2, RemainderIs
  <2>2. (y + 1) % n = y + 1
    <3>1. y + 1 = n * 0 + (y + 1)
      BY <1>1
    <3> QED BY <1>1, <1>2, <3>1, RemainderIs
  <2>3. x >= n <=> q > 0
    BY <1>1, RemainderIs
  <2> QED BY <1>1, <1>2, <2>1, <2>2, <2>3 DEF y
<1>3. CASE y + 1 = n
  <2>1. x + 1 = n * (q + 1) + 0
    BY <1>1, <1>3
  <2>2. (x + 1) % n = 0 /\ x + 1 >= n
    BY <1>1, <2>1, RemainderIs
  <2>3. (y + 1) % n = 0
    BY <1>1, <1>3
  <2> QED BY <1>3, <2>2, <2>3 DEF y
<1> QED BY <1>1, <1>2, <1>3

\* A digit more.
LEMMA DigitBound ==
  ASSUME NEW a \in Nat, NEW A \in Nat, a < A, NEW B \in Nat \ {0}, NEW b \in 0 .. B - 1
  PROVE  a * B + b \in Nat /\ a * B + b < A * B /\ A * B \in Nat
<1>1. (a + 1) * B <= A * B
  OBVIOUS
<1>2. (a + 1) * B = a * B + B
  OBVIOUS
<1>3. a * B \in Nat /\ A * B \in Nat
  OBVIOUS
<1> QED BY <1>1, <1>2, <1>3

\* A carry to the next digit leaves the number as it is.
LEMMA DigitCarry ==
  ASSUME NEW a \in Nat, NEW b \in Nat, NEW B \in Nat \ {0}
  PROVE  a * B + b = (a + (b \div B)) * B + (b % B)
<1>1. b \div B \in Nat /\ b % B \in Nat /\ b = B * (b \div B) + (b % B)
  BY DivMod
<1> DEFINE q == b \div B
<1> HIDE DEF q
<1>2. (a + q) * B = a * B + B * q
  BY <1>1 DEF q
<1>3. a * B \in Nat /\ B * q \in Nat
  BY <1>1 DEF q
<1> QED BY <1>1, <1>2, <1>3 DEF q

\* The seconds after which the clock starts again.
Span == Minute * Hour * Day * Days

\* The registers of a cartridge, its RAM, the cartridge in the pak and a file.
GbRegs ==
  [ramOn : BOOLEAN, bank : Int, sec : 0 .. Minute - 1, min : 0 .. Hour - 1, hour : 0 .. Day - 1,
   day : 0 .. Days - 1, carry : BOOLEAN, halt : BOOLEAN, base : Nat]
GbRams == [GbBankSet -> GbData \union {0}]
InPak == [cart : Carts \union {NoCart}, ram : GbRams, dirty : BOOLEAN, regs : GbRegs,
          total : Nat, wrapped : BOOLEAN]
OnFile == [exists : BOOLEAN, ram : GbRams, regs : GbRegs, total : Nat, wrapped : BOOLEAN]

\* The units of the clock are numbers.
LEMMA Units == /\ Minute \in Nat \ {0} /\ Hour \in Nat \ {0} /\ Day \in Nat \ {0} /\ Days \in Nat \ {0}
               /\ Span \in Nat \ {0} /\ Span = Days * Day * Hour * Minute
<1>1. Minute \in Nat \ {0} /\ Hour \in Nat \ {0} /\ Day \in Nat \ {0} /\ Days \in Nat \ {0}
  BY GbAssumption
<1>2. \A a, b \in Nat \ {0} : a * b \in Nat \ {0}
  OBVIOUS
<1>3. Minute * Hour \in Nat \ {0}
  BY <1>1, <1>2
<1>4. Minute * Hour * Day \in Nat \ {0}
  BY <1>1, <1>2, <1>3
<1>5. Minute * Hour * Day * Days \in Nat \ {0}
  BY <1>1, <1>2, <1>4
<1>6. Minute * Hour * Day * Days = Days * Day * Hour * Minute
  BY <1>1
<1> QED BY <1>1, <1>5, <1>6 DEF Span

\* Registers in range show less than a turn of the clock.
LEMMA ElapsedBound ==
  ASSUME NEW r \in GbRegs
  PROVE  Elapsed(r) \in 0 .. Span - 1
<1>1. r.sec \in 0 .. Minute - 1 /\ r.min \in 0 .. Hour - 1 /\ r.hour \in 0 .. Day - 1 /\ r.day \in 0 .. Days - 1
  BY DEF GbRegs
<1>2. /\ r.day * Day + r.hour \in Nat /\ r.day * Day + r.hour < Days * Day /\ Days * Day \in Nat
  BY <1>1, Units, DigitBound
<1>3. /\ (r.day * Day + r.hour) * Hour + r.min \in Nat
      /\ (r.day * Day + r.hour) * Hour + r.min < Days * Day * Hour /\ Days * Day * Hour \in Nat
  BY <1>1, <1>2, Units, DigitBound
<1>4. /\ ((r.day * Day + r.hour) * Hour + r.min) * Minute + r.sec \in Nat
      /\ ((r.day * Day + r.hour) * Hour + r.min) * Minute + r.sec < Days * Day * Hour * Minute
  BY <1>1, <1>3, Units, DigitBound
<1>5. Elapsed(r) \in Nat /\ Elapsed(r) < Span
  BY <1>4, Units DEF Elapsed
<1> QED BY <1>5, Units

\* What the clock has to show: the seconds of the registers and those since the last look.
Due(now, r) == Elapsed(r) + (IF r.halt THEN 0 ELSE now - r.base)

\* GbCart::rtcSync brings the registers up to date, whatever time went by since the last look.
LEMMA SyncIsDue ==
  ASSUME NEW r \in GbRegs, gbWall \in Nat, r.base <= gbWall
  PROVE  /\ rtcSync(r) \in GbRegs /\ rtcSync(r).base = gbWall /\ Due(gbWall, r) \in Nat
         /\ rtcSync(r).halt = r.halt /\ rtcSync(r).ramOn = r.ramOn /\ rtcSync(r).bank = r.bank
         /\ Elapsed(rtcSync(r)) = Due(gbWall, r) % Span
         /\ rtcSync(r).carry <=> (r.carry \/ Due(gbWall, r) >= Span)
<1> DEFINE dt == gbWall - r.base
           s == r.sec + dt
           m == r.min + (s \div Minute)
           h == r.hour + (m \div Hour)
           d == r.day + (h \div Day)
<1>0. /\ r.sec \in 0 .. Minute - 1 /\ r.min \in 0 .. Hour - 1 /\ r.hour \in 0 .. Day - 1
      /\ r.day \in 0 .. Days - 1 /\ r.base \in Nat /\ dt \in Nat
  BY DEF GbRegs
<1>1. Elapsed(r) \in 0 .. Span - 1
  BY ElapsedBound
<1>2. CASE dt <= 0 \/ r.halt
  <2>1. rtcSync(r) = [r EXCEPT !.base = gbWall]
    BY <1>2 DEF rtcSync
  <2>2. /\ rtcSync(r) \in GbRegs /\ rtcSync(r).base = gbWall /\ rtcSync(r).halt = r.halt
        /\ rtcSync(r).ramOn = r.ramOn /\ rtcSync(r).bank = r.bank /\ rtcSync(r).carry = r.carry
    BY <2>1 DEF GbRegs
  <2>3. Elapsed(rtcSync(r)) = Elapsed(r)
    BY <2>1 DEF GbRegs, Elapsed
  <2>4. Due(gbWall, r) = Elapsed(r)
    BY <1>0, <1>1, <1>2, Units DEF Due
  <2>5. Due(gbWall, r) % Span = Due(gbWall, r) /\ ~(Due(gbWall, r) >= Span) /\ Due(gbWall, r) \in Nat
    <3>1. Due(gbWall, r) = Span * 0 + Due(gbWall, r)
      BY <1>1, <2>4, Units
    <3> QED BY <1>1, <2>4, <3>1, Units, RemainderIs
  <2> QED BY <2>2, <2>3, <2>4, <2>5
<1>3. CASE ~(dt <= 0 \/ r.halt)
  <2>1. rtcSync(r) = [r EXCEPT !.base = gbWall, !.sec = s % Minute, !.min = m % Hour, !.hour = h % Day,
                               !.day = d % Days, !.carry = @ \/ d >= Days]
    BY <1>3 DEF rtcSync
  <2> HIDE DEF dt, s, m, h, d
  <2>u. Minute \in Nat \ {0} /\ Hour \in Nat \ {0} /\ Day \in Nat \ {0} /\ Days \in Nat \ {0} /\ Span \in Nat \ {0}
    BY Units
  <2>2. s \in Nat /\ s \div Minute \in Nat /\ s % Minute \in 0 .. Minute - 1
    <3>1. s \in Nat
      BY <1>0, <2>u DEF s
    <3> QED BY <2>u, <3>1, DivMod
  <2>3. m \in Nat /\ m \div Hour \in Nat /\ m % Hour \in 0 .. Hour - 1
    <3>1. m \in Nat
      BY <1>0, <2>2, <2>u DEF m
    <3> QED BY <2>u, <3>1, DivMod
  <2>4. h \in Nat /\ h \div Day \in Nat /\ h % Day \in 0 .. Day - 1
    <3>1. h \in Nat
      BY <1>0, <2>3, <2>u DEF h
    <3> QED BY <2>u, <3>1, DivMod
  <2>5. d \in Nat /\ d \div Days \in Nat /\ d % Days \in 0 .. Days - 1 /\ d = Days * (d \div Days) + (d % Days)
    <3>1. d \in Nat
      BY <1>0, <2>4, <2>u DEF d
    <3> QED BY <2>u, <3>1, DivMod
  <2>6. Due(gbWall, r) = ((r.day * Day + r.hour) * Hour + r.min) * Minute + s
    <3>1. ((r.day * Day + r.hour) * Hour + r.min) * Minute \in Int
      BY <1>0, Units
    <3>2. Due(gbWall, r) = ((r.day * Day + r.hour) * Hour + r.min) * Minute + r.sec + dt
      BY <1>0, <1>3, <3>1 DEF Due, Elapsed, dt
    <3> QED BY <1>0, <3>1, <3>2 DEF s
  <2>7. Due(gbWall, r) = ((r.day * Day + r.hour) * Hour + m) * Minute + (s % Minute)
    <3>1. (r.day * Day + r.hour) * Hour \in Nat
      BY <1>0, Units
    <3>2. ((r.day * Day + r.hour) * Hour + r.min) \in Nat
      BY <1>0, <3>1
    <3>3. Due(gbWall, r) = (((r.day * Day + r.hour) * Hour + r.min) + (s \div Minute)) * Minute + (s % Minute)
      <4> DEFINE a == (r.day * Day + r.hour) * Hour + r.min
      <4>1. a \in Nat /\ s \in Nat /\ Minute \in Nat \ {0}
        BY <2>2, <2>u, <3>2
      <4>2. Due(gbWall, r) = a * Minute + s
        BY <2>6
      <4> HIDE DEF a
      <4>3. a * Minute + s = (a + (s \div Minute)) * Minute + (s % Minute)
        BY ONLY <4>1, DigitCarry, Zenon
      <4> QED BY <4>2, <4>3, Zenon DEF a
    <3>4. ((r.day * Day + r.hour) * Hour + r.min) + (s \div Minute) = (r.day * Day + r.hour) * Hour + m
      BY <1>0, <2>2, <3>1 DEF m
    <3> QED BY <3>3, <3>4
  <2>8. (r.day * Day + r.hour) * Hour + m = (r.day * Day + h) * Hour + (m % Hour)
    <3>1. r.day * Day \in Nat
      BY <1>0, Units
    <3> DEFINE a == r.day * Day + r.hour
    <3>0. a \in Nat
      BY <1>0, <3>1
    <3> HIDE DEF a
    <3>2. a * Hour + m = (a + (m \div Hour)) * Hour + (m % Hour)
      BY ONLY <2>3, <2>u, <3>0, DigitCarry, Zenon
    <3>3. a + (m \div Hour) = r.day * Day + h
      BY <1>0, <2>3, <3>1 DEF h, a
    <3> QED BY <3>2, <3>3 DEF a
  <2>9. r.day * Day + h = d * Day + (h % Day)
    <3> DEFINE a == r.day
    <3>1. a \in Nat
      BY <1>0
    <3> HIDE DEF a
    <3>2. a * Day + h = (a + (h \div Day)) * Day + (h % Day)
      BY ONLY <2>4, <2>u, <3>1, DigitCarry, Zenon
    <3> QED BY <3>2 DEF a, d
  <2> DEFINE e == (((d % Days) * Day + (h % Day)) * Hour + (m % Hour)) * Minute + (s % Minute)
             q == d \div Days
  <2>10. Due(gbWall, r) = Span * q + e
    <3> DEFINE D == d % Days
               H == h % Day
               M == m % Hour
               S == s % Minute
    <3>1. Due(gbWall, r) = ((d * Day + H) * Hour + M) * Minute + S
      BY <2>7, <2>8, <2>9
    <3>2. D \in Nat /\ H \in Nat /\ M \in Nat /\ S \in Nat /\ q \in Nat /\ d = Days * q + D
      BY <2>2, <2>3, <2>4, <2>5
    <3>3. e = ((D * Day + H) * Hour + M) * Minute + S
      OBVIOUS
    <3> HIDE DEF D, H, M, S, q, e
    <3>4. d * Day = Days * Day * q + D * Day
      BY <3>2, Units
    <3>5. (d * Day + H) * Hour = Days * Day * Hour * q + (D * Day + H) * Hour
      BY <3>2, <3>4, Units
    <3>6. ((d * Day + H) * Hour + M) * Minute = Days * Day * Hour * Minute * q + ((D * Day + H) * Hour + M) * Minute
      BY <3>2, <3>5, Units
    <3>7. /\ Days * Day * Hour * Minute * q \in Int /\ ((D * Day + H) * Hour + M) * Minute \in Int
      BY <3>2, Units
    <3> QED BY <3>1, <3>2, <3>3, <3>6, <3>7, Units
  <2>11. rtcSync(r) \in GbRegs
    <3>1. (r.carry \/ d >= Days) \in BOOLEAN
      OBVIOUS
    <3> QED BY <2>1, <2>2, <2>3, <2>4, <2>5, <3>1 DEF GbRegs
  <2>12. Elapsed(rtcSync(r)) = e
    BY <2>1 DEF GbRegs, Elapsed
  <2>13. e \in 0 .. Span - 1
    BY <2>11, <2>12, ElapsedBound
  <2>14. Due(gbWall, r) \in Nat
    BY <1>0, <1>1, <1>3 DEF Due
  <2>15. q \in Nat
    BY <2>5
  <2> HIDE DEF e, q
  <2>16. Due(gbWall, r) % Span = e /\ (Due(gbWall, r) >= Span <=> q > 0)
    <3> DEFINE x == Due(gbWall, r)
    <3>1. x \in Nat /\ x = Span * q + e
      BY <2>10, <2>14
    <3> HIDE DEF x
    <3>2. x % Span = e /\ (x >= Span <=> q > 0)
      BY <2>13, <2>15, <2>u, <3>1, RemainderIs
    <3> QED BY <3>2 DEF x
  <2>17. q > 0 <=> d >= Days
    BY <2>5, Units, RemainderIs DEF q
  <2>18. rtcSync(r).carry <=> (r.carry \/ d >= Days)
    BY <2>1 DEF GbRegs
  <2>19. /\ rtcSync(r).base = gbWall /\ rtcSync(r).halt = r.halt
         /\ rtcSync(r).ramOn = r.ramOn /\ rtcSync(r).bank = r.bank
    BY <2>1 DEF GbRegs
  <2> QED BY <2>11, <2>12, <2>14, <2>16, <2>17, <2>18, <2>19
<1> QED BY <1>2, <1>3

\* The registers r stand for a clock that ran for so many seconds.
Shows(now, r, seconds, over) ==
  /\ r.base <= now
  /\ seconds = Due(now, r) % Span
  /\ over <=> (r.carry \/ Due(now, r) >= Span)

\* The cartridge in the pak holds what the game wrote and its clock is right.
CartFits(now, g, w) ==
  /\ g \in InPak
  /\ g.cart # NoCart => g.ram = w[g.cart] /\ Shows(now, g.regs, g.total, g.wrapped)

\* So are the clocks in the files, and a file that was never written stands for a new cartridge.
FilesFit(now, f) ==
  /\ f \in [Carts -> OnFile]
  /\ \A c \in Carts : IF f[c].exists THEN Shows(now, f[c].regs, f[c].total, f[c].wrapped) ELSE f[c] = NoSav

\* Only of a cartridge that is in the pak and dirty the file may be old.
RamsFit(g, f, w) == \A c \in Carts : (c # g.cart \/ ~g.dirty) => f[c].ram = w[c]

PakInv ==
  /\ gbWall \in Nat /\ slot.cart \in Carts \union {NoCart} /\ wrote \in [Carts -> GbRams]
  /\ CartFits(gbWall, gb, wrote) /\ FilesFit(gbWall, sav) /\ RamsFit(gb, sav, wrote)

\* The registers of a new cartridge.
LEMMA FreshShows ==
  ASSUME NEW now \in Nat
  PROVE  FreshRegs(now) \in GbRegs /\ Shows(now, FreshRegs(now), 0, FALSE)
<1>1. FreshRegs(now) \in GbRegs
  BY Units DEF FreshRegs, GbRegs
<1>2. FreshRegs(now).base = now /\ FreshRegs(now).carry = FALSE /\ Elapsed(FreshRegs(now)) = 0
  BY Units DEF FreshRegs, Elapsed
<1>3. Due(now, FreshRegs(now)) = 0
  BY <1>2 DEF Due
<1>4. 0 % Span = 0 /\ ~(0 >= Span)
  BY Units
<1> QED BY <1>1, <1>2, <1>3, <1>4 DEF Shows

\* Registers brought up to date show the same time.
LEMMA SyncShows ==
  ASSUME NEW r \in GbRegs, gbWall \in Nat, NEW t, NEW o \in BOOLEAN, Shows(gbWall, r, t, o)
  PROVE  /\ rtcSync(r) \in GbRegs /\ Shows(gbWall, rtcSync(r), t, o) /\ rtcSync(r).base = gbWall
         /\ Elapsed(rtcSync(r)) = t /\ (rtcSync(r).carry <=> o)
<1> DEFINE u == rtcSync(r)
<1>1. r.base <= gbWall /\ t = Due(gbWall, r) % Span /\ (o <=> (r.carry \/ Due(gbWall, r) >= Span))
  BY DEF Shows
<1>2. /\ u \in GbRegs /\ u.base = gbWall /\ Elapsed(u) = Due(gbWall, r) % Span
      /\ u.carry <=> (r.carry \/ Due(gbWall, r) >= Span)
  BY <1>1, SyncIsDue
<1>3. Elapsed(u) = t /\ (u.carry <=> o)
  BY <1>1, <1>2
<1> HIDE DEF u
<1>6. t \in 0 .. Span - 1
  BY <1>2, <1>3, ElapsedBound
<1>7. Due(gbWall, u) = t
  BY <1>2, <1>3, <1>6, Units DEF Due
<1>8. t % Span = t /\ ~(t >= Span)
  <2>1. t = Span * 0 + t
    BY <1>6, Units
  <2> QED BY <1>6, <2>1, Units, RemainderIs
<1>9. Shows(gbWall, u, t, o)
  BY <1>2, <1>3, <1>7, <1>8 DEF Shows
<1> QED BY <1>2, <1>3, <1>9 DEF u

\* The digits of the seconds that registers show are the registers.
LEMMA DigitsOf ==
  ASSUME NEW r \in GbRegs
  PROVE  Digits(Elapsed(r)) = [sec |-> r.sec, min |-> r.min, hour |-> r.hour, day |-> r.day]
<1> DEFINE S == r.sec
           M == r.min
           H == r.hour
           D == r.day
           a == D * Day + H
           b == a * Hour + M
           t == b * Minute + S
<1>0. /\ S \in 0 .. Minute - 1 /\ M \in 0 .. Hour - 1 /\ H \in 0 .. Day - 1 /\ D \in Nat
      /\ Minute \in Nat \ {0} /\ Hour \in Nat \ {0} /\ Day \in Nat \ {0}
  BY Units DEF GbRegs
<1>7. Elapsed(r) = t
  BY DEF Elapsed
<1> HIDE DEF S, M, H, D
<1>1. a \in Nat /\ a % Day = H /\ a \div Day = D
  BY ONLY <1>0, TwoDigits, Zenon
<1> HIDE DEF a
<1>2. b \in Nat /\ b % Hour = M /\ b \div Hour = a
  BY ONLY <1>0, <1>1, TwoDigits, Zenon
<1> HIDE DEF b
<1>3. t \in Nat /\ t % Minute = S /\ t \div Minute = b
  BY ONLY <1>0, <1>2, TwoDigits, Zenon
<1> HIDE DEF t
<1> QED BY <1>1, <1>2, <1>3, <1>7, Zenon DEF Digits, S, M, H, D

\* The range of each register.
LEMMA ShownRange ==
  /\ Shown("S") = 0 .. Minute - 1 /\ Shown("M") = 0 .. Hour - 1
  /\ Shown("H") = 0 .. Day - 1 /\ Shown("D") = 0 .. Days - 1
  BY DEF Shown

\* Registers up to date show what they hold.
LEMMA NowShows ==
  ASSUME gbWall \in Nat, NEW r \in GbRegs, r.base = gbWall
  PROVE  Elapsed(r) \in Nat /\ Shows(gbWall, r, Elapsed(r), r.carry)
<1> DEFINE t == Elapsed(r)
<1>1. t \in 0 .. Span - 1
  BY ElapsedBound
<1>2. Due(gbWall, r) = t
  BY <1>1, Units DEF Due
<1> HIDE DEF t
<1>3. t % Span = t /\ ~(t >= Span)
  <2>1. t = Span * 0 + t
    BY <1>1, Units
  <2> QED BY <1>1, <2>1, Units, RemainderIs
<1>4. Shows(gbWall, r, t, r.carry)
  BY <1>2, <1>3 DEF Shows
<1>5. t \in Nat
  BY <1>1, Units
<1> QED BY <1>4, <1>5 DEF t

\* A register set in a clock that is up to date: one digit of the time it shows changes.
LEMMA DigitSet ==
  ASSUME gbWall \in Nat, NEW r \in GbRegs, r.base = gbWall, NEW reg \in Registers, NEW v \in Shown(reg)
  PROVE  /\ SetDigit(r, reg, v) \in GbRegs /\ SetDigit(r, reg, v).base = gbWall
         /\ SetDigit(r, reg, v).carry = r.carry
         /\ Elapsed(SetDigit(r, reg, v)) = Elapsed(SetDigit(Digits(Elapsed(r)), reg, v))
<1> DEFINE u == SetDigit(r, reg, v)
           w == SetDigit(Digits(Elapsed(r)), reg, v)
           x == [sec |-> r.sec, min |-> r.min, hour |-> r.hour, day |-> r.day]
<1>1. w = SetDigit(x, reg, v)
  BY DigitsOf, Zenon
<1>2. reg \in {"S", "M", "H", "D"} /\ (reg = "S" => v \in 0 .. Minute - 1)
      /\ (reg = "M" => v \in 0 .. Hour - 1) /\ (reg = "H" => v \in 0 .. Day - 1)
      /\ (reg = "D" => v \in 0 .. Days - 1)
  BY ShownRange DEF Registers
<1>3. u \in GbRegs /\ u.base = gbWall /\ u.carry = r.carry
  BY <1>2 DEF SetDigit, GbRegs
<1>4. /\ u.sec = (IF reg = "S" THEN v ELSE r.sec) /\ u.min = (IF reg = "M" THEN v ELSE r.min)
      /\ u.hour = (IF reg = "H" THEN v ELSE r.hour) /\ u.day = (IF reg = "D" THEN v ELSE r.day)
  BY DEF SetDigit, GbRegs
<1>5. /\ w.sec = (IF reg = "S" THEN v ELSE r.sec) /\ w.min = (IF reg = "M" THEN v ELSE r.min)
      /\ w.hour = (IF reg = "H" THEN v ELSE r.hour) /\ w.day = (IF reg = "D" THEN v ELSE r.day)
  BY <1>1 DEF SetDigit
<1> HIDE DEF u, w
<1>6. Elapsed(u) = Elapsed(w)
  BY <1>4, <1>5 DEF Elapsed
<1> QED BY <1>3, <1>6 DEF u, w

\* The same of DH, which also has the carry and stops or starts the clock.
LEMMA DHSet ==
  ASSUME gbWall \in Nat, NEW r \in GbRegs, r.base = gbWall, NEW on \in BOOLEAN, NEW over \in BOOLEAN,
         NEW d \in Shown("D")
  PROVE  /\ DHOnto(r, on, over, d) \in GbRegs /\ DHOnto(r, on, over, d).base = gbWall
         /\ DHOnto(r, on, over, d).carry = over /\ DHOnto(r, on, over, d).day = d
         /\ Elapsed(DHOnto(r, on, over, d)) = Elapsed(SetDigit(Digits(Elapsed(r)), "D", d))
<1>1. Elapsed(SetDigit(r, "D", d)) = Elapsed(SetDigit(Digits(Elapsed(r)), "D", d))
  BY DigitSet DEF Registers
<1>2. d \in 0 .. Days - 1
  BY ShownRange
<1> DEFINE u == DHOnto(r, on, over, d)
           w == SetDigit(r, "D", d)
<1>3. /\ u \in GbRegs /\ u.base = gbWall /\ u.carry = over /\ u.day = d
      /\ u.hour = r.hour /\ u.min = r.min /\ u.sec = r.sec
  BY <1>2 DEF DHOnto, GbRegs
<1>4. w.day = d /\ w.hour = r.hour /\ w.min = r.min /\ w.sec = r.sec
  BY DEF SetDigit, GbRegs
<1> HIDE DEF u, w
<1>5. Elapsed(u) = Elapsed(w)
  BY <1>3, <1>4 DEF Elapsed
<1> QED BY <1>1, <1>3, <1>5 DEF u, w

\* The registers of the banks are not of the clock: the one that opens the RAM
LEMMA EnableShows ==
  ASSUME NEW r \in GbRegs, NEW now, NEW t, NEW o, NEW b \in BOOLEAN, Shows(now, r, t, o)
  PROVE  [r EXCEPT !.ramOn = b] \in GbRegs /\ Shows(now, [r EXCEPT !.ramOn = b], t, o)
<1> DEFINE u == [r EXCEPT !.ramOn = b]
<1>1. /\ u \in GbRegs /\ u.base = r.base /\ u.carry = r.carry /\ u.halt = r.halt
      /\ u.day = r.day /\ u.hour = r.hour /\ u.min = r.min /\ u.sec = r.sec
  BY DEF GbRegs
<1> HIDE DEF u
<1>2. Due(now, u) = Due(now, r)
  BY <1>1 DEF Due, Elapsed
<1>3. Shows(now, u, t, o)
  BY <1>1, <1>2 DEF Shows
<1> QED BY <1>1, <1>3 DEF u

\* and the one that selects the bank.
LEMMA BankShows ==
  ASSUME NEW r \in GbRegs, NEW now, NEW t, NEW o, NEW b \in Int, Shows(now, r, t, o)
  PROVE  [r EXCEPT !.bank = b] \in GbRegs /\ Shows(now, [r EXCEPT !.bank = b], t, o)
<1> DEFINE u == [r EXCEPT !.bank = b]
<1>1. /\ u \in GbRegs /\ u.base = r.base /\ u.carry = r.carry /\ u.halt = r.halt
      /\ u.day = r.day /\ u.hour = r.hour /\ u.min = r.min /\ u.sec = r.sec
  BY DEF GbRegs
<1> HIDE DEF u
<1>2. Due(now, u) = Due(now, r)
  BY <1>1 DEF Due, Elapsed
<1>3. Shows(now, u, t, o)
  BY <1>1, <1>2 DEF Shows
<1> QED BY <1>1, <1>3 DEF u

\* A second later: a clock that runs has run a second more.
LEMMA SecondShows ==
  ASSUME NEW r \in GbRegs, NEW now \in Nat, NEW t, NEW o \in BOOLEAN, Shows(now, r, t, o)
  PROVE  /\ t \in Nat
         /\ r.halt => Shows(now + 1, r, t, o)
         /\ ~r.halt => Shows(now + 1, r, (t + 1) % Span, o \/ t + 1 = Span)
<1> DEFINE x == Due(now, r)
<1>1. r.base \in Nat /\ r.base <= now /\ t = x % Span /\ (o <=> (r.carry \/ x >= Span))
  BY DEF Shows, GbRegs
<1>2. Elapsed(r) \in Nat
  BY ElapsedBound, Units
<1>3. x \in Nat
  BY <1>1, <1>2 DEF Due
<1>4. r.halt => Due(now + 1, r) = x
  BY DEF Due
<1>5. ~r.halt => Due(now + 1, r) = x + 1
  BY <1>1, <1>2 DEF Due
<1> HIDE DEF x
<1>6. (x + 1) % Span = ((x % Span) + 1) % Span /\ (x + 1 >= Span <=> (x >= Span \/ (x % Span) + 1 = Span))
  BY <1>3, Units, RemainderNext
<1>7. t \in Nat
  <2>1. Span \in Nat \ {0}
    BY Units
  <2>2. x % Span \in 0 .. Span - 1
    BY <1>3, <2>1, DivMod
  <2> QED BY <1>1, <2>1, <2>2
<1>8. r.base <= now + 1
  BY <1>1
<1>9. r.halt => Shows(now + 1, r, t, o)
  BY <1>1, <1>4, <1>8 DEF Shows
<1>10. ASSUME ~r.halt PROVE Shows(now + 1, r, (t + 1) % Span, o \/ t + 1 = Span)
  <2>1. (t + 1) % Span = Due(now + 1, r) % Span
    BY <1>1, <1>5, <1>6, <1>10
  <2>2. (o \/ t + 1 = Span) <=> (r.carry \/ Due(now + 1, r) >= Span)
    BY <1>1, <1>5, <1>6, <1>10
  <2> QED BY <1>8, <2>1, <2>2 DEF Shows
<1> QED BY <1>7, <1>9, <1>10

\* PakInv holds of the initial states.
LEMMA PakInitial == TpakInit => PakInv
<1> SUFFICES ASSUME TpakInit PROVE PakInv
  OBVIOUS
<1>1. NoSav \in OnFile /\ NoSav.ram \in GbRams /\ NoSav.exists = FALSE
  BY FreshShows DEF NoSav, OnFile, GbRams
<1>2. gb \in InPak /\ gb.cart = NoCart
  BY <1>1, FreshShows DEF TpakInit, InPak
<1>3. sav \in [Carts -> OnFile] /\ \A c \in Carts : sav[c] = NoSav
  BY <1>1 DEF TpakInit
<1>4. wrote \in [Carts -> GbRams] /\ \A c \in Carts : wrote[c] = NoSav.ram
  BY <1>1 DEF TpakInit
<1>5. gbWall \in Nat /\ slot.cart \in Carts \union {NoCart}
  BY DEF TpakInit
<1> QED BY <1>1, <1>2, <1>3, <1>4, <1>5 DEF PakInv, CartFits, FilesFit, RamsFit

\* GbCart::flush leaves every file with what the game wrote.
LEMMA FlushFits ==
  ASSUME PakInv
  PROVE  FilesFit(gbWall, flush) /\ \A c \in Carts : flush[c].ram = wrote[c]
<1>1. CASE ~(gb.cart # NoCart /\ gb.dirty)
  <2>1. flush = sav
    BY <1>1 DEF flush
  <2>2. \A c \in Carts : c # gb.cart \/ ~gb.dirty
    BY <1>1, GbAssumption
  <2> QED BY <2>1, <2>2 DEF PakInv, RamsFit
<1>2. CASE gb.cart # NoCart /\ gb.dirty
  <2> DEFINE s == [exists |-> TRUE, ram |-> gb.ram, regs |-> rtcSync(gb.regs),
                   total |-> gb.total, wrapped |-> gb.wrapped]
  <2>1. flush = [sav EXCEPT ![gb.cart] = s]
    BY <1>2 DEF flush
  <2>2. /\ gb \in InPak /\ gb.cart \in Carts /\ gb.ram = wrote[gb.cart] /\ gb.regs \in GbRegs
        /\ gb.wrapped \in BOOLEAN /\ gb.ram \in GbRams /\ gb.total \in Nat
        /\ Shows(gbWall, gb.regs, gb.total, gb.wrapped)
    BY <1>2 DEF PakInv, CartFits, InPak
  <2>3. rtcSync(gb.regs) \in GbRegs /\ Shows(gbWall, rtcSync(gb.regs), gb.total, gb.wrapped)
    BY <2>2, SyncShows DEF PakInv
  <2>4. s \in OnFile /\ s.exists /\ s.ram = wrote[gb.cart] /\ Shows(gbWall, s.regs, s.total, s.wrapped)
    BY <2>2, <2>3 DEF OnFile
  <2> HIDE DEF s
  <2>5. flush \in [Carts -> OnFile] /\ flush[gb.cart] = s /\ \A c \in Carts \ {gb.cart} : flush[c] = sav[c]
    BY <2>1, <2>2, <2>4 DEF PakInv, FilesFit
  <2>6. FilesFit(gbWall, flush)
    BY <2>4, <2>5 DEF PakInv, FilesFit
  <2>7. \A c \in Carts : flush[c].ram = wrote[c]
    BY <2>2, <2>4, <2>5 DEF PakInv, RamsFit
  <2> QED BY <2>6, <2>7
<1> QED BY <1>1, <1>2

\* The cartridge and the files once an access has collected the change, w written.
PakFits(g, f, w) == CartFits(gbWall, g, w) /\ FilesFit(gbWall, f) /\ RamsFit(g, f, w)

\* Memory::tpakSync: the old cartridge goes to its file, the new one comes from its own.
LEMMA CollectFits ==
  ASSUME PakInv
  PROVE  PakFits(tpakSyncCart, tpakSyncFiles, wrote)
<1>1. CASE Synced
  BY <1>1 DEF PakFits, PakInv, tpakSyncCart, tpakSyncFiles
<1>2. CASE ~Synced /\ slot.cart = NoCart
  <2>1. tpakSyncCart = clear /\ tpakSyncFiles = flush
    BY <1>2 DEF tpakSyncCart, tpakSyncFiles
  <2>2. NoSav.ram \in GbRams
    BY DEF NoSav, GbRams
  <2>3. clear \in InPak /\ clear.cart = NoCart /\ clear.dirty = FALSE
    BY <2>2, FreshShows DEF clear, InPak
  <2> QED BY <2>1, <2>3, FlushFits DEF PakFits, CartFits, RamsFit
<1>3. CASE ~Synced /\ slot.cart # NoCart
  <2> DEFINE c == slot.cart
             f == flush
             r == IF f[c].exists THEN [f[c].regs EXCEPT !.ramOn = FALSE, !.bank = 0] ELSE FreshRegs(gbWall)
             g == [cart |-> c, dirty |-> FALSE, ram |-> f[c].ram, total |-> f[c].total,
                   wrapped |-> f[c].wrapped, regs |-> r]
  <2>1. tpakSyncCart = g /\ tpakSyncFiles = f
    BY <1>3 DEF tpakSyncCart, tpakSyncFiles, load
  <2>2. /\ c \in Carts /\ f[c] \in OnFile /\ f[c].ram = wrote[c] /\ gbWall \in Nat
        /\ IF f[c].exists THEN Shows(gbWall, f[c].regs, f[c].total, f[c].wrapped) ELSE f[c] = NoSav
    BY <1>3, FlushFits DEF PakInv, FilesFit
  <2>3. /\ f[c].ram \in GbRams /\ f[c].total \in Nat /\ f[c].wrapped \in BOOLEAN /\ f[c].regs \in GbRegs
        /\ f[c].exists \in BOOLEAN
    BY <2>2 DEF OnFile
  <2> HIDE DEF c, f
  <2>4. r \in GbRegs /\ Shows(gbWall, r, f[c].total, f[c].wrapped)
    <3>1. CASE f[c].exists
      <4> DEFINE u == [f[c].regs EXCEPT !.ramOn = FALSE]
      <4>1. u \in GbRegs /\ Shows(gbWall, u, f[c].total, f[c].wrapped)
        BY <2>2, <2>3, <3>1, EnableShows
      <4>2. r = [u EXCEPT !.bank = 0]
        BY <2>3, <3>1 DEF GbRegs
      <4> HIDE DEF u, r
      <4>3. [u EXCEPT !.bank = 0] \in GbRegs /\ Shows(gbWall, [u EXCEPT !.bank = 0], f[c].total, f[c].wrapped)
        BY <4>1, BankShows
      <4> QED BY <4>2, <4>3
    <3>2. CASE ~f[c].exists
      <4>1. f[c].total = 0 /\ f[c].wrapped = FALSE
        BY <2>2, <3>2 DEF NoSav
      <4> QED BY <2>2, <3>2, <4>1, FreshShows
    <3> QED BY <3>1, <3>2
  <2> HIDE DEF r
  <2>5. /\ g \in InPak /\ g.cart = c /\ g.dirty = FALSE /\ g.ram = wrote[c]
        /\ g.regs = r /\ g.total = f[c].total /\ g.wrapped = f[c].wrapped
    BY <2>2, <2>3, <2>4 DEF InPak
  <2> HIDE DEF g
  <2>6. CartFits(gbWall, g, wrote)
    BY <2>4, <2>5 DEF CartFits
  <2>7. FilesFit(gbWall, f) /\ RamsFit(g, f, wrote)
    BY FlushFits DEF RamsFit, f
  <2> QED BY <2>1, <2>6, <2>7 DEF PakFits
<1> QED BY <1>2, <1>1, <1>3

\* An access that changes only the registers of the cartridge, in a way the clock does not notice.
LEMMA RegsFit ==
  ASSUME NEW g, NEW f, NEW w, PakFits(g, f, w), g.cart # NoCart, NEW r \in GbRegs,
         Shows(gbWall, g.regs, g.total, g.wrapped) => Shows(gbWall, r, g.total, g.wrapped),
         NEW h, h = [g EXCEPT !.regs = r] \/ h = [g EXCEPT !.regs = r, !.dirty = TRUE]
  PROVE  PakFits(h, f, w)
<1>1. /\ g \in InPak /\ g.ram = w[g.cart] /\ Shows(gbWall, g.regs, g.total, g.wrapped)
  BY DEF PakFits, CartFits
<1>2. /\ h \in InPak /\ h.cart = g.cart /\ h.ram = g.ram /\ h.regs = r /\ h.total = g.total /\ h.wrapped = g.wrapped
      /\ h.dirty = g.dirty \/ h.dirty = TRUE
  BY <1>1 DEF InPak
<1>3. CartFits(gbWall, h, w)
  BY <1>1, <1>2 DEF CartFits
<1>4. RamsFit(h, f, w)
  BY <1>2 DEF PakFits, RamsFit
<1> QED BY <1>3, <1>4 DEF PakFits

\* An access that sets the clock.
LEMMA SetFit ==
  ASSUME gbWall \in Nat, NEW g, NEW f, NEW w, PakFits(g, f, w), g.cart # NoCart, NEW r \in GbRegs,
         r.base = gbWall, NEW h,
         h = [g EXCEPT !.regs = r, !.dirty = TRUE, !.total = Elapsed(r), !.wrapped = r.carry]
  PROVE  PakFits(h, f, w)
<1>1. g \in InPak /\ g.ram = w[g.cart]
  BY DEF PakFits, CartFits
<1>2. Elapsed(r) \in Nat /\ Shows(gbWall, r, Elapsed(r), r.carry)
  BY NowShows
<1>3. r.carry \in BOOLEAN
  BY DEF GbRegs
<1>4. /\ h \in InPak /\ h.cart = g.cart /\ h.ram = g.ram /\ h.regs = r /\ h.total = Elapsed(r)
      /\ h.wrapped = r.carry /\ h.dirty = TRUE
  BY <1>1, <1>2, <1>3 DEF InPak
<1>5. CartFits(gbWall, h, w)
  BY <1>1, <1>2, <1>4 DEF CartFits
<1>6. RamsFit(h, f, w)
  BY <1>4 DEF PakFits, RamsFit
<1> QED BY <1>5, <1>6 DEF PakFits

\* An access to the window on the Game Boy bus.
LEMMA WindowFits ==
  ASSUME PakInv, NEW g, NEW w, Window(g, w), w \in [Carts -> GbRams], PakFits(g, tpakSyncFiles, w)
  PROVE  PakInv'
<1>1. gb' = g /\ sav' = tpakSyncFiles /\ wrote' = w /\ slot' = slot /\ gbWall' = gbWall
  BY DEF Window, Collected
<1> QED BY <1>1 DEF PakInv, PakFits

\* Every step of the pak keeps PakInv.
LEMMA PakStep ==
  ASSUME PakInv, [TpakNext]_tpakVars
  PROVE  PakInv'
<1> DEFINE g == tpakSyncCart
<1>0. /\ PakFits(g, tpakSyncFiles, wrote) /\ gbWall \in Nat /\ wrote \in [Carts -> GbRams]
  BY CollectFits DEF PakInv
<1>t. /\ g \in InPak /\ g.regs \in GbRegs /\ g.wrapped \in BOOLEAN /\ g.cart \in Carts \union {NoCart} /\ g.ram \in GbRams
      /\ g.cart # NoCart => g.ram = wrote[g.cart] /\ Shows(gbWall, g.regs, g.total, g.wrapped)
  BY <1>0 DEF PakFits, CartFits, InPak
<1> HIDE DEF g
<1>1. ASSUME NEW c \in Carts \union {NoCart}, UserSwaps(c) PROVE PakInv'
  BY <1>1 DEF UserSwaps, PakInv
<1>2. ASSUME gb' = g, sav' = tpakSyncFiles, UNCHANGED <<slot, gbWall, wrote>> PROVE PakInv'
  BY <1>0, <1>2 DEF PakInv, PakFits
<1>3. ASSUME NEW on \in BOOLEAN, SetPower(on) \/ SetCartPower(on) PROVE PakInv'
  BY <1>2, <1>3 DEF SetPower, SetCartPower, Collected, g
<1>4. CASE ReadStatus
  BY <1>2, <1>4 DEF ReadStatus, Collected, g
<1>5. ASSUME NEW on \in BOOLEAN, EnableRam(on) PROVE PakInv'
  <2> DEFINE r == [g.regs EXCEPT !.ramOn = on]
             h == [g EXCEPT !.regs.ramOn = on]
  <2>1. Window(h, wrote) /\ g.cart # NoCart
    BY <1>5 DEF EnableRam, Window, g
  <2>2. h = [g EXCEPT !.regs = r]
    BY <1>t DEF InPak
  <2>3. r \in GbRegs /\ Shows(gbWall, r, g.total, g.wrapped)
    BY <1>t, <2>1, EnableShows
  <2> HIDE DEF r, h
  <2>4. PakFits(h, tpakSyncFiles, wrote)
    BY <1>0, <2>1, <2>2, <2>3, RegsFit
  <2> QED BY <1>0, <2>1, <2>4, WindowFits
<1>6. ASSUME NEW b \in GbBankSet, SelectBank(b) PROVE PakInv'
  <2> DEFINE r == [g.regs EXCEPT !.bank = b]
             h == [g EXCEPT !.regs.bank = b]
  <2>1. Window(h, wrote) /\ g.cart # NoCart /\ b \in Int
    BY <1>6 DEF SelectBank, Window, g, GbBankSet
  <2>2. h = [g EXCEPT !.regs = r]
    BY <1>t DEF InPak
  <2>3. r \in GbRegs /\ Shows(gbWall, r, g.total, g.wrapped)
    BY <1>t, <2>1, BankShows
  <2> HIDE DEF r, h
  <2>4. PakFits(h, tpakSyncFiles, wrote)
    BY <1>0, <2>1, <2>2, <2>3, RegsFit
  <2> QED BY <1>0, <2>1, <2>4, WindowFits
<1>7. CASE Latch
  <2> DEFINE r == rtcSync(g.regs)
             h == [g EXCEPT !.regs = rtcSync(@)]
  <2>1. Window(h, wrote) /\ g.cart # NoCart
    BY <1>7 DEF Latch, Window, g
  <2>2. h = [g EXCEPT !.regs = r]
    BY <1>t DEF InPak
  <2>3. r \in GbRegs /\ Shows(gbWall, r, g.total, g.wrapped)
    BY <1>0, <1>t, <2>1, SyncShows
  <2> HIDE DEF r, h
  <2>4. PakFits(h, tpakSyncFiles, wrote)
    BY <1>0, <2>1, <2>2, <2>3, RegsFit
  <2> QED BY <1>0, <2>1, <2>4, WindowFits
<1>8. ASSUME NEW on \in BOOLEAN, NEW over \in BOOLEAN, NEW d \in Shown("D"), WriteDH(on, over, d)
      PROVE  PakInv'
  <2> DEFINE u == rtcSync(g.regs)
             r == DHOnto(u, on, over, d)
             h == IF g.regs.ramOn THEN SetDH(g, r) ELSE g
  <2>1. Window(h, wrote) /\ g.cart # NoCart
    BY <1>8 DEF WriteDH, Window, g
  <2>2. u \in GbRegs /\ u.base = gbWall /\ Elapsed(u) = g.total
    BY <1>0, <1>t, <2>1, SyncShows
  <2> HIDE DEF u
  <2>3. /\ r \in GbRegs /\ r.base = gbWall /\ r.carry = over /\ r.day = d
        /\ Elapsed(r) = Elapsed(SetDigit(Digits(g.total), "D", d))
    BY <1>0, <2>2, DHSet
  <2> HIDE DEF r
  <2>4. PakFits(h, tpakSyncFiles, wrote)
    <3>1. CASE g.regs.ramOn
      <4>1. h = [g EXCEPT !.regs = r, !.dirty = TRUE, !.total = Elapsed(r), !.wrapped = r.carry]
        BY <1>t, <2>3, <3>1 DEF SetDH, InPak
      <4> HIDE DEF h
      <4> QED BY <1>0, <2>1, <2>3, <4>1, SetFit
    <3>2. CASE ~g.regs.ramOn
      BY <1>0, <3>2
    <3> QED BY <3>1, <3>2
  <2> HIDE DEF h
  <2> QED BY <1>0, <2>1, <2>4, WindowFits
<1>12. ASSUME NEW reg \in Registers, NEW v \in Shown(reg), WriteClock(reg, v) PROVE PakInv'
  <2> DEFINE u == rtcSync(g.regs)
             r == SetDigit(u, reg, v)
             t == Elapsed(SetDigit(Digits(g.total), reg, v))
             h == IF g.regs.ramOn THEN [g EXCEPT !.regs = r, !.dirty = TRUE, !.total = t] ELSE g
  <2>1. Window(h, wrote) /\ g.cart # NoCart
    BY <1>12 DEF WriteClock, Window, g
  <2>2. u \in GbRegs /\ u.base = gbWall /\ Elapsed(u) = g.total /\ u.carry = g.wrapped
    <3>1. u \in GbRegs /\ u.base = gbWall /\ Elapsed(u) = g.total /\ (u.carry <=> g.wrapped)
      BY <1>0, <1>t, <2>1, SyncShows
    <3>2. u.carry \in BOOLEAN /\ g.wrapped \in BOOLEAN
      BY <1>t, <3>1 DEF GbRegs
    <3> QED BY <3>1, <3>2, Zenon
  <2> HIDE DEF u
  <2>3. r \in GbRegs /\ r.base = gbWall /\ r.carry = g.wrapped /\ Elapsed(r) = t
    BY <1>0, <2>2, DigitSet
  <2> HIDE DEF r, t
  <2>4. PakFits(h, tpakSyncFiles, wrote)
    <3>1. CASE g.regs.ramOn
      <4>1. h = [g EXCEPT !.regs = r, !.dirty = TRUE, !.total = Elapsed(r), !.wrapped = r.carry]
        BY <1>t, <2>3, <3>1 DEF InPak
      <4> HIDE DEF h
      <4> QED BY <1>0, <2>1, <2>3, <4>1, SetFit
    <3>2. CASE ~g.regs.ramOn
      BY <1>0, <3>2
    <3> QED BY <3>1, <3>2
  <2> HIDE DEF h
  <2> QED BY <1>0, <2>1, <2>4, WindowFits
<1>9. ASSUME NEW d \in GbData, WriteRam(d) PROVE PakInv'
  <2> DEFINE b == g.regs.bank
             h == IF g.regs.ramOn THEN [g EXCEPT !.ram[b] = d, !.dirty = TRUE] ELSE g
             w == IF g.regs.ramOn /\ g.cart # NoCart THEN [wrote EXCEPT ![g.cart][b] = d] ELSE wrote
  <2>1. Window(h, w) /\ g.cart # NoCart
    BY <1>9 DEF WriteRam, Window, g
  <2>2. CASE g.regs.ramOn
    <3> DEFINE ram == [g.ram EXCEPT ![b] = d]
    <3>1. h = [g EXCEPT !.ram = ram, !.dirty = TRUE] /\ w = [wrote EXCEPT ![g.cart] = [wrote[g.cart] EXCEPT ![b] = d]]
      BY <1>t, <2>1, <2>2 DEF InPak
    <3>2. g.cart \in Carts /\ ram \in GbRams /\ [wrote[g.cart] EXCEPT ![b] = d] = ram
      BY <1>t, <2>1 DEF GbRams
    <3> HIDE DEF ram, h, w, b
    <3>3. w \in [Carts -> GbRams] /\ w[g.cart] = ram /\ \A c \in Carts \ {g.cart} : w[c] = wrote[c]
      BY <1>0, <3>1, <3>2
    <3>4. /\ h \in InPak /\ h.cart = g.cart /\ h.dirty = TRUE /\ h.ram = ram
          /\ h.regs = g.regs /\ h.total = g.total /\ h.wrapped = g.wrapped
      BY <1>t, <3>1, <3>2 DEF InPak
    <3>5. CartFits(gbWall, h, w)
      BY <1>t, <2>1, <3>3, <3>4 DEF CartFits
    <3>6. RamsFit(h, tpakSyncFiles, w)
      BY <1>0, <3>3, <3>4 DEF PakFits, RamsFit
    <3>7. PakFits(h, tpakSyncFiles, w)
      BY <1>0, <3>5, <3>6 DEF PakFits
    <3> QED BY <2>1, <3>3, <3>7, WindowFits
  <2>3. CASE ~g.regs.ramOn
    <3>1. h = g /\ w = wrote
      BY <2>3
    <3> HIDE DEF h, w
    <3> QED BY <1>0, <2>1, <3>1, WindowFits
  <2> QED BY <2>2, <2>3
<1>10. CASE GbSecond
  <2> DEFINE Ran(x) == IF x.regs.halt THEN x
                       ELSE [x EXCEPT !.total = (@ + 1) % Span, !.wrapped = @ \/ x.total + 1 = Span]
  <2>1. /\ gbWall' = gbWall + 1 /\ slot' = slot /\ wrote' = wrote
        /\ gb' = IF gb.cart = NoCart THEN gb ELSE Ran(gb)
        /\ sav' = [c \in Carts |-> IF sav[c].exists THEN Ran(sav[c]) ELSE sav[c]]
    BY <1>10 DEF GbSecond, Span
  <2>m. \A x \in Nat : x % Span \in Nat
    <3>1. Span \in Nat \ {0}
      BY Units
    <3> QED BY <3>1, DivMod
  <2>2. CartFits(gbWall', gb', wrote')
    <3>1. CASE gb.cart = NoCart
      BY <2>1, <3>1 DEF PakInv, CartFits
    <3>2. CASE gb.cart # NoCart
      <4>1. /\ gb \in InPak /\ gb.regs \in GbRegs /\ gb.wrapped \in BOOLEAN /\ gb.total \in Nat /\ gb.ram = wrote[gb.cart]
            /\ Shows(gbWall, gb.regs, gb.total, gb.wrapped)
        BY <3>2 DEF PakInv, CartFits, InPak
      <4>2. /\ gb.regs.halt => Shows(gbWall + 1, gb.regs, gb.total, gb.wrapped)
            /\ ~gb.regs.halt => Shows(gbWall + 1, gb.regs, (gb.total + 1) % Span, gb.wrapped \/ gb.total + 1 = Span)
        BY <1>0, <4>1, SecondShows
      <4>3. CASE gb.regs.halt
        BY <2>1, <3>2, <4>1, <4>2, <4>3 DEF CartFits
      <4>4. CASE ~gb.regs.halt
        <5>1. (gb.total + 1) % Span \in Nat /\ (gb.wrapped \/ gb.total + 1 = Span) \in BOOLEAN
          BY <2>m, <4>1
        <5>2. gb' = [gb EXCEPT !.total = (gb.total + 1) % Span, !.wrapped = gb.wrapped \/ gb.total + 1 = Span]
          BY <2>1, <3>2, <4>1, <4>4 DEF InPak
        <5>3. /\ gb' \in InPak /\ gb'.cart = gb.cart /\ gb'.ram = gb.ram /\ gb'.regs = gb.regs
              /\ gb'.total = (gb.total + 1) % Span /\ gb'.wrapped = (gb.wrapped \/ gb.total + 1 = Span)
          BY <4>1, <5>1, <5>2 DEF InPak
        <5>4. Shows(gbWall + 1, gb'.regs, gb'.total, gb'.wrapped)
          BY <4>2, <4>4, <5>3
        <5> QED BY <2>1, <4>1, <5>3, <5>4 DEF CartFits
      <4> QED BY <4>3, <4>4
    <3> QED BY <3>1, <3>2
  <2>3. ASSUME NEW c \in Carts
        PROVE  /\ sav'[c] \in OnFile /\ sav'[c].ram = sav[c].ram
               /\ IF sav'[c].exists THEN Shows(gbWall + 1, sav'[c].regs, sav'[c].total, sav'[c].wrapped)
                  ELSE sav'[c] = NoSav
    <3> DEFINE x == sav[c]
               y == sav'[c]
    <3>1. x \in OnFile /\ IF x.exists THEN Shows(gbWall, x.regs, x.total, x.wrapped) ELSE x = NoSav
      BY DEF PakInv, FilesFit
    <3>2. y = IF x.exists THEN Ran(x) ELSE x
      BY <2>1
    <3> HIDE DEF x, y
    <3>3. CASE ~x.exists
      BY <3>1, <3>2, <3>3 DEF x, y
    <3>4. CASE x.exists
      <4>1. x.regs \in GbRegs /\ x.wrapped \in BOOLEAN /\ x.total \in Nat /\ Shows(gbWall, x.regs, x.total, x.wrapped)
        BY <3>1, <3>4 DEF OnFile
      <4>2. /\ x.regs.halt => Shows(gbWall + 1, x.regs, x.total, x.wrapped)
            /\ ~x.regs.halt => Shows(gbWall + 1, x.regs, (x.total + 1) % Span, x.wrapped \/ x.total + 1 = Span)
        BY <1>0, <4>1, SecondShows
      <4>3. CASE x.regs.halt
        BY <3>1, <3>2, <3>4, <4>1, <4>2, <4>3 DEF x, y
      <4>4. CASE ~x.regs.halt
        <5>1. (x.total + 1) % Span \in Nat /\ (x.wrapped \/ x.total + 1 = Span) \in BOOLEAN
          BY <2>m, <4>1
        <5>2. y = [x EXCEPT !.total = (x.total + 1) % Span, !.wrapped = x.wrapped \/ x.total + 1 = Span]
          BY <3>1, <3>2, <3>4, <4>4 DEF OnFile
        <5>3. /\ y \in OnFile /\ y.exists /\ y.ram = x.ram /\ y.regs = x.regs
              /\ y.total = (x.total + 1) % Span /\ y.wrapped = (x.wrapped \/ x.total + 1 = Span)
          BY <3>1, <3>4, <5>1, <5>2 DEF OnFile
        <5>4. Shows(gbWall + 1, y.regs, y.total, y.wrapped)
          BY <4>2, <4>4, <5>3
        <5> QED BY <5>3, <5>4 DEF x, y
      <4> QED BY <4>3, <4>4
    <3> QED BY <3>3, <3>4
  <2>4. sav' \in [Carts -> OnFile]
    <3>1. sav' = [c \in Carts |-> sav'[c]]
      BY <2>1
    <3> QED BY <2>3, <3>1
  <2>5. FilesFit(gbWall', sav')
    BY <2>1, <2>3, <2>4 DEF FilesFit
  <2>6. gb'.cart = gb.cart /\ gb'.dirty = gb.dirty
    BY <2>1 DEF PakInv, CartFits, InPak
  <2>7. RamsFit(gb', sav', wrote')
    BY <2>1, <2>3, <2>6 DEF PakInv, RamsFit
  <2>8. gbWall' \in Nat
    <3>1. gbWall \in Nat /\ gbWall' = gbWall + 1
      BY <1>0, <1>10 DEF GbSecond
    <3> QED BY ONLY <3>1
  <2>9. slot'.cart \in Carts \union {NoCart} /\ wrote' \in [Carts -> GbRams]
    BY <2>1 DEF PakInv
  <2> HIDE DEF Ran
  <2> QED BY <2>2, <2>5, <2>7, <2>8, <2>9 DEF PakInv
<1>11. CASE UNCHANGED tpakVars
  BY <1>11 DEF tpakVars, PakInv
<1> QED BY <1>1, <1>3, <1>4, <1>5, <1>6, <1>7, <1>8, <1>9, <1>10, <1>11, <1>12
       DEF TpakNext

\* PakInv holds of every behaviour of the pak.
LEMMA PakInvariant == TpakSpec => []PakInv
  BY PakInitial, PakStep, PTL DEF TpakSpec

\* The RAM of a Game Boy cartridge is what the game wrote in it, in the pak or in its file
\* (GbCart::write, flush, load, Memory::tpakSync), whenever it is pulled and put back.
THEOREM CartridgeKeepsRam == TpakSpec => []GbRamKept
<1>1. PakInv => GbRamKept
  <2> SUFFICES ASSUME PakInv PROVE GbRamKept
    OBVIOUS
  <2>1. gb.cart # NoCart => gb.ram = wrote[gb.cart]
    BY DEF PakInv, CartFits
  <2>2. \A c \in Carts \ {gb.cart} : sav[c].ram = wrote[c]
    BY DEF PakInv, RamsFit
  <2> QED BY <2>1, <2>2 DEF GbRamKept
<1> QED BY PakInvariant, <1>1, PTL

\* The clock of the cartridge shows the seconds it ran (GbCart::rtcSync), whatever the units of its
\* registers, whenever it is looked at, stopped, saved and loaded.
THEOREM CartridgeKeepsTime == TpakSpec => []GbClockExact
<1>1. PakInv => GbClockExact
  <2> SUFFICES ASSUME PakInv, gb.cart # NoCart
               PROVE  Elapsed(rtcSync(gb.regs)) = gb.total /\ rtcSync(gb.regs).carry = gb.wrapped
    BY DEF GbClockExact
  <2>1. /\ gb.regs \in GbRegs /\ gb.wrapped \in BOOLEAN /\ gbWall \in Nat
        /\ Shows(gbWall, gb.regs, gb.total, gb.wrapped)
    BY DEF PakInv, CartFits, InPak
  <2>2. /\ rtcSync(gb.regs) \in GbRegs /\ Elapsed(rtcSync(gb.regs)) = gb.total
        /\ (rtcSync(gb.regs).carry <=> gb.wrapped)
    BY <2>1, SyncShows
  <2>3. rtcSync(gb.regs).carry \in BOOLEAN
    BY <2>2 DEF GbRegs
  <2> QED BY <2>1, <2>2, <2>3
<1> QED BY PakInvariant, <1>1, PTL

(***************************************************************************)
(* Movies.                                                                 *)
(***************************************************************************)

MovieSpec == MovieInit /\ [][MovieNext]_movieVars

\* The movie, the game and the saved states, typed.
MovieTyped ==
  /\ mode \in {"off", "rec", "play"} /\ ended \in BOOLEAN /\ rewound \in BOOLEAN
  /\ tape \in Seq(Buttons) /\ seen \in Seq(Buttons) /\ taken \in Seq(Buttons) /\ disk \in Seq(Buttons)
  /\ samples \in Nat \union {NoFile} /\ polls \in Nat
  /\ states \subseteq [polls : Nat, seen : Seq(Buttons)]

\* s is what the first n samples of t say.
Starts(s, t, n) == n <= Len(s) /\ n <= Len(t) /\ \A i \in 1 .. n : s[i] = t[i]

\* While a take is made the file up to its position is what the game polled, and a state of the
\* take carries the number of polls of its past.  Until it goes back the file is no longer than
\* that, and what is on the disk is the beginning of it.
Recording ==
  mode = "rec" =>
    /\ polls = Len(seen) /\ Starts(seen, tape, polls) /\ samples = 0
    /\ rewound = FALSE => Len(tape) = polls /\ Starts(tape, disk, Len(disk))
    /\ \A s \in states : s.polls = Len(s.seen)

\* A take that was closed is the beginning of its file, whatever older take follows it there; one
\* that was not, and never went back, begins with its file.
Closed ==
  mode # "rec" =>
    /\ samples > 0 => samples = Len(taken) /\ Starts(taken, tape, samples)
    /\ samples = 0 /\ rewound = FALSE => Starts(taken, tape, Len(tape))

\* The position of a replay and those its states carry are that of the game or the end of the file.
Replaying ==
  mode = "play" =>
    /\ samples >= 0
    /\ polls = Lesser(Len(seen), Readable) /\ (ended => polls = Readable)
    /\ Starts(seen, tape, polls)
    /\ \A s \in states : s.polls = Lesser(Len(s.seen), Readable)

MovieInv == MovieTyped /\ Recording /\ Closed /\ Replaying

\* MovieInv holds of the initial states.
LEMMA MovieInitial == MovieInit => MovieInv
<1> SUFFICES ASSUME MovieInit PROVE MovieInv
  OBVIOUS
<1>1. MovieTyped
  <2>1. mode \in {"off", "rec", "play"} /\ ended \in BOOLEAN /\ rewound \in BOOLEAN
    BY DEF MovieInit
  <2>2. tape \in Seq(Buttons) /\ seen \in Seq(Buttons) /\ taken \in Seq(Buttons) /\ disk \in Seq(Buttons)
    BY DEF MovieInit
  <2>3. samples \in Nat \union {NoFile} /\ polls \in Nat /\ states \subseteq [polls : Nat, seen : Seq(Buttons)]
    BY DEF MovieInit
  <2> QED BY <2>1, <2>2, <2>3 DEF MovieTyped
<1>2. Recording /\ Replaying
  BY DEF MovieInit, Recording, Replaying
<1>3. samples = -1
  BY DEF MovieInit, NoFile
<1>4. Closed
  BY <1>3 DEF Closed
<1> QED BY <1>1, <1>2, <1>4 DEF MovieInv

\* A state that is loaded stands for a past of the game.
LEMMA PastOfState ==
  ASSUME MovieTyped, NEW s \in states, LoadTake(s)
  PROVE  Len(s.seen) <= Len(seen) /\ \A i \in 1 .. Len(s.seen) : s.seen[i] = seen[i]
<1>1. /\ Len(s.seen) <= Len(seen) /\ s.seen \in Seq(Buttons) /\ seen \in Seq(Buttons)
      /\ SubSeq(s.seen, 1, Len(s.seen)) = SubSeq(seen, 1, Len(s.seen))
  BY DEF LoadTake, IsPrefix, MovieTyped
<1>2. \A i \in 1 .. Len(s.seen) :
         SubSeq(s.seen, 1, Len(s.seen))[i] = s.seen[i] /\ SubSeq(seen, 1, Len(s.seen))[i] = seen[i]
  BY <1>1
<1> QED BY <1>1, <1>2

\* Every step keeps the types.
LEMMA MovieStaysTyped ==
  ASSUME MovieInv, [MovieNext]_movieVars
  PROVE  MovieTyped'
<1> USE DEF MovieInv, MovieTyped
<1>1. CASE initRec
  <2>1. /\ <<>> \in Seq(Buttons) /\ {} \subseteq [polls : Nat, seen : Seq(Buttons)]
        /\ 0 \in Nat \union {NoFile}
    OBVIOUS
  <2> QED BY <1>1, <2>1 DEF initRec
<1>2. CASE initPlay
  <2>1. seen' \in Seq(Buttons) /\ states' \subseteq [polls : Nat, seen : Seq(Buttons)]
    BY <1>2 DEF initPlay
  <2>2. /\ mode' = "play" /\ ended' = FALSE /\ polls' = 0
        /\ UNCHANGED <<tape, disk, samples, taken, rewound>>
    BY <1>2 DEF initPlay
  <2> QED BY <2>1, <2>2
<1>3. CASE SaveState
  BY <1>3 DEF SaveState
<1>4. CASE finish
  BY <1>4 DEF finish
<1>5. ASSUME NEW b \in Buttons, sampleRec(b) PROVE MovieTyped'
  <2>1. Put(tape, polls, b) \in Seq(Buttons)
    BY DEF Put
  <2> QED BY <1>5, <2>1 DEF sampleRec
<1>6. ASSUME NEW b \in Buttons, samplePlay(b) PROVE MovieTyped'
  <2>1. ~EndOfTape => tape[polls + 1] \in Buttons
    BY DEF EndOfTape
  <2>2. /\ ended' = (ended \/ EndOfTape) /\ polls' \in Nat
        /\ seen' = Append(seen, IF ended \/ EndOfTape THEN b ELSE tape[polls + 1])
    BY <1>6 DEF samplePlay
  <2>3. seen' \in Seq(Buttons)
    BY <2>1, <2>2
  <2>4. ended' \in BOOLEAN
    BY <2>2
  <2> QED BY <1>6, <2>2, <2>3, <2>4 DEF samplePlay
<1>7. ASSUME NEW s \in states, LoadTake(s) PROVE MovieTyped'
  <2>1. ended' \in BOOLEAN /\ rewound' \in BOOLEAN
    BY <1>7 DEF LoadTake, seek
  <2>2. disk' \in Seq(Buttons)
    BY <1>7 DEF LoadTake, seek
  <2> QED BY <1>7, <2>1, <2>2 DEF LoadTake, seek
<1>8. CASE UNCHANGED movieVars
  BY <1>8 DEF movieVars
<1>9. CASE Flush
  BY <1>9 DEF Flush
<1>10. CASE Unclosed
  <2>1. samples' \in Nat \union {NoFile}
    BY <1>10 DEF Unclosed
  <2> QED BY <1>10, <2>1 DEF Unclosed
<1> QED BY <1>1, <1>2, <1>3, <1>4, <1>5, <1>6, <1>7, <1>8, <1>9, <1>10 DEF MovieNext

\* Every step keeps the file the take that is made, or was left there.
LEMMA TakeStaysKept ==
  ASSUME MovieInv, [MovieNext]_movieVars
  PROVE  Recording' /\ Closed'
<1> USE DEF MovieInv, MovieTyped, Recording, Closed, Starts, NoFile
<1>1. CASE initRec
  <2>1. Len(<<>>) = 0
    OBVIOUS
  <2> QED BY <1>1, <2>1 DEF initRec
<1>2. CASE initPlay
  BY <1>2 DEF initPlay
<1>3. CASE SaveState
  BY <1>3 DEF SaveState, Replaying
<1>4. CASE finish
  BY <1>4 DEF finish, Replaying
<1>5. ASSUME NEW b \in Buttons, sampleRec(b) PROVE Recording' /\ Closed'
  <2>1. /\ Len(Put(tape, polls, b)) >= polls + 1 /\ Put(tape, polls, b)[polls + 1] = b
        /\ Len(tape) = polls => Len(Put(tape, polls, b)) = polls + 1
        /\ \A i \in 1 .. polls : Put(tape, polls, b)[i] = tape[i]
    BY <1>5 DEF Put, sampleRec
  <2>2. /\ Len(seen') = polls + 1 /\ seen'[polls + 1] = b
        /\ \A i \in 1 .. polls : seen'[i] = seen[i]
    BY <1>5 DEF sampleRec
  <2> QED BY <1>5, <2>1, <2>2 DEF sampleRec
<1>6. ASSUME NEW b \in Buttons, samplePlay(b) PROVE Recording' /\ Closed'
  BY <1>6 DEF samplePlay
<1>7. ASSUME NEW s \in states, LoadTake(s) PROVE Recording' /\ Closed'
  <2>1. /\ Len(s.seen) <= Len(seen)
        /\ \A i \in 1 .. Len(s.seen) : s.seen[i] = seen[i]
    BY <1>7, PastOfState
  <2>2. /\ polls' = s.polls /\ seen' = s.seen /\ disk' = (IF mode = "rec" THEN tape ELSE disk)
        /\ mode' = mode /\ tape' = tape /\ samples' = samples /\ taken' = taken /\ states' = states
    BY <1>7 DEF LoadTake, seek
  <2>3. rewound' = FALSE => rewound = FALSE /\ (mode = "rec" => ~(s.polls < Len(tape)))
    BY <1>7 DEF LoadTake
  <2>4. s.polls \in Nat /\ s.seen \in Seq(Buttons)
    OBVIOUS
  <2> QED BY <2>1, <2>2, <2>3, <2>4
<1>8. CASE UNCHANGED movieVars
  BY <1>8 DEF movieVars
<1>9. CASE Flush
  BY <1>9 DEF Flush
<1>10. CASE Unclosed
  <2>1. /\ mode = "rec" /\ mode' = "off" /\ tape' = disk /\ taken' = seen /\ rewound' = rewound
        /\ samples' \in {0, -1}
    BY <1>10 DEF Unclosed
  <2> QED BY <2>1
<1> QED BY <1>1, <1>2, <1>3, <1>4, <1>5, <1>6, <1>7, <1>8, <1>9, <1>10 DEF MovieNext

\* Every step keeps the replay at its place on the tape.
LEMMA ReplayStaysKept ==
  ASSUME MovieInv, [MovieNext]_movieVars
  PROVE  Replaying'
<1> USE DEF MovieInv, MovieTyped, Replaying, Starts, Lesser, Readable, NoFile
<1>1. CASE initRec
  BY <1>1 DEF initRec
<1>2. CASE initPlay
  BY <1>2 DEF initPlay, Closed
<1>3. CASE SaveState
  BY <1>3 DEF SaveState
<1>4. CASE finish
  BY <1>4 DEF finish
<1>5. ASSUME NEW b \in Buttons, sampleRec(b) PROVE Replaying'
  BY <1>5 DEF sampleRec
<1>6. ASSUME NEW b \in Buttons, samplePlay(b) PROVE Replaying'
  <2>1. /\ mode = "play" /\ mode' = mode /\ samples' = samples /\ tape' = tape /\ states' = states
        /\ ended' = (ended \/ EndOfTape)
        /\ polls' = IF ended \/ EndOfTape THEN polls ELSE polls + 1
        /\ seen' = Append(seen, IF ended \/ EndOfTape THEN b ELSE tape[polls + 1])
    BY <1>6 DEF samplePlay
  <2>2. Readable <= Len(tape) /\ Readable \in Nat /\ samples \in Nat
    BY <2>1 DEF Closed
  <2>3. CASE ended \/ EndOfTape
    <3>1. polls = Readable
      BY <2>1, <2>2, <2>3 DEF EndOfTape
    <3>2. Len(seen') = Len(seen) + 1 /\ \A i \in 1 .. Len(seen) : seen'[i] = seen[i]
      BY <2>1, <2>3
    <3> QED BY <2>1, <2>2, <2>3, <3>1, <3>2
  <2>4. CASE ~(ended \/ EndOfTape)
    <3>1. polls < Readable /\ polls = Len(seen)
      BY <2>1, <2>2, <2>4 DEF EndOfTape
    <3>2. /\ Len(seen') = polls + 1 /\ seen'[polls + 1] = tape[polls + 1]
          /\ \A i \in 1 .. polls : seen'[i] = seen[i]
      <4>1. polls + 1 \in 1 .. Len(tape)
        BY <2>2, <3>1
      <4>2. tape[polls + 1] \in Buttons
        BY <4>1
      <4>3. seen' = Append(seen, tape[polls + 1])
        BY <2>1, <2>4
      <4> HIDE DEF MovieInv, Readable
      <4> QED BY <3>1, <4>2, <4>3
    <3> QED BY <2>1, <2>2, <2>4, <3>1, <3>2
  <2> QED BY <2>3, <2>4
<1>7. ASSUME NEW s \in states, LoadTake(s) PROVE Replaying'
  <2>1. /\ Len(s.seen) <= Len(seen)
        /\ \A i \in 1 .. Len(s.seen) : s.seen[i] = seen[i]
    BY <1>7, PastOfState
  <2>2. /\ mode' = mode /\ samples' = samples /\ tape' = tape /\ states' = states
        /\ polls' = s.polls /\ (ended' => samples > 0 /\ s.polls >= samples)
        /\ seen' = s.seen
    BY <1>7 DEF LoadTake, seek
  <2> SUFFICES ASSUME mode = "play" PROVE Replaying'
    BY <2>2
  <2>3. s.polls = Lesser(Len(s.seen), Readable) /\ s.polls <= Readable /\ s.seen \in Seq(Buttons) /\ s.polls \in Nat
    OBVIOUS
  <2>4. s.polls <= polls /\ s.polls <= Len(s.seen)
    BY <2>1, <2>3
  <2>5. Starts(s.seen, tape, s.polls)
    BY <2>1, <2>3, <2>4
  <2>6. ended' => s.polls = Readable
    BY <2>2, <2>3
  <2> QED BY <2>2, <2>3, <2>5, <2>6
<1>8. CASE UNCHANGED movieVars
  BY <1>8 DEF movieVars
<1>9. CASE Flush
  BY <1>9 DEF Flush
<1>10. CASE Unclosed
  BY <1>10 DEF Unclosed
<1> QED BY <1>1, <1>2, <1>3, <1>4, <1>5, <1>6, <1>7, <1>8, <1>9, <1>10 DEF MovieNext

\* A replay gives the game the samples of its file and then those of the host, and the file is the
\* take that was kept, or the beginning of one that was never closed and never went back
\* (movie::sample, seek, finish), for takes of any length and any states saved on the way.
THEOREM ReplaysTheTake == MovieSpec => []ReplayIsTake
<1>1. MovieInv /\ [MovieNext]_movieVars => MovieInv'
  BY MovieStaysTyped, TakeStaysKept, ReplayStaysKept DEF MovieInv
<1>2. MovieInv => ReplayIsTake
  BY DEF MovieInv, MovieTyped, Closed, Replaying, Starts, Lesser, Readable, NoFile, ReplayIsTake
<1> QED BY MovieInitial, <1>1, <1>2, PTL DEF MovieSpec

(***************************************************************************)
(* The pad and the cartridge's clock.                                      *)
(***************************************************************************)

JoySpec == (\E b : JoyInit({b})) /\ [][PadNext \/ RtcNext]_busVars

\* The clock of the cartridge: its registers are numbers and show the time.
ClockKept ==
  /\ wall \in Nat
  /\ rtc \in [stopped : BOOLEAN, protected : BOOLEAN, frozen : Int, offset : Int, shown : Int]
  /\ ClockSteady

\* The pad, the two threads and what is known of them, typed.
Pad == [buttons : Nat, stick : Nat, polls : Int, of : Nat]
Poll == [at : {"buttons", "stick"}, left : Int, of : Nat, buttons : Nat, alone : BOOLEAN]
PadKept ==
  /\ pad \in Pad
  /\ asked \in [begun : Nat, cmd : Nat, polls : Int, spent : Nat, crossed : BOOLEAN]
  /\ got \in [of : Nat, buttons : Nat, stick : Nat, begun : Nat, alone : BOOLEAN]
  /\ tele = Quiet \/ tele \in [at : {"buttons", "stick", "polls"}, cmd : Nat, polls : Int]
  /\ poll = Quiet \/ poll \in Poll

\* The data of the pad is never older than its count, and not newer than the last command.
Newer ==
  /\ pad.of <= pad.buttons /\ pad.of <= pad.stick /\ asked.cmd <= asked.begun
  /\ tele = Quiet => pad.buttons = asked.begun /\ pad.stick = asked.begun
  /\ tele # Quiet =>
       /\ tele.cmd = asked.begun /\ pad.buttons <= tele.cmd /\ pad.stick <= tele.cmd
       /\ asked.cmd < tele.cmd
       /\ tele.at \in {"stick", "polls"} => pad.buttons = tele.cmd
       /\ tele.at = "polls" => pad.stick = tele.cmd

\* A poll under way: its count is no newer than the data, and while no command comes the data is
\* that of the last one.
Polling ==
  poll # Quiet =>
    /\ poll.of <= pad.buttons /\ poll.of <= pad.stick /\ poll.left # 0
    /\ poll.at = "stick" => poll.of <= poll.buttons
    /\ poll.alone = TRUE => tele = Quiet /\ (poll.at = "stick" => poll.buttons = asked.begun)

\* A command that crossed no poll: what is left of it, and the poll that spends it.
Spending ==
  asked.crossed = FALSE =>
    /\ pad.of = asked.cmd
    /\ IF asked.polls < 0 THEN pad.polls = asked.polls ELSE asked.spent + pad.polls = asked.polls
    /\ poll # Quiet => (poll.left > 0 => poll.of = asked.cmd /\ poll.left = pad.polls)

Given ==
  /\ got.of <= got.buttons /\ got.of <= got.stick
  /\ got.alone = TRUE => got.buttons = got.begun /\ got.stick = got.begun

PadInv == PadKept /\ Newer /\ Polling /\ Spending /\ Given

\* Every step keeps the clock steady.
LEMMA ClockStep ==
  ASSUME ClockKept, [PadNext \/ RtcNext]_busVars
  PROVE  ClockKept'
<1> DEFINE Clocks == [stopped : BOOLEAN, protected : BOOLEAN, frozen : Int, offset : Int, shown : Int]
<1>1. CASE UNCHANGED <<rtc, wall>>
  BY <1>1 DEF ClockKept, ClockSteady, rtcNow
<1>2. CASE Second
  <2>1. /\ wall \in Nat /\ wall' = wall + 1 /\ rtc' = [rtc EXCEPT !.shown = IF rtc.stopped THEN @ ELSE @ + 1]
    BY <1>2 DEF Second, ClockKept
  <2>2. rtc' \in Clocks
    BY <2>1 DEF ClockKept
  <2>3. rtc'.stopped = rtc.stopped /\ rtc'.frozen = rtc.frozen /\ rtc'.offset = rtc.offset
        /\ rtc'.shown = IF rtc.stopped THEN rtc.shown ELSE rtc.shown + 1
    BY <2>1 DEF ClockKept
  <2>4. ClockSteady'
    BY <2>1, <2>3 DEF ClockKept, ClockSteady, rtcNow
  <2> QED BY <2>1, <2>2, <2>4 DEF ClockKept
<1>3. ASSUME NEW stop \in BOOLEAN, NEW protect \in BOOLEAN, rtcControl(stop, protect), wall' = wall PROVE ClockKept'
  <2>1. /\ rtc' \in Clocks /\ rtc'.stopped = stop /\ rtc'.shown = rtc.shown
        /\ rtc'.frozen = (IF ~rtc.stopped /\ stop THEN rtcNow(rtc) ELSE rtc.frozen)
        /\ rtc'.offset = (IF rtc.stopped /\ ~stop THEN rtc.frozen - wall ELSE rtc.offset)
    <3> DEFINE x == IF ~rtc.stopped /\ stop THEN rtcNow(rtc) ELSE rtc.frozen
               y == IF rtc.stopped /\ ~stop THEN rtc.frozen - wall ELSE rtc.offset
    <3>1. rtc \in Clocks /\ x \in Int /\ y \in Int
      BY DEF ClockKept, rtcNow
    <3>2. rtc' = [rtc EXCEPT !.stopped = stop, !.protected = protect, !.frozen = x, !.offset = y]
      BY <1>3, <3>1 DEF rtcControl
    <3> HIDE DEF x, y
    <3>3. rtc' \in Clocks /\ rtc'.stopped = stop /\ rtc'.shown = rtc.shown /\ rtc'.frozen = x /\ rtc'.offset = y
      BY <3>1, <3>2
    <3> QED BY <3>3 DEF x, y
  <2>2. ClockSteady'
    BY <1>3, <2>1 DEF ClockKept, ClockSteady, rtcNow
  <2> QED BY <1>3, <2>1, <2>2 DEF ClockKept
<1>4. ASSUME NEW t \in 0 .. MaxWall, rtcSet(t), wall' = wall PROVE ClockKept'
  <2>1. CASE rtc.protected \/ ~rtc.stopped
    BY <1>4, <2>1 DEF rtcSet, ClockKept, ClockSteady, rtcNow
  <2>2. CASE ~(rtc.protected \/ ~rtc.stopped)
    <3>1. rtc' \in Clocks /\ rtc'.stopped = rtc.stopped /\ rtc'.frozen = t /\ rtc'.shown = t
      <4>1. rtc \in Clocks /\ t \in Int /\ rtc' = [rtc EXCEPT !.frozen = t, !.shown = t]
        BY <1>4, <2>2 DEF rtcSet, ClockKept
      <4> QED BY <4>1
    <3> QED BY <1>4, <2>2, <3>1 DEF ClockKept, ClockSteady, rtcNow
  <2> QED BY <2>1, <2>2
<1>5. CASE PadNext
  BY <1>1, <1>5 DEF PadNext, PadSetButtons, cmdPad, PollLoad, PollButtons, PollSpend
<1>6. CASE UNCHANGED busVars
  BY <1>1, <1>6 DEF busVars
<1> QED BY <1>2, <1>3, <1>4, <1>5, <1>6 DEF RtcNext, rtcWrite

\* The clock of the cartridge shows the time that was set plus the seconds it ran (rtcWrite, rtcNow).
THEOREM ClockKeepsTime == JoySpec => []ClockSteady
<1>1. (\E b : JoyInit({b})) => ClockKept
  BY DEF JoyInit, ClockKept, ClockSteady, rtcNow
<1>2. ClockKept => ClockSteady
  BY DEF ClockKept
<1> QED BY <1>1, <1>2, ClockStep, PTL DEF JoySpec

\* Every step keeps PadInv.
LEMMA PadStep ==
  ASSUME PadInv, [PadNext \/ RtcNext]_busVars
  PROVE  PadInv'
<1> USE DEF PadInv, PadKept, Pad, Poll, Newer, Polling, Spending, Given, Quiet
<1>1. CASE UNCHANGED <<pad, tele, poll, asked, got>>
  BY <1>1
<1>2. CASE PadSetButtons
  <2>1. PICK n \in Counts : tele' = [at |-> "buttons", cmd |-> asked.begun + 1, polls |-> n]
    BY <1>2 DEF PadSetButtons
  <2>2. n \in Int
    BY JoybusAssumption
  <2>3. /\ tele = Quiet /\ pad' = pad /\ got' = got /\ asked' = [asked EXCEPT !.begun = asked.begun + 1]
        /\ poll' = IF poll.at = "idle" THEN poll ELSE [poll EXCEPT !.alone = FALSE]
    BY <1>2 DEF PadSetButtons
  <2>4. CASE poll = Quiet
    BY <2>1, <2>2, <2>3, <2>4
  <2>5. CASE poll # Quiet
    <3>1. poll \in Poll /\ poll' = [poll EXCEPT !.alone = FALSE]
      BY <2>3, <2>5
    <3>2. /\ poll' \in Poll /\ poll'.alone = FALSE /\ poll'.at = poll.at /\ poll'.left = poll.left
          /\ poll'.of = poll.of /\ poll'.buttons = poll.buttons
      BY <3>1
    <3>3. PadKept' /\ Given'
      BY <2>1, <2>2, <2>3, <3>2
    <3>4. Newer'
      BY <2>1, <2>3
    <3>5. Polling'
      BY <2>3, <2>5, <3>2
    <3>6. Spending'
      BY <2>3, <2>5, <3>2
    <3> QED BY <3>3, <3>4, <3>5, <3>6
  <2> QED BY <2>4, <2>5
<1>3. CASE cmdPad
  <2>1. Publish /\ poll' = poll /\ got' = got
    BY <1>3 DEF cmdPad
  <2>2. tele # Quiet /\ tele \in [at : {"buttons", "stick", "polls"}, cmd : Nat, polls : Int]
    BY <2>1 DEF Publish
  <2>3. CASE tele.at = "buttons"
    <3>1. /\ pad' = [pad EXCEPT !.buttons = tele.cmd] /\ asked' = asked
          /\ tele' = [tele EXCEPT !.at = "stick"]
      BY <2>1, <2>3 DEF Publish, StoreButtons
    <3> QED BY <2>1, <2>2, <2>3, <3>1
  <2>4. CASE tele.at = "stick"
    <3>1. /\ pad' = [pad EXCEPT !.stick = tele.cmd] /\ asked' = asked
          /\ tele' = [tele EXCEPT !.at = "polls"]
      BY <2>1, <2>4 DEF Publish, StoreStick
    <3> QED BY <2>1, <2>2, <2>4, <3>1
  <2>5. CASE tele.at = "polls"
    <3> DEFINE x == IF poll.at = "idle" THEN FALSE ELSE poll.left > 0
    <3>1. /\ pad' = [pad EXCEPT !.polls = tele.polls, !.of = tele.cmd] /\ tele' = Quiet
          /\ asked' = [asked EXCEPT !.cmd = tele.cmd, !.polls = tele.polls, !.spent = 0, !.crossed = x]
      BY <2>1, <2>5 DEF Publish, StorePolls
    <3>2. x \in BOOLEAN /\ (x = FALSE /\ poll # Quiet => ~(poll.left > 0))
      <4>1. CASE poll = Quiet
        BY <4>1
      <4>2. CASE poll # Quiet
        <5>1. poll.at # "idle"
          BY <4>2
        <5>2. x = (poll.left > 0)
          BY <5>1
        <5>3. (poll.left > 0) \in BOOLEAN
          OBVIOUS
        <5> QED BY <5>2, <5>3
      <4> QED BY <4>1, <4>2
    <3> HIDE DEF x
    <3>3. /\ asked' \in [begun : Nat, cmd : Nat, polls : Int, spent : Nat, crossed : BOOLEAN]
          /\ asked'.begun = asked.begun /\ asked'.cmd = tele.cmd /\ asked'.polls = tele.polls
          /\ asked'.spent = 0 /\ asked'.crossed = x
      BY <2>2, <3>1, <3>2
    <3>4. /\ pad' \in Pad /\ pad'.buttons = pad.buttons /\ pad'.stick = pad.stick
          /\ pad'.polls = tele.polls /\ pad'.of = tele.cmd
      BY <2>2, <3>1
    <3>5. PadKept'
      BY <2>1, <3>1, <3>3, <3>4
    <3>6. Newer'
      BY <2>2, <2>5, <3>1, <3>3, <3>4
    <3>7. Polling' /\ Given'
      BY <2>1, <2>2, <3>1, <3>3, <3>4
    <3>8. Spending'
      BY <2>1, <2>2, <3>2, <3>3, <3>4
    <3> QED BY <3>5, <3>6, <3>7, <3>8
  <2> QED BY <2>2, <2>3, <2>4, <2>5
<1>4. CASE PollLoad
  <2> DEFINE y == tele.at = "idle"
  <2>1. /\ poll = Quiet /\ pad.polls # 0 /\ pad' = pad /\ tele' = tele /\ asked' = asked /\ got' = got
        /\ poll' = [at |-> "buttons", left |-> pad.polls, of |-> pad.of, buttons |-> 0, alone |-> y]
    BY <1>4 DEF PollLoad
  <2>2. y \in BOOLEAN /\ (y = TRUE => tele = Quiet)
    OBVIOUS
  <2> HIDE DEF y
  <2>3. /\ poll' \in Poll /\ poll'.at = "buttons" /\ poll'.left = pad.polls /\ poll'.of = pad.of
        /\ poll'.alone = y
    BY <2>1, <2>2
  <2>4. PadKept' /\ Newer' /\ Given'
    BY <2>1, <2>3
  <2>5. Polling'
    BY <2>1, <2>2, <2>3
  <2>6. Spending'
    BY <2>1, <2>3
  <2> QED BY <2>4, <2>5, <2>6
<1>5. CASE PollButtons
  <2>1. /\ poll \in Poll /\ poll # Quiet /\ poll' = [poll EXCEPT !.at = "stick", !.buttons = pad.buttons]
        /\ pad' = pad /\ tele' = tele /\ asked' = asked /\ got' = got
    BY <1>5 DEF PollButtons
  <2> QED BY <2>1
<1>6. CASE PollSpend
  <2>1. /\ poll # Quiet /\ poll \in Poll /\ poll.at = "stick" /\ tele' = tele /\ poll' = Quiet
    BY <1>6 DEF PollSpend
  <2>2. /\ got' = [of |-> poll.of, buttons |-> poll.buttons, stick |-> pad.stick,
                   begun |-> asked.begun, alone |-> poll.alone]
    BY <1>6 DEF PollSpend
  <2>3. /\ got'.of <= got'.buttons /\ got'.of <= got'.stick
        /\ got' \in [of : Nat, buttons : Nat, stick : Nat, begun : Nat, alone : BOOLEAN]
    BY <2>1, <2>2
  <2>4. got'.alone = TRUE => got'.buttons = got'.begun /\ got'.stick = got'.begun
    BY <2>1, <2>2
  <2>5. CASE ~(poll.left > 0)
    BY <1>6, <2>1, <2>3, <2>4, <2>5 DEF PollSpend
  <2>6. CASE poll.left > 0
    <3> DEFINE x == IF poll.of = asked.cmd THEN asked.spent + 1 ELSE asked.spent
    <3>1. /\ pad' = [pad EXCEPT !.polls = poll.left - 1, !.of = poll.of]
          /\ asked' = [asked EXCEPT !.spent = x]
      BY <1>6, <2>6 DEF PollSpend
    <3>2. x \in Nat /\ (poll.of = asked.cmd => x = asked.spent + 1)
      OBVIOUS
    <3> HIDE DEF x
    <3>3. /\ asked' \in [begun : Nat, cmd : Nat, polls : Int, spent : Nat, crossed : BOOLEAN]
          /\ asked'.begun = asked.begun /\ asked'.cmd = asked.cmd /\ asked'.polls = asked.polls
          /\ asked'.spent = x /\ asked'.crossed = asked.crossed
      BY <3>1, <3>2
    <3>4. /\ pad' \in Pad /\ pad'.buttons = pad.buttons /\ pad'.stick = pad.stick
          /\ pad'.polls = poll.left - 1 /\ pad'.of = poll.of
      <4> DEFINE z == poll.left - 1
                 c == poll.of
      <4>1. z \in Int /\ c \in Nat /\ pad \in Pad /\ pad' = [pad EXCEPT !.polls = z, !.of = c]
        BY <2>1, <3>1
      <4>2. pad' \in Pad /\ pad'.buttons = pad.buttons /\ pad'.stick = pad.stick /\ pad'.polls = z /\ pad'.of = c
        <5> HIDE DEF z, c, PadInv, PadKept
        <5> QED BY <4>1
      <4> QED BY <4>2
    <3>5. PadKept' /\ Polling' /\ Given'
      BY <2>1, <2>3, <2>4, <3>3, <3>4
    <3>6. Newer'
      BY <2>1, <3>3, <3>4
    <3>7. Spending'
      BY <2>1, <2>6, <3>2, <3>3, <3>4
    <3> QED BY <3>5, <3>6, <3>7
  <2> QED BY <2>5, <2>6
<1>7. CASE RtcNext
  BY <1>1, <1>7 DEF RtcNext, rtcWrite, Second
<1>8. CASE UNCHANGED busVars
  BY <1>1, <1>8 DEF busVars
<1> QED BY <1>2, <1>3, <1>4, <1>5, <1>6, <1>7, <1>8 DEF PadNext

\* Buttons injected by telemetry reach the game as InjectionWhole says (cmdPad, the read of the
\* buttons in pifProcessJoybus), for any commands at any moment of a poll.
THEOREM InjectionsComeWhole == JoySpec => []InjectionWhole
<1>1. (\E b : JoyInit({b})) => PadInv
  BY DEF JoyInit, PadInv, PadKept, Pad, Poll, Newer, Polling, Spending, Given, Quiet
<1>2. PadInv => InjectionWhole
  BY DEF PadInv, PadKept, Pad, Spending, Given, InjectionWhole
<1> QED BY <1>1, <1>2, PadStep, PTL DEF JoySpec

(***************************************************************************)
(* The media together: each moves as it does by itself.                    *)
(***************************************************************************)

\* A behaviour of them all is a behaviour of each.
LEMMA EachByItself == Spec => SaveSpec /\ TpakSpec /\ MovieSpec /\ JoySpec
<1>1. Init => SaveInit /\ TpakInit /\ MovieInit /\ \E b : JoyInit({b})
  <2> SUFFICES ASSUME Init PROVE \E b : JoyInit({b})
    BY DEF Init
  <2>1. JoyInit({block})
    BY DEF Init, JoyInit
  <2> QED BY <2>1
<1>2. [Next]_allVars => [SaveNext]_saveVars
  BY DEF Next, allVars
<1>3. [Next]_allVars => [TpakNext]_tpakVars
  BY DEF Next, allVars
<1>4. [Next]_allVars => [MovieNext]_movieVars
  BY DEF Next, allVars
<1>5. [Next]_allVars => [PadNext \/ RtcNext]_busVars
  BY DEF Next, allVars
<1> QED BY <1>1, <1>2, <1>3, <1>4, <1>5, PTL DEF Spec, SaveSpec, TpakSpec, MovieSpec, JoySpec

\* What a game or its player stored is on the disk when it is needed again (flushSaveFile, tpakSync,
\* GbCart::flush), for backings and cartridges of any size and through crashes, loaded states,
\* network games and cartridges pulled.
THEOREM SavesAlwaysReach == Spec => []SavesReachDisk
<1>1. NothingLost /\ GbRamKept => SavesReachDisk
  BY DEF SavesReachDisk
<1> QED BY EachByItself, SavesOutlive, CartridgeKeepsRam, <1>1, PTL

\* The clocks of the cartridges show the seconds that went by, whenever they are looked at, stopped,
\* saved or set (rtcSync, rtcNow, rtcWrite), whatever the units of their registers.
THEOREM ClocksStayExact == Spec => []ClocksExact
<1>1. ClockSteady /\ GbClockExact => ClocksExact
  BY DEF ClocksExact
<1> QED BY EachByItself, ClockKeepsTime, CartridgeKeepsTime, <1>1, PTL

\* Injected buttons and the samples of a file reach the game as they were made (cmdPad, movie::sample,
\* seek, finish), for takes of any length, closed or not, for commands at any moment of a poll and
\* with any count; the exceptions are the two that InjectionWhole and ReplayIsTake name.
THEOREM InputsComeExact == Spec => []InputsExact
<1>1. InjectionWhole /\ ReplayIsTake => InputsExact
  BY DEF InputsExact
<1> QED BY EachByItself, InjectionsComeWhole, ReplaysTheTake, <1>1, PTL
=============================================================================
