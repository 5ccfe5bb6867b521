----------------------------- MODULE SaveFiles -----------------------------
(***************************************************************************)
(* The files that keep what a game saves: the cartridge's own memory, the  *)
(* Controller Pak and the RAM of a Game Boy cartridge in a Transfer Pak.   *)
(* They are read when the emulator starts, written when it ends, and the   *)
(* process may die anywhere, between the two halves of a write included.   *)
(***************************************************************************)
EXTENDS Integers, Sequences, SequencesExt

CONSTANTS
  MediaSize,   \* cells of a backing
  Datums,      \* what a cell may hold, Blank aside
  MaxStarts    \* bound: times the emulator is started

ASSUME MediaAssumption == MediaSize \in Nat \ {0} /\ MaxStarts \in Nat

Blank == 0
Backings == {"pak", "gb", "save"}
Cells == 1 .. MediaSize
Fresh == [i \in Cells |-> Blank]

VARIABLES
  back,       \* each backing in memory: its cells
  unsaved,    \* mempakDirty, GbCart::ramDirty and saveDirty
  file,       \* each file: the cells it holds, maybe fewer than the backing
  phase,      \* "off", "on" or "flushing"
  todo,       \* what flushSaveFile has left to do, and whether its file is open
  guest,      \* netplay::tainted: the state in memory is somebody else's
  replaced,   \* ghost: backings whose content came with a loaded state
  clean,      \* ghost: the last session ended by itself (back is what it had)
  starts

saveVars == <<back, unsaved, file, phase, todo, guest, replaced, clean, starts>>

SaveInit ==
  /\ back = [b \in Backings |-> Fresh] /\ unsaved = {}
  /\ file = [b \in Backings |-> <<>>]
  /\ phase = "off" /\ todo = <<>> /\ guest = FALSE /\ replaced = {}
  /\ clean = FALSE
  /\ starts = 0

\* loadInto: what fits of the file, over a formatted backing.
loadInto(cells) == [i \in Cells |-> IF i <= Len(cells) THEN cells[i] ELSE Blank]

\* attachSaveFile, and GbCart::load when the pak is first asked.
attachSaveFile ==
  /\ phase = "off" /\ starts < MaxStarts
  /\ back' = [b \in Backings |-> loadInto(file[b])]
  /\ phase' = "on" /\ unsaved' = {} /\ guest' = FALSE /\ replaced' = {}
  /\ starts' = starts + 1 /\ UNCHANGED <<file, todo, clean>>

\* The game writes: saveWrite, the EEPROM and the pak of the joybus, GbCart::write.
GameWrites(b, i, d) ==
  /\ phase = "on"
  /\ back' = [back EXCEPT ![b][i] = d] /\ unsaved' = unsaved \union {b}
  /\ replaced' = replaced \ {b}
  /\ UNCHANGED <<file, phase, todo, guest, clean, starts>>

\* A state of another moment (all its cells alike): every backing comes with the state, only saveDirty is set.
LoadStateClean(foreign) ==
  /\ phase = "on"
  /\ \E d \in Datums \union {Blank} : back' = [b \in Backings |-> [i \in Cells |-> d]]
  /\ replaced' = Backings /\ guest' = (guest \/ foreign)
  /\ UNCHANGED <<unsaved, file, phase, todo, clean, starts>>
LoadState(foreign) ==
  /\ phase = "on"
  /\ \E d \in Datums \union {Blank} : back' = [b \in Backings |-> [i \in Cells |-> d]]
  /\ unsaved' = unsaved \union {"save"}
  /\ replaced' = Backings /\ guest' = (guest \/ foreign)
  /\ UNCHANGED <<file, phase, todo, clean, starts>>

\* Memory::tpakSync: the Game Boy cartridge is taken out and put back.
tpakSync ==
  /\ phase = "on"
  /\ LET kept == IF "gb" \in unsaved THEN back["gb"] ELSE file["gb"]
     IN /\ file' = [file EXCEPT !["gb"] = kept]
        /\ back' = [back EXCEPT !["gb"] = loadInto(kept)]
  /\ unsaved' = unsaved \ {"gb"} /\ replaced' = replaced \ {"gb"}
  /\ UNCHANGED <<phase, todo, guest, clean, starts>>

\* The order in which flushSaveFile stores what is dirty.
Dirty(b) == IF b \in unsaved THEN <<b>> ELSE <<>>
flushEverybody == Dirty("pak") \o Dirty("gb") \o Dirty("save")
flushSaveFile == IF guest THEN <<>> ELSE Dirty("pak") \o Dirty("gb") \o Dirty("save")

\* ~System.
Exit ==
  /\ phase = "on" /\ phase' = "flushing" /\ todo' = flushSaveFile
  /\ UNCHANGED <<back, unsaved, file, guest, replaced, clean, starts>>

\* storeFrom: fopen "wb" empties the file, fwrite fills it.
StoreOpen ==
  /\ phase = "flushing" /\ todo # <<>> /\ Head(todo) # "fwrite"
  /\ file' = [file EXCEPT ![Head(todo)] = <<>>] /\ todo' = <<"fwrite">> \o todo
  /\ UNCHANGED <<back, unsaved, phase, guest, replaced, clean, starts>>
StoreWrite ==
  /\ phase = "flushing" /\ todo # <<>> /\ Head(todo) = "fwrite"
  /\ file' = [file EXCEPT ![todo[2]] = back[todo[2]]]
  /\ todo' = SubSeq(todo, 3, Len(todo)) /\ unsaved' = unsaved \ {todo[2]}
  /\ UNCHANGED <<back, phase, guest, replaced, clean, starts>>

Leave(tidily) ==
  /\ phase' = "off" /\ todo' = <<>> /\ unsaved' = {} /\ clean' = tidily
  /\ UNCHANGED <<back, guest, replaced, starts>>
Exited == phase = "flushing" /\ todo = <<>> /\ file' = file /\ Leave(TRUE)
\* The process dies; a store that had begun leaves a prefix of its file.
Crash ==
  /\ phase \in {"on", "flushing"} /\ Leave(FALSE)
  /\ IF phase = "flushing" /\ todo # <<>> /\ Head(todo) = "fwrite"
     THEN \E n \in 0 .. MediaSize : file' = [file EXCEPT ![todo[2]] = SubSeq(back[todo[2]], 1, n)]
     ELSE file' = file

SaveNext ==
  \/ attachSaveFile \/ tpakSync \/ Exit \/ StoreOpen \/ StoreWrite \/ Exited \/ Crash
  \/ \E b \in Backings, i \in Cells, d \in Datums : GameWrites(b, i, d)
  \/ \E foreign \in BOOLEAN : LoadState(foreign)

----------------------------------------------------------------------------
\* When the emulator ends by itself, every file holds what was in memory: the
\* next session starts from there.  Two things keep their file as it was: a pak
\* or a Game Boy cartridge whose content came with a loaded state and that the
\* game has not written since, and everything of a guest of a network game.
NothingLost ==
  phase = "off" /\ clean /\ ~guest =>
    \A b \in Backings : b \in replaced \ {"save"} \/ loadInto(file[b]) = back[b]

\* The player who joined somebody's game keeps the save and the pak they had:
\* once a foreign state is in memory, neither file changes until the next start.
OwnSaveKept ==
  [][guest /\ phase # "off" => file'["save"] = file["save"] /\ file'["pak"] = file["pak"]]_saveVars
=============================================================================
