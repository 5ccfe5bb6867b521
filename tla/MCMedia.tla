------------------------------ MODULE MCMedia ------------------------------
(***************************************************************************)
(* The media a game and its player keep things on.  They share no state,   *)
(* so each behaviour moves one of them: focus says which.                  *)
(***************************************************************************)
EXTENDS FlashRam, SaveFiles, Joybus, TransferPak, Movie, SdCard, RewindEngine

VARIABLE focus

PollCounts == {-1, 0, 1, 2}

Parts == {"flash", "files", "scan", "pad", "rtc", "tpak", "movie", "fat", "sc", "tape"}
allVars == <<flashVars, saveVars, busVars, tpakVars, movieVars, sdVars, engineVars, focus>>

Init ==
  /\ focus \in Parts
  /\ FlashInit /\ (focus # "flash" => image = [p \in Pages |-> Erased])
  /\ SaveInit /\ TpakInit /\ MovieInit
  /\ JoyInit(IF focus = "scan" THEN [1 .. PifLen -> BlockBytes] ELSE {[i \in 1 .. PifLen |-> Skip]})
  /\ SdInit(IF focus = "fat" THEN Folders ELSE {<<Root>>})
  /\ EngineInit /\ (focus # "tape" => ~enabled /\ machine = CHOOSE p \in Photo : TRUE)

Next ==
  /\ UNCHANGED focus
  /\ focus # "flash" => UNCHANGED flashVars
  /\ focus # "files" => UNCHANGED saveVars
  /\ focus \notin {"pad", "rtc"} => UNCHANGED busVars
  /\ focus # "tpak" => UNCHANGED tpakVars
  /\ focus # "movie" => UNCHANGED movieVars
  /\ focus # "sc" => UNCHANGED sdVars
  /\ focus # "tape" => UNCHANGED engineVars
  /\ \/ focus = "flash" /\ FlashNext
     \/ focus = "files" /\ SaveNext
     \/ focus = "pad" /\ PadNext
     \/ focus = "rtc" /\ RtcNext
     \/ focus = "tpak" /\ TpakNext
     \/ focus = "movie" /\ MovieNext
     \/ focus = "sc" /\ SdNext
     \/ focus = "tape" /\ EngineNext

Spec == Init /\ [][Next]_allVars

-----------------------------------------------------------------------------
\* What a game or its player stored is on the disk when it is needed again: the battery, the paks
\* and the Game Boy's RAM, through resets, loaded states, cartridges pulled and network games.
SavesReachDisk ==
  /\ focus = "files" => NothingLost
  /\ focus = "tpak" => GbRamKept

\* Input reaches the game whole and as it was made: telemetry's injected buttons and the polls of a
\* recorded take.
InputsExact ==
  /\ focus = "pad" => InjectionWhole
  /\ focus = "movie" => ReplayIsTake

\* The clocks a cartridge carries show the seconds that went by, whenever they are looked at,
\* stopped, latched, saved or set.
ClocksExact ==
  /\ focus = "rtc" => ClockSteady
  /\ focus = "tpak" => GbClockExact

\* A step moves only what it should: a transfer of the card the sectors it reports, a step of the
\* rewind the machine back to the photo it was.
StepsKeep == TransferAgrees /\ RewindKeeps

\* What is computed from bytes or files on the spot is right: the scan of a command block stays in PIF
\* RAM, the CIC's answer determines the question, and the card a folder of the host is shown as
\* reads as the files of that folder, for any tree of files (SdCard::build, findExtent, virtualSector).
DecodersExact ==
  /\ focus = "scan" => ScanInside /\ CicDistinguishes
  /\ focus = "fat" => FatIsSound
=============================================================================
