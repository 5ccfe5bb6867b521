------------------------------- MODULE Joybus -------------------------------
(***************************************************************************)
(* The serial bus of the console (Memory::pifProcessJoybus): the scan of   *)
(* the command block, the controller whose buttons the telemetry thread    *)
(* may replace while the game polls it, the clock of the cartridge, and    *)
(* the question a cartridge puts to its CIC chip.                          *)
(***************************************************************************)
EXTENDS Integers, Sequences, SequencesExt, FiniteSets, Folds

CONSTANTS
  PifLen,     \* bytes of PIF RAM, its control byte included (64)
  BlockBytes, \* bytes of the command blocks that are scanned
  Counts,     \* polls a telemetry command may ask for, negative for no end
  MaxCmds,    \* bound: telemetry commands
  MaxWall     \* bound: seconds of the host's clock

ASSUME JoybusAssumption ==
  /\ PifLen \in Nat \ {0, 1} /\ MaxWall \in Nat
  /\ Counts \subseteq Int /\ MaxCmds \in Nat

Skip == 0      \* 0x00: next channel
Nop  == 255    \* 0xFF
Stop == 254    \* 0xFE

----------------------------------------------------------------------------
(* The scan.  block[1] is byte 0 of PIF RAM.                               *)

At(block, i) == block[i + 1]
TooLong(i, tx, rx) == i + 2 + tx + rx > PifLen \/ i + 2 >= PifLen

\* One turn of the loop at byte s.i; out holds the transactions so far.
ScanByte(block, s) ==
  LET t == At(block, s.i)
      rx == At(block, s.i + 1) % 64
  IN IF t = Stop THEN [s EXCEPT !.over = TRUE]
     ELSE IF t = Skip THEN [s EXCEPT !.channel = @ + 1, !.i = @ + 1]
     ELSE IF t = Nop THEN [s EXCEPT !.i = @ + 1]
     ELSE IF TooLong(s.i, t % 64, rx) THEN [s EXCEPT !.over = TRUE]
     ELSE [s EXCEPT !.out = Append(@, [channel |-> s.channel, at |-> s.i, tx |-> t % 64, rx |-> rx]),
                    !.channel = @ + 1, !.i = @ + 2 + (t % 64) + rx]
ScanStart == [i |-> 0, channel |-> 0, over |-> FALSE, out |-> <<>>]
Scan(block) ==
  FoldFunction(LAMBDA x, s : IF s.over \/ s.i >= PifLen - 1 THEN s ELSE ScanByte(block, s),
               ScanStart, block)

----------------------------------------------------------------------------
(* The CIC challenge, over nibbles.                                        *)

kLut == << 4, 7, 10, 7, 14, 5, 14, 1, 12, 15, 8, 15, 6, 3, 6, 9,
           4, 1, 10, 7, 14, 5, 14, 1, 12, 9, 8, 5, 6, 3, 12, 9 >>
CicSelect(sel, data) ==
  LET high == data \div 8
      mag  == IF high = 1 THEN 7 - (data % 8) ELSE data % 8
      mod  == IF mag % 3 # 1 THEN 1 - high ELSE high
  IN IF sel = 1 /\ data \in {1, 9} THEN 1 ELSE IF sel = 1 /\ data \in {11, 14} THEN 0 ELSE mod
CicStep(nib, c) ==
  LET data == (c.key + 5 * nib) % 16
  IN [key |-> kLut[16 * c.sel + data + 1], sel |-> CicSelect(c.sel, data), out |-> Append(c.out, data)]
CicStart == [key |-> 11, sel |-> 0, out |-> <<>>]
pifCicChallenge(nibbles) == FoldLeft(LAMBDA c, n : CicStep(n, c), CicStart, nibbles).out

\* What the cartridge asked, recovered from the answer alone (5 * 13 = 1 mod 16).
Recovered(answer) ==
  FoldLeft(LAMBDA c, d : [key |-> kLut[16 * c.sel + d + 1], sel |-> CicSelect(c.sel, d),
                          out |-> Append(c.out, (13 * (d - c.key + 16)) % 16)],
           CicStart, answer).out

----------------------------------------------------------------------------
(* The pad and the clock.                                                  *)

VARIABLES
  block,      \* PIF RAM as the game left it
  pad,        \* padRemoteButtons, padRemoteStick, padRemotePolls
  tele,       \* the telemetry thread inside cmdPad
  poll,       \* the CPU thread inside the read of the buttons
  asked,      \* ghost: the commands begun, the one in force and what was spent of it
  got,        \* ghost: what the last injected poll gave the game
  rtc,        \* Memory::Rtc
  wall        \* the host's clock

busVars == <<block, pad, tele, poll, asked, got, rtc, wall>>

Quiet == [at |-> "idle"]

\* A command stands for its buttons and its stick, so a number names what it stores; 0 is none.
\* pad.of is ghost: the command the count of polls comes from.
JoyInit(blocks) ==
  /\ block \in blocks
  /\ pad = [buttons |-> 0, stick |-> 0, polls |-> 0, of |-> 0]
  /\ tele = Quiet /\ poll = Quiet
  /\ asked = [begun |-> 0, cmd |-> 0, polls |-> 0, spent |-> 0, crossed |-> FALSE]
  /\ got = [of |-> 0, buttons |-> 0, stick |-> 0, begun |-> 0, alone |-> TRUE]
  /\ rtc = [stopped |-> FALSE, protected |-> FALSE, frozen |-> 0, offset |-> 0, shown |-> 0]
  /\ wall = 0

\* cmdPad, a store at a time, whatever the game is doing: a command at a time (Server::dispatchMx),
\* for any count.  A poll under way is no longer alone.
PadSetButtons ==
  /\ tele.at = "idle" /\ asked.begun < MaxCmds
  /\ \E n \in Counts : tele' = [at |-> "buttons", cmd |-> asked.begun + 1, polls |-> n]
  /\ asked' = [asked EXCEPT !.begun = @ + 1]
  /\ poll' = IF poll.at = "idle" THEN poll ELSE [poll EXCEPT !.alone = FALSE]
  /\ UNCHANGED <<block, pad, got, rtc, wall>>

StoreButtons == pad' = [pad EXCEPT !.buttons = tele.cmd] /\ asked' = asked
StoreStick == pad' = [pad EXCEPT !.stick = tele.cmd] /\ asked' = asked
\* The count is published into a poll that will store the old one back: the two have crossed.
StorePolls ==
  /\ pad' = [pad EXCEPT !.polls = tele.polls, !.of = tele.cmd]
  /\ asked' = [asked EXCEPT !.cmd = tele.cmd, !.polls = tele.polls, !.spent = 0,
                            !.crossed = IF poll.at = "idle" THEN FALSE ELSE poll.left > 0]
PublishFirst ==
  \/ tele.at = "buttons" /\ StorePolls /\ tele' = [tele EXCEPT !.at = "stick"]
  \/ tele.at = "stick" /\ StoreButtons /\ tele' = [tele EXCEPT !.at = "polls"]
  \/ tele.at = "polls" /\ StoreStick /\ tele' = Quiet
Publish ==
  \/ tele.at = "buttons" /\ StoreButtons /\ tele' = [tele EXCEPT !.at = "stick"]
  \/ tele.at = "stick" /\ StoreStick /\ tele' = [tele EXCEPT !.at = "polls"]
  \/ tele.at = "polls" /\ StorePolls /\ tele' = Quiet
cmdPad == Publish /\ UNCHANGED <<block, poll, got, rtc, wall>>

\* Command 0x01: the polls left, then the buttons, then the stick, then the spend.
PollLoad ==
  /\ poll.at = "idle" /\ pad.polls # 0
  /\ poll' = [at |-> "buttons", left |-> pad.polls, of |-> pad.of, buttons |-> 0,
              alone |-> tele.at = "idle"]
  /\ UNCHANGED <<block, pad, tele, asked, got, rtc, wall>>
PollButtons ==
  /\ poll.at = "buttons"
  /\ poll' = [poll EXCEPT !.at = "stick", !.buttons = pad.buttons]
  /\ UNCHANGED <<block, pad, tele, asked, got, rtc, wall>>
PollSpend ==
  /\ poll.at = "stick"
  /\ got' = [of |-> poll.of, buttons |-> poll.buttons, stick |-> pad.stick,
             begun |-> asked.begun, alone |-> poll.alone]
  /\ IF poll.left > 0
       THEN /\ pad' = [pad EXCEPT !.polls = poll.left - 1, !.of = poll.of]
            /\ asked' = [asked EXCEPT !.spent = IF poll.of = asked.cmd THEN @ + 1 ELSE @]
       ELSE UNCHANGED <<pad, asked>>
  /\ poll' = Quiet /\ UNCHANGED <<block, tele, rtc, wall>>

\* Memory::rtcNow.
rtcNow(r) == IF r.stopped THEN r.frozen ELSE wall + r.offset

\* rtcWrite of block 0: the control register stops and starts the clock.
rtcControl(stop, protect) ==
  rtc' = [rtc EXCEPT !.stopped = stop, !.protected = protect,
                     !.frozen = IF ~rtc.stopped /\ stop THEN rtcNow(rtc) ELSE @,
                     !.offset = IF rtc.stopped /\ ~stop THEN rtc.frozen - wall ELSE @]
\* rtcWrite of block 2: the time, when the clock is stopped and not protected.
rtcSet(t) ==
  rtc' = IF rtc.protected \/ ~rtc.stopped THEN rtc
         ELSE [rtc EXCEPT !.frozen = t, !.shown = t]
rtcWrite ==
  /\ \/ \E stop, protect \in BOOLEAN : rtcControl(stop, protect)
     \/ \E t \in 0 .. MaxWall : rtcSet(t)
  /\ UNCHANGED <<block, pad, tele, poll, asked, got, wall>>

\* A second goes by; shown is a reference clock that only runs while started.
Second ==
  /\ wall < MaxWall /\ wall' = wall + 1
  /\ rtc' = [rtc EXCEPT !.shown = IF rtc.stopped THEN @ ELSE @ + 1]
  /\ UNCHANGED <<block, pad, tele, poll, asked, got>>

PadNext == PadSetButtons \/ cmdPad \/ PollLoad \/ PollButtons \/ PollSpend
RtcNext == rtcWrite \/ Second

----------------------------------------------------------------------------
\* The scan never leaves PIF RAM: every command it carries out lies before the
\* control byte or ends with it, after the ones before it, on a later channel.
ScanInside ==
  LET out == Scan(block).out IN
  \A k \in 1 .. Len(out) :
    /\ out[k].at + 2 + out[k].tx + out[k].rx <= PifLen
    /\ k > 1 => /\ out[k].at >= out[k-1].at + 2 + out[k-1].tx + out[k-1].rx
                /\ out[k].channel > out[k-1].channel

\* The CIC's answer determines the question: no two challenges get one answer.
\* (The first three bytes of the block, as nibbles, stand for the challenge.)
CicDistinguishes ==
  LET nibbles == [i \in 1 .. 3 |-> block[i] % 16] IN Recovered(pifCicChallenge(nibbles)) = nibbles

\* Buttons injected by telemetry, whenever the command comes (cmdPad, the read of the buttons):
\*   - a poll that spends the count of a command sees the buttons and the stick of that command or
\*     of a later one, never older ones (the count is published last and looked at first);
\*   - a poll no command touches sees the buttons and the stick of the last one, both;
\*   - a command is seen for exactly the polls it asks for, or for ever.  The exception is the
\*     command published while a poll stands between its load of the count and its store: that
\*     store may undo it.
InjectionWhole ==
  /\ got.of <= got.buttons /\ got.of <= got.stick
  /\ got.alone => got.buttons = got.begun /\ got.stick = got.begun
  /\ ~asked.crossed => IF asked.polls < 0 THEN pad.polls = asked.polls
                                          ELSE asked.spent + pad.polls = asked.polls

\* The clock of the cartridge shows the time that was set plus the seconds it
\* ran: neither a stop nor a start makes it jump.
ClockSteady == rtcNow(rtc) = rtc.shown
=============================================================================
