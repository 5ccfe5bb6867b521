------------------------------- MODULE Movie -------------------------------
(***************************************************************************)
(* Recording and replaying the controller (core/movie.hpp).  A saved state *)
(* carries the number of polls, so that going back in the game goes back   *)
(* on the tape, and what is recorded from there replaces the old take.     *)
(***************************************************************************)
EXTENDS Integers, Sequences, FiniteSets, SequencesExt

CONSTANTS
  Buttons,     \* what a poll of the controller reads
  MaxTape,     \* bound: samples of a movie
  MaxSlots     \* bound: states kept at a time

ASSUME MovieAssumption == MaxTape \in Nat /\ MaxSlots \in Nat

VARIABLES
  mode,        \* movie::mode
  tape,        \* the samples of the file, as the emulator sees it
  disk,        \* those that have left its buffer
  samples,     \* the count of the header, 0 until the file is closed; NoFile when there is none
  polls,       \* movie::polls, where the file is positioned
  ended,       \* movie::ended
  seen,        \* what the game polled, from power-on to now
  taken,       \* ghost: what the game had polled when the recording ended
  rewound,     \* ghost: the recording went back over what it had
  states       \* saved states: the polls they carry and the past they stand for

movieVars == <<mode, tape, disk, samples, polls, ended, seen, taken, rewound, states>>

NoFile == -1

MovieInit ==
  /\ mode = "off" /\ tape = <<>> /\ disk = <<>> /\ samples = NoFile /\ polls = 0 /\ ended = FALSE
  /\ seen = <<>> /\ taken = <<>> /\ rewound = FALSE /\ states = {}

\* movie::init, for a machine that has just been switched on: a recording writes a file of its own
\* over the old one, and any file that has a header can be played, closed or not.
initRec ==
  /\ mode = "off"
  /\ mode' = "rec" /\ tape' = <<>> /\ disk' = <<>> /\ samples' = 0 /\ polls' = 0 /\ ended' = FALSE
  /\ seen' = <<>> /\ taken' = <<>> /\ rewound' = FALSE /\ states' = {}
initPlay ==
  /\ mode = "off" /\ samples # NoFile
  /\ mode' = "play" /\ polls' = 0 /\ ended' = FALSE /\ seen' = <<>> /\ states' = {}
  /\ UNCHANGED <<tape, disk, samples, taken, rewound>>

\* fwrite at the position of the file: over the old take, or at its end.
Put(t, n, b) == IF n < Len(t) THEN [t EXCEPT ![n + 1] = b] ELSE Append(t, b)

\* movie::sample, with the buttons of the host.
sampleRec(b) ==
  /\ mode = "rec" /\ polls < MaxTape
  /\ tape' = Put(tape, polls, b) /\ polls' = polls + 1 /\ seen' = Append(seen, b)
  /\ UNCHANGED <<mode, disk, samples, ended, taken, rewound, states>>
EndOfTape == (samples > 0 /\ polls >= samples) \/ polls >= Len(tape)
samplePlay(b) ==
  /\ mode = "play" /\ Len(seen) < MaxTape
  /\ LET over == ended \/ EndOfTape IN
     /\ ended' = over
     /\ polls' = IF over THEN polls ELSE polls + 1
     /\ seen' = Append(seen, IF over THEN b ELSE tape[polls + 1])
  /\ UNCHANGED <<mode, tape, disk, samples, taken, rewound, states>>

\* The buffer of the file goes to the disk.
Flush ==
  /\ mode = "rec" /\ disk' = tape
  /\ UNCHANGED <<mode, tape, samples, polls, ended, seen, taken, rewound, states>>

SaveState ==
  /\ mode # "off" /\ Cardinality(states) < MaxSlots
  /\ states' = states \union {[polls |-> polls, seen |-> seen]}
  /\ UNCHANGED <<mode, tape, disk, samples, polls, ended, seen, taken, rewound>>

\* movie::seek, called when a state is loaded.  The state belongs to the take
\* that is being made: its past is a past of this game.
seek(n) ==
  /\ polls' = n /\ ended' = (mode = "play" /\ samples > 0 /\ n >= samples)
  /\ disk' = IF mode = "rec" THEN tape ELSE disk
LoadTake(s) ==
  /\ mode # "off" /\ IsPrefix(s.seen, seen)
  /\ seek(s.polls) /\ seen' = s.seen
  /\ rewound' = (rewound \/ (mode = "rec" /\ s.polls < Len(tape)))
  /\ UNCHANGED <<mode, tape, samples, taken, states>>

\* movie::finish.
finish ==
  /\ mode # "off" /\ mode' = "off"
  /\ samples' = IF mode = "rec" THEN polls ELSE samples
  /\ taken' = IF mode = "rec" THEN seen ELSE taken
  /\ disk' = tape
  /\ UNCHANGED <<tape, polls, ended, seen, rewound, states>>

\* A recording that is never closed: the disk was full (movie::sample) or the emulator died.  The
\* header has no count, or is itself not on the disk.
Unclosed ==
  /\ mode = "rec" /\ mode' = "off" /\ tape' = disk /\ taken' = seen
  /\ samples' \in IF disk = <<>> THEN {0, NoFile} ELSE {0}
  /\ UNCHANGED <<disk, polls, ended, seen, rewound, states>>

MovieNext ==
  \/ initRec \/ initPlay \/ Flush \/ SaveState \/ finish \/ Unclosed
  \/ \E b \in Buttons : sampleRec(b) \/ samplePlay(b)
  \/ \E s \in states : LoadTake(s)

----------------------------------------------------------------------------
Lesser(m, n) == IF m < n THEN m ELSE n

\* The samples a replay reads: those the header counts, or all there are.
Readable == IF samples > 0 THEN samples ELSE Len(tape)

\* A replay gives the game the samples of the file, from its beginning and up to its end, after
\* which the host's controller rules, and they are what the game polled when it was recorded:
\*   - the whole take that was kept, when the recording was closed after some poll, however often
\*     it went back and did a stretch again;
\*   - as much of it as reached the disk, when it was not closed and had never gone back.
\* The exception is a header without a count over a recording that went back (never closed, or
\* closed at the poll it started from): what is left of the older take is replayed too.
ReplayIsTake ==
  mode = "play" =>
    /\ polls = Lesser(Len(seen), Readable)
    /\ \A i \in 1 .. polls : seen[i] = tape[i]
    /\ samples > 0 => samples = Len(taken)
    /\ samples > 0 \/ ~rewound => \A i \in 1 .. polls : i <= Len(taken) /\ seen[i] = taken[i]
=============================================================================
