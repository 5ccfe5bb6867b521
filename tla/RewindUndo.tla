----------------------------- MODULE RewindUndo -----------------------------
(***************************************************************************)
(* What rewinding promises (core/rewind.hpp): the machine goes back to the *)
(* photo before the last one, exactly as it was taken, until there is none *)
(* left; a full tape loses the oldest photos, never one in between.        *)
(***************************************************************************)
EXTENDS Naturals, Sequences, SequencesExt

CONSTANT Photo

VARIABLES
  machine,
  past           \* the photos one can go back to, the live one last

Init == machine \in Photo /\ past = <<>>

Play == machine' \in Photo /\ UNCHANGED past

Take == /\ past' \in Suffixes(Append(past, machine)) \ {<<>>}
        /\ UNCHANGED machine

Back == /\ Len(past) > 1
        /\ past' = Front(past)
        /\ machine' = Last(past')

Forget == past' = <<>> /\ UNCHANGED machine

Next == Play \/ Take \/ Back \/ Forget
Spec == Init /\ [][Next]_<<machine, past>>
=============================================================================
