---------------------------- MODULE RewindEngine ----------------------------
(***************************************************************************)
(* The rewind engine as it is kept in memory (core/rewind.cpp): the live   *)
(* photo in full and a queue of differences.  It implements RewindUndo.    *)
(***************************************************************************)
EXTENDS RewindCodec, FiniteSets

CONSTANTS
  Values,        \* bytes
  Sizes,         \* lengths of a photo: the state of a machine may grow
  Interval,      \* Engine::interval, fields between two photos
  Budget         \* Engine::budget, in bytes

ASSUME EngineAssumption == Interval \in Nat \ {0} /\ Budget \in Nat /\ Sizes \subseteq Nat \ {0}

Photo == UNION {[1 .. n -> Values] : n \in Sizes}

VARIABLES machine, enabled, primed, cur, deltas, used, sinceLast

engineVars == <<machine, enabled, primed, cur, deltas, used, sinceLast>>

EngineInit ==
  /\ machine \in Photo /\ enabled \in BOOLEAN /\ primed = FALSE
  /\ cur = <<>> /\ deltas = <<>> /\ used = 0 /\ sinceLast = 0

----------------------------------------------------------------------------
Total(q) == FoldLeft(LAMBDA n, d : n + DeltaSize(d), 0, q)

\* Engine::push: the tape pays for what does not fit with its old end, one
\* difference after another.
Excess(q, u) ==
  CHOOSE n \in 0 .. Len(q) :
    /\ n = Len(q) \/ u - Total(SubSeq(q, 1, n)) <= Budget
    /\ \A k \in 0 .. n - 1 : u - Total(SubSeq(q, 1, k)) > Budget
Push(d) ==
  LET q == Append(deltas, d)
      n == Excess(q, used + DeltaSize(d))
  IN /\ deltas' = SubSeq(q, n + 1, Len(q))
     /\ used' = used + DeltaSize(d) - Total(SubSeq(q, 1, n))

\* Engine::clear
ClearTape == cur' = <<>> /\ deltas' = <<>> /\ used' = 0 /\ sinceLast' = 0 /\ primed' = FALSE

\* The game runs.
Play == /\ machine' \in Photo
        /\ UNCHANGED <<enabled, primed, cur, deltas, used, sinceLast>>

\* Engine::onField
SkipField ==
  /\ enabled /\ sinceLast + 1 < Interval
  /\ sinceLast' = sinceLast + 1
  /\ UNCHANGED <<machine, enabled, primed, cur, deltas, used>>
FirstPhoto ==
  /\ enabled /\ sinceLast + 1 >= Interval /\ ~primed
  /\ cur' = machine /\ primed' = TRUE /\ sinceLast' = 0
  /\ UNCHANGED <<machine, enabled, deltas, used>>
\* The state measures what the photo does: the difference is taken in passing.
HotPhoto(cut) ==
  /\ enabled /\ sinceLast + 1 >= Interval /\ primed /\ Len(machine) = Len(cur)
  /\ LET h == HotDelta(machine, cur, cut) IN h.ok /\ cur' = h.cur /\ Push(h.delta)
  /\ sinceLast' = 0
  /\ UNCHANGED <<machine, enabled, primed>>
FullPhoto ==
  /\ enabled /\ sinceLast + 1 >= Interval /\ primed /\ Len(machine) # Len(cur)
  /\ cur' = machine /\ Push(MakeDelta(machine, cur))
  /\ sinceLast' = 0
  /\ UNCHANGED <<machine, enabled, primed>>

\* Engine::stepBack
StepBack ==
  /\ enabled /\ deltas # <<>>
  /\ LET a == ApplyDelta(cur, Last(deltas))
     IN a.ok /\ machine' = a.photo /\ cur' = a.photo
  /\ used' = used - DeltaSize(Last(deltas)) /\ deltas' = Front(deltas) /\ sinceLast' = 0
  /\ UNCHANGED <<enabled, primed>>

\* A state was loaded, or a network game begins.
Clear == ClearTape /\ UNCHANGED <<machine, enabled>>
\* Engine::configure
Configure == enabled' \in BOOLEAN /\ ClearTape /\ UNCHANGED machine

EngineNext == \/ Play \/ SkipField \/ FirstPhoto \/ FullPhoto \/ StepBack \/ Clear \/ Configure
        \/ \E cut \in 0 .. Len(machine) : HotPhoto(cut)
EngineSpec == EngineInit /\ [][EngineNext]_engineVars

----------------------------------------------------------------------------
(* Properties. *)

\* The photos the differences stand for, rebuilt one from the next.
Rebuilt(q) ==
  FoldRight(LAMBDA d, ps : <<ApplyDelta(Head(ps), d).photo>> \o ps, q, <<cur>>)
Past == IF primed THEN Rebuilt(deltas) ELSE <<>>
Undo == INSTANCE RewindUndo WITH past <- Past

\* Engine implements RewindUndo: through differences made in passing or from two
\* photos, sizes that change and a tape that is full, stepBack returns to the
\* very photos that were taken (onField, push, stepBack, applyDelta).
ImplementsUndo == Undo!Spec

\* The bytes the engine believes the tape to take are the bytes it takes, and
\* within the budget (Engine::used, push, stepBack).
UsedExact == used = Total(deltas) /\ used <= Budget

\* applyDelta never refuses a difference the engine made: a step back that is
\* left on the tape can be taken.
AlwaysApplies == deltas # <<>> => ApplyDelta(cur, Last(deltas)).ok

\* Rewinding keeps its promise within its budget, and can always take the step it offers.
RewindKeeps == ImplementsUndo /\ [](UsedExact /\ AlwaysApplies)
=============================================================================
