------------------------------ MODULE Lockstep ------------------------------
(***************************************************************************)
(* What delay lockstep promises (net/netplay.hpp): one script of inputs    *)
(* per epoch, written once and field by field, and machines that each play *)
(* the script of their epoch from its first field, in order and without    *)
(* skipping any.  The network, the delay and the waiting are not seen here. *)
(***************************************************************************)
EXTENDS Integers

CONSTANTS Machines, Host, Inputs, None, LastEpoch, LastField

Epochs == 0 .. LastEpoch
Fields == 0 .. LastField

VARIABLES
  current,  \* the epoch whose script is being written
  script,   \* the inputs of every field of every epoch, None while undecided
  at        \* epoch, field and inputs a machine is running, None if alone

vars == <<current, script, at>>

Init == /\ current = 0
        /\ script = [e \in Epochs |-> [f \in Fields |-> None]]
        /\ at = [m \in Machines |-> None]

\* The host opens the next epoch, with some of its first fields decided.
Open ==
  /\ current' = current + 1 /\ current' \in Epochs
  /\ script'[current'] \in [Fields -> Inputs \cup {None}] /\ script'[current'][0] # None
  /\ script' = [script EXCEPT ![current'] = script'[current']]
  /\ at' = [at EXCEPT ![Host] = [ep |-> current', f |-> 0, in |-> script'[current'][0]]]

\* One more field of the current epoch is decided, for ever.
Deal(f) ==
  /\ script[current][f] = None
  /\ script'[current][f] \in Inputs
  /\ script' = [script EXCEPT ![current][f] = script'[current][f]]
  /\ UNCHANGED <<current, at>>

\* A machine loads the state an epoch begins with.
Enter(m, e) ==
  /\ script[e][0] # None
  /\ at[m] # None => at[m].ep < e
  /\ at' = [at EXCEPT ![m] = [ep |-> e, f |-> 0, in |-> script[e][0]]]
  /\ UNCHANGED <<current, script>>

\* A machine runs the next field of its epoch, which is decided.
Play(m) ==
  /\ at[m] # None
  /\ LET e == at[m].ep
         f == at[m].f + 1
     IN /\ f \in Fields /\ script[e][f] # None
        /\ at' = [at EXCEPT ![m] = [ep |-> e, f |-> f, in |-> script[e][f]]]
  /\ UNCHANGED <<current, script>>

Leave(m) == at' = [at EXCEPT ![m] = None] /\ UNCHANGED <<current, script>>

Next == \/ Open
        \/ \E f \in Fields : Deal(f)
        \/ \E m \in Machines : Play(m) \/ Leave(m) \/ \E e \in Epochs : Enter(m, e)

Spec == Init /\ [][Next]_vars
=============================================================================
