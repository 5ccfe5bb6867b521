------------------------------- MODULE MCRcp -------------------------------
(***************************************************************************)
(* The devices on the bus and the three handshakes of the RCP's threads,   *)
(* side by side: a behaviour moves one of them, chosen in the initial      *)
(* state. Of the FIFO's inputs a behaviour varies the clocks, or what the  *)
(* guest does to its list: the theorems of RcpProofs vary both.            *)
(***************************************************************************)
EXTENDS Bus, RdpFifo, RspTask, DpcJournal

VARIABLE focus

rcpVars == <<accessVars, fvars, tvars, jvars, focus>>

RcpNext ==
  /\ UNCHANGED focus
  /\ focus # "bus" => UNCHANGED accessVars
  /\ focus \notin {"clocks", "list"} => UNCHANGED fvars
  /\ focus # "task" => UNCHANGED tvars
  /\ focus # "journal" => UNCHANGED jvars
  /\ \/ focus = "bus" /\ BusNext
     \/ focus = "clocks" /\ FifoNext /\ UNCHANGED <<rdram, dpc.frozen>>
     \/ focus = "list" /\ FifoNext /\ UNCHANGED <<now, rspNow>>
     \/ focus = "task" /\ TaskNext
     \/ focus = "journal" /\ JournalNext

RcpInit ==
  /\ focus \in {"bus", "clocks", "list", "task", "journal"}
  /\ BusInit /\ FifoInit /\ TaskInit /\ JournalInit
  /\ focus \notin {"clocks", "list"} => owner = "rsp" /\ \A a \in Addr : rdram[a] = "nop"
  /\ focus = "clocks" => \E a \in Addr : rdram[a] = "sync"
  /\ focus = "list" => owner = "rsp" /\ \E w \in {"nop", "tri"} : rdram = [a \in Addr |-> w]
  /\ focus # "task" => lead = 0 /\ grain = 1 /\ ~withdraws
  /\ focus # "journal" => jlead = 0

Spec == RcpInit /\ [][RcpNext]_rcpVars

-----------------------------------------------------------------------------
\* Nobody waits for a thing that will not come: the drain has its wake-up, the RSP and the CPU never
\* wait for each other, and the end of a task is not dated in the past (rdpSubmit, spBarrierWait,
\* spEndArm).
HandshakesHold ==
  /\ NoLostWakeup
  /\ focus = "task" => NoEmbrace /\ EndNotLate

\* What one thread tells the other is read at its date on the guest's clock and in the order it was
\* told, however far apart the threads are (spStatusForRsp, dpcMbPost), and no work that was signalled
\* is lost (spLateClearHalt).
InGuestTime == SignalAtItsDate /\ MailInOrder /\ [](focus = "task" => NoTaskLost)
=============================================================================
