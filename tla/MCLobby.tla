------------------------------ MODULE MCLobby ------------------------------
(***************************************************************************)
(* The life of a session and the relay that lets guests reach it, side by  *)
(* side: a behaviour moves one of them, chosen in the initial state.       *)
(***************************************************************************)
EXTENDS NetSession, Relay

VARIABLE focus

LobbyInit == focus \in {"session", "relay"} /\ SessionInit /\ Init

LobbyNext ==
  /\ UNCHANGED focus
  /\ \/ focus = "session" /\ SessionNext /\ UNCHANGED vars
     \/ focus = "relay" /\ Next /\ UNCHANGED sessionVars

MovesSession(A) == focus = "session" /\ A
MovesRelay(A) == focus = "relay" /\ A

\* Every thread runs; a lock that is free again and again is obtained; a receive on a closed
\* connection returns.  Frames need not come.  Whoever connects sends its "hello" or goes away,
\* unless Silent.
SessionFairness ==
  /\ SF_sessionVars(MovesSession(Stopping)) /\ SF_sessionVars(MovesSession(Core))
  /\ WF_sessionVars(MovesSession(AcceptEnd)) /\ WF_sessionVars(MovesSession(Admit))
  /\ WF_sessionVars(MovesSession(RxEnd)) /\ (~Silent => WF_sessionVars(MovesSession(SaysHello)))

\* Threads run and messages on an open connection arrive; time passes.  A guest that is in says
\* "hello" unless it may be silent; no one has to quit, to stop or to come.
RelayFairness ==
  /\ \A h \in Hosts : WF_vars(MovesRelay(HostStep(h)))
  /\ \A g \in Guests : /\ WF_vars(MovesRelay(Handle(g))) /\ WF_vars(MovesRelay(SeeClosed(g)))
                       /\ WF_vars(MovesRelay(Age(g)))
                       /\ ("silent" \notin Failures => WF_vars(MovesRelay(Hello(g))))

LobbySpec ==
  /\ LobbyInit /\ [][LobbyNext]_<<sessionVars, vars, focus>>
  /\ SessionFairness /\ RelayFairness
=============================================================================
