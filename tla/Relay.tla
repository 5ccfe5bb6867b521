------------------------------- MODULE Relay -------------------------------
(***************************************************************************)
(* The relay (net/relay.cpp): where a host and its guests meet when nobody *)
(* can open a port.  The host opens a room and listens on its control      *)
(* connection; for each guest that asks for the room the relay gives it a  *)
(* token, the host comes back with the token on a connection of its own,   *)
(* and the two connections are spliced.  relay::serve runs `handle' on a   *)
(* thread per connection; g_mu guards the rooms and the waiting guests.    *)
(*                                                                         *)
(* A room is known by its host and a token by its guest: both are random   *)
(* and drawn again when they are taken.                                    *)
(***************************************************************************)
EXTENDS Naturals, Sequences, FiniteSets

CONSTANTS
  Hosts, Guests,
  Failures,      \* "connect": the host cannot connect back; "quit": a guest goes away;
                 \* "stop": a host ends its session; "silent": a guest sends no "hello"
  None

VARIABLES
  rooms,         \* g_rooms
  pending,       \* g_pending, and how long: [guest -> "no", "new", "old" (kPendingSecs)]
  host,          \* openRoom, then relayLoop: nextGuest and admit
  admits,        \* the guest whose "hello" relayLoop waits for
  ctl,           \* control connection: "none", "open", "closed"
  tokens,        \* "room.guest" messages on it
  guest,         \* joinRoom: "idle", "asked", "in" (room.ok), "said" (hello), "out"
  wants,         \* the room it asked for
  conn,          \* the guest's connection to the relay: "none", "open", "closed"
  join,          \* its handler in the relay: "none", "join", "tell"
  back,          \* the host's connection for a token: "none", "accept", "spliced",
                 \* "gone" (closed by the host), "closed"
  told           \* the guest's "hello" has reached the host

vars == <<rooms, pending, host, admits, ctl, tokens, guest, wants, conn, join, back, told>>

TypeOK ==
  /\ rooms \subseteq Hosts /\ pending \in [Guests -> {"no", "new", "old"}]
  /\ host \in [Hosts -> {"idle", "asked", "next", "admit", "over"}]
  /\ admits \in [Hosts -> Guests \cup {None}]
  /\ ctl \in [Hosts -> {"none", "open", "closed"}] /\ tokens \in [Hosts -> Seq(Guests)]
  /\ guest \in [Guests -> {"idle", "asked", "in", "said", "out"}]
  /\ wants \in [Guests -> Hosts \cup {None}]
  /\ conn \in [Guests -> {"none", "open", "closed"}]
  /\ join \in [Guests -> {"none", "join", "tell"}]
  /\ back \in [Guests -> {"none", "accept", "spliced", "gone", "closed"}]
  /\ told \in [Guests -> BOOLEAN]

Init ==
  /\ rooms = {} /\ pending = [g \in Guests |-> "no"]
  /\ host = [h \in Hosts |-> "idle"] /\ admits = [h \in Hosts |-> None]
  /\ ctl = [h \in Hosts |-> "none"] /\ tokens = [h \in Hosts |-> <<>>]
  /\ guest = [g \in Guests |-> "idle"] /\ wants = [g \in Guests |-> None]
  /\ conn = [g \in Guests |-> "none"] /\ join = [g \in Guests |-> "none"]
  /\ back = [g \in Guests |-> "none"] /\ told = [g \in Guests |-> FALSE]

\* A set of guests loses its place among the waiting ones, connection included.
DropPending(G) == /\ pending' = [g \in Guests |-> IF g \in G THEN "no" ELSE pending[g]]
                  /\ conn' = [g \in Guests |-> IF g \in G THEN "closed" ELSE conn[g]]

----------------------------------------------------------------------------
(* The host: openRoom, nextGuest, and admit behind it. *)

OpenRoom(h) ==
  /\ host[h] = "idle"
  /\ host' = [host EXCEPT ![h] = "asked"] /\ ctl' = [ctl EXCEPT ![h] = "open"]
  /\ UNCHANGED <<rooms, pending, admits, tokens, guest, wants, conn, join, back, told>>

\* nextGuest: the token of the next guest; a new connection takes it back, if
\* the relay can be reached, and relayLoop waits for the guest's "hello" on it.
NextGuest(h) ==
  /\ host[h] = "next" /\ ctl[h] = "open" /\ tokens[h] # <<>>
  /\ tokens' = [tokens EXCEPT ![h] = Tail(@)]
  /\ \/ /\ host' = [host EXCEPT ![h] = "admit"]
        /\ admits' = [admits EXCEPT ![h] = Head(tokens[h])]
        /\ back' = [back EXCEPT ![Head(tokens[h])] = "accept"]
     \/ "connect" \in Failures /\ UNCHANGED <<host, admits, back>>
  /\ UNCHANGED <<rooms, pending, ctl, guest, wants, conn, join, told>>

\* admit: the "hello" comes, or the connection goes down.
Admitted(h) ==
  /\ host[h] = "admit"
  /\ told[admits[h]] \/ back[admits[h]] \in {"gone", "closed"}
  /\ host' = [host EXCEPT ![h] = IF ctl[h] = "open" THEN "next" ELSE "over"]
  /\ admits' = [admits EXCEPT ![h] = None]
  /\ UNCHANGED <<rooms, pending, ctl, tokens, guest, wants, conn, join, back, told>>

\* stop() closes the control connection.
HostStop(h) ==
  /\ "stop" \in Failures /\ host[h] \in {"next", "admit"} /\ ctl[h] = "open"
  /\ ctl' = [ctl EXCEPT ![h] = "closed"]
  /\ host' = [host EXCEPT ![h] = IF @ = "next" THEN "over" ELSE @]
  /\ UNCHANGED <<rooms, pending, admits, tokens, guest, wants, conn, join, back, told>>

\* ... and the connections of the players it admitted.
HostLeaves(g) ==
  /\ "stop" \in Failures /\ back[g] = "spliced" /\ told[g]
  /\ back' = [back EXCEPT ![g] = "gone"]
  /\ UNCHANGED <<rooms, pending, host, admits, ctl, tokens, guest, wants, conn, join, told>>

----------------------------------------------------------------------------
(* The guest: joinRoom with the code the host gave out, then "hello". *)

JoinRoom(g, h) ==
  /\ guest[g] = "idle" /\ host[h] \notin {"idle", "asked"}
  /\ guest' = [guest EXCEPT ![g] = "asked"] /\ wants' = [wants EXCEPT ![g] = h]
  /\ conn' = [conn EXCEPT ![g] = "open"] /\ join' = [join EXCEPT ![g] = "join"]
  /\ UNCHANGED <<rooms, pending, host, admits, ctl, tokens, back, told>>

Hello(g) ==
  /\ guest[g] = "in" /\ conn[g] = "open"
  /\ guest' = [guest EXCEPT ![g] = "said"]
  /\ UNCHANGED <<rooms, pending, host, admits, ctl, tokens, wants, conn, join, back, told>>

\* The relay has closed the connection: the guest sees it.
SeeClosed(g) ==
  /\ guest[g] \in {"asked", "in", "said"} /\ conn[g] = "closed"
  /\ guest' = [guest EXCEPT ![g] = "out"]
  /\ UNCHANGED <<rooms, pending, host, admits, ctl, tokens, wants, conn, join, back, told>>

Quit(g) ==
  /\ "quit" \in Failures /\ guest[g] \in {"asked", "in", "said"} /\ conn[g] = "open"
  /\ guest' = [guest EXCEPT ![g] = "out"] /\ conn' = [conn EXCEPT ![g] = "closed"]
  /\ UNCHANGED <<rooms, pending, host, admits, ctl, tokens, wants, join, back, told>>

----------------------------------------------------------------------------
(* The relay: handle, one thread per connection. *)

\* room.open: the room is entered, and its code answered.
RoomOpen(h) ==
  /\ host[h] = "asked" /\ h \notin rooms
  /\ rooms' = rooms \cup {h} /\ host' = [host EXCEPT ![h] = "next"]
  /\ UNCHANGED <<pending, admits, ctl, tokens, guest, wants, conn, join, back, told>>

\* The control connection is down: the room goes, and who waited for it.
EndRoomAlone(h) == UNCHANGED <<pending, conn>>
EndWaiting(h) == DropPending({g \in Guests : wants[g] = h /\ pending[g] # "no"})
RoomEnd(h) ==
  /\ h \in rooms /\ ctl[h] = "closed"
  /\ rooms' = rooms \ {h}
  /\ EndWaiting(h)
  /\ UNCHANGED <<host, admits, ctl, tokens, guest, wants, join, back, told>>

\* purgeLocked
TooOld == {g \in Guests : pending[g] = "old"}

\* room.join, with g_mu: the old ones go, and the guest waits, if the room is there.
RoomJoin(g) ==
  /\ join[g] = "join"
  /\ IF wants[g] \in rooms
     THEN /\ pending' = [x \in Guests |-> IF x = g THEN "new"
                                          ELSE IF x \in TooOld THEN "no" ELSE pending[x]]
          /\ conn' = [x \in Guests |-> IF x \in TooOld THEN "closed" ELSE conn[x]]
          /\ join' = [join EXCEPT ![g] = "tell"]
     ELSE /\ DropPending(TooOld \cup {g})
          /\ join' = [join EXCEPT ![g] = "none"]
  /\ UNCHANGED <<rooms, host, admits, ctl, tokens, guest, wants, back, told>>

\* ... then, without g_mu, its token goes to the host of the room.
TellAnyHost(g) == IF rooms = {} THEN wants[g] ELSE CHOOSE h \in rooms : TRUE
TellHost(g) == wants[g]
RoomTell(g) ==
  /\ join[g] = "tell"
  /\ join' = [join EXCEPT ![g] = "none"]
  /\ tokens' = IF ctl[TellHost(g)] = "open" THEN [tokens EXCEPT ![TellHost(g)] = Append(@, g)]
               ELSE tokens
  /\ UNCHANGED <<rooms, pending, host, admits, ctl, guest, wants, conn, back, told>>

\* room.accept: the guest of the token, if it still waits, is told and spliced.
StillWaits(g) == pending[g] # "no"
RoomAccept(g) ==
  /\ back[g] = "accept"
  /\ LET there == StillWaits(g) /\ conn[g] = "open"
     IN /\ back' = [back EXCEPT ![g] = IF there THEN "spliced" ELSE "closed"]
        /\ guest' = [guest EXCEPT ![g] = IF there THEN "in" ELSE @]
        /\ conn' = [conn EXCEPT ![g] = IF StillWaits(g) /\ ~there THEN "closed" ELSE @]
  /\ pending' = [pending EXCEPT ![g] = "no"]
  /\ UNCHANGED <<rooms, host, admits, ctl, tokens, wants, join, told>>

\* pump: what the guest says reaches the host ...
PumpHello(g) ==
  /\ back[g] = "spliced" /\ guest[g] = "said" /\ ~told[g]
  /\ told' = [told EXCEPT ![g] = TRUE]
  /\ UNCHANGED <<rooms, pending, host, admits, ctl, tokens, guest, wants, conn, join, back>>

\* ... and when one side goes down both are closed.
PumpClosesOne(g) ==
  /\ back' = [back EXCEPT ![g] = IF @ = "gone" THEN "closed" ELSE @]
  /\ conn' = conn
PumpCloses(g) ==
  /\ back' = [back EXCEPT ![g] = "closed"]
  /\ conn' = [conn EXCEPT ![g] = "closed"]
PumpEnd(g) ==
  /\ back[g] = "gone" \/ (back[g] = "spliced" /\ conn[g] = "closed")
  /\ PumpCloses(g)
  /\ UNCHANGED <<rooms, pending, host, admits, ctl, tokens, guest, wants, join, told>>

\* kPendingSecs pass.
Age(g) ==
  /\ pending[g] = "new" /\ pending' = [pending EXCEPT ![g] = "old"]
  /\ UNCHANGED <<rooms, host, admits, ctl, tokens, guest, wants, conn, join, back, told>>

----------------------------------------------------------------------------
HostStep(h) == RoomOpen(h) \/ NextGuest(h) \/ Admitted(h) \/ RoomEnd(h)
Handle(g) == RoomJoin(g) \/ RoomTell(g) \/ RoomAccept(g) \/ PumpHello(g) \/ PumpEnd(g)
Next == \/ \E h \in Hosts : OpenRoom(h) \/ HostStep(h) \/ HostStop(h)
        \/ \E g \in Guests : \/ Handle(g) \/ Hello(g) \/ SeeClosed(g) \/ Quit(g) \/ Age(g)
                             \/ HostLeaves(g)
                             \/ \E h \in Hosts : JoinRoom(g, h)

Spec == Init /\ [][Next]_vars

----------------------------------------------------------------------------
(* Properties. *)

\* Whoever waits, waits for a room that is there: no guest is left behind by a
\* room that closed while it was asking (handle, g_mu).
WaitsForARoom == \A g \in Guests : pending[g] # "no" => wants[g] \in rooms

\* A guest is spliced with at most one connection of the host it asked for: a
\* token serves once, and only while its guest waits (room.accept).
TokenServesOnce ==
  [][\A g \in Guests : guest[g] # "in" /\ guest'[g] = "in" =>
       guest[g] = "asked" /\ pending[g] # "no" /\ admits[wants[g]] = g]_vars

\* joinRoom comes to an end: the guest is let in or sees its connection closed
\* (room.accept, purgeLocked, the end of the room), unless its host could not
\* connect back and nobody else joins, when no purge comes.
Forgotten(g) == guest[g] = "asked" /\ pending[g] = "old" /\ join[g] = "none" /\ back[g] = "none"
                  /\ \A h \in Hosts : \A i \in DOMAIN tokens[h] : tokens[h][i] # g
JoinEnds == \A g \in Guests : guest[g] = "asked" ~> guest[g] # "asked" \/ Forgotten(g)

\* Who is spliced with a host that leaves is told so: its connection is closed
\* (pump).
GuestSeesEnd == \A g \in Guests : back[g] = "gone" ~> guest[g] = "out"

\* relayLoop is never held by a guest that has gone: it turns to the next one
\* (pump closes both connections).
LoopGoesOn == \A h \in Hosts : host[h] = "admit" ~> host[h] # "admit"

\* Nobody waits on the relay for ever, whoever leaves and in whatever order.
RelayProgress == JoinEnds /\ GuestSeesEnd /\ LoopGoesOn
=============================================================================
