---------------------------- MODULE LobbyProofs ----------------------------
(***************************************************************************)
(* What is proved of Relay, for any hosts and guests, and of the life of a *)
(* session (NetSession), for any number of sessions.                       *)
(***************************************************************************)
EXTENDS NetSession, Relay, SequenceTheorems, TLAPS

\* No one waits, or is being entered by room.join, before it has asked for a room.
AskedFirst ==
  \A g \in Guests : pending[g] # "no" \/ join[g] # "none" => guest[g] # "idle"

Inv == TypeOK /\ WaitsForARoom /\ AskedFirst

\* Every state is well typed (all of relay.cpp).
LEMMA TypeStep == TypeOK /\ [Next]_vars => TypeOK'
<1> SUFFICES ASSUME TypeOK, [Next]_vars PROVE TypeOK'
  OBVIOUS
<1> USE DEF TypeOK
<1>1. CASE UNCHANGED vars
  BY <1>1 DEF vars
<1>2. ASSUME NEW h \in Hosts, OpenRoom(h) PROVE TypeOK'
  BY <1>2 DEF OpenRoom
<1>3. ASSUME NEW h \in Hosts, RoomOpen(h) PROVE TypeOK'
  BY <1>3 DEF RoomOpen
<1>4. ASSUME NEW h \in Hosts, NextGuest(h) PROVE TypeOK'
  <2>1. tokens[h] \in Seq(Guests) /\ tokens[h] # <<>>
    BY <1>4 DEF NextGuest
  <2>2. Head(tokens[h]) \in Guests /\ Tail(tokens[h]) \in Seq(Guests)
    BY <2>1
  <2>3. tokens' \in [Hosts -> Seq(Guests)]
    BY <1>4, <2>2 DEF NextGuest
  <2> DEFINE g == Head(tokens[h])
  <2>4. CASE /\ host' = [host EXCEPT ![h] = "admit"]
             /\ admits' = [admits EXCEPT ![h] = g]
             /\ back' = [back EXCEPT ![g] = "accept"]
    <3>1. g \in Guests
      BY <2>2
    <3> HIDE DEF g
    <3>2. /\ host' \in [Hosts -> {"idle", "asked", "next", "admit", "over"}]
          /\ admits' \in [Hosts -> Guests \cup {None}]
          /\ back' \in [Guests -> {"none", "accept", "spliced", "gone", "closed"}]
      BY <2>4, <3>1
    <3> QED
      BY <1>4, <2>3, <3>2 DEF NextGuest
  <2>5. CASE UNCHANGED <<host, admits, back>>
    BY <1>4, <2>3, <2>5 DEF NextGuest
  <2> QED
    BY <1>4, <2>4, <2>5 DEF NextGuest
<1>5. ASSUME NEW h \in Hosts, Admitted(h) PROVE TypeOK'
  BY <1>5 DEF Admitted
<1>6. ASSUME NEW h \in Hosts, RoomEnd(h) PROVE TypeOK'
  BY <1>6 DEF RoomEnd, EndWaiting, DropPending
<1>7. ASSUME NEW h \in Hosts, HostStop(h) PROVE TypeOK'
  BY <1>7 DEF HostStop
<1>8. ASSUME NEW g \in Guests, RoomJoin(g) PROVE TypeOK'
  <2>1. /\ pending' \in [Guests -> {"no", "new", "old"}]
        /\ conn' \in [Guests -> {"none", "open", "closed"}]
        /\ join' \in [Guests -> {"none", "join", "tell"}]
    <3>1. CASE wants[g] \in rooms
      BY <1>8, <3>1 DEF RoomJoin
    <3>2. CASE wants[g] \notin rooms
      <4>1. pending' \in [Guests -> {"no", "new", "old"}]
        BY <1>8, <3>2 DEF RoomJoin, DropPending
      <4>2. conn' \in [Guests -> {"none", "open", "closed"}]
        BY <1>8, <3>2 DEF RoomJoin, DropPending
      <4>3. join' \in [Guests -> {"none", "join", "tell"}]
        BY <1>8, <3>2 DEF RoomJoin
      <4> QED
        BY <4>1, <4>2, <4>3
    <3> QED
      BY <3>1, <3>2
  <2> QED
    BY <1>8, <2>1 DEF RoomJoin
<1>9. ASSUME NEW g \in Guests, RoomTell(g) PROVE TypeOK'
  <2>1. tokens' \in [Hosts -> Seq(Guests)]
    <3>1. CASE tokens' = tokens
      BY <3>1
    <3>2. CASE tokens' = [tokens EXCEPT ![TellHost(g)] = Append(@, g)]
      <4>1. \A h \in Hosts : Append(tokens[h], g) \in Seq(Guests)
        OBVIOUS
      <4>2. \A h \in Hosts : tokens'[h] \in Seq(Guests)
        BY <3>2, <4>1
      <4> QED
        BY <3>2, <4>2
    <3> QED
      BY <1>9, <3>1, <3>2 DEF RoomTell
  <2> QED
    BY <1>9, <2>1 DEF RoomTell
<1>10. ASSUME NEW g \in Guests, RoomAccept(g) PROVE TypeOK'
  BY <1>10 DEF RoomAccept
<1>11. ASSUME NEW g \in Guests, PumpHello(g) PROVE TypeOK'
  BY <1>11 DEF PumpHello
<1>12. ASSUME NEW g \in Guests, PumpEnd(g) PROVE TypeOK'
  BY <1>12 DEF PumpEnd, PumpCloses
<1>13. ASSUME NEW g \in Guests, Hello(g) PROVE TypeOK'
  BY <1>13 DEF Hello
<1>14. ASSUME NEW g \in Guests, SeeClosed(g) PROVE TypeOK'
  BY <1>14 DEF SeeClosed
<1>15. ASSUME NEW g \in Guests, Quit(g) PROVE TypeOK'
  BY <1>15 DEF Quit
<1>16. ASSUME NEW g \in Guests, Age(g) PROVE TypeOK'
  BY <1>16 DEF Age
<1>17. ASSUME NEW g \in Guests, HostLeaves(g) PROVE TypeOK'
  BY <1>17 DEF HostLeaves
<1>18. ASSUME NEW g \in Guests, NEW h \in Hosts, JoinRoom(g, h) PROVE TypeOK'
  BY <1>18 DEF JoinRoom
<1> QED
  BY <1>1, <1>2, <1>3, <1>4, <1>5, <1>6, <1>7, <1>8, <1>9, <1>10, <1>11, <1>12, <1>13, <1>14,
     <1>15, <1>16, <1>17, <1>18 DEF Next, HostStep, Handle

\* A step keeps every waiting guest with a room that is there: only the end of
\* a room takes one away, and it takes its guests along under the same g_mu.
LEMMA WaitStep == Inv /\ [Next]_vars => (WaitsForARoom /\ AskedFirst)'
<1> SUFFICES ASSUME TypeOK, WaitsForARoom, AskedFirst, [Next]_vars
             PROVE  (WaitsForARoom /\ AskedFirst)'
  BY DEF Inv
<1> USE DEF TypeOK, WaitsForARoom, AskedFirst
<1>1. CASE UNCHANGED vars
  BY <1>1 DEF vars
<1>2. ASSUME NEW h \in Hosts, OpenRoom(h) PROVE (WaitsForARoom /\ AskedFirst)'
  BY <1>2 DEF OpenRoom
<1>3. ASSUME NEW h \in Hosts, RoomOpen(h) PROVE (WaitsForARoom /\ AskedFirst)'
  BY <1>3 DEF RoomOpen
<1>4. ASSUME NEW h \in Hosts, NextGuest(h) PROVE (WaitsForARoom /\ AskedFirst)'
  BY <1>4 DEF NextGuest
<1>5. ASSUME NEW h \in Hosts, Admitted(h) PROVE (WaitsForARoom /\ AskedFirst)'
  BY <1>5 DEF Admitted
<1>6. ASSUME NEW h \in Hosts, RoomEnd(h) PROVE (WaitsForARoom /\ AskedFirst)'
  BY <1>6 DEF RoomEnd, EndWaiting, DropPending
<1>7. ASSUME NEW h \in Hosts, HostStop(h) PROVE (WaitsForARoom /\ AskedFirst)'
  BY <1>7 DEF HostStop
<1>8. ASSUME NEW g \in Guests, RoomJoin(g) PROVE (WaitsForARoom /\ AskedFirst)'
  BY <1>8 DEF RoomJoin, DropPending
<1>9. ASSUME NEW g \in Guests, RoomTell(g) PROVE (WaitsForARoom /\ AskedFirst)'
  BY <1>9 DEF RoomTell
<1>10. ASSUME NEW g \in Guests, RoomAccept(g) PROVE (WaitsForARoom /\ AskedFirst)'
  BY <1>10 DEF RoomAccept
<1>11. ASSUME NEW g \in Guests, PumpHello(g) PROVE (WaitsForARoom /\ AskedFirst)'
  BY <1>11 DEF PumpHello
<1>12. ASSUME NEW g \in Guests, PumpEnd(g) PROVE (WaitsForARoom /\ AskedFirst)'
  BY <1>12 DEF PumpEnd, PumpCloses
<1>13. ASSUME NEW g \in Guests, Hello(g) PROVE (WaitsForARoom /\ AskedFirst)'
  BY <1>13 DEF Hello
<1>14. ASSUME NEW g \in Guests, SeeClosed(g) PROVE (WaitsForARoom /\ AskedFirst)'
  BY <1>14 DEF SeeClosed
<1>15. ASSUME NEW g \in Guests, Quit(g) PROVE (WaitsForARoom /\ AskedFirst)'
  BY <1>15 DEF Quit
<1>16. ASSUME NEW g \in Guests, Age(g) PROVE (WaitsForARoom /\ AskedFirst)'
  BY <1>16 DEF Age
<1>17. ASSUME NEW g \in Guests, HostLeaves(g) PROVE (WaitsForARoom /\ AskedFirst)'
  BY <1>17 DEF HostLeaves
<1>18. ASSUME NEW g \in Guests, NEW h \in Hosts, JoinRoom(g, h)
       PROVE (WaitsForARoom /\ AskedFirst)'
  BY <1>18 DEF JoinRoom
<1> QED
  BY <1>1, <1>2, <1>3, <1>4, <1>5, <1>6, <1>7, <1>8, <1>9, <1>10, <1>11, <1>12, <1>13, <1>14,
     <1>15, <1>16, <1>17, <1>18 DEF Next, HostStep, Handle

\* The relay keeps no guest waiting for a room that has gone (handle, g_mu), for
\* any number of hosts and guests and whatever fails.
THEOREM NobodyLeftBehind == Spec => []WaitsForARoom
<1>1. Init => Inv
  BY DEF Init, Inv, TypeOK, WaitsForARoom, AskedFirst
<1>2. Inv /\ [Next]_vars => Inv'
  BY TypeStep, WaitStep DEF Inv
<1>3. Inv => WaitsForARoom
  BY DEF Inv
<1> QED
  BY <1>1, <1>2, <1>3, PTL DEF Spec

----------------------------------------------------------------------------
(* TokenServesOnce: where a token is. *)

\* A token on its way names a guest that asked this host, has left room.join and has not been
\* accepted, and is there once.
TokensInFlight ==
  \A h \in Hosts : \A i \in 1 .. Len(tokens[h]) :
    /\ wants[tokens[h][i]] = h /\ join[tokens[h][i]] = "none" /\ back[tokens[h][i]] = "none"
    /\ guest[tokens[h][i]] # "idle"
    /\ \A k \in 1 .. Len(tokens[h]) : tokens[h][k] = tokens[h][i] => k = i

\* Who is still in room.join has no connection of the host yet, and is not let in.
JoiningIsEarly ==
  \A g \in Guests : join[g] # "none" => /\ back[g] = "none" /\ wants[g] \in Hosts
                                        /\ guest[g] \in {"asked", "out"}

\* The connection that brings a token back is the one its host's relayLoop waits on.
BackIsAdmitted ==
  \A g \in Guests :
    /\ back[g] = "accept" => /\ wants[g] \in Hosts /\ host[wants[g]] = "admit"
                             /\ admits[wants[g]] = g
    /\ back[g] \in {"none", "accept"} => ~told[g]

\* Who waits has asked and is not in; who went away has closed its connection.
WaitingIsOut ==
  \A g \in Guests : /\ pending[g] # "no" => guest[g] \in {"asked", "out"} /\ wants[g] \in Hosts
                    /\ guest[g] = "out" => conn[g] = "closed"
                    /\ guest[g] = "idle" => back[g] = "none" /\ join[g] = "none"

TokenInv == TypeOK /\ TokensInFlight /\ JoiningIsEarly /\ BackIsAdmitted /\ WaitingIsOut

\* The parts of the invariant that a step other than RoomTell and NextGuest keeps: it moves no
\* token and brings no connection back.
LEMMA TokenQuiet ==
  ASSUME TokenInv, TypeOK', UNCHANGED <<tokens, admits>>,
         \A h \in Hosts : host[h] = "admit" => host'[h] = "admit",
         \A g \in Guests : guest[g] # "idle" => wants'[g] = wants[g] /\ guest'[g] # "idle",
         \A g \in Guests : join'[g] = join[g] \/ join[g] # "none" \/ guest[g] = "idle",
         \A g \in Guests : back'[g] = back[g] \/ (back[g] # "none" /\ back'[g] \notin {"none", "accept"}),
         \A g \in Guests : told'[g] = told[g] \/ back[g] = "spliced"
  PROVE  TokensInFlight' /\ BackIsAdmitted'
<1>1. TokensInFlight'
  <2> SUFFICES ASSUME NEW h \in Hosts, NEW i \in 1 .. Len(tokens[h])
               PROVE  /\ wants'[tokens[h][i]] = h /\ join'[tokens[h][i]] = "none"
                      /\ back'[tokens[h][i]] = "none" /\ guest'[tokens[h][i]] # "idle"
                      /\ \A k \in 1 .. Len(tokens[h]) : tokens[h][k] = tokens[h][i] => k = i
    BY DEF TokensInFlight
  <2>1. tokens[h] \in Seq(Guests) /\ tokens[h][i] \in Guests
    BY DEF TokenInv, TypeOK
  <2> QED BY <2>1 DEF TokenInv, TokensInFlight
<1>2. BackIsAdmitted'
  <2> SUFFICES ASSUME NEW g \in Guests
               PROVE  /\ back'[g] = "accept" => /\ wants'[g] \in Hosts /\ host'[wants'[g]] = "admit"
                                                /\ admits[wants'[g]] = g
                      /\ back'[g] \in {"none", "accept"} => ~told'[g]
    BY DEF BackIsAdmitted
  <2>1. /\ back[g] = "accept" => wants[g] \in Hosts /\ host[wants[g]] = "admit" /\ admits[wants[g]] = g
        /\ back[g] \in {"none", "accept"} => ~told[g]
        /\ guest[g] = "idle" => back[g] = "none"
    BY DEF TokenInv, BackIsAdmitted, WaitingIsOut
  <2> QED BY <2>1
<1> QED BY <1>1, <1>2

\* NextGuest takes the head of the tokens: no other token names that guest any more.
LEMMA TokenTaken ==
  ASSUME TokenInv, TypeOK', NEW h \in Hosts, NextGuest(h)
  PROVE  TokenInv'
<1> DEFINE g == Head(tokens[h])
<1>1. /\ tokens[h] \in Seq(Guests) /\ tokens[h] # <<>> /\ g \in Guests /\ g = tokens[h][1]
      /\ 1 \in 1 .. Len(tokens[h]) /\ Len(tokens[h]) \in Nat
  BY DEF TokenInv, TypeOK, NextGuest
<1>2. /\ tokens'[h] = Tail(tokens[h]) /\ \A x \in Hosts \ {h} : tokens'[x] = tokens[x]
      /\ Len(Tail(tokens[h])) = Len(tokens[h]) - 1
      /\ \A i \in 1 .. Len(tokens[h]) - 1 : Tail(tokens[h])[i] = tokens[h][i + 1]
  BY <1>1 DEF NextGuest, TokenInv, TypeOK
<1>3. /\ wants[g] = h /\ join[g] = "none" /\ back[g] = "none" /\ guest[g] # "idle" /\ ~told[g]
      /\ \A k \in 1 .. Len(tokens[h]) : tokens[h][k] = g => k = 1
  BY <1>1 DEF TokenInv, TokensInFlight, BackIsAdmitted
<1>4. \A x \in Hosts, i \in Nat :
        i \in 1 .. Len(tokens'[x]) =>
          /\ \E k \in 1 .. Len(tokens[x]) : k = (IF x = h THEN i + 1 ELSE i) /\ tokens'[x][i] = tokens[x][k]
          /\ tokens'[x][i] \in Guests
  <2> SUFFICES ASSUME NEW x \in Hosts, NEW i \in Nat, i \in 1 .. Len(tokens'[x])
               PROVE  LET k == IF x = h THEN i + 1 ELSE i
                      IN  k \in 1 .. Len(tokens[x]) /\ tokens'[x][i] = tokens[x][k]
                          /\ tokens[x][k] \in Guests
    OBVIOUS
  <2>1. tokens[x] \in Seq(Guests) /\ Len(tokens[x]) \in Nat
    BY DEF TokenInv, TypeOK
  <2>2. CASE x = h
    <3>1. Len(tokens'[h]) = Len(tokens[h]) - 1
      BY <1>2
    <3>2. i \in 1 .. Len(tokens[h]) - 1 /\ i + 1 \in 1 .. Len(tokens[h])
      BY <2>1, <2>2, <3>1
    <3>3. tokens'[h][i] = tokens[h][i + 1]
      BY <1>2, <3>2
    <3> QED BY <2>1, <2>2, <3>2, <3>3
  <2>3. CASE x # h
    BY <1>2, <2>1, <2>3
  <2> QED BY <2>2, <2>3
<1> HIDE DEF g
<1>5. \A x \in Hosts, i \in Nat : i \in 1 .. Len(tokens'[x]) => tokens'[x][i] # g
  <2> SUFFICES ASSUME NEW x \in Hosts, NEW i \in Nat, i \in 1 .. Len(tokens'[x]), tokens'[x][i] = g
               PROVE  FALSE
    OBVIOUS
  <2>1. PICK k \in 1 .. Len(tokens[x]) : k = (IF x = h THEN i + 1 ELSE i) /\ tokens[x][k] = g
    BY <1>4
  <2>2. wants[g] = x
    BY <2>1 DEF TokenInv, TokensInFlight
  <2> QED BY <1>3, <2>1, <2>2
<1>6. \A x \in Guests : x # g => back'[x] = back[x]
  BY <1>1 DEF NextGuest, g, TokenInv, TypeOK
<1>7. TokensInFlight'
  <2> SUFFICES ASSUME NEW x \in Hosts, NEW i \in 1 .. Len(tokens'[x])
               PROVE  /\ wants'[tokens'[x][i]] = x /\ join'[tokens'[x][i]] = "none"
                      /\ back'[tokens'[x][i]] = "none" /\ guest'[tokens'[x][i]] # "idle"
                      /\ \A k \in 1 .. Len(tokens'[x]) : tokens'[x][k] = tokens'[x][i] => k = i
    BY DEF TokensInFlight
  <2>1. PICK k \in 1 .. Len(tokens[x]) : k = (IF x = h THEN i + 1 ELSE i) /\ tokens'[x][i] = tokens[x][k]
    BY <1>4
  <2>2. ASSUME NEW j \in 1 .. Len(tokens'[x]), tokens'[x][j] = tokens'[x][i]
        PROVE  j = i
    <3>1. PICK l \in 1 .. Len(tokens[x]) : l = (IF x = h THEN j + 1 ELSE j) /\ tokens'[x][j] = tokens[x][l]
      BY <1>4
    <3>2. tokens[x][l] = tokens[x][k]
      BY <2>1, <2>2, <3>1
    <3>3. l = k
      BY <3>2 DEF TokenInv, TokensInFlight
    <3> QED BY <2>1, <3>1, <3>3
  <2>3. tokens[x][k] \in Guests /\ tokens[x][k] # g
    BY SMTT(60), <1>4, <1>5, <2>1
  <2>4. wants[tokens[x][k]] = x /\ join[tokens[x][k]] = "none" /\ back[tokens[x][k]] = "none"
        /\ guest[tokens[x][k]] # "idle"
    BY DEF TokenInv, TokensInFlight
  <2> QED BY <1>6, <2>1, <2>2, <2>3, <2>4 DEF NextGuest
<1>8. BackIsAdmitted'
  <2> SUFFICES ASSUME NEW x \in Guests
               PROVE  /\ back'[x] = "accept" => /\ wants[x] \in Hosts /\ host'[wants[x]] = "admit"
                                                /\ admits'[wants[x]] = x
                      /\ back'[x] \in {"none", "accept"} => ~told[x]
    BY DEF BackIsAdmitted, NextGuest
  <2>1. CASE x = g
    <3>1. back'[g] = "accept" => host'[h] = "admit" /\ admits'[h] = g
      BY <1>1, <1>3 DEF NextGuest, g, TokenInv, TypeOK
    <3> QED BY <1>3, <2>1, <3>1
  <2>2. CASE x # g
    <3>1. back[x] = "accept" => wants[x] \in Hosts /\ host[wants[x]] = "admit" /\ admits[wants[x]] = x
      BY DEF TokenInv, BackIsAdmitted
    <3>2. back[x] = "accept" => wants[x] # h
      BY <3>1 DEF NextGuest
    <3>3. \A y \in Hosts : y # h => host'[y] = host[y] /\ admits'[y] = admits[y]
      BY DEF NextGuest, TokenInv, TypeOK
    <3> QED BY <1>6, <2>2, <3>1, <3>2, <3>3 DEF TokenInv, BackIsAdmitted
  <2> QED BY <2>1, <2>2
<1>9. JoiningIsEarly' /\ WaitingIsOut'
  <2>1. /\ join' = join /\ guest' = guest /\ wants' = wants /\ conn' = conn /\ pending' = pending
    BY DEF NextGuest
  <2> QED BY <1>3, <1>6, <2>1 DEF TokenInv, JoiningIsEarly, WaitingIsOut
<1> QED BY <1>7, <1>8, <1>9 DEF TokenInv

\* RoomTell sends the token of a guest that has none on its way.
LEMMA TokenTold ==
  ASSUME TokenInv, TypeOK', NEW g \in Guests, RoomTell(g)
  PROVE  TokenInv'
<1> DEFINE h == wants[g]
<1>1. h \in Hosts /\ back[g] = "none" /\ guest[g] \in {"asked", "out"} /\ ~told[g] /\ join[g] # "none"
  BY DEF RoomTell, TokenInv, JoiningIsEarly, BackIsAdmitted
<1>2. \A x \in Hosts : \A i \in 1 .. Len(tokens[x]) : tokens[x][i] # g /\ tokens[x][i] \in Guests
  BY <1>1 DEF TokenInv, TypeOK, TokensInFlight
<1>3. /\ join'[g] = "none" /\ \A x \in Guests : x # g => join'[x] = join[x]
  BY DEF RoomTell, TokenInv, TypeOK
<1>4. \A x \in Hosts : tokens'[x] = tokens[x] \/ (x = h /\ tokens'[x] = Append(tokens[x], g))
  <2>1. tokens' = tokens \/ tokens' = [tokens EXCEPT ![h] = Append(tokens[h], g)]
    BY DEF RoomTell, TellHost
  <2>2. tokens \in [Hosts -> Seq(Guests)]
    BY DEF TokenInv, TypeOK
  <2> HIDE DEF h
  <2> QED BY <1>1, <2>1, <2>2
<1>u. /\ guest' = guest /\ wants' = wants /\ conn' = conn /\ pending' = pending /\ back' = back
      /\ host' = host /\ admits' = admits /\ told' = told
  BY DEF RoomTell
<1>5. TokensInFlight'
  <2> SUFFICES ASSUME NEW x \in Hosts, NEW i \in 1 .. Len(tokens'[x])
               PROVE  /\ wants[tokens'[x][i]] = x /\ join'[tokens'[x][i]] = "none"
                      /\ back[tokens'[x][i]] = "none" /\ guest[tokens'[x][i]] # "idle"
                      /\ \A k \in 1 .. Len(tokens'[x]) : tokens'[x][k] = tokens'[x][i] => k = i
    BY <1>u DEF TokensInFlight
  <2>1. CASE tokens'[x] = tokens[x]
    BY <1>2, <1>3, <2>1 DEF TokenInv, TokensInFlight
  <2>2. CASE x = h /\ tokens'[x] = Append(tokens[x], g)
    <3>1. tokens[x] \in Seq(Guests) /\ Len(tokens[x]) \in Nat
      BY DEF TokenInv, TypeOK
    <3>2. /\ Len(tokens'[x]) = Len(tokens[x]) + 1 /\ tokens'[x][Len(tokens[x]) + 1] = g
          /\ \A k \in 1 .. Len(tokens[x]) : tokens'[x][k] = tokens[x][k]
      BY <2>2, <3>1
    <3>3. CASE i \in 1 .. Len(tokens[x])
      <4>1. tokens'[x][i] = tokens[x][i] /\ tokens[x][i] # g /\ tokens[x][i] \in Guests
        BY <1>2, <3>2, <3>3
      <4>2. \A k \in 1 .. Len(tokens'[x]) : k \in 1 .. Len(tokens[x]) \/ k = Len(tokens[x]) + 1
        BY <3>1, <3>2
      <4> QED BY <1>3, <3>2, <3>3, <4>1, <4>2 DEF TokenInv, TokensInFlight
    <3>4. CASE i = Len(tokens[x]) + 1
      <4>2. \A k \in 1 .. Len(tokens'[x]) : k \in 1 .. Len(tokens[x]) \/ k = Len(tokens[x]) + 1
        BY <3>1, <3>2
      <4> QED BY <1>1, <1>2, <1>3, <2>2, <3>2, <3>4, <4>2
    <3> QED BY <3>1, <3>2, <3>3, <3>4
  <2> QED BY <1>4, <2>1, <2>2
<1>6. JoiningIsEarly' /\ BackIsAdmitted' /\ WaitingIsOut'
  BY <1>3, <1>u DEF TokenInv, JoiningIsEarly, BackIsAdmitted, WaitingIsOut
<1> QED BY <1>5, <1>6 DEF TokenInv

\* Every step of the relay, its hosts and its guests keeps the places of the tokens.
LEMMA TokenStep == TokenInv /\ [Next]_vars => TokenInv'
<1> SUFFICES ASSUME TokenInv, [Next]_vars PROVE TokenInv'
  OBVIOUS
<1>t. TypeOK /\ TypeOK'
  BY TypeStep DEF TokenInv
<1>q. ASSUME TokensInFlight' /\ BackIsAdmitted', JoiningIsEarly' /\ WaitingIsOut' PROVE TokenInv'
  BY <1>t, <1>q DEF TokenInv
<1>1. CASE UNCHANGED vars
  BY <1>1 DEF vars, TokenInv, TypeOK, TokensInFlight, JoiningIsEarly, BackIsAdmitted, WaitingIsOut
<1>2. ASSUME NEW h \in Hosts, OpenRoom(h) PROVE TokenInv'
  <2>1. TokensInFlight' /\ BackIsAdmitted'
    BY <1>t, <1>2, TokenQuiet DEF OpenRoom, TypeOK
  <2> QED BY <1>q, <1>2, <2>1 DEF OpenRoom, TokenInv, JoiningIsEarly, WaitingIsOut
<1>3. ASSUME NEW h \in Hosts, RoomOpen(h) PROVE TokenInv'
  <2>1. TokensInFlight' /\ BackIsAdmitted'
    BY <1>t, <1>3, TokenQuiet DEF RoomOpen, TypeOK
  <2> QED BY <1>q, <1>3, <2>1 DEF RoomOpen, TokenInv, JoiningIsEarly, WaitingIsOut
<1>4. ASSUME NEW h \in Hosts, NextGuest(h) PROVE TokenInv'
  BY <1>t, <1>4, TokenTaken
<1>5. ASSUME NEW h \in Hosts, Admitted(h) PROVE TokenInv'
  <2>1. TokensInFlight'
    BY <1>5 DEF Admitted, TokenInv, TokensInFlight
  <2>2. \A x \in Hosts : x # h => host'[x] = host[x] /\ admits'[x] = admits[x]
    BY <1>t, <1>5 DEF Admitted, TypeOK
  <2>3. \A g \in Guests : back[g] = "accept" => wants[g] # h
    BY <1>5 DEF Admitted, TokenInv, BackIsAdmitted
  <2>4. BackIsAdmitted'
    BY <1>5, <2>2, <2>3 DEF Admitted, TokenInv, BackIsAdmitted
  <2> QED BY <1>q, <1>5, <2>1, <2>4 DEF Admitted, TokenInv, JoiningIsEarly, WaitingIsOut
<1>6. ASSUME NEW h \in Hosts, RoomEnd(h) PROVE TokenInv'
  <2>1. TokensInFlight' /\ BackIsAdmitted'
    BY <1>t, <1>6, TokenQuiet DEF RoomEnd, TypeOK
  <2> QED BY <1>t, <1>q, <1>6, <2>1
             DEF RoomEnd, EndWaiting, DropPending, TypeOK, TokenInv, JoiningIsEarly, WaitingIsOut
<1>7. ASSUME NEW h \in Hosts, HostStop(h) PROVE TokenInv'
  <2>1. TokensInFlight' /\ BackIsAdmitted'
    BY <1>t, <1>7, TokenQuiet DEF HostStop, TypeOK
  <2> QED BY <1>q, <1>7, <2>1 DEF HostStop, TokenInv, JoiningIsEarly, WaitingIsOut
<1>8. ASSUME NEW g \in Guests, RoomJoin(g) PROVE TokenInv'
  <2>1. TokensInFlight' /\ BackIsAdmitted'
    BY <1>t, <1>8, TokenQuiet DEF RoomJoin, TypeOK
  <2>2. wants[g] \in Hosts /\ guest[g] \in {"asked", "out"} /\ back[g] = "none"
    BY <1>8 DEF RoomJoin, TokenInv, JoiningIsEarly
  <2>3. /\ \A x \in Guests : x # g => pending'[x] = "no" \/ pending'[x] = pending[x]
        /\ \A x \in Guests : conn'[x] = "closed" \/ conn'[x] = conn[x]
        /\ \A x \in Guests : x # g => join'[x] = join[x]
    BY <1>t, <1>8 DEF RoomJoin, DropPending, TypeOK
  <2>4. guest' = guest /\ wants' = wants /\ back' = back
    BY <1>8 DEF RoomJoin
  <2>5. JoiningIsEarly' /\ WaitingIsOut'
    BY <2>2, <2>3, <2>4 DEF TokenInv, JoiningIsEarly, WaitingIsOut
  <2> QED BY <1>q, <2>1, <2>5
<1>9. ASSUME NEW g \in Guests, RoomTell(g) PROVE TokenInv'
  BY <1>t, <1>9, TokenTold
<1>10. ASSUME NEW g \in Guests, RoomAccept(g) PROVE TokenInv'
  <2>1. TokensInFlight' /\ BackIsAdmitted'
    BY <1>t, <1>10, TokenQuiet DEF RoomAccept, TypeOK
  <2>2. join[g] = "none" /\ guest[g] # "idle"
    BY <1>10, <1>t DEF RoomAccept, TokenInv, JoiningIsEarly, WaitingIsOut
  <2>3. /\ back'[g] \in {"spliced", "closed"} /\ guest'[g] \in {guest[g], "in"}
        /\ guest'[g] = guest[g] => conn'[g] \in {"closed", conn[g]}
        /\ pending'[g] = "no"
        /\ \A x \in Guests : x # g => /\ back'[x] = back[x] /\ guest'[x] = guest[x]
                                      /\ conn'[x] = conn[x] /\ pending'[x] = pending[x]
        /\ wants' = wants /\ join' = join
    BY <1>t, <1>10 DEF RoomAccept, TypeOK
  <2>4. JoiningIsEarly' /\ WaitingIsOut'
    BY <2>2, <2>3 DEF TokenInv, JoiningIsEarly, WaitingIsOut
  <2> QED BY <1>q, <2>1, <2>4
<1>11. ASSUME NEW g \in Guests, PumpHello(g) PROVE TokenInv'
  <2>0. back[g] = "spliced" /\ told' = [told EXCEPT ![g] = TRUE]
    BY <1>11 DEF PumpHello
  <2>1. \A x \in Guests : told'[x] = told[x] \/ back[x] = "spliced"
    <3>1. told \in [Guests -> BOOLEAN]
      BY <1>t DEF TypeOK
    <3> QED BY <2>0, <3>1
  <2>2. TokensInFlight' /\ BackIsAdmitted'
    BY <1>t, <1>11, <2>1, TokenQuiet DEF PumpHello
  <2> QED BY <1>q, <1>11, <2>2 DEF PumpHello, TokenInv, JoiningIsEarly, WaitingIsOut
<1>12. ASSUME NEW g \in Guests, PumpEnd(g) PROVE TokenInv'
  <2>1. TokensInFlight' /\ BackIsAdmitted'
    BY <1>t, <1>12, TokenQuiet DEF PumpEnd, PumpCloses, TypeOK
  <2> QED BY <1>t, <1>q, <1>12, <2>1
             DEF PumpEnd, PumpCloses, TypeOK, TokenInv, JoiningIsEarly, WaitingIsOut
<1>13. ASSUME NEW g \in Guests, Hello(g) PROVE TokenInv'
  <2>1. TokensInFlight' /\ BackIsAdmitted'
    BY <1>t, <1>13, TokenQuiet DEF Hello, TypeOK
  <2> QED BY <1>t, <1>q, <1>13, <2>1 DEF Hello, TypeOK, TokenInv, JoiningIsEarly, WaitingIsOut
<1>14. ASSUME NEW g \in Guests, SeeClosed(g) PROVE TokenInv'
  <2>1. TokensInFlight' /\ BackIsAdmitted'
    BY <1>t, <1>14, TokenQuiet DEF SeeClosed, TypeOK
  <2> QED BY <1>t, <1>q, <1>14, <2>1 DEF SeeClosed, TypeOK, TokenInv, JoiningIsEarly, WaitingIsOut
<1>15. ASSUME NEW g \in Guests, Quit(g) PROVE TokenInv'
  <2>1. TokensInFlight' /\ BackIsAdmitted'
    BY <1>t, <1>15, TokenQuiet DEF Quit, TypeOK
  <2> QED BY <1>t, <1>q, <1>15, <2>1 DEF Quit, TypeOK, TokenInv, JoiningIsEarly, WaitingIsOut
<1>16. ASSUME NEW g \in Guests, Age(g) PROVE TokenInv'
  <2>1. TokensInFlight' /\ BackIsAdmitted'
    BY <1>t, <1>16, TokenQuiet DEF Age, TypeOK
  <2> QED BY <1>t, <1>q, <1>16, <2>1 DEF Age, TypeOK, TokenInv, JoiningIsEarly, WaitingIsOut
<1>17. ASSUME NEW g \in Guests, HostLeaves(g) PROVE TokenInv'
  <2>1. TokensInFlight' /\ BackIsAdmitted'
    BY <1>t, <1>17, TokenQuiet DEF HostLeaves, TypeOK
  <2> QED BY <1>t, <1>q, <1>17, <2>1 DEF HostLeaves, TypeOK, TokenInv, JoiningIsEarly, WaitingIsOut
<1>18. ASSUME NEW g \in Guests, NEW h \in Hosts, JoinRoom(g, h) PROVE TokenInv'
  <2>1. TokensInFlight' /\ BackIsAdmitted'
    BY <1>t, <1>18, TokenQuiet DEF JoinRoom, TypeOK
  <2> QED BY <1>t, <1>q, <1>18, <2>1 DEF JoinRoom, TypeOK, TokenInv, JoiningIsEarly, WaitingIsOut
<1> QED
  BY <1>1, <1>2, <1>3, <1>4, <1>5, <1>6, <1>7, <1>8, <1>9, <1>10, <1>11, <1>12, <1>13, <1>14,
     <1>15, <1>16, <1>17, <1>18 DEF Next, HostStep, Handle

\* A step that lets a guest in is room.accept, on the connection its own host brought.
LEMMA OnlyItsToken ==
  ASSUME TokenInv, [Next]_vars, NEW g \in Guests, guest[g] # "in", guest'[g] = "in"
  PROVE  guest[g] = "asked" /\ pending[g] # "no" /\ admits[wants[g]] = g
<1>1. RoomAccept(g)
  <2>1. \A x \in Guests : RoomAccept(x) => x = g
    BY DEF RoomAccept, TokenInv, TypeOK
  <2>2. ~UNCHANGED guest
    OBVIOUS
  <2>3. \A x \in Guests : ~Hello(x) /\ ~SeeClosed(x) /\ ~Quit(x)
    BY DEF Hello, SeeClosed, Quit, TokenInv, TypeOK
  <2>4. \A x \in Guests, h \in Hosts : ~JoinRoom(x, h)
    BY DEF JoinRoom, TokenInv, TypeOK
  <2>5. \A h \in Hosts : ~OpenRoom(h) /\ ~HostStep(h) /\ ~HostStop(h)
    BY <2>2 DEF OpenRoom, HostStep, RoomOpen, NextGuest, Admitted, RoomEnd, HostStop
  <2>6. \A x \in Guests : /\ ~RoomJoin(x) /\ ~RoomTell(x) /\ ~PumpHello(x) /\ ~PumpEnd(x)
                          /\ ~Age(x) /\ ~HostLeaves(x)
    BY <2>2 DEF RoomJoin, RoomTell, PumpHello, PumpEnd, Age, HostLeaves
  <2> QED BY <2>1, <2>2, <2>3, <2>4, <2>5, <2>6 DEF Next, Handle, vars
<1>2. back[g] = "accept" /\ pending[g] # "no" /\ conn[g] = "open"
  BY <1>1 DEF RoomAccept, StillWaits, TokenInv, TypeOK
<1> QED BY <1>2 DEF TokenInv, BackIsAdmitted, WaitingIsOut

\* A token serves once: a guest is let in only while it waits, by the connection that the host it
\* asked for brought back for it (room.accept), for any hosts and guests and whatever fails.
THEOREM TokensServeOnce == Spec => TokenServesOnce
<1>1. Init => TokenInv
  BY DEF Init, TokenInv, TypeOK, TokensInFlight, JoiningIsEarly, BackIsAdmitted, WaitingIsOut
<1>2. TokenInv /\ [Next]_vars =>
        [\A g \in Guests : guest[g] # "in" /\ guest'[g] = "in" =>
           guest[g] = "asked" /\ pending[g] # "no" /\ admits[wants[g]] = g]_vars
  BY OnlyItsToken
<1> QED BY <1>1, <1>2, TokenStep, PTL DEF Spec, TokenServesOnce

----------------------------------------------------------------------------
(* NothingLeft: the life of a session. *)

\* stop() is under way exactly while `closing' is set, and only in a session, which has a value of
\* Session::gen left for its end.
StopIsClosing ==
  /\ closing <=> user # "idle"
  /\ ~on => user = "idle"
  /\ on => gen < MaxGen

\* The threads stop() has waited for are gone.
ThreadsGone ==
  /\ ~on \/ user \in {"unmap", "rx", "core", "final"} => acc = "none"
  /\ ~on \/ user \in {"core", "final"} => rx = "none" /\ link = "none"

\* S.up is there only in an open session; lockstep and the session's pads outlive it only where a
\* guest was loading a state.
FlagsGone ==
  /\ up => on /\ ~closing
  /\ stray = "no" => /\ lockstep => on /\ ~closing
                     /\ saved => on
  /\ coreMutex = "user" <=> user = "final"
  /\ coreMutex = "core" <=> core = "sync"

\* A mapping is the open session's, or a task will see that it is not.
MappingOwned ==
  router => \/ \E t \in tasks : t.st = "mapped"
            \/ on /\ gw /\ user \in {"idle", "acc", "unmap"}

SessionInv == SessionTypeOK /\ StopIsClosing /\ ThreadsGone /\ FlagsGone /\ MappingOwned

\* Every state of a session is well typed.
LEMMA SessionTyped == SessionInv /\ [SessionNext]_sessionVars => SessionTypeOK'
<1> SUFFICES ASSUME SessionInv, [SessionNext]_sessionVars PROVE SessionTypeOK'
  OBVIOUS
<1> USE DEF SessionInv, SessionTypeOK, session, threads, upnp
<1>1. CASE Host
  <2>1. gen + 1 \in 1 .. MaxGen
    BY <1>1, GenAssumption DEF Host
  <2>2. tasks' \subseteq [gen : 1 .. MaxGen, st : {"work", "mapped"}]
    BY <1>1, <2>1 DEF Host, TaskGen
  <2>3. gen' \in 0 .. MaxGen
    BY <1>1, <2>1 DEF Host
  <2> QED BY <1>1, <2>2, <2>3 DEF Host
<1>2. CASE Join
  <2>1. gen' \in 0 .. MaxGen
    BY <1>2, GenAssumption DEF Join
  <2> QED BY <1>2, <2>1 DEF Join
<1>3. CASE StopBegin
  BY ZenonT(60), <1>3 DEF StopBegin, StopListening
<1>4. CASE StopJoinAcc
  BY <1>4 DEF StopJoinAcc
<1>5. CASE StopUnmap
  BY <1>5 DEF StopUnmap
<1>6. CASE StopJoinRx
  BY <1>6 DEF StopJoinRx
<1>7. CASE StopLock
  BY <1>7 DEF StopLock
<1>8. CASE StopEnd
  <2>1. gen' \in 0 .. MaxGen
    BY <1>8, GenAssumption DEF StopEnd, StopIsClosing
  <2> QED BY <1>8, <2>1 DEF StopEnd
<1>9. CASE CoreTakeReq
  BY <1>9 DEF CoreTakeReq
<1>10. CASE CoreSync
  BY <1>10 DEF CoreSync, MaySync
<1>11. CASE CoreField
  BY <1>11 DEF CoreField
<1>12. CASE CoreEnter
  <2>1. core' \in {"loop", "enter", "idle", "wait", "apply", "relock", "sync"}
    BY <1>12 DEF CoreEnter
  <2>2. synced' \in BOOLEAN /\ lockstep' \in BOOLEAN /\ syncReady' \in BOOLEAN
    BY <1>12 DEF CoreEnter
  <2>3. stray' \in {"no", "late", "null"}
    BY <1>12 DEF CoreEnter, SendUp
  <2> QED BY <1>12, <2>1, <2>2, <2>3 DEF CoreEnter
<1>13. CASE CoreFrame
  BY <1>13 DEF CoreFrame
<1>14. CASE CoreWake
  BY <1>14 DEF CoreWake
<1>15. CASE CoreApply
  BY <1>15 DEF CoreApply
<1>16. CASE CoreRelock
  BY ZenonT(60), <1>16 DEF CoreRelock, SendUp
<1>17. CASE Accept
  BY <1>17 DEF Accept
<1>18. CASE AcceptEnd
  BY <1>18 DEF AcceptEnd
<1>19. CASE SaysHello
  BY <1>19 DEF SaysHello
<1>20. CASE Admit
  BY ZenonT(60), <1>20 DEF Admit, AdmissionOpen
<1>21. CASE RxSync
  BY <1>21 DEF RxSync
<1>22. CASE RxEnd
  BY <1>22 DEF RxEnd
<1>23. CASE LinkBreak
  BY <1>23 DEF LinkBreak
<1>24. ASSUME NEW t \in tasks, UpnpMap(t) PROVE SessionTypeOK'
  <2>1. t \in [gen : 1 .. MaxGen, st : {"work", "mapped"}]
    OBVIOUS
  <2>2. [t EXCEPT !.st = "mapped"] \in [gen : 1 .. MaxGen, st : {"work", "mapped"}]
    BY <2>1
  <2>3. tasks' \subseteq tasks \cup {[t EXCEPT !.st = "mapped"]} /\ router' \in BOOLEAN
    BY <1>24 DEF UpnpMap
  <2>4. tasks' \subseteq [gen : 1 .. MaxGen, st : {"work", "mapped"}]
    BY <2>2, <2>3
  <2> QED BY <1>24, <2>3, <2>4 DEF UpnpMap
<1>25. ASSUME NEW t \in tasks, UpnpDone(t) PROVE SessionTypeOK'
  BY <1>25 DEF UpnpDone, OfThisSession
<1>26. CASE UNCHANGED sessionVars
  BY <1>26 DEF sessionVars
<1> QED
  BY <1>1, <1>2, <1>3, <1>4, <1>5, <1>6, <1>7, <1>8, <1>9, <1>10, <1>11, <1>12, <1>13, <1>14,
  <1>15, <1>16, <1>17, <1>18, <1>19, <1>20, <1>21, <1>22, <1>23, <1>24, <1>25, <1>26
  DEF SessionNext, User, Stopping, Core, Accepting, Rx

\* A step keeps the flags, the threads and the lock of a session in agreement with where stop() is.
LEMMA FlagsStep == SessionInv /\ [SessionNext]_sessionVars => (StopIsClosing /\ ThreadsGone /\ FlagsGone)'
<1> SUFFICES ASSUME SessionInv, [SessionNext]_sessionVars PROVE (StopIsClosing /\ ThreadsGone /\ FlagsGone)'
  OBVIOUS
<1> USE DEF SessionInv, SessionTypeOK, StopIsClosing, ThreadsGone, FlagsGone, session, threads, upnp
<1>1. CASE Host
  BY <1>1 DEF Host, TaskGen
<1>2. CASE Join
  BY <1>2 DEF Join
<1>3. CASE StopBegin
  BY <1>3 DEF StopBegin, StopListening
<1>4. CASE StopJoinAcc
  BY <1>4 DEF StopJoinAcc
<1>5. CASE StopUnmap
  BY <1>5 DEF StopUnmap
<1>6. CASE StopJoinRx
  BY <1>6 DEF StopJoinRx
<1>7. CASE StopLock
  BY <1>7 DEF StopLock
<1>8. CASE StopEnd
  BY <1>8 DEF StopEnd
<1>9. CASE CoreTakeReq
  BY <1>9 DEF CoreTakeReq
<1>10. CASE CoreSync
  <2>1. lockstep' => lockstep \/ (on /\ ~closing)
    BY <1>10 DEF CoreSync, MaySync
  <2>2. saved' => saved \/ on
    BY <1>10 DEF CoreSync, MaySync
  <2>3. coreMutex' = "free" /\ user # "final"
    BY <1>10 DEF CoreSync
  <2> QED BY <1>10, <2>1, <2>2, <2>3 DEF CoreSync
<1>11. CASE CoreField
  BY <1>11 DEF CoreField
<1>12. CASE CoreEnter
  BY <1>12 DEF CoreEnter, FieldOut, FieldLost, FieldSync, FieldPlay, SendUp
<1>13. CASE CoreFrame
  BY <1>13 DEF CoreFrame
<1>14. CASE CoreWake
  BY <1>14 DEF CoreWake
<1>15. CASE CoreApply
  BY <1>15 DEF CoreApply
<1>16. CASE CoreRelock
  BY <1>16 DEF CoreRelock, SendUp
<1>17. CASE Accept
  BY <1>17 DEF Accept
<1>18. CASE AcceptEnd
  BY <1>18 DEF AcceptEnd
<1>19. CASE SaysHello
  BY <1>19 DEF SaysHello
<1>20. CASE Admit
  BY <1>20 DEF Admit, AdmissionOpen
<1>21. CASE RxSync
  BY <1>21 DEF RxSync
<1>22. CASE RxEnd
  BY <1>22 DEF RxEnd
<1>23. CASE LinkBreak
  BY <1>23 DEF LinkBreak
<1>24. ASSUME NEW t \in tasks, UpnpMap(t) PROVE (StopIsClosing /\ ThreadsGone /\ FlagsGone)'
  BY <1>24 DEF UpnpMap
<1>25. ASSUME NEW t \in tasks, UpnpDone(t) PROVE (StopIsClosing /\ ThreadsGone /\ FlagsGone)'
  BY <1>25 DEF UpnpDone, OfThisSession
<1>26. CASE UNCHANGED sessionVars
  BY <1>26 DEF sessionVars
<1> QED
  BY <1>1, <1>2, <1>3, <1>4, <1>5, <1>6, <1>7, <1>8, <1>9, <1>10, <1>11, <1>12, <1>13, <1>14,
  <1>15, <1>16, <1>17, <1>18, <1>19, <1>20, <1>21, <1>22, <1>23, <1>24, <1>25, <1>26
  DEF SessionNext, User, Stopping, Core, Accepting, Rx

\* A step keeps every mapping in somebody's care.
LEMMA MappingStep == SessionInv /\ [SessionNext]_sessionVars => MappingOwned'
<1> SUFFICES ASSUME SessionInv, [SessionNext]_sessionVars PROVE MappingOwned'
  OBVIOUS
<1> USE DEF SessionInv, SessionTypeOK, StopIsClosing, MappingOwned, session, threads, upnp
<1>1. CASE Host
  BY <1>1 DEF Host, TaskGen
<1>2. CASE Join
  BY <1>2 DEF Join
<1>3. CASE StopBegin
  BY <1>3 DEF StopBegin, StopListening
<1>4. CASE StopJoinAcc
  BY <1>4 DEF StopJoinAcc
<1>5. CASE StopUnmap
  BY <1>5 DEF StopUnmap
<1>6. CASE StopJoinRx
  BY <1>6 DEF StopJoinRx
<1>7. CASE StopLock
  BY <1>7 DEF StopLock
<1>8. CASE StopEnd
  BY <1>8 DEF StopEnd
<1>9. CASE CoreTakeReq
  BY <1>9 DEF CoreTakeReq
<1>10. CASE CoreSync
  BY <1>10 DEF CoreSync, MaySync
<1>11. CASE CoreField
  BY <1>11 DEF CoreField
<1>12. CASE CoreEnter
  BY <1>12 DEF CoreEnter, FieldOut, FieldLost, FieldSync, FieldPlay, SendUp
<1>13. CASE CoreFrame
  BY <1>13 DEF CoreFrame
<1>14. CASE CoreWake
  BY <1>14 DEF CoreWake
<1>15. CASE CoreApply
  BY <1>15 DEF CoreApply
<1>16. CASE CoreRelock
  BY <1>16 DEF CoreRelock, SendUp
<1>17. CASE Accept
  BY <1>17 DEF Accept
<1>18. CASE AcceptEnd
  BY <1>18 DEF AcceptEnd
<1>19. CASE SaysHello
  BY <1>19 DEF SaysHello
<1>20. CASE Admit
  BY <1>20 DEF Admit, AdmissionOpen
<1>21. CASE RxSync
  BY <1>21 DEF RxSync
<1>22. CASE RxEnd
  BY <1>22 DEF RxEnd
<1>23. CASE LinkBreak
  BY <1>23 DEF LinkBreak
<1>24. ASSUME NEW t \in tasks, UpnpMap(t) PROVE MappingOwned'
  <2>1. t \in [gen : 1 .. MaxGen, st : {"work", "mapped"}]
    OBVIOUS
  <2>2. [t EXCEPT !.st = "mapped"].st = "mapped"
    BY <2>1
  <2>3. CASE tasks' = (tasks \ {t}) \cup {[t EXCEPT !.st = "mapped"]}
    BY <2>2, <2>3
  <2>4. CASE UNCHANGED router /\ tasks' = tasks \ {t}
    BY <1>24, <2>4 DEF UpnpMap
  <2> QED BY <1>24, <2>3, <2>4 DEF UpnpMap
<1>25. ASSUME NEW t \in tasks, UpnpDone(t) PROVE MappingOwned'
  BY <1>25 DEF UpnpDone, OfThisSession
<1>26. CASE UNCHANGED sessionVars
  BY <1>26 DEF sessionVars
<1> QED
  BY <1>1, <1>2, <1>3, <1>4, <1>5, <1>6, <1>7, <1>8, <1>9, <1>10, <1>11, <1>12, <1>13, <1>14,
  <1>15, <1>16, <1>17, <1>18, <1>19, <1>20, <1>21, <1>22, <1>23, <1>24, <1>25, <1>26
  DEF SessionNext, User, Stopping, Core, Accepting, Rx

\* stop() leaves nothing behind: no thread, no connection, no lockstep, no pads of the session unless
\* a guest was loading a state, and no mapping in the router once its tasks have ended (stop,
\* upnpTask, clientApplySync), however many sessions are opened and closed.
THEOREM SessionLeavesNothing == SessionSpec => []NothingLeft
<1>1. SessionInit => SessionInv
  <2> SUFFICES ASSUME SessionInit PROVE SessionInv
    OBVIOUS
  <2> USE DEF SessionInit
  <2>0. gen \in 0 .. MaxGen
    BY GenAssumption
  <2>1. SessionTypeOK
    BY <2>0 DEF SessionTypeOK
  <2>2. StopIsClosing
    BY GenAssumption DEF StopIsClosing
  <2>3. ThreadsGone /\ FlagsGone /\ MappingOwned
    BY DEF ThreadsGone, FlagsGone, MappingOwned
  <2> QED BY <2>1, <2>2, <2>3 DEF SessionInv
<1>2. SessionInv /\ [SessionNext]_sessionVars => SessionInv'
  BY SessionTyped, FlagsStep, MappingStep DEF SessionInv
<1>3. SessionInv => NothingLeft
  BY DEF SessionInv, SessionTypeOK, StopIsClosing, ThreadsGone, FlagsGone, MappingOwned,
         NothingLeft, ClosedIsClosed, NoMappingLeft
<1> QED BY <1>1, <1>2, <1>3, PTL DEF SessionSpec
=============================================================================
