----------------------------- MODULE BusProofs -----------------------------
(***************************************************************************)
(* The devices end what they start, and the guest cannot tell a machine    *)
(* that runs compiled blocks and skips its idle loops from one that        *)
(* interprets every instruction.  The two machines look at the video and   *)
(* audio clocks at different instants.  The argument is that a look at     *)
(* which nothing is due changes nothing anybody can see: when the buffer   *)
(* that plays ends (End) and when the scan next crosses its line           *)
(* (LineAfter) do not depend on when they were last looked at.             *)
(***************************************************************************)
EXTENDS Bus, SequenceTheorems, TLAPS

\* A machine: the registers and deadlines of its devices.
Machine ==
  [intr : SUBSET {"PI", "SI", "AI", "VI"}, mask : SUBSET {"PI"}, armed : BOOLEAN,
   piBusy : BOOLEAN, piDoneAt : Nat, piStatus : SUBSET {"dma", "int", "io"}, ioUntil : Nat,
   latched : BOOLEAN, latchEnd : Nat,
   siBusy : BOOLEAN, siToPif : BOOLEAN, siDoneAt : Nat, siStatus : BOOLEAN,
   pif : {0, 1}, rdram : {0, 1},
   fifo : Seq(Nat \ {0}), playing : Nat, aiAcc : Nat, aiLast : Nat, aiNext : Int,
   rate : AiRates, queued : Nat, ended : Nat, line : Lines, height : Heights,
   viLast : Nat, viNext : Nat, evNext : Int, fields : Nat]

\* What two machines, or two states of one, have the same.
SamePi(d, e) ==
  /\ e.piBusy = d.piBusy /\ e.piDoneAt = d.piDoneAt /\ e.piStatus = d.piStatus
  /\ e.ioUntil = d.ioUntil /\ e.latched = d.latched /\ e.latchEnd = d.latchEnd
SameSi(d, e) ==
  /\ e.siBusy = d.siBusy /\ e.siToPif = d.siToPif /\ e.siDoneAt = d.siDoneAt
  /\ e.siStatus = d.siStatus /\ e.pif = d.pif /\ e.rdram = d.rdram
SameQueue(d, e) ==
  /\ e.fifo = d.fifo /\ e.rate = d.rate /\ e.queued = d.queued /\ e.ended = d.ended
SameAi(d, e) ==
  /\ SameQueue(d, e) /\ e.playing = d.playing
  /\ e.aiAcc = d.aiAcc /\ e.aiLast = d.aiLast /\ e.aiNext = d.aiNext
SameVi(d, e) ==
  e.line = d.line /\ e.height = d.height /\ e.viLast = d.viLast /\ e.viNext = d.viNext

\* The audio queue: buffers are accounted for, and less than a byte is left over.
Queue(d) ==
  /\ d.queued = d.ended + Len(d.fifo) /\ Len(d.fifo) <= 2
  /\ d.playing = 0 <=> d.fifo = <<>>
  /\ d.fifo # <<>> => d.playing <= d.fifo[1]
  /\ d.aiAcc < AiDen

\* When the buffer that plays ends, in AiDen-ths of a byte at its rate: it does
\* not depend on when the DAC was last looked at.
End(d) == d.playing * AiDen - d.aiAcc + d.rate * d.aiLast

----------------------------------------------------------------------------
(* Arithmetic. *)

LEMMA DivMod ==
  ASSUME NEW x \in Nat, NEW n \in Nat, n > 0
  PROVE  x \div n \in Nat /\ x % n \in Nat /\ x % n < n /\ x = n * (x \div n) + (x % n)
OBVIOUS

LEMMA Times ==
  ASSUME NEW a \in Int, NEW b \in Int, NEW r \in Nat, a <= b
  PROVE  r * a <= r * b
OBVIOUS

LEMMA Ceiling ==
  ASSUME NEW x \in Nat, NEW r \in Nat, r > 0
  PROVE  LET c == (x + r - 1) \div r
         IN c \in Nat /\ r * c >= x /\ r * (c - 1) < x
OBVIOUS

LEMMA Remainder ==
  ASSUME NEW x \in Nat, NEW p \in Int, NEW a \in Nat, NEW n \in Nat, n > 0, a < n, x = p * n + a
  PROVE  x \div n = p /\ x % n = a
OBVIOUS

LEMMA EmptyIsZero ==
  ASSUME NEW S, NEW s \in Seq(S)
  PROVE  (s = <<>> <=> Len(s) = 0) /\ Len(s) \in Nat
BY EmptySeq

\* The buffer after the one that plays.
LEMMA NextBuffer ==
  ASSUME NEW f \in Seq(Nat \ {0}), f # <<>>
  PROVE  LET p == IF Len(f) > 1 THEN f[2] ELSE 0
         IN /\ Len(f) \in Nat /\ Len(f) >= 1 /\ p \in Nat /\ Tail(f) \in Seq(Nat \ {0})
            /\ Len(Tail(f)) = Len(f) - 1 /\ (p = 0 <=> Tail(f) = <<>>)
            /\ (Tail(f) # <<>> => p = Tail(f)[1])
<1> DEFINE p == IF Len(f) > 1 THEN f[2] ELSE 0
           t == Tail(f)
<1>1. Len(f) \in Nat /\ Len(f) >= 1
  BY EmptyIsZero
<1>2. t \in Seq(Nat \ {0}) /\ Len(t) = Len(f) - 1 /\ (Len(f) > 1 => t[1] = f[2] /\ f[2] \in Nat \ {0})
  BY <1>1
<1> HIDE DEF t
<1>3. t = <<>> <=> Len(t) = 0
  BY <1>2, EmptyIsZero
<1> QED BY <1>1, <1>2, <1>3 DEF t

LEMMA FieldType == Field \in Nat /\ Field > 0
BY DeviceAssumption

LEMMA Rates == ASSUME NEW d \in Machine
               PROVE  d.rate \in Nat /\ d.rate > 0 /\ d.rate <= AiDen /\ AiDen \in Nat /\ AiDen > 0
<1>1. d.rate \in AiRates
  BY DEF Machine
<1>2. AiRates \subseteq 1 .. AiDen /\ AiDen \in Nat \ {0}
  BY DeviceAssumption
<1>3. d.rate \in 1 .. AiDen
  BY <1>1, <1>2
<1> QED BY <1>2, <1>3

LEMMA QueueTypes ==
  ASSUME NEW d \in Machine
  PROVE  /\ d.rate \in Nat /\ d.rate > 0 /\ d.rate <= AiDen /\ AiDen \in Nat /\ AiDen > 0
         /\ d.playing \in Nat /\ d.aiAcc \in Nat /\ d.aiLast \in Nat /\ d.aiNext \in Int
         /\ d.fifo \in Seq(Nat \ {0}) /\ d.queued \in Nat /\ d.ended \in Nat
<1>1. /\ d.playing \in Nat /\ d.aiAcc \in Nat /\ d.aiLast \in Nat /\ d.aiNext \in Int
      /\ d.fifo \in Seq(Nat \ {0}) /\ d.queued \in Nat /\ d.ended \in Nat
  BY DEF Machine
<1> QED BY <1>1, Rates

\* The deadline of a buffer is the first instant that has reached its end.
LEMMA AiDeadline ==
  ASSUME NEW d \in Machine, d.playing > 0, d.aiAcc < AiDen, d.fifo # <<>>
  PROVE  /\ aiNextEvent(d) \in Nat /\ aiNextEvent(d) > d.aiLast /\ End(d) \in Int
         /\ d.rate * aiNextEvent(d) >= End(d) /\ d.rate * (aiNextEvent(d) - 1) < End(d)
         /\ \A x \in Int : x < aiNextEvent(d) <=> d.rate * x < End(d)
<1> DEFINE r == d.rate
           x == d.playing * AiDen - d.aiAcc
           c == (x + r - 1) \div r
           n == aiNextEvent(d)
<1>1. /\ r \in Nat /\ r > 0 /\ AiDen \in Nat /\ AiDen > 0 /\ d.playing \in Nat
      /\ d.aiAcc \in Nat /\ d.aiLast \in Nat
  BY Rates DEF Machine
<1>2. d.playing * AiDen \in Nat /\ d.playing * AiDen >= AiDen
  BY <1>1
<1>3. x \in Nat /\ x > 0 /\ ~(d.aiAcc >= d.playing * AiDen)
  BY <1>1, <1>2
<1>4. n = d.aiLast + (d.playing * AiDen - d.aiAcc + d.rate - 1) \div d.rate
  BY <1>3 DEF aiNextEvent
<1>5. n = d.aiLast + c
  BY <1>4
<1>6. End(d) = x + r * d.aiLast /\ r * d.aiLast \in Nat
  BY <1>1 DEF End
<1> HIDE DEF r, x, n, c
<1>7. c \in Nat /\ r * c >= x /\ r * (c - 1) < x
  BY <1>1, <1>3, Ceiling DEF c
<1>8. c > 0
  <2>1. c = 0 => r * c = 0
    BY <1>1
  <2> QED BY <1>3, <1>7, <2>1
<1>9. n \in Nat /\ n > d.aiLast
  BY <1>1, <1>5, <1>7, <1>8
<1>10. r * n = r * d.aiLast + r * c /\ r * (n - 1) = r * d.aiLast + r * (c - 1)
  BY <1>1, <1>5, <1>7
<1>11. r * n >= End(d) /\ r * (n - 1) < End(d) /\ End(d) \in Int
  <2>1. r * c \in Int /\ r * (c - 1) \in Int
    BY <1>1, <1>7
  <2> QED BY <1>3, <1>6, <1>7, <1>10, <2>1
<1>12. ASSUME NEW y \in Int PROVE y < n <=> r * y < End(d)
  <2>1. r * y \in Int /\ r * n \in Int /\ r * (n - 1) \in Int
    BY <1>1, <1>9
  <2>2. y < n => r * y <= r * (n - 1)
    BY <1>1, <1>9, Times
  <2>3. ~(y < n) => r * n <= r * y
    BY <1>1, <1>9, Times
  <2> QED BY <1>11, <2>1, <2>2, <2>3
<1> QED BY <1>9, <1>11, <1>12 DEF n, r

----------------------------------------------------------------------------
(* AI: looking at the DAC.  A look before the deadline only moves what is  *)
(* left of the buffer; a look at it ends that buffer and no other, because *)
(* the DAC takes at most a byte per instruction.                           *)

LEMMA TickArith ==
  ASSUME NEW n \in Nat, NEW r \in Nat, NEW a \in Nat, NEW p \in Nat, NEW l \in Nat, NEW t \in Nat,
         n > 0, r > 0, r <= n, a < n, l <= t,
         NEW x, x = a + (t - l) * r, NEW e, e = p * n - a + r * l
  PROVE  /\ x \in Nat /\ x \div n \in Nat /\ x % n \in Nat /\ x % n < n /\ e \in Int
         /\ r * t < e => x \div n < p /\ (p - (x \div n)) * n - (x % n) + r * t = e
         /\ r * t >= e /\ r * (t - 1) < e => x \div n = p /\ x % n = r * t - e
<1> DEFINE q == x \div n
           s == x % n
<1>1. (t - l) * r \in Nat /\ p * n \in Nat /\ r * l \in Nat /\ r * t \in Nat /\ r * (t - 1) \in Int
  OBVIOUS
<1>2. x \in Nat /\ e \in Int
  BY <1>1
<1>3. (t - l) * r = r * t - r * l /\ r * (t - 1) = r * t - r
  OBVIOUS
<1>4. x = p * n + r * t - e
  BY <1>1, <1>2, <1>3
<1>5. q \in Nat /\ s \in Nat /\ s < n /\ x = n * q + s
  BY <1>2, DivMod
<1> HIDE DEF q, s
<1>6. n * q \in Nat /\ n * p = p * n /\ (p - q) * n = p * n - n * q
  BY <1>5
<1>7. ASSUME r * t < e PROVE q < p /\ (p - q) * n - s + r * t = e
  <2>1. n * q < n * p
    BY <1>1, <1>2, <1>4, <1>5, <1>6, <1>7
  <2>2. q >= p => n * p <= n * q
    BY <1>5, Times
  <2>3. q < p
    BY <1>1, <1>5, <1>6, <2>1, <2>2
  <2> QED BY <1>1, <1>2, <1>4, <1>5, <1>6, <2>3
<1>8. ASSUME r * t >= e, r * (t - 1) < e PROVE q = p /\ s = r * t - e
  <2>1. x = p * n + (r * t - e) /\ r * t - e \in Nat /\ r * t - e < n
    BY <1>1, <1>2, <1>3, <1>4, <1>8
  <2> QED BY <1>2, <2>1, Remainder DEF q, s
<1> QED BY <1>2, <1>5, <1>7, <1>8 DEF q, s

\* The credit of the DAC at now: whole bytes are played, the rest is kept.
Acc(d, now) == d.aiAcc + (now - d.aiLast) * d.rate

LEMMA TickMath ==
  ASSUME NEW d \in Machine, d.aiAcc < AiDen, NEW now \in Nat, d.aiLast <= now
  PROVE  LET q == Acc(d, now) \div AiDen
             s == Acc(d, now) % AiDen
         IN /\ q \in Nat /\ s \in Nat /\ s < AiDen /\ End(d) \in Int
            /\ d.rate * now < End(d) =>
                 q < d.playing /\ (d.playing - q) * AiDen - s + d.rate * now = End(d)
            /\ d.rate * now >= End(d) /\ d.rate * (now - 1) < End(d) =>
                 q = d.playing /\ s = d.rate * now - End(d)
<1> DEFINE n == AiDen
           r == d.rate
           a == d.aiAcc
           p == d.playing
           l == d.aiLast
           x == Acc(d, now)
           e == End(d)
<1>1. /\ n \in Nat /\ r \in Nat /\ a \in Nat /\ p \in Nat /\ l \in Nat /\ n > 0 /\ r > 0 /\ r <= n
      /\ a < n /\ l <= now
  BY QueueTypes
<1>2. x = a + (now - l) * r /\ e = p * n - a + r * l
  BY DEF Acc, End
<1> HIDE DEF n, r, a, p, l, x, e
<1>3. /\ x \in Nat /\ x \div n \in Nat /\ x % n \in Nat /\ x % n < n /\ e \in Int
      /\ r * now < e => x \div n < p /\ (p - (x \div n)) * n - (x % n) + r * now = e
      /\ r * now >= e /\ r * (now - 1) < e => x \div n = p /\ x % n = r * now - e
  BY <1>1, <1>2, TickArith
<1> QED BY <1>3, Zenon DEF n, r, p, x, e

\* What a look at the DAC leaves alone.
AiOnly(d, e) ==
  /\ SamePi(d, e) /\ SameSi(d, e) /\ SameVi(d, e)
  /\ e.mask = d.mask /\ e.armed = d.armed /\ e.evNext = d.evNext /\ e.fields = d.fields
  /\ e.rate = d.rate

Near(d, now) == d.aiLast <= now /\ now - d.aiLast <= 4 * Field

LEMMA ArmFrame ==
  ASSUME NEW d \in Machine, NEW n \in Int, NEW e, e = [d EXCEPT !.aiNext = n]
  PROVE  e \in Machine /\ AiOnly(d, e) /\ e.aiNext = n /\ e.intr = d.intr
         /\ e.playing = d.playing /\ e.aiAcc = d.aiAcc /\ e.aiLast = d.aiLast /\ SameQueue(d, e)
<1>1. e \in Machine
  BY DEF Machine
<1>2. /\ e.aiNext = n /\ e.intr = d.intr /\ e.playing = d.playing /\ e.aiAcc = d.aiAcc
      /\ e.aiLast = d.aiLast /\ SameQueue(d, e)
  BY DEF Machine, SameQueue
<1>3. AiOnly(d, e)
  BY DEF Machine, AiOnly, SamePi, SameSi, SameVi
<1> QED BY <1>1, <1>2, <1>3

LEMMA Playing ==
  ASSUME NEW d \in Machine, Queue(d), d.fifo # <<>>
  PROVE  d.playing \in Nat /\ d.playing > 0 /\ d.aiAcc < AiDen
<1>1. d.playing # 0 /\ d.aiAcc < AiDen
  BY Zenon DEF Queue
<1> QED BY <1>1, QueueTypes

LEMMA TickQuiet ==
  ASSUME NEW d \in Machine, Queue(d), d.fifo # <<>>, NEW now \in Nat, Near(d, now),
         d.rate * now < End(d)
  PROVE  LET e == aiTick(d, now)
         IN /\ e \in Machine /\ AiOnly(d, e) /\ SameQueue(d, e) /\ e.intr = d.intr
            /\ Queue(e) /\ End(e) = End(d) /\ e.aiLast = now /\ e.aiNext = aiNextEvent(e)
<1> DEFINE b == Acc(d, now) \div AiDen
           s == Acc(d, now) % AiDen
           p == d.playing - b
           e0 == [d EXCEPT !.aiLast = now, !.aiAcc = s]
           e1 == [e0 EXCEPT !.playing = p]
           c == Drain(Drain([m |-> e0, bytes |-> b]))
           e == aiTick(d, now)
<1>1. d.playing \in Nat /\ d.fifo \in Seq(Nat \ {0}) /\ AiDen \in Nat
  BY QueueTypes
<1>p. d.playing > 0 /\ d.aiAcc < AiDen
  BY <1>1, Playing
<1>q. d.aiLast <= now /\ ~(now - d.aiLast > 4 * Field)
  BY QueueTypes, FieldType DEF Near
<1>2. /\ b \in Nat /\ s \in Nat /\ s < AiDen
      /\ b < d.playing /\ p * AiDen - s + d.rate * now = End(d)
  BY <1>p, <1>q, TickMath, Zenon
<1>4. e = [c.m EXCEPT !.aiNext = aiNextEvent(c.m)]
  BY <1>q DEF aiTick, Acc
<1> HIDE DEF b, s
<1>3. p \in Nat /\ p > 0 /\ p <= d.playing
  BY <1>1, <1>2
<1> HIDE DEF p, e
<1>5. /\ e0 \in Machine /\ e0.playing = d.playing /\ e0.fifo = d.fifo /\ e0.aiAcc = s
      /\ e0.aiLast = now /\ AiOnly(d, e0) /\ SameQueue(d, e0) /\ e0.intr = d.intr
  BY <1>2 DEF Machine, AiOnly, SamePi, SameSi, SameVi, SameQueue
<1> HIDE DEF e0
<1>6. /\ c.m \in Machine /\ c.m.playing = p /\ c.m.fifo = d.fifo /\ c.m.aiAcc = s
      /\ c.m.aiLast = now /\ AiOnly(d, c.m) /\ SameQueue(d, c.m) /\ c.m.intr = d.intr
  <2>1. CASE b = 0
    <3>1. Drain([m |-> e0, bytes |-> b]) = [m |-> e0, bytes |-> b]
      BY <2>1 DEF Drain
    <3>2. c.m = e0
      BY <3>1
    <3>3. p = d.playing
      BY <1>1, <2>1 DEF p
    <3> QED BY <1>5, <3>2, <3>3
  <2>2. CASE b # 0
    <3>1. e0.playing > b /\ e0.playing - b = p
      BY <1>2, <1>5 DEF p
    <3>2. Drain([m |-> e0, bytes |-> b]) = [m |-> e1, bytes |-> 0]
      BY <1>5, <2>2, <3>1 DEF Drain
    <3>3. Drain([m |-> e1, bytes |-> 0]) = [m |-> e1, bytes |-> 0]
      BY DEF Drain
    <3>4. c.m = e1
      BY <3>2, <3>3
    <3>5. /\ e1 \in Machine /\ e1.playing = p /\ e1.fifo = e0.fifo /\ e1.aiAcc = e0.aiAcc
          /\ e1.aiLast = e0.aiLast /\ AiOnly(e0, e1) /\ SameQueue(e0, e1) /\ e1.intr = e0.intr
      BY <1>3, <1>5 DEF Machine, AiOnly, SamePi, SameSi, SameVi, SameQueue
    <3> QED BY <1>5, <3>4, <3>5 DEF AiOnly, SamePi, SameSi, SameVi, SameQueue
  <2> QED BY <2>1, <2>2
<1> HIDE DEF c
<1>7. aiNextEvent(c.m) \in Int
  BY <1>2, <1>3, <1>5, <1>6, AiDeadline
<1>8. /\ e \in Machine /\ e.playing = p /\ e.fifo = d.fifo /\ e.aiAcc = s /\ e.aiLast = now
      /\ AiOnly(c.m, e) /\ SameQueue(c.m, e) /\ e.intr = d.intr /\ e.aiNext = aiNextEvent(c.m)
  BY <1>4, <1>6, <1>7, ZenonT(60) DEF Machine, AiOnly, SamePi, SameSi, SameVi, SameQueue
<1>9. AiOnly(d, e) /\ SameQueue(d, e)
  BY <1>6, <1>8 DEF AiOnly, SamePi, SameSi, SameVi, SameQueue
<1>10. e.aiNext = aiNextEvent(e)
  BY <1>6, <1>8, <1>9 DEF aiNextEvent, AiOnly, SameQueue
<1>11. End(e) = End(d)
  BY <1>2, <1>8, <1>9 DEF End, AiOnly
<1>12. Queue(e)
  <2>1. d.fifo[1] \in Nat
    BY QueueTypes
  <2> QED BY <1>1, <1>2, <1>3, <1>8, <1>9, <2>1, SMTT(30) DEF Queue, SameQueue
<1> QED BY <1>8, <1>9, <1>10, <1>11, <1>12 DEF e

LEMMA TickEnds ==
  ASSUME NEW d \in Machine, Queue(d), d.fifo # <<>>, NEW now \in Nat, Near(d, now),
         d.rate * now >= End(d), d.rate * (now - 1) < End(d)
  PROVE  LET e == aiTick(d, now)
         IN /\ e \in Machine /\ AiOnly(d, e) /\ Queue(e)
            /\ e.fifo = Tail(d.fifo) /\ e.ended = d.ended + 1 /\ e.queued = d.queued
            /\ e.playing = (IF Len(d.fifo) > 1 THEN d.fifo[2] ELSE 0)
            /\ e.intr = d.intr \union {"AI"} /\ e.aiAcc = d.rate * now - End(d)
            /\ e.aiLast = now /\ e.aiNext = aiNextEvent(e)
<1> DEFINE b == Acc(d, now) \div AiDen
           s == Acc(d, now) % AiDen
           p == IF Len(d.fifo) > 1 THEN d.fifo[2] ELSE 0
           e0 == [d EXCEPT !.aiLast = now, !.aiAcc = s]
           e1 == [e0 EXCEPT !.fifo = Tail(@), !.ended = @ + 1, !.playing = p]
           e2 == [e1 EXCEPT !.intr = @ \union {"AI"}]
           c == Drain(Drain([m |-> e0, bytes |-> b]))
           e == aiTick(d, now)
<1>1. /\ d.playing \in Nat /\ d.fifo \in Seq(Nat \ {0}) /\ AiDen \in Nat /\ AiDen > 0
      /\ d.ended \in Nat /\ d.queued \in Nat
  BY QueueTypes
<1>p. d.playing > 0 /\ d.aiAcc < AiDen
  BY <1>1, Playing
<1>q. d.aiLast <= now /\ ~(now - d.aiLast > 4 * Field)
  BY QueueTypes, FieldType DEF Near
<1>2. b \in Nat /\ s \in Nat /\ s < AiDen /\ b = d.playing /\ s = d.rate * now - End(d)
  BY <1>p, <1>q, TickMath, Zenon
<1>4. e = [c.m EXCEPT !.aiNext = aiNextEvent(c.m)]
  BY <1>q DEF aiTick, Acc
<1> HIDE DEF b, s
<1>3. /\ Len(d.fifo) \in Nat /\ Len(d.fifo) >= 1 /\ p \in Nat /\ Tail(d.fifo) \in Seq(Nat \ {0})
      /\ Len(Tail(d.fifo)) = Len(d.fifo) - 1 /\ (p = 0 <=> Tail(d.fifo) = <<>>)
      /\ (Tail(d.fifo) # <<>> => p = Tail(d.fifo)[1])
  BY <1>1, NextBuffer, Zenon
<1> HIDE DEF p, e
<1>5. /\ e0 \in Machine /\ e0.playing = d.playing /\ e0.fifo = d.fifo /\ e0.aiAcc = s
      /\ e0.aiLast = now /\ AiOnly(d, e0) /\ SameQueue(d, e0) /\ e0.intr = d.intr
  BY <1>2 DEF Machine, AiOnly, SamePi, SameSi, SameVi, SameQueue
<1> HIDE DEF e0
<1>6. /\ e1 \in Machine /\ e1.playing = p /\ e1.fifo = Tail(d.fifo) /\ e1.aiAcc = s
      /\ e1.aiLast = now /\ AiOnly(e0, e1) /\ e1.intr = d.intr
      /\ e1.queued = d.queued /\ e1.ended = d.ended + 1
  <2>1. Tail(e0.fifo) \in Seq(Nat \ {0}) /\ e0.ended + 1 \in Nat /\ p \in Nat
    BY <1>1, <1>3, <1>5 DEF SameQueue
  <2>2. e1 \in Machine
    BY <1>5, <2>1 DEF Machine
  <2>3. /\ e1.playing = p /\ e1.fifo = Tail(e0.fifo) /\ e1.aiAcc = e0.aiAcc /\ e1.intr = e0.intr
        /\ e1.aiLast = e0.aiLast /\ e1.queued = e0.queued /\ e1.ended = e0.ended + 1
    BY <1>5 DEF Machine
  <2>4. AiOnly(e0, e1)
    BY <1>5 DEF Machine, AiOnly, SamePi, SameSi, SameVi
  <2> QED BY <1>5, <2>2, <2>3, <2>4 DEF SameQueue
<1>r. e2 = raiseIntr([e0 EXCEPT !.fifo = Tail(@), !.ended = @ + 1,
                         !.playing = IF Len(e0.fifo) > 1 THEN e0.fifo[2] ELSE 0], "AI")
  BY <1>5 DEF raiseIntr, p
<1> HIDE DEF e1
<1>7. /\ e2 \in Machine /\ e2.playing = p /\ e2.fifo = Tail(d.fifo) /\ e2.aiAcc = s
      /\ e2.aiLast = now /\ AiOnly(e1, e2) /\ e2.intr = d.intr \union {"AI"}
      /\ e2.queued = d.queued /\ e2.ended = d.ended + 1
  BY <1>6 DEF Machine, AiOnly, SamePi, SameSi, SameVi
<1> HIDE DEF e2
<1>8. c.m = e2
  <2>1. ~(b = 0 \/ e0.fifo = <<>>) /\ ~(e0.playing > b) /\ b - e0.playing = 0
    BY <1>1, <1>2, <1>5, <1>p
  <2>2. Drain([m |-> e0, bytes |-> b]) = [m |-> e2, bytes |-> b - e0.playing]
    BY <1>r, <2>1 DEF Drain
  <2>3. Drain([m |-> e2, bytes |-> 0]) = [m |-> e2, bytes |-> 0]
    BY DEF Drain
  <2> QED BY <2>1, <2>2, <2>3
<1> HIDE DEF c
<1>9. AiOnly(d, e2)
  BY <1>5, <1>6, <1>7 DEF AiOnly, SamePi, SameSi, SameVi
<1>10. Queue(e2)
  <2>1. e2.playing = 0 <=> e2.fifo = <<>>
    BY <1>3, <1>7
  <2>2. e2.fifo # <<>> => e2.playing <= e2.fifo[1]
    BY <1>3, <1>7, SMTT(30)
  <2>3. e2.queued = e2.ended + Len(e2.fifo) /\ Len(e2.fifo) <= 2 /\ e2.aiAcc < AiDen
    <3>1. d.queued = d.ended + Len(d.fifo) /\ Len(d.fifo) <= 2
      BY Zenon DEF Queue
    <3> QED BY <1>1, <1>2, <1>3, <1>7, <3>1, SMTT(30)
  <2> QED BY <2>1, <2>2, <2>3, Zenon DEF Queue
<1>11. aiNextEvent(e2) \in Int
  <2>1. CASE e2.fifo = <<>>
    BY <2>1 DEF aiNextEvent, NoDeadline
  <2>2. CASE e2.fifo # <<>>
    <3>1. e2.playing > 0 /\ e2.aiAcc < AiDen
      BY <1>7, <1>10, <2>2, Playing
    <3>2. aiNextEvent(e2) \in Nat
      BY <1>7, <2>2, <3>1, AiDeadline, Zenon
    <3> QED BY <3>2
  <2> QED BY <2>1, <2>2
<1>12. /\ e \in Machine /\ e.playing = p /\ e.fifo = Tail(d.fifo) /\ e.aiAcc = s
       /\ e.aiLast = now /\ AiOnly(e2, e) /\ e.intr = d.intr \union {"AI"}
       /\ e.queued = d.queued /\ e.ended = d.ended + 1 /\ e.aiNext = aiNextEvent(e2)
  <2>1. e = [e2 EXCEPT !.aiNext = aiNextEvent(e2)]
    BY <1>4, <1>8
  <2>2. e \in Machine /\ AiOnly(e2, e) /\ e.aiNext = aiNextEvent(e2) /\ e.intr = e2.intr
        /\ e.playing = e2.playing /\ e.aiAcc = e2.aiAcc /\ e.aiLast = e2.aiLast /\ SameQueue(e2, e)
    BY <1>7, <1>11, <2>1, ArmFrame
  <2> QED BY <1>7, <2>2 DEF SameQueue
<1>13. AiOnly(d, e)
  BY <1>9, <1>12 DEF AiOnly, SamePi, SameSi, SameVi
<1>14. e.aiNext = aiNextEvent(e)
  BY <1>7, <1>12 DEF aiNextEvent, AiOnly
<1>15. Queue(e)
  BY <1>7, <1>10, <1>12, Zenon DEF Queue
<1> QED BY <1>2, <1>12, <1>13, <1>14, <1>15 DEF e, p

LEMMA TickEmpty ==
  ASSUME NEW d \in Machine, Queue(d), d.fifo = <<>>, NEW now \in Nat
  PROVE  LET e == aiTick(d, now)
         IN /\ e \in Machine /\ AiOnly(d, e) /\ SameQueue(d, e) /\ e.intr = d.intr
            /\ Queue(e) /\ e.playing = 0 /\ e.aiLast = now /\ e.aiNext = aiNextEvent(e)
            /\ e.aiAcc = 0 /\ e.aiNext = NoDeadline
<1> DEFINE e == aiTick(d, now)
<1>1. e = [d EXCEPT !.aiLast = now, !.aiAcc = 0, !.aiNext = NoDeadline]
  BY DEF aiTick
<1> HIDE DEF e
<1>2. /\ e \in Machine /\ AiOnly(d, e) /\ SameQueue(d, e) /\ e.intr = d.intr
      /\ e.playing = d.playing /\ e.aiLast = now /\ e.aiAcc = 0 /\ e.aiNext = NoDeadline
  <2>1. e \in Machine
    <3>1. NoDeadline \in Int
      BY DEF NoDeadline
    <3> QED BY <1>1, <3>1, ZenonT(60) DEF Machine
  <2>2. /\ e.intr = d.intr /\ e.playing = d.playing /\ e.aiLast = now /\ e.aiAcc = 0
        /\ e.aiNext = NoDeadline /\ SameQueue(d, e)
    BY <1>1 DEF Machine, SameQueue
  <2>3. AiOnly(d, e)
    BY <1>1 DEF Machine, AiOnly, SamePi, SameSi, SameVi
  <2> QED BY <2>1, <2>2, <2>3
<1>3. d.playing = 0
  BY Zenon DEF Queue
<1>4. e.aiNext = aiNextEvent(e)
  BY <1>2 DEF aiNextEvent, SameQueue
<1>5. 0 < AiDen
  BY QueueTypes
<1>6. Queue(e)
  BY <1>2, <1>5, Zenon DEF Queue, SameQueue
<1> QED BY <1>2, <1>3, <1>4, <1>6 DEF e

\* The buffer that plays has ended at now.
AiDone(d, now) == d.fifo # <<>> /\ d.rate * now >= End(d)

\* e is d after a look at the DAC.
AiLooked(d, e, now) ==
  /\ e.queued = d.queued /\ e.rate = d.rate /\ e.aiLast = now
  /\ ~AiDone(d, now) => SameQueue(d, e) /\ (d.fifo # <<>> => End(e) = End(d))
  /\ AiDone(d, now) => /\ e.fifo = Tail(d.fifo) /\ e.ended = d.ended + 1
                       /\ e.playing = (IF Len(d.fifo) > 1 THEN d.fifo[2] ELSE 0)
                       /\ e.aiAcc = d.rate * now - End(d)

\* The instant now is not past the end of the buffer that plays.
InTime(d, now) == d.fifo # <<>> => d.rate * (now - 1) < End(d)

LEMMA Tick ==
  ASSUME NEW d \in Machine, Queue(d), NEW now \in Nat, Near(d, now), InTime(d, now)
  PROVE  LET e == aiTick(d, now)
         IN /\ e \in Machine /\ AiOnly(d, e) /\ Queue(e) /\ AiLooked(d, e, now)
            /\ e.aiNext = aiNextEvent(e)
            /\ e.intr = IF AiDone(d, now) THEN d.intr \union {"AI"} ELSE d.intr
<1> DEFINE e == aiTick(d, now)
<1>1. CASE d.fifo = <<>>
  <2>1. /\ e \in Machine /\ AiOnly(d, e) /\ SameQueue(d, e) /\ e.intr = d.intr
        /\ Queue(e) /\ e.playing = 0 /\ e.aiLast = now /\ e.aiNext = aiNextEvent(e)
    BY <1>1, TickEmpty, Zenon
  <2> HIDE DEF e
  <2>2. ~AiDone(d, now)
    BY <1>1 DEF AiDone
  <2>3. AiLooked(d, e, now)
    BY <1>1, <2>1, <2>2 DEF AiLooked, SameQueue
  <2> QED BY <2>1, <2>2, <2>3 DEF e
<1>2. CASE d.fifo # <<>> /\ d.rate * now < End(d)
  <2>1. /\ e \in Machine /\ AiOnly(d, e) /\ SameQueue(d, e) /\ e.intr = d.intr
        /\ Queue(e) /\ End(e) = End(d) /\ e.aiLast = now /\ e.aiNext = aiNextEvent(e)
    BY <1>2, TickQuiet, Zenon
  <2> HIDE DEF e
  <2>2. ~AiDone(d, now)
    <3>1. End(d) \in Int /\ d.rate * now \in Int
      BY QueueTypes DEF End
    <3> QED BY <1>2, <3>1 DEF AiDone
  <2>3. AiLooked(d, e, now)
    BY <1>2, <2>1, <2>2 DEF AiLooked, SameQueue
  <2> QED BY <2>1, <2>2, <2>3 DEF e
<1>3. CASE AiDone(d, now)
  <2>0. d.fifo # <<>> /\ d.rate * now >= End(d) /\ d.rate * (now - 1) < End(d)
    BY <1>3 DEF AiDone, InTime
  <2>1. /\ e \in Machine /\ AiOnly(d, e) /\ Queue(e)
        /\ e.fifo = Tail(d.fifo) /\ e.ended = d.ended + 1 /\ e.queued = d.queued
        /\ e.playing = (IF Len(d.fifo) > 1 THEN d.fifo[2] ELSE 0)
        /\ e.intr = d.intr \union {"AI"} /\ e.aiAcc = d.rate * now - End(d)
        /\ e.aiLast = now /\ e.aiNext = aiNextEvent(e)
    BY <2>0, TickEnds, Zenon
  <2> HIDE DEF e
  <2>3. AiLooked(d, e, now)
    BY <1>3, <2>1, Zenon DEF AiLooked, AiOnly
  <2> QED BY <1>3, <2>1, <2>3 DEF e
<1>4. d.rate * now < End(d) \/ d.rate * now >= End(d)
  BY QueueTypes DEF End
<1> QED BY <1>1, <1>2, <1>3, <1>4 DEF AiDone

----------------------------------------------------------------------------
(* VI: the scan crosses its line every Field instructions. *)

\* The first instant after x at which the scan crosses the line.
LineAfter(d, x) ==
  IF x < LineAt(d) THEN LineAt(d) ELSE LineAt(d) + ((x - LineAt(d)) \div Field + 1) * Field

LEMMA LineIsNat == ASSUME NEW d \in Machine PROVE LineAt(d) \in Nat
<1>1. d.line \in Lines /\ d.height \in Heights
  BY DEF Machine
<1>h. Lines \subseteq Nat /\ Heights \subseteq Nat \ {0}
  BY DeviceAssumption
<1>2. d.line \in Nat /\ d.height \in Nat /\ d.height > 0
  <2>1. d.line \in Nat /\ d.height \in Nat \ {0}
    BY <1>1, <1>h
  <2> QED BY <2>1
<1>3. d.line * Field \in Nat
  BY <1>2, FieldType
<1> QED BY <1>2, <1>3, DivMod DEF LineAt

LEMMA Period ==
  ASSUME NEW f \in Nat, f > 0, NEW o \in Nat, NEW x \in Nat
  PROVE  LET n == (IF x < o THEN o ELSE o + ((x - o) \div f + 1) * f)
             c(y) == (IF y >= o THEN (y - o) \div f + 1 ELSE 0)
         IN /\ n \in Nat /\ n > x /\ c(x) \in Nat
            /\ \A y \in Nat : y >= x =>
                 /\ c(y) \in Nat /\ (c(y) > c(x) <=> y >= n)
                 /\ y < n => (IF y < o THEN o ELSE o + ((y - o) \div f + 1) * f) = n
<1> DEFINE k(y) == (y - o) \div f
           n == IF x < o THEN o ELSE o + (k(x) + 1) * f
           c(y) == IF y >= o THEN k(y) + 1 ELSE 0
<1>1. ASSUME NEW y \in Nat, y >= o
      PROVE  k(y) \in Nat /\ f * k(y) \in Nat /\ o + f * k(y) <= y /\ y < o + f * k(y) + f
  <2>1. y - o \in Nat
    BY <1>1
  <2>2. k(y) \in Nat /\ (y - o) % f \in Nat /\ (y - o) % f < f
        /\ y - o = f * k(y) + ((y - o) % f)
    BY <2>1, DivMod
  <2> HIDE DEF k
  <2>3. f * k(y) \in Nat
    BY <2>2
  <2> QED BY <2>2, <2>3
<1> HIDE DEF k
<1>2. CASE x < o
  <2>1. n = o /\ c(x) = 0
    BY <1>2
  <2>2. ASSUME NEW y \in Nat, y >= x
        PROVE  /\ c(y) \in Nat /\ (c(y) > c(x) <=> y >= n)
               /\ y < n => (IF y < o THEN o ELSE o + (k(y) + 1) * f) = n
    BY <1>1, <2>1
  <2> QED BY <1>2, <2>1, <2>2 DEF k
<1>3. CASE x >= o
  <2>0. k(x) \in Nat /\ f * k(x) \in Nat /\ o + f * k(x) <= x /\ x < o + f * k(x) + f
    BY <1>1, <1>3
  <2>1. n = o + f * k(x) + f /\ c(x) = k(x) + 1 /\ k(x) \in Nat /\ f * k(x) \in Nat /\ n > x
    <3>1. (k(x) + 1) * f = f * k(x) + f
      BY <2>0
    <3> QED BY <1>3, <2>0, <3>1
  <2>2. ASSUME NEW y \in Nat, y >= x
        PROVE  /\ c(y) \in Nat /\ (c(y) > c(x) <=> y >= n)
               /\ y < n => (IF y < o THEN o ELSE o + (k(y) + 1) * f) = n
    <3>1. /\ k(y) \in Nat /\ f * k(y) \in Nat /\ o + f * k(y) <= y /\ y < o + f * k(y) + f
          /\ c(y) = k(y) + 1 /\ y >= o
      BY <1>1, <1>3, <2>2
    <3>2. k(y) <= k(x) => f * k(y) <= f * k(x)
      BY <2>1, <3>1, Times
    <3>3. k(x) + 1 <= k(y) => f * (k(x) + 1) <= f * k(y)
      BY <2>1, <3>1, Times
    <3>4. f * (k(x) + 1) = f * k(x) + f /\ (k(y) + 1) * f = f * k(y) + f
      BY <2>1, <3>1
    <3>5. k(y) + 1 <= k(x) => f * (k(y) + 1) <= f * k(x)
      BY <2>1, <3>1, Times
    <3>6. f * (k(y) + 1) = f * k(y) + f
      BY <3>1
    <3>7. y >= n <=> k(y) > k(x)
      BY <2>1, <3>1, <3>2, <3>3, <3>4
    <3>8. y < n => k(y) = k(x)
      BY <2>0, <2>1, <2>2, <3>1, <3>5, <3>6, <3>7
    <3> QED BY <2>1, <3>1, <3>4, <3>7, <3>8
  <2> QED BY <1>3, <2>1, <2>2 DEF k
<1> QED BY <1>2, <1>3

LEMMA ScanFacts ==
  ASSUME NEW d \in Machine, NEW x \in Nat
  PROVE  /\ LineAfter(d, x) \in Nat /\ LineAfter(d, x) > x
         /\ \A y \in Nat : y >= x =>
              /\ Crossings(d, y) > Crossings(d, x) <=> y >= LineAfter(d, x)
              /\ y < LineAfter(d, x) => LineAfter(d, y) = LineAfter(d, x)
         /\ viNextEvent(d, x) \in Nat /\ viNextEvent(d, x) > x
         /\ viNextEvent(d, x) <= x + Field /\ viNextEvent(d, x) <= LineAfter(d, x)
<1> DEFINE o == LineAt(d)
           n == LineAfter(d, x)
           g == (x \div Field + 1) * Field
<1>1. o \in Nat /\ Field \in Nat /\ Field > 0
  BY LineIsNat, FieldType
<1>2. /\ n \in Nat /\ n > x
      /\ \A y \in Nat : y >= x =>
           /\ Crossings(d, y) > Crossings(d, x) <=> y >= n
           /\ y < n => LineAfter(d, y) = n
  BY <1>1, Period, ZenonT(60) DEF LineAfter, Crossings
<1>3. g \in Nat /\ g > x /\ g <= x + Field
  <2>1. x \div Field \in Nat /\ x % Field \in Nat /\ x % Field < Field
        /\ x = Field * (x \div Field) + (x % Field)
    BY <1>1, DivMod
  <2>2. g = Field * (x \div Field) + Field /\ Field * (x \div Field) \in Nat
    BY <1>1, <2>1
  <2> QED BY <1>1, <2>1, <2>2
<1>4. viNextEvent(d, x) = Earlier(n, g)
  BY DEF viNextEvent, LineAfter
<1> HIDE DEF n, g, o
<1>5. Earlier(n, g) \in {n, g} /\ Earlier(n, g) <= n /\ Earlier(n, g) <= g
  BY <1>2, <1>3 DEF Earlier, NoDeadline
<1> QED BY <1>1, <1>2, <1>3, <1>4, <1>5 DEF n

LEMMA SameAiKeeps ==
  ASSUME NEW d, NEW e, SameAi(d, e)
  PROVE  /\ Queue(d) => Queue(e)
         /\ End(e) = End(d) /\ aiNextEvent(e) = aiNextEvent(d)
         /\ \A now : /\ Near(e, now) <=> Near(d, now)
                     /\ InTime(e, now) <=> InTime(d, now)
                     /\ AiDone(e, now) <=> AiDone(d, now)
<1>1. /\ e.fifo = d.fifo /\ e.rate = d.rate /\ e.queued = d.queued /\ e.ended = d.ended
      /\ e.playing = d.playing /\ e.aiAcc = d.aiAcc /\ e.aiLast = d.aiLast
  BY DEF SameAi, SameQueue
<1>2. Queue(d) => Queue(e)
  BY <1>1, Zenon DEF Queue
<1>3. End(e) = End(d)
  BY <1>1, Zenon DEF End
<1>4. aiNextEvent(e) = aiNextEvent(d)
  BY <1>1, Zenon DEF aiNextEvent
<1>5. \A now : Near(e, now) <=> Near(d, now)
  BY <1>1, Zenon DEF Near
<1>6. \A now : (InTime(e, now) <=> InTime(d, now)) /\ (AiDone(e, now) <=> AiDone(d, now))
  BY <1>1, <1>3, Zenon DEF InTime, AiDone
<1> QED BY <1>2, <1>3, <1>4, <1>5, <1>6

LEMMA AiLookedFrom ==
  ASSUME NEW d, NEW e, SameAi(d, e), NEW f, NEW now, AiLooked(e, f, now)
  PROVE  AiLooked(d, f, now)
<1>1. /\ e.fifo = d.fifo /\ e.rate = d.rate /\ e.queued = d.queued /\ e.ended = d.ended
  BY DEF SameAi, SameQueue
<1>2. End(e) = End(d) /\ (AiDone(e, now) <=> AiDone(d, now))
  BY SameAiKeeps
<1> QED BY <1>1, <1>2, Zenon DEF AiLooked, SameQueue

\* e is d after the scan and the DAC were looked at.
Scanned(d, e, now) ==
  /\ e \in Machine /\ Queue(e) /\ SamePi(d, e) /\ SameSi(d, e)
  /\ e.mask = d.mask /\ e.armed = d.armed /\ e.line = d.line /\ e.height = d.height
  /\ e.viLast = now /\ e.viNext = viNextEvent(e, now) /\ e.aiNext = aiNextEvent(e)
  /\ e.evNext = Earlier(e.viNext, e.aiNext) /\ AiLooked(d, e, now)
  /\ "PI" \in e.intr <=> "PI" \in d.intr
  /\ "SI" \in e.intr <=> "SI" \in d.intr
  /\ "AI" \in e.intr <=> "AI" \in d.intr \/ AiDone(d, now)
  /\ "VI" \in e.intr <=> "VI" \in d.intr \/ now >= LineAfter(d, d.viLast)

LEMMA Scan ==
  ASSUME NEW d \in Machine, Queue(d), NEW now \in Nat, Near(d, now), InTime(d, now),
         d.viLast <= now
  PROVE  Scanned(d, viTick(d, now), now)
<1> DEFINE fire == Crossings(d, now) > Crossings(d, d.viLast)
           close == now \div Field > d.viLast \div Field
           v == [d EXCEPT !.viLast = now, !.fields = IF close THEN @ + 1 ELSE @]
           w == IF fire THEN [v EXCEPT !.intr = @ \union {"VI"}] ELSE v
           a == aiTick(w, now)
           b == [a EXCEPT !.viNext = viNextEvent(a, now)]
           e == [b EXCEPT !.evNext = Earlier(b.viNext, b.aiNext)]
<1>1. viTick(d, now) = e
  BY Zenon DEF viTick, evArm, raiseIntr
<1>2. fire <=> now >= LineAfter(d, d.viLast)
  <2>1. d.viLast \in Nat
    BY DEF Machine
  <2> QED BY <2>1, ScanFacts
<1> HIDE DEF fire, close
<1>3. v \in Machine /\ SameAi(d, v) /\ SamePi(d, v) /\ SameSi(d, v) /\ v.intr = d.intr
      /\ v.mask = d.mask /\ v.armed = d.armed /\ v.line = d.line /\ v.height = d.height
      /\ v.viLast = now
  <2>1. v \in Machine
    <3>1. (IF close THEN d.fields + 1 ELSE d.fields) \in Nat
      BY SMTT(30) DEF Machine
    <3> QED BY <3>1 DEF Machine
  <2>2. SameAi(d, v) /\ v.intr = d.intr /\ v.mask = d.mask /\ v.armed = d.armed
    BY DEF Machine, SameAi, SameQueue
  <2>3. SamePi(d, v) /\ SameSi(d, v) /\ v.line = d.line /\ v.height = d.height /\ v.viLast = now
    BY DEF Machine, SamePi, SameSi
  <2> QED BY <2>1, <2>2, <2>3
<1> HIDE DEF v
<1>4. w \in Machine /\ SameAi(v, w) /\ SamePi(v, w) /\ SameSi(v, w)
      /\ w.intr = (IF fire THEN v.intr \union {"VI"} ELSE v.intr)
      /\ w.mask = v.mask /\ w.armed = v.armed /\ w.line = v.line /\ w.height = v.height
      /\ w.viLast = v.viLast
  <2>1. CASE fire
    <3>1. w = [v EXCEPT !.intr = @ \union {"VI"}]
      BY <2>1
    <3>2. w \in Machine /\ w.intr = v.intr \union {"VI"}
      BY <1>3, <3>1, ZenonT(60) DEF Machine
    <3>3. SameAi(v, w) /\ w.mask = v.mask /\ w.armed = v.armed /\ w.viLast = v.viLast
      BY <1>3, <3>1 DEF Machine, SameAi, SameQueue
    <3>4. SamePi(v, w) /\ SameSi(v, w) /\ w.line = v.line /\ w.height = v.height
      BY <1>3, <3>1 DEF Machine, SamePi, SameSi
    <3> QED BY <2>1, <3>2, <3>3, <3>4
  <2>2. CASE ~fire
    BY <1>3, <2>2 DEF SameAi, SameQueue, SamePi, SameSi
  <2> QED BY <2>1, <2>2
<1> HIDE DEF w
<1>5. SameAi(d, w) /\ SamePi(d, w) /\ SameSi(d, w)
  BY <1>3, <1>4 DEF SameAi, SameQueue, SamePi, SameSi
<1>6. Queue(w) /\ Near(w, now) /\ InTime(w, now) /\ (AiDone(w, now) <=> AiDone(d, now))
  BY <1>5, SameAiKeeps
<1>7. /\ a \in Machine /\ AiOnly(w, a) /\ Queue(a) /\ AiLooked(w, a, now)
      /\ a.aiNext = aiNextEvent(a)
      /\ a.intr = IF AiDone(w, now) THEN w.intr \union {"AI"} ELSE w.intr
  BY <1>4, <1>6, Tick, Zenon
<1>8. AiLooked(d, a, now)
  BY <1>5, <1>7, AiLookedFrom
<1> HIDE DEF a
<1>9. viNextEvent(a, now) \in Nat
  BY <1>7, ScanFacts
<1>10. /\ b \in Machine /\ SameAi(a, b) /\ SamePi(a, b) /\ SameSi(a, b) /\ b.intr = a.intr
       /\ b.mask = a.mask /\ b.armed = a.armed /\ b.line = a.line /\ b.height = a.height
       /\ b.viLast = a.viLast /\ b.viNext = viNextEvent(a, now)
  <2>1. b \in Machine
    BY <1>7, <1>9 DEF Machine
  <2>2. SameAi(a, b) /\ b.intr = a.intr /\ b.mask = a.mask /\ b.armed = a.armed
    BY <1>7 DEF Machine, SameAi, SameQueue
  <2>3. /\ SamePi(a, b) /\ SameSi(a, b) /\ b.line = a.line /\ b.height = a.height
        /\ b.viLast = a.viLast /\ b.viNext = viNextEvent(a, now)
    BY <1>7 DEF Machine, SamePi, SameSi
  <2> QED BY <2>1, <2>2, <2>3
<1> HIDE DEF b
<1>11. Earlier(b.viNext, b.aiNext) \in Int
  BY <1>10 DEF Earlier, Machine
<1>12. /\ e \in Machine /\ SameAi(b, e) /\ SamePi(b, e) /\ SameSi(b, e) /\ e.intr = b.intr
       /\ e.mask = b.mask /\ e.armed = b.armed /\ e.line = b.line /\ e.height = b.height
       /\ e.viLast = b.viLast /\ e.viNext = b.viNext /\ e.evNext = Earlier(b.viNext, b.aiNext)
  <2>1. e \in Machine
    BY <1>10, <1>11 DEF Machine
  <2>2. SameAi(b, e) /\ e.intr = b.intr /\ e.mask = b.mask /\ e.armed = b.armed
    BY <1>10 DEF Machine, SameAi, SameQueue
  <2>3. /\ SamePi(b, e) /\ SameSi(b, e) /\ e.line = b.line /\ e.height = b.height
        /\ e.viLast = b.viLast /\ e.viNext = b.viNext /\ e.evNext = Earlier(b.viNext, b.aiNext)
    BY <1>10 DEF Machine, SamePi, SameSi
  <2> QED BY <2>1, <2>2, <2>3
<1> HIDE DEF e
<1>13. SameAi(a, e)
  BY <1>10, <1>12 DEF SameAi, SameQueue
<1>14. Queue(e) /\ aiNextEvent(e) = aiNextEvent(a) /\ End(e) = End(a)
  BY <1>7, <1>13, SameAiKeeps
<1>15. AiLooked(d, e, now)
  BY <1>8, <1>13, <1>14, Zenon DEF AiLooked, SameAi, SameQueue
<1>16. SamePi(d, e) /\ SameSi(d, e)
  BY <1>5, <1>7, <1>10, <1>12 DEF AiOnly, SamePi, SameSi
<1>17. /\ e.mask = d.mask /\ e.armed = d.armed /\ e.line = d.line /\ e.height = d.height
       /\ e.viLast = now
  BY <1>3, <1>4, <1>7, <1>10, <1>12 DEF AiOnly, SameVi
<1>18. e.line = a.line /\ e.height = a.height
  BY <1>10, <1>12
<1>19. viNextEvent(e, now) = viNextEvent(a, now)
  BY <1>18, Zenon DEF viNextEvent, LineAt
<1>20. /\ e.viNext = viNextEvent(e, now) /\ e.aiNext = aiNextEvent(e)
       /\ e.evNext = Earlier(e.viNext, e.aiNext)
  BY <1>7, <1>10, <1>12, <1>13, <1>14, <1>19 DEF SameAi
<1>21. e.intr = a.intr
  BY <1>10, <1>12
<1>22. /\ "PI" \in e.intr <=> "PI" \in d.intr
       /\ "SI" \in e.intr <=> "SI" \in d.intr
       /\ "AI" \in e.intr <=> "AI" \in d.intr \/ AiDone(d, now)
       /\ "VI" \in e.intr <=> "VI" \in d.intr \/ now >= LineAfter(d, d.viLast)
  BY <1>2, <1>3, <1>4, <1>6, <1>7, <1>21
<1> QED BY <1>1, <1>12, <1>14, <1>15, <1>16, <1>17, <1>20, <1>22 DEF Scanned

----------------------------------------------------------------------------
(* What is due ends. *)

PiEnds(d, now) == d.piBusy /\ now >= d.piDoneAt
SiEnds(d, now) == d.siBusy /\ now >= d.siDoneAt

PiRetired(d, e, now) ==
  /\ e.piBusy = (IF PiEnds(d, now) THEN FALSE ELSE d.piBusy)
  /\ e.piStatus = (IF PiEnds(d, now) THEN {"int"} ELSE d.piStatus)
  /\ e.piDoneAt = d.piDoneAt /\ e.ioUntil = d.ioUntil
  /\ e.latched = d.latched /\ e.latchEnd = d.latchEnd
SiRetired(d, e, now) ==
  /\ e.siBusy = (IF SiEnds(d, now) THEN FALSE ELSE d.siBusy)
  /\ e.siStatus = (IF SiEnds(d, now) THEN FALSE ELSE d.siStatus)
  /\ e.rdram = (IF SiEnds(d, now) /\ ~d.siToPif THEN d.pif ELSE d.rdram)
  /\ e.siToPif = d.siToPif /\ e.siDoneAt = d.siDoneAt /\ e.pif = d.pif

\* What the end of a transfer leaves alone.
BusOnly(d, e) == /\ SameAi(d, e) /\ SameVi(d, e) /\ e.evNext = d.evNext
                 /\ e.mask = d.mask /\ e.armed = d.armed /\ e.fields = d.fields

\* Raising or clearing an interrupt changes no more than its line.
LEMMA SetIntr ==
  ASSUME NEW d \in Machine, NEW s \in SUBSET {"PI", "SI", "AI", "VI"},
         NEW e, e = [d EXCEPT !.intr = s]
  PROVE  e \in Machine /\ e.intr = s /\ SamePi(d, e) /\ SameSi(d, e) /\ BusOnly(d, e)
<1>1. e \in Machine
  BY ZenonT(60) DEF Machine
<1>2. e.intr = s
  BY DEF Machine
<1>3. SamePi(d, e) /\ SameSi(d, e)
  BY DEF Machine, SamePi, SameSi
<1>4. BusOnly(d, e)
  BY DEF Machine, BusOnly, SameAi, SameQueue, SameVi
<1> QED BY <1>1, <1>2, <1>3, <1>4

LEMMA SiRetire ==
  ASSUME NEW d \in Machine, NEW now \in Nat, NEW e, e = IF SiEnds(d, now) THEN siFinish(d) ELSE d
  PROVE  /\ e \in Machine /\ SiRetired(d, e, now) /\ SamePi(d, e) /\ BusOnly(d, e)
         /\ e.intr = IF SiEnds(d, now) THEN d.intr \union {"SI"} ELSE d.intr
<1>1. CASE ~SiEnds(d, now)
  BY <1>1 DEF SiRetired, SamePi, BusOnly, SameAi, SameQueue, SameVi
<1>2. CASE SiEnds(d, now)
  <2> DEFINE r == IF d.siToPif THEN d.rdram ELSE d.pif
             f == [d EXCEPT !.siBusy = FALSE, !.siStatus = FALSE, !.rdram = r]
  <2>1. e = [f EXCEPT !.intr = @ \union {"SI"}]
    BY <1>2 DEF SiEnds, siFinish, raiseIntr
  <2>2. r \in {0, 1}
    BY DEF Machine
  <2> HIDE DEF r
  <2>3. f \in Machine /\ f.intr = d.intr
    BY <2>2 DEF Machine
  <2>4. /\ f.siBusy = FALSE /\ f.siStatus = FALSE /\ f.rdram = r /\ f.siToPif = d.siToPif
        /\ f.siDoneAt = d.siDoneAt /\ f.pif = d.pif /\ SamePi(d, f)
    BY DEF Machine, SamePi
  <2>5. BusOnly(d, f)
    BY DEF Machine, BusOnly, SameAi, SameQueue, SameVi
  <2> HIDE DEF f
  <2>a. f.intr \in SUBSET {"PI", "SI", "AI", "VI"}
    BY <2>3 DEF Machine
  <2>b. f.intr \union {"SI"} \in SUBSET {"PI", "SI", "AI", "VI"}
    BY <2>a
  <2>6. /\ e \in Machine /\ e.intr = f.intr \union {"SI"}
        /\ SamePi(f, e) /\ SameSi(f, e) /\ BusOnly(f, e)
    BY <2>1, <2>3, <2>b, SetIntr
  <2>9. SamePi(d, e) /\ BusOnly(d, e)
    BY <2>4, <2>5, <2>6 DEF SamePi, BusOnly, SameAi, SameQueue, SameVi
  <2>10. SiRetired(d, e, now)
    BY <1>2, <2>4, <2>6 DEF SiRetired, SameSi, r
  <2> QED BY <1>2, <2>3, <2>6, <2>9, <2>10
<1> QED BY <1>1, <1>2

LEMMA PiRetire ==
  ASSUME NEW d \in Machine, NEW now \in Nat, NEW e, e = IF PiEnds(d, now) THEN piFinish(d) ELSE d
  PROVE  /\ e \in Machine /\ PiRetired(d, e, now) /\ SameSi(d, e) /\ BusOnly(d, e)
         /\ e.intr = IF PiEnds(d, now) THEN d.intr \union {"PI"} ELSE d.intr
<1>1. CASE ~PiEnds(d, now)
  BY <1>1 DEF PiRetired, SameSi, BusOnly, SameAi, SameQueue, SameVi
<1>2. CASE PiEnds(d, now)
  <2> DEFINE f == [d EXCEPT !.piBusy = FALSE, !.piStatus = {"int"}]
  <2>1. e = [f EXCEPT !.intr = @ \union {"PI"}]
    BY <1>2 DEF PiEnds, piFinish, raiseIntr
  <2>3. f \in Machine /\ f.intr = d.intr
    BY DEF Machine
  <2>4. /\ f.piBusy = FALSE /\ f.piStatus = {"int"} /\ f.piDoneAt = d.piDoneAt
        /\ f.ioUntil = d.ioUntil /\ f.latched = d.latched /\ f.latchEnd = d.latchEnd
        /\ SameSi(d, f)
    BY DEF Machine, SameSi
  <2>5. BusOnly(d, f)
    BY DEF Machine, BusOnly, SameAi, SameQueue, SameVi
  <2> HIDE DEF f
  <2>a. f.intr \in SUBSET {"PI", "SI", "AI", "VI"}
    BY <2>3 DEF Machine
  <2>b. f.intr \union {"PI"} \in SUBSET {"PI", "SI", "AI", "VI"}
    BY <2>a
  <2>6. /\ e \in Machine /\ e.intr = f.intr \union {"PI"}
        /\ SamePi(f, e) /\ SameSi(f, e) /\ BusOnly(f, e)
    BY <2>1, <2>3, <2>b, SetIntr
  <2>9. SameSi(d, e) /\ BusOnly(d, e)
    BY <2>4, <2>5, <2>6 DEF SameSi, BusOnly, SameAi, SameQueue, SameVi
  <2>10. PiRetired(d, e, now)
    BY <1>2, <2>4, <2>6 DEF PiRetired, SamePi
  <2> QED BY <1>2, <2>3, <2>6, <2>9, <2>10
<1> QED BY <1>1, <1>2

----------------------------------------------------------------------------
(* The states of a machine between instructions. *)

\* A busy bit is up exactly while its transfer is in flight.
BusyOk(d) == d.siStatus = d.siBusy /\ ("dma" \in d.piStatus <=> d.piBusy)

Sound(d) == d \in Machine /\ Queue(d) /\ BusyOk(d) /\ d.aiNext = aiNextEvent(d)

\* The nearest deadline is that of the scan or that of the DAC.
Linked(d) == d.viNext = viNextEvent(d, d.viLast) /\ d.evNext = Earlier(d.viNext, d.aiNext)

\* The transfers in flight end after t.
Pending(d, t) == (d.piBusy => d.piDoneAt > t) /\ (d.siBusy => d.siDoneAt > t)

\* A machine that executes at t: what it has to look at is at most one instant
\* away.  A machine just reset has not looked at the scan yet.
Live(d, t) ==
  /\ Sound(d) /\ d.viLast <= d.aiLast /\ d.aiLast <= t /\ t < d.viLast + Field
  /\ d.fifo # <<>> => t < d.aiNext
  /\ Linked(d) \/ (d.evNext = 0 /\ d.viNext = 0)

\* A machine at t with nothing to look at before the instant after u.
Ahead(d, t, u) ==
  /\ Sound(d) /\ Linked(d) /\ d.viLast <= d.aiLast /\ d.aiLast <= t
  /\ u < d.evNext /\ Pending(d, u)

LEMMA SoundTypes ==
  ASSUME NEW d, Sound(d)
  PROVE  /\ d \in Machine /\ Queue(d) /\ d.aiNext = aiNextEvent(d)
         /\ d.aiLast \in Nat /\ d.viLast \in Nat /\ d.viNext \in Nat /\ d.evNext \in Int
         /\ d.piDoneAt \in Nat /\ d.siDoneAt \in Nat
         /\ d.fifo = <<>> => d.aiNext = NoDeadline
         /\ d.fifo # <<>> => d.aiNext \in Nat /\ d.aiNext > d.aiLast
<1>1. d \in Machine /\ Queue(d) /\ d.aiNext = aiNextEvent(d)
  BY DEF Sound
<1>2. /\ d.aiLast \in Nat /\ d.viLast \in Nat /\ d.viNext \in Nat /\ d.evNext \in Int
      /\ d.piDoneAt \in Nat /\ d.siDoneAt \in Nat
  BY <1>1 DEF Machine
<1>3. d.fifo = <<>> => d.aiNext = NoDeadline
  BY <1>1 DEF aiNextEvent
<1>4. d.fifo # <<>> => aiNextEvent(d) \in Nat /\ aiNextEvent(d) > d.aiLast
  BY <1>1, Playing, AiDeadline, Zenon
<1> QED BY <1>1, <1>2, <1>3, <1>4

LEMMA LinkedFacts ==
  ASSUME NEW d, Sound(d), Linked(d)
  PROVE  /\ d.evNext \in Nat /\ d.evNext <= d.viNext /\ d.evNext <= LineAfter(d, d.viLast)
         /\ d.viNext > d.viLast /\ d.viNext <= d.viLast + Field
         /\ d.fifo # <<>> => d.evNext <= d.aiNext
         /\ LineAfter(d, d.viLast) \in Nat
<1>1. /\ d \in Machine /\ d.aiLast \in Nat /\ d.viLast \in Nat /\ d.viNext \in Nat
      /\ d.fifo = <<>> => d.aiNext = NoDeadline
      /\ d.fifo # <<>> => d.aiNext \in Nat
  BY SoundTypes
<1>2. d.viNext = viNextEvent(d, d.viLast) /\ d.evNext = Earlier(d.viNext, d.aiNext)
  BY DEF Linked
<1>3. /\ viNextEvent(d, d.viLast) > d.viLast /\ viNextEvent(d, d.viLast) <= d.viLast + Field
      /\ viNextEvent(d, d.viLast) <= LineAfter(d, d.viLast)
      /\ LineAfter(d, d.viLast) \in Nat
  BY <1>1, ScanFacts, Zenon
<1>4. d.evNext \in Nat /\ d.evNext <= d.viNext /\ (d.fifo # <<>> => d.evNext <= d.aiNext)
  BY <1>1, <1>2 DEF Earlier, NoDeadline
<1> QED BY <1>1, <1>2, <1>3, <1>4

\* The buffer that plays has not ended at x before its deadline.
LEMMA BeforeEnd ==
  ASSUME NEW d, Sound(d), d.fifo # <<>>, NEW x \in Int
  PROVE  x < d.aiNext <=> d.rate * x < End(d)
<1>1. d \in Machine /\ Queue(d) /\ d.aiNext = aiNextEvent(d)
  BY SoundTypes
<1>2. d.playing > 0 /\ d.aiAcc < AiDen
  BY <1>1, Playing
<1>3. \A y \in Int : y < aiNextEvent(d) <=> d.rate * y < End(d)
  BY <1>1, <1>2, AiDeadline, Zenon
<1> QED BY <1>1, <1>3

LEMMA LiveTime ==
  ASSUME NEW t \in Nat, NEW d, Live(d, t)
  PROVE  /\ Near(d, t) /\ Near(d, t + 1) /\ InTime(d, t) /\ InTime(d, t + 1) /\ ~AiDone(d, t)
         /\ d.viLast <= t
<1>1. d \in Machine /\ d.aiLast \in Nat /\ d.viLast \in Nat /\ Sound(d)
  BY SoundTypes DEF Live
<1>2. /\ d.viLast <= d.aiLast /\ d.aiLast <= t /\ t < d.viLast + Field
      /\ d.fifo # <<>> => t < d.aiNext
  BY DEF Live
<1>3. Near(d, t) /\ Near(d, t + 1) /\ d.viLast <= t
  BY <1>1, <1>2, FieldType DEF Near
<1>4. ASSUME d.fifo # <<>> PROVE d.rate * (t - 1) < End(d) /\ d.rate * t < End(d) /\ End(d) \in Int
  <2>1. t < d.aiNext /\ t - 1 < d.aiNext
    <3>1. t < d.aiNext /\ d.aiNext \in Nat
      BY <1>1, <1>2, <1>4, SoundTypes
    <3> QED BY <3>1
  <2>2. d.rate * (t - 1) < End(d) /\ d.rate * t < End(d)
    BY <1>1, <1>4, <2>1, BeforeEnd
  <2>3. End(d) \in Int
    BY <1>1, QueueTypes DEF End
  <2> QED BY <2>2, <2>3
<1>5. d.rate * t \in Int /\ (t + 1) - 1 = t
  BY <1>1, QueueTypes
<1>6. InTime(d, t) /\ InTime(d, t + 1)
  BY <1>4, <1>5 DEF InTime
<1>7. ~AiDone(d, t)
  BY <1>4, <1>5 DEF AiDone
<1> QED BY <1>3, <1>6, <1>7

LEMMA AheadIsLive ==
  ASSUME NEW t \in Nat, NEW x \in Nat, NEW u \in Nat, t <= x, x <= u, NEW d, Ahead(d, t, u)
  PROVE  Live(d, x) /\ x < LineAfter(d, d.viLast) /\ x < d.evNext /\ Ahead(d, x, x)
<1>1. /\ Sound(d) /\ Linked(d) /\ d.viLast <= d.aiLast /\ d.aiLast <= t
      /\ u < d.evNext /\ Pending(d, u)
  BY DEF Ahead
<1>2. /\ d.aiLast \in Nat /\ d.viLast \in Nat /\ d.viNext \in Nat /\ d.evNext \in Int
      /\ d.piDoneAt \in Nat /\ d.siDoneAt \in Nat
      /\ d.fifo # <<>> => d.aiNext \in Nat
  BY <1>1, SoundTypes
<1>3. /\ d.evNext \in Nat /\ d.evNext <= d.viNext /\ d.evNext <= LineAfter(d, d.viLast)
      /\ d.viNext <= d.viLast + Field
      /\ d.fifo # <<>> => d.evNext <= d.aiNext
      /\ LineAfter(d, d.viLast) \in Nat
  BY <1>1, LinkedFacts
<1>4. /\ d.aiLast <= x /\ x < d.viLast + Field /\ (d.fifo # <<>> => x < d.aiNext)
      /\ x < LineAfter(d, d.viLast) /\ x < d.evNext
  <2>1. x < d.evNext /\ d.aiLast <= x
    BY <1>1, <1>2, <1>3
  <2>2. x < d.viLast + Field /\ x < LineAfter(d, d.viLast)
    BY <1>2, <1>3, <2>1, FieldType
  <2>3. d.fifo # <<>> => x < d.aiNext
    BY <1>2, <1>3, <2>1
  <2> QED BY <2>1, <2>2, <2>3
<1>5. Live(d, x)
  BY <1>1, <1>4 DEF Live
<1>6. Pending(d, x)
  BY <1>1, <1>2 DEF Pending
<1> QED BY <1>1, <1>4, <1>5, <1>6 DEF Ahead

----------------------------------------------------------------------------
(* The loop of stepCpu after an instruction.  What it does does not depend *)
(* on whether the scan and the DAC were looked at.                         *)

\* The queue at now, whether or not the DAC was looked at.
AiAfter(d, e, now) ==
  /\ e.queued = d.queued /\ e.rate = d.rate
  /\ e.fifo = (IF AiDone(d, now) THEN Tail(d.fifo) ELSE d.fifo)
  /\ e.ended = (IF AiDone(d, now) THEN d.ended + 1 ELSE d.ended)
  /\ e.fifo # <<>> => End(e) = (IF AiDone(d, now) THEN End(d) + d.fifo[2] * AiDen ELSE End(d))

LEMMA LookedAfter ==
  ASSUME NEW d \in Machine, NEW e, NEW now \in Nat, AiLooked(d, e, now)
  PROVE  AiAfter(d, e, now)
<1>1. CASE ~AiDone(d, now)
  BY <1>1 DEF AiAfter, AiLooked, SameQueue
<1>2. CASE AiDone(d, now)
  <2>1. /\ e.queued = d.queued /\ e.rate = d.rate /\ e.aiLast = now
        /\ e.fifo = Tail(d.fifo) /\ e.ended = d.ended + 1
        /\ e.playing = (IF Len(d.fifo) > 1 THEN d.fifo[2] ELSE 0)
        /\ e.aiAcc = d.rate * now - End(d)
    BY <1>2 DEF AiLooked
  <2>2. d.fifo # <<>> /\ d.fifo \in Seq(Nat \ {0})
    BY <1>2, QueueTypes DEF AiDone
  <2>3. ASSUME e.fifo # <<>> PROVE End(e) = End(d) + d.fifo[2] * AiDen
    <3>1. Len(d.fifo) > 1
      <4> DEFINE k == Len(d.fifo)
                 l == Len(Tail(d.fifo))
      <4>1. k \in Nat /\ k >= 1 /\ l = k - 1 /\ Tail(d.fifo) \in Seq(Nat \ {0})
        BY <2>2, NextBuffer, Zenon
      <4>2. l # 0
        BY <2>1, <2>3, <4>1, EmptyIsZero, Zenon
      <4> HIDE DEF k, l
      <4>3. k > 1
        BY <4>1, <4>2
      <4> QED BY <4>3 DEF k
    <3>2. d.fifo[2] \in Nat
      BY <2>2, <3>1
    <3>3. e.playing = d.fifo[2]
      BY <2>1, <3>1
    <3>4. End(d) \in Int /\ d.rate * now \in Int /\ AiDen \in Nat
      BY QueueTypes DEF End
    <3> DEFINE f == d.fifo[2] * AiDen
               r == d.rate * now
    <3>5. End(e) = f - (r - End(d)) + r
      BY <2>1, <3>3 DEF End
    <3>6. f \in Int /\ r \in Int
      BY <3>2, <3>4
    <3> HIDE DEF f, r
    <3>7. End(e) = End(d) + f
      BY <3>4, <3>5, <3>6
    <3> QED BY <3>7 DEF f
  <2> QED BY <1>2, <2>1, <2>3 DEF AiAfter
<1> QED BY <1>1, <1>2

\* e is d at now, when what was due has ended.
Retired(d, e, now) ==
  /\ PiRetired(d, e, now) /\ SiRetired(d, e, now) /\ AiAfter(d, e, now)
  /\ e.mask = d.mask /\ e.line = d.line /\ e.height = d.height
  /\ "PI" \in e.intr <=> "PI" \in d.intr \/ PiEnds(d, now)
  /\ "SI" \in e.intr <=> "SI" \in d.intr \/ SiEnds(d, now)
  /\ "AI" \in e.intr <=> "AI" \in d.intr \/ AiDone(d, now)
  /\ "VI" \in e.intr <=> "VI" \in d.intr \/ now >= LineAfter(d, d.viLast)

\* Both transfers have been looked at.
LEMMA RetireBuses ==
  ASSUME NEW d, Sound(d), NEW now \in Nat
  PROVE  LET s == IF d.siBusy /\ now >= d.siDoneAt THEN siFinish(d) ELSE d
             p == IF s.piBusy /\ now >= s.piDoneAt THEN piFinish(s) ELSE s
         IN /\ Sound(p) /\ BusOnly(d, p) /\ Pending(p, now)
            /\ PiRetired(d, p, now) /\ SiRetired(d, p, now)
            /\ "PI" \in p.intr <=> "PI" \in d.intr \/ PiEnds(d, now)
            /\ "SI" \in p.intr <=> "SI" \in d.intr \/ SiEnds(d, now)
            /\ "AI" \in p.intr <=> "AI" \in d.intr
            /\ "VI" \in p.intr <=> "VI" \in d.intr
<1> DEFINE s == IF d.siBusy /\ now >= d.siDoneAt THEN siFinish(d) ELSE d
           p == IF s.piBusy /\ now >= s.piDoneAt THEN piFinish(s) ELSE s
<1>0. d \in Machine /\ d.piDoneAt \in Nat /\ d.siDoneAt \in Nat
  BY SoundTypes
<1>1. s = IF SiEnds(d, now) THEN siFinish(d) ELSE d
  BY DEF SiEnds
<1>2. p = IF PiEnds(s, now) THEN piFinish(s) ELSE s
  BY DEF PiEnds
<1> HIDE DEF s, p
<1>3. /\ s \in Machine /\ SiRetired(d, s, now) /\ SamePi(d, s) /\ BusOnly(d, s)
      /\ s.intr = IF SiEnds(d, now) THEN d.intr \union {"SI"} ELSE d.intr
  BY <1>0, <1>1, SiRetire
<1>4. /\ p \in Machine /\ PiRetired(s, p, now) /\ SameSi(s, p) /\ BusOnly(s, p)
      /\ p.intr = IF PiEnds(s, now) THEN s.intr \union {"PI"} ELSE s.intr
  BY <1>2, <1>3, PiRetire
<1>5. PiEnds(s, now) <=> PiEnds(d, now)
  BY <1>3 DEF PiEnds, SamePi
<1>6. PiRetired(d, p, now)
  BY <1>3, <1>4, <1>5 DEF PiRetired, SamePi
<1>7. SiRetired(d, p, now)
  BY <1>3, <1>4 DEF SiRetired, SameSi
<1>8. BusOnly(d, p)
  BY <1>3, <1>4 DEF BusOnly, SameAi, SameQueue, SameVi
<1>9. BusyOk(p)
  <2>1. BusyOk(d)
    BY DEF Sound
  <2>2. p.siStatus = p.siBusy
    BY <1>7, <2>1 DEF SiRetired, BusyOk
  <2>3. "dma" \in p.piStatus <=> p.piBusy
    <3>1. CASE PiEnds(d, now)
      <4>1. p.piStatus = {"int"} /\ p.piBusy = FALSE
        BY <1>6, <3>1 DEF PiRetired
      <4>2. "dma" \notin p.piStatus
        BY <4>1
      <4> QED BY <4>1, <4>2, Zenon
    <3>2. CASE ~PiEnds(d, now)
      <4>1. p.piStatus = d.piStatus /\ p.piBusy = d.piBusy
        BY <1>6, <3>2 DEF PiRetired
      <4>2. ("dma" \in d.piStatus <=> d.piBusy)
        BY <2>1 DEF BusyOk
      <4> QED BY <4>1, <4>2
    <3> QED BY <3>1, <3>2
  <2> QED BY <2>2, <2>3 DEF BusyOk
<1>10. Sound(p)
  <2>1. Queue(p) /\ p.aiNext = aiNextEvent(p)
    BY <1>8, SameAiKeeps DEF BusOnly, Sound, SameAi
  <2> QED BY <1>4, <1>9, <2>1 DEF Sound
<1>11. Pending(p, now)
  BY <1>0, <1>6, <1>7 DEF Pending, PiRetired, SiRetired, PiEnds, SiEnds
<1>12. /\ "PI" \in p.intr <=> "PI" \in d.intr \/ PiEnds(d, now)
       /\ "SI" \in p.intr <=> "SI" \in d.intr \/ SiEnds(d, now)
       /\ "AI" \in p.intr <=> "AI" \in d.intr
       /\ "VI" \in p.intr <=> "VI" \in d.intr
  BY <1>3, <1>4, <1>5
<1> QED BY <1>6, <1>7, <1>8, <1>10, <1>11, <1>12 DEF p, s

\* Nothing is overdue after the loop of stepCpu, and each device did what its
\* clock says.
LEMMA Retire ==
  ASSUME NEW t \in Nat, NEW d, Live(d, t), NEW e, e = retireDue(d, t + 1)
  PROVE  Ahead(e, t + 1, t + 1) /\ Retired(d, e, t + 1)
<1> DEFINE now == t + 1
           s == IF d.siBusy /\ now >= d.siDoneAt THEN siFinish(d) ELSE d
           p == IF s.piBusy /\ now >= s.piDoneAt THEN piFinish(s) ELSE s
<1>0. Sound(d) /\ now \in Nat
  BY DEF Live
<1>1. e = IF now >= p.evNext THEN viTick(p, now) ELSE p
  BY Zenon DEF retireDue
<1>2. /\ Sound(p) /\ BusOnly(d, p) /\ Pending(p, now)
      /\ PiRetired(d, p, now) /\ SiRetired(d, p, now)
      /\ "PI" \in p.intr <=> "PI" \in d.intr \/ PiEnds(d, now)
      /\ "SI" \in p.intr <=> "SI" \in d.intr \/ SiEnds(d, now)
      /\ "AI" \in p.intr <=> "AI" \in d.intr
      /\ "VI" \in p.intr <=> "VI" \in d.intr
  BY <1>0, RetireBuses, Zenon
<1> HIDE DEF s, p
<1>3. SameAi(d, p) /\ SameVi(d, p) /\ p.evNext = d.evNext /\ p.mask = d.mask
  BY <1>2 DEF BusOnly
<1>4. /\ p.line = d.line /\ p.height = d.height /\ p.viLast = d.viLast /\ p.viNext = d.viNext
      /\ p.aiLast = d.aiLast /\ p.aiNext = d.aiNext
      /\ p.fifo = d.fifo /\ p.rate = d.rate /\ p.queued = d.queued /\ p.ended = d.ended
  BY <1>3 DEF SameAi, SameQueue, SameVi
<1>5. Near(p, now) /\ InTime(p, now) /\ (AiDone(p, now) <=> AiDone(d, now)) /\ End(p) = End(d)
  BY <1>3, LiveTime, SameAiKeeps
<1>6. LineAfter(p, p.viLast) = LineAfter(d, d.viLast)
  BY <1>4, Zenon DEF LineAfter, LineAt
<1>7. /\ p \in Machine /\ Queue(p) /\ p.viLast \in Nat /\ p.aiLast \in Nat /\ p.evNext \in Int
      /\ p.viLast <= now /\ p.aiLast <= t /\ p.viLast <= p.aiLast
  <2>1. p \in Machine /\ Queue(p) /\ p.viLast \in Nat /\ p.aiLast \in Nat /\ p.evNext \in Int
    BY <1>2, SoundTypes
  <2>2. p.aiLast <= t /\ p.viLast <= p.aiLast
    BY <1>4 DEF Live
  <2> QED BY <2>1, <2>2
<1>8. AiAfter(p, e, now) => AiAfter(d, e, now)
  BY <1>4, <1>5 DEF AiAfter
<1>9. CASE now >= p.evNext
  <2>1. Scanned(p, e, now)
    BY <1>0, <1>1, <1>5, <1>7, <1>9, Scan
  <2>2. /\ e \in Machine /\ Queue(e) /\ SamePi(p, e) /\ SameSi(p, e)
        /\ e.mask = p.mask /\ e.line = p.line /\ e.height = p.height
        /\ e.viLast = now /\ e.viNext = viNextEvent(e, now) /\ e.aiNext = aiNextEvent(e)
        /\ e.evNext = Earlier(e.viNext, e.aiNext) /\ AiLooked(p, e, now)
        /\ "PI" \in e.intr <=> "PI" \in p.intr
        /\ "SI" \in e.intr <=> "SI" \in p.intr
        /\ "AI" \in e.intr <=> "AI" \in p.intr \/ AiDone(p, now)
        /\ "VI" \in e.intr <=> "VI" \in p.intr \/ now >= LineAfter(p, p.viLast)
    BY <2>1 DEF Scanned
  <2>3. e.aiLast = now
    BY <2>2 DEF AiLooked
  <2>4. AiAfter(d, e, now)
    BY <1>0, <1>7, <1>8, <2>2, LookedAfter
  <2>5. PiRetired(d, e, now)
    BY <1>2, <2>2 DEF PiRetired, SamePi
  <2>6. SiRetired(d, e, now)
    BY <1>2, <2>2 DEF SiRetired, SameSi
  <2>7. Retired(d, e, now)
    BY <1>2, <1>4, <1>3, <1>5, <1>6, <2>2, <2>4, <2>5, <2>6, Zenon DEF Retired
  <2>8. Pending(e, now)
    BY <1>2, <2>2 DEF Pending, SamePi, SameSi
  <2>9. BusyOk(e)
    <3>1. BusyOk(p)
      BY <1>2 DEF Sound
    <3> QED BY <2>2, <3>1, Zenon DEF BusyOk, SamePi, SameSi
  <2>10. Sound(e) /\ Linked(e)
    BY <2>2, <2>9 DEF Sound, Linked
  <2>11. now < e.evNext
    <3>1. e.viNext \in Nat /\ e.viNext > now
      BY <1>0, <2>2, ScanFacts, Zenon
    <3>2. e.aiNext = NoDeadline \/ (e.aiNext \in Nat /\ e.aiNext > now)
      BY <2>3, <2>10, SoundTypes, Zenon
    <3> QED BY <1>0, <2>2, <3>1, <3>2 DEF Earlier
  <2>12. e.viLast <= e.aiLast /\ e.aiLast <= now
    BY <1>0, <2>2, <2>3
  <2> QED BY <2>7, <2>8, <2>10, <2>11, <2>12 DEF Ahead
<1>10. CASE ~(now >= p.evNext)
  <2>1. e = p
    BY <1>1, <1>10
  <2>2. now < p.evNext
    BY <1>0, <1>7, <1>10
  <2>3. Linked(d)
    <3>1. d.evNext # 0
      BY <1>0, <1>3, <2>2
    <3> QED BY <3>1 DEF Live
  <2>4. Linked(p)
    <3>1. viNextEvent(p, p.viLast) = viNextEvent(d, d.viLast)
      BY <1>4, Zenon DEF viNextEvent, LineAt
    <3> QED BY <1>3, <1>4, <2>3, <3>1 DEF Linked
  <2>5. d.evNext <= LineAfter(d, d.viLast) /\ (d.fifo # <<>> => d.evNext <= d.aiNext)
        /\ LineAfter(d, d.viLast) \in Nat /\ d.evNext \in Nat
    BY <1>0, <2>3, LinkedFacts
  <2>6. ~(now >= LineAfter(d, d.viLast))
    BY <1>0, <1>3, <2>2, <2>5
  <2>7. ~AiDone(d, now)
    <3>1. ASSUME d.fifo # <<>> PROVE d.rate * now < End(d) /\ End(d) \in Int /\ d.rate * now \in Int
      <4>1. d.aiNext \in Nat
        BY <1>0, <3>1, SoundTypes
      <4>2. now < d.aiNext
        BY <1>0, <1>3, <2>2, <2>5, <3>1, <4>1
      <4>3. d.rate * now < End(d)
        BY <1>0, <3>1, <4>2, BeforeEnd
      <4>4. End(d) \in Int /\ d.rate * now \in Int
        BY <1>0, SoundTypes, QueueTypes DEF End
      <4> QED BY <4>3, <4>4
    <3> QED BY <3>1 DEF AiDone
  <2>8. AiAfter(d, e, now)
    BY <1>4, <1>5, <2>1, <2>7 DEF AiAfter
  <2>9. Retired(d, e, now)
    BY <1>2, <1>3, <1>4, <2>1, <2>6, <2>7, <2>8, Zenon DEF Retired
  <2> QED BY <1>0, <1>2, <1>7, <2>1, <2>2, <2>4, <2>9 DEF Ahead
<1> QED BY <1>9, <1>10

----------------------------------------------------------------------------
(* The accesses of the guest, by register. *)

LEMMA AccessIs ==
  ASSUME NEW o, NEW d, NEW t
  PROVE  /\ o.reg = "nop"            => Access(o, d, t) = d
         /\ o.reg = "MI_MASK"        => Access(o, d, t) = MI_MASK(d, o.arg, o.arg2)
         /\ o.reg = "cartWrite"      => Access(o, d, t) = cartWrite(d, t)
         /\ o.reg = "cartRead"       => Access(o, d, t) = cartRead(d, t)
         /\ o.reg = "PI_LEN"         => Access(o, d, t) = piDma(d, t, o.arg)
         /\ o.reg = "PI_STATUS_read" => Access(o, d, t) = PI_STATUS_read(d, t)
         /\ o.reg = "PI_STATUS"      => Access(o, d, t) = PI_STATUS_write(d, o.arg, o.arg2)
         /\ o.reg = "SI_DMA"         => Access(o, d, t) = siDma(d, t, o.arg, o.arg2)
         /\ o.reg = "SI_STATUS"      => Access(o, d, t) = SI_STATUS_write(d)
         /\ o.reg = "AI_LEN_read"    => Access(o, d, t) = aiTick(d, t)
         /\ o.reg = "AI_LEN"         => Access(o, d, t) = AI_LEN_write(d, t, o.arg)
         /\ o.reg = "AI_DACRATE"     => Access(o, d, t) = AI_DACRATE_write(d, t, o.arg)
         /\ o.reg = "AI_STATUS"      => Access(o, d, t) = clearIntr(d, "AI")
         /\ o.reg = "VI_INTR"        => Access(o, d, t) = VI_INTR_write(d, o.arg)
         /\ o.reg = "VI_V_SYNC"      => Access(o, d, t) = VI_V_SYNC_write(d, o.arg)
         /\ o.reg = "VI_CURRENT"     => Access(o, d, t) = clearIntr(d, "VI")
BY DEF Access

PiRegs == {"cartWrite", "cartRead", "PI_LEN", "PI_STATUS_read", "PI_STATUS"}
SiRegs == {"SI_DMA", "SI_STATUS"}
AiRegs == {"AI_LEN_read", "AI_LEN", "AI_DACRATE"}
ViRegs == {"VI_INTR", "VI_V_SYNC"}
MiRegs == {"nop", "MI_MASK", "AI_STATUS", "VI_CURRENT"}

LEMMA OpTypes ==
  ASSUME NEW o \in Ops
  PROVE  /\ o.reg \in MiRegs \union PiRegs \union SiRegs \union AiRegs \union ViRegs
         /\ o.reg = "MI_MASK" => o.arg \in SUBSET {"PI"} /\ o.arg2 \in SUBSET {"PI"}
         /\ o.reg = "PI_LEN" => o.arg \in Nat
         /\ o.reg = "PI_STATUS" => o.arg \in BOOLEAN /\ o.arg2 = TRUE
         /\ o.reg = "SI_DMA" => o.arg \in BOOLEAN /\ o.arg2 \in Nat
         /\ o.reg = "AI_LEN" => o.arg \in Nat
         /\ o.reg = "AI_DACRATE" => o.arg \in AiRates
         /\ o.reg = "VI_INTR" => o.arg \in Lines
         /\ o.reg = "VI_V_SYNC" => o.arg \in Heights
<1> DEFINE O1 == {Op("nop", 0, 0), Op("cartWrite", 0, 0), Op("cartRead", 0, 0),
                  Op("PI_STATUS_read", 0, 0), Op("SI_STATUS", 0, 0), Op("AI_LEN_read", 0, 0),
                  Op("AI_STATUS", 0, 0), Op("VI_CURRENT", 0, 0)}
           O2 == {Op("MI_MASK", s[1], s[2]) : s \in {<<{}, {"PI"}>>, <<{"PI"}, {}>>}}
           O3 == {Op("PI_LEN", t, 0) : t \in PiTimes}
           O4 == {Op("PI_STATUS", r, TRUE) : r \in BOOLEAN}
           O5 == {Op("SI_DMA", p, t) : p \in BOOLEAN, t \in SiTimes}
           O6 == {Op("AI_LEN", l, 0) : l \in AiLens}
           O7 == {Op("AI_DACRATE", r, 0) : r \in AiRates}
           O8 == {Op("VI_INTR", l, 0) : l \in Lines}
           O9 == {Op("VI_V_SYNC", h, 0) : h \in Heights}
           U == O1 \union O2 \union O3 \union O4 \union O5 \union O6 \union O7 \union O8 \union O9
<1>0. Ops = {x \in U : x.reg \in Registers}
  BY DEF Ops
<1>1. o \in O1 \/ o \in O2 \/ o \in O3 \/ o \in O4 \/ o \in O5 \/ o \in O6 \/ o \in O7
      \/ o \in O8 \/ o \in O9
  <2> HIDE DEF O1, O2, O3, O4, O5, O6, O7, O8, O9
  <2>1. o \in U
    <3> HIDE DEF U
    <3> QED BY <1>0
  <2> QED BY <2>1
<1>2. PiTimes \subseteq Nat /\ SiTimes \subseteq Nat /\ AiLens \subseteq Nat
  BY DeviceAssumption
<1>3. CASE o \in O1
  BY <1>3 DEF Op, MiRegs, PiRegs, SiRegs, AiRegs
<1>4. CASE o \in O2
  <2>1. o = Op("MI_MASK", {}, {"PI"}) \/ o = Op("MI_MASK", {"PI"}, {})
    BY <1>4
  <2> QED BY <2>1 DEF Op, MiRegs
<1>5. CASE o \in O3
  BY <1>2, <1>5 DEF Op, PiRegs
<1>6. CASE o \in O4
  BY <1>6 DEF Op, PiRegs
<1>7. CASE o \in O5
  BY <1>2, <1>7 DEF Op, SiRegs
<1>8. CASE o \in O6
  BY <1>2, <1>8 DEF Op, AiRegs
<1>9. CASE o \in O7
  BY <1>9 DEF Op, AiRegs
<1>10. CASE o \in O8
  BY <1>10 DEF Op, ViRegs
<1>11. CASE o \in O9
  BY <1>11 DEF Op, ViRegs
<1> HIDE DEF O1, O2, O3, O4, O5, O6, O7, O8, O9
<1> QED BY <1>1, <1>3, <1>4, <1>5, <1>6, <1>7, <1>8, <1>9, <1>10, <1>11

\* What accesses to the buses and the interrupt mask leave alone.
Timers(d, e) == SameAi(d, e) /\ SameVi(d, e) /\ e.evNext = d.evNext
Line(d, e, l) == l \in e.intr <=> l \in d.intr
NotPi(d, e) == /\ Timers(d, e) /\ SameSi(d, e) /\ e.mask = d.mask
               /\ Line(d, e, "SI") /\ Line(d, e, "AI") /\ Line(d, e, "VI")
NotSi(d, e) == /\ Timers(d, e) /\ SamePi(d, e) /\ e.mask = d.mask
               /\ Line(d, e, "PI") /\ Line(d, e, "AI") /\ Line(d, e, "VI")

LEMMA BusIsTimers == ASSUME NEW d, NEW e, BusOnly(d, e) PROVE Timers(d, e) /\ e.mask = d.mask
BY DEF BusOnly, Timers

LEMMA NotPiTrans == ASSUME NEW d, NEW e, NEW f, NotPi(d, e), NotPi(e, f) PROVE NotPi(d, f)
<1>1. Timers(d, f) /\ SameSi(d, f) /\ f.mask = d.mask
  BY DEF NotPi, Timers, SameAi, SameQueue, SameVi, SameSi
<1>2. Line(d, f, "SI") /\ Line(d, f, "AI") /\ Line(d, f, "VI")
  BY DEF NotPi, Line
<1> QED BY <1>1, <1>2 DEF NotPi

LEMMA NotSiTrans == ASSUME NEW d, NEW e, NEW f, NotSi(d, e), NotSi(e, f) PROVE NotSi(d, f)
<1>1. Timers(d, f) /\ SamePi(d, f) /\ f.mask = d.mask
  BY DEF NotSi, Timers, SameAi, SameQueue, SameVi, SamePi
<1>2. Line(d, f, "PI") /\ Line(d, f, "AI") /\ Line(d, f, "VI")
  BY DEF NotSi, Line
<1> QED BY <1>1, <1>2 DEF NotSi

LEMMA PiFinish ==
  ASSUME NEW d \in Machine, NEW e, e = piFinish(d)
  PROVE  /\ e \in Machine /\ NotPi(d, e) /\ e.armed = d.armed /\ e.piBusy = FALSE
         /\ e.piStatus = (IF d.piBusy THEN {"int"} ELSE d.piStatus)
         /\ e.piDoneAt = d.piDoneAt /\ e.ioUntil = d.ioUntil
         /\ e.latched = d.latched /\ e.latchEnd = d.latchEnd
         /\ "PI" \in e.intr <=> "PI" \in d.intr \/ d.piBusy
<1>1. d.piDoneAt \in Nat /\ d.piBusy \in BOOLEAN
  BY DEF Machine
<1>2. PiEnds(d, d.piDoneAt) <=> d.piBusy
  BY <1>1 DEF PiEnds
<1>3. e = IF PiEnds(d, d.piDoneAt) THEN piFinish(d) ELSE d
  BY <1>2 DEF piFinish
<1>4. /\ e \in Machine /\ PiRetired(d, e, d.piDoneAt) /\ SameSi(d, e) /\ BusOnly(d, e)
      /\ e.intr = IF PiEnds(d, d.piDoneAt) THEN d.intr \union {"PI"} ELSE d.intr
  BY <1>1, <1>3, PiRetire
<1>5. Line(d, e, "SI") /\ Line(d, e, "AI") /\ Line(d, e, "VI")
  BY <1>4 DEF Line
<1>6. NotPi(d, e)
  BY <1>4, <1>5, BusIsTimers DEF NotPi
<1>7. "PI" \in e.intr <=> "PI" \in d.intr \/ d.piBusy
  BY <1>2, <1>4
<1>8. e.armed = d.armed
  BY <1>4 DEF BusOnly
<1> QED BY <1>1, <1>2, <1>4, <1>6, <1>7, <1>8 DEF PiRetired

LEMMA SiFinish ==
  ASSUME NEW d \in Machine, NEW e, e = siFinish(d)
  PROVE  /\ e \in Machine /\ NotSi(d, e) /\ e.armed = d.armed /\ e.siBusy = FALSE
         /\ e.siStatus = (IF d.siBusy THEN FALSE ELSE d.siStatus)
         /\ e.rdram = (IF d.siBusy /\ ~d.siToPif THEN d.pif ELSE d.rdram)
         /\ e.siToPif = d.siToPif /\ e.siDoneAt = d.siDoneAt /\ e.pif = d.pif
         /\ "SI" \in e.intr <=> "SI" \in d.intr \/ d.siBusy
<1>1. d.siDoneAt \in Nat /\ d.siBusy \in BOOLEAN
  BY DEF Machine
<1>2. SiEnds(d, d.siDoneAt) <=> d.siBusy
  BY <1>1 DEF SiEnds
<1>3. e = IF SiEnds(d, d.siDoneAt) THEN siFinish(d) ELSE d
  BY <1>2 DEF siFinish
<1>4. /\ e \in Machine /\ SiRetired(d, e, d.siDoneAt) /\ SamePi(d, e) /\ BusOnly(d, e)
      /\ e.intr = IF SiEnds(d, d.siDoneAt) THEN d.intr \union {"SI"} ELSE d.intr
  BY <1>1, <1>3, SiRetire
<1>5. Line(d, e, "PI") /\ Line(d, e, "AI") /\ Line(d, e, "VI")
  BY <1>4 DEF Line
<1>6. NotSi(d, e)
  BY <1>4, <1>5, BusIsTimers DEF NotSi
<1>7. "SI" \in e.intr <=> "SI" \in d.intr \/ d.siBusy
  BY <1>2, <1>4
<1>8. e.armed = d.armed
  BY <1>4 DEF BusOnly
<1> QED BY <1>1, <1>2, <1>4, <1>6, <1>7, <1>8 DEF SiRetired

\* The bits and the latch of the cartridge bus.
LEMMA SetBits ==
  ASSUME NEW d \in Machine, NEW s \in SUBSET {"dma", "int", "io"}, NEW l \in BOOLEAN,
         NEW e, e = [d EXCEPT !.piStatus = s, !.latched = l]
  PROVE  e \in Machine /\ NotPi(d, e)
<1>1. e \in Machine
  BY DEF Machine
<1>3. Timers(d, e)
  BY DEF Machine, Timers, SameAi, SameQueue, SameVi
<1>4. SameSi(d, e) /\ e.mask = d.mask /\ e.intr = d.intr
  BY DEF Machine, SameSi
<1> QED BY <1>1, <1>3, <1>4 DEF NotPi, Line

LEMMA Decay ==
  ASSUME NEW d \in Machine, NEW t \in Nat, NEW e, e = piIoDecay(d, t)
  PROVE  /\ e \in Machine /\ NotPi(d, e) /\ e.intr = d.intr /\ e.armed = d.armed
         /\ e.piStatus = (IF t >= d.ioUntil THEN d.piStatus \ {"io"} ELSE d.piStatus)
         /\ e.latched = (d.latched /\ t < d.latchEnd) /\ e.piBusy = d.piBusy
         /\ e.piDoneAt = d.piDoneAt /\ e.ioUntil = d.ioUntil /\ e.latchEnd = d.latchEnd
<1> DEFINE s == IF t >= d.ioUntil THEN d.piStatus \ {"io"} ELSE d.piStatus
<1>1. d.piStatus \in SUBSET {"dma", "int", "io"}
  BY DEF Machine
<1>2. s \in SUBSET {"dma", "int", "io"}
  BY <1>1
<1>3. e = [d EXCEPT !.piStatus = s, !.latched = d.latched /\ t < d.latchEnd]
  BY DEF piIoDecay
<1>4. s = (IF t >= d.ioUntil THEN d.piStatus \ {"io"} ELSE d.piStatus)
  OBVIOUS
<1> HIDE DEF s
<1>5. CASE d.latched /\ t < d.latchEnd
  <2>1. e = [d EXCEPT !.piStatus = s, !.latched = TRUE]
    BY <1>3, <1>5
  <2>2. /\ e \in Machine /\ NotPi(d, e) /\ e.intr = d.intr /\ e.armed = d.armed
        /\ e.piStatus = s /\ e.latched = TRUE /\ e.piBusy = d.piBusy
        /\ e.piDoneAt = d.piDoneAt /\ e.ioUntil = d.ioUntil /\ e.latchEnd = d.latchEnd
    <3>1. TRUE \in BOOLEAN
      OBVIOUS
    <3>2. e \in Machine /\ NotPi(d, e)
      BY <1>2, <2>1, <3>1, SetBits, Zenon
    <3>3. /\ e.intr = d.intr /\ e.armed = d.armed /\ e.piStatus = s /\ e.latched = TRUE
          /\ e.piBusy = d.piBusy /\ e.piDoneAt = d.piDoneAt
          /\ e.ioUntil = d.ioUntil /\ e.latchEnd = d.latchEnd
      BY <2>1 DEF Machine
    <3> QED BY <3>2, <3>3
  <2> QED BY <1>4, <1>5, <2>2
<1>6. CASE ~(d.latched /\ t < d.latchEnd)
  <2>1. e = [d EXCEPT !.piStatus = s, !.latched = FALSE]
    BY <1>3, <1>6
  <2>2. /\ e \in Machine /\ NotPi(d, e) /\ e.intr = d.intr /\ e.armed = d.armed
        /\ e.piStatus = s /\ e.latched = FALSE /\ e.piBusy = d.piBusy
        /\ e.piDoneAt = d.piDoneAt /\ e.ioUntil = d.ioUntil /\ e.latchEnd = d.latchEnd
    <3>1. FALSE \in BOOLEAN
      OBVIOUS
    <3>2. e \in Machine /\ NotPi(d, e)
      BY <1>2, <2>1, <3>1, SetBits, Zenon
    <3>3. /\ e.intr = d.intr /\ e.armed = d.armed /\ e.piStatus = s /\ e.latched = FALSE
          /\ e.piBusy = d.piBusy /\ e.piDoneAt = d.piDoneAt
          /\ e.ioUntil = d.ioUntil /\ e.latchEnd = d.latchEnd
      BY <2>1 DEF Machine
    <3> QED BY <3>2, <3>3
  <2> QED BY <1>4, <1>6, <2>2
<1> QED BY <1>5, <1>6

\* An access to the cartridge bus: no busy bit is left behind, and a store that
\* starts a transfer is one the compiled block leaves at.
PiMove(d, e) ==
  /\ e \in Machine /\ NotPi(d, e) /\ (BusyOk(d) => BusyOk(e))
  /\ ~e.armed => /\ e.piBusy => d.piBusy
                 /\ e.piDoneAt = d.piDoneAt

SameBus(d, e) == SamePi(d, e) /\ Line(d, e, "PI")

LEMMA BusyPi ==
  ASSUME NEW d, NEW e, SameSi(d, e), "dma" \in d.piStatus <=> "dma" \in e.piStatus,
         e.piBusy = d.piBusy
  PROVE  BusyOk(d) => BusyOk(e)
BY DEF BusyOk, SameSi

LEMMA LatchTypes ==
  ASSUME NEW d \in Machine, NEW s \in SUBSET {"dma", "int", "io"}, NEW i \in Nat, NEW n \in Nat
  PROVE  /\ [d EXCEPT !.latched = TRUE, !.latchEnd = n, !.ioUntil = i, !.piStatus = s] \in Machine
         /\ [d EXCEPT !.latched = FALSE, !.piStatus = s] \in Machine
BY DEF Machine

CartWrote(d, e, t) ==
  LET x == piIoDecay(d, t)
      b == "io" \in x.piStatus \/ x.latched
  IN /\ PiMove(d, e) /\ Line(d, e, "PI")
     /\ e.piBusy = d.piBusy /\ e.piDoneAt = d.piDoneAt
     /\ b => SamePi(x, e)
     /\ ~b => /\ e.piStatus = x.piStatus \union {"io"} /\ e.latched = TRUE
              /\ e.ioUntil = t + IoTime /\ e.latchEnd = t + LatchTime

LEMMA CartWrite ==
  ASSUME NEW d \in Machine, NEW t \in Nat, NEW e, e = cartWrite(d, t)
  PROVE  CartWrote(d, e, t)
<1> USE DEF CartWrote
<1> DEFINE x == piIoDecay(d, t)
           b == "io" \in x.piStatus \/ x.latched
           s == x.piStatus \union {"io"}
           i == t + IoTime
           n == t + LatchTime
<1>1. /\ x \in Machine /\ NotPi(d, x) /\ x.intr = d.intr /\ x.armed = d.armed
      /\ x.piStatus = (IF t >= d.ioUntil THEN d.piStatus \ {"io"} ELSE d.piStatus)
      /\ x.piBusy = d.piBusy /\ x.piDoneAt = d.piDoneAt
  BY Decay, ZenonT(60)
<1>2. e = IF b THEN x ELSE [x EXCEPT !.latched = TRUE, !.latchEnd = n, !.ioUntil = i, !.piStatus = s]
  BY DEF cartWrite
<1>3. i \in Nat /\ n \in Nat
  BY DeviceAssumption
<1>4. s \in SUBSET {"dma", "int", "io"}
  <2>1. x.piStatus \in SUBSET {"dma", "int", "io"}
    BY <1>1 DEF Machine
  <2> QED BY <2>1
<1>5. "dma" \in x.piStatus <=> "dma" \in d.piStatus
  BY <1>1
<1>6. "dma" \in s <=> "dma" \in d.piStatus
  BY <1>5
<1> HIDE DEF x, s, i, n
<1>7. SameSi(d, x)
  BY <1>1 DEF NotPi
<1>8. CASE b
  <2>1. e = x
    BY <1>2, <1>8
  <2>2. BusyOk(d) => BusyOk(e)
    BY <1>1, <1>5, <1>7, <2>1, BusyPi
  <2> QED BY <1>1, <1>8, <2>1, <2>2 DEF x, PiMove, Line, SamePi
<1>9. CASE ~b
  <2> HIDE DEF b
  <2>1. e = [x EXCEPT !.latched = TRUE, !.latchEnd = n, !.ioUntil = i, !.piStatus = s]
    BY <1>2, <1>9
  <2>2. e \in Machine
    <3>1. x \in Machine /\ i \in Nat /\ n \in Nat
      BY <1>1, <1>3
    <3>2. [x EXCEPT !.latched = TRUE, !.latchEnd = n, !.ioUntil = i, !.piStatus = s] \in Machine
      BY <1>4, <3>1, LatchTypes, Zenon
    <3> QED BY <2>1, <3>2, Zenon
  <2>3. /\ e.piStatus = s /\ e.latched = TRUE /\ e.ioUntil = i /\ e.latchEnd = n
        /\ e.intr = x.intr /\ e.armed = x.armed /\ e.piBusy = x.piBusy /\ e.piDoneAt = x.piDoneAt
    BY <1>1, <2>1 DEF Machine
  <2>4. Timers(x, e)
    BY <1>1, <2>1 DEF Machine, Timers, SameAi, SameQueue, SameVi
  <2>5. SameSi(x, e) /\ e.mask = x.mask
    BY <1>1, <2>1 DEF Machine, SameSi
  <2>6. NotPi(x, e)
    BY <2>3, <2>4, <2>5 DEF NotPi, Line
  <2>7. NotPi(d, e)
    BY <1>1, <2>6, NotPiTrans
  <2>8. BusyOk(d) => BusyOk(e)
    BY <1>1, <1>6, <2>3, <2>7, BusyPi DEF NotPi
  <2>9. PiMove(d, e) /\ Line(d, e, "PI")
    BY <1>1, <2>2, <2>3, <2>7, <2>8 DEF PiMove, Line
  <2> QED BY <1>1, <1>9, <2>3, <2>9 DEF x, b, s, i, n
<1> QED BY <1>8, <1>9

CartSeen(d, e, t) ==
  LET x == piIoDecay(d, t)
      b == d.latched /\ t < d.latchEnd
  IN /\ PiMove(d, e) /\ Line(d, e, "PI")
     /\ e.piBusy = d.piBusy /\ e.piDoneAt = d.piDoneAt
     /\ e.ioUntil = d.ioUntil /\ e.latchEnd = d.latchEnd
     /\ ~b => SamePi(x, e)
     /\ b => e.piStatus = d.piStatus \ {"io"} /\ e.latched = FALSE

LEMMA CartRead ==
  ASSUME NEW d \in Machine, NEW t \in Nat, NEW e, e = cartRead(d, t)
  PROVE  CartSeen(d, e, t)
<1> USE DEF CartSeen
<1> DEFINE x == piIoDecay(d, t)
           b == d.latched /\ t < d.latchEnd
           s == d.piStatus \ {"io"}
<1>1. /\ x \in Machine /\ NotPi(d, x) /\ x.intr = d.intr /\ x.armed = d.armed
      /\ x.piStatus = (IF t >= d.ioUntil THEN d.piStatus \ {"io"} ELSE d.piStatus)
      /\ x.piBusy = d.piBusy /\ x.piDoneAt = d.piDoneAt
      /\ x.ioUntil = d.ioUntil /\ x.latchEnd = d.latchEnd
  BY Decay
<1>2. e = IF b THEN [d EXCEPT !.latched = FALSE, !.piStatus = s] ELSE x
  BY DEF cartRead
<1>4. s \in SUBSET {"dma", "int", "io"}
  <2>1. d.piStatus \in SUBSET {"dma", "int", "io"}
    BY DEF Machine
  <2> QED BY <2>1
<1>5. ("dma" \in x.piStatus <=> "dma" \in d.piStatus) /\ ("dma" \in s <=> "dma" \in d.piStatus)
  BY <1>1
<1> HIDE DEF x, s
<1>8. CASE ~b
  <2>1. e = x
    BY <1>2, <1>8
  <2>2. BusyOk(d) => BusyOk(e)
    BY <1>1, <1>5, <2>1, BusyPi DEF NotPi
  <2> QED BY <1>1, <1>8, <2>1, <2>2 DEF x, PiMove, Line, SamePi
<1>9. CASE b
  <2> HIDE DEF b
  <2>1. e = [d EXCEPT !.latched = FALSE, !.piStatus = s]
    BY <1>2, <1>9
  <2>2. e \in Machine
    BY <1>4, <2>1, LatchTypes, ZenonT(30)
  <2>3. /\ e.piStatus = s /\ e.latched = FALSE /\ e.ioUntil = d.ioUntil /\ e.latchEnd = d.latchEnd
        /\ e.intr = d.intr /\ e.armed = d.armed /\ e.piBusy = d.piBusy /\ e.piDoneAt = d.piDoneAt
    BY <2>1 DEF Machine
  <2>4. Timers(d, e)
    BY <2>1 DEF Machine, Timers, SameAi, SameQueue, SameVi
  <2>5. SameSi(d, e) /\ e.mask = d.mask
    BY <2>1 DEF Machine, SameSi
  <2>6. NotPi(d, e)
    BY <2>3, <2>4, <2>5 DEF NotPi, Line
  <2>8. BusyOk(d) => BusyOk(e)
    BY <1>5, <2>3, <2>5, BusyPi
  <2>9. PiMove(d, e) /\ Line(d, e, "PI")
    BY <2>2, <2>3, <2>6, <2>8 DEF PiMove, Line
  <2> QED BY <1>9, <2>3, <2>9 DEF x, b, s
<1> QED BY <1>8, <1>9

\* The flag that ends a compiled block is no part of the devices.
Equal(d, e) == /\ SamePi(d, e) /\ SameSi(d, e) /\ Timers(d, e)
               /\ e.mask = d.mask /\ e.intr = d.intr

LEMMA SetArmed ==
  ASSUME NEW d \in Machine, NEW e, e = [d EXCEPT !.armed = TRUE] \/ e = [d EXCEPT !.armed = FALSE]
  PROVE  e \in Machine /\ Equal(d, e)
<1>1. e \in Machine
  <2>1. [d EXCEPT !.armed = TRUE] \in Machine
    BY DEF Machine
  <2>2. [d EXCEPT !.armed = FALSE] \in Machine
    BY DEF Machine
  <2> QED BY <2>1, <2>2, Zenon
<1>2. SamePi(d, e) /\ SameSi(d, e) /\ e.mask = d.mask /\ e.intr = d.intr
  BY DEF Machine, SamePi, SameSi
<1>3. Timers(d, e)
  BY DEF Machine, Timers, SameAi, SameQueue, SameVi
<1> QED BY <1>1, <1>2, <1>3 DEF Equal

LEMMA ArmedIs == ASSUME NEW d \in Machine PROVE jitCancelChain(d).armed = TRUE
BY DEF Machine, jitCancelChain

StatusSeen(d, e, t) ==
  LET x == piIoDecay(d, t)
      b == t >= d.piDoneAt /\ d.piBusy
  IN /\ PiMove(d, e) /\ e.armed = d.armed
     /\ "PI" \in e.intr <=> "PI" \in d.intr \/ b
     /\ e.piBusy = (IF b THEN FALSE ELSE d.piBusy) /\ e.piDoneAt = d.piDoneAt
     /\ e.piStatus = (IF b THEN {"int"} ELSE x.piStatus)
     /\ e.latched = x.latched /\ e.ioUntil = d.ioUntil /\ e.latchEnd = d.latchEnd

LEMMA PiStatusRead ==
  ASSUME NEW d \in Machine, NEW t \in Nat, NEW e, e = PI_STATUS_read(d, t)
  PROVE  StatusSeen(d, e, t)
<1> USE DEF StatusSeen
<1> DEFINE x == piIoDecay(d, t)
           b == t >= d.piDoneAt /\ d.piBusy
<1>1. /\ x \in Machine /\ NotPi(d, x) /\ x.intr = d.intr /\ x.armed = d.armed
      /\ x.piStatus = (IF t >= d.ioUntil THEN d.piStatus \ {"io"} ELSE d.piStatus)
      /\ x.piBusy = d.piBusy /\ x.piDoneAt = d.piDoneAt
      /\ x.ioUntil = d.ioUntil /\ x.latchEnd = d.latchEnd
  BY Decay
<1>2. e = IF t >= x.piDoneAt THEN piFinish(x) ELSE x
  BY DEF PI_STATUS_read
<1>3. "dma" \in x.piStatus <=> "dma" \in d.piStatus
  BY <1>1
<1> HIDE DEF x
<1>4. x.piBusy \in BOOLEAN
  BY <1>1 DEF Machine
<1>5. CASE b
  <2>1. e = piFinish(x)
    BY <1>1, <1>2, <1>5
  <2>2. /\ e \in Machine /\ NotPi(x, e) /\ e.armed = x.armed /\ e.piBusy = FALSE
        /\ e.piStatus = (IF x.piBusy THEN {"int"} ELSE x.piStatus)
        /\ e.piDoneAt = x.piDoneAt /\ e.ioUntil = x.ioUntil
        /\ e.latched = x.latched /\ e.latchEnd = x.latchEnd
        /\ "PI" \in e.intr <=> "PI" \in x.intr \/ x.piBusy
    BY <1>1, <2>1, PiFinish
  <2>3. NotPi(d, e)
    BY <1>1, <2>2, NotPiTrans
  <2>4. e.piStatus = {"int"}
    BY <1>1, <1>5, <2>2
  <2>5. BusyOk(d) => BusyOk(e)
    <3>1. "dma" \notin e.piStatus
      BY <2>4
    <3>2. SameSi(d, e)
      BY <2>3 DEF NotPi
    <3> QED BY <2>2, <3>1, <3>2 DEF BusyOk, SameSi
  <2>6. PiMove(d, e)
    BY <1>1, <2>2, <2>3, <2>5 DEF PiMove
  <2> QED BY <1>1, <1>5, <2>2, <2>4, <2>6 DEF x
<1>6. CASE ~b
  <2>1. e = x
    BY <1>1, <1>2, <1>6 DEF piFinish
  <2>2. BusyOk(d) => BusyOk(e)
    BY <1>1, <1>3, <2>1, BusyPi DEF NotPi
  <2>3. PiMove(d, e)
    BY <1>1, <2>1, <2>2 DEF PiMove
  <2> QED BY <1>1, <1>6, <2>1, <2>3 DEF x
<1> QED BY <1>5, <1>6

LEMMA StatusTypes ==
  ASSUME NEW d \in Machine, NEW s \in SUBSET {"dma", "int", "io"}
  PROVE  LET e == [d EXCEPT !.piStatus = s] IN e \in Machine
BY DEF Machine

StatusSet(d, e, a) ==
  /\ PiMove(d, e) /\ "PI" \notin e.intr
  /\ e.piBusy = (IF a THEN FALSE ELSE d.piBusy) /\ e.piDoneAt = d.piDoneAt
  /\ e.piStatus = (IF a THEN {} ELSE d.piStatus \ {"int"})
  /\ e.latched = d.latched /\ e.ioUntil = d.ioUntil /\ e.latchEnd = d.latchEnd

LEMMA PiStatusWrite ==
  ASSUME NEW d \in Machine, NEW a, NEW e, e = PI_STATUS_write(d, a, TRUE)
  PROVE  StatusSet(d, e, a)
<1> USE DEF StatusSet
<1> DEFINE r == IF a THEN [d EXCEPT !.piBusy = FALSE, !.piStatus = {}] ELSE d
           s == r.piStatus \ {"int"}
           q == [r EXCEPT !.piStatus = s]
<1>1. e = [q EXCEPT !.intr = @ \ {"PI"}]
  BY DEF PI_STATUS_write, clearIntr
<1>2. /\ r \in Machine /\ r.piStatus = (IF a THEN {} ELSE d.piStatus)
      /\ r.piBusy = (IF a THEN FALSE ELSE d.piBusy) /\ r.piDoneAt = d.piDoneAt
      /\ r.latched = d.latched /\ r.ioUntil = d.ioUntil /\ r.latchEnd = d.latchEnd
      /\ NotPi(d, r) /\ r.intr = d.intr
  <2>1. CASE a
    <3>1. r = [d EXCEPT !.piBusy = FALSE, !.piStatus = {}]
      BY <2>1
    <3> HIDE DEF r
    <3>2. r \in Machine
      BY <3>1, ZenonT(60) DEF Machine
    <3>3. /\ r.piStatus = {} /\ r.piBusy = FALSE /\ r.piDoneAt = d.piDoneAt
          /\ r.latched = d.latched /\ r.ioUntil = d.ioUntil /\ r.latchEnd = d.latchEnd
          /\ r.intr = d.intr
      BY <3>1 DEF Machine
    <3>4. Timers(d, r)
      BY <3>1 DEF Machine, Timers, SameAi, SameQueue, SameVi
    <3>5. SameSi(d, r) /\ r.mask = d.mask
      BY <3>1 DEF Machine, SameSi
    <3> QED BY <2>1, <3>2, <3>3, <3>4, <3>5 DEF NotPi, Line
  <2>2. CASE ~a
    <3>1. r = d
      BY <2>2
    <3> HIDE DEF r
    <3> QED BY <2>2, <3>1 DEF NotPi, Line, Timers, SameAi, SameQueue, SameVi, SameSi
  <2> QED BY <2>1, <2>2
<1> HIDE DEF r
<1>3. s \in SUBSET {"dma", "int", "io"}
  <2>1. r.piStatus \in SUBSET {"dma", "int", "io"}
    BY <1>2 DEF Machine
  <2> QED BY <2>1
<1>4. q \in Machine
  BY <1>2, <1>3, StatusTypes, Zenon
<1>5. /\ q.piStatus = s /\ q.piBusy = r.piBusy /\ q.piDoneAt = r.piDoneAt /\ q.intr = r.intr
      /\ q.latched = r.latched /\ q.ioUntil = r.ioUntil /\ q.latchEnd = r.latchEnd
  BY <1>2 DEF Machine
<1>6. NotPi(r, q)
  <2>1. Timers(r, q)
    BY <1>2 DEF Machine, Timers, SameAi, SameQueue, SameVi
  <2>2. SameSi(r, q) /\ q.mask = r.mask
    BY <1>2 DEF Machine, SameSi
  <2> QED BY <1>5, <2>1, <2>2 DEF NotPi, Line
<1>7. s = r.piStatus \ {"int"}
  OBVIOUS
<1> HIDE DEF s, q
<1>8. q.intr \ {"PI"} \in SUBSET {"PI", "SI", "AI", "VI"}
  <2>1. q.intr \in SUBSET {"PI", "SI", "AI", "VI"}
    BY <1>4 DEF Machine
  <2> QED BY <2>1
<1>9. /\ e \in Machine /\ e.intr = q.intr \ {"PI"} /\ SamePi(q, e) /\ SameSi(q, e) /\ BusOnly(q, e)
  BY <1>1, <1>4, <1>8, SetIntr
<1>10. NotPi(q, e)
  BY <1>9, BusIsTimers DEF NotPi, Line
<1>11. NotPi(d, e)
  BY <1>2, <1>6, <1>10, NotPiTrans
<1>12. /\ e.piBusy = (IF a THEN FALSE ELSE d.piBusy) /\ e.piDoneAt = d.piDoneAt
       /\ e.latched = d.latched /\ e.ioUntil = d.ioUntil /\ e.latchEnd = d.latchEnd
  BY <1>2, <1>5, <1>9 DEF SamePi
<1>13. e.piStatus = (IF a THEN {} ELSE d.piStatus \ {"int"})
  BY <1>2, <1>5, <1>7, <1>9 DEF SamePi
<1>14. BusyOk(d) => BusyOk(e)
  <2>1. SameSi(d, e)
    BY <1>11 DEF NotPi
  <2>2. CASE a
    BY <1>12, <1>13, <2>1, <2>2 DEF BusyOk, SameSi
  <2>3. CASE ~a
    <3>1. "dma" \in d.piStatus <=> "dma" \in e.piStatus
      BY <1>13, <2>3
    <3>2. e.piBusy = d.piBusy
      BY <1>12, <2>3
    <3> QED BY <2>1, <3>1, <3>2, BusyPi
  <2> QED BY <2>2, <2>3
<1>15. PiMove(d, e)
  BY <1>9, <1>11, <1>12, <1>14 DEF PiMove
<1> QED BY <1>9, <1>12, <1>13, <1>15

DmaStarted(d, e, t, n) ==
  /\ PiMove(d, e)
  /\ "PI" \in e.intr <=> "PI" \in d.intr \/ d.piBusy
  /\ e.piBusy = TRUE /\ e.piDoneAt = t + n /\ e.piStatus = {"dma"}
  /\ e.latched = d.latched /\ e.ioUntil = d.ioUntil /\ e.latchEnd = d.latchEnd

LEMMA PiDma ==
  ASSUME NEW d \in Machine, NEW t \in Nat, NEW n \in Nat, NEW e, e = piDma(d, t, n)
  PROVE  DmaStarted(d, e, t, n)
<1> USE DEF DmaStarted
<1> DEFINE f == piFinish(d)
           x == t + n
           q == [f EXCEPT !.piBusy = TRUE, !.piDoneAt = x, !.piStatus = {"dma"}]
<1>1. e = jitCancelChain(q)
  BY DEF piDma, piArm
<1>2. /\ f \in Machine /\ NotPi(d, f)
      /\ f.latched = d.latched /\ f.ioUntil = d.ioUntil /\ f.latchEnd = d.latchEnd
      /\ "PI" \in f.intr <=> "PI" \in d.intr \/ d.piBusy
  BY PiFinish
<1>3. x \in Nat
  OBVIOUS
<1> HIDE DEF f, x
<1>4. q \in Machine
  BY <1>2, <1>3 DEF Machine
<1>5. /\ q.piBusy = TRUE /\ q.piDoneAt = x /\ q.piStatus = {"dma"} /\ q.intr = f.intr
      /\ q.latched = f.latched /\ q.ioUntil = f.ioUntil /\ q.latchEnd = f.latchEnd
  BY <1>2 DEF Machine
<1>6. NotPi(f, q)
  <2>1. Timers(f, q)
    BY <1>2 DEF Machine, Timers, SameAi, SameQueue, SameVi
  <2>2. SameSi(f, q) /\ q.mask = f.mask
    BY <1>2 DEF Machine, SameSi
  <2> QED BY <1>5, <2>1, <2>2 DEF NotPi, Line
<1> HIDE DEF q
<1>7. e \in Machine /\ Equal(q, e) /\ e.armed = TRUE
  BY <1>1, <1>4, SetArmed, ArmedIs DEF jitCancelChain
<1>8. NotPi(q, e) /\ SamePi(q, e) /\ e.intr = q.intr
  BY <1>7 DEF Equal, NotPi, Line
<1>9. NotPi(d, e)
  BY <1>2, <1>6, <1>8, NotPiTrans
<1>10. /\ e.piBusy = TRUE /\ e.piDoneAt = t + n /\ e.piStatus = {"dma"}
       /\ e.latched = d.latched /\ e.ioUntil = d.ioUntil /\ e.latchEnd = d.latchEnd
  BY <1>2, <1>5, <1>8 DEF SamePi, x
<1>11. BusyOk(d) => BusyOk(e)
  <2>1. "dma" \in e.piStatus
    BY <1>10
  <2> QED BY <1>9, <1>10, <2>1 DEF BusyOk, NotPi, SameSi
<1>12. PiMove(d, e)
  BY <1>7, <1>9, <1>11 DEF PiMove
<1> QED BY <1>2, <1>5, <1>8, <1>10, <1>12

\* Two machines whose cartridge buses are alike stay so under the same access.
LEMMA DecayAlike ==
  ASSUME NEW d \in Machine, NEW e \in Machine, SamePi(d, e), NEW t \in Nat
  PROVE  SamePi(piIoDecay(d, t), piIoDecay(e, t))
<1> DEFINE x == piIoDecay(d, t)
           y == piIoDecay(e, t)
<1>1. /\ x.piStatus = (IF t >= d.ioUntil THEN d.piStatus \ {"io"} ELSE d.piStatus)
      /\ x.latched = (d.latched /\ t < d.latchEnd) /\ x.piBusy = d.piBusy
      /\ x.piDoneAt = d.piDoneAt /\ x.ioUntil = d.ioUntil /\ x.latchEnd = d.latchEnd
  BY Decay, ZenonT(60)
<1>2. /\ y.piStatus = (IF t >= e.ioUntil THEN e.piStatus \ {"io"} ELSE e.piStatus)
      /\ y.latched = (e.latched /\ t < e.latchEnd) /\ y.piBusy = e.piBusy
      /\ y.piDoneAt = e.piDoneAt /\ y.ioUntil = e.ioUntil /\ y.latchEnd = e.latchEnd
  BY Decay, ZenonT(60)
<1> HIDE DEF x, y
<1>3. /\ e.piBusy = d.piBusy /\ e.piDoneAt = d.piDoneAt /\ e.piStatus = d.piStatus
      /\ e.ioUntil = d.ioUntil /\ e.latched = d.latched /\ e.latchEnd = d.latchEnd
  BY DEF SamePi
<1>4. SamePi(x, y)
  BY <1>1, <1>2, <1>3 DEF SamePi
<1> QED BY <1>4 DEF x, y

LEMMA PiOps ==
  ASSUME NEW o \in Ops, o.reg \in PiRegs, NEW d \in Machine, NEW t \in Nat
  PROVE  PiMove(d, Access(o, d, t))
<1>1. CASE o.reg = "cartWrite"
  <2>1. Access(o, d, t) = cartWrite(d, t)
    BY <1>1, AccessIs
  <2>2. PiMove(d, cartWrite(d, t))
    BY CartWrite DEF CartWrote
  <2> QED BY <2>1, <2>2
<1>2. CASE o.reg = "cartRead"
  <2>1. Access(o, d, t) = cartRead(d, t)
    BY <1>2, AccessIs
  <2>2. PiMove(d, cartRead(d, t))
    BY CartRead DEF CartSeen
  <2> QED BY <2>1, <2>2
<1>3. CASE o.reg = "PI_LEN"
  <2>0. o.arg \in Nat
    BY <1>3, OpTypes
  <2>1. Access(o, d, t) = piDma(d, t, o.arg)
    BY <1>3, <2>0, AccessIs
  <2>2. PiMove(d, piDma(d, t, o.arg))
    BY <2>0, PiDma DEF DmaStarted
  <2> QED BY <2>1, <2>2
<1>4. CASE o.reg = "PI_STATUS_read"
  <2>1. Access(o, d, t) = PI_STATUS_read(d, t)
    BY <1>4, AccessIs
  <2>2. PiMove(d, PI_STATUS_read(d, t))
    BY PiStatusRead DEF StatusSeen
  <2> QED BY <2>1, <2>2
<1>5. CASE o.reg = "PI_STATUS"
  <2>0. o.arg \in BOOLEAN /\ o.arg2 = TRUE
    BY <1>5, OpTypes
  <2>1. Access(o, d, t) = PI_STATUS_write(d, o.arg, TRUE)
    BY <1>5, <2>0, AccessIs
  <2>2. PiMove(d, PI_STATUS_write(d, o.arg, TRUE))
    BY PiStatusWrite DEF StatusSet
  <2> QED BY <2>1, <2>2
<1> QED BY <1>1, <1>2, <1>3, <1>4, <1>5 DEF PiRegs

LEMMA PiAlike ==
  ASSUME NEW o \in Ops, o.reg \in PiRegs, NEW t \in Nat,
         NEW d \in Machine, NEW e \in Machine, SameBus(d, e)
  PROVE  SameBus(Access(o, d, t), Access(o, e, t))
<1> DEFINE x == piIoDecay(d, t)
           y == piIoDecay(e, t)
           f == Access(o, d, t)
           g == Access(o, e, t)
<1>1. SamePi(d, e) /\ Line(d, e, "PI") /\ SamePi(x, y)
  BY DecayAlike DEF SameBus
<1>2. /\ e.piBusy = d.piBusy /\ e.piDoneAt = d.piDoneAt /\ e.piStatus = d.piStatus
      /\ e.ioUntil = d.ioUntil /\ e.latched = d.latched /\ e.latchEnd = d.latchEnd
      /\ "PI" \in e.intr <=> "PI" \in d.intr
  BY <1>1 DEF SamePi, Line
<1>3. /\ y.piBusy = x.piBusy /\ y.piDoneAt = x.piDoneAt /\ y.piStatus = x.piStatus
      /\ y.ioUntil = x.ioUntil /\ y.latched = x.latched /\ y.latchEnd = x.latchEnd
  BY <1>1 DEF SamePi
<1>4. CASE o.reg = "cartWrite"
  <2>1. f = cartWrite(d, t) /\ g = cartWrite(e, t)
    BY <1>4, AccessIs
  <2> DEFINE b == "io" \in x.piStatus \/ x.latched
             c == "io" \in y.piStatus \/ y.latched
  <2> HIDE DEF f, g
  <2>e. CartWrote(d, f, t) /\ CartWrote(e, g, t)
    BY <2>1, CartWrite, Zenon
  <2>2. /\ Line(d, f, "PI") /\ f.piBusy = d.piBusy /\ f.piDoneAt = d.piDoneAt
        /\ b => SamePi(x, f)
        /\ ~b => /\ f.piStatus = x.piStatus \union {"io"} /\ f.latched = TRUE
                 /\ f.ioUntil = t + IoTime /\ f.latchEnd = t + LatchTime
    BY <2>e DEF CartWrote
  <2>3. /\ Line(e, g, "PI") /\ g.piBusy = e.piBusy /\ g.piDoneAt = e.piDoneAt
        /\ c => SamePi(y, g)
        /\ ~c => /\ g.piStatus = y.piStatus \union {"io"} /\ g.latched = TRUE
                 /\ g.ioUntil = t + IoTime /\ g.latchEnd = t + LatchTime
    BY <2>e DEF CartWrote
  <2>4. b <=> c
    BY <1>3
  <2> HIDE DEF b, c, x, y
  <2>5. SamePi(f, g)
    BY <1>2, <1>3, <2>2, <2>3, <2>4 DEF SamePi
  <2>6. Line(f, g, "PI")
    BY <1>2, <2>2, <2>3 DEF Line
  <2> QED BY <2>5, <2>6 DEF SameBus, f, g
<1>5. CASE o.reg = "cartRead"
  <2>1. f = cartRead(d, t) /\ g = cartRead(e, t)
    BY <1>5, AccessIs
  <2> DEFINE b == d.latched /\ t < d.latchEnd
             c == e.latched /\ t < e.latchEnd
  <2> HIDE DEF f, g
  <2>e. CartSeen(d, f, t) /\ CartSeen(e, g, t)
    BY <2>1, CartRead, Zenon
  <2>2. /\ Line(d, f, "PI") /\ f.piBusy = d.piBusy /\ f.piDoneAt = d.piDoneAt
        /\ f.ioUntil = d.ioUntil /\ f.latchEnd = d.latchEnd
        /\ ~b => SamePi(x, f)
        /\ b => f.piStatus = d.piStatus \ {"io"} /\ f.latched = FALSE
    BY <2>e DEF CartSeen
  <2>3. /\ Line(e, g, "PI") /\ g.piBusy = e.piBusy /\ g.piDoneAt = e.piDoneAt
        /\ g.ioUntil = e.ioUntil /\ g.latchEnd = e.latchEnd
        /\ ~c => SamePi(y, g)
        /\ c => g.piStatus = e.piStatus \ {"io"} /\ g.latched = FALSE
    BY <2>e DEF CartSeen
  <2>4. b <=> c
    BY <1>2
  <2> HIDE DEF b, c, x, y
  <2>5. SamePi(f, g)
    BY <1>2, <1>3, <2>2, <2>3, <2>4 DEF SamePi
  <2>6. Line(f, g, "PI")
    BY <1>2, <2>2, <2>3 DEF Line
  <2> QED BY <2>5, <2>6 DEF SameBus, f, g
<1>6. CASE o.reg = "PI_LEN"
  <2>0. o.arg \in Nat
    BY <1>6, OpTypes
  <2>1. f = piDma(d, t, o.arg) /\ g = piDma(e, t, o.arg)
    BY <1>6, AccessIs
  <2> HIDE DEF f, g
  <2>e. DmaStarted(d, f, t, o.arg) /\ DmaStarted(e, g, t, o.arg)
    BY <2>0, <2>1, PiDma, Zenon
  <2>2. /\ "PI" \in f.intr <=> "PI" \in d.intr \/ d.piBusy
        /\ f.piBusy = TRUE /\ f.piDoneAt = t + o.arg /\ f.piStatus = {"dma"}
        /\ f.latched = d.latched /\ f.ioUntil = d.ioUntil /\ f.latchEnd = d.latchEnd
    BY <2>e DEF DmaStarted
  <2>3. /\ "PI" \in g.intr <=> "PI" \in e.intr \/ e.piBusy
        /\ g.piBusy = TRUE /\ g.piDoneAt = t + o.arg /\ g.piStatus = {"dma"}
        /\ g.latched = e.latched /\ g.ioUntil = e.ioUntil /\ g.latchEnd = e.latchEnd
    BY <2>e DEF DmaStarted
  <2>4. SamePi(f, g) /\ Line(f, g, "PI")
    BY <1>2, <2>2, <2>3 DEF SamePi, Line
  <2> QED BY <2>4 DEF SameBus, f, g
<1>7. CASE o.reg = "PI_STATUS_read"
  <2>1. f = PI_STATUS_read(d, t) /\ g = PI_STATUS_read(e, t)
    BY <1>7, AccessIs
  <2> DEFINE b == t >= d.piDoneAt /\ d.piBusy
             c == t >= e.piDoneAt /\ e.piBusy
  <2> HIDE DEF f, g
  <2>e. StatusSeen(d, f, t) /\ StatusSeen(e, g, t)
    BY <2>1, PiStatusRead, Zenon
  <2>2. /\ "PI" \in f.intr <=> "PI" \in d.intr \/ b
        /\ f.piBusy = (IF b THEN FALSE ELSE d.piBusy) /\ f.piDoneAt = d.piDoneAt
        /\ f.piStatus = (IF b THEN {"int"} ELSE x.piStatus)
        /\ f.latched = x.latched /\ f.ioUntil = d.ioUntil /\ f.latchEnd = d.latchEnd
    BY <2>e DEF StatusSeen
  <2>3. /\ "PI" \in g.intr <=> "PI" \in e.intr \/ c
        /\ g.piBusy = (IF c THEN FALSE ELSE e.piBusy) /\ g.piDoneAt = e.piDoneAt
        /\ g.piStatus = (IF c THEN {"int"} ELSE y.piStatus)
        /\ g.latched = y.latched /\ g.ioUntil = e.ioUntil /\ g.latchEnd = e.latchEnd
    BY <2>e DEF StatusSeen
  <2>4. b <=> c
    BY <1>2
  <2> HIDE DEF b, c, x, y
  <2>5. SamePi(f, g)
    <3>1. CASE b
      BY <1>2, <1>3, <2>2, <2>3, <2>4, <3>1 DEF SamePi
    <3>2. CASE ~b
      BY <1>2, <1>3, <2>2, <2>3, <2>4, <3>2 DEF SamePi
    <3> QED BY <3>1, <3>2
  <2>6. Line(f, g, "PI")
    BY <1>2, <2>2, <2>3, <2>4 DEF Line
  <2> QED BY <2>5, <2>6 DEF SameBus, f, g
<1>8. CASE o.reg = "PI_STATUS"
  <2>0. o.arg2 = TRUE
    BY <1>8, OpTypes
  <2>1. f = PI_STATUS_write(d, o.arg, TRUE) /\ g = PI_STATUS_write(e, o.arg, TRUE)
    BY <1>8, <2>0, AccessIs
  <2> HIDE DEF f, g
  <2>e. StatusSet(d, f, o.arg) /\ StatusSet(e, g, o.arg)
    BY <2>1, PiStatusWrite, Zenon
  <2>2. /\ "PI" \notin f.intr
        /\ f.piBusy = (IF o.arg THEN FALSE ELSE d.piBusy) /\ f.piDoneAt = d.piDoneAt
        /\ f.piStatus = (IF o.arg THEN {} ELSE d.piStatus \ {"int"})
        /\ f.latched = d.latched /\ f.ioUntil = d.ioUntil /\ f.latchEnd = d.latchEnd
    BY <2>e DEF StatusSet
  <2>3. /\ "PI" \notin g.intr
        /\ g.piBusy = (IF o.arg THEN FALSE ELSE e.piBusy) /\ g.piDoneAt = e.piDoneAt
        /\ g.piStatus = (IF o.arg THEN {} ELSE e.piStatus \ {"int"})
        /\ g.latched = e.latched /\ g.ioUntil = e.ioUntil /\ g.latchEnd = e.latchEnd
    BY <2>e DEF StatusSet
  <2>4. SamePi(f, g) /\ Line(f, g, "PI")
    BY <1>2, <2>2, <2>3 DEF SamePi, Line
  <2> QED BY <2>4 DEF SameBus, f, g
<1> QED BY <1>4, <1>5, <1>6, <1>7, <1>8 DEF PiRegs

----------------------------------------------------------------------------
(* The same for the serial bus, and for the interrupt lines. *)

SiMove(d, e) ==
  /\ e \in Machine /\ NotSi(d, e) /\ (BusyOk(d) => BusyOk(e))
  /\ ~e.armed => /\ e.siBusy => d.siBusy
                 /\ e.siDoneAt = d.siDoneAt

SameJoybus(d, e) == SameSi(d, e) /\ Line(d, e, "SI")

JoybusStarted(d, e, t, p, n) ==
  /\ SiMove(d, e)
  /\ "SI" \in e.intr <=> "SI" \in d.intr \/ d.siBusy
  /\ e.siBusy = TRUE /\ e.siStatus = TRUE /\ e.siDoneAt = t + n
  /\ e.siToPif = (IF p THEN TRUE ELSE FALSE) /\ e.pif = (IF p THEN d.pif ELSE 1 - d.pif)
  /\ e.rdram = (IF d.siBusy /\ ~d.siToPif THEN d.pif ELSE d.rdram)

LEMMA SiDma ==
  ASSUME NEW d \in Machine, NEW t \in Nat, NEW n \in Nat, NEW p, p \in BOOLEAN,
         NEW e, e = siDma(d, t, p, n)
  PROVE  JoybusStarted(d, e, t, p, n)
<1> DEFINE f == siFinish(d)
           w == IF p THEN f ELSE [f EXCEPT !.pif = 1 - @]
           x == t + n
           q == [w EXCEPT !.siBusy = TRUE, !.siToPif = p, !.siDoneAt = x, !.siStatus = TRUE]
<1>1. e = jitCancelChain(q)
  BY DEF siDma, pifProcessJoybus
<1>2. /\ f \in Machine /\ NotSi(d, f) /\ f.pif = d.pif
      /\ f.rdram = (IF d.siBusy /\ ~d.siToPif THEN d.pif ELSE d.rdram)
      /\ "SI" \in f.intr <=> "SI" \in d.intr \/ d.siBusy
  BY SiFinish, ZenonT(60)
<1>3. x \in Nat
  OBVIOUS
<1> HIDE DEF f, x
<1>4. /\ w \in Machine /\ NotSi(f, w) /\ w.rdram = f.rdram /\ Line(f, w, "SI")
      /\ w.pif = (IF p THEN f.pif ELSE 1 - f.pif)
  <2>1. CASE p
    <3>1. w = f
      BY <2>1
    <3> HIDE DEF w
    <3> QED BY <1>2, <2>1, <3>1 DEF NotSi, Line, Timers, SameAi, SameQueue, SameVi, SamePi
  <2>2. CASE ~p
    <3> DEFINE b == 1 - f.pif
    <3>1. w = [f EXCEPT !.pif = b]
      BY <2>2
    <3>2. b \in {0, 1}
      <4>1. f.pif \in {0, 1}
        BY <1>2 DEF Machine
      <4> QED BY <4>1
    <3>3. b = 1 - f.pif
      OBVIOUS
    <3> HIDE DEF w, b
    <3>4. w \in Machine
      BY <1>2, <3>1, <3>2, ZenonT(60) DEF Machine
    <3>5. w.pif = b /\ w.rdram = f.rdram /\ w.intr = f.intr /\ w.mask = f.mask
      BY <1>2, <3>1 DEF Machine
    <3>6. Timers(f, w)
      BY <1>2, <3>1 DEF Machine, Timers, SameAi, SameQueue, SameVi
    <3>7. SamePi(f, w)
      BY <1>2, <3>1 DEF Machine, SamePi
    <3> QED BY <2>2, <3>3, <3>4, <3>5, <3>6, <3>7 DEF NotSi, Line
  <2> QED BY <2>1, <2>2
<1> HIDE DEF w
<1>5. /\ q \in Machine /\ NotSi(w, q) /\ q.siBusy = TRUE /\ q.siStatus = TRUE /\ q.siDoneAt = x
      /\ q.siToPif = (IF p THEN TRUE ELSE FALSE) /\ q.pif = w.pif /\ q.rdram = w.rdram
      /\ Line(w, q, "SI")
  <2> DEFINE r == [w EXCEPT !.siBusy = TRUE, !.siToPif = TRUE, !.siDoneAt = x, !.siStatus = TRUE]
             s == [w EXCEPT !.siBusy = TRUE, !.siToPif = FALSE, !.siDoneAt = x, !.siStatus = TRUE]
  <2>1. p => q = r
    OBVIOUS
  <2>2. ~p => q = s
    OBVIOUS
  <2>3. r \in Machine
    BY <1>3, <1>4 DEF Machine
  <2>4. s \in Machine
    BY <1>3, <1>4 DEF Machine
  <2>5. /\ r.siBusy = TRUE /\ r.siStatus = TRUE /\ r.siDoneAt = x /\ r.siToPif = TRUE
        /\ r.pif = w.pif /\ r.rdram = w.rdram /\ r.intr = w.intr /\ r.mask = w.mask
    BY <1>4 DEF Machine
  <2>6. /\ s.siBusy = TRUE /\ s.siStatus = TRUE /\ s.siDoneAt = x /\ s.siToPif = FALSE
        /\ s.pif = w.pif /\ s.rdram = w.rdram /\ s.intr = w.intr /\ s.mask = w.mask
    BY <1>4 DEF Machine
  <2>7. Timers(w, r) /\ SamePi(w, r)
    BY <1>4 DEF Machine, Timers, SameAi, SameQueue, SameVi, SamePi
  <2>8. Timers(w, s) /\ SamePi(w, s)
    BY <1>4 DEF Machine, Timers, SameAi, SameQueue, SameVi, SamePi
  <2> HIDE DEF q, r, s
  <2>9. CASE p
    BY <2>1, <2>3, <2>5, <2>7, <2>9 DEF NotSi, Line
  <2>10. CASE ~p
    BY <2>2, <2>4, <2>6, <2>8, <2>10 DEF NotSi, Line
  <2> QED BY <2>9, <2>10
<1> HIDE DEF q
<1>7. e \in Machine /\ Equal(q, e) /\ e.armed = TRUE
  BY <1>1, <1>5, SetArmed, ArmedIs DEF jitCancelChain
<1>8. NotSi(q, e) /\ SameSi(q, e) /\ e.intr = q.intr
  BY <1>7 DEF Equal, NotSi, Line
<1>9. NotSi(d, e)
  BY <1>2, <1>4, <1>5, <1>8, NotSiTrans
<1>10. /\ e.siBusy = TRUE /\ e.siStatus = TRUE /\ e.siDoneAt = t + n
       /\ e.siToPif = (IF p THEN TRUE ELSE FALSE) /\ e.pif = (IF p THEN d.pif ELSE 1 - d.pif)
       /\ e.rdram = (IF d.siBusy /\ ~d.siToPif THEN d.pif ELSE d.rdram)
  BY <1>2, <1>4, <1>5, <1>8 DEF SameSi, x
<1>11. BusyOk(d) => BusyOk(e)
  BY <1>9, <1>10 DEF BusyOk, NotSi, SamePi
<1>12. SiMove(d, e)
  BY <1>7, <1>9, <1>11 DEF SiMove
<1>13. "SI" \in e.intr <=> "SI" \in d.intr \/ d.siBusy
  BY <1>2, <1>4, <1>5, <1>8 DEF Line
<1> QED BY <1>10, <1>12, <1>13 DEF JoybusStarted

JoybusAcked(d, e) ==
  /\ SiMove(d, e) /\ "SI" \notin e.intr /\ e.siStatus = d.siBusy /\ e.siBusy = d.siBusy
  /\ e.siToPif = d.siToPif /\ e.siDoneAt = d.siDoneAt /\ e.pif = d.pif /\ e.rdram = d.rdram

LEMMA SiStatus ==
  ASSUME NEW d \in Machine, NEW e, e = SI_STATUS_write(d)
  PROVE  JoybusAcked(d, e)
<1> DEFINE q == [d EXCEPT !.siStatus = d.siBusy]
<1>1. e = [q EXCEPT !.intr = @ \ {"SI"}]
  BY DEF SI_STATUS_write, clearIntr
<1>2. q \in Machine
  BY DEF Machine
<1>3. /\ q.siStatus = d.siBusy /\ q.siBusy = d.siBusy /\ q.siToPif = d.siToPif
      /\ q.siDoneAt = d.siDoneAt /\ q.pif = d.pif /\ q.rdram = d.rdram /\ q.intr = d.intr
      /\ q.mask = d.mask
  BY DEF Machine
<1>4. Timers(d, q) /\ SamePi(d, q)
  BY DEF Machine, Timers, SameAi, SameQueue, SameVi, SamePi
<1>5. NotSi(d, q)
  BY <1>3, <1>4 DEF NotSi, Line
<1> HIDE DEF q
<1>6. q.intr \ {"SI"} \in SUBSET {"PI", "SI", "AI", "VI"}
  <2>1. q.intr \in SUBSET {"PI", "SI", "AI", "VI"}
    BY <1>2 DEF Machine
  <2> QED BY <2>1
<1>7. /\ e \in Machine /\ e.intr = q.intr \ {"SI"} /\ SamePi(q, e) /\ SameSi(q, e) /\ BusOnly(q, e)
  BY <1>1, <1>2, <1>6, SetIntr
<1>8. NotSi(q, e)
  BY <1>7, BusIsTimers DEF NotSi, Line
<1>9. NotSi(d, e)
  BY <1>5, <1>8, NotSiTrans
<1>10. /\ e.siStatus = d.siBusy /\ e.siBusy = d.siBusy /\ "SI" \notin e.intr
       /\ e.siToPif = d.siToPif /\ e.siDoneAt = d.siDoneAt /\ e.pif = d.pif /\ e.rdram = d.rdram
  BY <1>3, <1>7 DEF SameSi
<1>11. BusyOk(d) => BusyOk(e)
  BY <1>9, <1>10 DEF BusyOk, NotSi, SamePi
<1> QED BY <1>7, <1>9, <1>10, <1>11 DEF JoybusAcked, SiMove

LEMMA SiOps ==
  ASSUME NEW o \in Ops, o.reg \in SiRegs, NEW d \in Machine, NEW t \in Nat
  PROVE  SiMove(d, Access(o, d, t))
<1>1. CASE o.reg = "SI_DMA"
  <2>0. o.arg2 \in Nat /\ o.arg \in BOOLEAN
    BY <1>1, OpTypes
  <2>1. Access(o, d, t) = siDma(d, t, o.arg, o.arg2)
    BY <1>1, AccessIs
  <2>2. JoybusStarted(d, siDma(d, t, o.arg, o.arg2), t, o.arg, o.arg2)
    BY <2>0, SiDma
  <2> QED BY <2>1, <2>2 DEF JoybusStarted
<1>2. CASE o.reg = "SI_STATUS"
  <2>1. Access(o, d, t) = SI_STATUS_write(d)
    BY <1>2, AccessIs
  <2>2. JoybusAcked(d, SI_STATUS_write(d))
    BY SiStatus
  <2> QED BY <2>1, <2>2 DEF JoybusAcked
<1> QED BY <1>1, <1>2 DEF SiRegs

LEMMA SiAlike ==
  ASSUME NEW o \in Ops, o.reg \in SiRegs, NEW t \in Nat,
         NEW d \in Machine, NEW e \in Machine, SameJoybus(d, e)
  PROVE  SameJoybus(Access(o, d, t), Access(o, e, t))
<1> DEFINE f == Access(o, d, t)
           g == Access(o, e, t)
<1>1. /\ e.siBusy = d.siBusy /\ e.siToPif = d.siToPif /\ e.siDoneAt = d.siDoneAt
      /\ e.siStatus = d.siStatus /\ e.pif = d.pif /\ e.rdram = d.rdram
      /\ "SI" \in e.intr <=> "SI" \in d.intr
  BY DEF SameJoybus, SameSi, Line
<1>2. CASE o.reg = "SI_DMA"
  <2>0. o.arg2 \in Nat /\ o.arg \in BOOLEAN
    BY <1>2, OpTypes
  <2>1. f = siDma(d, t, o.arg, o.arg2) /\ g = siDma(e, t, o.arg, o.arg2)
    BY <1>2, AccessIs
  <2> HIDE DEF f, g
  <2>2. JoybusStarted(d, f, t, o.arg, o.arg2) /\ JoybusStarted(e, g, t, o.arg, o.arg2)
    BY <2>0, <2>1, SiDma
  <2>3. /\ "SI" \in f.intr <=> "SI" \in d.intr \/ d.siBusy
        /\ f.siBusy = TRUE /\ f.siStatus = TRUE /\ f.siDoneAt = t + o.arg2
        /\ f.siToPif = (IF o.arg THEN TRUE ELSE FALSE) /\ f.pif = (IF o.arg THEN d.pif ELSE 1 - d.pif)
        /\ f.rdram = (IF d.siBusy /\ ~d.siToPif THEN d.pif ELSE d.rdram)
    BY <2>2 DEF JoybusStarted
  <2>4. /\ "SI" \in g.intr <=> "SI" \in e.intr \/ e.siBusy
        /\ g.siBusy = TRUE /\ g.siStatus = TRUE /\ g.siDoneAt = t + o.arg2
        /\ g.siToPif = (IF o.arg THEN TRUE ELSE FALSE) /\ g.pif = (IF o.arg THEN e.pif ELSE 1 - e.pif)
        /\ g.rdram = (IF e.siBusy /\ ~e.siToPif THEN e.pif ELSE e.rdram)
    BY <2>2 DEF JoybusStarted
  <2>5. SameSi(f, g) /\ Line(f, g, "SI")
    BY <1>1, <2>3, <2>4 DEF SameSi, Line
  <2> QED BY <2>5 DEF SameJoybus, f, g
<1>3. CASE o.reg = "SI_STATUS"
  <2>1. f = SI_STATUS_write(d) /\ g = SI_STATUS_write(e)
    BY <1>3, AccessIs
  <2> HIDE DEF f, g
  <2>2. JoybusAcked(d, f) /\ JoybusAcked(e, g)
    BY <2>1, SiStatus
  <2>3. SameSi(f, g) /\ Line(f, g, "SI")
    BY <1>1, <2>2 DEF JoybusAcked, SameSi, Line
  <2> QED BY <2>3 DEF SameJoybus, f, g
<1> QED BY <1>2, <1>3 DEF SiRegs

\* Accesses that touch no device: the mask and the interrupts the guest clears.
MiMove(o, d, e) ==
  /\ e \in Machine /\ Timers(d, e) /\ SamePi(d, e) /\ SameSi(d, e)
  /\ e.mask = (IF o.reg = "MI_MASK" THEN (d.mask \ o.arg) \union o.arg2 ELSE d.mask)
  /\ Line(d, e, "PI") /\ Line(d, e, "SI")
  /\ "AI" \in e.intr <=> "AI" \in d.intr /\ o.reg # "AI_STATUS"
  /\ "VI" \in e.intr <=> "VI" \in d.intr /\ o.reg # "VI_CURRENT"

LEMMA MiOps ==
  ASSUME NEW o \in Ops, o.reg \in MiRegs, NEW d \in Machine, NEW t \in Nat
  PROVE  MiMove(o, d, Access(o, d, t))
<1> DEFINE e == Access(o, d, t)
<1>0. d.intr \in SUBSET {"PI", "SI", "AI", "VI"} /\ d.mask \in SUBSET {"PI"}
  BY DEF Machine
<1>1. CASE o.reg = "nop"
  <2>1. e = d
    BY <1>1, AccessIs
  <2> HIDE DEF e
  <2>2. SamePi(d, e) /\ SameSi(d, e) /\ Timers(d, e)
    BY <2>1 DEF Timers, SameAi, SameQueue, SameVi, SamePi, SameSi
  <2>3. MiMove(o, d, e)
    BY <1>1, <2>1, <2>2 DEF MiMove, Line
  <2> QED BY <2>3 DEF e
<1>2. CASE o.reg = "MI_MASK"
  <2> DEFINE k == (d.mask \ o.arg) \union o.arg2
             q == [d EXCEPT !.mask = k]
  <2>1. e = jitCancelChain(q)
    BY <1>2, AccessIs DEF MI_MASK
  <2>2. k \in SUBSET {"PI"}
    <3>1. o.arg \in SUBSET {"PI"} /\ o.arg2 \in SUBSET {"PI"}
      BY <1>2, OpTypes
    <3> QED BY <1>0, <3>1
  <2>3. k = (d.mask \ o.arg) \union o.arg2
    OBVIOUS
  <2> HIDE DEF e, k
  <2>4. q \in Machine
    BY <2>2 DEF Machine
  <2>5. SamePi(d, q) /\ SameSi(d, q) /\ q.mask = k /\ q.intr = d.intr
    BY DEF Machine, SamePi, SameSi
  <2>6. Timers(d, q)
    BY DEF Machine, Timers, SameAi, SameQueue, SameVi
  <2> HIDE DEF q
  <2>7. e \in Machine /\ Equal(q, e)
    BY <2>1, <2>4, SetArmed DEF jitCancelChain
  <2>8. SamePi(d, e) /\ SameSi(d, e) /\ Timers(d, e)
    BY <2>5, <2>6, <2>7 DEF Equal, Timers, SameAi, SameQueue, SameVi, SamePi, SameSi
  <2>9. e.mask = k /\ e.intr = d.intr
    BY <2>5, <2>7 DEF Equal
  <2>10. MiMove(o, d, e)
    BY <1>2, <2>3, <2>7, <2>8, <2>9 DEF MiMove, Line
  <2> QED BY <2>10 DEF e
<1>3. CASE o.reg = "AI_STATUS"
  <2>1. e = [d EXCEPT !.intr = d.intr \ {"AI"}]
    BY <1>3, AccessIs DEF clearIntr
  <2>2. d.intr \ {"AI"} \in SUBSET {"PI", "SI", "AI", "VI"}
    BY <1>0
  <2> HIDE DEF e
  <2>3. e \in Machine /\ e.intr = d.intr \ {"AI"} /\ SamePi(d, e) /\ SameSi(d, e) /\ BusOnly(d, e)
    BY <2>1, <2>2, SetIntr
  <2>4. MiMove(o, d, e)
    BY <1>3, <2>3, BusIsTimers DEF MiMove, Line
  <2> QED BY <2>4 DEF e
<1>4. CASE o.reg = "VI_CURRENT"
  <2>1. e = [d EXCEPT !.intr = d.intr \ {"VI"}]
    BY <1>4, AccessIs DEF clearIntr
  <2>2. d.intr \ {"VI"} \in SUBSET {"PI", "SI", "AI", "VI"}
    BY <1>0
  <2> HIDE DEF e
  <2>3. e \in Machine /\ e.intr = d.intr \ {"VI"} /\ SamePi(d, e) /\ SameSi(d, e) /\ BusOnly(d, e)
    BY <2>1, <2>2, SetIntr
  <2>4. MiMove(o, d, e)
    BY <1>4, <2>3, BusIsTimers DEF MiMove, Line
  <2> QED BY <2>4 DEF e
<1> QED BY <1>1, <1>2, <1>3, <1>4 DEF MiRegs

----------------------------------------------------------------------------
(* The DAC and the scan. *)

\* A look at the DAC between two deadlines: only what is left to play moves.
Heard(d, e, t) ==
  /\ e \in Machine /\ AiOnly(d, e) /\ SameQueue(d, e) /\ Queue(e) /\ e.intr = d.intr
  /\ e.aiLast = t /\ e.aiNext = aiNextEvent(e) /\ e.aiNext = d.aiNext
  /\ d.fifo # <<>> => End(e) = End(d)
  /\ d.fifo = <<>> => e.playing = 0 /\ e.aiAcc = 0

LEMMA Hear ==
  ASSUME NEW t \in Nat, NEW d, Live(d, t), NEW e, e = aiTick(d, t)
  PROVE  Heard(d, e, t)
<1>1. d \in Machine /\ Queue(d) /\ d.aiNext = aiNextEvent(d) /\ Sound(d)
      /\ (d.fifo = <<>> => d.aiNext = NoDeadline)
  BY SoundTypes DEF Live
<1>2. Near(d, t) /\ ~AiDone(d, t)
  BY LiveTime
<1>3. CASE d.fifo = <<>>
  <2>1. /\ e \in Machine /\ AiOnly(d, e) /\ SameQueue(d, e) /\ e.intr = d.intr
        /\ Queue(e) /\ e.playing = 0 /\ e.aiLast = t /\ e.aiNext = aiNextEvent(e)
        /\ e.aiAcc = 0 /\ e.aiNext = NoDeadline
    BY <1>1, <1>3, TickEmpty, Zenon
  <2> QED BY <1>1, <1>3, <2>1 DEF Heard
<1>4. CASE d.fifo # <<>>
  <2>1. d.rate * t < End(d)
    <3>1. d.rate * t \in Int /\ End(d) \in Int
      BY <1>1, QueueTypes, SMTT(30) DEF End
    <3>2. ~(d.rate * t >= End(d))
      BY <1>2, <1>4 DEF AiDone
    <3> QED BY <3>1, <3>2
  <2>2. /\ e \in Machine /\ AiOnly(d, e) /\ SameQueue(d, e) /\ e.intr = d.intr
        /\ Queue(e) /\ End(e) = End(d) /\ e.aiLast = t /\ e.aiNext = aiNextEvent(e)
    BY <1>1, <1>2, <1>4, <2>1, TickQuiet, Zenon
  <2>3. e.aiNext = d.aiNext
    <3> DEFINE x == d.aiNext
               y == e.aiNext
    <3>1. e.fifo # <<>> /\ e.rate = d.rate
      BY <1>4, <2>2 DEF SameQueue
    <3>2. e.playing > 0 /\ e.aiAcc < AiDen /\ d.playing > 0 /\ d.aiAcc < AiDen
      BY <1>1, <1>4, <2>2, <3>1, Playing
    <3>3. x \in Nat /\ \A z \in Int : z < x <=> d.rate * z < End(d)
      BY <1>1, <1>4, <3>2, AiDeadline, Zenon
    <3>4. y \in Nat /\ \A z \in Int : z < y <=> e.rate * z < End(e)
      BY <2>2, <3>1, <3>2, AiDeadline, Zenon
    <3> HIDE DEF x, y
    <3>5. \A z \in Int : z < y <=> z < x
      BY <2>2, <3>1, <3>3, <3>4, Zenon
    <3>6. x = y
      <4>1. x \in Int /\ y \in Int
        BY <3>3, <3>4
      <4>2. ~(y < x) /\ ~(x < y)
        <5>1. (y < y <=> y < x) /\ (x < y <=> x < x)
          BY <3>5, <4>1, Zenon
        <5> QED BY <4>1, <5>1
      <4> QED BY <4>1, <4>2
    <3> QED BY <3>6 DEF x, y
  <2> QED BY <1>4, <2>2, <2>3 DEF Heard
<1> QED BY <1>3, <1>4

\* Memory::aiArm on a queue just changed.
LEMMA ArmAi ==
  ASSUME NEW q \in Machine, Queue(q), NEW e, e = jitCancelChain(aiArm(q))
  PROVE  /\ e \in Machine /\ SamePi(q, e) /\ SameSi(q, e) /\ SameVi(q, e) /\ SameQueue(q, e)
         /\ e.mask = q.mask /\ e.intr = q.intr /\ e.armed = TRUE /\ Queue(e) /\ End(e) = End(q)
         /\ e.playing = q.playing /\ e.aiAcc = q.aiAcc /\ e.aiLast = q.aiLast
         /\ e.aiNext = aiNextEvent(e) /\ e.evNext = Earlier(e.viNext, e.aiNext)
<1> DEFINE n == aiNextEvent(q)
           a == [q EXCEPT !.aiNext = n]
           x == Earlier(a.viNext, a.aiNext)
           b == [a EXCEPT !.evNext = x]
<1>1. e = jitCancelChain(b)
  BY DEF aiArm, evArm
<1>2. n \in Int
  <2>1. CASE q.fifo = <<>>
    BY <2>1 DEF aiNextEvent, NoDeadline
  <2>2. CASE q.fifo # <<>>
    <3>1. q.playing > 0 /\ q.aiAcc < AiDen
      BY <2>2, Playing
    <3>2. n \in Nat
      BY <2>2, <3>1, AiDeadline, Zenon
    <3> HIDE DEF n
    <3> QED BY <3>2
  <2> QED BY <2>1, <2>2
<1>3. n = aiNextEvent(q)
  OBVIOUS
<1> HIDE DEF n
<1>4. /\ a \in Machine /\ AiOnly(q, a) /\ a.aiNext = n /\ a.intr = q.intr
      /\ a.playing = q.playing /\ a.aiAcc = q.aiAcc /\ a.aiLast = q.aiLast /\ SameQueue(q, a)
  BY <1>2, ArmFrame
<1> HIDE DEF a
<1>5. x \in Int
  BY <1>4 DEF Machine, Earlier
<1>6. x = Earlier(a.viNext, a.aiNext)
  OBVIOUS
<1> HIDE DEF x
<1>7. b \in Machine
  BY <1>4, <1>5 DEF Machine
<1>8. /\ b.evNext = x /\ b.mask = a.mask /\ b.intr = a.intr /\ SameVi(a, b)
      /\ SamePi(a, b) /\ SameSi(a, b)
  BY <1>4 DEF Machine, SameVi, SamePi, SameSi
<1>9. SameAi(a, b)
  BY <1>4 DEF Machine, SameAi, SameQueue
<1> HIDE DEF b
<1>10. e \in Machine /\ Equal(b, e) /\ e.armed = TRUE
  BY <1>1, <1>7, SetArmed, ArmedIs DEF jitCancelChain
<1>11. SamePi(q, e) /\ SameSi(q, e)
  BY <1>4, <1>8, <1>10 DEF AiOnly, Equal, SamePi, SameSi
<1>12. SameVi(q, e) /\ e.mask = q.mask /\ e.intr = q.intr
  BY <1>4, <1>8, <1>10 DEF AiOnly, Equal, Timers, SameVi
<1>13. /\ SameQueue(q, e) /\ e.playing = q.playing /\ e.aiAcc = q.aiAcc /\ e.aiLast = q.aiLast
       /\ e.aiNext = n
  BY <1>4, <1>9, <1>10 DEF Equal, Timers, SameAi, SameQueue
<1>14. aiNextEvent(e) = aiNextEvent(q) /\ End(e) = End(q)
  BY <1>13, Zenon DEF aiNextEvent, End, SameQueue
<1>15. Queue(e)
  BY <1>13, Zenon DEF Queue, SameQueue
<1>16. e.evNext = Earlier(e.viNext, e.aiNext)
  BY <1>6, <1>8, <1>9, <1>10 DEF Equal, Timers, SameAi, SameVi
<1> QED BY <1>3, <1>10, <1>11, <1>12, <1>13, <1>14, <1>15, <1>16

\* An access to the DAC: what changes the queue is a store that leaves the block.
AiMove(d, e, t) ==
  /\ e \in Machine /\ SamePi(d, e) /\ SameSi(d, e) /\ SameVi(d, e)
  /\ e.mask = d.mask /\ e.intr = d.intr /\ Queue(e)
  /\ e.aiNext = aiNextEvent(e) /\ e.aiLast = t
  /\ \/ e.evNext = d.evNext /\ e.aiNext = d.aiNext
     \/ e.armed /\ e.evNext = Earlier(e.viNext, e.aiNext)

Enqueued(d, e, t, len) ==
  LET b == len # 0 /\ Len(d.fifo) # 2
  IN /\ AiMove(d, e, t) /\ e.rate = d.rate /\ e.ended = d.ended
     /\ e.fifo = (IF b THEN Append(d.fifo, len) ELSE d.fifo)
     /\ e.queued = (IF b THEN d.queued + 1 ELSE d.queued)
     /\ e.fifo # <<>> =>
          End(e) = (IF d.fifo = <<>> THEN len * AiDen - 0 + d.rate * t ELSE End(d))

Rated(d, e, t, r) ==
  /\ AiMove(d, e, t) /\ e.fifo = d.fifo /\ e.queued = d.queued /\ e.ended = d.ended /\ e.rate = r
  /\ LET x == aiTick(d, t)
     IN End(e) = x.playing * AiDen - x.aiAcc + r * t

LEMMA HeardMoves ==
  ASSUME NEW d, NEW e, NEW t, Heard(d, e, t)
  PROVE  AiMove(d, e, t)
BY DEF Heard, AiOnly, AiMove

\* A buffer joins the queue.
Joined(x, q, len) ==
  /\ q \in Machine /\ Queue(q) /\ SamePi(x, q) /\ SameSi(x, q) /\ SameVi(x, q)
  /\ q.mask = x.mask /\ q.intr = x.intr /\ q.aiLast = x.aiLast
  /\ q.rate = x.rate /\ q.ended = x.ended /\ q.queued = x.queued + 1
  /\ q.fifo = Append(x.fifo, len) /\ q.fifo # <<>>
  /\ x.fifo # <<>> => End(q) = End(x)
  /\ x.fifo = <<>> => End(q) = len * AiDen - 0 + x.rate * x.aiLast

LEMMA JoinTypes ==
  ASSUME NEW x \in Machine, NEW f \in Seq(Nat \ {0}), NEW n \in Nat, NEW p \in Nat
  PROVE  [x EXCEPT !.fifo = f, !.queued = n, !.playing = p] \in Machine
BY DEF Machine

LEMMA Joins ==
  ASSUME NEW x \in Machine, Queue(x), NEW len \in Nat, len # 0, Len(x.fifo) # 2,
         x.fifo = <<>> => x.aiAcc = 0,
         NEW q, q = [x EXCEPT !.fifo = Append(@, len), !.queued = @ + 1,
                              !.playing = IF x.fifo = <<>> THEN len ELSE @]
  PROVE  Joined(x, q, len)
<1> DEFINE f == Append(x.fifo, len)
           n == x.queued + 1
           p == IF x.fifo = <<>> THEN len ELSE x.playing
<1>1. q = [x EXCEPT !.fifo = f, !.queued = n, !.playing = p]
  OBVIOUS
<1>2. /\ x.fifo \in Seq(Nat \ {0}) /\ x.queued \in Nat /\ x.ended \in Nat /\ x.playing \in Nat
      /\ x.aiAcc \in Nat /\ AiDen \in Nat
  BY QueueTypes
<1>k. len \in Nat \ {0}
  OBVIOUS
<1>3. /\ f \in Seq(Nat \ {0}) /\ Len(f) = Len(x.fifo) + 1 /\ Len(x.fifo) \in Nat
      /\ (Len(x.fifo) = 0 => f[1] = len) /\ (Len(x.fifo) > 0 => f[1] = x.fifo[1])
  BY <1>2, <1>k
<1>4. f # <<>> /\ (x.fifo = <<>> <=> Len(x.fifo) = 0)
  <2>1. (f = <<>> <=> Len(f) = 0) /\ (x.fifo = <<>> <=> Len(x.fifo) = 0)
    BY <1>2, <1>3, EmptyIsZero
  <2> QED BY <1>3, <2>1
<1>5. p = (IF x.fifo = <<>> THEN len ELSE x.playing) /\ n = x.queued + 1
  OBVIOUS
<1>6. p \in Nat /\ n \in Nat /\ p > 0
  <2>1. x.fifo # <<>> => x.playing > 0
    BY Playing
  <2> QED BY <1>2, <2>1
<1> HIDE DEF p, n
<1>f. f = Append(x.fifo, len)
  OBVIOUS
<1> HIDE DEF f
<1>7. q \in Machine
  <2>1. f \in Seq(Nat \ {0}) /\ n \in Nat /\ p \in Nat
    BY <1>3, <1>6
  <2>2. [x EXCEPT !.fifo = f, !.queued = n, !.playing = p] \in Machine
    BY <2>1, JoinTypes, Zenon
  <2> QED BY <1>1, <2>2
<1>8. /\ q.fifo = f /\ q.queued = n /\ q.playing = p /\ q.aiLast = x.aiLast /\ q.aiAcc = x.aiAcc
      /\ q.rate = x.rate /\ q.ended = x.ended /\ q.mask = x.mask /\ q.intr = x.intr
  BY <1>1 DEF Machine
<1>9. SamePi(x, q) /\ SameSi(x, q) /\ SameVi(x, q)
  BY <1>1 DEF Machine, SamePi, SameSi, SameVi
<1>10. Queue(q)
  <2>1. /\ x.queued = x.ended + Len(x.fifo) /\ Len(x.fifo) <= 2
        /\ (x.fifo # <<>> => x.playing <= x.fifo[1]) /\ x.aiAcc < AiDen
    BY Zenon DEF Queue
  <2>2. q.queued = q.ended + Len(q.fifo) /\ Len(q.fifo) <= 2 /\ q.aiAcc < AiDen
    <3> DEFINE k == Len(x.fifo)
               l == Len(q.fifo)
    <3>1. l = k + 1 /\ k \in Nat /\ k <= 2 /\ k # 2
      BY <1>3, <1>8, <2>1
    <3>2. q.queued = x.queued + 1 /\ x.queued = x.ended + k /\ q.ended = x.ended
      BY <1>5, <1>8, <2>1
    <3>3. q.aiAcc < AiDen
      BY <1>8, <2>1
    <3>4. x.ended \in Nat
      BY <1>2
    <3> HIDE DEF k, l
    <3>5. q.queued = q.ended + l /\ l <= 2
      BY <3>1, <3>2, <3>4
    <3> QED BY <3>3, <3>5 DEF l
  <2>3. q.playing # 0 /\ q.fifo # <<>>
    BY <1>4, <1>6, <1>8
  <2>4. q.playing <= q.fifo[1]
    <3>1. CASE x.fifo = <<>>
      BY <1>3, <1>4, <1>5, <1>8, <3>1
    <3>2. CASE x.fifo # <<>>
      <4>1. Len(x.fifo) > 0
        BY <1>3, <1>4, <3>2
      <4>2. q.fifo[1] = x.fifo[1] /\ q.playing = x.playing
        BY <1>3, <1>5, <1>8, <3>2, <4>1
      <4> QED BY <2>1, <3>2, <4>2
    <3> QED BY <3>1, <3>2
  <2> QED BY <2>2, <2>3, <2>4, Zenon DEF Queue
<1>11. x.fifo # <<>> => End(q) = End(x)
  BY <1>5, <1>8 DEF End
<1>12. x.fifo = <<>> => End(q) = len * AiDen - 0 + x.rate * x.aiLast
  BY <1>5, <1>8 DEF End
<1> QED BY <1>4, <1>5, <1>7, <1>8, <1>9, <1>10, <1>11, <1>12, <1>f DEF Joined

LEMMA AiLen ==
  ASSUME NEW t \in Nat, NEW d, Live(d, t), NEW len \in Nat, NEW e, e = AI_LEN_write(d, t, len)
  PROVE  Enqueued(d, e, t, len)
<1> DEFINE x == aiTick(d, t)
           b == len # 0 /\ Len(d.fifo) # 2
<1>1. Heard(d, x, t)
  BY Hear
<1>2. e = Enqueue(x, len)
  BY DEF AI_LEN_write
<1> HIDE DEF x
<1>3. /\ x \in Machine /\ AiOnly(d, x) /\ SameQueue(d, x) /\ Queue(x) /\ x.intr = d.intr
      /\ x.aiLast = t /\ x.aiNext = aiNextEvent(x)
      /\ d.fifo # <<>> => End(x) = End(d)
      /\ d.fifo = <<>> => x.playing = 0 /\ x.aiAcc = 0
  BY <1>1 DEF Heard
<1>4. x.fifo = d.fifo /\ x.rate = d.rate /\ x.queued = d.queued /\ x.ended = d.ended
  BY <1>3 DEF SameQueue
<1>5. CASE ~b
  <2>0. Len(x.fifo) = Len(d.fifo)
    BY <1>4
  <2>1. e = x
    BY <1>2, <1>5, <2>0, Zenon DEF Enqueue
  <2>2. AiMove(d, e, t)
    BY <1>1, <2>1, HeardMoves
  <2>3. d.fifo = <<>> => e.fifo = <<>>
    BY <1>4, <2>1
  <2> QED BY <1>3, <1>4, <1>5, <2>1, <2>2, <2>3 DEF Enqueued
<1>6. CASE b
  <2> DEFINE q == [x EXCEPT !.fifo = Append(@, len), !.queued = @ + 1,
                            !.playing = IF x.fifo = <<>> THEN len ELSE @]
  <2>0. len # 0 /\ Len(x.fifo) # 2
    BY <1>4, <1>6
  <2>1. e = jitCancelChain(aiArm(q))
    BY <1>2, <2>0 DEF Enqueue
  <2>2. /\ q \in Machine /\ Queue(q) /\ SamePi(x, q) /\ SameSi(x, q) /\ SameVi(x, q)
        /\ q.mask = x.mask /\ q.intr = x.intr /\ q.aiLast = x.aiLast
        /\ q.rate = x.rate /\ q.ended = x.ended /\ q.queued = x.queued + 1
        /\ q.fifo = Append(x.fifo, len) /\ q.fifo # <<>>
        /\ x.fifo # <<>> => End(q) = End(x)
        /\ x.fifo = <<>> => End(q) = len * AiDen - 0 + x.rate * x.aiLast
    <3>1. x.fifo = <<>> => x.aiAcc = 0
      BY <1>3, <1>4
    <3>2. x \in Machine /\ Queue(x)
      BY <1>3
    <3>3. Joined(x, q, len)
      BY <2>0, <3>1, <3>2, Joins
    <3> HIDE DEF q
    <3> QED BY <3>3 DEF Joined
  <2> HIDE DEF q
  <2>3. /\ e \in Machine /\ SamePi(q, e) /\ SameSi(q, e) /\ SameVi(q, e) /\ SameQueue(q, e)
        /\ e.mask = q.mask /\ e.intr = q.intr /\ e.armed = TRUE /\ Queue(e) /\ End(e) = End(q)
        /\ e.aiLast = q.aiLast
        /\ e.aiNext = aiNextEvent(e) /\ e.evNext = Earlier(e.viNext, e.aiNext)
    BY <2>1, <2>2, ArmAi
  <2>4. SamePi(d, e) /\ SameSi(d, e) /\ SameVi(d, e)
    BY <1>3, <2>2, <2>3 DEF AiOnly, SamePi, SameSi, SameVi
  <2>5. e.mask = d.mask /\ e.intr = d.intr /\ e.aiLast = t
    BY <1>3, <2>2, <2>3 DEF AiOnly
  <2>6. AiMove(d, e, t)
    BY <2>3, <2>4, <2>5 DEF AiMove
  <2>7. /\ e.fifo = Append(d.fifo, len) /\ e.rate = d.rate /\ e.queued = d.queued + 1
        /\ e.ended = d.ended
    BY <1>4, <2>2, <2>3 DEF SameQueue
  <2>8. End(e) = (IF d.fifo = <<>> THEN len * AiDen - 0 + d.rate * t ELSE End(d))
    BY <1>3, <1>4, <2>2, <2>3
  <2> QED BY <1>6, <2>6, <2>7, <2>8 DEF Enqueued
<1> QED BY <1>5, <1>6

LEMMA AiRate ==
  ASSUME NEW t \in Nat, NEW d, Live(d, t), NEW r \in AiRates, NEW e, e = AI_DACRATE_write(d, t, r)
  PROVE  Rated(d, e, t, r)
<1> DEFINE x == aiTick(d, t)
           q == [x EXCEPT !.rate = r]
<1>1. Heard(d, x, t)
  BY Hear
<1>2. e = jitCancelChain(aiArm(q))
  BY DEF AI_DACRATE_write
<1>x. x = aiTick(d, t)
  OBVIOUS
<1> HIDE DEF x
<1>3. /\ x \in Machine /\ AiOnly(d, x) /\ SameQueue(d, x) /\ Queue(x) /\ x.intr = d.intr
      /\ x.aiLast = t
  BY <1>1 DEF Heard
<1>4. x.fifo = d.fifo /\ x.queued = d.queued /\ x.ended = d.ended
  BY <1>3 DEF SameQueue
<1>5. q \in Machine
  BY <1>3 DEF Machine
<1>6. /\ q.fifo = x.fifo /\ q.queued = x.queued /\ q.playing = x.playing /\ q.aiLast = x.aiLast
      /\ q.aiAcc = x.aiAcc /\ q.ended = x.ended /\ q.mask = x.mask /\ q.intr = x.intr /\ q.rate = r
  BY <1>3 DEF Machine
<1>7. SamePi(x, q) /\ SameSi(x, q) /\ SameVi(x, q)
  BY <1>3 DEF Machine, SamePi, SameSi, SameVi
<1> HIDE DEF q
<1>8. Queue(q)
  BY <1>3, <1>6, Zenon DEF Queue
<1>9. /\ e \in Machine /\ SamePi(q, e) /\ SameSi(q, e) /\ SameVi(q, e) /\ SameQueue(q, e)
      /\ e.mask = q.mask /\ e.intr = q.intr /\ e.armed = TRUE /\ Queue(e) /\ End(e) = End(q)
      /\ e.aiLast = q.aiLast
      /\ e.aiNext = aiNextEvent(e) /\ e.evNext = Earlier(e.viNext, e.aiNext)
  BY <1>2, <1>5, <1>8, ArmAi
<1>10. SamePi(d, e) /\ SameSi(d, e) /\ SameVi(d, e)
  BY <1>3, <1>7, <1>9 DEF AiOnly, SamePi, SameSi, SameVi
<1>11. e.mask = d.mask /\ e.intr = d.intr /\ e.aiLast = t
  BY <1>3, <1>6, <1>9 DEF AiOnly
<1>12. AiMove(d, e, t)
  BY <1>9, <1>10, <1>11 DEF AiMove
<1>13. e.fifo = d.fifo /\ e.rate = r /\ e.queued = d.queued /\ e.ended = d.ended
  BY <1>4, <1>6, <1>9 DEF SameQueue
<1>14. End(e) = x.playing * AiDen - x.aiAcc + r * t
  BY <1>3, <1>6, <1>9, Zenon DEF End
<1> QED BY <1>12, <1>13, <1>14, <1>x DEF Rated

ViMove(d, e, l, h) ==
  /\ e \in Machine /\ SamePi(d, e) /\ SameSi(d, e) /\ SameAi(d, e)
  /\ e.mask = d.mask /\ e.intr = d.intr /\ e.viLast = d.viLast /\ e.line = l /\ e.height = h
  /\ e.armed /\ Linked(e)

LEMMA Moves ==
  ASSUME NEW q \in Machine, NEW e, e = viMoved(q)
  PROVE  /\ e \in Machine /\ SamePi(q, e) /\ SameSi(q, e) /\ SameAi(q, e)
         /\ e.mask = q.mask /\ e.intr = q.intr /\ e.viLast = q.viLast /\ e.line = q.line
         /\ e.height = q.height /\ e.armed = TRUE /\ Linked(e)
<1> DEFINE n == viNextEvent(q, q.viLast)
           a == [q EXCEPT !.viNext = n]
           x == Earlier(a.viNext, a.aiNext)
           b == [a EXCEPT !.evNext = x]
<1>1. e = jitCancelChain(b)
  BY DEF viMoved, evArm
<1>2. n \in Nat /\ n = viNextEvent(q, q.viLast)
  <2>1. q.viLast \in Nat
    BY DEF Machine
  <2> QED BY <2>1, ScanFacts, Zenon
<1> HIDE DEF n
<1>3. a \in Machine
  BY <1>2, ZenonT(60) DEF Machine
<1>4. /\ a.viNext = n /\ a.viLast = q.viLast /\ a.line = q.line /\ a.height = q.height
      /\ a.mask = q.mask /\ a.intr = q.intr /\ SamePi(q, a) /\ SameSi(q, a)
  BY <1>2 DEF Machine, SamePi, SameSi
<1>5. SameAi(q, a)
  BY <1>2 DEF Machine, SameAi, SameQueue
<1> HIDE DEF a
<1>6. x \in Int /\ x = Earlier(a.viNext, a.aiNext)
  BY <1>3 DEF Machine, Earlier
<1> HIDE DEF x
<1>7. b \in Machine
  BY <1>3, <1>6, ZenonT(60) DEF Machine
<1>8. /\ b.evNext = x /\ b.mask = a.mask /\ b.intr = a.intr /\ SameVi(a, b)
      /\ SamePi(a, b) /\ SameSi(a, b)
  BY <1>3 DEF Machine, SameVi, SamePi, SameSi
<1>9. SameAi(a, b)
  BY <1>3 DEF Machine, SameAi, SameQueue
<1> HIDE DEF b
<1>10. e \in Machine /\ Equal(b, e) /\ e.armed = TRUE
  BY <1>1, <1>7, SetArmed, ArmedIs DEF jitCancelChain
<1>11. SamePi(q, e) /\ SameSi(q, e) /\ e.mask = q.mask /\ e.intr = q.intr
  BY <1>4, <1>8, <1>10 DEF Equal, SamePi, SameSi
<1>12. SameAi(q, e)
  BY <1>5, <1>9, <1>10 DEF Equal, Timers, SameAi, SameQueue
<1>13. e.viLast = q.viLast /\ e.line = q.line /\ e.height = q.height /\ e.viNext = n
  BY <1>4, <1>8, <1>10 DEF Equal, Timers, SameVi
<1>14. e.evNext = Earlier(e.viNext, e.aiNext)
  BY <1>4, <1>5, <1>6, <1>8, <1>10, <1>12, <1>13 DEF Equal, Timers, SameAi
<1>15. viNextEvent(e, e.viLast) = viNextEvent(q, q.viLast)
  BY <1>13, Zenon DEF viNextEvent, LineAt
<1>16. Linked(e)
  BY <1>2, <1>13, <1>14, <1>15 DEF Linked
<1> QED BY <1>10, <1>11, <1>12, <1>13, <1>16

LEMMA ViLine ==
  ASSUME NEW d \in Machine, NEW l \in Lines, NEW e, e = VI_INTR_write(d, l)
  PROVE  ViMove(d, e, l, d.height)
<1> DEFINE q == [d EXCEPT !.line = l]
<1>1. e = viMoved(q)
  BY DEF VI_INTR_write
<1>2. q \in Machine
  BY DEF Machine
<1>3. /\ q.line = l /\ q.viLast = d.viLast /\ q.height = d.height /\ q.mask = d.mask
      /\ q.intr = d.intr /\ SamePi(d, q) /\ SameSi(d, q)
  BY DEF Machine, SamePi, SameSi
<1>4. SameAi(d, q)
  BY DEF Machine, SameAi, SameQueue
<1> HIDE DEF q
<1>5. /\ e \in Machine /\ SamePi(q, e) /\ SameSi(q, e) /\ SameAi(q, e)
      /\ e.mask = q.mask /\ e.intr = q.intr /\ e.viLast = q.viLast /\ e.line = q.line
      /\ e.height = q.height /\ e.armed = TRUE /\ Linked(e)
  BY <1>1, <1>2, Moves
<1>6. SamePi(d, e) /\ SameSi(d, e) /\ SameAi(d, e)
  BY <1>3, <1>4, <1>5 DEF SamePi, SameSi, SameAi, SameQueue
<1> QED BY <1>3, <1>5, <1>6 DEF ViMove

LEMMA ViHeight ==
  ASSUME NEW d \in Machine, NEW h \in Heights, NEW e, e = VI_V_SYNC_write(d, h)
  PROVE  ViMove(d, e, d.line, h)
<1> DEFINE q == [d EXCEPT !.height = h]
<1>1. e = viMoved(q)
  BY DEF VI_V_SYNC_write
<1>2. q \in Machine
  BY DEF Machine
<1>3. /\ q.line = d.line /\ q.viLast = d.viLast /\ q.height = h /\ q.mask = d.mask
      /\ q.intr = d.intr /\ SamePi(d, q) /\ SameSi(d, q)
  BY DEF Machine, SamePi, SameSi
<1>4. SameAi(d, q)
  BY DEF Machine, SameAi, SameQueue
<1> HIDE DEF q
<1>5. /\ e \in Machine /\ SamePi(q, e) /\ SameSi(q, e) /\ SameAi(q, e)
      /\ e.mask = q.mask /\ e.intr = q.intr /\ e.viLast = q.viLast /\ e.line = q.line
      /\ e.height = q.height /\ e.armed = TRUE /\ Linked(e)
  BY <1>1, <1>2, Moves
<1>6. SamePi(d, e) /\ SameSi(d, e) /\ SameAi(d, e)
  BY <1>3, <1>4, <1>5 DEF SamePi, SameSi, SameAi, SameQueue
<1> QED BY <1>3, <1>5, <1>6 DEF ViMove

----------------------------------------------------------------------------
(* An instruction of the guest. *)

LEMMA TimersKeep ==
  ASSUME NEW t \in Nat, NEW u \in Nat, NEW d, NEW e \in Machine, Timers(d, e), BusyOk(e)
  PROVE  /\ Live(d, t) => Live(e, t)
         /\ Ahead(d, t, u) /\ Pending(e, u) => Ahead(e, t, u)
<1>1. SameAi(d, e) /\ SameVi(d, e) /\ e.evNext = d.evNext
  BY DEF Timers
<1>2. /\ e.fifo = d.fifo /\ e.aiLast = d.aiLast /\ e.aiNext = d.aiNext /\ e.line = d.line
      /\ e.height = d.height /\ e.viLast = d.viLast /\ e.viNext = d.viNext
  BY <1>1 DEF SameAi, SameQueue, SameVi
<1>3. Sound(d) => Sound(e)
  BY <1>1, <1>2, SameAiKeeps DEF Sound
<1>4. Linked(d) => Linked(e)
  <2>1. viNextEvent(e, e.viLast) = viNextEvent(d, d.viLast)
    BY <1>2, Zenon DEF viNextEvent, LineAt
  <2> QED BY <1>1, <1>2, <2>1 DEF Linked
<1>5. Live(d, t) => Live(e, t)
  BY <1>1, <1>2, <1>3, <1>4 DEF Live
<1>6. Ahead(d, t, u) /\ Pending(e, u) => Ahead(e, t, u)
  BY <1>1, <1>2, <1>3, <1>4 DEF Ahead
<1> QED BY <1>5, <1>6

LEMMA AiKeeps ==
  ASSUME NEW t \in Nat, NEW u \in Nat, NEW d, NEW e, Live(d, t), AiMove(d, e, t)
  PROVE  /\ Live(e, t)
         /\ Ahead(d, t, u) /\ ~e.armed => Ahead(e, t, u)
<1>1. /\ e \in Machine /\ SamePi(d, e) /\ SameSi(d, e) /\ SameVi(d, e) /\ Queue(e)
      /\ e.aiNext = aiNextEvent(e) /\ e.aiLast = t
      /\ \/ e.evNext = d.evNext /\ e.aiNext = d.aiNext
         \/ e.armed /\ e.evNext = Earlier(e.viNext, e.aiNext)
  BY DEF AiMove
<1>2. e.line = d.line /\ e.height = d.height /\ e.viLast = d.viLast /\ e.viNext = d.viNext
  BY <1>1 DEF SameVi
<1>3. Sound(d) /\ d.viLast <= d.aiLast /\ d.aiLast <= t /\ t < d.viLast + Field
      /\ (Linked(d) \/ (d.evNext = 0 /\ d.viNext = 0))
  BY DEF Live
<1>4. Sound(e)
  <2>1. BusyOk(d)
    BY <1>3 DEF Sound
  <2>2. BusyOk(e)
    BY <1>1, <2>1 DEF BusyOk, SamePi, SameSi
  <2> QED BY <1>1, <2>2 DEF Sound
<1>5. viNextEvent(e, e.viLast) = viNextEvent(d, d.viLast)
  BY <1>2, Zenon DEF viNextEvent, LineAt
<1>6. Linked(d) => Linked(e)
  BY <1>1, <1>2, <1>5 DEF Linked
<1>7. e.fifo # <<>> => e.aiNext \in Nat /\ t < e.aiNext
  <2>1. e.fifo # <<>> => e.aiNext \in Nat /\ e.aiNext > e.aiLast
    BY <1>4, SoundTypes
  <2> QED BY <1>1, <2>1
<1>8. d.evNext = 0 /\ d.viNext = 0 => e.evNext = 0 /\ e.viNext = 0
  <2>1. e.aiNext = NoDeadline \/ (e.aiNext \in Nat /\ t < e.aiNext)
    BY <1>4, <1>7, SoundTypes
  <2>2. Earlier(0, e.aiNext) = 0
    BY <2>1 DEF Earlier, NoDeadline
  <2> QED BY <1>1, <1>2, <2>2
<1>9. e.viLast <= e.aiLast /\ e.aiLast <= t /\ t < e.viLast + Field
  <2>1. d.viLast \in Nat /\ d.aiLast \in Nat
    BY <1>3, SoundTypes
  <2> QED BY <1>1, <1>2, <1>3, <2>1
<1>10. Live(e, t)
  BY <1>3, <1>4, <1>6, <1>7, <1>8, <1>9 DEF Live
<1>11. ASSUME Ahead(d, t, u), ~e.armed PROVE Ahead(e, t, u)
  <2>1. Linked(d) /\ u < d.evNext /\ Pending(d, u)
    BY <1>11 DEF Ahead
  <2>2. e.evNext = d.evNext
    BY <1>1, <1>11
  <2>3. Pending(e, u)
    BY <1>1, <2>1 DEF Pending, SamePi, SameSi
  <2> QED BY <1>4, <1>6, <1>9, <2>1, <2>2, <2>3 DEF Ahead
<1> QED BY <1>10, <1>11

LEMMA AccessKeeps ==
  ASSUME NEW t \in Nat, NEW u \in Nat, NEW o \in Ops, NEW d, Live(d, t), NEW e, e = Access(o, d, t)
  PROVE  /\ Live(e, t)
         /\ Ahead(d, t, u) /\ ~e.armed => Ahead(e, t, u)
<1>0. d \in Machine /\ Sound(d) /\ BusyOk(d)
  BY SoundTypes DEF Live, Sound
<1>p. Ahead(d, t, u) => Pending(d, u)
  BY DEF Ahead
<1>1. CASE o.reg \in MiRegs
  <2>1. MiMove(o, d, e)
    BY <1>0, <1>1, MiOps
  <2>2. e \in Machine /\ Timers(d, e) /\ SamePi(d, e) /\ SameSi(d, e)
    BY <2>1 DEF MiMove
  <2>3. BusyOk(e) /\ (Pending(d, u) => Pending(e, u))
    BY <1>0, <2>2 DEF BusyOk, Pending, SamePi, SameSi
  <2> QED BY <1>p, <2>2, <2>3, TimersKeep
<1>2. CASE o.reg \in PiRegs
  <2>1. PiMove(d, e)
    BY <1>0, <1>2, PiOps
  <2>2. e \in Machine /\ Timers(d, e) /\ SameSi(d, e) /\ BusyOk(e)
        /\ (~e.armed => (e.piBusy => d.piBusy) /\ e.piDoneAt = d.piDoneAt)
    BY <1>0, <2>1 DEF PiMove, NotPi
  <2>3. Pending(d, u) /\ ~e.armed => Pending(e, u)
    BY <2>2 DEF Pending, SameSi
  <2> QED BY <1>p, <2>2, <2>3, TimersKeep
<1>3. CASE o.reg \in SiRegs
  <2>1. SiMove(d, e)
    BY <1>0, <1>3, SiOps
  <2>2. e \in Machine /\ Timers(d, e) /\ SamePi(d, e) /\ BusyOk(e)
        /\ (~e.armed => (e.siBusy => d.siBusy) /\ e.siDoneAt = d.siDoneAt)
    BY <1>0, <2>1 DEF SiMove, NotSi
  <2>3. Pending(d, u) /\ ~e.armed => Pending(e, u)
    BY <2>2 DEF Pending, SamePi
  <2> QED BY <1>p, <2>2, <2>3, TimersKeep
<1>4. CASE o.reg \in AiRegs
  <2>1. CASE o.reg = "AI_LEN_read"
    <3>1. e = aiTick(d, t)
      BY <2>1, AccessIs
    <3>2. AiMove(d, e, t)
      BY <3>1, Hear, HeardMoves
    <3> QED BY <3>2, AiKeeps
  <2>2. CASE o.reg = "AI_LEN"
    <3>1. e = AI_LEN_write(d, t, o.arg) /\ o.arg \in Nat
      BY <2>2, AccessIs, OpTypes
    <3>2. Enqueued(d, e, t, o.arg)
      BY <3>1, AiLen
    <3>3. AiMove(d, e, t)
      BY <3>2 DEF Enqueued
    <3> QED BY <3>3, AiKeeps
  <2>3. CASE o.reg = "AI_DACRATE"
    <3>1. e = AI_DACRATE_write(d, t, o.arg) /\ o.arg \in AiRates
      BY <2>3, AccessIs, OpTypes
    <3>2. Rated(d, e, t, o.arg)
      BY <3>1, AiRate
    <3>3. AiMove(d, e, t)
      BY <3>2 DEF Rated
    <3> QED BY <3>3, AiKeeps
  <2> QED BY <1>4, <2>1, <2>2, <2>3 DEF AiRegs
<1>5. CASE o.reg \in ViRegs
  <2>1. PICK l, h : ViMove(d, e, l, h)
    <3>1. CASE o.reg = "VI_INTR"
      <4>1. e = VI_INTR_write(d, o.arg) /\ o.arg \in Lines
        BY <3>1, AccessIs, OpTypes
      <4> QED BY <1>0, <4>1, ViLine
    <3>2. CASE o.reg = "VI_V_SYNC"
      <4>1. e = VI_V_SYNC_write(d, o.arg) /\ o.arg \in Heights
        BY <3>2, AccessIs, OpTypes
      <4> QED BY <1>0, <4>1, ViHeight
    <3> QED BY <1>5, <3>1, <3>2 DEF ViRegs
  <2>2. /\ e \in Machine /\ SamePi(d, e) /\ SameSi(d, e) /\ SameAi(d, e) /\ e.viLast = d.viLast
        /\ e.armed /\ Linked(e)
    BY <2>1 DEF ViMove
  <2>3. BusyOk(e)
    BY <1>0, <2>2 DEF BusyOk, SamePi, SameSi
  <2>4. e.fifo = d.fifo /\ e.aiLast = d.aiLast /\ e.aiNext = d.aiNext
    BY <2>2 DEF SameAi, SameQueue
  <2>5. Sound(e)
    BY <1>0, <2>2, <2>3, <2>4, SameAiKeeps DEF Sound
  <2>6. Live(e, t)
    BY <2>2, <2>4, <2>5 DEF Live
  <2> QED BY <2>2, <2>6
<1> QED BY <1>1, <1>2, <1>3, <1>4, <1>5, OpTypes

LEMMA ExecuteKeeps ==
  ASSUME NEW t \in Nat, NEW u \in Nat, NEW o \in Ops, NEW d, Live(d, t),
         NEW e, e = Execute(o, d, t)
  PROVE  /\ Live(e, t)
         /\ Ahead(d, t, u) /\ ~e.armed => Ahead(e, t, u)
<1> DEFINE c == [d EXCEPT !.armed = FALSE]
<1>1. d \in Machine /\ BusyOk(d)
  BY DEF Live, Sound
<1>2. c \in Machine /\ Equal(d, c)
  BY <1>1, SetArmed
<1>3. e = Access(o, c, t)
  BY DEF Execute
<1> HIDE DEF c
<1>4. Timers(d, c) /\ SamePi(d, c) /\ SameSi(d, c)
  BY <1>2 DEF Equal
<1>5. BusyOk(c) /\ (Pending(d, u) => Pending(c, u))
  BY <1>1, <1>4 DEF BusyOk, Pending, SamePi, SameSi
<1>6. Live(c, t) /\ (Ahead(d, t, u) => Ahead(c, t, u))
  BY <1>2, <1>4, <1>5, TimersKeep DEF Ahead
<1> QED BY <1>3, <1>6, AccessKeeps

----------------------------------------------------------------------------
(* The machines of a run. *)

LEMMA ResetIsLive == /\ Live(Reset, 0) /\ Pending(Reset, 0) /\ 0 < LineAfter(Reset, Reset.viLast)
                     /\ Reset.aiNext = NoDeadline /\ Reset.evNext = 0 /\ Reset \in Machine
                     /\ eventDueIn(Reset, 0) = 0
<1>1. /\ (CHOOSE r \in AiRates : TRUE) \in AiRates /\ (CHOOSE l \in Lines : TRUE) \in Lines
      /\ (CHOOSE h \in Heights : TRUE) \in Heights
  BY DeviceAssumption
<1>2. /\ Reset.fifo = <<>> /\ Reset.playing = 0 /\ Reset.aiAcc = 0 /\ Reset.aiLast = 0
      /\ Reset.aiNext = NoDeadline /\ Reset.queued = 0 /\ Reset.ended = 0 /\ Reset.viLast = 0
      /\ Reset.viNext = 0 /\ Reset.evNext = 0 /\ Reset.piBusy = FALSE /\ Reset.siBusy = FALSE
      /\ Reset.siStatus = FALSE /\ Reset.piStatus = {}
  BY DEF Reset
<1>3. Reset \in Machine
  <2>1. NoDeadline \in Int /\ <<>> \in Seq(Nat \ {0})
    BY DEF NoDeadline
  <2> QED BY <1>1, <2>1 DEF Reset, Machine
<1>4. Queue(Reset)
  <2>1. 0 < AiDen /\ Len(<<>>) = 0
    BY DeviceAssumption
  <2> QED BY <1>2, <2>1 DEF Queue
<1>5. BusyOk(Reset)
  BY <1>2 DEF BusyOk
<1>6. Reset.aiNext = aiNextEvent(Reset)
  BY <1>2 DEF aiNextEvent
<1>7. Sound(Reset)
  BY <1>3, <1>4, <1>5, <1>6 DEF Sound
<1>8. Live(Reset, 0)
  BY <1>2, <1>7, FieldType DEF Live
<1>9. Pending(Reset, 0)
  BY <1>2 DEF Pending
<1>10. 0 < LineAfter(Reset, Reset.viLast)
  <2>1. LineAfter(Reset, 0) \in Nat /\ LineAfter(Reset, 0) > 0
    BY <1>3, ScanFacts, Zenon
  <2> QED BY <1>2, <2>1
<1>11. eventDueIn(Reset, 0) = 0
  BY <1>2 DEF eventDueIn, siDueIn, piDueIn, Due, Earlier, NoDeadline
<1> QED BY <1>2, <1>3, <1>8, <1>9, <1>10, <1>11

\* A step of the interpreter.
LEMMA Steps ==
  ASSUME NEW t \in Nat, NEW o \in Ops, NEW d, Live(d, t)
  PROVE  Ahead(retireDue(Execute(o, d, t), t + 1), t + 1, t + 1)
BY ExecuteKeeps, Retire

\* The end of a slice of the host.
LEMMA ScanAhead ==
  ASSUME NEW t \in Nat, NEW d, Live(d, t), Pending(d, t), NEW e, e = viTick(d, t)
  PROVE  Ahead(e, t, t)
<1>1. d \in Machine /\ Queue(d) /\ BusyOk(d)
  BY DEF Live, Sound
<1>2. Scanned(d, e, t)
  BY <1>1, LiveTime, Scan
<1>3. /\ e \in Machine /\ Queue(e) /\ SamePi(d, e) /\ SameSi(d, e)
      /\ e.viLast = t /\ e.viNext = viNextEvent(e, t) /\ e.aiNext = aiNextEvent(e)
      /\ e.evNext = Earlier(e.viNext, e.aiNext) /\ AiLooked(d, e, t)
  BY <1>2 DEF Scanned
<1>4. e.aiLast = t
  BY <1>3 DEF AiLooked
<1>5. BusyOk(e) /\ Pending(e, t)
  BY <1>1, <1>3 DEF BusyOk, Pending, SamePi, SameSi
<1>6. Sound(e) /\ Linked(e)
  BY <1>3, <1>5 DEF Sound, Linked
<1>7. t < e.evNext
  <2>1. e.viNext \in Nat /\ e.viNext > t
    BY <1>3, ScanFacts, Zenon
  <2>2. e.aiNext = NoDeadline \/ (e.aiNext \in Nat /\ e.aiNext > t)
    BY <1>4, <1>6, SoundTypes, Zenon
  <2> QED BY <1>3, <2>1, <2>2 DEF Earlier
<1> QED BY <1>3, <1>4, <1>5, <1>6, <1>7 DEF Ahead

\* Nothing happens before the deadline that eventDueIn gives.
LEMMA DueIn ==
  ASSUME NEW t \in Nat, NEW k \in Nat, NEW d, Ahead(d, t, t),
         eventDueIn(d, t) = NoDeadline \/ eventDueIn(d, t) > k
  PROVE  Ahead(d, t, t + k)
<1> DEFINE s == siDueIn(d, t)
           p == piDueIn(d, t)
           v == Due(d.evNext, t)
<1>1. /\ Sound(d) /\ Linked(d) /\ d.viLast <= d.aiLast /\ d.aiLast <= t /\ t < d.evNext
      /\ Pending(d, t)
  BY DEF Ahead
<1>2. d.piDoneAt \in Nat /\ d.siDoneAt \in Nat /\ d.evNext \in Nat
  BY <1>1, SoundTypes, LinkedFacts
<1>3. v \in Nat /\ v = d.evNext - t
  BY <1>1, <1>2 DEF Due, NoDeadline
<1>4. (~d.piBusy /\ p = NoDeadline) \/ (d.piBusy /\ p \in Nat /\ p = d.piDoneAt - t)
  BY <1>1, <1>2 DEF piDueIn, Due, NoDeadline, Pending
<1>5. (~d.siBusy /\ s = NoDeadline) \/ (d.siBusy /\ s \in Nat /\ s = d.siDoneAt - t)
  BY <1>1, <1>2 DEF siDueIn, Due, NoDeadline, Pending
<1>6. eventDueIn(d, t) = Earlier(Earlier(s, p), v)
  BY DEF eventDueIn
<1> HIDE DEF s, p, v
<1>7. v > k /\ (p \in Nat => p > k) /\ (s \in Nat => s > k)
  BY <1>3, <1>4, <1>5, <1>6 DEF Earlier, NoDeadline
<1>8. t + k < d.evNext
  BY <1>2, <1>3, <1>7
<1>9. Pending(d, t + k)
  BY <1>2, <1>4, <1>5, <1>7 DEF Pending
<1> QED BY <1>1, <1>8, <1>9 DEF Ahead

\* A machine with nothing due is left alone.
LEMMA NotDue ==
  ASSUME NEW t \in Nat, NEW u \in Nat, NEW now \in Nat, now <= u, NEW d, Ahead(d, t, u)
  PROVE  retireDue(d, now) = d
<1>1. Sound(d) /\ Linked(d) /\ u < d.evNext /\ Pending(d, u)
  BY DEF Ahead
<1>2. d.piDoneAt \in Nat /\ d.siDoneAt \in Nat /\ d.evNext \in Nat
  BY <1>1, SoundTypes, LinkedFacts
<1>3. ~(now >= d.evNext) /\ ~(d.siBusy /\ now >= d.siDoneAt) /\ ~(d.piBusy /\ now >= d.piDoneAt)
  BY <1>1, <1>2 DEF Pending
<1> QED BY <1>3 DEF retireDue

\* A machine of a run, with u instructions left of its block.
Reached(d, u) == Ahead(d, clock, clock + u) \/ (d = Reset /\ clock = 0 /\ u = 0)
BusInv == clock \in Nat /\ left \in Nat /\ Reached(m, left) /\ Reached(ref, 0)

LEMMA ReachedIsLive ==
  ASSUME NEW d, NEW u \in Nat, clock \in Nat, Reached(d, u)
  PROVE  /\ Live(d, clock) /\ Pending(d, clock) /\ clock < LineAfter(d, d.viLast)
         /\ Ahead(d, clock, clock) \/ (d = Reset /\ clock = 0)
         /\ u > 0 => Ahead(d, clock, clock + u)
<1>1. CASE Ahead(d, clock, clock + u)
  <2>1. clock + u \in Nat /\ clock <= clock + u
    OBVIOUS
  <2>2. Live(d, clock) /\ clock < LineAfter(d, d.viLast) /\ Ahead(d, clock, clock)
    BY <1>1, <2>1, AheadIsLive
  <2>3. Pending(d, clock)
    BY <2>2 DEF Ahead
  <2> QED BY <1>1, <2>2, <2>3
<1>2. CASE d = Reset /\ clock = 0 /\ u = 0
  BY <1>2, ResetIsLive
<1> QED BY <1>1, <1>2 DEF Reached

LEMMA IdleTurns ==
  ASSUME NEW t \in Nat, NEW d, Live(d, t)
  PROVE  /\ Live(retireDue(d, t + 1), t + 1) /\ Live(idleTurn(d, t), t + 2)
         /\ Ahead(idleTurn(d, t), t + 2, t + 2)
<1> DEFINE e == retireDue(d, t + 1)
           f == retireDue(e, t + 2)
<1>1. t + 1 \in Nat /\ t + 2 \in Nat /\ (t + 1) + 1 = t + 2
  OBVIOUS
<1>2. Ahead(e, t + 1, t + 1)
  BY Retire
<1> HIDE DEF e
<1>3. Live(e, t + 1)
  BY <1>1, <1>2, AheadIsLive
<1>4. Ahead(f, (t + 1) + 1, (t + 1) + 1)
  BY <1>1, <1>3, Retire
<1> HIDE DEF f
<1>5. Ahead(f, t + 2, t + 2)
  BY <1>1, <1>4
<1>6. Live(f, t + 2)
  BY <1>1, <1>5, AheadIsLive
<1>7. idleTurn(d, t) = f
  BY DEF idleTurn, f, e
<1> QED BY <1>3, <1>5, <1>6, <1>7 DEF e

\* Inside a block the machine steps as the interpreter would: there is nothing
\* for the loop of stepCpu to do until the block is left.
LEMMA BlockSteps ==
  ASSUME BusInv, NEW o \in Ops, InBlock(o)
  PROVE  /\ m' = stepCpu(o, m)
         /\ left' # 0 => Ahead(m', clock', clock' + left')
         /\ left' \in Nat /\ clock' = clock + 1
<1> DEFINE e == Execute(o, m, clock)
<1>1. /\ clock \in Nat /\ left \in Nat /\ left > 0 /\ clock' = clock + 1
      /\ left' = (IF e.armed THEN 0 ELSE left - 1)
      /\ m' = (IF left' = 0 THEN retireDue(e, clock + 1) ELSE e)
  BY DEF BusInv, InBlock, AfterStep
<1>2. stepCpu(o, m) = retireDue(e, clock + 1)
  BY DEF stepCpu
<1>3. Live(m, clock) /\ Ahead(m, clock, clock + left) /\ clock + left \in Nat
  BY <1>1, ReachedIsLive DEF BusInv
<1>4. ~e.armed => Ahead(e, clock, clock + left)
  BY <1>1, <1>3, ExecuteKeeps
<1> HIDE DEF e
<1>5. CASE left' = 0
  BY <1>1, <1>2, <1>5
<1>6. CASE left' # 0
  <2>1. ~e.armed /\ left' = left - 1 /\ m' = e
    BY <1>1, <1>6
  <2>2. clock + 1 \in Nat /\ clock + 1 <= clock + left
    BY <1>1
  <2>3. retireDue(e, clock + 1) = e
    BY <1>1, <1>3, <1>4, <2>1, <2>2, NotDue
  <2>4. clock' + left' = clock + left /\ left' \in Nat
    BY <1>1, <2>1
  <2>5. e.aiLast <= clock /\ e.aiLast \in Nat
    BY <1>4, <2>1, SoundTypes DEF Ahead
  <2>6. e.aiLast <= clock'
    BY <1>1, <2>5
  <2>7. Ahead(m', clock', clock' + left')
    BY <1>4, <2>1, <2>4, <2>6 DEF Ahead
  <2> QED BY <1>1, <1>2, <2>1, <2>3, <2>4, <2>7
<1> QED BY <1>5, <1>6

\* Skipping an idle loop is running it.
LEMMA SkipIsIdle ==
  ASSUME BusInv, NEW turns \in {1, 2}, jitIdleSkip(turns)
  PROVE  /\ clock' = clock + 2 * turns
         /\ m' = IF turns = 1 THEN idleTurn(m, clock)
                 ELSE idleTurn(idleTurn(m, clock), clock + 2)
         /\ ref' = IF turns = 1 THEN idleTurn(ref, clock)
                   ELSE idleTurn(idleTurn(ref, clock), clock + 2)
<1> DEFINE k == 2 * turns
           n == k - 1
<1>1. /\ clock \in Nat /\ left = 0 /\ clock' = clock + k /\ m' = retireDue(m, clock + k)
      /\ eventDueIn(m, clock) = NoDeadline \/ k <= eventDueIn(m, clock)
      /\ ref' = IF turns = 1 THEN idleTurn(ref, clock)
                ELSE idleTurn(idleTurn(ref, clock), clock + 2)
  BY DEF BusInv, jitIdleSkip
<1>2. k \in Nat /\ n \in Nat /\ (turns = 1 => k = 2 /\ n = 1) /\ (turns = 2 => k = 4 /\ n = 3)
  OBVIOUS
<1>3. Ahead(m, clock, clock)
  <2>1. Ahead(m, clock, clock) \/ (m = Reset /\ clock = 0)
    BY <1>1, ReachedIsLive DEF BusInv
  <2>2. ~(m = Reset /\ clock = 0)
    <3>1. ASSUME m = Reset, clock = 0 PROVE FALSE
      <4>1. eventDueIn(m, clock) = 0
        BY <3>1, ResetIsLive
      <4> QED BY <1>1, <1>2, <4>1 DEF NoDeadline
    <3> QED BY <3>1
  <2> QED BY <2>1, <2>2
<1>4. Ahead(m, clock, clock + n)
  <2>1. eventDueIn(m, clock) = NoDeadline \/ eventDueIn(m, clock) > n
    <3>1. eventDueIn(m, clock) \in Int
      <4>1. m.piDoneAt \in Nat /\ m.siDoneAt \in Nat /\ m.evNext \in Int
        BY <1>3, SoundTypes DEF Ahead
      <4>2. /\ piDueIn(m, clock) \in Int /\ siDueIn(m, clock) \in Int /\ Due(m.evNext, clock) \in Int
        BY <1>1, <4>1 DEF piDueIn, siDueIn, Due, NoDeadline
      <4> QED BY <4>2 DEF eventDueIn, Earlier
    <3> QED BY <1>1, <1>2, <3>1
  <2> QED BY <1>1, <1>2, <1>3, <2>1, DueIn
<1> HIDE DEF k, n
<1>5. CASE turns = 1
  <2>1. clock + n = clock + 1 /\ clock + k = clock + 2 /\ clock + 1 \in Nat
    BY <1>1, <1>2, <1>5
  <2>2. retireDue(m, clock + 1) = m
    BY <1>1, <1>4, <2>1, NotDue
  <2> QED BY <1>1, <1>5, <2>1, <2>2 DEF idleTurn, k
<1>6. CASE turns = 2
  <2>1. /\ clock + n \in Nat /\ clock + 1 \in Nat /\ clock + 2 \in Nat /\ clock + 3 \in Nat
        /\ clock + 1 <= clock + n /\ clock + 2 <= clock + n /\ clock + 3 <= clock + n
        /\ clock + k = (clock + 2) + 2 /\ (clock + 2) + 1 = clock + 3
    BY <1>1, <1>2, <1>6
  <2>2. retireDue(m, clock + 1) = m /\ retireDue(m, clock + 2) = m /\ retireDue(m, clock + 3) = m
    BY <1>1, <1>4, <2>1, NotDue
  <2>3. idleTurn(m, clock) = m
    BY <2>2 DEF idleTurn
  <2>4. idleTurn(m, clock + 2) = retireDue(m, clock + k)
    BY <2>1, <2>2 DEF idleTurn
  <2> QED BY <1>1, <1>6, <2>3, <2>4 DEF k
<1> QED BY <1>5, <1>6

LEMMA StartInv == BusInit => BusInv
BY DEF BusInit, BusInv, Reached

\* A turn or two of the idle loop.
Turns(d, t, turns) == IF turns = 1 THEN idleTurn(d, t) ELSE idleTurn(idleTurn(d, t), t + 2)

LEMMA TurnsAhead ==
  ASSUME NEW t \in Nat, NEW turns \in {1, 2}, NEW d, Live(d, t)
  PROVE  Ahead(Turns(d, t, turns), t + 2 * turns, t + 2 * turns)
<1> DEFINE e == idleTurn(d, t)
<1>1. Ahead(e, t + 2, t + 2) /\ Live(e, t + 2)
  BY IdleTurns
<1> HIDE DEF e
<1>2. CASE turns = 1
  <2>1. t + 2 * turns = t + 2
    BY <1>2
  <2> QED BY <1>1, <1>2, <2>1 DEF Turns, e
<1>3. CASE turns = 2
  <2>1. t + 2 \in Nat /\ t + 2 * turns = (t + 2) + 2 /\ turns # 1
    BY <1>3
  <2>2. Ahead(idleTurn(e, t + 2), (t + 2) + 2, (t + 2) + 2)
    BY <1>1, <2>1, IdleTurns
  <2> QED BY <1>3, <2>1, <2>2 DEF Turns, e
<1> QED BY <1>2, <1>3

\* Every step, as it moves the two machines.
LEMMA KeepInv == BusInv /\ [BusNext]_accessVars => BusInv'
<1> SUFFICES ASSUME BusInv, [BusNext]_accessVars PROVE BusInv'
  OBVIOUS
<1>1. /\ clock \in Nat /\ left \in Nat /\ Reached(m, left) /\ Reached(ref, 0)
  BY DEF BusInv
<1>2. /\ Live(m, clock) /\ Pending(m, clock) /\ Live(ref, clock)
      /\ Ahead(m, clock, clock) \/ (m = Reset /\ clock = 0)
  BY <1>1, ReachedIsLive
<1>3. \A o \in Ops : /\ Ahead(stepCpu(o, m), clock + 1, clock + 1)
                     /\ Ahead(stepCpu(o, ref), clock + 1, clock + 1)
  BY <1>1, <1>2, Steps DEF stepCpu
<1>4. ASSUME NEW o \in Ops, Interpret(o) PROVE BusInv'
  <2>1. clock' = clock + 1 /\ left' = 0 /\ m' = stepCpu(o, m) /\ ref' = stepCpu(o, ref)
    BY <1>4 DEF Interpret, AfterStep
  <2>2. clock' \in Nat /\ clock' + 0 = clock + 1
    BY <1>1, <2>1
  <2>3. Ahead(m', clock', clock' + 0) /\ Ahead(ref', clock', clock' + 0)
    BY <1>3, <2>1, <2>2
  <2> QED BY <2>1, <2>2, <2>3 DEF BusInv, Reached
<1>5. ASSUME NEW o \in Ops, InBlock(o) PROVE BusInv'
  <2>1. /\ m' = stepCpu(o, m) /\ left' \in Nat /\ clock' = clock + 1
        /\ left' # 0 => Ahead(m', clock', clock' + left')
    BY <1>5, BlockSteps
  <2>2. ref' = stepCpu(o, ref)
    BY <1>5 DEF InBlock, AfterStep
  <2>3. clock' \in Nat /\ clock' + 0 = clock + 1
    BY <1>1, <2>1
  <2>4. Ahead(m', clock', clock' + 0) /\ Ahead(ref', clock', clock' + 0)
    BY <1>3, <2>1, <2>2, <2>3
  <2>5. Ahead(m', clock', clock' + left')
    BY <2>1, <2>4
  <2> QED BY <2>1, <2>3, <2>4, <2>5 DEF BusInv, Reached
<1>6. ASSUME NEW k \in 1 .. MaxBlock, jitTryBlock(k) PROVE BusInv'
  <2>1. /\ left = 0 /\ left' = k /\ m' = m /\ ref' = ref /\ clock' = clock
        /\ eventDueIn(m, clock) = NoDeadline \/ eventDueIn(m, clock) > k
    BY <1>6 DEF jitTryBlock
  <2>2. k \in Nat /\ k > 0
    OBVIOUS
  <2>3. ~(m = Reset /\ clock = 0)
    <3>1. ASSUME m = Reset, clock = 0 PROVE FALSE
      <4>1. eventDueIn(m, clock) = 0
        BY <3>1, ResetIsLive
      <4> QED BY <2>1, <2>2, <4>1 DEF NoDeadline
    <3> QED BY <3>1
  <2>4. Ahead(m, clock, clock + k)
    BY <1>1, <1>2, <2>1, <2>2, <2>3, DueIn
  <2>5. Reached(m, k)'
    BY <2>1, <2>4 DEF Reached
  <2>6. Reached(ref, 0)'
    BY <1>1, <2>1 DEF Reached
  <2>7. Reached(m, left)'
    BY <2>1, <2>4 DEF Reached
  <2> QED BY <1>1, <2>1, <2>2, <2>6, <2>7 DEF BusInv
<1>7. ASSUME NEW turns \in {1, 2}, jitIdleSkip(turns) PROVE BusInv'
  <2>1. /\ clock' = clock + 2 * turns /\ m' = Turns(m, clock, turns)
        /\ ref' = Turns(ref, clock, turns)
    BY <1>7, SkipIsIdle DEF Turns
  <2>2. left' = 0
    BY <1>7 DEF jitIdleSkip
  <2>3. clock' \in Nat /\ clock' + 0 = clock + 2 * turns
    BY <1>1, <2>1
  <2>4. /\ Ahead(Turns(m, clock, turns), clock + 2 * turns, clock + 2 * turns)
        /\ Ahead(Turns(ref, clock, turns), clock + 2 * turns, clock + 2 * turns)
    BY <1>1, <1>2, TurnsAhead
  <2>5. Ahead(m', clock', clock' + 0) /\ Ahead(ref', clock', clock' + 0)
    BY <2>1, <2>3, <2>4
  <2> QED BY <2>2, <2>3, <2>5 DEF BusInv, Reached
<1>8. ASSUME endOfSlice PROVE BusInv'
  <2>1. left = 0 /\ left' = 0 /\ m' = viTick(m, clock) /\ ref' = ref /\ clock' = clock
    BY <1>8 DEF endOfSlice
  <2>2. Ahead(m', clock, clock)
    BY <1>1, <1>2, <2>1, ScanAhead
  <2>3. clock + 0 = clock
    BY <1>1
  <2>4. Ahead(m', clock', clock' + 0)
    BY <2>1, <2>2, <2>3
  <2>5. Reached(ref, 0)'
    BY <1>1, <2>1 DEF Reached
  <2> QED BY <1>1, <2>1, <2>4, <2>5 DEF BusInv, Reached
<1>9. CASE UNCHANGED accessVars
  BY <1>1, <1>9 DEF accessVars, BusInv, Reached
<1> QED BY <1>4, <1>5, <1>6, <1>7, <1>8, <1>9 DEF BusNext

\* What a machine of a run promises.
LEMMA ReachedPromises ==
  ASSUME NEW d, NEW u \in Nat, clock \in Nat, Reached(d, u)
  PROVE  /\ d.siStatus = d.siBusy /\ ("dma" \in d.piStatus <=> d.piBusy)
         /\ d.piBusy => d.piDoneAt > clock
         /\ d.siBusy => d.siDoneAt > clock
         /\ clock > 0 => Due(d.evNext, clock) # 0
         /\ d.aiNext # NoDeadline => d.aiNext >= d.evNext
         /\ d.queued = d.ended + Len(d.fifo)
         /\ Len(d.fifo) <= 2
         /\ d.playing = 0 <=> d.fifo = <<>>
         /\ d.fifo # <<>> => d.playing <= d.fifo[1]
<1>1. /\ Live(d, clock) /\ Pending(d, clock)
      /\ Ahead(d, clock, clock) \/ (d = Reset /\ clock = 0)
  BY ReachedIsLive
<1>2. Sound(d)
  BY <1>1 DEF Live
<1>3. Queue(d) /\ BusyOk(d) /\ d \in Machine
  BY <1>2 DEF Sound
<1>4. /\ d.siStatus = d.siBusy /\ ("dma" \in d.piStatus <=> d.piBusy)
      /\ d.piBusy => d.piDoneAt > clock
      /\ d.siBusy => d.siDoneAt > clock
  BY <1>1, <1>3 DEF BusyOk, Pending
<1>5. (clock > 0 => Due(d.evNext, clock) # 0) /\ (d.aiNext # NoDeadline => d.aiNext >= d.evNext)
  <2>1. CASE Ahead(d, clock, clock)
    <3>1. Linked(d) /\ clock < d.evNext
      BY <2>1 DEF Ahead
    <3>2. d.evNext \in Nat /\ d.viNext \in Nat
      BY <1>2, <3>1, LinkedFacts, SoundTypes
    <3>3. d.aiNext = NoDeadline \/ d.aiNext \in Nat
      BY <1>2, SoundTypes
    <3> QED BY <3>1, <3>2, <3>3 DEF Linked, Earlier, Due, NoDeadline
  <2>2. CASE d = Reset /\ clock = 0
    BY <2>2, ResetIsLive
  <2> QED BY <1>1, <2>1, <2>2
<1>6. /\ d.queued = d.ended + Len(d.fifo) /\ Len(d.fifo) <= 2
      /\ d.playing = 0 <=> d.fifo = <<>>
      /\ d.fifo # <<>> => d.playing <= d.fifo[1]
  BY <1>3, QueueTypes DEF Queue
<1> QED BY <1>4, <1>5, <1>6

LEMMA InvPromises == BusInv => TransfersEnd
<1> SUFFICES ASSUME BusInv, NEW d \in {m, ref}
             PROVE  /\ d.siStatus = d.siBusy /\ ("dma" \in d.piStatus <=> d.piBusy)
                    /\ d.piBusy => d.piDoneAt > clock
                    /\ d.siBusy => d.siDoneAt > clock
                    /\ clock > 0 => Due(d.evNext, clock) # 0
                    /\ d.aiNext # NoDeadline => d.aiNext >= d.evNext
                    /\ d.queued = d.ended + Len(d.fifo)
                    /\ Len(d.fifo) <= 2
                    /\ d.playing = 0 <=> d.fifo = <<>>
                    /\ d.fifo # <<>> => d.playing <= d.fifo[1]
  BY DEF TransfersEnd, BusyIsInFlight, NothingOverdue, BuffersAccounted
<1>1. clock \in Nat /\ \E u \in Nat : Reached(d, u)
  BY DEF BusInv
<1> QED BY <1>1, ReachedPromises

(* No transfer, interrupt or audio buffer of the PI, SI, AI or VI is left  *)
(* behind, for every length and timing of the transfers, every audio rate  *)
(* and clock, and every length of run.                                     *)
THEOREM TransfersAlwaysEnd == BusSpec => []TransfersEnd
BY StartInv, KeepInv, InvPromises, PTL DEF BusSpec

----------------------------------------------------------------------------
(* The two machines of a run.  They may have looked at the scan and at the *)
(* DAC at different times; everything else of them is the same.            *)

AlikeAi(d, e) ==
  SameQueue(d, e) /\ (d.fifo # <<>> => End(e) = End(d)) /\ Line(d, e, "AI")
AlikeVi(d, e, mv) ==
  /\ e.line = d.line /\ e.height = d.height
  /\ ~mv => Line(d, e, "VI") /\ LineAfter(e, e.viLast) = LineAfter(d, d.viLast)
Alike(d, e, mv) ==
  /\ SameBus(d, e) /\ SameJoybus(d, e) /\ e.mask = d.mask
  /\ AlikeAi(d, e) /\ AlikeVi(d, e, mv)

LEMMA AiFrame ==
  ASSUME NEW d, NEW e, NEW f, NEW g, AlikeAi(d, e), SameAi(d, f), SameAi(e, g), Line(f, g, "AI")
  PROVE  AlikeAi(f, g)
<1>1. End(f) = End(d) /\ End(g) = End(e)
  BY SameAiKeeps
<1>2. /\ f.fifo = d.fifo /\ f.rate = d.rate /\ f.queued = d.queued /\ f.ended = d.ended
      /\ g.fifo = e.fifo /\ g.rate = e.rate /\ g.queued = e.queued /\ g.ended = e.ended
  BY DEF SameAi, SameQueue
<1>3. SameQueue(f, g)
  BY <1>2 DEF AlikeAi, SameQueue
<1> QED BY <1>1, <1>2, <1>3 DEF AlikeAi

LEMMA ViFrame ==
  ASSUME NEW d, NEW e, NEW f, NEW g, NEW mv, AlikeVi(d, e, mv), SameVi(d, f), SameVi(e, g),
         ~mv /\ Line(d, e, "VI") => Line(f, g, "VI")
  PROVE  AlikeVi(f, g, mv)
<1>1. /\ f.line = d.line /\ f.height = d.height /\ f.viLast = d.viLast
      /\ g.line = e.line /\ g.height = e.height /\ g.viLast = e.viLast
  BY DEF SameVi
<1>2. LineAfter(f, f.viLast) = LineAfter(d, d.viLast) /\ LineAfter(g, g.viLast) = LineAfter(e, e.viLast)
  BY <1>1, Zenon DEF LineAfter, LineAt
<1> QED BY <1>1, <1>2 DEF AlikeVi

\* The DAC, brought up to date in both, plays the same byte.
Whole(p, a, n, r) == p * n - a + r

LEMMA SameParts ==
  ASSUME NEW n \in Nat, NEW p \in Nat, NEW q \in Nat, NEW a \in Nat, NEW b \in Nat, NEW r \in Int,
         a < n, b < n, Whole(p, a, n, r) = Whole(q, b, n, r)
  PROVE  p = q /\ a = b
<1> DEFINE i == p * n
           j == q * n
<1>0. p * n - a + r = q * n - b + r
  BY DEF Whole
<1>1. i \in Nat /\ j \in Nat /\ i - j = a - b
  BY <1>0, Times
<1>2. ~(p < q)
  <2>1. p + 1 <= q => (p + 1) * n <= q * n
    BY Times
  <2>2. (p + 1) * n = i + n
    OBVIOUS
  <2> QED BY <1>1, <2>1, <2>2
<1>3. ~(q < p)
  <2>1. q + 1 <= p => (q + 1) * n <= p * n
    BY Times
  <2>2. (q + 1) * n = j + n
    OBVIOUS
  <2> QED BY <1>1, <2>1, <2>2
<1>4. p = q
  BY <1>2, <1>3
<1> QED BY <1>1, <1>4

LEMMA SameEnd ==
  ASSUME NEW x \in Machine, NEW y \in Machine, Queue(x), Queue(y),
         x.rate = y.rate, x.aiLast = y.aiLast, End(x) = End(y)
  PROVE  x.playing = y.playing /\ x.aiAcc = y.aiAcc
<1> DEFINE r == x.rate * x.aiLast
<1>1. /\ x.playing \in Nat /\ y.playing \in Nat /\ x.aiAcc \in Nat /\ y.aiAcc \in Nat
      /\ r \in Int /\ AiDen \in Nat
  BY QueueTypes, DeviceAssumption
<1>2. x.aiAcc < AiDen /\ y.aiAcc < AiDen
  BY DEF Queue
<1>3. Whole(x.playing, x.aiAcc, AiDen, r) = Whole(y.playing, y.aiAcc, AiDen, r)
  BY DEF End, Whole
<1> HIDE DEF r
<1> QED BY <1>1, <1>2, <1>3, SameParts

LEMMA HearAlike ==
  ASSUME NEW t \in Nat, NEW d, NEW e, Live(d, t), Live(e, t), AlikeAi(d, e)
  PROVE  LET x == aiTick(d, t)
             y == aiTick(e, t)
         IN /\ x.fifo = y.fifo /\ x.playing = y.playing /\ x.aiAcc = y.aiAcc
            /\ x.fifo = d.fifo
<1> DEFINE x == aiTick(d, t)
           y == aiTick(e, t)
<1>1. Heard(d, x, t) /\ Heard(e, y, t)
  BY Hear
<1> HIDE DEF x, y
<1>2. /\ x \in Machine /\ Queue(x) /\ x.aiLast = t /\ x.fifo = d.fifo /\ x.rate = d.rate
      /\ d.fifo # <<>> => End(x) = End(d)
      /\ d.fifo = <<>> => x.playing = 0 /\ x.aiAcc = 0
  BY <1>1 DEF Heard, SameQueue
<1>3. /\ y \in Machine /\ Queue(y) /\ y.aiLast = t /\ y.fifo = e.fifo /\ y.rate = e.rate
      /\ e.fifo # <<>> => End(y) = End(e)
      /\ e.fifo = <<>> => y.playing = 0 /\ y.aiAcc = 0
  BY <1>1 DEF Heard, SameQueue
<1>4. e.fifo = d.fifo /\ e.rate = d.rate /\ (d.fifo # <<>> => End(e) = End(d))
  BY DEF AlikeAi, SameQueue
<1>5. CASE d.fifo = <<>>
  BY <1>2, <1>3, <1>4, <1>5 DEF x, y
<1>6. CASE d.fifo # <<>>
  <2>1. x.playing = y.playing /\ x.aiAcc = y.aiAcc
    BY <1>2, <1>3, <1>4, <1>6, SameEnd
  <2> QED BY <1>2, <1>3, <1>4, <2>1 DEF x, y
<1> QED BY <1>5, <1>6

\* Two accesses to the DAC leave its buffers alike.
LEMMA QueueAlike ==
  ASSUME NEW o \in Ops, o.reg \in AiRegs, NEW t \in Nat, NEW d, NEW e, Live(d, t), Live(e, t),
         AlikeAi(d, e)
  PROVE  /\ AlikeAi(Access(o, d, t), Access(o, e, t))
         /\ AiMove(d, Access(o, d, t), t) /\ AiMove(e, Access(o, e, t), t)
<1> DEFINE f == Access(o, d, t)
           g == Access(o, e, t)
<1>1. /\ e.fifo = d.fifo /\ e.rate = d.rate /\ e.queued = d.queued /\ e.ended = d.ended
      /\ d.fifo # <<>> => End(e) = End(d)
      /\ "AI" \in e.intr <=> "AI" \in d.intr
  BY DEF AlikeAi, SameQueue, Line
<1>2. CASE o.reg = "AI_LEN_read"
  <2>1. f = aiTick(d, t) /\ g = aiTick(e, t)
    BY <1>2, AccessIs
  <2> HIDE DEF f, g
  <2>2. Heard(d, f, t) /\ Heard(e, g, t)
    BY <2>1, Hear
  <2>3. AiMove(d, f, t) /\ AiMove(e, g, t)
    BY <2>2, HeardMoves
  <2>4. /\ SameQueue(d, f) /\ SameQueue(e, g) /\ f.intr = d.intr /\ g.intr = e.intr
        /\ (d.fifo # <<>> => End(f) = End(d)) /\ (e.fifo # <<>> => End(g) = End(e))
    BY <2>2 DEF Heard
  <2>5. AlikeAi(f, g)
    BY <1>1, <2>4 DEF AlikeAi, SameQueue, Line
  <2> QED BY <2>3, <2>5 DEF f, g
<1>3. CASE o.reg = "AI_LEN"
  <2>1. f = AI_LEN_write(d, t, o.arg) /\ g = AI_LEN_write(e, t, o.arg) /\ o.arg \in Nat
    BY <1>3, AccessIs, OpTypes
  <2> HIDE DEF f, g
  <2> DEFINE n == o.arg
             b == n # 0 /\ Len(d.fifo) # 2
  <2>2. Enqueued(d, f, t, n) /\ Enqueued(e, g, t, n)
    BY <2>1, AiLen
  <2>3. AiMove(d, f, t) /\ AiMove(e, g, t)
    BY <2>2 DEF Enqueued
  <2>4. /\ f.rate = d.rate /\ f.ended = d.ended
        /\ f.fifo = (IF b THEN Append(d.fifo, n) ELSE d.fifo)
        /\ f.queued = (IF b THEN d.queued + 1 ELSE d.queued)
        /\ f.fifo # <<>> =>
             End(f) = (IF d.fifo = <<>> THEN n * AiDen - 0 + d.rate * t ELSE End(d))
    BY <2>2 DEF Enqueued
  <2>5. /\ g.rate = d.rate /\ g.ended = d.ended
        /\ g.fifo = (IF b THEN Append(d.fifo, n) ELSE d.fifo)
        /\ g.queued = (IF b THEN d.queued + 1 ELSE d.queued)
        /\ g.fifo # <<>> =>
             End(g) = (IF d.fifo = <<>> THEN n * AiDen - 0 + d.rate * t ELSE End(e))
    BY <1>1, <2>2 DEF Enqueued
  <2>6. f.intr = d.intr /\ g.intr = e.intr
    BY <2>3 DEF AiMove
  <2>7. SameQueue(f, g) /\ Line(f, g, "AI")
    BY <1>1, <2>4, <2>5, <2>6 DEF SameQueue, Line
  <2>8. f.fifo # <<>> => End(g) = End(f)
    <3> DEFINE z == n * AiDen - 0 + d.rate * t
               k == Append(d.fifo, n)
    <3>1. f.fifo # <<>> => End(f) = (IF d.fifo = <<>> THEN z ELSE End(d))
      BY <2>4
    <3>2. f.fifo # <<>> => End(g) = (IF d.fifo = <<>> THEN z ELSE End(e))
      BY <2>5, <2>7 DEF SameQueue
    <3> HIDE DEF z, k, b
    <3> QED BY <1>1, <3>1, <3>2
  <2>9. AlikeAi(f, g)
    BY <2>7, <2>8 DEF AlikeAi
  <2> QED BY <2>3, <2>9 DEF f, g
<1>4. CASE o.reg = "AI_DACRATE"
  <2>1. f = AI_DACRATE_write(d, t, o.arg) /\ g = AI_DACRATE_write(e, t, o.arg) /\ o.arg \in AiRates
    BY <1>4, AccessIs, OpTypes
  <2> HIDE DEF f, g
  <2> DEFINE x == aiTick(d, t)
             y == aiTick(e, t)
             r == o.arg
  <2>2. Rated(d, f, t, r) /\ Rated(e, g, t, r)
    BY <2>1, AiRate
  <2>3. AiMove(d, f, t) /\ AiMove(e, g, t)
    BY <2>2 DEF Rated
  <2>4. /\ f.fifo = d.fifo /\ f.queued = d.queued /\ f.ended = d.ended /\ f.rate = r
        /\ g.fifo = e.fifo /\ g.queued = e.queued /\ g.ended = e.ended /\ g.rate = r
        /\ End(f) = x.playing * AiDen - x.aiAcc + r * t
        /\ End(g) = y.playing * AiDen - y.aiAcc + r * t
    BY <2>2 DEF Rated
  <2>5. x.playing = y.playing /\ x.aiAcc = y.aiAcc
    BY HearAlike
  <2>6. f.intr = d.intr /\ g.intr = e.intr
    BY <2>3 DEF AiMove
  <2>7. End(f) = End(g)
    <3> HIDE DEF x, y
    <3> QED BY <2>4, <2>5
  <2>8. AlikeAi(f, g)
    BY <1>1, <2>4, <2>6, <2>7 DEF AlikeAi, SameQueue, Line
  <2> QED BY <2>3, <2>8 DEF f, g
<1> QED BY <1>2, <1>3, <1>4 DEF AiRegs

\* The same access leaves the two machines alike.
LEMMA AccessAlike ==
  ASSUME NEW o \in Ops, NEW t \in Nat, NEW d, NEW e, Live(d, t), Live(e, t), NEW mv,
         Alike(d, e, mv)
  PROVE  Alike(Access(o, d, t), Access(o, e, t), mv \/ o.reg \in ViRegs)
<1> DEFINE f == Access(o, d, t)
           g == Access(o, e, t)
           w == mv \/ o.reg \in ViRegs
<1>1. /\ SameBus(d, e) /\ SameJoybus(d, e) /\ e.mask = d.mask
      /\ AlikeAi(d, e) /\ AlikeVi(d, e, mv)
  BY DEF Alike
<1>2. d \in Machine /\ e \in Machine
  BY SoundTypes DEF Live
<1>w. AlikeVi(d, e, w)
  BY <1>1 DEF AlikeVi
<1>3. CASE o.reg \in MiRegs
  <2>1. MiMove(o, d, f) /\ MiMove(o, e, g)
    BY <1>2, <1>3, MiOps
  <2> HIDE DEF f, g, w
  <2>2. /\ Timers(d, f) /\ SamePi(d, f) /\ SameSi(d, f)
        /\ f.mask = (IF o.reg = "MI_MASK" THEN (d.mask \ o.arg) \union o.arg2 ELSE d.mask)
        /\ Line(d, f, "PI") /\ Line(d, f, "SI")
        /\ "AI" \in f.intr <=> "AI" \in d.intr /\ o.reg # "AI_STATUS"
        /\ "VI" \in f.intr <=> "VI" \in d.intr /\ o.reg # "VI_CURRENT"
    BY <2>1 DEF MiMove
  <2>3. /\ Timers(e, g) /\ SamePi(e, g) /\ SameSi(e, g)
        /\ g.mask = (IF o.reg = "MI_MASK" THEN (e.mask \ o.arg) \union o.arg2 ELSE e.mask)
        /\ Line(e, g, "PI") /\ Line(e, g, "SI")
        /\ "AI" \in g.intr <=> "AI" \in e.intr /\ o.reg # "AI_STATUS"
        /\ "VI" \in g.intr <=> "VI" \in e.intr /\ o.reg # "VI_CURRENT"
    BY <2>1 DEF MiMove
  <2>4. SameBus(f, g) /\ SameJoybus(f, g)
    BY <1>1, <2>2, <2>3 DEF SameBus, SameJoybus, SamePi, SameSi, Line
  <2>5. f.mask = g.mask
    BY <1>1, <2>2, <2>3
  <2>6. AlikeAi(f, g)
    <3>1. Line(f, g, "AI")
      BY <1>1, <2>2, <2>3 DEF AlikeAi, Line
    <3> QED BY <1>1, <2>2, <2>3, <3>1, AiFrame DEF Timers
  <2>7. AlikeVi(f, g, w)
    <3>1. Line(d, e, "VI") => Line(f, g, "VI")
      BY <2>2, <2>3 DEF Line
    <3> QED BY <1>w, <2>2, <2>3, <3>1, ViFrame DEF Timers
  <2>8. Alike(f, g, w)
    BY <2>4, <2>5, <2>6, <2>7 DEF Alike
  <2> QED BY <2>8 DEF f, g, w
<1>4. CASE o.reg \in PiRegs
  <2>1. PiMove(d, f) /\ PiMove(e, g)
    BY <1>2, <1>4, PiOps
  <2>2. SameBus(f, g)
    BY <1>1, <1>2, <1>4, PiAlike
  <2> HIDE DEF f, g, w
  <2>3. NotPi(d, f) /\ NotPi(e, g)
    BY <2>1 DEF PiMove
  <2>4. /\ Timers(d, f) /\ SameSi(d, f) /\ f.mask = d.mask
        /\ Line(d, f, "SI") /\ Line(d, f, "AI") /\ Line(d, f, "VI")
        /\ Timers(e, g) /\ SameSi(e, g) /\ g.mask = e.mask
        /\ Line(e, g, "SI") /\ Line(e, g, "AI") /\ Line(e, g, "VI")
    BY <2>3 DEF NotPi
  <2>5. SameJoybus(f, g)
    BY <1>1, <2>4 DEF SameJoybus, SameSi, Line
  <2>6. AlikeAi(f, g)
    <3>1. Line(f, g, "AI")
      BY <1>1, <2>4 DEF AlikeAi, Line
    <3> QED BY <1>1, <2>4, <3>1, AiFrame DEF Timers
  <2>7. AlikeVi(f, g, w)
    <3>1. Line(d, e, "VI") => Line(f, g, "VI")
      BY <2>4 DEF Line
    <3> QED BY <1>w, <2>4, <3>1, ViFrame DEF Timers
  <2>8. Alike(f, g, w)
    BY <1>1, <2>2, <2>4, <2>5, <2>6, <2>7 DEF Alike
  <2> QED BY <2>8 DEF f, g, w
<1>5. CASE o.reg \in SiRegs
  <2>1. SiMove(d, f) /\ SiMove(e, g)
    BY <1>2, <1>5, SiOps
  <2>2. SameJoybus(f, g)
    BY <1>1, <1>2, <1>5, SiAlike
  <2> HIDE DEF f, g, w
  <2>3. NotSi(d, f) /\ NotSi(e, g)
    BY <2>1 DEF SiMove
  <2>4. /\ Timers(d, f) /\ SamePi(d, f) /\ f.mask = d.mask
        /\ Line(d, f, "PI") /\ Line(d, f, "AI") /\ Line(d, f, "VI")
        /\ Timers(e, g) /\ SamePi(e, g) /\ g.mask = e.mask
        /\ Line(e, g, "PI") /\ Line(e, g, "AI") /\ Line(e, g, "VI")
    BY <2>3 DEF NotSi
  <2>5. SameBus(f, g)
    BY <1>1, <2>4 DEF SameBus, SamePi, Line
  <2>6. AlikeAi(f, g)
    <3>1. Line(f, g, "AI")
      BY <1>1, <2>4 DEF AlikeAi, Line
    <3> QED BY <1>1, <2>4, <3>1, AiFrame DEF Timers
  <2>7. AlikeVi(f, g, w)
    <3>1. Line(d, e, "VI") => Line(f, g, "VI")
      BY <2>4 DEF Line
    <3> QED BY <1>w, <2>4, <3>1, ViFrame DEF Timers
  <2>8. Alike(f, g, w)
    BY <1>1, <2>2, <2>4, <2>5, <2>6, <2>7 DEF Alike
  <2> QED BY <2>8 DEF f, g, w
<1>6. CASE o.reg \in AiRegs
  <2>1. AlikeAi(f, g) /\ AiMove(d, f, t) /\ AiMove(e, g, t)
    BY <1>1, <1>6, QueueAlike
  <2> HIDE DEF f, g, w
  <2>2. /\ SamePi(d, f) /\ SameSi(d, f) /\ SameVi(d, f) /\ f.mask = d.mask /\ f.intr = d.intr
        /\ SamePi(e, g) /\ SameSi(e, g) /\ SameVi(e, g) /\ g.mask = e.mask /\ g.intr = e.intr
    BY <2>1 DEF AiMove
  <2>3. SameBus(f, g) /\ SameJoybus(f, g)
    BY <1>1, <2>2 DEF SameBus, SameJoybus, SamePi, SameSi, Line
  <2>4. AlikeVi(f, g, w)
    <3>1. Line(d, e, "VI") => Line(f, g, "VI")
      BY <2>2 DEF Line
    <3> QED BY <1>w, <2>2, <3>1, ViFrame
  <2>5. Alike(f, g, w)
    BY <1>1, <2>1, <2>2, <2>3, <2>4 DEF Alike
  <2> QED BY <2>5 DEF f, g, w
<1>7. CASE o.reg \in ViRegs
  <2>1. PICK l, h : ViMove(d, f, l, h) /\ ViMove(e, g, l, h)
    <3>0. e.line = d.line /\ e.height = d.height
      BY <1>1 DEF AlikeVi
    <3>1. CASE o.reg = "VI_INTR"
      <4>1. f = VI_INTR_write(d, o.arg) /\ g = VI_INTR_write(e, o.arg) /\ o.arg \in Lines
        BY <3>1, AccessIs, OpTypes
      <4>2. ViMove(d, f, o.arg, d.height) /\ ViMove(e, g, o.arg, e.height)
        BY <1>2, <4>1, ViLine
      <4> QED BY <3>0, <4>2
    <3>2. CASE o.reg = "VI_V_SYNC"
      <4>1. f = VI_V_SYNC_write(d, o.arg) /\ g = VI_V_SYNC_write(e, o.arg) /\ o.arg \in Heights
        BY <3>2, AccessIs, OpTypes
      <4>2. ViMove(d, f, d.line, o.arg) /\ ViMove(e, g, e.line, o.arg)
        BY <1>2, <4>1, ViHeight
      <4> QED BY <3>0, <4>2
    <3> QED BY <1>7, <3>1, <3>2 DEF ViRegs
  <2>w. w
    BY <1>7
  <2> HIDE DEF f, g, w
  <2>2. /\ SamePi(d, f) /\ SameSi(d, f) /\ SameAi(d, f) /\ f.mask = d.mask /\ f.intr = d.intr
        /\ f.line = l /\ f.height = h
        /\ SamePi(e, g) /\ SameSi(e, g) /\ SameAi(e, g) /\ g.mask = e.mask /\ g.intr = e.intr
        /\ g.line = l /\ g.height = h
    BY <2>1 DEF ViMove
  <2>3. SameBus(f, g) /\ SameJoybus(f, g)
    BY <1>1, <2>2 DEF SameBus, SameJoybus, SamePi, SameSi, Line
  <2>4. AlikeAi(f, g)
    <3>1. Line(f, g, "AI")
      BY <1>1, <2>2 DEF AlikeAi, Line
    <3> QED BY <1>1, <2>2, <3>1, AiFrame
  <2>5. AlikeVi(f, g, w)
    BY <2>w, <2>2 DEF AlikeVi
  <2>6. Alike(f, g, w)
    BY <1>1, <2>2, <2>3, <2>4, <2>5 DEF Alike
  <2> QED BY <2>6 DEF f, g, w
<1> QED BY <1>3, <1>4, <1>5, <1>6, <1>7, OpTypes

LEMMA ExecuteAlike ==
  ASSUME NEW o \in Ops, NEW t \in Nat, NEW d, NEW e, Live(d, t), Live(e, t), NEW mv,
         Alike(d, e, mv)
  PROVE  Alike(Execute(o, d, t), Execute(o, e, t), mv \/ o.reg \in ViRegs)
<1> DEFINE a == [d EXCEPT !.armed = FALSE]
           b == [e EXCEPT !.armed = FALSE]
<1>1. d \in Machine /\ e \in Machine /\ BusyOk(d) /\ BusyOk(e)
  BY DEF Live, Sound
<1>2. a \in Machine /\ Equal(d, a) /\ b \in Machine /\ Equal(e, b)
  BY <1>1, SetArmed
<1>3. Execute(o, d, t) = Access(o, a, t) /\ Execute(o, e, t) = Access(o, b, t)
  BY DEF Execute
<1> HIDE DEF a, b
<1>4. /\ Timers(d, a) /\ SamePi(d, a) /\ SameSi(d, a) /\ a.mask = d.mask /\ a.intr = d.intr
      /\ Timers(e, b) /\ SamePi(e, b) /\ SameSi(e, b) /\ b.mask = e.mask /\ b.intr = e.intr
  BY <1>2 DEF Equal
<1>5. BusyOk(a) /\ BusyOk(b)
  BY <1>1, <1>4 DEF BusyOk, SamePi, SameSi
<1>6. Live(a, t) /\ Live(b, t)
  BY <1>2, <1>4, <1>5, TimersKeep
<1>7. /\ SameBus(d, e) /\ SameJoybus(d, e) /\ e.mask = d.mask
      /\ AlikeAi(d, e) /\ AlikeVi(d, e, mv)
  BY DEF Alike
<1>8. SameBus(a, b) /\ SameJoybus(a, b)
  BY <1>4, <1>7 DEF SameBus, SameJoybus, SamePi, SameSi, Line
<1>9. AlikeAi(a, b)
  <2>1. Line(a, b, "AI")
    BY <1>4, <1>7 DEF AlikeAi, Line
  <2> QED BY <1>4, <1>7, <2>1, AiFrame DEF Timers
<1>10. AlikeVi(a, b, mv)
  <2>1. Line(d, e, "VI") => Line(a, b, "VI")
    BY <1>4 DEF Line
  <2> QED BY <1>4, <1>7, <2>1, ViFrame DEF Timers
<1>11. Alike(a, b, mv)
  BY <1>4, <1>7, <1>8, <1>9, <1>10 DEF Alike
<1> QED BY <1>3, <1>6, <1>11, AccessAlike

\* The line of two machines that have both seen the scan up to t.
LEMMA LineAlike ==
  ASSUME NEW t \in Nat, NEW d \in Machine, NEW e \in Machine,
         d.viLast <= t, t < LineAfter(d, d.viLast), e.viLast <= t, t < LineAfter(e, e.viLast),
         e.line = d.line, e.height = d.height
  PROVE  LineAfter(e, e.viLast) = LineAfter(d, d.viLast)
<1>1. d.viLast \in Nat /\ e.viLast \in Nat
  BY DEF Machine
<1>2. LineAfter(d, t) = LineAfter(d, d.viLast)
  BY <1>1, ScanFacts
<1>3. LineAfter(e, t) = LineAfter(e, e.viLast)
  BY <1>1, ScanFacts
<1>4. LineAfter(d, t) = LineAfter(e, t)
  BY Zenon DEF LineAfter, LineAt
<1> QED BY <1>2, <1>3, <1>4

LEMMA EndsAlike ==
  ASSUME NEW d, NEW e, NEW now, AlikeAi(d, e)
  PROVE  AiDone(e, now) <=> AiDone(d, now)
<1>1. e.fifo = d.fifo /\ e.rate = d.rate /\ (d.fifo # <<>> => End(e) = End(d))
  BY DEF AlikeAi, SameQueue
<1> QED BY <1>1, Zenon DEF AiDone

\* What is due ends in both.
LEMMA RetireAlike ==
  ASSUME NEW t \in Nat, NEW d, NEW e, Live(d, t), Live(e, t), NEW mv, Alike(d, e, mv)
  PROVE  Alike(retireDue(d, t + 1), retireDue(e, t + 1), mv)
<1> DEFINE now == t + 1
           f == retireDue(d, now)
           g == retireDue(e, now)
<1>0. now \in Nat
  OBVIOUS
<1>1. /\ Ahead(f, now, now) /\ Retired(d, f, now) /\ Ahead(g, now, now) /\ Retired(e, g, now)
  BY Retire
<1> HIDE DEF f, g, now
<1>2. /\ SameBus(d, e) /\ SameJoybus(d, e) /\ e.mask = d.mask
      /\ AlikeAi(d, e) /\ AlikeVi(d, e, mv)
  BY DEF Alike
<1>3. /\ PiRetired(d, f, now) /\ SiRetired(d, f, now) /\ AiAfter(d, f, now)
      /\ f.mask = d.mask /\ f.line = d.line /\ f.height = d.height
      /\ "PI" \in f.intr <=> "PI" \in d.intr \/ PiEnds(d, now)
      /\ "SI" \in f.intr <=> "SI" \in d.intr \/ SiEnds(d, now)
      /\ "AI" \in f.intr <=> "AI" \in d.intr \/ AiDone(d, now)
      /\ "VI" \in f.intr <=> "VI" \in d.intr \/ now >= LineAfter(d, d.viLast)
  BY <1>1 DEF Retired
<1>4. /\ PiRetired(e, g, now) /\ SiRetired(e, g, now) /\ AiAfter(e, g, now)
      /\ g.mask = e.mask /\ g.line = e.line /\ g.height = e.height
      /\ "PI" \in g.intr <=> "PI" \in e.intr \/ PiEnds(e, now)
      /\ "SI" \in g.intr <=> "SI" \in e.intr \/ SiEnds(e, now)
      /\ "AI" \in g.intr <=> "AI" \in e.intr \/ AiDone(e, now)
      /\ "VI" \in g.intr <=> "VI" \in e.intr \/ now >= LineAfter(e, e.viLast)
  BY <1>1 DEF Retired
<1>5. SameBus(f, g)
  <2>1. SamePi(d, e) /\ Line(d, e, "PI")
    BY <1>2 DEF SameBus
  <2>2. PiEnds(e, now) <=> PiEnds(d, now)
    BY <2>1 DEF PiEnds, SamePi
  <2>3. SamePi(f, g)
    BY <1>3, <1>4, <2>1, <2>2 DEF SamePi, PiRetired
  <2> QED BY <1>3, <1>4, <2>1, <2>2, <2>3 DEF SameBus, Line
<1>6. SameJoybus(f, g)
  <2>1. SameSi(d, e) /\ Line(d, e, "SI")
    BY <1>2 DEF SameJoybus
  <2>2. SiEnds(e, now) <=> SiEnds(d, now)
    BY <2>1 DEF SiEnds, SameSi
  <2>3. SameSi(f, g)
    BY <1>3, <1>4, <2>1, <2>2 DEF SameSi, SiRetired
  <2> QED BY <1>3, <1>4, <2>1, <2>2, <2>3 DEF SameJoybus, Line
<1>7. AlikeAi(f, g)
  <2>1. /\ e.fifo = d.fifo /\ e.rate = d.rate /\ e.queued = d.queued /\ e.ended = d.ended
        /\ d.fifo # <<>> => End(e) = End(d)
        /\ "AI" \in e.intr <=> "AI" \in d.intr
    BY <1>2 DEF AlikeAi, SameQueue, Line
  <2>2. AiDone(e, now) <=> AiDone(d, now)
    BY <1>2, EndsAlike
  <2>3. Line(f, g, "AI")
    BY <1>3, <1>4, <2>1, <2>2 DEF Line
  <2>4. CASE AiDone(d, now)
    <3>1. d.fifo # <<>>
      BY <2>4 DEF AiDone
    <3>2. /\ f.queued = d.queued /\ f.rate = d.rate /\ f.fifo = Tail(d.fifo)
          /\ f.ended = d.ended + 1 /\ (f.fifo # <<>> => End(f) = End(d) + d.fifo[2] * AiDen)
      BY <1>3, <2>4 DEF AiAfter
    <3>3. /\ g.queued = d.queued /\ g.rate = d.rate /\ g.fifo = Tail(d.fifo)
          /\ g.ended = d.ended + 1 /\ (g.fifo # <<>> => End(g) = End(d) + d.fifo[2] * AiDen)
      BY <1>4, <2>1, <2>2, <2>4, <3>1 DEF AiAfter
    <3> QED BY <2>3, <3>2, <3>3 DEF AlikeAi, SameQueue
  <2>5. CASE ~AiDone(d, now)
    <3>1. /\ f.queued = d.queued /\ f.rate = d.rate /\ f.fifo = d.fifo
          /\ f.ended = d.ended /\ (f.fifo # <<>> => End(f) = End(d))
      BY <1>3, <2>5 DEF AiAfter
    <3>2. /\ g.queued = d.queued /\ g.rate = d.rate /\ g.fifo = d.fifo
          /\ g.ended = d.ended /\ (g.fifo # <<>> => End(g) = End(d))
      BY <1>4, <2>1, <2>2, <2>5 DEF AiAfter
    <3> QED BY <2>3, <3>1, <3>2 DEF AlikeAi, SameQueue
  <2> QED BY <2>4, <2>5
<1>8. AlikeVi(f, g, mv)
  <2>1. /\ e.line = d.line /\ e.height = d.height
        /\ ~mv => Line(d, e, "VI") /\ LineAfter(e, e.viLast) = LineAfter(d, d.viLast)
    BY <1>2 DEF AlikeVi
  <2>2. f.line = g.line /\ f.height = g.height
    BY <1>3, <1>4, <2>1
  <2>3. ~mv => Line(f, g, "VI")
    BY <1>3, <1>4, <2>1 DEF Line
  <2>4. /\ Live(f, now) /\ now < LineAfter(f, f.viLast)
        /\ Live(g, now) /\ now < LineAfter(g, g.viLast)
    BY <1>0, <1>1, AheadIsLive
  <2>5. f \in Machine /\ g \in Machine /\ f.viLast <= now /\ g.viLast <= now
    BY <1>0, <2>4, LiveTime DEF Live, Sound
  <2>6. LineAfter(g, g.viLast) = LineAfter(f, f.viLast)
    BY <1>0, <2>2, <2>4, <2>5, LineAlike
  <2> QED BY <2>2, <2>3, <2>6 DEF AlikeVi
<1>9. Alike(f, g, mv)
  BY <1>2, <1>3, <1>4, <1>5, <1>6, <1>7, <1>8 DEF Alike
<1> QED BY <1>9 DEF f, g, now

LEMMA StepAlike ==
  ASSUME NEW o \in Ops, NEW t \in Nat, NEW d, NEW e, Live(d, t), Live(e, t), NEW mv,
         Alike(d, e, mv)
  PROVE  Alike(retireDue(Execute(o, d, t), t + 1), retireDue(Execute(o, e, t), t + 1),
               mv \/ o.reg \in ViRegs)
<1>1. Live(Execute(o, d, t), t) /\ Live(Execute(o, e, t), t)
  BY ExecuteKeeps
<1>2. Alike(Execute(o, d, t), Execute(o, e, t), mv \/ o.reg \in ViRegs)
  BY ExecuteAlike
<1> QED BY <1>1, <1>2, RetireAlike

LEMMA TurnsAlike ==
  ASSUME NEW turns \in {1, 2}, NEW t \in Nat, NEW d, NEW e, Live(d, t), Live(e, t), NEW mv,
         Alike(d, e, mv)
  PROVE  Alike(Turns(d, t, turns), Turns(e, t, turns), mv)
<1>1. ASSUME NEW s \in Nat, NEW x, NEW y, Live(x, s), Live(y, s), Alike(x, y, mv)
      PROVE  Alike(idleTurn(x, s), idleTurn(y, s), mv)
  <2> DEFINE a == retireDue(x, s + 1)
             b == retireDue(y, s + 1)
  <2>1. Alike(a, b, mv)
    BY <1>1, RetireAlike
  <2>2. Live(a, s + 1) /\ Live(b, s + 1)
    BY <1>1, IdleTurns
  <2>3. s + 1 \in Nat /\ (s + 1) + 1 = s + 2
    OBVIOUS
  <2> HIDE DEF a, b
  <2>4. Alike(retireDue(a, (s + 1) + 1), retireDue(b, (s + 1) + 1), mv)
    BY <2>1, <2>2, <2>3, RetireAlike
  <2>5. Alike(retireDue(a, s + 2), retireDue(b, s + 2), mv)
    BY <2>3, <2>4
  <2> QED BY <2>5 DEF idleTurn, a, b
<1> DEFINE f == idleTurn(d, t)
           g == idleTurn(e, t)
<1>2. Alike(f, g, mv)
  BY <1>1
<1>3. Live(f, t + 2) /\ Live(g, t + 2) /\ t + 2 \in Nat
  BY IdleTurns
<1> HIDE DEF f, g
<1>4. CASE turns = 1
  BY <1>2, <1>4 DEF Turns, f, g
<1>5. CASE turns # 1
  <2>1. Alike(idleTurn(f, t + 2), idleTurn(g, t + 2), mv)
    BY <1>1, <1>2, <1>3
  <2> QED BY <1>5, <2>1 DEF Turns, f, g
<1> QED BY <1>4, <1>5

\* A look at the video clock where nothing is due is seen by nobody.
LEMMA ScanAlike ==
  ASSUME NEW t \in Nat, NEW d, NEW e, Live(d, t), Live(e, t), t < LineAfter(d, d.viLast), NEW mv,
         Alike(d, e, mv)
  PROVE  Alike(viTick(d, t), e, mv)
<1> DEFINE f == viTick(d, t)
<1>1. d \in Machine /\ Queue(d) /\ e \in Machine
  BY DEF Live, Sound
<1>2. ~AiDone(d, t) /\ d.viLast <= t
  BY LiveTime
<1>3. Scanned(d, f, t)
  BY <1>1, LiveTime, Scan
<1> HIDE DEF f
<1>4. /\ f \in Machine /\ SamePi(d, f) /\ SameSi(d, f) /\ f.mask = d.mask
      /\ f.line = d.line /\ f.height = d.height /\ f.viLast = t /\ AiLooked(d, f, t)
      /\ "PI" \in f.intr <=> "PI" \in d.intr
      /\ "SI" \in f.intr <=> "SI" \in d.intr
      /\ "AI" \in f.intr <=> "AI" \in d.intr \/ AiDone(d, t)
      /\ "VI" \in f.intr <=> "VI" \in d.intr \/ t >= LineAfter(d, d.viLast)
  BY <1>3 DEF Scanned
<1>5. SameQueue(d, f) /\ (d.fifo # <<>> => End(f) = End(d))
  BY <1>2, <1>4 DEF AiLooked
<1>6. d.viLast \in Nat /\ LineAfter(d, d.viLast) \in Nat /\ LineAfter(d, t) = LineAfter(d, d.viLast)
  <2>1. d.viLast \in Nat
    BY <1>1 DEF Machine
  <2>2. /\ LineAfter(d, d.viLast) \in Nat
        /\ \A y \in Nat : y >= d.viLast =>
             (y < LineAfter(d, d.viLast) => LineAfter(d, y) = LineAfter(d, d.viLast))
    BY <1>1, <2>1, ScanFacts
  <2> QED BY <1>2, <2>1, <2>2
<1>7. LineAfter(f, f.viLast) = LineAfter(d, d.viLast)
  <2>1. LineAfter(f, t) = LineAfter(d, t)
    BY <1>4, Zenon DEF LineAfter, LineAt
  <2> QED BY <1>4, <1>6, <2>1
<1>8. ~(t >= LineAfter(d, d.viLast))
  BY <1>6
<1>9. Line(d, f, "PI") /\ Line(d, f, "SI") /\ Line(d, f, "AI") /\ Line(d, f, "VI")
  BY <1>2, <1>4, <1>8 DEF Line
<1>10. /\ SameBus(d, e) /\ SameJoybus(d, e) /\ e.mask = d.mask
       /\ AlikeAi(d, e) /\ AlikeVi(d, e, mv)
  BY DEF Alike
<1>11. SameBus(f, e) /\ SameJoybus(f, e)
  BY <1>4, <1>9, <1>10 DEF SameBus, SameJoybus, SamePi, SameSi, Line
<1>12. AlikeAi(f, e)
  BY <1>5, <1>9, <1>10 DEF AlikeAi, SameQueue, Line
<1>13. AlikeVi(f, e, mv)
  BY <1>4, <1>7, <1>9, <1>10 DEF AlikeVi, Line
<1>14. Alike(f, e, mv)
  BY <1>4, <1>10, <1>11, <1>12, <1>13 DEF Alike
<1> QED BY <1>14 DEF f

\* The inductive invariant of the two machines.
PairInv == BusInv /\ Alike(m, ref, moved)

LEMMA StartPair == BusInit => PairInv
<1> SUFFICES ASSUME BusInit PROVE PairInv
  OBVIOUS
<1>1. m = Reset /\ ref = Reset
  BY DEF BusInit
<1>2. Alike(Reset, Reset, moved)
  BY DEF Alike, SameBus, SameJoybus, SamePi, SameSi, AlikeAi, SameQueue, AlikeVi, Line
<1> QED BY <1>1, <1>2, StartInv DEF PairInv

LEMMA KeepPair == PairInv /\ [BusNext]_accessVars => PairInv'
<1> SUFFICES ASSUME PairInv, [BusNext]_accessVars PROVE PairInv'
  OBVIOUS
<1>1. /\ BusInv /\ Alike(m, ref, moved) /\ clock \in Nat /\ left \in Nat
      /\ Reached(m, left) /\ Reached(ref, 0)
  BY DEF PairInv, BusInv
<1>2. BusInv'
  BY <1>1, KeepInv
<1>3. Live(m, clock) /\ Live(ref, clock) /\ clock < LineAfter(m, m.viLast)
  BY <1>1, ReachedIsLive
<1>4. \A o \in Ops : Alike(stepCpu(o, m), stepCpu(o, ref), moved \/ o.reg \in ViRegs)
  BY <1>1, <1>3, StepAlike DEF stepCpu
<1>5. ASSUME NEW o \in Ops, Interpret(o) PROVE Alike(m, ref, moved)'
  <2>1. /\ m' = stepCpu(o, m) /\ ref' = stepCpu(o, ref)
        /\ moved' = (moved \/ o.reg \in ViRegs)
    BY <1>5 DEF Interpret, AfterStep, ViRegs
  <2> QED BY <1>4, <2>1
<1>6. ASSUME NEW o \in Ops, InBlock(o) PROVE Alike(m, ref, moved)'
  <2>1. m' = stepCpu(o, m)
    BY <1>1, <1>6, BlockSteps
  <2>2. ref' = stepCpu(o, ref) /\ moved' = (moved \/ o.reg \in ViRegs)
    BY <1>6 DEF InBlock, AfterStep, ViRegs
  <2> QED BY <1>4, <2>1, <2>2
<1>7. ASSUME NEW k \in 1 .. MaxBlock, jitTryBlock(k) PROVE Alike(m, ref, moved)'
  <2>1. m' = m /\ ref' = ref /\ moved' = moved
    BY <1>7 DEF jitTryBlock
  <2> QED BY <1>1, <2>1
<1>8. ASSUME NEW turns \in {1, 2}, jitIdleSkip(turns) PROVE Alike(m, ref, moved)'
  <2>1. m' = Turns(m, clock, turns) /\ ref' = Turns(ref, clock, turns)
    BY <1>1, <1>8, SkipIsIdle DEF Turns
  <2>2. moved' = moved
    BY <1>8 DEF jitIdleSkip
  <2>3. Alike(Turns(m, clock, turns), Turns(ref, clock, turns), moved)
    BY <1>1, <1>3, TurnsAlike
  <2> QED BY <2>1, <2>2, <2>3
<1>9. ASSUME endOfSlice PROVE Alike(m, ref, moved)'
  <2>1. m' = viTick(m, clock) /\ ref' = ref /\ moved' = moved
    BY <1>9 DEF endOfSlice
  <2>2. Alike(viTick(m, clock), ref, moved)
    BY <1>1, <1>3, ScanAlike
  <2> QED BY <2>1, <2>2
<1>10. ASSUME UNCHANGED accessVars PROVE Alike(m, ref, moved)'
  <2>1. m' = m /\ ref' = ref /\ moved' = moved
    BY <1>10 DEF accessVars
  <2> QED BY <1>1, <2>1
<1>11. Alike(m, ref, moved)'
  BY <1>5, <1>6, <1>7, <1>8, <1>9, <1>10 DEF BusNext
<1> QED BY <1>2, <1>11 DEF PairInv

LEMMA PairIsInvisible == PairInv => HostInvisibleButLine
<1> SUFFICES ASSUME PairInv PROVE HostInvisibleButLine
  OBVIOUS
<1> DEFINE a == aiTick(m, clock)
           b == aiTick(ref, clock)
           x == piIoDecay(m, clock)
           y == piIoDecay(ref, clock)
<1>1. /\ BusInv /\ Alike(m, ref, moved) /\ clock \in Nat /\ left \in Nat
      /\ Reached(m, left) /\ Reached(ref, 0)
  BY DEF PairInv, BusInv
<1>2. Live(m, clock) /\ Live(ref, clock)
  BY <1>1, ReachedIsLive
<1>3. m \in Machine /\ ref \in Machine
  BY <1>2 DEF Live, Sound
<1>4. /\ SameBus(m, ref) /\ SameJoybus(m, ref) /\ ref.mask = m.mask
      /\ AlikeAi(m, ref) /\ AlikeVi(m, ref, moved)
  BY <1>1 DEF Alike
<1>5. a.fifo = b.fifo /\ a.playing = b.playing
  BY <1>1, <1>2, <1>4, HearAlike
<1>6. x.piStatus = y.piStatus /\ x.latched = y.latched
  <2>1. SamePi(x, y)
    BY <1>1, <1>3, <1>4, DecayAlike DEF SameBus
  <2> QED BY <2>1 DEF SamePi
<1>7. m.siStatus = ref.siStatus /\ m.rdram = ref.rdram /\ m.pif = ref.pif
  BY <1>4 DEF SameJoybus, SameSi
<1>8. m.line = ref.line /\ m.height = ref.height
  BY <1>4 DEF AlikeVi
<1>9. m.intr \ {"VI"} = ref.intr \ {"VI"}
  <2>1. m.intr \in SUBSET {"PI", "SI", "AI", "VI"} /\ ref.intr \in SUBSET {"PI", "SI", "AI", "VI"}
    BY <1>3 DEF Machine
  <2>2. Line(m, ref, "PI") /\ Line(m, ref, "SI") /\ Line(m, ref, "AI")
    BY <1>4 DEF SameBus, SameJoybus, AlikeAi
  <2> QED BY <2>1, <2>2 DEF Line
<1>10. ~moved => (("VI" \in m.intr) = ("VI" \in ref.intr))
  BY <1>4 DEF AlikeVi, Line
<1> HIDE DEF a, b, x, y
<1>11. /\ Visible(m) = [intr |-> m.intr, mask |-> m.mask, pi |-> x.piStatus, latched |-> x.latched,
                        si |-> m.siStatus, rdram |-> m.rdram, pif |-> m.pif, fifo |-> a.fifo,
                        playing |-> a.playing, line |-> m.line, height |-> m.height]
       /\ Visible(ref) = [intr |-> ref.intr, mask |-> ref.mask, pi |-> y.piStatus,
                          latched |-> y.latched, si |-> ref.siStatus, rdram |-> ref.rdram,
                          pif |-> ref.pif, fifo |-> b.fifo, playing |-> b.playing,
                          line |-> ref.line, height |-> ref.height]
  BY DEF Visible, a, b, x, y
<1>12. [Visible(m) EXCEPT !.intr = @ \ {"VI"}] = [Visible(ref) EXCEPT !.intr = @ \ {"VI"}]
  BY <1>4, <1>5, <1>6, <1>7, <1>8, <1>9, <1>11
<1> QED BY <1>10, <1>12 DEF HostInvisibleButLine

(* The guest sees the same machine compiled or interpreted, with its idle  *)
(* loops skipped or run and wherever the host ends its slices, but for the *)
(* interrupt of the scan once the game has moved its line: for every       *)
(* program, every length of a block and every timing of the devices.       *)
THEOREM HostNeverSeen == BusSpec => []HostInvisibleButLine
BY StartPair, KeepPair, PairIsInvisible, PTL DEF BusSpec
=============================================================================
