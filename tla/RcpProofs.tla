----------------------------- MODULE RcpProofs -----------------------------
(***************************************************************************)
(* The threads of the RCP, for every size, grain and lead: the RDP's FIFO  *)
(* tells the guest of a frame only once it is painted, and wakes its       *)
(* worker; the journal and the mailbox between the CPU and the RSP are     *)
(* read at the dates of the guest; CPU and RSP never both wait, and hear   *)
(* of the end of a task in time.                                           *)
(***************************************************************************)
EXTENDS MCRcp, SequenceTheorems, FiniteSetTheorems, WellFoundedInduction, TLAPS

(***************************************************************************)
(* The RDP's FIFO.                                                         *)
(***************************************************************************)

FifoSpec == FifoInit /\ [][FifoNext]_fvars

Jobs == [cur : Nat, end : Nat, gen : Nat, sync : BOOLEAN, syncAt : Nat]
DpcStates == [start : Nat, end : Nat, submitted : Nat, valid : BOOLEAN, frozen : BOOLEAN]
WorkerStates == [pc : {"spin", "lock", "asleep", "run", "done"}, job : Jobs, pos : Nat,
                 hasResume : BOOLEAN, resume : Nat, lastEnd : Nat]

\* Queue, worker, registers and clocks, typed.
QueueTyped == rdpQueue \in Seq(Jobs) /\ worker \in WorkerStates
ClocksTyped ==
  /\ dpc \in DpcStates /\ gen \in Nat
  /\ now \in 0 .. MaxTime /\ rspNow \in 0 .. MaxTime /\ kicks \in 0 .. MaxKicks

\* The schedule: the dates of the SYNC_FULLs rise, none is past the last span, and none is Never.
DatesRise(q, top) ==
  /\ q \in Seq(Nat)
  /\ \A i \in 1 .. Len(q) : q[i] <= top
  /\ \A i, j \in 1 .. Len(q) : i < j => q[i] < q[j]

SchedKept ==
  /\ sched = [end |-> sched.end, syncEnds |-> sched.syncEnds, half |-> sched.half]
  /\ sched.end \in Nat /\ sched.end <= MaxTime + kicks
  /\ DatesRise(sched.syncEnds, sched.end)

\* A job still to be painted that ends a frame has its date in the schedule.
Dates(q) == {q[i] : i \in 1 .. Len(q)}
Filed(job, q) == job.sync => job.syncAt \in Dates(q)

JobsFiled ==
  /\ \A k \in 1 .. Len(rdpQueue) : Filed(rdpQueue[k], sched.syncEnds)
  /\ Filed(worker.job, sched.syncEnds)

\* Jobs are dated in the order they are painted.
JobsInOrder ==
  /\ worker.job.syncAt <= sched.end
  /\ \A k \in 1 .. Len(rdpQueue) :
       worker.job.syncAt < rdpQueue[k].syncAt /\ rdpQueue[k].syncAt <= sched.end
  /\ \A k, l \in 1 .. Len(rdpQueue) : k < l => rdpQueue[k].syncAt < rdpQueue[l].syncAt

\* The barrier stands while anything is to be painted, and an idle worker holds no job.
BarrierStands ==
  /\ dpPend \in BOOLEAN
  /\ rdpQueue # <<>> => dpPend
  /\ worker.pc \in {"run", "done"} => dpPend
  /\ worker.pc \notin {"run", "done"} => worker.job = NoJob

\* A worker asleep has said so, and one asleep with work has a notification on its way.
SleepKept == worker.pc = "asleep" => rdpWaiting /\ (rdpQueue # <<>> => prodPc = "notify")

FifoInv == QueueTyped /\ ClocksTyped /\ SchedKept /\ JobsFiled /\ JobsInOrder /\ BarrierStands /\ SleepKept

----------------------------------------------------------------------------
\* A set of numbers that is not empty has a least one.
LEMMA LeastIsLeast ==
  ASSUME NEW S \in SUBSET Nat, S # {}
  PROVE  Least(S) \in S /\ \A j \in S : Least(S) <= j
<1>1. PICK x \in S : \A y \in S : ~(<<y, x>> \in OpToRel(<, Nat))
  BY NatLessThanWellFounded, WFMin
<1>2. \A y \in S : x <= y
  <2> SUFFICES ASSUME NEW y \in S, y < x PROVE FALSE
    OBVIOUS
  <2> QED BY <1>1 DEF OpToRel
<1> QED BY <1>2 DEF Least

\* Retiring a job takes the dates it painted off the front and leaves the later ones.
LEMMA SyncsAfterKeeps ==
  ASSUME NEW q, NEW top \in Nat, DatesRise(q, top), NEW job \in Jobs
  PROVE  /\ DatesRise(SyncsAfter(q, job), top)
         /\ \A x \in Dates(q) : x > job.syncAt => x \in Dates(SyncsAfter(q, job))
<1> DEFINE later == {i \in DOMAIN q : q[i] > job.syncAt}
           lo == Least(later)
           r == SubSeq(q, lo, Len(q))
<1>1. q \in Seq(Nat) /\ Len(q) \in Nat /\ DOMAIN q = 1 .. Len(q) /\ job.syncAt \in Nat
  BY LenProperties DEF DatesRise, Jobs
<1>2. CASE ~job.sync
  BY <1>2, <1>1 DEF SyncsAfter
<1>3. CASE job.sync /\ later = {}
  <2>1. SyncsAfter(q, job) = <<>>
    BY <1>3 DEF SyncsAfter
  <2>2. DatesRise(<<>>, top)
    BY DEF DatesRise
  <2>3. \A x \in Dates(q) : ~(x > job.syncAt)
    BY <1>3, <1>1 DEF Dates
  <2> QED BY <2>1, <2>2, <2>3
<1>4. CASE job.sync /\ later # {}
  <2>1. SyncsAfter(q, job) = r
    BY <1>4 DEF SyncsAfter
  <2>2. later \in SUBSET Nat
    BY <1>1
  <2>3. lo \in later /\ \A j \in later : lo <= j
    BY <2>2, <1>4, LeastIsLeast
  <2>4. lo \in 1 .. Len(q)
    BY <2>3, <1>1
  <2> HIDE DEF lo, later
  <2>5. r \in Seq(Nat) /\ Len(r) = Len(q) - lo + 1 /\ \A i \in 1 .. Len(r) : r[i] = q[lo + i - 1]
    <3> DEFINE z == Len(q)
    <3>1. lo \in Int /\ z \in Int /\ lo <= z /\ \A i \in lo .. z : q[i] \in Nat
      BY <2>4, <1>1
    <3>2. r = SubSeq(q, lo, z)
      OBVIOUS
    <3> HIDE DEF r, z
    <3>3. /\ r \in Seq(Nat) /\ Len(r) = (IF lo <= z THEN z - lo + 1 ELSE 0)
          /\ \A i \in 1 .. z - lo + 1 : r[i] = q[lo + i - 1]
      BY ONLY <3>1, <3>2, SubSeqProperties
    <3> QED BY ONLY <3>1, <3>3 DEF z
  <2> HIDE DEF r
  <2>6. DatesRise(r, top)
    <3>1. \A i \in 1 .. Len(r) : lo + i - 1 \in 1 .. Len(q) /\ r[i] = q[lo + i - 1]
      <4> DEFINE a == Len(q)
                 b == Len(r)
      <4>1. a \in Nat /\ lo \in 1 .. a /\ b = a - lo + 1
        BY ONLY <2>5, <2>4, <1>1
      <4> HIDE DEF a, b
      <4>2. \A i \in 1 .. b : lo + i - 1 \in 1 .. a
        BY ONLY <4>1
      <4> QED BY <4>2, <2>5 DEF a, b
    <3>2. \A i \in 1 .. Len(r) : r[i] <= top
      BY <3>1 DEF DatesRise
    <3>3. ASSUME NEW i \in 1 .. Len(r), NEW j \in 1 .. Len(r), i < j PROVE r[i] < r[j]
      <4>1. lo + i - 1 < lo + j - 1
        BY <3>3, <2>4, <2>5, <1>1
      <4> DEFINE a == lo + i - 1
                 b == lo + j - 1
      <4>2. a \in 1 .. Len(q) /\ b \in 1 .. Len(q) /\ a < b /\ r[i] = q[a] /\ r[j] = q[b]
        BY <4>1, <3>1
      <4> HIDE DEF a, b
      <4> QED BY <4>2 DEF DatesRise
    <3> QED BY <3>2, <3>3, <2>5 DEF DatesRise
  <2>7. ASSUME NEW x \in Dates(q), x > job.syncAt PROVE x \in Dates(r)
    <3>1. PICK i \in 1 .. Len(q) : x = q[i]
      BY DEF Dates
    <3>2. i \in later
      BY <3>1, <2>7, <1>1 DEF later
    <3>3. lo <= i
      BY <3>2, <2>3
    <3> DEFINE n == i - lo + 1
    <3>4. n \in 1 .. Len(r) /\ lo + n - 1 = i
      <4> DEFINE y == Len(r)
                 z == Len(q)
      <4>1. y = z - lo + 1 /\ lo \in 1 .. z /\ z \in Nat /\ i \in 1 .. z /\ lo <= i
        BY <3>3, <2>5, <2>4, <1>1
      <4> HIDE DEF y, z
      <4>2. n \in 1 .. y /\ lo + n - 1 = i
        BY ONLY <4>1 DEF n
      <4> QED BY <4>2 DEF y
    <3> HIDE DEF n
    <3>5. r[n] = q[i]
      BY <3>4, <2>5
    <3> QED BY <3>4, <3>5, <3>1 DEF Dates
  <2> QED BY <2>1, <2>6, <2>7
<1> QED BY <1>2, <1>3, <1>4

\* A new date goes to the back.
LEMMA DateFiled ==
  ASSUME NEW q, NEW top \in Nat, DatesRise(q, top), NEW at \in Nat, at > top
  PROVE  /\ DatesRise(Append(q, at), at) /\ DatesRise(q, at)
         /\ at \in Dates(Append(q, at))
         /\ \A x \in Dates(q) : x \in Dates(Append(q, at))
<1>1. q \in Seq(Nat) /\ Len(q) \in Nat
  BY LenProperties DEF DatesRise
<1>2. /\ Append(q, at) \in Seq(Nat) /\ Len(Append(q, at)) = Len(q) + 1
      /\ \A i \in 1 .. Len(q) : Append(q, at)[i] = q[i]
      /\ Append(q, at)[Len(q) + 1] = at
  BY <1>1, AppendProperties
<1>3. DatesRise(q, at)
  BY <1>1 DEF DatesRise
<1>4. DatesRise(Append(q, at), at)
  <2> DEFINE s == Append(q, at)
  <2>1. \A i \in 1 .. Len(s) : s[i] <= at /\ s[i] \in Nat
    <3> TAKE i \in 1 .. Len(s)
    <3>1. CASE i = Len(q) + 1
      BY <3>1, <1>2
    <3>2. CASE i # Len(q) + 1
      <4>1. i \in 1 .. Len(q)
        BY <3>2, <1>1, <1>2
      <4> QED BY <4>1, <1>2, <1>1 DEF DatesRise
    <3> QED BY <3>1, <3>2
  <2>2. ASSUME NEW i \in 1 .. Len(s), NEW j \in 1 .. Len(s), i < j PROVE s[i] < s[j]
    <3>1. i \in 1 .. Len(q)
      BY <2>2, <1>1, <1>2
    <3>2. CASE j = Len(q) + 1
      BY <3>1, <3>2, <1>2, <1>1 DEF DatesRise
    <3>3. CASE j # Len(q) + 1
      <4>1. j \in 1 .. Len(q)
        BY <3>3, <1>1, <1>2
      <4> QED BY <4>1, <3>1, <2>2, <1>2 DEF DatesRise
    <3> QED BY <3>2, <3>3
  <2> QED BY <2>1, <2>2, <1>2 DEF DatesRise
<1>5. at \in Dates(Append(q, at))
  <2>1. Len(q) + 1 \in 1 .. Len(Append(q, at))
    BY <1>1, <1>2
  <2> QED BY <2>1, <1>2 DEF Dates
<1>6. \A x \in Dates(q) : x \in Dates(Append(q, at))
  <2>1. \A i \in 1 .. Len(q) : i \in 1 .. Len(Append(q, at)) /\ Append(q, at)[i] = q[i]
    BY <1>1, <1>2
  <2> QED BY <2>1 DEF Dates
<1> QED BY <1>3, <1>4, <1>5, <1>6

\* The bounds are numbers.
LEMMA FifoConstants ==
  /\ MemWords \in Nat /\ Gens \in Nat /\ MaxKicks \in Nat /\ MaxTime \in Nat
  /\ Gens > 0
BY FifoAssumption

\* FifoInv holds of the initial states.
LEMMA FifoInitial == FifoInit => FifoInv
<1> SUFFICES ASSUME FifoInit PROVE FifoInv
  OBVIOUS
<1>1. NoJob \in Jobs /\ NoJob.sync = FALSE /\ NoJob.syncAt = 0
  BY DEF NoJob, Jobs
<1>2. worker \in WorkerStates /\ worker.pc = "spin" /\ worker.job = NoJob
  BY <1>1 DEF FifoInit, WorkerStates
<1>3. QueueTyped
  BY <1>2 DEF FifoInit, QueueTyped
<1>4. ClocksTyped
  BY FifoConstants DEF FifoInit, ClocksTyped, DpcStates
<1>5. DatesRise(<<>>, 0)
  BY DEF DatesRise
<1>6. SchedKept
  BY <1>5, FifoConstants DEF FifoInit, SchedKept
<1>7. JobsFiled /\ JobsInOrder
  BY <1>1, <1>2, <1>5 DEF FifoInit, JobsFiled, JobsInOrder, Filed, DatesRise
<1>8. BarrierStands /\ SleepKept
  BY <1>2 DEF FifoInit, BarrierStands, SleepKept
<1> QED BY <1>3, <1>4, <1>6, <1>7, <1>8 DEF FifoInv

\* What a span does to the schedule: it ends after every earlier one and within the clock.
LEMMA SpanIsLater ==
  ASSUME FifoInv
  PROVE  SpanEnd \in Nat /\ SpanEnd > sched.end /\ SpanEnd <= MaxTime + kicks + 1
<1>1. Kick \in Nat /\ Kick <= MaxTime
  BY FifoConstants DEF Kick, FifoInv, ClocksTyped
<1> QED BY <1>1, FifoConstants DEF SpanEnd, Larger, FifoInv, SchedKept, ClocksTyped

\* The schedule after a span.
LEMMA SpanScheduled ==
  ASSUME FifoInv, kicks < MaxKicks, NEW a, NEW b, rdpSubmit(a, b)
  PROVE  /\ SchedKept' /\ kicks' \in 0 .. MaxKicks /\ sched'.end = SpanEnd
         /\ \A x \in Dates(sched.syncEnds) : x \in Dates(sched'.syncEnds)
         /\ SawSyncFull(sched.half, Span(rdram, a, b)) => SpanEnd \in Dates(sched'.syncEnds)
<1> DEFINE sync == SawSyncFull(sched.half, Span(rdram, a, b))
           ends == IF sync THEN Append(sched.syncEnds, SpanEnd) ELSE sched.syncEnds
           hf == EndsInside(sched.half, Span(rdram, a, b))
<1>1. sched' = [end |-> SpanEnd, half |-> hf, syncEnds |-> ends] /\ kicks' = kicks + 1
  BY DEF rdpSubmit
<1> HIDE DEF hf
<1>2. SpanEnd \in Nat /\ SpanEnd > sched.end /\ SpanEnd <= MaxTime + kicks + 1
  BY SpanIsLater
<1>3. sched.end \in Nat /\ DatesRise(sched.syncEnds, sched.end)
  BY DEF FifoInv, SchedKept
<1>4. /\ DatesRise(Append(sched.syncEnds, SpanEnd), SpanEnd) /\ DatesRise(sched.syncEnds, SpanEnd)
      /\ SpanEnd \in Dates(Append(sched.syncEnds, SpanEnd))
      /\ \A x \in Dates(sched.syncEnds) : x \in Dates(Append(sched.syncEnds, SpanEnd))
  BY <1>2, <1>3, DateFiled
<1>5. /\ DatesRise(ends, SpanEnd) /\ (sync => SpanEnd \in Dates(ends))
      /\ \A x \in Dates(sched.syncEnds) : x \in Dates(ends)
  BY <1>4
<1>6. kicks' \in 0 .. MaxKicks /\ kicks \in Nat
  BY <1>1, FifoConstants DEF FifoInv, ClocksTyped
<1> HIDE DEF ends
<1>7. sched'.end = SpanEnd /\ sched'.syncEnds = ends /\ sched'.half = hf
  BY <1>1
<1>8. SchedKept'
  BY <1>1, <1>2, <1>5, <1>6, <1>7, FifoConstants DEF SchedKept
<1> QED BY <1>5, <1>6, <1>7, <1>8 DEF sync

\* The queue after a span: the last job grown, or one more.
LEMMA SpanQueued ==
  ASSUME FifoInv, kicks < MaxKicks, NEW a \in Nat, NEW b \in Nat, rdpSubmit(a, b)
  PROVE  /\ rdpQueue' \in Seq(Jobs) /\ rdpQueue' # <<>> /\ dpPend' = TRUE
         /\ \E n \in Nat :
              /\ n = Len(rdpQueue') /\ n > 0 /\ n - 1 <= Len(rdpQueue)
              /\ \A k \in 1 .. n - 1 : rdpQueue'[k] = rdpQueue[k]
              /\ \/ rdpQueue'[n].syncAt = SpanEnd
                 \/ n = Len(rdpQueue) /\ rdpQueue'[n].syncAt = rdpQueue[n].syncAt
              /\ \/ ~rdpQueue'[n].sync
                 \/ SawSyncFull(sched.half, Span(rdram, a, b)) /\ rdpQueue'[n].syncAt = SpanEnd
                 \/ n = Len(rdpQueue) /\ rdpQueue[n].sync /\ rdpQueue'[n].syncAt = rdpQueue[n].syncAt
<1> DEFINE sync == SawSyncFull(sched.half, Span(rdram, a, b))
           last == Len(rdpQueue)
<1>1. sync \in BOOLEAN
  BY DEF SawSyncFull
<1>2. SpanEnd \in Nat
  BY SpanIsLater
<1>3. rdpQueue \in Seq(Jobs) /\ last \in Nat /\ gen \in Nat
  BY LenProperties DEF FifoInv, QueueTyped, ClocksTyped
<1> HIDE DEF sync
<1>4. CASE Coalesces(a)
  <2> DEFINE o == rdpQueue[last]
             e == [o EXCEPT !.end = b, !.sync = o.sync \/ sync,
                            !.syncAt = IF sync THEN SpanEnd ELSE o.syncAt]
  <2>1. rdpQueue # <<>> /\ last \in 1 .. Len(rdpQueue)
    BY <1>4, <1>3, EmptySeq DEF Coalesces
  <2>2. o \in Jobs
    BY <2>1, <1>3, ElementOfSeq
  <2>3. e \in Jobs /\ e.sync = (o.sync \/ sync) /\ e.syncAt = IF sync THEN SpanEnd ELSE o.syncAt
    BY <2>2, <1>1, <1>2 DEF Jobs
  <2>4. rdpQueue' = [rdpQueue EXCEPT ![last] = e] /\ UNCHANGED dpPend
    BY <1>4 DEF rdpSubmit, sync
  <2>5. o.sync \in BOOLEAN
    BY <2>2 DEF Jobs
  <2> HIDE DEF e, o
  <2>6. /\ rdpQueue' \in Seq(Jobs) /\ Len(rdpQueue') = last
        /\ \A k \in 1 .. last : rdpQueue'[k] = IF k = last THEN e ELSE rdpQueue[k]
    BY <2>1, <2>3, <2>4, <1>3, ExceptSeq
  <2>7. dpPend' = TRUE
    BY <2>1, <2>4 DEF FifoInv, BarrierStands
  <2>8. rdpQueue' # <<>>
    BY <2>6, <2>1, <1>3, EmptySeq
  <2>9. \A k \in 1 .. last - 1 : rdpQueue'[k] = rdpQueue[k]
    BY <2>6, <1>3
  <2>10. rdpQueue'[last] = e
    BY <2>6, <2>1
  <2> QED BY <2>1, <2>3, <2>5, <2>6, <2>7, <2>8, <2>9, <2>10, <1>1, <1>3 DEF o, sync
<1>5. CASE ~Coalesces(a)
  <2> DEFINE e == [cur |-> a, end |-> b, gen |-> gen, sync |-> sync, syncAt |-> SpanEnd]
  <2>1. e \in Jobs /\ e.sync = sync /\ e.syncAt = SpanEnd
    BY <1>1, <1>2, <1>3 DEF Jobs
  <2>2. rdpQueue' = Append(rdpQueue, e) /\ dpPend' = TRUE
    BY <1>5 DEF rdpSubmit, sync
  <2> HIDE DEF e
  <2>3. /\ rdpQueue' \in Seq(Jobs) /\ rdpQueue' # <<>> /\ Len(rdpQueue') = last + 1
        /\ \A k \in 1 .. last : rdpQueue'[k] = rdpQueue[k]
        /\ rdpQueue'[last + 1] = e
    BY <2>1, <2>2, <1>3, AppendProperties
  <2> QED BY <2>1, <2>2, <2>3, <1>1, <1>3 DEF sync
<1> QED BY <1>4, <1>5

\* A span keeps the invariant: it is dated after all the others, it raises the barrier, and a
\* worker that sleeps is told.
LEMMA SubmitKeeps ==
  ASSUME FifoInv, kicks < MaxKicks, NEW a \in Nat, NEW b \in Nat, rdpSubmit(a, b),
         dpc' \in DpcStates, UNCHANGED <<workVars, cpuVars, envVars, gen>>
  PROVE  FifoInv'
<1> DEFINE sync == SawSyncFull(sched.half, Span(rdram, a, b))
<1>1. /\ SchedKept' /\ kicks' \in 0 .. MaxKicks /\ sched'.end = SpanEnd
      /\ \A x \in Dates(sched.syncEnds) : x \in Dates(sched'.syncEnds)
      /\ sync => SpanEnd \in Dates(sched'.syncEnds)
  BY SpanScheduled
<1>2. /\ rdpQueue' \in Seq(Jobs) /\ rdpQueue' # <<>> /\ dpPend' = TRUE
  BY SpanQueued
<1>3. PICK n \in Nat :
              /\ n = Len(rdpQueue') /\ n > 0 /\ n - 1 <= Len(rdpQueue)
              /\ \A k \in 1 .. n - 1 : rdpQueue'[k] = rdpQueue[k]
              /\ \/ rdpQueue'[n].syncAt = SpanEnd
                 \/ n = Len(rdpQueue) /\ rdpQueue'[n].syncAt = rdpQueue[n].syncAt
              /\ \/ ~rdpQueue'[n].sync
                 \/ sync /\ rdpQueue'[n].syncAt = SpanEnd
                 \/ n = Len(rdpQueue) /\ rdpQueue[n].sync /\ rdpQueue'[n].syncAt = rdpQueue[n].syncAt
  BY SpanQueued
<1> HIDE DEF sync
<1>4. UNCHANGED <<worker, rdpWaiting, now, rspNow, gen>>
  BY DEF workVars, cpuVars, envVars
<1>5. SpanEnd \in Nat /\ SpanEnd > sched.end /\ sched.end \in Nat
  BY SpanIsLater DEF FifoInv, SchedKept
<1>6. Len(rdpQueue) \in Nat /\ rdpQueue \in Seq(Jobs)
  BY LenProperties DEF FifoInv, QueueTyped
<1>7. \A k \in 1 .. n - 1 : k \in 1 .. Len(rdpQueue)
  BY <1>3, <1>6
<1>8. QueueTyped'
  BY <1>2, <1>4 DEF FifoInv, QueueTyped
<1>9. ClocksTyped'
  BY <1>1, <1>4 DEF FifoInv, ClocksTyped
<1>10. JobsFiled'
  <2>1. \A k \in 1 .. Len(rdpQueue) : rdpQueue[k].sync => rdpQueue[k].syncAt \in Dates(sched'.syncEnds)
    BY <1>1 DEF FifoInv, JobsFiled, Filed
  <2>2. worker.job.sync => worker.job.syncAt \in Dates(sched'.syncEnds)
    BY <1>1 DEF FifoInv, JobsFiled, Filed
  <2>3. ASSUME NEW k \in 1 .. n, rdpQueue'[k].sync PROVE rdpQueue'[k].syncAt \in Dates(sched'.syncEnds)
    <3>1. CASE k = n
      BY <3>1, <2>3, <2>1, <1>1, <1>3
    <3>2. CASE k # n
      <4>1. k \in 1 .. n - 1
        BY <3>2, <1>3
      <4> QED BY <4>1, <2>3, <2>1, <1>3, <1>7
    <3> QED BY <3>1, <3>2
  <2> QED BY <2>2, <2>3, <1>3, <1>4 DEF JobsFiled, Filed
<1>11. JobsInOrder'
  <2>1. \A k \in 1 .. Len(rdpQueue) : rdpQueue[k].syncAt \in Nat
    <3>1. \A k \in 1 .. Len(rdpQueue) : rdpQueue[k] \in Jobs
      BY <1>6, ElementOfSeq
    <3> QED BY <3>1 DEF Jobs
  <2>2. worker.job.syncAt \in Nat
    BY DEF FifoInv, QueueTyped, WorkerStates, Jobs
  <2>3. \A k \in 1 .. n - 1 : rdpQueue'[k].syncAt = rdpQueue[k].syncAt
    BY <1>3
  <2>4. worker.job.syncAt <= SpanEnd
    BY <2>2, <1>5 DEF FifoInv, JobsInOrder
  <2>5. worker.job.syncAt < rdpQueue'[n].syncAt /\ rdpQueue'[n].syncAt <= SpanEnd
    BY <2>1, <2>2, <1>3, <1>5 DEF FifoInv, JobsInOrder
  <2>6. ASSUME NEW k \in 1 .. n - 1
        PROVE  /\ worker.job.syncAt < rdpQueue'[k].syncAt /\ rdpQueue'[k].syncAt <= SpanEnd
               /\ rdpQueue'[k].syncAt < rdpQueue'[n].syncAt
    <3>1. k \in 1 .. Len(rdpQueue) /\ rdpQueue'[k].syncAt = rdpQueue[k].syncAt
      BY <2>3, <1>7
    <3>2. /\ worker.job.syncAt < rdpQueue[k].syncAt /\ rdpQueue[k].syncAt <= sched.end
          /\ n = Len(rdpQueue) => rdpQueue[k].syncAt < rdpQueue[n].syncAt
      BY <3>1, <1>3 DEF FifoInv, JobsInOrder
    <3>3. rdpQueue[k].syncAt \in Nat
      BY <3>1, <2>1
    <3> QED BY <3>1, <3>2, <3>3, <1>3, <1>5
  <2>7. ASSUME NEW k \in 1 .. n - 1, NEW l \in 1 .. n - 1, k < l
        PROVE  rdpQueue'[k].syncAt < rdpQueue'[l].syncAt
    BY <2>7, <2>3, <1>7 DEF FifoInv, JobsInOrder
  <2>8. \A k \in 1 .. n : k = n \/ k \in 1 .. n - 1
    OBVIOUS
  <2>9. \A k \in 1 .. n : worker.job.syncAt < rdpQueue'[k].syncAt /\ rdpQueue'[k].syncAt <= SpanEnd
    <3> TAKE k \in 1 .. n
    <3>1. CASE k = n
      BY <3>1, <2>5
    <3>2. CASE k \in 1 .. n - 1
      BY <3>2, <2>6
    <3> QED BY <3>1, <3>2, <2>8
  <2>10. ASSUME NEW k \in 1 .. n, NEW l \in 1 .. n, k < l PROVE rdpQueue'[k].syncAt < rdpQueue'[l].syncAt
    <3>1. k \in 1 .. n - 1
      BY <2>10
    <3> QED BY <3>1, <2>6, <2>7, <2>8, <2>10
  <2> QED BY <2>4, <2>9, <2>10, <1>1, <1>3, <1>4 DEF JobsInOrder
<1>12. BarrierStands'
  BY <1>2, <1>4 DEF FifoInv, BarrierStands
<1>13. SleepKept'
  BY <1>4 DEF FifoInv, SleepKept, rdpSubmit
<1> QED BY <1>1, <1>8, <1>9, <1>10, <1>11, <1>12, <1>13 DEF FifoInv

\* Time passes: what is to be painted keeps its dates.
LEMMA AdvanceKeeps ==
  ASSUME FifoInv, NEW d \in DpcStates, dpcAdvance(d), prodPc # "notify",
         UNCHANGED <<workVars, cpuVars, envVars, gen>>
  PROVE  FifoInv'
<1>1. CASE d.frozen /\ dpc' = d /\ prodPc' = "guest" /\ UNCHANGED kickVars
  <2>1. UNCHANGED <<worker, rdpWaiting, now, rspNow, gen, sched, kicks, rdpQueue, dpPend>>
    BY <1>1 DEF workVars, cpuVars, envVars, kickVars
  <2>2. QueueTyped' /\ ClocksTyped' /\ SchedKept' /\ JobsFiled' /\ JobsInOrder' /\ BarrierStands'
    BY <2>1, <1>1 DEF FifoInv, QueueTyped, ClocksTyped, SchedKept, JobsFiled, JobsInOrder, BarrierStands
  <2>3. SleepKept'
    BY <2>1 DEF FifoInv, SleepKept
  <2> QED BY <2>2, <2>3 DEF FifoInv
<1>2. CASE kicks < MaxKicks /\ dpc' = [d EXCEPT !.submitted = d.end] /\ rdpSubmit(d.submitted, d.end)
  <2>1. d.submitted \in Nat /\ d.end \in Nat /\ dpc' \in DpcStates
    BY <1>2 DEF DpcStates
  <2> QED BY <2>1, <1>2, SubmitKeeps
<1> QED BY <1>1, <1>2 DEF dpcAdvance

\* A step that leaves the queue, the worker and the schedule alone.
LEMMA QuietKeeps ==
  ASSUME FifoInv, UNCHANGED <<workVars, sched, kicks, rdpQueue, dpPend>>,
         dpc' \in DpcStates, gen' \in Nat, now' \in 0 .. MaxTime, rspNow' \in 0 .. MaxTime,
         prodPc = "notify" => prodPc' = "notify"
  PROVE  FifoInv'
<1>1. UNCHANGED <<worker, rdpWaiting>>
  BY DEF workVars
<1>2. QueueTyped' /\ ClocksTyped' /\ SchedKept' /\ JobsFiled' /\ JobsInOrder' /\ BarrierStands'
  BY <1>1 DEF FifoInv, QueueTyped, ClocksTyped, SchedKept, JobsFiled, JobsInOrder, BarrierStands
<1>3. SleepKept'
  BY <1>1 DEF FifoInv, SleepKept
<1> QED BY <1>2, <1>3 DEF FifoInv

\* The worker takes a job: the head of the queue, dated before the others.
LEMMA TakeKeeps == ASSUME FifoInv, workerTake PROVE FifoInv'
<1>1. UNCHANGED <<dpc, prodPc, gen, now, rspNow, kicks, sched, dpPend>>
  BY DEF workerTake, prodVars, cpuVars, envVars
<1>2. ClocksTyped' /\ SchedKept'
  BY <1>1 DEF FifoInv, ClocksTyped, SchedKept
<1>3. worker \in WorkerStates /\ rdpQueue \in Seq(Jobs)
  BY DEF FifoInv, QueueTyped
<1>4. CASE rdpQueue = <<>> /\ rdpWaiting' = TRUE /\ worker' = [worker EXCEPT !.pc = "asleep"] /\ UNCHANGED rdpQueue
  <2>1. worker' \in WorkerStates /\ worker'.pc = "asleep" /\ worker'.job = worker.job
    BY <1>3, <1>4 DEF WorkerStates
  <2>2. worker.job = NoJob
    BY DEF FifoInv, BarrierStands, workerTake
  <2>3. QueueTyped' /\ BarrierStands' /\ SleepKept'
    BY <2>1, <2>2, <1>1, <1>3, <1>4 DEF FifoInv, QueueTyped, BarrierStands, SleepKept
  <2>4. JobsFiled' /\ JobsInOrder'
    BY <2>1, <1>1, <1>4 DEF FifoInv, JobsFiled, JobsInOrder
  <2> QED BY <2>3, <2>4, <1>2 DEF FifoInv
<1>5. CASE rdpQueue # <<>> /\ ~(rdpQueue = <<>> /\ UNCHANGED rdpQueue)
  <2> DEFINE j == Head(rdpQueue)
             from == IF worker.hasResume /\ j.cur = worker.lastEnd THEN worker.resume ELSE j.cur
             n == Len(rdpQueue)
  <2>1. /\ rdpQueue' = Tail(rdpQueue)
        /\ worker' = [pc |-> "run", job |-> j, pos |-> from, hasResume |-> FALSE,
                      resume |-> 0, lastEnd |-> j.end]
    BY <1>5 DEF workerTake
  <2>2. /\ j \in Jobs /\ j = rdpQueue[1] /\ n \in Nat /\ n > 0
        /\ Tail(rdpQueue) \in Seq(Jobs) /\ Len(Tail(rdpQueue)) = n - 1
        /\ \A k \in 1 .. n - 1 : Tail(rdpQueue)[k] = rdpQueue[k + 1]
    BY <1>3, <1>5, HeadTailProperties, EmptySeq, LenProperties
  <2> HIDE DEF j
  <2>3. from \in Nat /\ j.end \in Nat /\ j.syncAt \in Nat
    BY <2>2, <1>3 DEF Jobs, WorkerStates
  <2> HIDE DEF from
  <2>4. worker' \in WorkerStates /\ worker'.pc = "run" /\ worker'.job = j
    BY <2>1, <2>2, <2>3 DEF WorkerStates
  <2>5. dpPend = TRUE
    BY <1>5 DEF FifoInv, BarrierStands
  <2>6. QueueTyped' /\ BarrierStands' /\ SleepKept'
    BY <2>1, <2>2, <2>4, <2>5, <1>1 DEF QueueTyped, BarrierStands, SleepKept
  <2>7. \A k \in 1 .. n - 1 : rdpQueue'[k] = rdpQueue[k + 1] /\ k + 1 \in 1 .. n /\ 1 < k + 1
    BY <2>1, <2>2
  <2>8. Len(rdpQueue') = n - 1 /\ 1 \in 1 .. n
    BY <2>1, <2>2
  <2>9. JobsFiled'
    <3>1. \A k \in 1 .. n - 1 : Filed(rdpQueue'[k], sched.syncEnds)
      BY <2>7 DEF FifoInv, JobsFiled
    <3>2. Filed(j, sched.syncEnds)
      BY <2>2, <2>8 DEF FifoInv, JobsFiled
    <3> QED BY <3>1, <3>2, <2>4, <2>8, <1>1 DEF JobsFiled
  <2>10. JobsInOrder'
    <3>1. j.syncAt <= sched.end
      BY <2>2, <2>8 DEF FifoInv, JobsInOrder
    <3>2. \A k \in 1 .. n - 1 : j.syncAt < rdpQueue'[k].syncAt /\ rdpQueue'[k].syncAt <= sched.end
      BY <2>2, <2>7, <2>8 DEF FifoInv, JobsInOrder
    <3>3. ASSUME NEW k \in 1 .. n - 1, NEW l \in 1 .. n - 1, k < l PROVE rdpQueue'[k].syncAt < rdpQueue'[l].syncAt
      <4>1. k + 1 < l + 1
        BY <3>3, <2>2
      <4> QED BY <4>1, <2>7 DEF FifoInv, JobsInOrder
    <3> QED BY <3>1, <3>2, <3>3, <2>4, <2>8, <1>1 DEF JobsInOrder
  <2> QED BY <2>6, <2>9, <2>10, <1>2 DEF FifoInv
<1> QED BY <1>4, <1>5 DEF workerTake

\* One command, or the end of the span.
LEMMA RunKeeps == ASSUME FifoInv, rdpRunJob PROVE FifoInv'
<1>1. UNCHANGED <<dpc, prodPc, gen, now, rspNow, kicks, sched, dpPend, rdpQueue, rdpWaiting>>
  BY DEF rdpRunJob, prodVars, cpuVars, envVars
<1>2. ClocksTyped' /\ SchedKept'
  BY <1>1 DEF FifoInv, ClocksTyped, SchedKept
<1>3. worker \in WorkerStates
  BY DEF FifoInv, QueueTyped
<1>4. \A w : CmdLen(w) \in Nat
  BY DEF CmdLen
<1>5. worker' \in WorkerStates /\ worker'.pc \in {"run", "done"} /\ worker'.job = worker.job
  <2> DEFINE n == CmdLen(rdpShadow[worker.job.gen][worker.pos])
  <2>1. n \in Nat
    BY <1>4
  <2> HIDE DEF n
  <2>2. CASE worker' = [worker EXCEPT !.pos = @ + n]
    BY <2>1, <2>2, <1>3 DEF WorkerStates, rdpRunJob
  <2>3. CASE worker' = [worker EXCEPT !.pc = "done", !.hasResume = TRUE, !.resume = worker.pos]
    BY <2>3, <1>3 DEF WorkerStates
  <2>4. CASE worker' = [worker EXCEPT !.pc = "done"]
    BY <2>4, <1>3 DEF WorkerStates
  <2> QED BY <2>2, <2>3, <2>4 DEF rdpRunJob, n
<1>6. worker.pc = "run"
  BY DEF rdpRunJob
<1>7. QueueTyped' /\ BarrierStands' /\ SleepKept'
  BY <1>1, <1>5, <1>6 DEF FifoInv, QueueTyped, BarrierStands, SleepKept
<1>8. JobsFiled' /\ JobsInOrder'
  BY <1>1, <1>5 DEF FifoInv, JobsFiled, JobsInOrder
<1> QED BY <1>2, <1>7, <1>8 DEF FifoInv

\* A job is retired: its dates leave, those of the jobs behind it stay.
LEMMA RetireKeeps == ASSUME FifoInv, workerRetire PROVE FifoInv'
<1> DEFINE ends == IF rdpQueue = <<>> THEN <<>> ELSE SyncsAfter(sched.syncEnds, worker.job)
<1>1. /\ UNCHANGED <<dpc, prodPc, gen, now, rspNow, kicks, rdpQueue, rdpWaiting>>
      /\ dpPend' = (rdpQueue # <<>>)
      /\ worker' = [worker EXCEPT !.pc = "spin", !.job = NoJob, !.pos = 0]
      /\ sched' = [sched EXCEPT !.syncEnds = ends]
  BY DEF workerRetire, prodVars, envVars
<1>2. worker \in WorkerStates /\ worker.job \in Jobs /\ worker.job.syncAt \in Nat
  BY DEF FifoInv, QueueTyped, WorkerStates, Jobs
<1>3. NoJob \in Jobs /\ NoJob.sync = FALSE /\ NoJob.syncAt = 0
  BY DEF NoJob, Jobs
<1>4. worker' \in WorkerStates /\ worker'.pc = "spin" /\ worker'.job = NoJob
  BY <1>1, <1>2, <1>3 DEF WorkerStates
<1>5. /\ sched.end \in Nat /\ DatesRise(sched.syncEnds, sched.end)
      /\ sched = [end |-> sched.end, syncEnds |-> sched.syncEnds, half |-> sched.half]
  BY DEF FifoInv, SchedKept
<1>6. /\ DatesRise(SyncsAfter(sched.syncEnds, worker.job), sched.end)
      /\ \A x \in Dates(sched.syncEnds) : x > worker.job.syncAt => x \in Dates(SyncsAfter(sched.syncEnds, worker.job))
  BY <1>2, <1>5, SyncsAfterKeeps
<1>7. DatesRise(<<>>, sched.end)
  BY DEF DatesRise
<1>8. /\ DatesRise(ends, sched.end)
      /\ rdpQueue # <<>> => \A x \in Dates(sched.syncEnds) : x > worker.job.syncAt => x \in Dates(ends)
  BY <1>6, <1>7
<1> HIDE DEF ends
<1>9. /\ sched'.end = sched.end /\ sched'.syncEnds = ends
      /\ sched' = [end |-> sched'.end, syncEnds |-> sched'.syncEnds, half |-> sched'.half]
  BY <1>1, <1>5
<1>10. SchedKept' /\ ClocksTyped'
  BY <1>1, <1>8, <1>9 DEF FifoInv, SchedKept, ClocksTyped
<1>11. QueueTyped' /\ BarrierStands' /\ SleepKept'
  BY <1>1, <1>4 DEF FifoInv, QueueTyped, BarrierStands, SleepKept
<1>12. \A k \in 1 .. Len(rdpQueue) : worker.job.syncAt < rdpQueue[k].syncAt /\ rdpQueue[k].syncAt \in Nat
  <2>1. \A k \in 1 .. Len(rdpQueue) : rdpQueue[k] \in Jobs
    BY ElementOfSeq DEF FifoInv, QueueTyped
  <2> QED BY <2>1 DEF FifoInv, JobsInOrder, Jobs
<1>13. JobsFiled'
  <2>1. ASSUME NEW k \in 1 .. Len(rdpQueue) PROVE Filed(rdpQueue[k], ends)
    <3>1. rdpQueue # <<>>
      BY <2>1
    <3>2. rdpQueue[k].syncAt > worker.job.syncAt
      BY <1>12, <1>2
    <3> QED BY <3>1, <3>2, <1>8 DEF FifoInv, JobsFiled, Filed
  <2>2. Filed(NoJob, ends)
    BY <1>3 DEF Filed
  <2> QED BY <2>1, <2>2, <1>1, <1>4, <1>9 DEF JobsFiled
<1>14. JobsInOrder'
  <2>1. \A k \in 1 .. Len(rdpQueue) : NoJob.syncAt < rdpQueue[k].syncAt
    BY <1>12, <1>2, <1>3
  <2>2. NoJob.syncAt <= sched.end
    BY <1>3, <1>5
  <2> QED BY <2>1, <2>2, <1>1, <1>4, <1>9 DEF FifoInv, JobsInOrder
<1> QED BY <1>10, <1>11, <1>13, <1>14 DEF FifoInv

\* Every step of the FIFO keeps FifoInv.
LEMMA FifoStep == ASSUME FifoInv, [FifoNext]_fvars PROVE FifoInv'
<1> USE DEF prodVars, workVars, cpuVars, envVars, kickVars
<1>0. /\ dpc \in DpcStates /\ gen \in Nat /\ now \in 0 .. MaxTime /\ rspNow \in 0 .. MaxTime
      /\ MaxTime \in Nat /\ Gens \in Nat /\ Gens > 0 /\ MemWords \in Nat
  BY FifoConstants DEF FifoInv, ClocksTyped
<1>1. CASE DPC_START
  <2>1. dpc' \in DpcStates
    <3>1. PICK a \in Addr : dpc' = [dpc EXCEPT !.start = a, !.valid = TRUE]
      BY <1>1 DEF DPC_START
    <3>2. a \in Nat
      BY <1>0 DEF Addr
    <3> QED BY <3>1, <3>2, <1>0 DEF DpcStates
  <2> QED BY <2>1, <1>0, <1>1, QuietKeeps DEF DPC_START
<1>2. CASE DPC_END_more
  <2>1. PICK e \in dpc.end + 1 .. MemWords : dpcAdvance([dpc EXCEPT !.end = e])
    BY <1>2 DEF DPC_END_more
  <2>2. [dpc EXCEPT !.end = e] \in DpcStates
    <3>1. dpc.end \in Nat
      BY <1>0 DEF DpcStates
    <3>2. e \in Nat
      BY <1>0, <3>1
    <3> QED BY <1>0, <3>2 DEF DpcStates
  <2>3. prodPc # "notify"
    BY <1>2 DEF DPC_END_more, Producing
  <2> QED BY <2>1, <2>2, <2>3, <1>2, AdvanceKeeps DEF DPC_END_more
<1>3. CASE DPC_END_fresh
  <2>1. dpc' \in DpcStates
    BY <1>0, <1>3 DEF DPC_END_fresh, DpcStates
  <2>2. FreeGens \in SUBSET Nat /\ FreeGens # {}
    BY <1>0, <1>3 DEF DPC_END_fresh, FreeGens
  <2>3. gen' \in Nat
    BY <2>2, <1>3, LeastIsLeast DEF DPC_END_fresh
  <2> QED BY <2>1, <2>3, <1>0, <1>3, QuietKeeps DEF DPC_END_fresh, Producing
<1>4. CASE DPC_END_clash
  BY <1>0, <1>4, QuietKeeps DEF DPC_END_clash, Producing
<1>21. CASE DPC_END_drained
  <2>1. dpc' \in DpcStates
    BY <1>0, <1>21 DEF DPC_END_drained, DpcStates
  <2>2. gen' \in Nat
    <3>1. gen' = (gen + 1) % Gens
      BY <1>21 DEF DPC_END_drained
    <3> QED BY <3>1, <1>0
  <2> QED BY <2>1, <2>2, <1>0, <1>21, QuietKeeps DEF DPC_END_drained
<1>5. CASE DPC_END_reload
  <2>1. PICK e \in dpc.start + 1 .. MemWords : dpcAdvance([dpc EXCEPT !.end = e])
    BY <1>5 DEF DPC_END_reload
  <2>2. [dpc EXCEPT !.end = e] \in DpcStates
    <3>1. dpc.start \in Nat
      BY <1>0 DEF DpcStates
    <3>2. e \in Nat
      BY <1>0, <3>1
    <3> QED BY <1>0, <3>2 DEF DpcStates
  <2>3. prodPc # "notify"
    BY <1>5 DEF DPC_END_reload
  <2> QED BY <2>1, <2>2, <2>3, <1>5, AdvanceKeeps DEF DPC_END_reload
<1>6. CASE DPC_STATUS_freeze
  <2>1. dpc' \in DpcStates
    BY <1>0, <1>6 DEF DPC_STATUS_freeze, DpcStates
  <2> QED BY <2>1, <1>0, <1>6, QuietKeeps DEF DPC_STATUS_freeze
<1>7. CASE DPC_STATUS_unfreeze
  <2>1. [dpc EXCEPT !.frozen = FALSE] \in DpcStates
    BY <1>0 DEF DpcStates
  <2>2. prodPc # "notify"
    BY <1>7 DEF DPC_STATUS_unfreeze, Producing
  <2>3. CASE dpcAdvance([dpc EXCEPT !.frozen = FALSE])
    BY <2>1, <2>2, <2>3, <1>7, AdvanceKeeps DEF DPC_STATUS_unfreeze
  <2>4. CASE dpc' = [dpc EXCEPT !.frozen = FALSE] /\ UNCHANGED <<kickVars, prodPc>>
    BY <2>1, <2>4, <1>0, <1>7, QuietKeeps DEF DPC_STATUS_unfreeze
  <2> QED BY <2>3, <2>4, <1>7 DEF DPC_STATUS_unfreeze
<1>8. CASE Poke
  BY <1>0, <1>8, QuietKeeps DEF Poke
<1>9. CASE notifyAll
  <2>1. UNCHANGED <<dpc, gen, now, rspNow, kicks, sched, dpPend, rdpQueue, rdpWaiting>>
    BY <1>9 DEF notifyAll
  <2>2. worker \in WorkerStates
    BY DEF FifoInv, QueueTyped
  <2>3. /\ worker' \in WorkerStates /\ worker'.job = worker.job /\ worker'.pc # "asleep"
        /\ worker'.pc \in {"run", "done"} <=> worker.pc \in {"run", "done"}
    <3>1. worker' = IF worker.pc = "asleep" THEN [worker EXCEPT !.pc = "lock"] ELSE worker
      BY <1>9 DEF notifyAll, Woken
    <3>2. CASE worker.pc = "asleep"
      BY <3>1, <3>2, <2>2 DEF WorkerStates
    <3>3. CASE worker.pc # "asleep"
      BY <3>1, <3>3, <2>2 DEF WorkerStates
    <3> QED BY <3>2, <3>3
  <2>4. QueueTyped' /\ ClocksTyped' /\ SchedKept' /\ BarrierStands' /\ SleepKept'
    BY <2>1, <2>3 DEF FifoInv, QueueTyped, ClocksTyped, SchedKept, BarrierStands, SleepKept
  <2>5. JobsFiled' /\ JobsInOrder'
    BY <2>1, <2>3 DEF FifoInv, JobsFiled, JobsInOrder
  <2> QED BY <2>4, <2>5 DEF FifoInv
<1>10. CASE workerTake
  BY <1>10, TakeKeeps
<1>11. CASE rdpRunJob
  BY <1>11, RunKeeps
<1>12. CASE workerRetire
  BY <1>12, RetireKeeps
<1>13. CASE Tick
  <2>1. now' \in 0 .. MaxTime
    BY <1>0, <1>13 DEF Tick
  <2> QED BY <2>1, <1>0, <1>13, QuietKeeps DEF Tick
<1>14. CASE RspTick
  <2>1. rspNow' \in 0 .. MaxTime
    BY <1>0, <1>14 DEF RspTick
  <2> QED BY <2>1, <1>0, <1>14, QuietKeeps DEF RspTick
<1>15. CASE retireLog
  BY <1>0, <1>15, QuietKeeps DEF retireLog
<1>16. CASE dpBarrierWait
  BY <1>0, <1>16, QuietKeeps DEF dpBarrierWait
<1>17. CASE dpBarrierWaive
  BY <1>0, <1>17, QuietKeeps DEF dpBarrierWaive
<1>18. CASE AckDp
  BY <1>0, <1>18, QuietKeeps DEF AckDp
<1>19. CASE rdpDrain
  BY <1>0, <1>19, QuietKeeps DEF rdpDrain
<1>20. CASE UNCHANGED fvars
  BY <1>0, <1>20, QuietKeeps DEF fvars
<1> QED
  BY <1>1, <1>2, <1>3, <1>4, <1>5, <1>6, <1>7, <1>8, <1>9, <1>10, <1>11, <1>12, <1>13, <1>14, <1>15,
     <1>16, <1>17, <1>18, <1>19, <1>20, <1>21 DEF FifoNext

\* FifoInv holds of every behaviour of the FIFO.
LEMMA FifoInvariant == FifoSpec => []FifoInv
<1>1. FifoInv /\ [FifoNext]_fvars => FifoInv'
  BY FifoStep
<1> QED BY <1>1, FifoInitial, PTL DEF FifoSpec

\* Past the barrier, nothing whose date has come is left to paint.
LEMMA BarrierMeansPainted ==
  ASSUME FifoInv, ~dpHeld, waivedAt = Never
  PROVE  /\ \A i \in 1 .. Len(rdpQueue) : ~(rdpQueue[i].sync /\ rdpQueue[i].syncAt <= now)
         /\ ~(worker.job.sync /\ worker.job.syncAt <= now)
<1> DEFINE q == sched.syncEnds
<1>1. /\ DatesRise(q, sched.end) /\ sched.end \in Nat /\ now \in Nat
      /\ sched.end < Never
  BY FifoConstants DEF FifoInv, SchedKept, ClocksTyped, Never
<1>2. CASE ~dpPend
  <2>1. rdpQueue = <<>> /\ worker.job = NoJob
    BY <1>2 DEF FifoInv, BarrierStands
  <2> QED BY <2>1 DEF NoJob
<1>3. CASE dpPend
  <2>1. now < dpBarrierAt \/ dpBarrierAt = Never
    <3>1. ~(now >= dpBarrierAt) \/ dpBarrierAt = Never
      BY <1>3 DEF dpHeld
    <3>2. CASE q = <<>>
      BY <3>2 DEF dpBarrierAt
    <3>3. CASE q # <<>>
      <4>1. dpBarrierAt \in Nat
        BY <3>3, <1>1, HeadTailProperties DEF dpBarrierAt, DatesRise
      <4> QED BY <4>1, <3>1, <1>1
    <3> QED BY <3>2, <3>3
  <2>2. \A x \in Dates(q) : x > now
    <3> SUFFICES ASSUME NEW i \in 1 .. Len(q) PROVE q[i] > now
      BY DEF Dates
    <3>1. q # <<>> /\ Len(q) \in Nat /\ 1 \in 1 .. Len(q) /\ q \in Seq(Nat)
      BY <1>1, LenProperties, EmptySeq DEF DatesRise
    <3>2. dpBarrierAt = q[1]
      BY <3>1, HeadTailProperties DEF dpBarrierAt
    <3>3. q[1] \in Nat /\ q[i] \in Nat /\ q[1] <= sched.end
      BY <3>1, <1>1, ElementOfSeq DEF DatesRise
    <3>4. q[1] <= q[i]
      BY <3>1, <3>3, <1>1 DEF DatesRise
    <3>5. q[1] # Never
      BY <3>3, <1>1
    <3> QED BY <2>1, <3>2, <3>3, <3>4, <3>5, <1>1
  <2>3. \A i \in 1 .. Len(rdpQueue) : rdpQueue[i].sync => rdpQueue[i].syncAt > now
    BY <2>2 DEF FifoInv, JobsFiled, Filed
  <2>4. worker.job.sync => worker.job.syncAt > now
    BY <2>2 DEF FifoInv, JobsFiled, Filed
  <2>5. worker.job.syncAt \in Nat /\ \A i \in 1 .. Len(rdpQueue) : rdpQueue[i].syncAt \in Nat
    <3>1. \A k \in 1 .. Len(rdpQueue) : rdpQueue[k] \in Jobs
      BY ElementOfSeq DEF FifoInv, QueueTyped
    <3> QED BY <3>1 DEF FifoInv, QueueTyped, WorkerStates, Jobs
  <2> QED BY <2>3, <2>4, <2>5, <1>1
<1>4. dpPend \in BOOLEAN
  BY DEF FifoInv, BarrierStands
<1> QED BY <1>2, <1>3, <1>4

\* The guest is told of a frame only once it is painted (dpBarrierWait before the deadline of
\* MI_DP in rcpRetire), for any memory, number of generations, spans and clock.
THEOREM PixelsComeFirst == FifoSpec => PixelsFirst
<1> DEFINE Told ==
      ~miDp /\ miDp' =>
        \/ waivedAt # Never
        \/ /\ \A i \in 1 .. Len(rdpQueue) : ~(rdpQueue[i].sync /\ rdpQueue[i].syncAt <= now)
           /\ ~(worker.job.sync /\ worker.job.syncAt <= now)
<1>1. ASSUME FifoInv, FifoNext PROVE Told
  <2> SUFFICES ASSUME ~miDp, miDp', waivedAt = Never
               PROVE  /\ \A i \in 1 .. Len(rdpQueue) : ~(rdpQueue[i].sync /\ rdpQueue[i].syncAt <= now)
                      /\ ~(worker.job.sync /\ worker.job.syncAt <= now)
    OBVIOUS
  <2>1. ~UNCHANGED miDp
    OBVIOUS
  <2>2. dpBarrierWait
    <3> USE DEF cpuVars
    <3>1. DPC_START \/ DPC_END_more \/ DPC_END_fresh \/ DPC_END_clash \/ DPC_END_drained \/ DPC_END_reload
            => UNCHANGED miDp
      BY DEF DPC_START, DPC_END_more, DPC_END_fresh, DPC_END_clash, DPC_END_drained, DPC_END_reload
    <3>5. DPC_STATUS_freeze \/ DPC_STATUS_unfreeze \/ Poke => UNCHANGED miDp
      BY DEF DPC_STATUS_freeze, DPC_STATUS_unfreeze, Poke
    <3>2. notifyAll \/ workerTake \/ rdpRunJob \/ workerRetire => UNCHANGED miDp
      BY DEF notifyAll, workerTake, rdpRunJob, workerRetire
    <3>3. Tick \/ RspTick \/ retireLog \/ dpBarrierWaive \/ rdpDrain => UNCHANGED miDp
      BY DEF Tick, RspTick, retireLog, dpBarrierWaive, rdpDrain
    <3>4. AckDp => miDp
      BY DEF AckDp
    <3> QED BY <3>1, <3>2, <3>3, <3>4, <3>5, <2>1, <1>1 DEF FifoNext
  <2>3. ~dpHeld
    BY <2>2 DEF dpBarrierWait
  <2> QED BY <2>3, <1>1, BarrierMeansPainted
<1>2. FifoInv /\ [FifoNext]_fvars => [Told]_fvars
  BY <1>1
<1> HIDE DEF Told
<1>3. FifoSpec => [][Told]_fvars
  BY <1>2, FifoInvariant, PTL DEF FifoSpec
<1> QED BY <1>3 DEF PixelsFirst, Told

\* A worker that sleeps on rdpCv with work queued has a notification on its way (rdpSubmit reads
\* rdpWaiting with the mutex held), for any number of spans.
THEOREM WorkerIsWoken == FifoSpec => []NoLostWakeup
<1>1. FifoInv => NoLostWakeup
  BY DEF FifoInv, SleepKept, NoLostWakeup
<1> QED BY <1>1, FifoInvariant, PTL

(***************************************************************************)
(* The journal of the RSP and the mailbox of the CPU.                      *)
(***************************************************************************)

JournalSpec == JournalInit /\ [][JournalNext]_jvars

LogEntries == [at : Nat, kind : {"dma", "view"}, v : Nat]
Writes == [at : Nat, v : Nat, rsp : BOOLEAN]
DpcWrites == [at : Nat, v : Nat]
Mails == [eff : Nat, v : Nat]

\* Clocks, registers, reads, journal and histories, typed.
ScalarsTyped ==
  /\ jc \in Nat /\ jr \in Nat /\ jlead \in Nat
  /\ jpc \in {"retire", "exec", "copy", "view"} /\ jrpc \in {"run", "live", "push", "stopped"}
  /\ ram \in Nat /\ dpcLive \in Nat /\ cpuDpcView \in Nat /\ writing \in Nat
  /\ posted \in Nat /\ mailDone \in Nat /\ direct \in BOOLEAN
CountsTyped == wr \in [cpu : Nat, rsp : Nat]
ReadsTyped == cread \in [kind : {"ram", "dpc", "copy"}, at : Nat, v : Nat] /\ rread \in [at : Nat, v : Nat]
SeqsTyped ==
  /\ log \in Seq(LogEntries) /\ mail \in Seq(Mails)
  /\ ramHist \in Seq(Writes) /\ dpcHist \in Seq(DpcWrites)
JournalTyped == ScalarsTyped /\ CountsTyped /\ ReadsTyped /\ SeqsTyped

\* The mailbox holds the writes not yet applied, oldest first.
MailKept ==
  ~direct => /\ posted = mailDone + Len(mail)
             /\ \A k \in 1 .. Len(mail) : mail[k].v = mailDone + k

\* The journal is in the order of the RSP's clock.
Rising(lg) == \A k, l \in 1 .. Len(lg) : k < l => lg[k].at < lg[l].at
LogInOrder == Rising(log) /\ \A k \in 1 .. Len(log) : log[k].at < jr

\* Without a lead the CPU is behind the RSP, and what is filed is in its future.
CpuBehind ==
  jlead = 0 =>
    /\ RspDone \/ (IF jpc = "retire" THEN jc <= jr ELSE jc < jr)
    /\ \A k \in 1 .. Len(log) : IF jpc = "retire" THEN log[k].at >= jc ELSE log[k].at > jc

\* In guest order, a comes before b.
Before(a, b) == a.at < b.at \/ (a.at = b.at /\ ~a.rsp)

\* v is what the last of the writes ks of a history left.
LastIn(h, ks, v) ==
  \/ ks = {} /\ v = 0
  \/ \E k \in ks : v = h[k].v /\ \A j \in ks \ {k} : Before(h[j], h[k])

UpTo(h, t) == {k \in 1 .. Len(h) : h[k].at <= t}

\* Dates of the writes to RDRAM filed and not applied; the writes applied.
LogDates(lg, kind) == {lg[l].at : l \in {n \in 1 .. Len(lg) : lg[n].kind = kind}}
AppliedOf(h, dates) == {k \in 1 .. Len(h) : ~(h[k].rsp /\ h[k].at \in dates)}
Applied == AppliedOf(ramHist, LogDates(log, "dma"))

\* RDRAM holds the last of the writes applied; none of them is in the CPU's future.
RamIsNewest == LastIn(ramHist, Applied, ram)
AppliedPast == \A k \in Applied : ramHist[k].at <= jc

\* The dates of the writes: none of the RSP is in its future, none of the CPU is ahead of it.
RamDated ==
  /\ \A k \in 1 .. Len(ramHist) :
       IF ramHist[k].rsp THEN ramHist[k].at < jr ELSE RspDone \/ ramHist[k].at <= jr
  /\ \A k, l \in 1 .. Len(ramHist) : k # l /\ ramHist[k].rsp = ramHist[l].rsp => ramHist[k].at # ramHist[l].at

\* A DMA that is filed comes after all that is applied.
DmaFiled ==
  \A l \in 1 .. Len(log) : log[l].kind = "dma" =>
    /\ \E k \in 1 .. Len(ramHist) : ramHist[k] = [at |-> log[l].at, v |-> log[l].v, rsp |-> TRUE]
    /\ \A k \in Applied : Before(ramHist[k], log[l])

RamKept == RamIsNewest /\ AppliedPast /\ RamDated /\ DmaFiled

RamReads ==
  /\ LastIn(ramHist, UpTo(ramHist, rread.at), rread.v) /\ rread.at < jr /\ rread.at <= jc
  /\ cread.at <= jc
  /\ jlead = 0 => RspDone \/ cread.at < jr
  /\ jlead = 0 /\ cread.kind = "ram" => LastIn(ramHist, UpTo(ramHist, cread.at), cread.v)

\* The same for the register, where a later write is further on.
LastD(h, ks, v) ==
  \/ ks = {} /\ v = 0
  \/ \E k \in ks : v = h[k].v /\ \A j \in ks : j <= k

\* Dates of the writes the CPU does not see yet: filed, or about to be.
Unseen == LogDates(log, "view") \cup IF jrpc = "push" THEN {jr} ELSE {}
AppliedD == {k \in 1 .. Len(dpcHist) : dpcHist[k].at \notin Unseen}

DpcRises ==
  /\ \A k, l \in 1 .. Len(dpcHist) : k < l => dpcHist[k].at <= dpcHist[l].at
  /\ \A k, l \in 1 .. Len(dpcHist) : k < l /\ dpcHist[l].at \in Unseen => dpcHist[k].at < dpcHist[l].at

\* The register holds the last write and the CPU's view the last of those it may see.
DpcIsNewest == LastD(dpcHist, 1 .. Len(dpcHist), dpcLive) /\ LastD(dpcHist, AppliedD, cpuDpcView)
SeenPast ==
  /\ \A k \in AppliedD : dpcHist[k].at <= jc
  /\ \A k \in AppliedD, t \in Unseen : dpcHist[k].at < t
ViewFiled ==
  \A l \in 1 .. Len(log) : log[l].kind = "view" =>
    \E k \in 1 .. Len(dpcHist) : dpcHist[k] = [at |-> log[l].at, v |-> log[l].v]
DpcDated ==
  /\ jrpc \in {"run", "live"} => \A k \in 1 .. Len(dpcHist) : dpcHist[k].at < jr
  /\ jrpc = "push" => /\ Len(dpcHist) > 0 /\ dpcHist[Len(dpcHist)].at = jr
                      /\ \A k \in 1 .. Len(dpcHist) : k # Len(dpcHist) => dpcHist[k].at < jr

ViewsKept == DpcRises /\ DpcIsNewest /\ SeenPast /\ ViewFiled /\ DpcDated

\* A read in its second half copied the present, unless a view has come up since.
ViewReads ==
  /\ jpc = "view" => cread.at = jc /\ (viewPend = 0 => cread.v = dpcLive)
  /\ cread.kind = "dpc" => cread.at < jc /\ LastD(dpcHist, UpTo(dpcHist, cread.at), cread.v)

DpcKept == ~direct /\ jlead = 0 => ViewsKept /\ ViewReads

ViewsCounted == viewPend = Cardinality(LogDates(log, "view")) + IF jrpc \in {"live", "push"} THEN 1 ELSE 0

JournalInv ==
  /\ JournalTyped /\ MailKept /\ LogInOrder /\ CpuBehind /\ ViewsCounted
  /\ RamKept /\ RamReads /\ DpcKept

----------------------------------------------------------------------------
\* The sizes and the bounds are numbers.
LEMMA JournalConstants ==
  /\ LogN \in Nat /\ MbN \in Nat /\ MbGrain \in Nat /\ MbGrain > 0 /\ MaxDate \in Nat /\ MaxWr \in Nat
  /\ JLeads \subseteq Nat
BY JournalAssumption

\* The edge of a grain is an instant of the clock.
LEMMA EdgeIsADate == ASSUME NEW t \in Nat, t > 0 PROVE Edge(t) \in Nat
<1> DEFINE q == (t + MbGrain - 1) \div MbGrain
<1>1. q \in Nat
  BY JournalConstants
<1> HIDE DEF q
<1>2. q * MbGrain \in Nat
  BY <1>1, JournalConstants
<1> QED BY <1>2 DEF Edge, q

\* JournalInv holds of the initial states.
LEMMA JournalInitial == JournalInit => JournalInv
<1> SUFFICES ASSUME JournalInit PROVE JournalInv
  OBVIOUS
<1> USE DEF JournalInit
<1>1. JournalTyped
  <2>1. ScalarsTyped
    BY JournalConstants DEF ScalarsTyped
  <2>2. CountsTyped /\ ReadsTyped
    BY DEF CountsTyped, ReadsTyped
  <2>3. SeqsTyped
    BY DEF SeqsTyped
  <2> QED BY <2>1, <2>2, <2>3 DEF JournalTyped
<1>2. MailKept /\ LogInOrder /\ CpuBehind
  BY DEF MailKept, LogInOrder, CpuBehind, RspDone, Rising
<1>3. LogDates(log, "view") = {} /\ LogDates(log, "dma") = {}
  BY DEF LogDates
<1>4. ViewsCounted
  <2>1. Cardinality({}) = 0
    BY FS_EmptySet
  <2>2. jrpc \notin {"live", "push"} /\ viewPend = 0
    OBVIOUS
  <2>3. Cardinality(LogDates(log, "view")) = 0
    BY <1>3, <2>1
  <2> QED BY <2>2, <2>3 DEF ViewsCounted
<1>5. RamKept
  BY DEF RamKept, LastIn, Applied, AppliedOf, RamIsNewest, AppliedPast, RamDated, DmaFiled
<1>6. RamReads
  BY DEF RamReads, LastIn, UpTo
<1>7. ViewsKept
  BY DEF ViewsKept, LastD, AppliedD, DpcRises, DpcIsNewest, SeenPast, ViewFiled, DpcDated
<1>8. ViewReads
  BY DEF ViewReads
<1> QED BY <1>1, <1>2, <1>4, <1>5, <1>6, <1>7, <1>8 DEF JournalInv, DpcKept

\* Clocks, registers and program counters keep their types.
LEMMA ScalarsStayTyped == ASSUME JournalTyped, [JournalNext]_jvars PROVE ScalarsTyped'
<1> USE DEF memVars, readVars, dpcVars, InstrDone, RspOn, ScalarsTyped
<1>0. ScalarsTyped
  BY DEF JournalTyped
<1>a. log # <<>> => Head(log).v \in Nat
  <2>1. log # <<>> => Head(log) \in LogEntries
    BY HeadTailProperties DEF JournalTyped, SeqsTyped
  <2> QED BY <2>1 DEF LogEntries
<1>b. mail # <<>> => Head(mail).v \in Nat
  <2>1. mail # <<>> => Head(mail) \in Mails
    BY HeadTailProperties DEF JournalTyped, SeqsTyped
  <2> QED BY <2>1 DEF Mails
<1>c. RspVal \in Nat /\ wr.cpu + 1 \in Nat
  BY DEF JournalTyped, CountsTyped, RspVal
<1>1. CASE journalRetire
  BY <1>0, <1>1, <1>a DEF journalRetire, logApplyOne, LogDue
<1>2. CASE dpcMbCpu
  BY <1>0, <1>2, <1>b DEF dpcMbCpu
<1>3. CASE journalOn
  BY <1>0, <1>3 DEF journalOn
<1>8. CASE journalInstr
  BY <1>0, <1>8 DEF journalInstr
<1>4. CASE cpuLoad
  BY <1>0, <1>4 DEF cpuLoad
<1>5. CASE cpuStore
  BY <1>0, <1>5, <1>c DEF cpuStore
<1>6. CASE cpuReadDpc
  BY <1>0, <1>6 DEF cpuReadDpc
<1>7. CASE cpuCopyDpc
  BY <1>0, <1>7 DEF cpuCopyDpc
<1>18. CASE cpuReadAgain
  BY <1>0, <1>18 DEF cpuReadAgain
<1>9. CASE cpuPostDpc
  BY <1>0, <1>9 DEF cpuPostDpc
<1>10. CASE cpuWriteDpc
  <2>1. direct' \in BOOLEAN
    BY <1>0, <1>10 DEF cpuWriteDpc
  <2>2. /\ posted' = posted + 1 /\ mailDone' = posted + 1 /\ dpcLive' = posted + 1 /\ cpuDpcView' = posted + 1
        /\ jpc' = "retire" /\ jc' = jc + 1 /\ UNCHANGED <<jr, jrpc, ram, writing, jlead>>
    BY <1>10 DEF cpuWriteDpc
  <2> QED BY <2>1, <2>2, <1>0
<1>11. CASE rspOther
  BY <1>0, <1>11 DEF rspOther
<1>12. CASE rspDmaWrite
  BY <1>0, <1>12 DEF rspDmaWrite
<1>13. CASE rspDmaRead
  BY <1>0, <1>13 DEF rspDmaRead
<1>14. CASE dpcMbRsp
  BY <1>0, <1>14, <1>b DEF dpcMbRsp, rspDpcBegin, NoMailDue
<1>15. CASE rspDpcWrite
  BY <1>0, <1>15, <1>c DEF rspDpcWrite, rspDpcBegin
<1>16. CASE rspDpcLive
  BY <1>0, <1>16 DEF rspDpcLive
<1>17. CASE rspDpcPush
  BY <1>0, <1>17 DEF rspDpcPush
<1>20. CASE rspStops
  BY <1>0, <1>20 DEF rspStops
<1>19. CASE UNCHANGED jvars
  BY <1>0, <1>19 DEF jvars
<1> QED
  BY <1>1, <1>2, <1>3, <1>4, <1>5, <1>6, <1>7, <1>8, <1>9, <1>10, <1>11, <1>12, <1>13, <1>14, <1>15,
     <1>16, <1>17, <1>18, <1>19, <1>20 DEF JournalNext

\* So do the counts of the writes,
LEMMA CountsStayTyped == ASSUME JournalTyped, [JournalNext]_jvars PROVE CountsTyped'
<1>0. wr \in [cpu : Nat, rsp : Nat] /\ wr.cpu \in Nat /\ wr.rsp \in Nat
  BY DEF JournalTyped, CountsTyped
<1>1. \/ UNCHANGED wr \/ wr' = [wr EXCEPT !.cpu = @ + 1] \/ wr' = [wr EXCEPT !.rsp = @ + 1]
  BY DEF JournalNext, jvars, journalRetire, logApplyOne, dpcMbCpu, journalOn, journalInstr, cpuLoad,
         cpuStore, cpuReadDpc, cpuCopyDpc, cpuReadAgain, cpuPostDpc, cpuWriteDpc, rspOther,
         rspDmaWrite, rspDmaRead, dpcMbRsp, rspDpcWrite, rspDpcLive, rspDpcPush, rspStops
<1>2. CASE wr' = [wr EXCEPT !.cpu = @ + 1]
  BY <1>0, <1>2 DEF CountsTyped
<1>3. CASE wr' = [wr EXCEPT !.rsp = @ + 1]
  BY <1>0, <1>3 DEF CountsTyped
<1> QED BY <1>0, <1>1, <1>2, <1>3 DEF CountsTyped

\* the last reads,
LEMMA ReadsStayTyped == ASSUME JournalTyped, [JournalNext]_jvars PROVE ReadsTyped'
<1> USE DEF readVars, ReadsTyped
<1>0. ReadsTyped /\ ScalarsTyped
  BY DEF JournalTyped
<1>1. CASE cpuLoad
  BY <1>0, <1>1 DEF cpuLoad, ScalarsTyped
<1>2. CASE cpuReadDpc
  BY <1>0, <1>2 DEF cpuReadDpc, ScalarsTyped
<1>3. CASE cpuCopyDpc
  BY <1>0, <1>3 DEF cpuCopyDpc, ScalarsTyped
<1>4. CASE cpuReadAgain
  <2> DEFINE x == IF viewPend > 0 THEN cpuDpcView ELSE cread.v
  <2>1. cread' = [cread EXCEPT !.kind = "dpc", !.v = x] /\ UNCHANGED rread
    BY <1>4 DEF cpuReadAgain
  <2>2. x \in Nat
    BY <1>0 DEF ScalarsTyped
  <2> HIDE DEF x
  <2> QED BY <2>1, <2>2, <1>0
<1>5. CASE rspDmaRead
  BY <1>0, <1>5 DEF rspDmaRead, ScalarsTyped
<1>6. CASE UNCHANGED <<cread, rread>>
  BY <1>0, <1>6
<1>7. ~(cpuLoad \/ cpuReadDpc \/ cpuCopyDpc \/ cpuReadAgain \/ rspDmaRead) => UNCHANGED <<cread, rread>>
  BY DEF JournalNext, jvars, journalRetire, logApplyOne, dpcMbCpu, journalOn, journalInstr,
         cpuStore, cpuPostDpc, cpuWriteDpc, rspOther,
         rspDmaWrite, dpcMbRsp, rspDpcWrite, rspDpcLive, rspDpcPush, rspStops
<1> QED BY <1>1, <1>2, <1>3, <1>4, <1>5, <1>6, <1>7

\* and the journal, the mailbox and the histories.
LEMMA SeqsStayTyped == ASSUME JournalTyped, [JournalNext]_jvars PROVE SeqsTyped'
<1> USE DEF memVars, dpcVars, SeqsTyped
<1>0. SeqsTyped /\ ScalarsTyped
  BY DEF JournalTyped
<1>a. log # <<>> => Tail(log) \in Seq(LogEntries)
  BY <1>0, HeadTailProperties
<1>b. mail # <<>> => Head(mail).v \in Nat /\ Tail(mail) \in Seq(Mails)
  <2>1. mail # <<>> => Head(mail) \in Mails /\ Tail(mail) \in Seq(Mails)
    BY <1>0, HeadTailProperties
  <2> QED BY <2>1 DEF Mails
<1>c. RspVal \in Nat /\ wr.cpu + 1 \in Nat
  BY DEF JournalTyped, CountsTyped, RspVal
<1>1. CASE journalRetire
  BY <1>0, <1>1, <1>a DEF journalRetire, logApplyOne, LogDue
<1>2. CASE dpcMbCpu
  <2>1. Append(dpcHist, [at |-> jc, v |-> Head(mail).v]) \in Seq(DpcWrites)
    BY <1>0, <1>b, <1>2, AppendProperties DEF dpcMbCpu, ScalarsTyped, DpcWrites
  <2> QED BY <2>1, <1>0, <1>2, <1>b DEF dpcMbCpu
<1>5. CASE cpuStore
  <2>2. Append(ramHist, [at |-> jc + 1, v |-> wr.cpu + 1, rsp |-> FALSE]) \in Seq(Writes)
    BY <1>c, <1>0, AppendProperties DEF ScalarsTyped, Writes
  <2> QED BY <2>2, <1>0, <1>5 DEF cpuStore
<1>9. CASE cpuPostDpc
  <2>1. [eff |-> Edge(jc + 1), v |-> posted + 1] \in Mails
    BY <1>0, EdgeIsADate DEF ScalarsTyped, Mails
  <2>2. mail' \in Seq(Mails)
    BY <2>1, <1>0, <1>9, AppendProperties DEF cpuPostDpc
  <2> QED BY <2>2, <1>0, <1>9 DEF cpuPostDpc
<1>10. CASE cpuWriteDpc
  <2>1. Append(dpcHist, [at |-> jc, v |-> posted + 1]) \in Seq(DpcWrites)
    BY <1>0, AppendProperties DEF ScalarsTyped, DpcWrites
  <2> QED BY <2>1, <1>0, <1>10 DEF cpuWriteDpc
<1>12. CASE rspDmaWrite
  <2>2. Append(ramHist, [at |-> jr, v |-> RspVal, rsp |-> TRUE]) \in Seq(Writes)
    BY <1>c, <1>0, AppendProperties DEF ScalarsTyped, Writes
  <2>3. Append(log, [at |-> jr, kind |-> "dma", v |-> RspVal]) \in Seq(LogEntries)
    BY <1>c, <1>0, AppendProperties DEF ScalarsTyped, LogEntries
  <2> QED BY <2>2, <2>3, <1>0, <1>12 DEF rspDmaWrite
<1>14. CASE dpcMbRsp
  BY <1>0, <1>14, <1>b DEF dpcMbRsp, NoMailDue
<1>16. CASE rspDpcLive
  <2>1. Append(dpcHist, [at |-> jr, v |-> writing]) \in Seq(DpcWrites)
    BY <1>0, AppendProperties DEF ScalarsTyped, DpcWrites
  <2> QED BY <2>1, <1>0, <1>16 DEF rspDpcLive
<1>17. CASE rspDpcPush
  <2>1. Append(log, [at |-> jr, kind |-> "view", v |-> dpcLive]) \in Seq(LogEntries)
    BY <1>0, AppendProperties DEF ScalarsTyped, LogEntries
  <2> QED BY <2>1, <1>0, <1>17 DEF rspDpcPush
<1>18. CASE UNCHANGED <<log, mail, ramHist, dpcHist>>
  BY <1>0, <1>18
<1>19. ~(journalRetire \/ dpcMbCpu \/ cpuStore \/ cpuPostDpc \/ cpuWriteDpc \/ rspDmaWrite \/ dpcMbRsp
         \/ rspDpcLive \/ rspDpcPush) => UNCHANGED <<log, mail, ramHist, dpcHist>>
  BY DEF JournalNext, jvars, journalOn, journalInstr, cpuLoad, cpuReadDpc, cpuCopyDpc, cpuReadAgain,
         rspOther, rspDmaRead, rspDpcWrite, rspStops
<1> QED
  BY <1>1, <1>2, <1>5, <1>9, <1>10, <1>12, <1>14, <1>16, <1>17, <1>18, <1>19

\* Every step keeps JournalTyped.
LEMMA JournalStaysTyped == ASSUME JournalTyped, [JournalNext]_jvars PROVE JournalTyped'
BY ScalarsStayTyped, CountsStayTyped, ReadsStayTyped, SeqsStayTyped DEF JournalTyped

----------------------------------------------------------------------------
\* The journal: what leaves by the head and what comes in at the back.
LEMMA LogTail ==
  ASSUME NEW lg \in Seq(LogEntries), lg # <<>>, Rising(lg)
  PROVE  /\ Rising(Tail(lg)) /\ Len(lg) \in Nat /\ Len(Tail(lg)) = Len(lg) - 1
         /\ Head(lg) = lg[1] /\ lg[1] \in LogEntries /\ 1 \in 1 .. Len(lg)
         /\ \A k \in 1 .. Len(Tail(lg)) : Tail(lg)[k] = lg[k + 1] /\ k + 1 \in 1 .. Len(lg) /\ lg[1].at < lg[k + 1].at
         /\ \A kind : LogDates(lg, kind) = LogDates(Tail(lg), kind) \cup IF lg[1].kind = kind THEN {lg[1].at} ELSE {}
         /\ \A kind : lg[1].at \notin LogDates(Tail(lg), kind)
<1> DEFINE t == Tail(lg)
           n == Len(lg)
<1>1. n \in Nat /\ 1 \in 1 .. n /\ t \in Seq(LogEntries) /\ Len(t) = n - 1 /\ Head(lg) = lg[1]
      /\ \A k \in 1 .. Len(t) : t[k] = lg[k + 1]
  BY HeadTailProperties, LenProperties, EmptySeq
<1>2. lg[1] \in LogEntries /\ \A k \in 1 .. n : lg[k] \in LogEntries /\ lg[k].at \in Nat
  <2>1. \A k \in 1 .. n : lg[k] \in LogEntries
    BY ElementOfSeq
  <2> QED BY <2>1, <1>1 DEF LogEntries
<1> HIDE DEF t, n
<1>3. \A k \in 1 .. Len(t) : t[k] = lg[k + 1] /\ k + 1 \in 1 .. n /\ lg[1].at < lg[k + 1].at
  BY <1>1 DEF Rising, n
<1>4. Rising(t)
  <2> SUFFICES ASSUME NEW k \in 1 .. Len(t), NEW l \in 1 .. Len(t), k < l PROVE t[k].at < t[l].at
    BY DEF Rising
  <2>1. k + 1 < l + 1
    BY <1>1
  <2> QED BY <2>1, <1>3 DEF Rising, n
<1>5. ASSUME NEW kind PROVE lg[1].at \notin LogDates(t, kind)
  <2> SUFFICES ASSUME NEW l \in 1 .. Len(t) PROVE lg[1].at # t[l].at
    BY DEF LogDates
  <2> QED BY <1>2, <1>3
<1>6. ASSUME NEW kind PROVE LogDates(lg, kind) = LogDates(t, kind) \cup IF lg[1].kind = kind THEN {lg[1].at} ELSE {}
  <2>1. ASSUME NEW x \in LogDates(t, kind) PROVE x \in LogDates(lg, kind)
    <3>1. PICK l \in 1 .. Len(t) : t[l].kind = kind /\ x = t[l].at
      BY DEF LogDates
    <3>2. l + 1 \in 1 .. n /\ lg[l + 1].kind = kind /\ x = lg[l + 1].at
      BY <3>1, <1>3
    <3> QED BY <3>2 DEF LogDates, n
  <2>2. ASSUME lg[1].kind = kind PROVE lg[1].at \in LogDates(lg, kind)
    BY <2>2, <1>1 DEF LogDates, n
  <2>3. ASSUME NEW x \in LogDates(lg, kind), ~(lg[1].kind = kind /\ x = lg[1].at) PROVE x \in LogDates(t, kind)
    <3>1. PICK l \in 1 .. n : lg[l].kind = kind /\ x = lg[l].at
      BY DEF LogDates, n
    <3>2. l # 1
      BY <3>1, <2>3
    <3> DEFINE lo == l - 1
    <3>3. lo \in 1 .. Len(t) /\ lo + 1 = l
      BY <3>2, <1>1
    <3> HIDE DEF lo
    <3>4. t[lo] = lg[l]
      BY <3>3, <1>3
    <3> QED BY <3>1, <3>3, <3>4 DEF LogDates
  <2> QED BY <2>1, <2>2, <2>3
<1> QED BY <1>1, <1>2, <1>3, <1>4, <1>5, <1>6 DEF t, n

\* An entry of the present comes in at the back of the journal.
LEMMA LogAppend ==
  ASSUME NEW lg \in Seq(LogEntries), NEW e \in LogEntries, Rising(lg),
         \A k \in 1 .. Len(lg) : lg[k].at < e.at
  PROVE  /\ Rising(Append(lg, e)) /\ Len(lg) \in Nat /\ Len(Append(lg, e)) = Len(lg) + 1
         /\ \A k \in 1 .. Len(lg) : Append(lg, e)[k] = lg[k]
         /\ Append(lg, e)[Len(lg) + 1] = e
         /\ \A k \in 1 .. Len(lg) + 1 : k = Len(lg) + 1 \/ k \in 1 .. Len(lg)
         /\ \A kind : LogDates(Append(lg, e), kind) = LogDates(lg, kind) \cup IF e.kind = kind THEN {e.at} ELSE {}
         /\ \A kind : e.at \notin LogDates(lg, kind)
<1> DEFINE t == Append(lg, e)
           n == Len(lg)
<1>1. n \in Nat /\ t \in Seq(LogEntries) /\ Len(t) = n + 1 /\ t[n + 1] = e
      /\ \A k \in 1 .. n : t[k] = lg[k]
  BY AppendProperties, LenProperties
<1>2. e.at \in Nat /\ \A k \in 1 .. n : lg[k].at \in Nat
  <2>1. \A k \in 1 .. n : lg[k] \in LogEntries
    BY ElementOfSeq
  <2> QED BY <2>1, <1>1 DEF LogEntries
<1>x. \A k \in 1 .. n : lg[k].at < e.at
  OBVIOUS
<1> HIDE DEF t, n
<1>3. \A k \in 1 .. n + 1 : k = n + 1 \/ k \in 1 .. n
  BY <1>1
<1>4. Rising(t)
  <2> SUFFICES ASSUME NEW k \in 1 .. n + 1, NEW l \in 1 .. n + 1, k < l PROVE t[k].at < t[l].at
    BY <1>1 DEF Rising
  <2>1. k \in 1 .. n
    BY <1>1
  <2>2. CASE l = n + 1
    BY <2>1, <2>2, <1>1, <1>x
  <2>3. CASE l \in 1 .. n
    BY <2>1, <2>3, <1>1 DEF Rising, n
  <2> QED BY <2>2, <2>3, <1>3
<1>5. ASSUME NEW kind PROVE e.at \notin LogDates(lg, kind)
  <2> SUFFICES ASSUME NEW l \in 1 .. n PROVE e.at # lg[l].at
    BY DEF LogDates, n
  <2> QED BY <1>2, <1>x
<1>6. ASSUME NEW kind PROVE LogDates(t, kind) = LogDates(lg, kind) \cup IF e.kind = kind THEN {e.at} ELSE {}
  <2>1. ASSUME NEW x \in LogDates(lg, kind) PROVE x \in LogDates(t, kind)
    <3>1. PICK l \in 1 .. n : lg[l].kind = kind /\ x = lg[l].at
      BY DEF LogDates, n
    <3>2. l \in 1 .. Len(t) /\ t[l].kind = kind /\ x = t[l].at
      BY <3>1, <1>1
    <3> QED BY <3>2 DEF LogDates
  <2>2. ASSUME e.kind = kind PROVE e.at \in LogDates(t, kind)
    <3>1. n + 1 \in 1 .. Len(t)
      BY <1>1
    <3> QED BY <3>1, <2>2, <1>1 DEF LogDates
  <2>3. ASSUME NEW x \in LogDates(t, kind), ~(e.kind = kind /\ x = e.at) PROVE x \in LogDates(lg, kind)
    <3>1. PICK l \in 1 .. n + 1 : t[l].kind = kind /\ x = t[l].at
      BY <1>1 DEF LogDates
    <3>2. l \in 1 .. n
      BY <3>1, <2>3, <1>1, <1>3
    <3> QED BY <3>1, <3>2, <1>1 DEF LogDates, n
  <2> QED BY <2>1, <2>2, <2>3
<1> QED BY <1>1, <1>3, <1>4, <1>5, <1>6 DEF t, n

----------------------------------------------------------------------------
\* The mailbox stays the window of the writes not yet applied.
LEMMA MailStaysKept == ASSUME JournalInv, [JournalNext]_jvars PROVE MailKept'
<1> USE DEF dpcVars
<1>0. MailKept /\ mail \in Seq(Mails) /\ posted \in Nat /\ mailDone \in Nat /\ direct \in BOOLEAN
      /\ Len(mail) \in Nat
  BY LenProperties DEF JournalInv, JournalTyped, ScalarsTyped, SeqsTyped
<1>1. ASSUME mail # <<>>, mail' = Tail(mail), mailDone' = Head(mail).v, UNCHANGED <<posted, direct>>
      PROVE  MailKept'
  <2>1. /\ Len(mail') = Len(mail) - 1 /\ Head(mail) = mail[1] /\ 1 \in 1 .. Len(mail)
        /\ \A k \in 1 .. Len(mail') : mail'[k] = mail[k + 1] /\ k + 1 \in 1 .. Len(mail)
    BY <1>0, <1>1, HeadTailProperties, EmptySeq
  <2> SUFFICES ASSUME ~direct
               PROVE  posted = mailDone' + Len(mail') /\ \A k \in 1 .. Len(mail') : mail'[k].v = mailDone' + k
    BY <1>1 DEF MailKept
  <2>2. posted = mailDone + Len(mail) /\ \A k \in 1 .. Len(mail) : mail[k].v = mailDone + k
    BY <1>0 DEF MailKept
  <2>3. mailDone' = mailDone + 1
    BY <2>1, <2>2, <1>1
  <2>4. \A k \in 1 .. Len(mail') : mail'[k].v = mailDone + (k + 1)
    BY <2>1, <2>2
  <2> QED BY <2>1, <2>2, <2>3, <2>4, <1>0
<1>2. CASE dpcMbCpu
  BY <1>1, <1>2 DEF dpcMbCpu
<1>3. CASE dpcMbRsp
  BY <1>1, <1>3 DEF dpcMbRsp, NoMailDue
<1>4. CASE cpuPostDpc
  <2> DEFINE e == [eff |-> Edge(jc + 1), v |-> posted + 1]
  <2>1. e \in Mails /\ e.v = posted + 1
    BY <1>0, EdgeIsADate DEF JournalInv, JournalTyped, ScalarsTyped, Mails
  <2>2. mail' = Append(mail, e) /\ posted' = posted + 1 /\ UNCHANGED <<direct, mailDone>>
    BY <1>4 DEF cpuPostDpc
  <2> HIDE DEF e
  <2>3. /\ Len(mail') = Len(mail) + 1 /\ mail'[Len(mail) + 1] = e
        /\ \A k \in 1 .. Len(mail) : mail'[k] = mail[k]
    BY <2>1, <2>2, <1>0, AppendProperties
  <2>4. \A k \in 1 .. Len(mail) + 1 : k = Len(mail) + 1 \/ k \in 1 .. Len(mail)
    BY <1>0
  <2> SUFFICES ASSUME ~direct
               PROVE  posted' = mailDone + Len(mail') /\ \A k \in 1 .. Len(mail') : mail'[k].v = mailDone + k
    BY <2>2 DEF MailKept
  <2>5. posted = mailDone + Len(mail) /\ \A k \in 1 .. Len(mail) : mail[k].v = mailDone + k
    BY <1>0 DEF MailKept
  <2>6. ASSUME NEW k \in 1 .. Len(mail) + 1 PROVE mail'[k].v = mailDone + k
    <3>1. CASE k = Len(mail) + 1
      BY <3>1, <2>1, <2>3, <2>5, <1>0
    <3>2. CASE k \in 1 .. Len(mail)
      BY <3>2, <2>3, <2>5
    <3> QED BY <3>1, <3>2, <2>4
  <2> QED BY <2>2, <2>3, <2>5, <2>6, <1>0
<1>5. CASE cpuWriteDpc
  <2> SUFFICES ASSUME ~direct' PROVE posted' = mailDone' + Len(mail') /\ \A k \in 1 .. Len(mail') : mail'[k].v = mailDone' + k
    BY DEF MailKept
  <2>1. ~MustPost /\ UNCHANGED mail /\ posted' = posted + 1 /\ mailDone' = posted + 1
    BY <1>5 DEF cpuWriteDpc
  <2>2. mail = <<>>
    BY <2>1 DEF MustPost
  <2> QED BY <2>1, <2>2, <1>0
<1>6. CASE UNCHANGED <<mail, posted, mailDone, direct>>
  BY <1>0, <1>6 DEF MailKept
<1>7. ~(dpcMbCpu \/ dpcMbRsp \/ cpuPostDpc \/ cpuWriteDpc) => UNCHANGED <<mail, posted, mailDone, direct>>
  BY DEF JournalNext, jvars, journalRetire, logApplyOne, journalOn, journalInstr, cpuLoad,
         cpuStore, cpuReadDpc, cpuCopyDpc, cpuReadAgain, rspOther,
         rspDmaWrite, rspDmaRead, rspDpcWrite, rspDpcLive, rspDpcPush, rspStops
<1> QED BY <1>2, <1>3, <1>4, <1>5, <1>6, <1>7

\* What a step does to the journal and to the clocks.
LEMMA LogSteps ==
  ASSUME JournalInv, [JournalNext]_jvars
  PROVE  /\ UNCHANGED jlead
         /\ \/ UNCHANGED <<log, jr, jc, jpc, viewPend, jrpc>>
            \/ journalRetire
            \/ journalOn
            \/ jpc = "exec" /\ jpc' = "copy" /\ UNCHANGED <<log, jr, jc, viewPend, jrpc>>
            \/ jpc = "copy" /\ jpc' = "view" /\ UNCHANGED <<log, jr, jc, viewPend, jrpc>>
            \/ jpc # "retire" /\ InstrDone /\ UNCHANGED <<log, jr, viewPend, jrpc>>
            \/ jrpc = "run" /\ RspOn /\ UNCHANGED <<log, jc, jpc, viewPend>>
            \/ rspDmaWrite
            \/ /\ jrpc = "run" /\ jrpc' = "live" /\ viewPend' = viewPend + 1 /\ UNCHANGED <<log, jr, jc, jpc>>
            \/ jrpc = "live" /\ jrpc' = "push" /\ UNCHANGED <<log, jr, jc, jpc, viewPend>>
            \/ rspDpcPush
            \/ jrpc = "run" /\ jrpc' = "stopped" /\ UNCHANGED <<log, jr, jc, jpc, viewPend>>
<1> USE DEF dpcVars
<1>1. UNCHANGED jlead
  BY DEF JournalNext, jvars, journalRetire, logApplyOne, dpcMbCpu, journalOn, journalInstr, cpuLoad,
         cpuStore, cpuReadDpc, cpuCopyDpc, cpuReadAgain, cpuPostDpc, cpuWriteDpc, rspOther,
         rspDmaWrite, rspDmaRead, dpcMbRsp, rspDpcWrite, rspDpcLive, rspDpcPush, rspStops
<1>2. CASE journalRetire \/ journalOn \/ rspDmaWrite \/ rspDpcPush \/ UNCHANGED jvars
  BY <1>1, <1>2 DEF jvars
<1>3. CASE dpcMbCpu \/ journalInstr \/ cpuLoad \/ cpuStore
  BY <1>1, <1>3 DEF dpcMbCpu, journalInstr, cpuLoad, cpuStore
<1>4. CASE cpuReadDpc \/ cpuCopyDpc \/ cpuReadAgain
  BY <1>1, <1>4 DEF cpuReadDpc, cpuCopyDpc, cpuReadAgain, InstrDone
<1>5. CASE cpuPostDpc \/ cpuWriteDpc
  BY <1>1, <1>5 DEF cpuPostDpc, cpuWriteDpc
<1>6. CASE rspOther \/ rspDmaRead \/ rspDpcLive \/ rspStops
  BY <1>1, <1>6 DEF rspOther, rspDmaRead, rspDpcLive, rspStops
<1>7. CASE dpcMbRsp \/ rspDpcWrite
  BY <1>1, <1>7 DEF dpcMbRsp, rspDpcWrite, rspDpcBegin
<1> QED BY <1>2, <1>3, <1>4, <1>5, <1>6, <1>7 DEF JournalNext

\* What leaves the journal.
LEMMA RetireLog ==
  ASSUME JournalInv, journalRetire
  PROVE  /\ log # <<>> /\ log \in Seq(LogEntries) /\ Rising(log) /\ log' = Tail(log)
         /\ Head(log).at <= jc /\ jpc = "retire"
         /\ UNCHANGED <<jc, jr, jpc, jrpc, ramHist, dpcHist, cread, rread, dpcLive, direct, jlead>>
         /\ \/ Head(log).kind = "dma" /\ ram' = Head(log).v /\ UNCHANGED <<cpuDpcView, viewPend>>
            \/ Head(log).kind = "view" /\ cpuDpcView' = Head(log).v /\ viewPend' = viewPend - 1 /\ UNCHANGED ram
BY DEF JournalInv, JournalTyped, SeqsTyped, LogInOrder, journalRetire, logApplyOne, LogDue, readVars

\* What comes in: an entry of the RSP's present.
LEMMA FileLog ==
  ASSUME JournalInv, rspDmaWrite \/ rspDpcPush
  PROVE  \E e \in LogEntries :
           /\ e.at = jr /\ log' = Append(log, e) /\ log \in Seq(LogEntries) /\ Rising(log)
           /\ \A k \in 1 .. Len(log) : log[k].at < e.at
           /\ jr' = jr + 1 /\ UNCHANGED <<jc, jpc, ram, cpuDpcView, dpcHist, dpcLive, viewPend, cread, rread>>
           /\ jrpc' = "run" /\ jrpc # "stopped"
           /\ \/ rspDmaWrite /\ e = [at |-> jr, kind |-> "dma", v |-> RspVal] /\ jrpc = "run"
                 /\ ramHist' = Append(ramHist, [at |-> jr, v |-> RspVal, rsp |-> TRUE])
              \/ rspDpcPush /\ e = [at |-> jr, kind |-> "view", v |-> dpcLive] /\ jrpc = "push"
                 /\ UNCHANGED ramHist
<1> USE DEF memVars, dpcVars, readVars, RspOn
<1>1. log \in Seq(LogEntries) /\ Rising(log) /\ (\A k \in 1 .. Len(log) : log[k].at < jr)
      /\ jr \in Nat /\ dpcLive \in Nat
  BY DEF JournalInv, JournalTyped, SeqsTyped, ScalarsTyped, LogInOrder
<1>2. RspVal \in Nat
  BY DEF JournalInv, JournalTyped, CountsTyped, RspVal
<1>3. CASE rspDmaWrite
  <2> DEFINE e == [at |-> jr, kind |-> "dma", v |-> RspVal]
  <2>1. e \in LogEntries /\ e.at = jr
    BY <1>1, <1>2 DEF LogEntries
  <2>2. /\ log' = Append(log, e) /\ jr' = jr + 1 /\ jrpc' = "run" /\ jrpc = "run"
        /\ UNCHANGED <<jc, jpc, ram, cpuDpcView, dpcHist, dpcLive, viewPend, cread, rread>>
        /\ ramHist' = Append(ramHist, [at |-> jr, v |-> RspVal, rsp |-> TRUE])
    BY <1>3 DEF rspDmaWrite
  <2> QED BY <2>1, <2>2, <1>1, <1>3
<1>4. CASE rspDpcPush
  <2> DEFINE e == [at |-> jr, kind |-> "view", v |-> dpcLive]
  <2>1. e \in LogEntries /\ e.at = jr
    BY <1>1, <1>2 DEF LogEntries
  <2>2. /\ log' = Append(log, e) /\ jr' = jr + 1 /\ jrpc' = "run" /\ jrpc = "push"
        /\ UNCHANGED <<jc, jpc, ram, cpuDpcView, dpcHist, dpcLive, viewPend, cread, rread, ramHist>>
    BY <1>4 DEF rspDpcPush
  <2> QED BY <2>1, <2>2, <1>1, <1>4
<1> QED BY <1>3, <1>4

\* The journal stays in order, and in the future of a CPU without a lead.
LEMMA LogStaysInOrder == ASSUME JournalInv, [JournalNext]_jvars PROVE LogInOrder' /\ CpuBehind'
<1>0. /\ LogInOrder /\ CpuBehind /\ jc \in Nat /\ jr \in Nat /\ log \in Seq(LogEntries) /\ Len(log) \in Nat
      /\ jpc \in {"retire", "exec", "copy", "view"} /\ UNCHANGED jlead
  BY LenProperties, LogSteps DEF JournalInv, JournalTyped, ScalarsTyped, SeqsTyped
<1>a. \A k \in 1 .. Len(log) : log[k].at \in Nat
  <2>1. \A k \in 1 .. Len(log) : log[k] \in LogEntries
    BY <1>0, ElementOfSeq
  <2> QED BY <2>1 DEF LogEntries
<1>1. CASE UNCHANGED <<log, jr, jc, jpc, viewPend, jrpc>>
  BY <1>0, <1>1 DEF LogInOrder, CpuBehind, RspDone
<1>2. CASE journalRetire
  <2> DEFINE t == Tail(log)
  <2>1. /\ log # <<>> /\ Rising(log) /\ log' = t /\ UNCHANGED <<jc, jr, jpc, jrpc>>
    BY <1>2, RetireLog
  <2>2. Rising(t) /\ \A k \in 1 .. Len(t) : t[k] = log[k + 1] /\ k + 1 \in 1 .. Len(log)
    BY <2>1, <1>0, LogTail
  <2> HIDE DEF t
  <2>3. LogInOrder'
    BY <2>1, <2>2, <1>0 DEF LogInOrder
  <2>4. CpuBehind'
    BY <2>1, <2>2, <1>0 DEF CpuBehind, RspDone
  <2> QED BY <2>3, <2>4
<1>3. CASE journalOn
  <2>1. jpc = "retire" /\ jpc' = "exec" /\ UNCHANGED <<jc, jr, log, jrpc>> /\ ~LogDue /\ (RspDone \/ jc < jr + jlead)
    BY <1>3 DEF journalOn
  <2>2. \A k \in 1 .. Len(log) : log[k].at > jc
    <3> TAKE k \in 1 .. Len(log)
    <3>1. log # <<>> /\ 1 \in 1 .. Len(log) /\ Head(log) = log[1]
      BY <1>0, HeadTailProperties, EmptySeq
    <3>2. log[1].at > jc
      BY <3>1, <2>1, <1>0, <1>a DEF LogDue
    <3>3. log[1].at <= log[k].at
      BY <3>1, <1>0, <1>a DEF LogInOrder, Rising
    <3> QED BY <3>1, <3>2, <3>3, <1>0, <1>a
  <2>3. jlead = 0 => RspDone \/ jc < jr
    BY <2>1, <1>0
  <2> QED BY <2>1, <2>2, <2>3, <1>0 DEF LogInOrder, CpuBehind, RspDone
<1>4. CASE jpc \in {"exec", "copy"} /\ jpc' # "retire" /\ UNCHANGED <<log, jr, jc, viewPend, jrpc>>
  BY <1>0, <1>4 DEF LogInOrder, CpuBehind, RspDone
<1>5. CASE jpc # "retire" /\ InstrDone /\ UNCHANGED <<log, jr, viewPend, jrpc>>
  <2>1. LogInOrder'
    BY <1>0, <1>5 DEF LogInOrder
  <2>2. CpuBehind'
    BY <1>0, <1>a, <1>5 DEF CpuBehind, RspDone, InstrDone
  <2> QED BY <2>1, <2>2
<1>6. CASE jrpc = "run" /\ RspOn /\ UNCHANGED <<log, jc, jpc, viewPend>>
  <2>1. LogInOrder'
    BY <1>0, <1>a, <1>6 DEF LogInOrder, RspOn
  <2>2. CpuBehind'
    BY <1>0, <1>a, <1>6 DEF CpuBehind, RspDone, RspOn
  <2> QED BY <2>1, <2>2
<1>7. CASE rspDmaWrite \/ rspDpcPush
  <2>1. PICK e \in LogEntries :
           /\ e.at = jr /\ log' = Append(log, e) /\ Rising(log)
           /\ \A k \in 1 .. Len(log) : log[k].at < e.at
           /\ jr' = jr + 1 /\ UNCHANGED <<jc, jpc>>
           /\ jrpc' = "run" /\ jrpc # "stopped"
    BY <1>7, FileLog
  <2>2. /\ Rising(log') /\ Len(log') = Len(log) + 1 /\ log'[Len(log) + 1] = e
        /\ \A k \in 1 .. Len(log) : log'[k] = log[k]
        /\ \A k \in 1 .. Len(log) + 1 : k = Len(log) + 1 \/ k \in 1 .. Len(log)
    BY SMTT(40), <2>1, <1>0, LogAppend
  <2>3. \A k \in 1 .. Len(log') : log'[k].at < jr'
    <3> TAKE k \in 1 .. Len(log')
    <3>1. CASE k = Len(log) + 1
      BY <3>1, <2>1, <2>2, <1>0
    <3>2. CASE k \in 1 .. Len(log)
      BY <3>2, <2>1, <2>2, <1>0, <1>a
    <3> QED BY <3>1, <3>2, <2>2
  <2>4. CpuBehind'
    <3> SUFFICES ASSUME jlead = 0 PROVE CpuBehind'
      BY <1>0 DEF CpuBehind
    <3>1. /\ IF jpc = "retire" THEN jc <= jr ELSE jc < jr
          /\ \A k \in 1 .. Len(log) : IF jpc = "retire" THEN log[k].at >= jc ELSE log[k].at > jc
      BY <2>1, <1>0 DEF CpuBehind, RspDone
    <3>2. IF jpc = "retire" THEN jc <= jr + 1 ELSE jc < jr + 1
      BY <3>1, <1>0
    <3>3. ASSUME NEW k \in 1 .. Len(log) + 1 PROVE IF jpc = "retire" THEN log'[k].at >= jc ELSE log'[k].at > jc
      <4>1. CASE k = Len(log) + 1
        BY <4>1, <3>1, <2>1, <2>2, <1>0
      <4>2. CASE k \in 1 .. Len(log)
        BY <4>2, <3>1, <2>2
      <4> QED BY <4>1, <4>2, <2>2
    <3> QED BY <3>2, <3>3, <2>1, <2>2 DEF CpuBehind
  <2> QED BY <2>2, <2>3, <2>4 DEF LogInOrder
<1>8. CASE jrpc \in {"run", "live"} /\ UNCHANGED <<log, jr, jc, jpc>>
  BY <1>0, <1>8 DEF LogInOrder, CpuBehind, RspDone
<1> QED BY <1>1, <1>2, <1>3, <1>4, <1>5, <1>6, <1>7, <1>8, LogSteps

\* dpcViewPend stays the number of views the CPU has not seen.
LEMMA ViewsStayCounted == ASSUME JournalInv, [JournalNext]_jvars PROVE ViewsCounted'
<1> DEFINE d == LogDates(log, "view")
<1>0. /\ log \in Seq(LogEntries) /\ jr \in Nat /\ Len(log) \in Nat
      /\ viewPend = Cardinality(d) + IF jrpc \in {"live", "push"} THEN 1 ELSE 0
  BY LenProperties DEF JournalInv, JournalTyped, ScalarsTyped, SeqsTyped, ViewsCounted
<1>1. IsFiniteSet(d) /\ Cardinality(d) \in Nat
  <2>1. d \in SUBSET (0 .. jr)
    <3>1. \A k \in 1 .. Len(log) : log[k] \in LogEntries
      BY <1>0, ElementOfSeq
    <3>2. \A k \in 1 .. Len(log) : log[k].at \in 0 .. jr
      BY <3>1, <1>0 DEF JournalInv, LogInOrder, LogEntries
    <3> QED BY <3>2 DEF LogDates
  <2>2. IsFiniteSet(0 .. jr)
    BY <1>0, FS_Interval
  <2>3. IsFiniteSet(d)
    BY <2>1, <2>2, FS_Subset
  <2> QED BY <2>3, FS_CardinalityType
<1> HIDE DEF d
<1>2. CASE journalRetire
  <2>1. /\ log # <<>> /\ Rising(log) /\ log' = Tail(log) /\ UNCHANGED jrpc /\ Head(log) = log[1]
        /\ \/ Head(log).kind = "dma" /\ UNCHANGED viewPend
           \/ Head(log).kind = "view" /\ viewPend' = viewPend - 1
    BY <1>2, RetireLog, LogTail
  <2>2. /\ d = LogDates(log', "view") \cup IF log[1].kind = "view" THEN {log[1].at} ELSE {}
        /\ log[1].at \notin LogDates(log', "view")
    BY <2>1, <1>0, LogTail DEF d
  <2>3. CASE log[1].kind = "dma"
    <3>1. LogDates(log', "view") = d
      BY <2>2, <2>3
    <3> QED BY <3>1, <2>1, <2>3, <1>0 DEF ViewsCounted
  <2>4. CASE log[1].kind = "view"
    <3>1. LogDates(log', "view") = d \ {log[1].at} /\ log[1].at \in d
      BY <2>2, <2>4
    <3>2. Cardinality(LogDates(log', "view")) = Cardinality(d) - 1
      BY <3>1, <1>1, FS_RemoveElement
    <3>3. viewPend' = viewPend - 1
      BY <2>1, <2>4
    <3> QED BY <3>2, <3>3, <2>1, <1>0, <1>1 DEF ViewsCounted
  <2> QED BY <2>1, <2>3, <2>4
<1>3. CASE rspDmaWrite \/ rspDpcPush
  <2>1. PICK e \in LogEntries :
           /\ log' = Append(log, e) /\ Rising(log)
           /\ \A k \in 1 .. Len(log) : log[k].at < e.at
           /\ jrpc' = "run" /\ UNCHANGED viewPend
           /\ \/ e.kind = "dma" /\ jrpc = "run"
              \/ e.kind = "view" /\ jrpc = "push"
    BY <1>3, FileLog
  <2>2. /\ LogDates(log', "view") = d \cup IF e.kind = "view" THEN {e.at} ELSE {}
        /\ e.at \notin d
    BY <2>1, <1>0, LogAppend DEF d
  <2>3. CASE e.kind = "dma" /\ jrpc = "run"
    <3>1. LogDates(log', "view") = d
      BY <2>2, <2>3
    <3> QED BY <3>1, <2>1, <2>3, <1>0 DEF ViewsCounted
  <2>4. CASE e.kind = "view" /\ jrpc = "push"
    <3>1. LogDates(log', "view") = d \cup {e.at}
      BY <2>2, <2>4
    <3>2. Cardinality(LogDates(log', "view")) = Cardinality(d) + 1
      BY <3>1, <2>2, <1>1, FS_AddElement
    <3> QED BY <3>2, <2>1, <2>4, <1>0, <1>1 DEF ViewsCounted
  <2> QED BY <2>1, <2>3, <2>4
<1>4. CASE UNCHANGED <<log, viewPend, jrpc>>
  BY <1>0, <1>4 DEF ViewsCounted, d
<1>5. CASE UNCHANGED <<log, viewPend>> /\ \/ jrpc = "live" /\ jrpc' = "push"
                                          \/ jrpc = "run" /\ jrpc' \in {"run", "stopped"}
  BY <1>0, <1>5 DEF ViewsCounted, d
<1>6. CASE jrpc = "run" /\ jrpc' = "live" /\ viewPend' = viewPend + 1 /\ UNCHANGED log
  BY <1>0, <1>1, <1>6 DEF ViewsCounted, d
<1>7. journalOn => UNCHANGED <<log, viewPend, jrpc>>
  BY DEF journalOn, dpcVars
<1>8. RspOn => jrpc' = "run"
  BY DEF RspOn
<1> QED BY <1>2, <1>3, <1>4, <1>5, <1>6, <1>7, <1>8, LogSteps

----------------------------------------------------------------------------
\* Histories grow at the end.
LEMMA HistGrows ==
  ASSUME NEW S, NEW h \in Seq(S), NEW w \in S
  PROVE  /\ Len(h) \in Nat /\ Len(Append(h, w)) = Len(h) + 1 /\ Append(h, w)[Len(h) + 1] = w
         /\ \A k \in 1 .. Len(h) : Append(h, w)[k] = h[k] /\ k # Len(h) + 1 /\ h[k] \in S
         /\ 1 .. Len(h) + 1 = (1 .. Len(h)) \cup {Len(h) + 1}
<1>1. Len(h) \in Nat
  BY LenProperties
<1>2. /\ Len(Append(h, w)) = Len(h) + 1 /\ Append(h, w)[Len(h) + 1] = w
      /\ \A k \in 1 .. Len(h) : Append(h, w)[k] = h[k]
  BY AppendProperties
<1>3. \A k \in 1 .. Len(h) : k # Len(h) + 1 /\ h[k] \in S
  BY <1>1, ElementOfSeq
<1>4. 1 .. Len(h) + 1 = (1 .. Len(h)) \cup {Len(h) + 1}
  BY <1>1
<1> QED BY <1>1, <1>2, <1>3, <1>4

\* A write after t is not among the writes up to t.
LEMMA UpToStays ==
  ASSUME NEW S, NEW h \in Seq(S), NEW w \in S, NEW t \in Nat, w.at \in Nat, w.at > t
  PROVE  UpTo(Append(h, w), t) = UpTo(h, t)
<1>1. /\ Len(h) \in Nat /\ Len(Append(h, w)) = Len(h) + 1 /\ Append(h, w)[Len(h) + 1] = w
      /\ \A k \in 1 .. Len(h) : Append(h, w)[k] = h[k] /\ k # Len(h) + 1
      /\ 1 .. Len(h) + 1 = (1 .. Len(h)) \cup {Len(h) + 1}
  BY HistGrows
<1>2. ~(w.at <= t)
  OBVIOUS
<1> QED BY <1>1, <1>2 DEF UpTo

\* The last of the old writes is the same in the longer history.
LEMMA LastStays ==
  ASSUME NEW h \in Seq(Writes), NEW w \in Writes, NEW ks \in SUBSET (1 .. Len(h)), NEW v, LastIn(h, ks, v)
  PROVE  LastIn(Append(h, w), ks, v)
<1>1. \A k \in 1 .. Len(h) : Append(h, w)[k] = h[k]
  BY HistGrows
<1>2. CASE ks = {} /\ v = 0
  BY <1>2 DEF LastIn
<1>3. CASE \E k \in ks : v = h[k].v /\ \A j \in ks \ {k} : Before(h[j], h[k])
  <2>1. PICK k \in ks : v = h[k].v /\ \A j \in ks \ {k} : Before(h[j], h[k])
    BY <1>3
  <2>2. v = Append(h, w)[k].v /\ \A j \in ks \ {k} : Before(Append(h, w)[j], Append(h, w)[k])
    BY <2>1, <1>1
  <2> QED BY <2>2 DEF LastIn
<1> QED BY <1>2, <1>3 DEF LastIn

\* A write that comes after all of ks is the last of ks and itself.
LEMMA LastAdded ==
  ASSUME NEW h, NEW ks, NEW i, \A j \in ks : Before(h[j], h[i])
  PROVE  LastIn(h, ks \cup {i}, h[i].v)
BY DEF LastIn

\* The last of the writes up to t is what RamAt says.
LEMMA LastIsRamAt ==
  ASSUME NEW t \in Nat, NEW v, LastIn(ramHist, UpTo(ramHist, t), v), ramHist \in Seq(Writes), RamDated
  PROVE  RamAt(t) = v
<1> DEFINE ks == UpTo(ramHist, t)
           top == {k \in ks : \A j \in ks \ {k} : Before(ramHist[j], ramHist[k])}
<1>1. DOMAIN ramHist = 1 .. Len(ramHist) /\ \A k \in ks : ramHist[k].at \in Nat
  <2>1. \A k \in 1 .. Len(ramHist) : ramHist[k] \in Writes
    BY ElementOfSeq
  <2> QED BY <2>1, LenProperties DEF Writes, UpTo
<1>2. RamAt(t) = IF ks = {} THEN 0 ELSE ramHist[CHOOSE k \in top : TRUE].v
  BY <1>1 DEF RamAt, UpTo, Before
<1>3. CASE ks = {} /\ v = 0
  BY <1>2, <1>3
<1>4. CASE \E k \in ks : v = ramHist[k].v /\ \A j \in ks \ {k} : Before(ramHist[j], ramHist[k])
  <2>1. PICK k \in ks : v = ramHist[k].v /\ \A j \in ks \ {k} : Before(ramHist[j], ramHist[k])
    BY <1>4
  <2>2. ASSUME NEW i \in top, i # k PROVE FALSE
    <3>1. Before(ramHist[i], ramHist[k]) /\ Before(ramHist[k], ramHist[i])
      BY <2>1, <2>2
    <3>2. ramHist[i].at \in Nat /\ ramHist[k].at \in Nat
      BY <1>1
    <3>3. ramHist[i].at = ramHist[k].at /\ ~ramHist[i].rsp /\ ~ramHist[k].rsp
      BY <3>1, <3>2 DEF Before
    <3>4. i \in 1 .. Len(ramHist) /\ k \in 1 .. Len(ramHist)
      BY DEF UpTo
    <3>5. ramHist[i].rsp = ramHist[k].rsp
      <4>1. ramHist[i] \in Writes /\ ramHist[k] \in Writes
        BY <3>4, ElementOfSeq
      <4> QED BY <4>1, <3>3 DEF Writes
    <3> QED BY <2>2, <3>3, <3>4, <3>5 DEF RamDated
  <2>3. top = {k}
    BY <2>1, <2>2
  <2>4. (CHOOSE i \in top : TRUE) = k /\ ks # {}
    BY <2>3
  <2> QED BY <2>1, <2>4, <1>2
<1> QED BY <1>3, <1>4 DEF LastIn

\* The types of the clocks, the journal and the histories, and of what they hold.
LEMMA JournalFacts ==
  ASSUME JournalInv
  PROVE  /\ jc \in Nat /\ jr \in Nat /\ log \in Seq(LogEntries) /\ ramHist \in Seq(Writes) /\ dpcHist \in Seq(DpcWrites)
         /\ Len(log) \in Nat /\ Len(ramHist) \in Nat /\ Len(dpcHist) \in Nat
         /\ \A k \in 1 .. Len(log) : log[k] \in LogEntries /\ log[k].at \in Nat
         /\ \A k \in 1 .. Len(ramHist) : ramHist[k] \in Writes /\ ramHist[k].at \in Nat /\ ramHist[k].rsp \in BOOLEAN
         /\ \A k \in 1 .. Len(dpcHist) : dpcHist[k] \in DpcWrites /\ dpcHist[k].at \in Nat
<1>1. /\ jc \in Nat /\ jr \in Nat /\ log \in Seq(LogEntries) /\ ramHist \in Seq(Writes) /\ dpcHist \in Seq(DpcWrites)
      /\ Len(log) \in Nat /\ Len(ramHist) \in Nat /\ Len(dpcHist) \in Nat
  BY LenProperties DEF JournalInv, JournalTyped, ScalarsTyped, SeqsTyped
<1>2. /\ \A k \in 1 .. Len(log) : log[k] \in LogEntries
      /\ \A k \in 1 .. Len(ramHist) : ramHist[k] \in Writes
      /\ \A k \in 1 .. Len(dpcHist) : dpcHist[k] \in DpcWrites
  BY <1>1, ElementOfSeq
<1> QED BY <1>1, <1>2 DEF LogEntries, Writes, DpcWrites

\* With nothing due, what is filed is in the CPU's future.
LEMMA NotDue ==
  ASSUME JournalInv, ~LogDue
  PROVE  \A k \in 1 .. Len(log) : log[k].at > jc
<1> TAKE k \in 1 .. Len(log)
<1>0. jc \in Nat /\ log \in Seq(LogEntries) /\ Len(log) \in Nat /\ \A j \in 1 .. Len(log) : log[j].at \in Nat
  BY JournalFacts
<1>1. log # <<>> /\ 1 \in 1 .. Len(log) /\ Head(log) = log[1]
  BY <1>0, HeadTailProperties, EmptySeq
<1>2. log[1].at > jc
  BY <1>0, <1>1 DEF LogDue
<1>3. log[1].at <= log[k].at
  BY <1>0, <1>1 DEF JournalInv, LogInOrder, Rising
<1> QED BY <1>0, <1>1, <1>2, <1>3

\* dpLogApply of a DMA.
LEMMA RamRetired == ASSUME JournalInv, journalRetire PROVE RamKept'
<1> USE JournalFacts
<1>1. /\ log # <<>> /\ Rising(log) /\ log' = Tail(log) /\ Head(log).at <= jc
      /\ UNCHANGED <<jc, jr, jrpc, ramHist>>
      /\ \/ Head(log).kind = "dma" /\ ram' = Head(log).v
         \/ Head(log).kind = "view" /\ UNCHANGED ram
  BY RetireLog
<1> DEFINE e == log[1]
           d == LogDates(log, "dma")
           n == Len(log) - 1
<1>2. /\ Len(log') = n /\ Head(log) = e /\ e \in LogEntries /\ 1 \in 1 .. Len(log)
      /\ \A k \in 1 .. n : log'[k] = log[k + 1] /\ k + 1 \in 1 .. Len(log) /\ e.at < log[k + 1].at
      /\ d = LogDates(log', "dma") \cup IF e.kind = "dma" THEN {e.at} ELSE {}
      /\ e.at \notin LogDates(log', "dma")
  BY <1>1, LogTail
<1>3. e.kind \in {"dma", "view"} /\ e.at \in Nat
  BY <1>2 DEF LogEntries
<1>4. RamKept
  BY DEF JournalInv
<1>5. RamDated'
  BY <1>1, <1>4 DEF RamKept, RamDated, RspDone
<1>6. CASE e.kind = "view"
  <2>1. Applied' = Applied
    BY <1>1, <1>2, <1>6 DEF Applied
  <2>2. RamIsNewest' /\ AppliedPast'
    BY <2>1, <1>1, <1>2, <1>4, <1>6 DEF RamKept, RamIsNewest, AppliedPast
  <2>3. DmaFiled'
    BY <2>1, <1>1, <1>2, <1>4 DEF RamKept, DmaFiled
  <2> QED BY <2>2, <2>3, <1>5 DEF RamKept
<1>7. CASE e.kind = "dma"
  <2>1. PICK i \in 1 .. Len(ramHist) : ramHist[i] = [at |-> e.at, v |-> e.v, rsp |-> TRUE]
    BY <1>2, <1>4, <1>7 DEF RamKept, DmaFiled
  <2>2. ramHist[i].at = e.at /\ ramHist[i].v = e.v /\ ramHist[i].rsp = TRUE
    BY <2>1
  <2>3. Applied' = Applied \cup {i}
    <3>1. Applied' = AppliedOf(ramHist, LogDates(log', "dma"))
      BY <1>1 DEF Applied
    <3>2. \A k \in 1 .. Len(ramHist) : ramHist[k].rsp /\ ramHist[k].at = e.at => k = i
      BY <2>2, <1>4 DEF RamKept, RamDated
    <3>3. ASSUME NEW k \in 1 .. Len(ramHist)
          PROVE  ~(ramHist[k].rsp /\ ramHist[k].at \in LogDates(log', "dma"))
                   <=> ~(ramHist[k].rsp /\ ramHist[k].at \in d) \/ k = i
      BY <3>2, <2>2, <1>2, <1>7
    <3> QED BY <3>1, <3>3 DEF Applied, AppliedOf
  <2>4. \A j \in Applied : Before(ramHist[j], ramHist[i])
    BY <2>2, <1>2, <1>4, <1>7 DEF RamKept, DmaFiled, Before
  <2>5. RamIsNewest'
    <3>1. ram' = ramHist[i].v
      BY <2>2, <1>1, <1>2, <1>7
    <3>2. LastIn(ramHist, Applied \cup {i}, ramHist[i].v)
      BY <2>4, LastAdded
    <3> QED BY <3>1, <3>2, <2>3, <1>1 DEF RamIsNewest
  <2>6. AppliedPast'
    BY <2>2, <2>3, <1>1, <1>2, <1>4 DEF RamKept, AppliedPast
  <2>7. DmaFiled'
    <3> SUFFICES ASSUME NEW l \in 1 .. n, log[l + 1].kind = "dma"
                 PROVE  /\ \E k \in 1 .. Len(ramHist) : ramHist[k] = [at |-> log[l + 1].at, v |-> log[l + 1].v, rsp |-> TRUE]
                        /\ \A k \in Applied \cup {i} : Before(ramHist[k], log[l + 1])
      BY <2>3, <1>1, <1>2 DEF DmaFiled
    <3>1. l + 1 \in 1 .. Len(log) /\ e.at < log[l + 1].at
      BY <1>2
    <3>2. Before(ramHist[i], log[l + 1])
      BY <3>1, <2>2 DEF Before
    <3> QED BY <3>1, <3>2, <1>4 DEF RamKept, DmaFiled
  <2> QED BY <2>5, <2>6, <2>7, <1>5 DEF RamKept
<1> QED BY <1>3, <1>6, <1>7

\* A store of the CPU.
LEMMA RamStored == ASSUME JournalInv, cpuStore PROVE RamKept'
<1> USE JournalFacts
<1> DEFINE h == [at |-> jc + 1, v |-> wr.cpu + 1, rsp |-> FALSE]
           n == Len(ramHist)
           d == LogDates(log, "dma")
<1>1. /\ ramHist' = Append(ramHist, h) /\ ram' = wr.cpu + 1 /\ jc' = jc + 1 /\ ~LogDue
      /\ RspDone \/ jc < jr
      /\ UNCHANGED <<log, jr, jrpc>>
  BY DEF cpuStore, InstrDone
<1>2. h \in Writes /\ h.at = jc + 1 /\ h.v = wr.cpu + 1 /\ h.rsp = FALSE
  BY DEF JournalInv, JournalTyped, CountsTyped, Writes
<1> HIDE DEF h
<1>3. /\ Len(ramHist') = n + 1 /\ ramHist'[n + 1] = h
      /\ \A k \in 1 .. n : ramHist'[k] = ramHist[k] /\ k # n + 1
      /\ 1 .. n + 1 = (1 .. n) \cup {n + 1}
  BY <1>1, <1>2, HistGrows
<1>4. RamKept
  BY DEF JournalInv
<1>5. Applied' = Applied \cup {n + 1} /\ Applied \in SUBSET (1 .. n)
  <2>1. Applied' = AppliedOf(ramHist', d)
    BY <1>1 DEF Applied
  <2> QED BY <2>1, <1>2, <1>3 DEF Applied, AppliedOf
<1>6. \A j \in Applied : ramHist'[j] = ramHist[j] /\ ramHist[j].at <= jc
  BY <1>3, <1>4, <1>5 DEF RamKept, AppliedPast
<1>7. RamIsNewest'
  <2>1. \A j \in Applied : Before(ramHist'[j], ramHist'[n + 1])
    BY <1>2, <1>3, <1>5, <1>6 DEF Before
  <2>2. LastIn(ramHist', Applied \cup {n + 1}, ramHist'[n + 1].v)
    BY <2>1, LastAdded
  <2> QED BY <2>2, <1>1, <1>2, <1>3, <1>5 DEF RamIsNewest
<1>8. AppliedPast'
  <2>1. \A k \in Applied : ramHist'[k].at <= jc + 1
    BY <1>5, <1>6
  <2>2. ramHist'[n + 1].at <= jc + 1
    BY <1>2, <1>3
  <2> QED BY <2>1, <2>2, <1>1, <1>5 DEF AppliedPast
<1>9. RamDated'
  <2>1. ASSUME NEW k \in 1 .. n + 1
        PROVE  IF ramHist'[k].rsp THEN ramHist'[k].at < jr ELSE RspDone \/ ramHist'[k].at <= jr
    <3>1. CASE k = n + 1
      BY <3>1, <1>1, <1>2, <1>3
    <3>2. CASE k \in 1 .. n
      BY <3>2, <1>3, <1>4 DEF RamKept, RamDated
    <3> QED BY <3>1, <3>2, <1>3
  <2>2. \A k \in 1 .. n : ~ramHist[k].rsp => ramHist[k].at # jc + 1
    <3> TAKE k \in 1 .. n
    <3> HAVE ~ramHist[k].rsp
    <3>1. k \in Applied
      BY DEF Applied, AppliedOf
    <3> QED BY <3>1, <1>6
  <2>3. ASSUME NEW k \in 1 .. n + 1, NEW l \in 1 .. n + 1, k # l, ramHist'[k].rsp = ramHist'[l].rsp
        PROVE  ramHist'[k].at # ramHist'[l].at
    <3>1. CASE k = n + 1
      <4>1. l \in 1 .. n
        BY <3>1, <2>3, <1>3
      <4> QED BY <3>1, <4>1, <2>2, <2>3, <1>2, <1>3
    <3>2. CASE l = n + 1
      <4>1. k \in 1 .. n
        BY <3>2, <2>3, <1>3
      <4> QED BY <3>2, <4>1, <2>2, <2>3, <1>2, <1>3
    <3>3. CASE k \in 1 .. n /\ l \in 1 .. n
      BY <3>3, <2>3, <1>3, <1>4 DEF RamKept, RamDated
    <3> QED BY <3>1, <3>2, <3>3, <1>3
  <2>4. RspDone' <=> RspDone
    BY <1>1 DEF RspDone
  <2> QED BY SMTT(40), <2>1, <2>3, <2>4, <1>1, <1>3 DEF RamDated
<1>10. DmaFiled'
  <2> SUFFICES ASSUME NEW l \in 1 .. Len(log), log[l].kind = "dma"
               PROVE  /\ \E k \in 1 .. n + 1 : ramHist'[k] = [at |-> log[l].at, v |-> log[l].v, rsp |-> TRUE]
                      /\ \A k \in Applied \cup {n + 1} : Before(ramHist'[k], log[l])
    BY <1>1, <1>3, <1>5 DEF DmaFiled
  <2>1. PICK k \in 1 .. n : ramHist[k] = [at |-> log[l].at, v |-> log[l].v, rsp |-> TRUE]
    BY <1>4 DEF RamKept, DmaFiled
  <2>2. \A j \in Applied : Before(ramHist'[j], log[l])
    BY <1>4, <1>6 DEF RamKept, DmaFiled
  <2>3. log[l].at > jc
    BY <1>1, NotDue
  <2>4. Before(ramHist'[n + 1], log[l])
    BY <2>3, <1>2, <1>3 DEF Before
  <2> QED BY <2>1, <2>2, <2>4, <1>3
<1> QED BY <1>7, <1>8, <1>9, <1>10 DEF RamKept

\* A DMA of the RSP is filed.
LEMMA RamFiled == ASSUME JournalInv, rspDmaWrite PROVE RamKept'
<1> USE JournalFacts
<1> DEFINE h == [at |-> jr, v |-> RspVal, rsp |-> TRUE]
           n == Len(ramHist)
           lo == Len(log)
           d == LogDates(log, "dma")
<1>1. PICK e \in LogEntries :
         /\ e.at = jr /\ log' = Append(log, e) /\ Rising(log)
         /\ \A k \in 1 .. lo : log[k].at < e.at
         /\ jr' = jr + 1 /\ jrpc' = "run" /\ jrpc # "stopped" /\ UNCHANGED <<jc, ram>>
         /\ e = [at |-> jr, kind |-> "dma", v |-> RspVal] /\ ramHist' = Append(ramHist, h)
  <2>1. ~rspDpcPush
    BY DEF rspDpcPush, rspDmaWrite
  <2> QED BY <2>1, FileLog
<1>2. h \in Writes /\ h.at = jr /\ h.v = RspVal /\ h.rsp = TRUE /\ e.at = jr /\ e.v = RspVal /\ e.kind = "dma"
  BY <1>1 DEF JournalInv, JournalTyped, CountsTyped, Writes, RspVal
<1> HIDE DEF h
<1>3. /\ Len(ramHist') = n + 1 /\ ramHist'[n + 1] = h
      /\ \A k \in 1 .. n : ramHist'[k] = ramHist[k] /\ k # n + 1
      /\ 1 .. n + 1 = (1 .. n) \cup {n + 1}
  BY <1>1, <1>2, HistGrows
<1>4. RamKept
  BY DEF JournalInv
<1>5. /\ Len(log') = lo + 1 /\ log'[lo + 1] = e
      /\ \A k \in 1 .. lo : log'[k] = log[k]
      /\ \A k \in 1 .. lo + 1 : k = lo + 1 \/ k \in 1 .. lo
      /\ LogDates(log', "dma") = d \cup {jr}
  <2>0. log \in Seq(LogEntries)
    OBVIOUS
  <2>1. /\ Len(log') = lo + 1 /\ log'[lo + 1] = e
        /\ \A k \in 1 .. lo : log'[k] = log[k]
        /\ \A k \in 1 .. lo + 1 : k = lo + 1 \/ k \in 1 .. lo
        /\ \A kind : LogDates(log', kind) = LogDates(log, kind) \cup IF e.kind = kind THEN {e.at} ELSE {}
    BY ONLY <2>0, <1>1, LogAppend
  <2> QED BY <2>1, <1>2
<1>6. /\ \A k \in 1 .. n : ramHist[k].rsp => ramHist[k].at < jr
      /\ \A k \in 1 .. n : ~ramHist[k].rsp => ramHist[k].at <= jr
  BY <1>1, <1>4 DEF RamKept, RamDated, RspDone
<1>7. Applied' = Applied /\ Applied \in SUBSET (1 .. n)
  <2>1. Applied' = AppliedOf(ramHist', d \cup {jr})
    BY <1>5 DEF Applied
  <2>2. \A k \in 1 .. n : ramHist[k].rsp => ramHist[k].at # jr
    BY <1>6
  <2> QED BY <2>1, <2>2, <1>2, <1>3 DEF Applied, AppliedOf
<1>8. RamIsNewest'
  <2>1. LastIn(ramHist', Applied, ram)
    BY <1>1, <1>2, <1>4, <1>7, LastStays DEF RamKept, RamIsNewest
  <2> QED BY <2>1, <1>1, <1>7 DEF RamIsNewest
<1>9. AppliedPast'
  BY <1>1, <1>3, <1>4, <1>7 DEF RamKept, AppliedPast
<1>10. RamDated'
  <2>1. ASSUME NEW k \in 1 .. n + 1
        PROVE  IF ramHist'[k].rsp THEN ramHist'[k].at < jr + 1 ELSE ramHist'[k].at <= jr + 1
    <3>1. CASE k = n + 1
      BY <3>1, <1>2, <1>3
    <3>2. CASE k \in 1 .. n
      BY SMTT(40), <3>2, <1>3, <1>6
    <3> QED BY <3>1, <3>2, <1>3
  <2>2. \A k \in 1 .. n : ramHist[k].rsp => ramHist[k].at # jr
    BY <1>6
  <2>3. ASSUME NEW k \in 1 .. n + 1, NEW l \in 1 .. n + 1, k # l, ramHist'[k].rsp = ramHist'[l].rsp
        PROVE  ramHist'[k].at # ramHist'[l].at
    <3>1. CASE k = n + 1
      <4>1. l \in 1 .. n
        BY <3>1, <2>3, <1>3
      <4> QED BY <3>1, <4>1, <2>2, <2>3, <1>2, <1>3
    <3>2. CASE l = n + 1
      <4>1. k \in 1 .. n
        BY <3>2, <2>3, <1>3
      <4> QED BY <3>2, <4>1, <2>2, <2>3, <1>2, <1>3
    <3>3. CASE k \in 1 .. n /\ l \in 1 .. n
      BY <3>3, <2>3, <1>3, <1>4 DEF RamKept, RamDated
    <3> QED BY <3>1, <3>2, <3>3, <1>3
  <2> QED BY SMTT(40), <2>1, <2>3, <1>1, <1>3 DEF RamDated
<1>11. DmaFiled'
  <2> SUFFICES ASSUME NEW l \in 1 .. lo + 1, log'[l].kind = "dma"
               PROVE  /\ \E k \in 1 .. n + 1 : ramHist'[k] = [at |-> log'[l].at, v |-> log'[l].v, rsp |-> TRUE]
                      /\ \A k \in Applied : Before(ramHist'[k], log'[l])
    BY <1>3, <1>5, <1>7 DEF DmaFiled
  <2>1. CASE l = lo + 1
    <3>1. ramHist'[n + 1] = [at |-> log'[l].at, v |-> log'[l].v, rsp |-> TRUE] /\ n + 1 \in 1 .. n + 1
      BY <2>1, <1>2, <1>3, <1>5 DEF h
    <3>2. \A k \in Applied : Before(ramHist'[k], log'[l])
      <4> TAKE k \in Applied
      <4>1. k \in 1 .. n /\ ramHist'[k] = ramHist[k] /\ log'[l].at = jr
        BY <2>1, <1>2, <1>3, <1>5, <1>7
      <4>2. ramHist[k].at < jr \/ (ramHist[k].at = jr /\ ~ramHist[k].rsp)
        BY <4>1, <1>6
      <4> QED BY <4>1, <4>2 DEF Before
    <3> QED BY <3>1, <3>2
  <2>2. CASE l \in 1 .. lo
    <3>1. log'[l] = log[l]
      BY <2>2, <1>5
    <3>2. PICK k \in 1 .. n : ramHist[k] = [at |-> log[l].at, v |-> log[l].v, rsp |-> TRUE]
      BY <2>2, <3>1, <1>4 DEF RamKept, DmaFiled
    <3>3. \A i \in Applied : Before(ramHist'[i], log[l])
      BY <2>2, <3>1, <1>3, <1>4, <1>7 DEF RamKept, DmaFiled
    <3> QED BY <3>1, <3>2, <3>3, <1>3
  <2> QED BY <2>1, <2>2, <1>5
<1> QED BY <1>8, <1>9, <1>10, <1>11 DEF RamKept

\* The steps that leave RDRAM and its history alone move the clocks forward.
LEMMA RamQuiet ==
  ASSUME JournalInv, [JournalNext]_jvars, ~journalRetire, ~cpuStore, ~rspDmaWrite
  PROVE  /\ UNCHANGED <<ram, ramHist>> /\ jc' \in Nat /\ jr' \in Nat /\ jc' >= jc /\ jr' >= jr
         /\ RspDone => RspDone' /\ UNCHANGED jr
         /\ LogDates(log', "dma") = LogDates(log, "dma")
         /\ \A l \in 1 .. Len(log') : log'[l].kind = "dma" => l \in 1 .. Len(log) /\ log'[l] = log[l]
<1> USE JournalFacts
<1>1. UNCHANGED <<ram, ramHist>>
  BY DEF JournalNext, jvars, dpcMbCpu, journalOn, journalInstr, cpuLoad,
         cpuReadDpc, cpuCopyDpc, cpuReadAgain, cpuPostDpc, cpuWriteDpc, rspOther,
         rspDmaRead, dpcMbRsp, rspDpcWrite, rspDpcLive, rspDpcPush, rspStops, memVars
<1>2. jc' \in Nat /\ jr' \in Nat /\ jc' >= jc /\ jr' >= jr /\ (RspDone => RspDone' /\ UNCHANGED jr)
  BY LogSteps DEF InstrDone, RspOn, RspDone, rspDpcPush, journalOn
<1>3. CASE rspDpcPush
  <2>0. log \in Seq(LogEntries)
    OBVIOUS
  <2>1. PICK e \in LogEntries :
         /\ log' = Append(log, e) /\ Rising(log) /\ \A k \in 1 .. Len(log) : log[k].at < e.at
         /\ e.kind = "view"
    BY <1>3, FileLog
  <2>2. /\ Len(log') = Len(log) + 1 /\ log'[Len(log) + 1] = e
        /\ \A k \in 1 .. Len(log) : log'[k] = log[k]
        /\ \A k \in 1 .. Len(log) + 1 : k = Len(log) + 1 \/ k \in 1 .. Len(log)
        /\ \A kind : LogDates(log', kind) = LogDates(log, kind) \cup IF e.kind = kind THEN {e.at} ELSE {}
    BY ONLY <2>0, <2>1, LogAppend
  <2>3. LogDates(log', "dma") = LogDates(log, "dma")
    BY <2>1, <2>2
  <2> QED BY <2>1, <2>2, <2>3, <1>1, <1>2
<1>4. CASE ~rspDpcPush
  <2>1. UNCHANGED log
    BY <1>4, LogSteps DEF journalOn
  <2> QED BY <2>1, <1>1, <1>2
<1> QED BY <1>3, <1>4

\* Every step keeps RDRAM the last of the writes applied.
LEMMA RamStaysKept == ASSUME JournalInv, [JournalNext]_jvars PROVE RamKept'
<1> USE JournalFacts
<1>1. CASE ~journalRetire /\ ~cpuStore /\ ~rspDmaWrite
  <2>1. /\ UNCHANGED <<ram, ramHist>> /\ jc' \in Nat /\ jr' \in Nat /\ jc' >= jc /\ jr' >= jr
        /\ RspDone => RspDone' /\ UNCHANGED jr
        /\ LogDates(log', "dma") = LogDates(log, "dma")
        /\ \A l \in 1 .. Len(log') : log'[l].kind = "dma" => l \in 1 .. Len(log) /\ log'[l] = log[l]
    BY <1>1, RamQuiet
  <2>2. Applied' = Applied /\ RamKept /\ Applied \in SUBSET (1 .. Len(ramHist))
    BY <2>1 DEF JournalInv, Applied, AppliedOf
  <2>3. RamIsNewest'
    BY <2>1, <2>2 DEF RamKept, RamIsNewest
  <2>4. AppliedPast'
    BY <2>1, <2>2 DEF RamKept, AppliedPast
  <2>5. RamDated'
    BY <2>1, <2>2 DEF RamKept, RamDated
  <2>6. DmaFiled'
    BY <2>1, <2>2 DEF RamKept, DmaFiled
  <2> QED BY <2>3, <2>4, <2>5, <2>6 DEF RamKept
<1> QED BY <1>1, RamRetired, RamStored, RamFiled

\* A read of the past is not changed by a write of the present.
LEMMA ReadStays ==
  ASSUME NEW h \in Seq(Writes), NEW w \in Writes, NEW t \in Nat, NEW v, w.at > t,
         LastIn(h, UpTo(h, t), v)
  PROVE  LastIn(Append(h, w), UpTo(Append(h, w), t), v)
<1>1. UpTo(Append(h, w), t) = UpTo(h, t)
  BY UpToStays DEF Writes
<1>2. UpTo(h, t) \in SUBSET (1 .. Len(h))
  BY DEF UpTo
<1> QED BY <1>1, <1>2, LastStays

\* Every step keeps the last reads of RDRAM right.
LEMMA RamReadsStay == ASSUME JournalInv, [JournalNext]_jvars PROVE RamReads'
<1> USE JournalFacts
<1>0. /\ RamReads /\ RamKept /\ rread.at \in Nat /\ cread.at \in Nat /\ jlead \in Nat /\ UNCHANGED jlead
  BY LogSteps DEF JournalInv, JournalTyped, ScalarsTyped, ReadsTyped
<1>1. CASE journalRetire
  <2>1. UNCHANGED <<jc, jr, jrpc, ramHist, rread, cread>>
    BY <1>1, RetireLog
  <2> QED BY <2>1, <1>0 DEF RamReads, RspDone
<1>2. CASE cpuStore
  <2> DEFINE h == [at |-> jc + 1, v |-> wr.cpu + 1, rsp |-> FALSE]
  <2>1. ramHist' = Append(ramHist, h) /\ jc' = jc + 1 /\ UNCHANGED <<jr, jrpc, rread, cread>>
    BY <1>2 DEF cpuStore, InstrDone, readVars
  <2>2. h \in Writes /\ h.at = jc + 1
    BY DEF JournalInv, JournalTyped, CountsTyped, Writes
  <2> HIDE DEF h
  <2>3. /\ rread.at <= jc /\ LastIn(ramHist, UpTo(ramHist, rread.at), rread.v) /\ rread.at < jr
        /\ cread.at <= jc /\ (jlead = 0 => RspDone \/ cread.at < jr)
        /\ (jlead = 0 /\ cread.kind = "ram" => LastIn(ramHist, UpTo(ramHist, cread.at), cread.v))
    BY <1>0 DEF RamReads
  <2>4. h.at > rread.at /\ h.at > cread.at
    BY <2>2, <2>3, <1>0
  <2>5. LastIn(ramHist', UpTo(ramHist', rread.at), rread.v)
    BY <2>1, <2>2, <2>3, <2>4, <1>0, ReadStays
  <2>6. jlead = 0 /\ cread.kind = "ram" => LastIn(ramHist', UpTo(ramHist', cread.at), cread.v)
    BY <2>1, <2>2, <2>3, <2>4, <1>0, ReadStays
  <2>7. rread.at <= jc + 1 /\ cread.at <= jc + 1
    BY <2>3, <1>0
  <2> QED BY <2>1, <2>3, <2>5, <2>6, <2>7, <1>0 DEF RamReads, RspDone
<1>3. CASE rspDmaWrite
  <2> DEFINE h == [at |-> jr, v |-> RspVal, rsp |-> TRUE]
  <2>1. ramHist' = Append(ramHist, h) /\ jr' = jr + 1 /\ jrpc = "run" /\ jrpc' = "run" /\ UNCHANGED <<jc, rread, cread>>
    BY <1>3 DEF rspDmaWrite, RspOn, readVars
  <2>2. h \in Writes /\ h.at = jr
    BY DEF JournalInv, JournalTyped, CountsTyped, Writes, RspVal
  <2> HIDE DEF h
  <2>3. /\ rread.at <= jc /\ LastIn(ramHist, UpTo(ramHist, rread.at), rread.v) /\ rread.at < jr
        /\ cread.at <= jc /\ (jlead = 0 => cread.at < jr)
        /\ (jlead = 0 /\ cread.kind = "ram" => LastIn(ramHist, UpTo(ramHist, cread.at), cread.v))
    BY <2>1, <1>0 DEF RamReads, RspDone
  <2>4. h.at > rread.at /\ (jlead = 0 => h.at > cread.at)
    BY <2>2, <2>3, <1>0
  <2>5. LastIn(ramHist', UpTo(ramHist', rread.at), rread.v)
    BY <2>1, <2>2, <2>3, <2>4, <1>0, ReadStays
  <2>6. jlead = 0 /\ cread.kind = "ram" => LastIn(ramHist', UpTo(ramHist', cread.at), cread.v)
    BY <2>1, <2>2, <2>3, <2>4, <1>0, ReadStays
  <2>7. rread.at < jr + 1 /\ (jlead = 0 => cread.at < jr + 1)
    BY <2>3, <1>0
  <2> QED BY <2>1, <2>3, <2>5, <2>6, <2>7, <1>0 DEF RamReads
<1>4. CASE rspDmaRead
  <2>1. /\ rread' = [at |-> jr, v |-> ram] /\ jr' = jr + 1 /\ jrpc = "run" /\ jrpc' = "run"
        /\ jc >= jr /\ UNCHANGED <<jc, cread, ramHist>>
        /\ \A k \in 1 .. Len(log) : log[k].kind # "dma"
    <3>1. DOMAIN log = 1 .. Len(log)
      BY LenProperties
    <3> QED BY <1>4, <3>1 DEF rspDmaRead, dmaReadReady, NoDmaPending, RspOn, memVars
  <2>2. Applied = 1 .. Len(ramHist)
    BY <2>1 DEF Applied, AppliedOf, LogDates
  <2>3. UpTo(ramHist, jr) = 1 .. Len(ramHist)
    BY <2>1, <1>0 DEF RamKept, RamDated, UpTo, RspDone
  <2>4. LastIn(ramHist, UpTo(ramHist, jr), ram)
    BY <2>2, <2>3, <1>0 DEF RamKept, RamIsNewest
  <2>5. rread'.at = jr /\ rread'.v = ram
    BY <2>1
  <2>6. LastIn(ramHist', UpTo(ramHist', rread'.at), rread'.v) /\ rread'.at < jr' /\ rread'.at <= jc'
    BY <2>1, <2>4, <2>5
  <2>7. cread.at <= jc /\ (jlead = 0 => cread.at < jr + 1)
    BY <2>1, <1>0 DEF RamReads, RspDone
  <2> QED BY <2>1, <2>6, <2>7, <1>0 DEF RamReads
<1>5. CASE cpuLoad
  <2>1. /\ cread' = [kind |-> "ram", at |-> jc, v |-> ram] /\ jc' = jc + 1 /\ ~LogDue /\ jpc = "exec"
        /\ UNCHANGED <<jr, jrpc, rread, ramHist>>
    BY <1>5 DEF cpuLoad, InstrDone, memVars
  <2>2. cread'.kind = "ram" /\ cread'.at = jc /\ cread'.v = ram
    BY <2>1
  <2>3. Applied = UpTo(ramHist, jc)
    <3>1. ASSUME NEW k \in 1 .. Len(ramHist), ramHist[k].rsp, ramHist[k].at \in LogDates(log, "dma")
          PROVE  ramHist[k].at > jc
      <4>1. \A l \in 1 .. Len(log) : log[l].at > jc
        BY <2>1, NotDue
      <4> QED BY <3>1, <4>1 DEF LogDates
    <3>2. \A k \in Applied : ramHist[k].at <= jc
      BY <1>0 DEF RamKept, AppliedPast
    <3> QED BY <3>1, <3>2 DEF Applied, AppliedOf, UpTo
  <2>4. LastIn(ramHist, UpTo(ramHist, jc), ram)
    BY <2>3, <1>0 DEF RamKept, RamIsNewest
  <2>5. jlead = 0 => RspDone \/ jc < jr
    BY <2>1 DEF JournalInv, CpuBehind
  <2>6. rread.at <= jc + 1 /\ rread.at < jr /\ LastIn(ramHist, UpTo(ramHist, rread.at), rread.v)
    BY <1>0 DEF RamReads
  <2> QED BY <2>1, <2>2, <2>4, <2>5, <2>6, <1>0 DEF RamReads, RspDone
<1>6. CASE cpuReadDpc \/ cpuCopyDpc \/ cpuReadAgain
  <2>1. /\ UNCHANGED <<jr, jrpc, rread, ramHist>>
        /\ \/ cread'.kind # "ram" /\ cread'.at \in {jc, cread.at} /\ jc' \in {jc, jc + 1} /\ jpc \in {"exec", "copy", "view"}
           \/ UNCHANGED <<cread, jc>>
    <3>1. UNCHANGED <<jr, jrpc, rread, ramHist>>
      BY <1>6 DEF cpuReadDpc, cpuCopyDpc, cpuReadAgain, memVars
    <3>2. CASE cpuReadDpc
      BY <3>1, <3>2 DEF cpuReadDpc, InstrDone
    <3>3. CASE cpuCopyDpc
      BY <3>1, <3>3 DEF cpuCopyDpc
    <3>4. CASE cpuReadAgain
      <4>1. cread'.kind = "dpc" /\ cread'.at = cread.at
        BY <3>4 DEF cpuReadAgain, JournalInv, JournalTyped, ReadsTyped
      <4> QED BY <3>1, <3>4, <4>1 DEF cpuReadAgain, InstrDone
    <3> QED BY <1>6, <3>2, <3>3, <3>4
  <2>2. jlead = 0 /\ jpc # "retire" => RspDone \/ jc < jr
    BY DEF JournalInv, CpuBehind
  <2>3. /\ rread.at <= jc /\ rread.at < jr /\ LastIn(ramHist, UpTo(ramHist, rread.at), rread.v)
        /\ cread.at <= jc /\ (jlead = 0 => RspDone \/ cread.at < jr)
    BY <1>0 DEF RamReads
  <2>4. CASE UNCHANGED <<cread, jc>>
    BY <2>1, <2>4, <1>0 DEF RamReads, RspDone
  <2>5. CASE cread'.kind # "ram" /\ cread'.at \in {jc, cread.at} /\ jc' \in {jc, jc + 1} /\ jpc \in {"exec", "copy", "view"}
    <3>1. rread.at <= jc' /\ cread'.at <= jc'
      BY <2>3, <2>5, <1>0
    <3>2. jlead = 0 => RspDone \/ cread'.at < jr
      BY <2>2, <2>3, <2>5
    <3> QED BY <3>1, <3>2, <2>1, <2>3, <2>5, <1>0 DEF RamReads, RspDone
  <2> QED BY <2>1, <2>4, <2>5
<1>7. CASE ~journalRetire /\ ~cpuStore /\ ~rspDmaWrite /\ UNCHANGED <<cread, rread>>
  <2>1. /\ UNCHANGED ramHist /\ jc' \in Nat /\ jr' \in Nat /\ jc' >= jc /\ jr' >= jr
        /\ RspDone => RspDone'
    BY <1>7, RamQuiet
  <2>2. rread.at < jr' /\ rread.at <= jc' /\ cread.at <= jc' /\ (jlead = 0 => RspDone' \/ cread.at < jr')
    BY <2>1, <1>0 DEF RamReads
  <2> QED BY <2>1, <2>2, <1>0, <1>7 DEF RamReads
<1>8. ~(cpuLoad \/ cpuReadDpc \/ cpuCopyDpc \/ cpuReadAgain \/ rspDmaRead) => UNCHANGED <<cread, rread>>
  BY DEF JournalNext, jvars, journalRetire, logApplyOne, dpcMbCpu, journalOn, journalInstr,
         cpuStore, cpuPostDpc, cpuWriteDpc, rspOther, readVars,
         rspDmaWrite, dpcMbRsp, rspDpcWrite, rspDpcLive, rspDpcPush, rspStops
<1> QED BY <1>1, <1>2, <1>3, <1>4, <1>5, <1>6, <1>7, <1>8

----------------------------------------------------------------------------
\* The last of the writes up to t is what DpcAt says.
LEMMA LastIsDpcAt ==
  ASSUME NEW t \in Nat, NEW v, LastD(dpcHist, UpTo(dpcHist, t), v), dpcHist \in Seq(DpcWrites)
  PROVE  DpcAt(t) = v
<1> DEFINE ks == UpTo(dpcHist, t)
<1>1. DOMAIN dpcHist = 1 .. Len(dpcHist) /\ ks \in SUBSET Nat
  BY LenProperties DEF UpTo
<1>2. DpcAt(t) = IF ks = {} THEN 0 ELSE dpcHist[CHOOSE k \in ks : \A j \in ks : j <= k].v
  BY <1>1 DEF DpcAt, UpTo
<1> HIDE DEF ks
<1>3. CASE ks = {} /\ v = 0
  BY <1>2, <1>3
<1>4. CASE \E k \in ks : v = dpcHist[k].v /\ \A j \in ks : j <= k
  <2>1. PICK k \in ks : v = dpcHist[k].v /\ \A j \in ks : j <= k
    BY <1>4
  <2>2. \A i \in ks : (\A j \in ks : j <= i) => i = k
    BY <2>1, <1>1
  <2>3. (CHOOSE i \in ks : \A j \in ks : j <= i) = k /\ ks # {}
    BY <2>1, <2>2
  <2> QED BY <2>1, <2>3, <1>2
<1> QED BY <1>3, <1>4 DEF LastD, ks

\* The last of the old writes of the register is the same in the longer history.
LEMMA LastDStays ==
  ASSUME NEW h \in Seq(DpcWrites), NEW w \in DpcWrites, NEW ks \in SUBSET (1 .. Len(h)), NEW v, LastD(h, ks, v)
  PROVE  LastD(Append(h, w), ks, v)
<1>1. \A k \in 1 .. Len(h) : Append(h, w)[k] = h[k]
  BY HistGrows
<1>2. CASE ks = {} /\ v = 0
  BY <1>2 DEF LastD
<1>3. CASE \E k \in ks : v = h[k].v /\ \A j \in ks : j <= k
  <2>1. PICK k \in ks : v = h[k].v /\ \A j \in ks : j <= k
    BY <1>3
  <2>2. v = Append(h, w)[k].v
    BY <2>1, <1>1
  <2> QED BY <2>1, <2>2 DEF LastD
<1> QED BY <1>2, <1>3 DEF LastD

\* The newest write is the last of any set of writes it is in.
LEMMA LastDAdded ==
  ASSUME NEW h \in Seq(DpcWrites), NEW w \in DpcWrites, NEW ks \in SUBSET (1 .. Len(h))
  PROVE  LastD(Append(h, w), ks \cup {Len(h) + 1}, w.v)
<1>1. Append(h, w)[Len(h) + 1] = w /\ Len(h) \in Nat
  BY HistGrows
<1>2. \A j \in ks \cup {Len(h) + 1} : j <= Len(h) + 1
  BY <1>1
<1> QED BY <1>1, <1>2 DEF LastD

\* A read of the register is not changed by a later write.
LEMMA DpcReadStays ==
  ASSUME NEW h \in Seq(DpcWrites), NEW w \in DpcWrites, NEW t \in Nat, NEW v, w.at > t,
         LastD(h, UpTo(h, t), v)
  PROVE  LastD(Append(h, w), UpTo(Append(h, w), t), v)
<1>1. UpTo(Append(h, w), t) = UpTo(h, t)
  BY UpToStays DEF DpcWrites
<1>2. UpTo(h, t) \in SUBSET (1 .. Len(h))
  BY DEF UpTo
<1> QED BY <1>1, <1>2, LastDStays

\* The hypothesis of this part: no lead, and the mailbox has never been full.
LEMMA DpcHypothesis ==
  ASSUME JournalInv, [JournalNext]_jvars, ~direct', jlead' = 0
  PROVE  ~direct /\ jlead = 0 /\ ViewsKept /\ ViewReads /\ jlead' = jlead
<1>1. jlead = 0 /\ jlead' = jlead
  BY LogSteps
<1>2. ~direct
  BY DEF JournalNext, jvars, journalRetire, logApplyOne, dpcMbCpu, journalOn, journalInstr, cpuLoad,
         cpuStore, cpuReadDpc, cpuCopyDpc, cpuReadAgain, cpuPostDpc, cpuWriteDpc, rspOther,
         rspDmaWrite, rspDmaRead, dpcMbRsp, rspDpcWrite, rspDpcLive, rspDpcPush, rspStops,
         JournalInv, JournalTyped, ScalarsTyped
<1> QED BY <1>1, <1>2 DEF JournalInv, DpcKept

\* dpLogApply of a view.
LEMMA ViewsRetired == ASSUME JournalInv, journalRetire, jlead = 0, ViewsKept PROVE ViewsKept'
<1> USE JournalFacts
<1>1. /\ log # <<>> /\ Rising(log) /\ log' = Tail(log) /\ Head(log).at <= jc
      /\ UNCHANGED <<jc, jr, jrpc, dpcHist, dpcLive>>
      /\ \/ Head(log).kind = "dma" /\ UNCHANGED cpuDpcView
         \/ Head(log).kind = "view" /\ cpuDpcView' = Head(log).v
  BY RetireLog
<1> DEFINE e == log[1]
           n == Len(log) - 1
<1>0. log \in Seq(LogEntries)
  OBVIOUS
<1>2. /\ Len(log') = n /\ Head(log) = e /\ e \in LogEntries /\ 1 \in 1 .. Len(log)
      /\ \A k \in 1 .. n : log'[k] = log[k + 1] /\ k + 1 \in 1 .. Len(log) /\ e.at < log[k + 1].at
      /\ \A kind : LogDates(log, kind) = LogDates(log', kind) \cup IF e.kind = kind THEN {e.at} ELSE {}
      /\ \A kind : e.at \notin LogDates(log', kind)
  BY ONLY <1>0, <1>1, LogTail
<1>3. e.kind \in {"dma", "view"} /\ e.at \in Nat /\ e.at < jr
  BY <1>2 DEF LogEntries, JournalInv, LogInOrder
<1>4. Unseen = Unseen' \cup (IF e.kind = "view" THEN {e.at} ELSE {}) /\ (e.at \notin Unseen')
  BY <1>1, <1>2, <1>3 DEF Unseen
<1>5. DpcRises' /\ DpcDated'
  BY <1>1, <1>4 DEF ViewsKept, DpcRises, DpcDated
<1>6. ViewFiled'
  BY <1>1, <1>2 DEF ViewsKept, ViewFiled
<1>7. CASE e.kind = "dma"
  <2>1. Unseen' = Unseen /\ AppliedD' = AppliedD
    BY <1>1, <1>4, <1>7 DEF AppliedD
  <2>2. DpcIsNewest' /\ SeenPast'
    BY <2>1, <1>1, <1>2, <1>7 DEF ViewsKept, DpcIsNewest, SeenPast
  <2> QED BY <2>2, <1>5, <1>6 DEF ViewsKept
<1>8. CASE e.kind = "view"
  <2>1. PICK i \in 1 .. Len(dpcHist) : dpcHist[i] = [at |-> e.at, v |-> e.v]
    BY <1>2, <1>8 DEF ViewsKept, ViewFiled
  <2>2. dpcHist[i].at = e.at /\ dpcHist[i].v = e.v /\ e.at \in Unseen /\ i \in Nat
    BY <2>1, <1>4, <1>8
  <2>3. \A k \in 1 .. Len(dpcHist) : dpcHist[k].at = e.at => k = i
    <3> TAKE k \in 1 .. Len(dpcHist)
    <3> HAVE dpcHist[k].at = e.at
    <3>1. ~(k < i) /\ ~(i < k)
      BY <2>2, <1>3 DEF ViewsKept, DpcRises
    <3> QED BY <3>1, <2>2
  <2>4. AppliedD' = AppliedD \cup {i} /\ AppliedD \in SUBSET (1 .. Len(dpcHist))
    BY <2>2, <2>3, <1>1, <1>4, <1>8 DEF AppliedD
  <2>5. \A j \in AppliedD : j <= i
    <3> TAKE j \in AppliedD
    <3>1. j \in 1 .. Len(dpcHist) /\ dpcHist[j].at < e.at /\ dpcHist[j].at \in Nat
      BY <2>2, <2>4 DEF ViewsKept, SeenPast
    <3>2. ~(i < j)
      BY <3>1, <2>2, <1>3 DEF ViewsKept, DpcRises
    <3> QED BY <3>1, <3>2, <2>2
  <2>6. LastD(dpcHist, AppliedD \cup {i}, e.v)
    BY <2>2, <2>5 DEF LastD
  <2>7. DpcIsNewest'
    BY <2>4, <2>6, <1>1, <1>2, <1>8 DEF ViewsKept, DpcIsNewest
  <2>8. SeenPast'
    <3>1. \A k \in AppliedD \cup {i} : dpcHist[k].at <= jc
      BY <2>2, <1>1, <1>2 DEF ViewsKept, SeenPast
    <3>2. \A t \in Unseen' : e.at < t
      <4>1. \A l \in 1 .. n : e.at < log'[l].at
        BY <1>2
      <4>2. \A t \in LogDates(log', "view") : e.at < t
        BY <4>1, <1>2 DEF LogDates
      <4> QED BY <4>2, <1>1, <1>3 DEF Unseen
    <3>3. \A k \in AppliedD \cup {i}, t \in Unseen' : dpcHist[k].at < t
      BY <3>2, <2>2, <1>4 DEF ViewsKept, SeenPast
    <3> QED BY <3>1, <3>3, <2>4, <1>1 DEF SeenPast
  <2> QED BY <2>7, <2>8, <1>5, <1>6 DEF ViewsKept
<1> QED BY <1>3, <1>7, <1>8

\* Once the CPU is past the end of the task, nothing is left in the journal.
LEMMA NothingUnseen ==
  ASSUME JournalInv, jlead = 0, RspDone, jc >= jr
  PROVE  log = <<>> /\ Unseen = {} /\ AppliedD = 1 .. Len(dpcHist)
<1> USE JournalFacts
<1>1. \A k \in 1 .. Len(log) : log[k].at >= jc /\ log[k].at < jr
  BY DEF JournalInv, CpuBehind, LogInOrder
<1>2. Len(log) = 0
  <2> SUFFICES ASSUME Len(log) # 0 PROVE FALSE
    OBVIOUS
  <2>1. 1 \in 1 .. Len(log)
    OBVIOUS
  <2> QED BY <2>1, <1>1
<1>3. log = <<>>
  BY <1>2, EmptySeq
<1>4. LogDates(log, "view") = {}
  BY <1>2 DEF LogDates
<1>5. Unseen = {}
  BY <1>4 DEF Unseen, RspDone
<1> QED BY <1>3, <1>5 DEF AppliedD

\* A write of the CPU to the register, after the task.
LEMMA ViewsWritten ==
  ASSUME JournalInv, jlead = 0, ViewsKept, RspDone, jc >= jr, NEW v \in Nat,
         dpcHist' = Append(dpcHist, [at |-> jc, v |-> v]), dpcLive' = v, cpuDpcView' = v,
         jc' \in {jc, jc + 1}, UNCHANGED <<log, jr, jrpc>>
  PROVE  ViewsKept'
<1> USE JournalFacts
<1> DEFINE w == [at |-> jc, v |-> v]
           n == Len(dpcHist)
<1>1. w \in DpcWrites /\ w.at = jc /\ w.v = v /\ dpcHist' = Append(dpcHist, w)
  BY DEF DpcWrites
<1> HIDE DEF w
<1>2. log = <<>> /\ Unseen = {} /\ AppliedD = 1 .. n
  BY NothingUnseen
<1>3. /\ Len(dpcHist') = n + 1 /\ dpcHist'[n + 1] = w
      /\ \A k \in 1 .. n : dpcHist'[k] = dpcHist[k] /\ k # n + 1
      /\ 1 .. n + 1 = (1 .. n) \cup {n + 1}
  BY <1>1, HistGrows
<1>4. Unseen' = {}
  BY <1>2 DEF Unseen
<1>5. AppliedD' = 1 .. n + 1
  BY <1>3, <1>4 DEF AppliedD
<1>6. \A k \in 1 .. n : dpcHist[k].at <= jc
  BY <1>2 DEF ViewsKept, SeenPast
<1>7. \A k \in 1 .. n + 1 : dpcHist'[k].at <= jc
  <2> TAKE k \in 1 .. n + 1
  <2>1. CASE k = n + 1
    BY <2>1, <1>1, <1>3
  <2>2. CASE k \in 1 .. n
    BY <2>2, <1>3, <1>6
  <2> QED BY <2>1, <2>2, <1>3
<1>8. DpcRises'
  <2>1. ASSUME NEW k \in 1 .. n + 1, NEW l \in 1 .. n + 1, k < l PROVE dpcHist'[k].at <= dpcHist'[l].at
    <3>1. k \in 1 .. n
      BY <2>1
    <3>2. CASE l = n + 1
      BY <3>1, <3>2, <1>1, <1>3, <1>6
    <3>3. CASE l \in 1 .. n
      BY <3>1, <3>3, <2>1, <1>3 DEF ViewsKept, DpcRises
    <3> QED BY <3>2, <3>3, <1>3
  <2> QED BY <2>1, <1>3, <1>4 DEF DpcRises
<1>9. DpcIsNewest'
  <2>1. LastD(dpcHist', (1 .. n) \cup {n + 1}, v)
    BY <1>1, LastDAdded
  <2> QED BY <2>1, <1>3, <1>5 DEF DpcIsNewest
<1>10. SeenPast'
  <2>1. \A k \in 1 .. n + 1 : dpcHist'[k].at \in Nat
    <3> TAKE k \in 1 .. n + 1
    <3> QED BY <1>1, <1>3
  <2>2. \A k \in 1 .. n + 1 : dpcHist'[k].at <= jc'
    BY <2>1, <1>7
  <2> QED BY <2>2, <1>4, <1>5 DEF SeenPast
<1>11. ViewFiled' /\ DpcDated'
  BY <1>2 DEF ViewFiled, DpcDated, RspDone
<1> QED BY <1>8, <1>9, <1>10, <1>11 DEF ViewsKept

\* A write of the RSP reaches the register before its view is filed.
LEMMA ViewsLive == ASSUME JournalInv, jlead = 0, ViewsKept, rspDpcLive PROVE ViewsKept'
<1> USE JournalFacts
<1> DEFINE w == [at |-> jr, v |-> writing]
           n == Len(dpcHist)
<1>1. /\ jrpc = "live" /\ jrpc' = "push" /\ dpcLive' = writing /\ dpcHist' = Append(dpcHist, w)
      /\ UNCHANGED <<jc, jr, log, cpuDpcView>>
  BY DEF rspDpcLive
<1>2. w \in DpcWrites /\ w.at = jr /\ w.v = writing
  BY DEF DpcWrites, JournalInv, JournalTyped, ScalarsTyped
<1> HIDE DEF w
<1>3. /\ Len(dpcHist') = n + 1 /\ dpcHist'[n + 1] = w
      /\ \A k \in 1 .. n : dpcHist'[k] = dpcHist[k] /\ k # n + 1
      /\ 1 .. n + 1 = (1 .. n) \cup {n + 1}
  BY <1>1, <1>2, HistGrows
<1>4. Unseen' = Unseen \cup {jr}
  BY <1>1 DEF Unseen
<1>5. \A k \in 1 .. n : dpcHist[k].at < jr /\ dpcHist[k].at # jr
  BY <1>1 DEF ViewsKept, DpcDated
<1>6. AppliedD' = AppliedD /\ AppliedD \in SUBSET (1 .. n)
  BY <1>2, <1>3, <1>4, <1>5 DEF AppliedD
<1>7. DpcRises'
  <2>1. ASSUME NEW k \in 1 .. n + 1, NEW l \in 1 .. n + 1, k < l
        PROVE  /\ dpcHist'[k].at <= dpcHist'[l].at
               /\ dpcHist'[l].at \in Unseen' => dpcHist'[k].at < dpcHist'[l].at
    <3>1. k \in 1 .. n
      BY <2>1
    <3>2. CASE l = n + 1
      BY <3>1, <3>2, <1>2, <1>3, <1>5
    <3>3. CASE l \in 1 .. n
      BY <3>1, <3>3, <2>1, <1>3, <1>4, <1>5 DEF ViewsKept, DpcRises
    <3> QED BY <3>2, <3>3, <1>3
  <2> QED BY <2>1, <1>3 DEF DpcRises
<1>8. DpcIsNewest'
  <2>1. LastD(dpcHist', (1 .. n) \cup {n + 1}, writing)
    BY <1>1, <1>2, LastDAdded
  <2>2. LastD(dpcHist', AppliedD, cpuDpcView)
    BY <1>1, <1>2, <1>6, LastDStays DEF ViewsKept, DpcIsNewest
  <2> QED BY <2>1, <2>2, <1>1, <1>3, <1>6 DEF DpcIsNewest
<1>9. SeenPast'
  BY <1>1, <1>3, <1>4, <1>5, <1>6 DEF ViewsKept, SeenPast
<1>10. ViewFiled'
  <2> SUFFICES ASSUME NEW l \in 1 .. Len(log), log[l].kind = "view"
               PROVE  \E k \in 1 .. n + 1 : dpcHist'[k] = [at |-> log[l].at, v |-> log[l].v]
    BY <1>1, <1>3 DEF ViewFiled
  <2>1. PICK k \in 1 .. n : dpcHist[k] = [at |-> log[l].at, v |-> log[l].v]
    BY DEF ViewsKept, ViewFiled
  <2> QED BY <2>1, <1>3
<1>11. DpcDated'
  <2>1. Len(dpcHist') > 0 /\ dpcHist'[Len(dpcHist')].at = jr
    BY <1>2, <1>3
  <2>2. \A k \in 1 .. Len(dpcHist') : k # Len(dpcHist') => dpcHist'[k].at < jr
    <3>1. ASSUME NEW k \in 1 .. n + 1, k # n + 1 PROVE dpcHist'[k].at < jr
      <4>1. k \in 1 .. n
        BY ONLY <3>1, <1>3
      <4> QED BY ONLY <4>1, <1>3, <1>5
    <3>2. \A k \in 1 .. n + 1 : k # n + 1 => dpcHist'[k].at < jr
      BY ONLY <3>1
    <3> QED BY ONLY <3>2, <1>3
  <2> QED BY <2>1, <2>2, <1>1 DEF DpcDated
<1> QED BY <1>7, <1>8, <1>9, <1>10, <1>11 DEF ViewsKept

\* An entry of the journal comes in.
LEMMA ViewsFiled == ASSUME JournalInv, jlead = 0, ViewsKept, rspDmaWrite \/ rspDpcPush PROVE ViewsKept'
<1> USE JournalFacts
<1> DEFINE n == Len(dpcHist)
           lo == Len(log)
<1>0. log \in Seq(LogEntries)
  OBVIOUS
<1>1. PICK e \in LogEntries :
           /\ e.at = jr /\ log' = Append(log, e) /\ log \in Seq(LogEntries) /\ Rising(log)
           /\ \A k \in 1 .. Len(log) : log[k].at < e.at
           /\ jr' = jr + 1 /\ UNCHANGED <<jc, cpuDpcView, dpcHist, dpcLive>>
           /\ jrpc' = "run"
           /\ \/ e.kind = "dma" /\ jrpc = "run"
              \/ e = [at |-> jr, kind |-> "view", v |-> dpcLive] /\ jrpc = "push"
  BY FileLog
<1>2. /\ Len(log') = lo + 1 /\ log'[lo + 1] = e
      /\ \A k \in 1 .. lo : log'[k] = log[k]
      /\ \A k \in 1 .. lo + 1 : k = lo + 1 \/ k \in 1 .. lo
      /\ \A kind : LogDates(log', kind) = LogDates(log, kind) \cup IF e.kind = kind THEN {e.at} ELSE {}
  BY ONLY <1>0, <1>1, LogAppend
<1>3. e = [at |-> jr, kind |-> "view", v |-> dpcLive] => e.kind = "view" /\ e.v = dpcLive
  OBVIOUS
<1>4. Unseen' = Unseen
  BY <1>1, <1>2, <1>3 DEF Unseen
<1>5. AppliedD' = AppliedD
  BY <1>1, <1>4 DEF AppliedD
<1>6. DpcRises' /\ DpcIsNewest' /\ SeenPast'
  BY <1>1, <1>4, <1>5 DEF ViewsKept, DpcRises, DpcIsNewest, SeenPast
<1>7. ViewFiled'
  <2> SUFFICES ASSUME NEW l \in 1 .. lo + 1, log'[l].kind = "view"
               PROVE  \E k \in 1 .. n : dpcHist[k] = [at |-> log'[l].at, v |-> log'[l].v]
    BY <1>1, <1>2 DEF ViewFiled
  <2>1. CASE l \in 1 .. lo
    BY <2>1, <1>2 DEF ViewsKept, ViewFiled
  <2>2. CASE l = lo + 1
    <3>1. log'[l] = e /\ e.kind = "view"
      BY <2>2, <1>2
    <3>2. jrpc = "push" /\ e.v = dpcLive
      BY <3>1, <1>1
    <3>3. n > 0 /\ dpcHist[n].at = jr /\ n \in 1 .. n
      BY <3>2 DEF ViewsKept, DpcDated
    <3>4. dpcLive = dpcHist[n].v
      <4>1. PICK k \in 1 .. n : dpcLive = dpcHist[k].v /\ \A j \in 1 .. n : j <= k
        BY <3>3 DEF ViewsKept, DpcIsNewest, LastD
      <4>2. k = n
        BY <4>1, <3>3
      <4> QED BY <4>1, <4>2
    <3>5. dpcHist[n] = [at |-> jr, v |-> dpcLive]
      BY <3>3, <3>4 DEF DpcWrites
    <3> QED BY <3>1, <3>2, <3>3, <3>5, <1>1
  <2> QED BY <2>1, <2>2, <1>2
<1>8. DpcDated'
  <2>1. \A k \in 1 .. n : dpcHist[k].at < jr + 1
    BY <1>1 DEF ViewsKept, DpcDated
  <2> QED BY <2>1, <1>1 DEF DpcDated
<1> QED BY <1>6, <1>7, <1>8 DEF ViewsKept

\* The steps that leave the register alone move the clocks forward.
LEMMA ViewsQuiet ==
  ASSUME JournalInv, jlead = 0, ViewsKept, UNCHANGED <<log, dpcHist, dpcLive, cpuDpcView>>,
         jc' \in Nat, jr' \in Nat, jc' >= jc, jr' >= jr,
         jrpc' = "push" => jrpc = "push" /\ UNCHANGED jr,
         jrpc = "push" => jrpc' = "push",
         jrpc' \in {"run", "live"} => jrpc \in {"run", "live"}
  PROVE  ViewsKept'
<1> USE JournalFacts
<1>1. Unseen' = Unseen
  BY DEF Unseen
<1>2. AppliedD' = AppliedD /\ AppliedD \in SUBSET (1 .. Len(dpcHist))
  BY <1>1 DEF AppliedD
<1>3. DpcRises' /\ DpcIsNewest' /\ ViewFiled'
  BY <1>1, <1>2 DEF ViewsKept, DpcRises, DpcIsNewest, ViewFiled
<1>4. SeenPast'
  BY <1>1, <1>2 DEF ViewsKept, SeenPast
<1>5. DpcDated'
  <2>0. DpcDated
    BY DEF ViewsKept
  <2>1. ASSUME jrpc' \in {"run", "live"}, NEW k \in 1 .. Len(dpcHist) PROVE dpcHist[k].at < jr'
    <3>1. dpcHist[k].at < jr
      BY <2>0, <2>1 DEF DpcDated
    <3> QED BY <3>1
  <2>2. ASSUME jrpc' = "push"
        PROVE  /\ Len(dpcHist) > 0 /\ dpcHist[Len(dpcHist)].at = jr'
               /\ \A k \in 1 .. Len(dpcHist) : k # Len(dpcHist) => dpcHist[k].at < jr'
    BY <2>0, <2>2 DEF DpcDated
  <2> QED BY <2>1, <2>2 DEF DpcDated
<1> QED BY <1>3, <1>4, <1>5 DEF ViewsKept

\* Every step keeps the register, the view of the CPU and the views filed together.
LEMMA ViewsStayKept == ASSUME JournalInv, [JournalNext]_jvars, ~direct', jlead' = 0 PROVE ViewsKept'
<1> USE JournalFacts
<1>0. ~direct /\ jlead = 0 /\ ViewsKept
  BY DpcHypothesis
<1>1. CASE journalRetire
  BY <1>0, <1>1, ViewsRetired
<1>2. CASE dpcMbCpu
  <2>1. /\ RspDone /\ jc >= jr /\ mail # <<>> /\ dpcLive' = Head(mail).v /\ cpuDpcView' = Head(mail).v
        /\ dpcHist' = Append(dpcHist, [at |-> jc, v |-> Head(mail).v]) /\ UNCHANGED <<jc, log, jr, jrpc>>
    BY <1>2 DEF dpcMbCpu
  <2>2. Head(mail).v \in Nat
    <3>1. Head(mail) \in Mails
      BY <2>1, HeadTailProperties DEF JournalInv, JournalTyped, SeqsTyped
    <3> QED BY <3>1 DEF Mails
  <2> QED BY <2>1, <2>2, <1>0, ViewsWritten
<1>3. CASE cpuWriteDpc
  <2>1. /\ ~MustPost /\ dpcLive' = posted + 1 /\ cpuDpcView' = posted + 1 /\ jc' = jc + 1
        /\ dpcHist' = Append(dpcHist, [at |-> jc, v |-> posted + 1]) /\ UNCHANGED <<log, jr, jrpc>>
    BY <1>3 DEF cpuWriteDpc, InstrDone
  <2>2. RspDone /\ jc >= jr
    BY <2>1 DEF MustPost, Halted
  <2>3. posted + 1 \in Nat
    BY DEF JournalInv, JournalTyped, ScalarsTyped
  <2> QED BY <2>1, <2>2, <2>3, <1>0, ViewsWritten
<1>4. CASE rspDpcLive
  BY <1>0, <1>4, ViewsLive
<1>5. CASE rspDmaWrite \/ rspDpcPush
  BY <1>0, <1>5, ViewsFiled
<1>6. CASE UNCHANGED <<log, dpcHist, dpcLive, cpuDpcView>> /\ ~rspDmaWrite /\ ~rspDpcPush /\ ~rspDpcLive /\ ~journalRetire
  <2>1. jc' \in Nat /\ jr' \in Nat /\ jc' >= jc /\ jr' >= jr
    BY <1>6, LogSteps DEF InstrDone, RspOn, journalOn
  <2>2. /\ jrpc' = "push" => jrpc = "push" /\ UNCHANGED jr
        /\ jrpc = "push" => jrpc' = "push"
        /\ jrpc' \in {"run", "live"} => jrpc \in {"run", "live"}
    <3>1. jrpc = "live" /\ jrpc' = "push" => rspDpcLive
      BY <1>6 DEF JournalNext, jvars, journalRetire, dpcMbCpu, journalOn, journalInstr, cpuLoad,
         cpuStore, cpuReadDpc, cpuCopyDpc, cpuReadAgain, cpuPostDpc, cpuWriteDpc, rspOther, RspOn,
         rspDmaRead, dpcMbRsp, rspDpcWrite, rspDpcBegin, rspStops
    <3> QED BY <3>1, <1>6, LogSteps DEF RspOn, journalOn
  <2> QED BY <2>1, <2>2, <1>0, <1>6, ViewsQuiet
<1>7. ~(journalRetire \/ dpcMbCpu \/ cpuWriteDpc \/ rspDpcLive \/ rspDmaWrite \/ rspDpcPush)
        => UNCHANGED <<log, dpcHist, dpcLive, cpuDpcView>>
  BY DEF JournalNext, jvars, journalOn, journalInstr, cpuLoad, dpcVars, memVars,
         cpuStore, cpuReadDpc, cpuCopyDpc, cpuReadAgain, cpuPostDpc, rspOther,
         rspDmaRead, dpcMbRsp, rspDpcWrite, rspDpcBegin, rspStops
<1> QED BY <1>1, <1>2, <1>3, <1>4, <1>5, <1>6, <1>7

----------------------------------------------------------------------------
\* The views filed can be counted.
LEMMA ViewsAreFinite ==
  ASSUME JournalInv
  PROVE  IsFiniteSet(LogDates(log, "view")) /\ Cardinality(LogDates(log, "view")) \in Nat
<1> USE JournalFacts
<1> DEFINE d == LogDates(log, "view")
<1>1. d \in SUBSET (0 .. jr)
  <2>1. \A k \in 1 .. Len(log) : log[k] \in LogEntries
    BY ElementOfSeq
  <2>2. \A k \in 1 .. Len(log) : log[k].at \in 0 .. jr
    BY <2>1 DEF JournalInv, LogInOrder, LogEntries
  <2> QED BY <2>2 DEF LogDates
<1>2. IsFiniteSet(0 .. jr)
  BY FS_Interval
<1>3. IsFiniteSet(d)
  BY <1>1, <1>2, FS_Subset
<1> QED BY <1>3, FS_CardinalityType

\* dpcViewPend at zero means that nothing is hidden from the CPU.
LEMMA NothingPending ==
  ASSUME JournalInv, viewPend = 0
  PROVE  Unseen = {} /\ AppliedD = 1 .. Len(dpcHist) /\ jrpc \notin {"live", "push"}
<1> DEFINE d == LogDates(log, "view")
<1>1. IsFiniteSet(d) /\ Cardinality(d) \in Nat
  BY ViewsAreFinite
<1>2. 0 = Cardinality(d) + IF jrpc \in {"live", "push"} THEN 1 ELSE 0
  BY DEF JournalInv, ViewsCounted
<1> HIDE DEF d
<1>3. Cardinality(d) = 0 /\ jrpc \notin {"live", "push"}
  BY <1>1, <1>2
<1>4. d = {}
  BY <1>1, <1>3, FS_EmptySet
<1>5. Unseen = {}
  BY <1>3, <1>4 DEF Unseen, d
<1> QED BY <1>3, <1>5 DEF AppliedD

\* Past the barrier the CPU sees exactly what its clock says has been written.
LEMMA SeenIsPast ==
  ASSUME JournalInv, jlead = 0, ViewsKept, jpc # "retire"
  PROVE  AppliedD = UpTo(dpcHist, jc)
<1> USE JournalFacts
<1>1. \A k \in 1 .. Len(log) : log[k].at > jc
  BY DEF JournalInv, CpuBehind
<1>2. jrpc = "push" => jr > jc
  BY DEF JournalInv, CpuBehind, RspDone
<1>3. \A t \in LogDates(log, "view") : t > jc
  BY <1>1 DEF LogDates
<1>4. \A t \in Unseen : t > jc
  BY <1>2, <1>3 DEF Unseen
<1>5. \A k \in AppliedD : k \in 1 .. Len(dpcHist) /\ dpcHist[k].at <= jc
  BY DEF ViewsKept, SeenPast, AppliedD
<1>6. \A k \in 1 .. Len(dpcHist) : dpcHist[k].at <= jc => dpcHist[k].at \notin Unseen
  BY <1>4
<1> QED BY <1>5, <1>6 DEF AppliedD, UpTo

\* A read that answers the value x at the CPU's present.
LEMMA ReadAnswers ==
  ASSUME JournalInv, jlead = 0, ViewsKept, jpc # "retire", NEW x,
         viewPend > 0 => x = cpuDpcView, viewPend = 0 => x = dpcLive
  PROVE  LastD(dpcHist, UpTo(dpcHist, jc), x)
<1>0. viewPend \in Nat
  <2>1. Cardinality(LogDates(log, "view")) \in Nat
    BY ViewsAreFinite
  <2> QED BY <2>1 DEF JournalInv, ViewsCounted
<1>1. AppliedD = UpTo(dpcHist, jc)
  BY SeenIsPast
<1>2. LastD(dpcHist, 1 .. Len(dpcHist), dpcLive) /\ LastD(dpcHist, AppliedD, cpuDpcView)
  BY DEF ViewsKept, DpcIsNewest
<1>3. CASE viewPend > 0
  BY <1>1, <1>2, <1>3
<1>4. CASE viewPend = 0
  BY <1>1, <1>2, <1>4, NothingPending
<1> QED BY <1>0, <1>3, <1>4

\* A write to the register in the present of either thread leaves the reads before it alone.
LEMMA DpcReadKept ==
  ASSUME JournalInv, ViewReads, NEW w \in DpcWrites, w.at > cread.at, dpcHist' = Append(dpcHist, w),
         UNCHANGED cread, jc' \in Nat, jc' >= jc
  PROVE  cread'.kind = "dpc" => cread'.at < jc' /\ LastD(dpcHist', UpTo(dpcHist', cread'.at), cread'.v)
<1> USE JournalFacts
<1>1. cread.at \in Nat
  BY DEF JournalInv, JournalTyped, ReadsTyped
<1> SUFFICES ASSUME cread.kind = "dpc"
             PROVE  cread.at < jc' /\ LastD(dpcHist', UpTo(dpcHist', cread.at), cread.v)
  OBVIOUS
<1>2. cread.at < jc /\ LastD(dpcHist, UpTo(dpcHist, cread.at), cread.v)
  BY DEF ViewReads
<1>3. LastD(dpcHist', UpTo(dpcHist', cread.at), cread.v)
  BY <1>1, <1>2, DpcReadStays
<1> QED BY <1>1, <1>2, <1>3

\* Every step keeps the last read of the register right, in its two halves too.
LEMMA ViewReadsStay == ASSUME JournalInv, [JournalNext]_jvars, ~direct', jlead' = 0 PROVE ViewReads'
<1> USE JournalFacts
<1>0. ~direct /\ jlead = 0 /\ ViewsKept /\ ViewReads
  BY DpcHypothesis
<1>a. cread.at \in Nat /\ cread.at <= jc /\ (RspDone \/ cread.at < jr)
      /\ cread \in [kind : {"ram", "dpc", "copy"}, at : Nat, v : Nat] /\ writing \in Nat /\ posted \in Nat
  BY <1>0 DEF JournalInv, JournalTyped, ScalarsTyped, ReadsTyped, RamReads
<1>1. CASE journalRetire
  <2>1. UNCHANGED <<jc, jpc, cread, dpcHist>> /\ jpc = "retire"
    BY <1>1, RetireLog
  <2> QED BY <2>1, <1>0 DEF ViewReads
<1>2. CASE dpcMbCpu
  <2> DEFINE w == [at |-> jc, v |-> Head(mail).v]
  <2>1. dpcHist' = Append(dpcHist, w) /\ UNCHANGED <<jc, jpc, cread>> /\ jpc = "retire" /\ mail # <<>>
    BY <1>2 DEF dpcMbCpu, readVars
  <2>2. w \in DpcWrites /\ w.at = jc
    <3>1. Head(mail) \in Mails
      BY <2>1, HeadTailProperties DEF JournalInv, JournalTyped, SeqsTyped
    <3> QED BY <3>1 DEF Mails, DpcWrites
  <2> HIDE DEF w
  <2>3. CASE cread.kind = "dpc"
    <3>1. w.at > cread.at
      BY <2>2, <2>3, <1>0, <1>a DEF ViewReads
    <3>2. cread'.kind = "dpc" => cread'.at < jc' /\ LastD(dpcHist', UpTo(dpcHist', cread'.at), cread'.v)
      BY <3>1, <2>1, <2>2, <1>0, DpcReadKept
    <3> QED BY <3>2, <2>1 DEF ViewReads
  <2>4. CASE cread.kind # "dpc"
    BY <2>4, <2>1 DEF ViewReads
  <2> QED BY <2>3, <2>4
<1>3. CASE cpuWriteDpc
  <2> DEFINE w == [at |-> jc, v |-> posted + 1]
  <2>1. dpcHist' = Append(dpcHist, w) /\ jc' = jc + 1 /\ jpc' = "retire" /\ UNCHANGED cread
    BY <1>3 DEF cpuWriteDpc, InstrDone, readVars
  <2>2. w \in DpcWrites /\ w.at = jc
    BY <1>a DEF DpcWrites
  <2> HIDE DEF w
  <2>3. CASE cread.kind = "dpc"
    <3>1. w.at > cread.at
      BY <2>2, <2>3, <1>0, <1>a DEF ViewReads
    <3>2. cread'.kind = "dpc" => cread'.at < jc' /\ LastD(dpcHist', UpTo(dpcHist', cread'.at), cread'.v)
      BY <3>1, <2>1, <2>2, <1>0, DpcReadKept
    <3> QED BY <3>2, <2>1 DEF ViewReads
  <2>4. CASE cread.kind # "dpc"
    BY <2>4, <2>1 DEF ViewReads
  <2> QED BY <2>3, <2>4
<1>4. CASE rspDpcLive
  <2> DEFINE w == [at |-> jr, v |-> writing]
  <2>1. dpcHist' = Append(dpcHist, w) /\ UNCHANGED <<jc, jpc, cread, viewPend>> /\ jrpc = "live"
    BY <1>4 DEF rspDpcLive, readVars
  <2>2. w \in DpcWrites /\ w.at = jr
    BY <1>a DEF DpcWrites
  <2> HIDE DEF w
  <2>3. w.at > cread.at
    BY <2>1, <2>2, <1>a DEF RspDone
  <2>4. viewPend # 0
    BY <2>1, NothingPending
  <2>5. cread'.kind = "dpc" => cread'.at < jc' /\ LastD(dpcHist', UpTo(dpcHist', cread'.at), cread'.v)
    BY <2>1, <2>2, <2>3, <1>0, DpcReadKept
  <2> QED BY <2>1, <2>4, <2>5, <1>0 DEF ViewReads
<1>5. CASE cpuReadDpc
  <2>1. UNCHANGED dpcHist /\ jpc = "exec"
    BY <1>5 DEF cpuReadDpc, dpcVars
  <2>2. CASE viewPend > 0 /\ cread' = [kind |-> "dpc", at |-> jc, v |-> cpuDpcView] /\ InstrDone
    <3>1. cread'.at = jc /\ cread'.v = cpuDpcView /\ jc' = jc + 1 /\ jpc' = "retire"
      BY <2>2 DEF InstrDone
    <3>2. LastD(dpcHist, UpTo(dpcHist, jc), cpuDpcView)
      BY <2>1, <2>2, <1>0, ReadAnswers
    <3> QED BY <3>1, <3>2, <2>1 DEF ViewReads
  <2>3. CASE jpc' = "copy" /\ UNCHANGED <<jc, cread>>
    BY <2>1, <2>3, <1>0 DEF ViewReads
  <2> QED BY <1>5, <2>2, <2>3 DEF cpuReadDpc
<1>6. CASE cpuCopyDpc
  <2>1. cread' = [kind |-> "copy", at |-> jc, v |-> dpcLive] /\ UNCHANGED <<jc, dpcLive>>
    BY <1>6 DEF cpuCopyDpc, dpcVars
  <2>2. cread'.kind = "copy" /\ cread'.at = jc /\ cread'.v = dpcLive
    BY <2>1
  <2> QED BY <2>1, <2>2 DEF ViewReads
<1>7. CASE cpuReadAgain
  <2> DEFINE x == IF viewPend > 0 THEN cpuDpcView ELSE cread.v
  <2>1. /\ cread' = [cread EXCEPT !.kind = "dpc", !.v = x] /\ jpc = "view" /\ UNCHANGED dpcHist
        /\ jc' = jc + 1 /\ jpc' = "retire"
    BY <1>7 DEF cpuReadAgain, InstrDone, dpcVars
  <2>2. cread.at = jc /\ (viewPend = 0 => cread.v = dpcLive)
    BY <2>1, <1>0 DEF ViewReads
  <2>3. (viewPend > 0 => x = cpuDpcView) /\ (viewPend = 0 => x = dpcLive)
    BY <2>2
  <2> HIDE DEF x
  <2>4. cread'.kind = "dpc" /\ cread'.at = cread.at /\ cread'.v = x
    BY <2>1, <1>a
  <2>5. LastD(dpcHist, UpTo(dpcHist, jc), x)
    BY <2>1, <2>3, <1>0, ReadAnswers
  <2> QED BY <2>1, <2>2, <2>4, <2>5 DEF ViewReads
<1>8. CASE cpuLoad
  BY <1>8 DEF cpuLoad, InstrDone, ViewReads
<1>9. CASE UNCHANGED <<cread, dpcHist, dpcLive>> /\ ~journalRetire /\ ~cpuCopyDpc
  <2>1. jc' \in Nat /\ jc' >= jc
    BY <1>9, LogSteps DEF InstrDone, journalOn, rspDmaWrite, rspDpcPush
  <2>2. jpc = "copy" /\ jpc' = "view" => cpuCopyDpc
    BY <1>9 DEF JournalNext, jvars, dpcMbCpu, journalOn, journalInstr, cpuLoad, InstrDone,
         cpuStore, cpuReadDpc, cpuReadAgain, cpuPostDpc, cpuWriteDpc, rspOther,
         rspDmaWrite, rspDmaRead, dpcMbRsp, rspDpcWrite, rspDpcLive, rspDpcPush, rspStops
  <2>3. jpc' = "view" => jpc = "view" /\ UNCHANGED jc /\ (viewPend' = viewPend \/ viewPend' = viewPend + 1)
    BY <1>9, <2>2, LogSteps DEF InstrDone, journalOn, rspDmaWrite, rspDpcPush, dpcVars
  <2>4. viewPend \in Nat
    <3>1. Cardinality(LogDates(log, "view")) \in Nat
      BY ViewsAreFinite
    <3> QED BY <3>1 DEF JournalInv, ViewsCounted
  <2>5. jpc' = "view" => cread'.at = jc' /\ (viewPend' = 0 => cread'.v = dpcLive')
    BY <2>3, <2>4, <1>0, <1>9 DEF ViewReads
  <2>6. cread'.kind = "dpc" => cread'.at < jc' /\ LastD(dpcHist', UpTo(dpcHist', cread'.at), cread'.v)
    BY <2>1, <1>0, <1>a, <1>9 DEF ViewReads
  <2> QED BY <2>5, <2>6 DEF ViewReads
<1>10. ~(journalRetire \/ dpcMbCpu \/ cpuWriteDpc \/ rspDpcLive \/ cpuReadDpc \/ cpuCopyDpc \/ cpuReadAgain \/ cpuLoad)
        => UNCHANGED <<cread, dpcHist, dpcLive>>
  BY DEF JournalNext, jvars, journalOn, journalInstr, dpcVars, readVars,
         cpuStore, cpuPostDpc, rspOther, rspDmaWrite, rspDpcPush,
         rspDmaRead, dpcMbRsp, rspDpcWrite, rspDpcBegin, rspStops
<1> QED BY <1>1, <1>2, <1>3, <1>4, <1>5, <1>6, <1>7, <1>8, <1>9, <1>10

\* Every step of the journal keeps JournalInv.
LEMMA JournalStep == ASSUME JournalInv, [JournalNext]_jvars PROVE JournalInv'
<1>1. JournalTyped'
  BY JournalStaysTyped DEF JournalInv
<1>2. MailKept' /\ LogInOrder' /\ CpuBehind' /\ ViewsCounted' /\ RamKept' /\ RamReads'
  BY MailStaysKept, LogStaysInOrder, ViewsStayCounted, RamStaysKept, RamReadsStay
<1>3. DpcKept'
  BY ViewsStayKept, ViewReadsStay DEF DpcKept
<1> QED BY <1>1, <1>2, <1>3 DEF JournalInv

\* JournalInv holds of every behaviour of the journal.
LEMMA JournalInvariant == JournalSpec => []JournalInv
<1>1. JournalInit => JournalInv
  BY JournalInitial
<1>2. JournalInv /\ [JournalNext]_jvars => JournalInv'
  BY JournalStep
<1> QED BY <1>1, <1>2, PTL DEF JournalSpec

\* A read of RDRAM or of DPC, by either thread, returns what the clock of the guest says had been
\* written (dpLogApply, dmaSettle, dpcViewPend read twice, dmaPgAny), for any size of the journal and
\* of the mailbox, any grain and any clock.
THEOREM ReadsComeDated == JournalSpec => []ReadsAreDated
<1>1. ASSUME JournalInv PROVE ReadsAreDated
  <2>0. /\ rread.at \in Nat /\ cread.at \in Nat /\ RamReads /\ RamDated
        /\ ramHist \in Seq(Writes) /\ dpcHist \in Seq(DpcWrites)
    BY <1>1 DEF JournalInv, JournalTyped, ReadsTyped, SeqsTyped, RamKept
  <2>1. rread.v = RamAt(rread.at)
    <3>1. LastIn(ramHist, UpTo(ramHist, rread.at), rread.v)
      BY <2>0 DEF RamReads
    <3> QED BY <3>1, <2>0, LastIsRamAt
  <2>2. ASSUME jlead = 0, cread.kind = "ram" PROVE cread.v = RamAt(cread.at)
    <3>1. LastIn(ramHist, UpTo(ramHist, cread.at), cread.v)
      BY <2>0, <2>2 DEF RamReads
    <3> QED BY <3>1, <2>0, LastIsRamAt
  <2>3. ASSUME ~direct, jlead = 0, cread.kind = "dpc" PROVE cread.v = DpcAt(cread.at)
    <3>1. LastD(dpcHist, UpTo(dpcHist, cread.at), cread.v)
      BY <1>1, <2>3 DEF JournalInv, DpcKept, ViewReads
    <3> QED BY <3>1, <2>0, LastIsDpcAt
  <2> QED BY <2>1, <2>2, <2>3 DEF ReadsAreDated
<1> QED BY <1>1, JournalInvariant, PTL

\* DPC writes of the CPU reach the register one by one in the order they were made (dpcMbPost, dpcMbRsp,
\* dpcMbCpu), unless a full mailbox sent one straight to it.
THEOREM MailComesInOrder == JournalSpec => MailInOrder
<1>1. ASSUME JournalInv, [JournalNext]_jvars PROVE [~direct' => mailDone' \in {mailDone, mailDone + 1}]_jvars
  <2> SUFFICES ASSUME ~direct', JournalNext PROVE mailDone' \in {mailDone, mailDone + 1}
    BY <1>1
  <2>0. ~direct
    BY <1>1 DEF JournalNext, jvars, journalRetire, logApplyOne, dpcMbCpu, journalOn, journalInstr, cpuLoad,
         cpuStore, cpuReadDpc, cpuCopyDpc, cpuReadAgain, cpuPostDpc, cpuWriteDpc, rspOther,
         rspDmaWrite, rspDmaRead, dpcMbRsp, rspDpcWrite, rspDpcLive, rspDpcPush, rspStops,
         JournalInv, JournalTyped, ScalarsTyped
  <2>1. posted = mailDone + Len(mail) /\ \A k \in 1 .. Len(mail) : mail[k].v = mailDone + k
    BY <1>1, <2>0 DEF JournalInv, MailKept
  <2>2. mail \in Seq(Mails) /\ Len(mail) \in Nat /\ mailDone \in Nat /\ posted \in Nat
    BY <1>1, LenProperties DEF JournalInv, JournalTyped, SeqsTyped, ScalarsTyped
  <2>3. mail # <<>> => Head(mail).v = mailDone + 1
    <3>1. mail # <<>> => Head(mail) = mail[1] /\ 1 \in 1 .. Len(mail)
      BY <2>2, HeadTailProperties, EmptySeq
    <3> QED BY <3>1, <2>1
  <2>4. CASE dpcMbCpu
    BY <2>3, <2>4 DEF dpcMbCpu
  <2>5. CASE dpcMbRsp
    BY <2>3, <2>5 DEF dpcMbRsp, NoMailDue
  <2>6. CASE cpuWriteDpc
    <3>1. ~MustPost /\ mailDone' = posted + 1
      BY <2>6 DEF cpuWriteDpc
    <3>2. Len(mail) = 0
      BY <3>1, <2>2 DEF MustPost
    <3> QED BY <3>1, <3>2, <2>1, <2>2
  <2>7. CASE UNCHANGED mailDone
    BY <2>7
  <2>8. ~(dpcMbCpu \/ dpcMbRsp \/ cpuWriteDpc) => UNCHANGED mailDone
    BY DEF JournalNext, journalRetire, logApplyOne, journalOn, journalInstr, cpuLoad, dpcVars,
         cpuStore, cpuReadDpc, cpuCopyDpc, cpuReadAgain, cpuPostDpc, rspOther,
         rspDmaWrite, rspDmaRead, rspDpcWrite, rspDpcLive, rspDpcPush, rspStops
  <2> QED BY <2>4, <2>5, <2>6, <2>7, <2>8
<1> QED BY <1>1, JournalInvariant, PTL DEF JournalSpec, MailInOrder

(***************************************************************************)
(* The handshake of the CPU and the RSP.                                   *)
(***************************************************************************)

TaskSpec == TaskInit /\ [][TaskNext]_tvars

\* Clocks and phases, typed; what the writes of SP_STATUS leave in the ring plays no part here.
TaskClocks ==
  /\ lead \in Nat /\ grain \in Nat /\ grain > 0
  /\ cpuAt \in Nat /\ rspAt \in Nat /\ rspPub \in Nat /\ doneAt \in Nat /\ spLog \in Seq(Nat)
TaskPhases ==
  /\ cpc \in {"retire", "exec", "relaunch"}
  /\ rpc \in {"idle", "clear", "fetch", "check", "break", "ended"}
  /\ rwait \in BOOLEAN /\ halted \in BOOLEAN /\ busy \in BOOLEAN /\ spKick \in BOOLEAN
  /\ barrier \in BOOLEAN /\ ending \in BOOLEAN
TaskTyped == TaskClocks /\ TaskPhases

\* A task is under way from the launch to the BREAK.
UnderWay == spKick \/ rpc \in {"clear", "fetch", "check", "break"}

\* Who is where: a task under way has its barrier up and neither end nor HALT in sight.
PhasesKept ==
  /\ spKick => rpc = "idle"
  /\ busy <=> (spKick \/ rpc # "idle")
  /\ UnderWay => barrier /\ ~halted /\ ~ending /\ cpc # "relaunch"
  /\ ending => ~halted /\ cpc # "relaunch"
  /\ cpc = "relaunch" => ~halted

\* The barrier keeps the CPU behind the RSP and its lead, and a RSP that waits has said where it is.
ClocksKept ==
  /\ UnderWay => /\ cpuAt <= rspAt + lead /\ rspPub <= rspAt
                 /\ cpc = "exec" => cpuAt < rspAt + lead
  /\ rwait => rpc \in {"fetch", "check", "break"} /\ rspPub = rspAt
  /\ ending => /\ doneAt = rspAt + lead /\ cpuAt <= doneAt
               /\ cpc = "exec" => cpuAt < doneAt

\* What the RSP has filed is in its past, and is applied before its end is published.
SpLogKept ==
  /\ \A k \in 1 .. Len(spLog) : spLog[k] < rspAt
  /\ ~UnderWay /\ ~ending => spLog = <<>>

TaskInv == TaskTyped /\ PhasesKept /\ ClocksKept /\ SpLogKept

----------------------------------------------------------------------------
\* The edge of the grain before an instant is not after it.
LEMMA EdgeBefore == ASSUME NEW t \in Nat, NEW g \in Nat, g > 0 PROVE (t \div g) * g \in Nat /\ (t \div g) * g <= t
<1> DEFINE q == t \div g
<1>1. q \in Nat /\ t = (g * q) + (t % g) /\ t % g \in Nat
  OBVIOUS
<1> HIDE DEF q
<1>2. q * g = g * q /\ g * q \in Nat
  BY <1>1
<1> DEFINE p == g * q
<1>3. p \in Nat /\ t = p + (t % g)
  BY <1>1, <1>2
<1> HIDE DEF p
<1>4. p <= t
  BY <1>1, <1>3
<1> QED BY <1>2, <1>4 DEF p, q

\* The instant a RSP waits for is not in its own future.
LEMMA SyncIsPast == ASSUME TaskInv PROVE SyncTarget \in Nat /\ SyncTarget <= rspAt
<1>1. RoundDown(rspAt) \in Nat /\ RoundDown(rspAt) <= rspAt
  BY EdgeBefore DEF TaskInv, TaskTyped, TaskClocks, TaskPhases, RoundDown
<1> QED BY <1>1 DEF SyncTarget, TaskInv, TaskTyped, TaskClocks, TaskPhases

\* The head of the journal is in the past of the RSP.
LEMMA SpLogFacts ==
  ASSUME TaskInv
  PROVE  /\ spLog \in Seq(Nat) /\ Len(spLog) \in Nat
         /\ spLog # <<>> => /\ Head(spLog) \in Nat /\ Head(spLog) < rspAt /\ Tail(spLog) \in Seq(Nat)
                            /\ \A k \in 1 .. Len(Tail(spLog)) : Tail(spLog)[k] < rspAt
<1>1. spLog \in Seq(Nat) /\ Len(spLog) \in Nat /\ \A k \in 1 .. Len(spLog) : spLog[k] < rspAt
  BY LenProperties DEF TaskInv, TaskTyped, TaskClocks, TaskPhases, SpLogKept
<1>2. ASSUME spLog # <<>>
      PROVE  /\ Head(spLog) \in Nat /\ Head(spLog) < rspAt /\ Tail(spLog) \in Seq(Nat)
             /\ \A k \in 1 .. Len(Tail(spLog)) : Tail(spLog)[k] < rspAt
  <2>1. /\ Len(spLog) > 0 /\ Head(spLog) = spLog[1] /\ Head(spLog) \in Nat /\ Tail(spLog) \in Seq(Nat)
        /\ Len(Tail(spLog)) = Len(spLog) - 1
        /\ \A k \in 1 .. Len(Tail(spLog)) : Tail(spLog)[k] = spLog[k + 1]
    BY <1>1, <1>2, HeadTailProperties, EmptySeq
  <2>2. 1 \in 1 .. Len(spLog) /\ \A k \in 1 .. Len(Tail(spLog)) : k + 1 \in 1 .. Len(spLog)
    BY <2>1, <1>1
  <2> QED BY <2>1, <2>2, <1>1
<1> QED BY <1>1, <1>2

\* TaskInv holds of the initial states.
LEMMA TaskInitial == TaskInit => TaskInv
<1> SUFFICES ASSUME TaskInit PROVE TaskInv
  OBVIOUS
<1> USE DEF TaskInit
<1>1. TaskTyped
  <2>1. TaskClocks
    BY TaskAssumption DEF TaskTyped, TaskClocks
  <2>2. TaskPhases
    BY TaskAssumption DEF TaskTyped, TaskPhases
  <2> QED BY <2>1, <2>2 DEF TaskTyped
<1>2. PhasesKept /\ ClocksKept /\ SpLogKept
  BY DEF PhasesKept, ClocksKept, SpLogKept, UnderWay
<1> QED BY <1>1, <1>2 DEF TaskInv

\* An instruction of the CPU that leaves the RSP alone.
LEMMA InstrKeeps ==
  ASSUME TaskInv, cpc = "exec", Retired,
         UNCHANGED <<lead, grain, rspAt, rspPub, rpc, rwait, halted, spLog, busy, spKick, barrier, ending, doneAt>>
  PROVE  TaskInv'
<1> USE DEF Retired, UnderWay
<1>1. TaskTyped'
  <2>1. TaskClocks'
    BY DEF TaskInv, TaskTyped, TaskClocks
  <2>2. TaskPhases'
    BY DEF TaskInv, TaskTyped, TaskPhases
  <2> QED BY <2>1, <2>2 DEF TaskTyped
<1>2. PhasesKept'
  BY DEF TaskInv, PhasesKept
<1>3. ClocksKept'
  BY DEF TaskInv, ClocksKept, TaskTyped, TaskClocks, TaskPhases
<1>4. SpLogKept'
  BY DEF TaskInv, SpLogKept
<1> QED BY <1>1, <1>2, <1>3, <1>4 DEF TaskInv

\* A launch: the RSP starts at the edge after the CPU's clock.
LEMMA LaunchKeeps ==
  ASSUME TaskInv, ~busy, ~ending, rspSubmitKick, ~halted', cpc' # "relaunch",
         (cpc' = "retire" /\ cpuAt' = cpuAt + 1) \/ (cpc' = "exec" /\ cpuAt' = cpuAt),
         halted' \in BOOLEAN, UNCHANGED <<lead, grain, rpc, rwait, spLog, ending, doneAt>>
  PROVE  TaskInv'
<1> USE DEF rspSubmitKick, UnderWay
<1>0. rpc = "idle" /\ ~spKick /\ spLog = <<>>
  BY DEF TaskInv, PhasesKept, SpLogKept
<1>1. TaskTyped'
  <2>1. TaskClocks'
    BY DEF TaskInv, TaskTyped, TaskClocks
  <2>2. TaskPhases'
    BY DEF TaskInv, TaskTyped, TaskPhases
  <2> QED BY <2>1, <2>2 DEF TaskTyped
<1>2. PhasesKept'
  BY <1>0 DEF TaskInv, PhasesKept
<1>3. ClocksKept'
  BY <1>0 DEF TaskInv, ClocksKept, TaskTyped, TaskClocks, TaskPhases
<1>4. SpLogKept'
  BY <1>0 DEF TaskInv, SpLogKept
<1> QED BY <1>1, <1>2, <1>3, <1>4 DEF TaskInv

\* An instruction of the RSP.
LEMMA RspKeeps ==
  ASSUME TaskInv, rpc \in {"fetch", "check", "clear", "break"}, NEW nx \in {"clear", "fetch", "check", "break"},
         RspGoes(nx), rspPub' \in {rspPub, rspAt},
         spLog' \in {spLog, Append(spLog, rspAt)},
         UNCHANGED <<lead, grain, cpuAt, cpc, halted, busy, spKick, barrier, ending, doneAt>>
  PROVE  TaskInv'
<1> USE DEF RspGoes
<1>0. UnderWay /\ UnderWay' /\ ~spKick /\ ~ending
  BY DEF TaskInv, PhasesKept, UnderWay
<1>a. /\ spLog \in Seq(Nat) /\ Len(spLog) \in Nat /\ rspAt \in Nat /\ \A k \in 1 .. Len(spLog) : spLog[k] < rspAt
      /\ \A k \in 1 .. Len(spLog) : spLog[k] \in Nat
  BY SpLogFacts, ElementOfSeq DEF TaskInv, TaskTyped, TaskClocks, TaskPhases, SpLogKept
<1>b. spLog' \in Seq(Nat) /\ \A k \in 1 .. Len(spLog') : spLog'[k] < rspAt + 1
  <2>1. CASE spLog' = spLog
    BY <2>1, <1>a
  <2>2. CASE spLog' = Append(spLog, rspAt)
    <3>1. /\ spLog' \in Seq(Nat) /\ Len(spLog') = Len(spLog) + 1 /\ spLog'[Len(spLog) + 1] = rspAt
          /\ \A k \in 1 .. Len(spLog) : spLog'[k] = spLog[k]
      BY <2>2, <1>a, AppendProperties
    <3>2. \A k \in 1 .. Len(spLog) + 1 : k = Len(spLog) + 1 \/ k \in 1 .. Len(spLog)
      BY <1>a
    <3>3. ASSUME NEW k \in 1 .. Len(spLog) + 1 PROVE spLog'[k] < rspAt + 1
      <4>1. CASE k = Len(spLog) + 1
        <5>1. spLog'[k] = rspAt /\ rspAt \in Nat
          BY ONLY <4>1, <3>1, <1>a
        <5> QED BY ONLY <5>1
      <4>2. CASE k \in 1 .. Len(spLog)
        <5>1. spLog'[k] = spLog[k]
          BY ONLY <4>2, <3>1
        <5>2. spLog[k] \in Nat /\ rspAt \in Nat /\ spLog[k] < rspAt
          BY ONLY <4>2, <1>a
        <5> QED BY ONLY <5>1, <5>2
      <4> QED BY <4>1, <4>2, <3>2
    <3> QED BY <3>1, <3>3
  <2> QED BY <2>1, <2>2
<1>1. TaskTyped'
  <2>1. TaskClocks'
    BY <1>b DEF TaskInv, TaskTyped, TaskClocks
  <2>2. TaskPhases'
    BY <1>b DEF TaskInv, TaskTyped, TaskPhases
  <2> QED BY <2>1, <2>2 DEF TaskTyped
<1>2. PhasesKept'
  BY <1>0 DEF TaskInv, PhasesKept
<1>3. ClocksKept'
  BY <1>0 DEF TaskInv, ClocksKept, TaskTyped, TaskClocks, TaskPhases
<1>4. SpLogKept'
  BY <1>0, <1>b DEF SpLogKept
<1> QED BY <1>1, <1>2, <1>3, <1>4 DEF TaskInv

\* The RSP publishes its clock.
LEMMA PublishKeeps ==
  ASSUME TaskInv, rpc \in {"fetch", "check", "clear", "break"}, rspPub' = rspAt,
         rwait' = rwait \/ (rwait' = TRUE /\ rpc # "clear"),
         UNCHANGED <<lead, grain, cpuAt, cpc, rspAt, rpc, halted, spLog, busy, spKick, barrier, ending, doneAt>>
  PROVE  TaskInv'
<1> USE DEF UnderWay
<1>1. TaskTyped'
  <2>1. TaskClocks'
    BY DEF TaskInv, TaskTyped, TaskClocks
  <2>2. TaskPhases'
    BY DEF TaskInv, TaskTyped, TaskPhases
  <2> QED BY <2>1, <2>2 DEF TaskTyped
<1>2. PhasesKept'
  BY DEF TaskInv, PhasesKept
<1>3. ClocksKept'
  BY DEF TaskInv, ClocksKept, TaskTyped, TaskClocks, TaskPhases
<1>4. SpLogKept'
  BY DEF TaskInv, SpLogKept
<1> QED BY <1>1, <1>2, <1>3, <1>4 DEF TaskInv

\* Every step of the handshake keeps TaskInv.
LEMMA TaskStep == ASSUME TaskInv, [TaskNext]_tvars PROVE TaskInv'
<1> USE DEF clockVars, taskVars
<1>1. CASE cpuInstr
  BY <1>1, InstrKeeps DEF cpuInstr
<1>2. CASE cpuRamWrite
  BY <1>2, InstrKeeps DEF cpuRamWrite
<1>3. CASE SP_STATUS_running
  BY <1>3, InstrKeeps DEF SP_STATUS_running
<1>4. CASE SP_STATUS_clear
  BY <1>4, InstrKeeps DEF SP_STATUS_clear
<1>5. CASE SP_STATUS_launch
  <2>1. ~ending
    BY <1>5 DEF SP_STATUS_launch, TaskInv, PhasesKept
  <2> QED BY <1>5, <2>1, LaunchKeeps DEF SP_STATUS_launch, Retired
<1>6. CASE relaunch
  <2>1. ~ending /\ ~halted
    BY <1>6 DEF relaunch, TaskInv, PhasesKept
  <2>2. /\ ~busy /\ rspSubmitKick /\ cpc' = "exec" /\ cpuAt' = cpuAt
        /\ UNCHANGED <<lead, grain, rpc, rwait, spLog, ending, doneAt, halted>>
    BY <1>6 DEF relaunch
  <2>3. halted' \in BOOLEAN /\ ~halted' /\ cpc' # "relaunch"
    BY <2>1, <2>2 DEF TaskInv, TaskTyped, TaskPhases
  <2> QED BY <2>1, <2>2, <2>3, LaunchKeeps
<1>7. CASE rspWaits
  BY <1>7, PublishKeeps DEF rspWaits, publishExact
<1>8. CASE rspTanda
  BY <1>8, PublishKeeps DEF rspTanda
<1>9. CASE rspFetch
  BY <1>9, RspKeeps DEF rspFetch
<1>10. CASE rspInstr
  BY <1>10, RspKeeps DEF rspInstr
<1>11. CASE rspCheck
  BY <1>11, RspKeeps DEF rspCheck
<1>12. CASE rspClear
  BY <1>12, RspKeeps DEF rspClear
<1>13. CASE rspBreakOn
  BY <1>13, RspKeeps DEF rspBreakOn
<1>14. CASE rspBreak
  <2>1. /\ rpc = "break" /\ doneAt' = rspAt + lead /\ ending' = TRUE /\ barrier' = FALSE
        /\ rpc' = "ended" /\ rwait' = FALSE /\ rspPub' = rspAt
        /\ UNCHANGED <<lead, grain, cpuAt, cpc, rspAt, halted, spLog, busy, spKick>>
    BY <1>14 DEF rspBreak, spDateOps
  <2>2. UnderWay /\ ~spKick /\ ~UnderWay'
    BY <2>1 DEF UnderWay, TaskInv, PhasesKept
  <2>3. TaskTyped'
    <3>1. TaskClocks'
      BY <2>1 DEF TaskInv, TaskTyped, TaskClocks
    <3>2. TaskPhases'
      BY <2>1 DEF TaskInv, TaskTyped, TaskPhases
    <3> QED BY <3>1, <3>2 DEF TaskTyped
  <2>4. PhasesKept'
    BY <2>1, <2>2 DEF TaskInv, PhasesKept
  <2>5. ClocksKept'
    BY <2>1, <2>2 DEF TaskInv, ClocksKept, TaskTyped, TaskClocks, TaskPhases
  <2>6. SpLogKept'
    BY <2>1 DEF TaskInv, SpLogKept
  <2> QED BY <2>3, <2>4, <2>5, <2>6 DEF TaskInv
<1>15. CASE workerStart
  <2>1. /\ rpc = "idle" /\ spKick /\ spKick' = FALSE /\ rpc' = "clear"
        /\ UNCHANGED <<lead, grain, cpuAt, cpc, rspAt, rspPub, rwait, halted, spLog, busy, barrier, ending, doneAt>>
    BY <1>15 DEF workerStart
  <2>2. UnderWay /\ UnderWay'
    BY <2>1 DEF UnderWay
  <2>3. TaskTyped'
    <3>1. TaskClocks'
      BY <2>1 DEF TaskInv, TaskTyped, TaskClocks
    <3>2. TaskPhases'
      BY <2>1 DEF TaskInv, TaskTyped, TaskPhases
    <3> QED BY <3>1, <3>2 DEF TaskTyped
  <2>4. PhasesKept'
    BY <2>1, <2>2 DEF TaskInv, PhasesKept
  <2>5. ClocksKept'
    BY <2>1, <2>2 DEF TaskInv, ClocksKept, TaskTyped, TaskClocks, TaskPhases
  <2>6. SpLogKept'
    BY <2>1, <2>2 DEF TaskInv, SpLogKept
  <2> QED BY <2>3, <2>4, <2>5, <2>6 DEF TaskInv
<1>16. CASE workerDone
  <2>1. /\ rpc = "ended" /\ rpc' = "idle" /\ busy' = FALSE /\ barrier' = FALSE
        /\ UNCHANGED <<lead, grain, cpuAt, cpc, rspAt, rspPub, rwait, halted, spLog, spKick, ending, doneAt>>
    BY <1>16 DEF workerDone
  <2>2. ~UnderWay /\ ~UnderWay' /\ ~spKick
    BY <2>1 DEF UnderWay, TaskInv, PhasesKept
  <2>3. TaskTyped'
    <3>1. TaskClocks'
      BY <2>1 DEF TaskInv, TaskTyped, TaskClocks
    <3>2. TaskPhases'
      BY <2>1 DEF TaskInv, TaskTyped, TaskPhases
    <3> QED BY <3>1, <3>2 DEF TaskTyped
  <2>4. PhasesKept'
    BY <2>1, <2>2 DEF TaskInv, PhasesKept
  <2>5. ClocksKept'
    BY <2>1, <2>2 DEF TaskInv, ClocksKept, TaskTyped, TaskClocks, TaskPhases
  <2>6. SpLogKept'
    BY <2>1, <2>2 DEF TaskInv, SpLogKept
  <2> QED BY <2>3, <2>4, <2>5, <2>6 DEF TaskInv
<1>17. CASE dpLogApply
  <2>1. /\ cpc = "retire" /\ spLog # <<>> /\ spLog' = Tail(spLog)
        /\ UNCHANGED <<lead, grain, cpuAt, cpc, rspAt, rspPub, rpc, rwait, halted, busy, spKick, barrier, ending, doneAt>>
    BY <1>17 DEF dpLogApply
  <2>2. spLog' \in Seq(Nat) /\ \A k \in 1 .. Len(spLog') : spLog'[k] < rspAt
    BY <2>1, SpLogFacts
  <2>3. TaskTyped'
    <3>1. TaskClocks'
      BY <2>1, <2>2 DEF TaskInv, TaskTyped, TaskClocks
    <3>2. TaskPhases'
      BY <2>1, <2>2 DEF TaskInv, TaskTyped, TaskPhases
    <3> QED BY <3>1, <3>2 DEF TaskTyped
  <2>4. PhasesKept'
    BY <2>1 DEF TaskInv, PhasesKept, UnderWay
  <2>5. ClocksKept'
    BY <2>1 DEF TaskInv, ClocksKept, UnderWay
  <2>6. SpLogKept'
    BY <2>1, <2>2 DEF TaskInv, SpLogKept, UnderWay
  <2> QED BY <2>3, <2>4, <2>5, <2>6 DEF TaskInv
<1>18. CASE retireOn
  <2>1. /\ cpc = "retire" /\ ~SpHeld(lead) /\ ~(ending /\ cpuAt >= doneAt) /\ cpc' = "exec"
        /\ UNCHANGED <<lead, grain, cpuAt, rspAt, rspPub, rpc, rwait, halted, spLog, busy, spKick, barrier, ending, doneAt>>
    BY <1>18 DEF retireOn, NothingDue
  <2>2. UnderWay => cpuAt < rspAt + lead
    BY <2>1 DEF TaskInv, TaskTyped, TaskClocks, TaskPhases, PhasesKept, ClocksKept, SpHeld
  <2>3. TaskTyped'
    <3>1. TaskClocks'
      BY <2>1 DEF TaskInv, TaskTyped, TaskClocks
    <3>2. TaskPhases'
      BY <2>1 DEF TaskInv, TaskTyped, TaskPhases
    <3> QED BY <3>1, <3>2 DEF TaskTyped
  <2>4. PhasesKept'
    BY <2>1 DEF TaskInv, PhasesKept, UnderWay
  <2>5. ClocksKept'
    BY <2>1, <2>2 DEF TaskInv, ClocksKept, TaskTyped, TaskClocks, TaskPhases, UnderWay
  <2>6. SpLogKept'
    BY <2>1 DEF TaskInv, SpLogKept, UnderWay
  <2> QED BY <2>3, <2>4, <2>5, <2>6 DEF TaskInv
<1>19. CASE retireEnd
  <2>1. /\ ending /\ cpuAt >= doneAt /\ ending' = FALSE /\ ~(spLog # <<>> /\ Head(spLog) <= cpuAt)
        /\ (cpc' = "relaunch" /\ UNCHANGED halted) \/ (cpc' = "exec" /\ halted' = TRUE)
        /\ UNCHANGED <<lead, grain, cpuAt, rspAt, rspPub, rpc, rwait, spLog, busy, spKick, barrier, doneAt>>
    BY <1>19 DEF retireEnd, NothingDue
  <2>2. ~UnderWay /\ ~UnderWay' /\ ~halted
    BY <2>1 DEF TaskInv, PhasesKept, UnderWay
  <2>3. spLog = <<>>
    BY <2>1, SpLogFacts DEF TaskInv, TaskTyped, TaskClocks, TaskPhases, ClocksKept
  <2>4. TaskTyped'
    <3>1. TaskClocks'
      BY <2>1 DEF TaskInv, TaskTyped, TaskClocks
    <3>2. TaskPhases'
      BY <2>1 DEF TaskInv, TaskTyped, TaskPhases
    <3> QED BY <3>1, <3>2 DEF TaskTyped
  <2>5. PhasesKept'
    BY <2>1, <2>2 DEF TaskInv, PhasesKept
  <2>6. ClocksKept'
    BY <2>1, <2>2 DEF TaskInv, ClocksKept
  <2>7. SpLogKept'
    BY <2>1, <2>3 DEF TaskInv, SpLogKept
  <2> QED BY <2>4, <2>5, <2>6, <2>7 DEF TaskInv
<1>20. CASE UNCHANGED tvars
  <2>1. UNCHANGED <<lead, grain, cpuAt, cpc, rspAt, rspPub, rpc, rwait, halted, spLog, busy, spKick, barrier, ending, doneAt>>
    BY <1>20 DEF tvars
  <2> QED BY <2>1 DEF TaskInv, TaskTyped, TaskClocks, TaskPhases, PhasesKept, ClocksKept, SpLogKept, UnderWay
<1> QED
  BY <1>1, <1>2, <1>3, <1>4, <1>5, <1>6, <1>7, <1>8, <1>9, <1>10, <1>11, <1>12, <1>13, <1>14, <1>15, <1>16,
     <1>17, <1>18, <1>19, <1>20 DEF TaskNext

\* TaskInv holds of every behaviour of the handshake.
LEMMA TaskInvariant == TaskSpec => []TaskInv
<1>1. TaskInv /\ [TaskNext]_tvars => TaskInv'
  BY TaskStep
<1> QED BY <1>1, TaskInitial, PTL DEF TaskSpec

\* The RSP that waits for the CPU and the CPU that waits for the RSP never face each other
\* (spReadSync, dpLogWait, spBarrierWait), for any lead, any grain and any clock.
THEOREM NobodyEmbraces == TaskSpec => []NoEmbrace
<1>1. ASSUME TaskInv, rwait, ~RspReady,
             \/ cpc = "retire" /\ SpHeld(lead) /\ ~(spLog # <<>> /\ Head(spLog) <= cpuAt)
             \/ cpc \in {"exec", "relaunch"} /\ busy /\ (halted \/ cpc = "relaunch")
             \/ cpc = "exec" /\ SpHeld(0) /\ cpuAt < SyncTarget
      PROVE  FALSE
  <2>1. /\ rpc \in {"fetch", "check", "break"} /\ rspPub = rspAt /\ UnderWay /\ ~halted /\ cpc # "relaunch"
        /\ cpuAt \in Nat /\ rspAt \in Nat /\ lead \in Nat
    BY <1>1 DEF TaskInv, TaskTyped, TaskClocks, TaskPhases, ClocksKept, PhasesKept, UnderWay
  <2>2. SyncTarget \in Nat /\ SyncTarget <= rspAt
    BY <1>1, SyncIsPast
  <2>3. ASSUME cpc = "retire", SpHeld(lead), ~(spLog # <<>> /\ Head(spLog) <= cpuAt) PROVE FALSE
    <3>1. cpuAt >= rspAt
      BY <2>1, <2>3 DEF SpHeld
    <3>2. spLog # <<>>
      BY <3>1, <2>1, <2>2, <1>1 DEF RspReady
    <3> QED BY <3>1, <3>2, <2>1, <2>3, <1>1, SpLogFacts
  <2>4. ASSUME SpHeld(0), cpuAt < SyncTarget PROVE FALSE
    BY <2>4, <2>1, <2>2 DEF SpHeld
  <2> QED BY <1>1, <2>1, <2>3, <2>4
<1>2. TaskInv => NoEmbrace
  BY <1>1 DEF NoEmbrace
<1> QED BY <1>2, TaskInvariant, PTL

\* The end of a task is not dated in the CPU's past (spEndArm adds the lead that spBarrierWait
\* grants), for any lead, any grain and any clock.
THEOREM EndComesInTime == TaskSpec => []EndNotLate
<1>1. TaskInv => EndNotLate
  BY DEF TaskInv, TaskTyped, TaskClocks, TaskPhases, ClocksKept, EndNotLate
<1> QED BY <1>1, TaskInvariant, PTL

(***************************************************************************)
(* The three together: each moves as it does by itself.                    *)
(***************************************************************************)

\* A behaviour of the RCP is one of its FIFO and one of its handshake.
LEMMA RcpParts == Spec => FifoSpec /\ TaskSpec
<1>1. RcpInit => FifoInit /\ TaskInit
  BY DEF RcpInit
<1>2. [RcpNext]_rcpVars => [FifoNext]_fvars
  BY DEF RcpNext, rcpVars
<1>3. [RcpNext]_rcpVars => [TaskNext]_tvars
  BY DEF RcpNext, rcpVars
<1> QED BY <1>1, <1>2, <1>3, PTL DEF Spec, FifoSpec, TaskSpec

\* Nobody waits for a thing that will not come and the end of a task is not dated in the past
\* (rdpSubmit, rdpDrain, spBarrierWait, spEndArm), for any sizes, grains and leads.
THEOREM HandshakesAlwaysHold == Spec => []HandshakesHold
<1>1. NoLostWakeup /\ NoEmbrace /\ EndNotLate => HandshakesHold
  BY DEF HandshakesHold
<1> QED BY RcpParts, WorkerIsWoken, NobodyEmbraces, EndComesInTime, <1>1, PTL
=============================================================================
