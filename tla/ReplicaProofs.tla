--------------------------- MODULE ReplicaProofs ----------------------------
(***************************************************************************)
(* Proofs about one replica.  Every step of Replica is a step of Gate and  *)
(* a step of Lifecycle (ComposesGate, ComposesLifecycle), so what either   *)
(* module guarantees alone holds of the replica.                           *)
(***************************************************************************)
EXTENDS Replica, TLAPS

-----------------------------------------------------------------------------
(* The parts of a step.                                                    *)

LEMMA StepOfGate == ASSUME [Next]_vars PROVE [GateNext]_gateVars
<1>1. CASE UNCHANGED vars
  BY <1>1 DEF vars
<1>2. ASSUME NEW r \in Request,
             \/ PassIngest(r) \/ ServeOther(r) \/ TurnAway(r)
             \/ \E p \in Prober : ServeProbe(r, p)
      PROVE GateNext
  BY <1>2 DEF PassIngest, ServeOther, TurnAway, ServeProbe, GateNext
<1>3. CASE ServeIngest
  BY <1>3 DEF ServeIngest
<1>4. CASE CollectBuckets
  BY <1>4 DEF CollectBuckets, GateNext
<1>5. CASE ClockTicks
  BY <1>5 DEF ClockTicks, GateNext
<1>6. CASE Alone
  BY <1>6 DEF Alone
<1> QED
  BY <1>1, <1>2, <1>3, <1>4, <1>5, <1>6 DEF Next

LEMMA StepOfLife == ASSUME [Next]_vars PROVE [LifeNext]_lifeVars
<1>1. CASE UNCHANGED vars
  BY <1>1 DEF vars
<1>2. ASSUME NEW r \in Request, PassIngest(r) \/ ServeOther(r) \/ TurnAway(r)
      PROVE UNCHANGED lifeVars
  BY <1>2 DEF PassIngest, ServeOther, TurnAway
<1>3. ASSUME NEW r \in Request, NEW p \in Prober, ServeProbe(r, p)
      PROVE LifeNext
  BY <1>3 DEF ServeProbe, LifeNext
<1>4. CASE ServeIngest
  BY <1>4 DEF ServeIngest, LifeNext
<1>5. CASE CollectBuckets \/ ClockTicks
  BY <1>5 DEF CollectBuckets, ClockTicks
<1>6. CASE Alone
  BY <1>6 DEF Alone, LifeNext
<1> QED
  BY <1>1, <1>2, <1>3, <1>4, <1>5, <1>6 DEF Next

(***************************************************************************)
(* A replica does to its limiter only what proxy.ts and gc do.             *)
(***************************************************************************)
THEOREM ComposesGate == Spec => GateSpec
<1>1. Init => GateInit
  BY DEF Init
<1>2. [Next]_vars => [GateNext]_gateVars
  BY StepOfGate
<1> QED
  BY <1>1, <1>2, PTL DEF Spec, GateSpec

(***************************************************************************)
(* A replica boots, re-arms, answers probes and shuts down as Lifecycle    *)
(* does, whatever requests the gate lets through.                          *)
(***************************************************************************)
THEOREM ComposesLifecycle == Spec => LifeSpec
<1>1. Init => LifeInit
  BY DEF Init
<1>2. [Next]_vars => [LifeNext]_lifeVars
  BY StepOfLife
<1> QED
  BY <1>1, <1>2, PTL DEF Spec, LifeSpec

-----------------------------------------------------------------------------
(* Lifecycle.                                                              *)

\* A refused prober has no probe under way that could still say `ready'.
RefusedInv ==
  \A p \in Prober : told[p] = "shutting_down" => draining /\ p \notin probing

LifeInv == LifeTypeOK /\ OneTimerPerJob /\ RefusedInv

\* What the actions that neither start nor stop an interval leave alone.
Intervals == <<toStart, handle, timers>>
Signalled == <<listening, draining, hook>>

LEMMA StartKeeps ==
  ASSUME NEW jobs \in SUBSET Job, LifeTypeOK, OneTimerPerJob, Start(jobs)
  PROVE  /\ handle' \in [Job -> BOOLEAN] /\ timers' \in [Job -> Nat]
         /\ OneTimerPerJob'
<1> DEFINE started == {j \in jobs : WillStart(j)}
<1>1. handle' = [j \in Job |-> handle[j] \/ j \in started]
  BY DEF Start
<1>2. timers' = [j \in Job |-> IF j \in started THEN timers[j] + 1 ELSE timers[j]]
  BY DEF Start
<1>3. \A j \in Job : j \in started => ~handle[j]
  BY DEF WillStart
<1> HIDE DEF started
<1>4. handle' \in [Job -> BOOLEAN]
  <2>1. \A j \in Job : (handle[j] \/ j \in started) \in BOOLEAN
    OBVIOUS
  <2> QED
    BY <1>1, <2>1
<1>5. timers' \in [Job -> Nat]
  BY <1>2 DEF LifeTypeOK
<1>6. ASSUME NEW j \in Job PROVE timers'[j] = IF handle'[j] THEN 1 ELSE 0
  <2>1. timers[j] = IF handle[j] THEN 1 ELSE 0
    BY DEF OneTimerPerJob
  <2>2. CASE j \in started
    <3>1. timers'[j] = 1
      BY <2>1, <2>2, <1>2, <1>3
    <3>2. handle'[j]
      BY <2>2, <1>1
    <3> QED
      BY <3>1, <3>2
  <2>3. CASE j \notin started
    <3>1. timers'[j] = timers[j]
      BY <2>3, <1>2
    <3>2. handle'[j] <=> handle[j]
      BY <2>3, <1>1
    <3> QED
      BY <2>1, <3>1, <3>2
  <2> QED
    BY <2>2, <2>3
<1> QED
  BY <1>4, <1>5, <1>6 DEF OneTimerPerJob

LEMMA ClearKeeps ==
  ASSUME LifeTypeOK, OneTimerPerJob,
         handle' = [j \in Job |-> HandleAfterClear(j)],
         timers' = [j \in Job |-> TimersAfterClear(j)]
  PROVE  /\ handle' \in [Job -> BOOLEAN] /\ timers' \in [Job -> Nat]
         /\ OneTimerPerJob'
BY DEF LifeTypeOK, OneTimerPerJob, HandleAfterClear, TimersAfterClear

LEMMA LifeInitially == LifeInit => LifeInv
<1> SUFFICES ASSUME LifeInit PROVE LifeInv
  OBVIOUS
<1>1. toStart \in Seq(Job)
  BY DEF LifeInit, BootOrder, Job
<1>2. LifeTypeOK
  BY <1>1 DEF LifeInit, LifeTypeOK, Signals
<1>3. OneTimerPerJob
  BY DEF LifeInit, OneTimerPerJob
<1>4. RefusedInv
  BY DEF LifeInit, RefusedInv
<1> QED
  BY <1>2, <1>3, <1>4 DEF LifeInv

LEMMA LifeStep == ASSUME LifeInv, [LifeNext]_lifeVars PROVE LifeInv'
<1> USE DEF LifeInv
<1>1. CASE Boot
  <2>1. Head(toStart) \in Job /\ toStart' \in Seq(Job)
    BY <1>1 DEF Boot, LifeTypeOK
  <2>2. /\ handle' \in [Job -> BOOLEAN] /\ timers' \in [Job -> Nat]
        /\ OneTimerPerJob'
    BY <1>1, <2>1, StartKeeps DEF Boot
  <2>3. LifeTypeOK'
    BY <1>1, <2>1, <2>2 DEF Boot, LifeTypeOK
  <2>4. RefusedInv'
    BY <1>1 DEF Boot, RefusedInv
  <2> QED
    BY <2>2, <2>3, <2>4
<1>2. CASE Rearm
  <2>1. IngestJobs \in SUBSET Job
    BY DEF IngestJobs, Job
  <2>2. /\ handle' \in [Job -> BOOLEAN] /\ timers' \in [Job -> Nat]
        /\ OneTimerPerJob'
    BY <1>2, <2>1, StartKeeps DEF Rearm
  <2>3. LifeTypeOK'
    BY <1>2, <2>2 DEF Rearm, LifeTypeOK
  <2>4. RefusedInv'
    BY <1>2 DEF Rearm, RefusedInv
  <2> QED
    BY <2>2, <2>3, <2>4
<1>3. ASSUME NEW p \in Prober, ProbeBegins(p) PROVE LifeInv'
  <2>1. UNCHANGED Intervals /\ UNCHANGED <<Signalled, graceOver, exited>>
    BY <1>3 DEF ProbeBegins, Intervals, Signalled
  <2>2. LifeTypeOK' /\ OneTimerPerJob'
    BY <1>3, <2>1
       DEF ProbeBegins, LifeTypeOK, OneTimerPerJob, Intervals, Signalled
  <2>3. RefusedInv'
    BY <1>3 DEF ProbeBegins, RefusedInv, LifeTypeOK, IsRefused, AsksDatabase
  <2> QED
    BY <2>2, <2>3
<1>4. ASSUME NEW p \in Prober, NEW a \in Answer, ProbeEnds(p, a) PROVE LifeInv'
  <2>1. LifeTypeOK' /\ OneTimerPerJob'
    BY <1>4 DEF ProbeEnds, LifeTypeOK, OneTimerPerJob
  <2>2. RefusedInv'
    BY <1>4 DEF ProbeEnds, RefusedInv, LifeTypeOK, Answer
  <2> QED
    BY <2>1, <2>2
<1>5. ASSUME NEW s \in Signals, Signal(s) PROVE LifeInv'
  <2>1. /\ handle' \in [Job -> BOOLEAN] /\ timers' \in [Job -> Nat]
        /\ OneTimerPerJob'
    <3>1. CASE draining
      BY <1>5, <3>1 DEF Signal, LifeTypeOK, OneTimerPerJob
    <3>2. CASE ~draining
      BY <1>5, <3>2, ClearKeeps DEF Signal
    <3> QED
      BY <3>1, <3>2
  <2>2. LifeTypeOK'
    BY <1>5, <2>1 DEF Signal, LifeTypeOK
  <2>3. RefusedInv'
    BY <1>5 DEF Signal, RefusedInv
  <2> QED
    BY <2>1, <2>2, <2>3
<1>6. ASSUME NEW h \in Hook, NEW outcome \in {"ended", "failed"},
             HookSettles(h, outcome)
      PROVE LifeInv'
  BY <1>6 DEF HookSettles, LifeTypeOK, OneTimerPerJob, RefusedInv
<1>7. CASE GraceEnds
  BY <1>7 DEF GraceEnds, LifeTypeOK, OneTimerPerJob, RefusedInv
<1>8. CASE Exit
  BY <1>8 DEF Exit, LifeTypeOK, OneTimerPerJob, RefusedInv
<1>9. CASE UNCHANGED lifeVars
  BY <1>9 DEF lifeVars, LifeTypeOK, OneTimerPerJob, RefusedInv
<1> QED
  BY <1>1, <1>2, <1>3, <1>4, <1>5, <1>6, <1>7, <1>8, <1>9 DEF LifeNext

LEMMA LifeAlways == LifeSpec => []LifeInv
BY LifeInitially, LifeStep, PTL DEF LifeSpec

(***************************************************************************)
(* Boot, ingests and shutdown, in any order, leave one interval for each   *)
(* handle that is set and none without a handle.                           *)
(***************************************************************************)
THEOREM TimersMatchHandles == Spec => []OneTimerPerJob
BY ComposesLifecycle, LifeAlways, PTL DEF LifeInv

(***************************************************************************)
(* A prober that was told of the drain is never told anything else.        *)
(***************************************************************************)
THEOREM DrainIsFinal == Spec => NoReturnToService
<1>1. LifeInv /\ [LifeNext]_lifeVars =>
        [\A p \in Prober : told[p] = "shutting_down" =>
                             told'[p] = "shutting_down"]_lifeVars
  <2> SUFFICES ASSUME LifeInv, LifeNext, NEW p \in Prober,
                      told[p] = "shutting_down"
               PROVE  told'[p] = "shutting_down"
    BY DEF lifeVars
  <2>0. draining /\ p \notin probing /\ told \in [Prober -> Answer \cup {"nothing", "shutting_down"}]
    BY DEF LifeInv, RefusedInv, LifeTypeOK
  <2>1. ASSUME NEW q \in Prober, ProbeBegins(q)
        PROVE  told'[p] = "shutting_down"
    BY <2>0, <2>1 DEF ProbeBegins, IsRefused
  <2>2. ASSUME NEW q \in Prober, NEW a \in Answer, ProbeEnds(q, a)
        PROVE  told'[p] = "shutting_down"
    BY <2>0, <2>2 DEF ProbeEnds
  <2>3. ASSUME \/ Boot \/ Rearm \/ GraceEnds \/ Exit
               \/ \E s \in Signals : Signal(s)
               \/ \E h \in Hook, o \in {"ended", "failed"} : HookSettles(h, o)
        PROVE  told' = told
    BY <2>3 DEF Boot, Rearm, GraceEnds, Exit, Signal, HookSettles
  <2> QED
    BY <2>1, <2>2, <2>3 DEF LifeNext
<1> QED
  BY <1>1, ComposesLifecycle, LifeAlways, PTL DEF LifeSpec, NoReturnToService
-----------------------------------------------------------------------------
(* Gate.                                                                   *)

LEMMA LimitIsInt == ASSUME NEW b \in Bucket PROVE LimitOf(b) \in Int
<1>1. b[1] \in BucketName
  BY DEF Bucket, BucketName
<1> QED
  BY <1>1, GateAssumption DEF LimitOf

\* What Gate knows of one bucket: the length and the times of its history, and
\* where its running window begins in it.
Hits(b) == Len(admitted[b])
First(b) == Hits(b) - bucket[b].count + 1

Sorted(b) ==
  /\ \A i \in 1..Hits(b) : admitted[b][i] <= now
  /\ \A i, j \in 1..Hits(b) : i <= j => admitted[b][i] <= admitted[b][j]

\* The window runs: its requests are the last ones, the first of them opened it,
\* and what is `limit' requests older than that one is a window older.
RunningInv(b) ==
  /\ bucket[b].count \in 1..LimitOf(b)
  /\ bucket[b].count <= Hits(b)
  /\ admitted[b][First(b)] + WindowMs = bucket[b].resetAt
  /\ \A i \in 1..Hits(b) : i + LimitOf(b) <= First(b) =>
       admitted[b][i] + WindowMs <= admitted[b][First(b)]

\* The window is over: fewer than `limit' requests are younger than a window.
OverInv(b) ==
  \A i \in 1..Hits(b) : i + LimitOf(b) <= Hits(b) + 1 =>
    admitted[b][i] + WindowMs <= now

Spread(b) ==
  \A i, j \in 1..Hits(b) : j = i + 2 * LimitOf(b) - 1 =>
    admitted[b][j] >= admitted[b][i] + WindowMs

BucketInv(b) ==
  /\ Sorted(b) /\ Spread(b)
  /\ bucket[b].resetAt > now => RunningInv(b)
  /\ bucket[b].resetAt <= now => OverInv(b)

GateInv ==
  /\ GateTypeOK
  /\ \A b \in Bucket : LimitOf(b) > 0 => BucketInv(b)

LEMMA GateInitially == GateInit => GateInv
<1> SUFFICES ASSUME GateInit PROVE GateInv
  OBVIOUS
<1>1. GateTypeOK
  BY DEF GateInit, GateTypeOK, NoBucket, Buckets
<1>2. ASSUME NEW b \in Bucket PROVE BucketInv(b)
  <2>1. Hits(b) = 0 /\ bucket[b].resetAt = 0 /\ now = 1
    BY DEF GateInit, Hits, NoBucket
  <2>2. 1..Hits(b) = {}
    BY <2>1
  <2>3. Sorted(b) /\ Spread(b) /\ OverInv(b)
    BY <2>2 DEF Sorted, Spread, OverInv
  <2>4. ~(bucket[b].resetAt > now)
    BY <2>1
  <2> QED
    BY <2>3, <2>4 DEF BucketInv
<1> QED
  BY <1>1, <1>2 DEF GateInv

\* Time passes, or gc runs.
LEMMA BucketAsTimePasses ==
  ASSUME GateTypeOK, NEW b \in Bucket, LimitOf(b) > 0, BucketInv(b),
         admitted'[b] = admitted[b], now' \in Nat, now' >= now,
         \/ bucket'[b] = bucket[b]
         \/ now' = now /\ bucket[b].resetAt <= now /\ bucket'[b] = NoBucket
  PROVE  BucketInv(b)'
<1> DEFINE n == Len(admitted[b])
           A == admitted[b]
           L == LimitOf(b)
<1>0. /\ n \in Nat /\ L \in Nat /\ now \in Nat /\ WindowMs \in Nat
      /\ \A i \in 1..n : A[i] \in Nat
      /\ bucket[b] \in Buckets
  BY LimitIsInt, GateAssumption DEF GateTypeOK
<1>1. Hits(b) = n /\ Hits(b)' = n /\ admitted'[b] = A
  BY DEF Hits
<1>2a. Sorted(b)'
  <2>1. \A i \in 1..n : A[i] <= now'
    BY <1>0, <1>1 DEF BucketInv, Sorted
  <2>2. \A i, j \in 1..n : i <= j => A[i] <= A[j]
    BY <1>1 DEF BucketInv, Sorted
  <2> QED
    BY <2>1, <2>2, <1>1 DEF Sorted
<1>2b. Spread(b)'
  <2>1. \A i, j \in 1..n : j = i + 2 * L - 1 => A[j] >= A[i] + WindowMs
    BY <1>1 DEF BucketInv, Spread
  <2> QED
    BY <2>1, <1>1 DEF Spread, LimitOf
<1>2. Sorted(b)' /\ Spread(b)'
  BY <1>2a, <1>2b
<1>3. CASE bucket'[b] = bucket[b]
  <2>1. CASE bucket[b].resetAt > now'
    <3>1. RunningInv(b)
      BY <2>1, <1>0 DEF BucketInv, Buckets
    <3>2. RunningInv(b)'
      BY <3>1, <1>1, <1>3 DEF RunningInv, First, LimitOf
    <3> QED
      BY <1>2, <1>3, <2>1, <3>2, <1>0 DEF BucketInv, Buckets
  <2>2. CASE bucket[b].resetAt <= now /\ bucket[b].resetAt <= now'
    <3>1. OverInv(b)
      BY <2>2 DEF BucketInv
    <3>2. OverInv(b)'
      BY <3>1, <1>0, <1>1 DEF OverInv, LimitOf
    <3> QED
      BY <1>2, <1>3, <2>2, <3>2, <1>0 DEF BucketInv, Buckets
  <2>3. CASE bucket[b].resetAt > now /\ bucket[b].resetAt <= now'
    <3>1. RunningInv(b) /\ Sorted(b)
      BY <2>3 DEF BucketInv
    <3>2. /\ bucket[b].count \in 1..L /\ bucket[b].count <= n
          /\ First(b) = n - bucket[b].count + 1
          /\ A[First(b)] + WindowMs = bucket[b].resetAt
      BY <3>1, <1>1 DEF RunningInv, First
    <3>3. First(b) \in 1..n
      BY <3>2, <1>0 DEF Buckets
    <3>4. ASSUME NEW i \in 1..n, i + L <= n + 1 PROVE A[i] + WindowMs <= now'
      <4>1. i <= First(b)
        BY <3>2, <3>4, <1>0 DEF Buckets
      <4>2. A[i] <= A[First(b)]
        BY <4>1, <3>1, <3>3, <1>1 DEF Sorted
      <4>3. A[i] \in Nat /\ A[First(b)] \in Nat
        BY <3>3, <1>0
      <4>4. WindowMs \in Nat /\ bucket[b].resetAt \in Nat
        BY <1>0 DEF Buckets
      <4>5. A[i] + WindowMs <= bucket[b].resetAt
        <5>1. A[i] + WindowMs <= A[First(b)] + WindowMs
          BY <4>2, <4>3, <4>4
        <5> QED
          BY <5>1, <3>2
      <4> QED
        BY <4>3, <4>4, <4>5, <2>3
    <3>5. OverInv(b)'
      <4>1. \A i \in 1..n : i + L <= n + 1 => A[i] + WindowMs <= now'
        BY <3>4
      <4> QED
        BY <4>1, <1>1 DEF OverInv, LimitOf
    <3> QED
      BY <1>2, <1>3, <2>3, <3>5, <1>0 DEF BucketInv, Buckets
  <2> QED
    BY <2>1, <2>2, <2>3, <1>0 DEF Buckets
<1>4. CASE now' = now /\ bucket[b].resetAt <= now /\ bucket'[b] = NoBucket
  <2>1. OverInv(b)'
    BY <1>4, <1>1 DEF BucketInv, OverInv, LimitOf
  <2>2. bucket'[b].resetAt = 0
    BY <1>4 DEF NoBucket
  <2> QED
    BY <2>1, <2>2, <1>2, <1>4, <1>0 DEF BucketInv
<1> QED
  BY <1>3, <1>4

\* A request is counted.
LEMMA BucketAfterCount ==
  ASSUME GateTypeOK, NEW b \in Bucket, LimitOf(b) > 0, BucketInv(b),
         Count(b), now' = now
  PROVE  BucketInv(b)'
<1> DEFINE n == Len(admitted[b])
           A == admitted[b]
           B == admitted'[b]
           L == LimitOf(b)
<1>0. /\ n \in Nat /\ L \in Nat \ {0} /\ now \in Nat /\ WindowMs \in Nat \ {0}
      /\ \A i \in 1..n : A[i] \in Nat
      /\ A \in Seq(Nat)
      /\ bucket[b].count \in Nat /\ bucket[b].resetAt \in Nat
  BY LimitIsInt, GateAssumption DEF GateTypeOK, Buckets
<1>1. B = Append(A, now)
  BY DEF Count, GateTypeOK
<1>2. Len(B) = n + 1 /\ B[n + 1] = now /\ \A i \in 1..n : B[i] = A[i]
  BY <1>0, <1>1
<1>3. bucket'[b] = [count |-> Current(b).count + 1, resetAt |-> Current(b).resetAt]
  BY DEF Count, GateTypeOK
<1>4. /\ Hits(b) = n /\ Hits(b)' = n + 1
      /\ LimitOf(b) = L /\ LimitOf(b)' = L
  BY <1>2 DEF Hits, LimitOf
<1>5. Current(b).count < L
  <2>1. Current(b).count \in Nat
    BY <1>0, SMT DEF Current
  <2> QED
    BY <2>1, <1>0 DEF Count, IsFull
<1>6. /\ \A i \in 1..n : A[i] <= now
      /\ \A i, j \in 1..n : i <= j => A[i] <= A[j]
      /\ \A i, j \in 1..n : j = i + 2 * L - 1 => A[j] >= A[i] + WindowMs
  BY <1>4 DEF BucketInv, Sorted, Spread
<1> HIDE DEF n, A, B, L
<1>n. \A i \in 1..(n + 1) : i \in Int /\ (i \in 1..n \/ i = n + 1)
  BY <1>0
<1>7. \A i \in 1..(n + 1) : B[i] <= now
  BY <1>0, <1>2, <1>6, <1>n
<1>8. \A i, j \in 1..(n + 1) : i <= j => B[i] <= B[j]
  <2> SUFFICES ASSUME NEW i \in 1..(n + 1), NEW j \in 1..(n + 1), i <= j
               PROVE  B[i] <= B[j]
    OBVIOUS
  <2>1. CASE j \in 1..n
    <3>1. i \in 1..n
      BY <2>1, <1>0
    <3> QED
      BY <2>1, <3>1, <1>2, <1>6
  <2>2. CASE j = n + 1
    BY <2>2, <1>2, <1>7
  <2> QED
    BY <2>1, <2>2, <1>n
<1>9. Sorted(b)'
  BY <1>7, <1>8, <1>4 DEF Sorted, B
\* What is twice the limit of requests older than this one is a window older.
<1>10. ASSUME \A i \in 1..n : i = n + 2 - 2 * L => A[i] + WindowMs <= now
       PROVE  Spread(b)'
  <2>1. ASSUME NEW i \in 1..(n + 1), NEW j \in 1..(n + 1), j = i + 2 * L - 1
        PROVE  B[j] >= B[i] + WindowMs
    <3>1. i \in 1..n
      BY <2>1, <1>0
    <3>2. CASE j \in 1..n
      BY <3>1, <3>2, <2>1, <1>2, <1>6
    <3>3. CASE j = n + 1
      <4>1. i = n + 2 - 2 * L
        BY <3>3, <2>1, <1>0, <1>n
      <4>2. A[i] + WindowMs <= now
        BY <4>1, <3>1, <1>10
      <4> QED
        BY <4>2, <3>1, <3>3, <1>0, <1>2
    <3> QED
      BY <3>2, <3>3, <1>n
  <2> QED
    BY <2>1, <1>4 DEF Spread, B
<1>11. CASE bucket[b].resetAt <= now
  <2>1. bucket'[b] = [count |-> 1, resetAt |-> now + WindowMs]
    BY <1>3, <1>11 DEF Current
  <2>2. \A i \in 1..n : i + L <= n + 1 => A[i] + WindowMs <= now
    BY <1>4, <1>11 DEF BucketInv, OverInv, A
  <2>3. Spread(b)'
    <3>1. \A i \in 1..n : i = n + 2 - 2 * L => A[i] + WindowMs <= now
      <4> SUFFICES ASSUME NEW i \in 1..n, i = n + 2 - 2 * L
                   PROVE  A[i] + WindowMs <= now
        OBVIOUS
      <4>1. i + L <= n + 1
        BY <1>0
      <4> QED
        BY <4>1, <2>2
    <3> QED
      BY <3>1, <1>10
  <2>4. First(b)' = n + 1
    BY <2>1, <1>4, <1>0 DEF First
  <2>5. ASSUME NEW i \in 1..(n + 1), i + L <= n + 1
        PROVE  B[i] + WindowMs <= B[n + 1]
    <3>1. i \in 1..n
      BY <2>5, <1>0
    <3> QED
      BY <3>1, <2>5, <2>2, <1>2
  <2>6. RunningInv(b)'
    <3>1. bucket'[b].count \in 1..L /\ bucket'[b].count <= n + 1
      BY <2>1, <1>0
    <3>2. B[n + 1] + WindowMs = bucket'[b].resetAt
      BY <2>1, <1>2
    <3> QED
      BY <3>1, <3>2, <2>4, <2>5, <1>4 DEF RunningInv, B
  <2>7. ~(bucket'[b].resetAt <= now')
    BY <2>1, <1>0
  <2> QED
    BY <2>3, <2>6, <2>7, <1>9 DEF BucketInv
<1>12. CASE bucket[b].resetAt > now
  <2> DEFINE c == bucket[b].count
             f == n - c + 1
  <2>0. Current(b) = bucket[b]
    BY <1>12, <1>0 DEF Current
  <2>1. bucket'[b] = [count |-> c + 1, resetAt |-> bucket[b].resetAt]
    BY <1>3, <2>0
  <2>2. /\ c \in 1..L /\ c <= n /\ c < L
        /\ First(b) = f /\ A[f] + WindowMs = bucket[b].resetAt
        /\ \A i \in 1..n : i + L <= f => A[i] + WindowMs <= A[f]
    BY <1>12, <1>4, <1>5, <2>0 DEF BucketInv, RunningInv, First, A
  <2>a. bucket'[b].count = c + 1 /\ bucket'[b].resetAt = bucket[b].resetAt
    BY <2>1
  <2>b. c \in Nat /\ f = n - c + 1
    BY <1>0
  <2> HIDE DEF c, f
  <2>3. f \in 1..n
    BY <2>2, <2>b, <1>0
  <2>4. First(b)' = f
    <3>1. First(b)' = (n + 1) - (c + 1) + 1
      BY <2>a, <1>4 DEF First
    <3> QED
      BY <3>1, <2>b, <1>0
  <2>5. Spread(b)'
    <3>1. ASSUME NEW i \in 1..n, i = n + 2 - 2 * L PROVE A[i] + WindowMs <= now
      <4>1. i + L <= f
        BY <3>1, <2>2, <2>b, <1>0
      <4>2. A[i] + WindowMs <= A[f] /\ A[f] <= now
        BY <4>1, <2>2, <2>3, <1>6
      <4>3. A[i] \in Nat /\ A[f] \in Nat
        BY <2>3, <1>0
      <4> QED
        BY <4>2, <4>3, <1>0
    <3> QED
      BY <3>1, <1>10
  <2>6. ASSUME NEW i \in 1..(n + 1), i + L <= f PROVE B[i] + WindowMs <= B[f]
    <3>1. i \in 1..n
      BY <2>6, <2>3, <1>0, <1>n
    <3> QED
      BY <3>1, <2>6, <2>2, <2>3, <1>2
  <2>7. RunningInv(b)'
    <3>1. bucket'[b].count \in 1..L /\ bucket'[b].count <= n + 1
      BY <2>a, <2>b, <2>2, <1>0
    <3>2. B[f] + WindowMs = bucket'[b].resetAt
      BY <2>a, <2>2, <2>3, <1>2
    <3> QED
      BY <3>1, <3>2, <2>4, <2>6, <1>4 DEF RunningInv, B
  <2>8. ~(bucket'[b].resetAt <= now')
    BY <2>a, <1>0, <1>12
  <2> QED
    BY <2>5, <2>7, <2>8, <1>9 DEF BucketInv
<1> QED
  BY <1>11, <1>12, <1>0

LEMMA ChoiceIsBucket == ASSUME NEW r \in Request PROVE Choice(r) \in Bucket
<1>1. r.ip \in Ip /\ r.token \in Token \cup {NoToken}
  BY DEF Request
<1>2. CASE r.route = "enroll"
  BY <1>1, <1>2 DEF Choice, Bucket
<1>3. CASE r.route # "enroll" /\ (IsPublic(r) \/ r.token = NoToken)
  BY <1>1, <1>3 DEF Choice, Bucket
<1>4. CASE r.route # "enroll" /\ ~(IsPublic(r) \/ r.token = NoToken)
  <2>1. Choice(r) = <<"api-key", Prefix[r.token]>>
    BY <1>4 DEF Choice
  <2>2. Prefix[r.token] \in Prefixes
    BY <1>1, <1>4 DEF Prefixes
  <2> QED
    BY <2>1, <2>2 DEF Bucket
<1> QED
  BY <1>2, <1>3, <1>4

LEMMA CountKeepsTypes ==
  ASSUME GateTypeOK, NEW b \in Bucket, Count(b)
  PROVE  bucket' \in [Bucket -> Buckets] /\ admitted' \in [Bucket -> Seq(Nat)]
<1>1. bucket[b] \in Buckets /\ now \in Nat /\ WindowMs \in Nat
  BY GateAssumption DEF GateTypeOK
<1>2. Current(b).count \in Nat /\ Current(b).resetAt \in Nat
  BY <1>1 DEF Current, Buckets
<1>3. [count |-> Current(b).count + 1, resetAt |-> Current(b).resetAt] \in Buckets
  BY <1>2 DEF Buckets
<1>4. bucket' \in [Bucket -> Buckets]
  BY <1>3 DEF Count, GateTypeOK
<1>5. Append(admitted[b], now) \in Seq(Nat)
  BY <1>1 DEF GateTypeOK
<1>6. admitted' \in [Bucket -> Seq(Nat)]
  BY <1>5 DEF Count, GateTypeOK
<1> QED
  BY <1>4, <1>6

LEMMA GateStep == ASSUME GateInv, [GateNext]_gateVars PROVE GateInv'
<1> USE DEF GateInv
<1>0. now \in Nat
  BY DEF GateTypeOK
\* A step that counts nothing.
<1>1. ASSUME admitted' = admitted, now' \in Nat, now' >= now,
             \/ bucket' = bucket
             \/ /\ now' = now
                /\ \A b \in Bucket : \/ bucket'[b] = bucket[b]
                                     \/ /\ bucket[b].resetAt <= now
                                        /\ bucket'[b] = NoBucket
      PROVE  \A b \in Bucket : LimitOf(b)' > 0 => BucketInv(b)'
  <2> SUFFICES ASSUME NEW b \in Bucket, LimitOf(b) > 0 PROVE BucketInv(b)'
    BY DEF LimitOf
  <2>1. \/ bucket'[b] = bucket[b]
        \/ now' = now /\ bucket[b].resetAt <= now /\ bucket'[b] = NoBucket
    BY <1>1
  <2> QED
    BY <1>1, <2>1, BucketAsTimePasses
<1>2. ASSUME NEW r \in Request, Admit(r) PROVE GateInv'
  <2>1. CASE IsCounted(r)
    <3> DEFINE x == Choice(r)
    <3>1. x \in Bucket /\ Count(x) /\ now' = now /\ drops' = drops
      BY <1>2, <2>1, ChoiceIsBucket DEF Admit
    <3> HIDE DEF x
    <3>2. GateTypeOK'
      BY <3>1, CountKeepsTypes DEF GateTypeOK
    <3>3. ASSUME NEW b \in Bucket, LimitOf(b) > 0 PROVE BucketInv(b)'
      <4>1. CASE b = x
        BY <3>1, <3>3, <4>1, BucketAfterCount
      <4>2. CASE b # x
        <5>1. bucket'[b] = bucket[b] /\ admitted'[b] = admitted[b]
          BY <3>1, <4>2 DEF Count, GateTypeOK
        <5> QED
          BY <5>1, <3>1, <3>3, <1>0, BucketAsTimePasses
      <4> QED
        BY <4>1, <4>2
    <3> QED
      BY <3>2, <3>3 DEF LimitOf
  <2>2. CASE ~IsCounted(r)
    <3>1. UNCHANGED gateVars
      BY <1>2, <2>2 DEF Admit, gateVars
    <3>2. GateTypeOK'
      BY <3>1 DEF GateTypeOK, gateVars
    <3> QED
      BY <3>1, <3>2, <1>0, <1>1 DEF gateVars
  <2> QED
    BY <2>1, <2>2
<1>3. ASSUME NEW r \in Request, Refuse(r) PROVE GateInv'
  <2>0. Choice(r)[1] \in BucketName
    BY ChoiceIsBucket DEF Bucket, BucketName
  <2>1. GateTypeOK'
    BY <1>3, <2>0 DEF Refuse, GateTypeOK
  <2> QED
    BY <1>3, <2>1, <1>0, <1>1 DEF Refuse
<1>4. CASE Gc
  <2>1. GateTypeOK'
    BY <1>4 DEF Gc, Kept, GateTypeOK, NoBucket, Buckets
  <2>2. \A b \in Bucket : \/ bucket'[b] = bucket[b]
                          \/ bucket[b].resetAt <= now /\ bucket'[b] = NoBucket
    BY <1>4 DEF Gc, Kept
  <2>3. admitted' = admitted /\ now' = now
    BY <1>4 DEF Gc
  <2> QED
    BY <2>1, <2>2, <2>3, <1>0, <1>1
<1>5. CASE Tick
  <2>1. GateTypeOK'
    BY <1>5 DEF Tick, GateTypeOK
  <2>2. now' \in Nat /\ now' >= now
    BY <1>5, <1>0 DEF Tick
  <2> QED
    BY <1>5, <2>1, <2>2, <1>1 DEF Tick
<1>6. CASE UNCHANGED gateVars
  <2>1. GateTypeOK'
    BY <1>6 DEF GateTypeOK, gateVars
  <2> QED
    BY <1>6, <2>1, <1>0, <1>1 DEF gateVars
<1> QED
  BY <1>2, <1>3, <1>4, <1>5, <1>6 DEF GateNext

LEMMA GateAlways == GateSpec => []GateInv
BY GateInitially, GateStep, PTL DEF GateSpec

LEMMA InvBounds == GateInv => WindowBound
<1> SUFFICES ASSUME GateInv, NEW b \in Bucket, LimitOf(b) > 0,
                    NEW i \in DOMAIN admitted[b], NEW j \in DOMAIN admitted[b],
                    j = i + 2 * LimitOf(b) - 1
             PROVE  admitted[b][j] >= admitted[b][i] + WindowMs
  BY DEF WindowBound
<1>1. DOMAIN admitted[b] = 1..Hits(b)
  BY DEF GateInv, GateTypeOK, Hits
<1> QED
  BY <1>1 DEF GateInv, BucketInv, Spread

(***************************************************************************)
(* Whatever the limits, the window and the clients, twice the limit of     *)
(* consecutive requests of a bucket take at least a window.                *)
(***************************************************************************)
THEOREM LimiterHolds == Spec => []WindowBound
BY ComposesGate, GateAlways, InvBounds, PTL

(***************************************************************************)
(* The state of a replica has its types, the number of ingests under way   *)
(* among them.                                                             *)
(***************************************************************************)
THEOREM TypeCorrect == Spec => []TypeOK
<1>1. Init => posts \in Nat
  BY DEF Init
<1>2. posts \in Nat /\ [Next]_vars => (posts \in Nat)'
  <2> SUFFICES ASSUME posts \in Nat, [Next]_vars PROVE posts' \in Nat
    OBVIOUS
  <2>1. CASE UNCHANGED vars
    BY <2>1 DEF vars
  <2>2. ASSUME NEW r \in Request,
               \/ PassIngest(r) \/ ServeOther(r) \/ TurnAway(r)
               \/ \E p \in Prober : ServeProbe(r, p)
        PROVE posts' \in Nat
    BY <2>2 DEF PassIngest, ServeOther, TurnAway, ServeProbe
  <2>3. CASE ServeIngest
    BY <2>3 DEF ServeIngest
  <2>4. CASE CollectBuckets \/ ClockTicks \/ Alone
    BY <2>4 DEF CollectBuckets, ClockTicks, Alone
  <2> QED
    BY <2>1, <2>2, <2>3, <2>4 DEF Next
<1>3. Spec => [](posts \in Nat)
  BY <1>1, <1>2, PTL DEF Spec
<1> QED
  BY <1>3, ComposesGate, GateAlways, ComposesLifecycle, LifeAlways, PTL
     DEF TypeOK, GateInv, LifeInv
=============================================================================
