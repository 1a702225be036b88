--------------------------- MODULE JobQueueProofs ---------------------------
(***************************************************************************)
(* QueueInv is an inductive invariant of JobQueue, and the queue keeps the  *)
(* safety part of JobContract, for every set of jobs and waiters, every     *)
(* concurrency and every number of retries.                                 *)
(***************************************************************************)
EXTENDS JobQueue, FunctionTheorems, FiniteSetTheorems, SequenceTheorems, TLAPS

USE ConcurrencyAssumption, MaxRetriesAssumption

-----------------------------------------------------------------------------
\* What a drain admits: as many as there are jobs, or as many as there is room.
LEMMA AdmittedBounds ==
  ASSUME NEW p \in Seq(Jobs), NEW a \in 0..Concurrency
  PROVE  /\ Admitted(p, a) \in 0..Len(p)
         /\ a + Admitted(p, a) \in 0..Concurrency
         /\ Admitted(p, a) = Len(p) \/ a + Admitted(p, a) = Concurrency
BY DEF Admitted

\* Distinct jobs at the head of a queue are as many as their positions.
LEMMA HeadCount ==
  ASSUME NEW p \in Seq(Jobs), NEW n \in 0..Len(p),
         \A m, k \in DOMAIN p : p[m] = p[k] => m = k
  PROVE  /\ IsFiniteSet({p[m] : m \in 1..n})
         /\ Cardinality({p[m] : m \in 1..n}) = n
<1> DEFINE S == {p[m] : m \in 1..n}
           f == [m \in 1..n |-> p[m]]
<1>1. f \in Bijection(1..n, S)
  <2>1. f \in [1..n -> S]
    OBVIOUS
  <2>2. \A m, k \in 1..n : f[m] = f[k] => m = k
    OBVIOUS
  <2>3. \A s \in S : \E m \in 1..n : f[m] = s
    OBVIOUS
  <2> QED
    BY <2>1, <2>2, <2>3 DEF Bijection, Injection, Surjection, IsInjective
<1>2. ExistsBijection(1..n, S)
  BY <1>1 DEF ExistsBijection
<1>3. IsFiniteSet(1..n) /\ Cardinality(1..n) = n
  BY FS_Interval
<1> QED
  BY <1>2, <1>3, FS_Bijection

\* A drain establishes every part of QueueInv, whatever left queue p, a jobs at
\* work and phases ph behind, if these fit together.
LEMMA DrainKeeps ==
  ASSUME NEW p \in Seq(Jobs), NEW a \in 0..Concurrency, NEW ph \in [Jobs -> Phases],
         attempts \in [Jobs -> 0..MaxRetries + 1],
         idleWaiters \subseteq asked, asked \subseteq Waiters, UNCHANGED asked,
         scheduled' \in BOOLEAN,
         \A m, k \in DOMAIN p : p[m] = p[k] => m = k,
         \A j \in Jobs : ph[j] = "pending" <=> \E m \in DOMAIN p : p[m] = j,
         \A j \in Jobs : /\ ph[j] \in {"reporting", "failed"} => attempts[j] = MaxRetries + 1
                         /\ ph[j] = "pending" => attempts[j] <= MaxRetries
                         /\ ph[j] = "new" => attempts[j] = 0,
         IsFiniteSet(Working(ph)), a = Cardinality(Working(ph)),
         Drain(p, a, ph)
  PROVE  QueueInv'
<1> DEFINE n == Admitted(p, a)
           started == {p[m] : m \in 1..n}
<1>1. /\ n \in 0..Len(p)
      /\ a + n \in 0..Concurrency
      /\ n = Len(p) \/ a + n = Concurrency
  BY AdmittedBounds
<1>2. /\ pendingJobs' = SubSeq(p, n + 1, Len(p))
      /\ active' = a + n
      /\ phase' = [j \in Jobs |-> IF j \in started THEN "running" ELSE ph[j]]
      /\ attempts' = [j \in Jobs |-> IF j \in started THEN attempts[j] + 1 ELSE attempts[j]]
      /\ idleWaiters' = IF pendingJobs' = <<>> /\ active' = 0 THEN {} ELSE idleWaiters
  BY DEF Drain
<1> HIDE DEF n
<1>3. /\ pendingJobs' \in Seq(Jobs)
      /\ Len(p) \in Nat /\ n \in Nat /\ n <= Len(p)
      /\ DOMAIN p = 1..Len(p)
      /\ DOMAIN pendingJobs' = 1..Len(p) - n
      /\ \A m \in 1..Len(p) - n : n + m \in 1..Len(p) /\ pendingJobs'[m] = p[n + m]
  <2>1. Len(p) \in Nat /\ DOMAIN p = 1..Len(p)
    BY LenProperties
  <2>2. n \in Nat /\ n <= Len(p) /\ n + 1 \in Int /\ Len(p) \in Int /\ Len(p) - n \in Nat
    BY <1>1, <2>1
  <2>3. \A m \in n + 1..Len(p) : p[m] \in Jobs
    BY <2>1, <2>2, ElementOfSeq
  <2> DEFINE q == SubSeq(p, n + 1, Len(p))
  <2>4. /\ q \in Seq(Jobs)
        /\ Len(q) = IF n + 1 <= Len(p) THEN Len(p) - (n + 1) + 1 ELSE 0
        /\ \A m \in 1..Len(p) - (n + 1) + 1 : q[m] = p[n + 1 + m - 1]
    BY <2>2, <2>3, SubSeqProperties
  <2>5. DOMAIN q = 1..Len(q)
    BY <2>4, LenProperties
  <2> HIDE DEF q
  <2>6. Len(q) = Len(p) - n
    BY <1>1, <2>2, <2>4
  <2>7. \A m \in 1..Len(p) - n : n + m \in 1..Len(p) /\ q[m] = p[n + m]
    <3> SUFFICES ASSUME NEW m \in 1..Len(p) - n
                 PROVE  n + m \in 1..Len(p) /\ q[m] = p[n + m]
      OBVIOUS
    <3>1. Len(p) - (n + 1) + 1 = Len(p) - n /\ n + 1 + m - 1 = n + m
      BY <2>2
    <3>2. n + m \in 1..Len(p)
      BY <2>2
    <3>3. q[m] = p[n + 1 + m - 1]
      BY <2>4, <3>1
    <3> QED
      BY <3>1, <3>2, <3>3
  <2> QED
    BY <1>2, <2>1, <2>2, <2>4, <2>5, <2>6, <2>7 DEF q
<1>4. \A j : j \in started <=> \E m \in 1..n : p[m] = j
  OBVIOUS
<1>5. IsFiniteSet(started) /\ Cardinality(started) = n
  BY <1>1, HeadCount
<1> HIDE DEF started
<1>6. \A j \in started : j \in Jobs /\ ph[j] = "pending"
  <2> SUFFICES ASSUME NEW j \in started PROVE j \in Jobs /\ ph[j] = "pending"
    OBVIOUS
  <2>1. PICK m \in 1..n : p[m] = j
    BY <1>4
  <2>2. m \in 1..Len(p)
    BY <1>3
  <2>3. j \in Jobs
    BY <2>1, <2>2, ElementOfSeq
  <2> QED
    BY <1>3, <2>1, <2>2, <2>3
<1>7. TypeOK'
  <2>1. attempts' \in [Jobs -> 0..MaxRetries + 1]
    BY <1>2, <1>6
  <2>2. phase' \in [Jobs -> Phases]
    BY <1>2 DEF Phases, Occupying
  <2> QED
    BY <1>1, <1>2, <1>3, <2>1, <2>2 DEF TypeOK
<1>8. NoMissedWakeup'
  <2>1. CASE n = Len(p)
    BY <1>3, <2>1 DEF NoMissedWakeup
  <2>2. CASE a + n = Concurrency
    BY <1>2, <2>2 DEF NoMissedWakeup
  <2> QED
    BY <1>1, <2>1, <2>2
<1>9. IdleAwaited'
  BY <1>1, <1>2 DEF IdleAwaited
<1>10. OnePlace'
  <2>1. ASSUME NEW m \in DOMAIN pendingJobs', NEW k \in DOMAIN pendingJobs',
               pendingJobs'[m] = pendingJobs'[k]
        PROVE  m = k
    <3>1. m \in 1..Len(p) - n /\ k \in 1..Len(p) - n
      BY <1>3
    <3>2. n + m \in DOMAIN p /\ n + k \in DOMAIN p /\ p[n + m] = p[n + k]
      BY <1>3, <2>1, <3>1
    <3>3. n + m = n + k
      BY <3>2
    <3> QED
      BY <1>1, <3>1, <3>3
  <2>2. ASSUME NEW j \in Jobs
        PROVE  phase'[j] = "pending" <=> \E m \in DOMAIN pendingJobs' : pendingJobs'[m] = j
    <3>1. ASSUME NEW m \in DOMAIN pendingJobs', pendingJobs'[m] = j
          PROVE  phase'[j] = "pending"
      <4>1. m \in 1..Len(p) - n /\ p[n + m] = j /\ n + m \in DOMAIN p
        BY <1>1, <1>3, <3>1
      <4>2. j \notin started
        <5> SUFFICES ASSUME NEW k \in 1..n, p[k] = j PROVE FALSE
          BY <1>4
        <5>1. k \in DOMAIN p
          BY <1>3
        <5>2. n + m = k
          BY <4>1, <5>1
        <5> QED
          BY <1>3, <4>1, <5>2
      <4> QED
        BY <1>2, <4>1, <4>2
    <3>2. ASSUME phase'[j] = "pending"
          PROVE  \E m \in DOMAIN pendingJobs' : pendingJobs'[m] = j
      <4>1. j \notin started /\ ph[j] = "pending"
        BY <1>2, <3>2
      <4>2. PICK m \in DOMAIN p : p[m] = j
        BY <4>1
      <4>3. m \notin 1..n
        BY <1>4, <4>1, <4>2
      <4>4. m - n \in DOMAIN pendingJobs' /\ pendingJobs'[m - n] = j
        <5>1. m - n \in 1..Len(p) - n /\ n + (m - n) = m
          <6>1. m \in Nat /\ m > n /\ m <= Len(p)
            BY <1>3, <4>2, <4>3
          <6> QED
            BY SMTT(30), <1>3, <6>1
        <5> QED
          BY <1>3, <4>2, <5>1
      <4> QED
        BY <4>4
    <3> QED
      BY <3>1, <3>2
  <2> QED
    BY <2>1, <2>2 DEF OnePlace
<1>11. AttemptsSpent'
  BY <1>2 DEF AttemptsSpent
<1>12. ActiveCounts'
  <2>1. Working(phase') = Working(ph) \cup started
    BY <1>2, <1>6 DEF Working, Occupying
  <2>2. Working(ph) \cap started = {}
    BY <1>6 DEF Working, Occupying
  <2>3. /\ IsFiniteSet(Working(ph) \cup started)
        /\ Cardinality(Working(ph) \cup started) =
             Cardinality(Working(ph)) + Cardinality(started) - Cardinality({})
    BY <1>5, <2>2, FS_Union
  <2>4. Cardinality(Working(ph) \cup started) = a + n
    BY <1>1, <1>5, <2>3, FS_EmptySet
  <2> QED
    BY <1>2, <2>1, <2>3, <2>4 DEF ActiveCounts
<1> QED
  BY <1>7, <1>8, <1>9, <1>10, <1>11, <1>12 DEF QueueInv
-----------------------------------------------------------------------------
\* What a job that leaves its place takes with it.
LEMMA LeavePlace ==
  ASSUME QueueInv, NEW j \in Jobs, phase[j] \in Occupying, NEW s \in Phases \ Occupying
  PROVE  LET ph == [phase EXCEPT ![j] = s] IN
         /\ ph \in [Jobs -> Phases]
         /\ IsFiniteSet(Working(ph))
         /\ active - 1 = Cardinality(Working(ph))
         /\ active - 1 \in 0..Concurrency
<1> DEFINE ph == [phase EXCEPT ![j] = s]
<1>1. phase \in [Jobs -> Phases] /\ active \in 0..Concurrency
  BY DEF QueueInv, TypeOK
<1>2. Working(ph) = Working(phase) \ {j} /\ j \in Working(phase)
  BY <1>1 DEF Working
<1>3. IsFiniteSet(Working(phase)) /\ active = Cardinality(Working(phase))
  BY DEF QueueInv, ActiveCounts
<1>4. IsFiniteSet(Working(ph)) /\ Cardinality(Working(ph)) = active - 1
  BY <1>2, <1>3, FS_RemoveElement
<1>5. Cardinality(Working(ph)) \in Nat
  BY <1>4, FS_CardinalityType
<1> QED
  BY <1>1, <1>4, <1>5

LEMMA InitInv == Init => QueueInv
<1> SUFFICES ASSUME Init PROVE QueueInv
  OBVIOUS
<1>1. Working(phase) = {}
  BY DEF Init, Working, Occupying
<1>2. ActiveCounts
  BY <1>1, FS_EmptySet DEF Init, ActiveCounts
<1>3. OnePlace
  BY DEF Init, OnePlace
<1>4. TypeOK
  <2>1. pendingJobs \in Seq(Jobs)
    BY EmptySeq DEF Init
  <2>2. active \in 0..Concurrency /\ 0 \in 0..MaxRetries + 1
    BY DEF Init
  <2>3. attempts \in [Jobs -> 0..MaxRetries + 1] /\ phase \in [Jobs -> Phases]
    BY <2>2 DEF Init, Phases
  <2> QED
    BY <2>1, <2>2, <2>3 DEF Init, TypeOK
<1>5. AttemptsSpent
  BY DEF Init, AttemptsSpent
<1> QED
  BY <1>2, <1>3, <1>4, <1>5 DEF Init, QueueInv, NoMissedWakeup, IdleAwaited

\* An enqueued job goes to the back of the queue, where no drain has seen it.
LEMMA EnqueueInv ==
  ASSUME QueueInv, NEW j \in Jobs, Enqueue(j)
  PROVE  QueueInv'
<1> USE DEF QueueInv
<1>1. /\ pendingJobs \in Seq(Jobs) /\ Len(pendingJobs) \in Nat
      /\ DOMAIN pendingJobs = 1..Len(pendingJobs)
  BY LenProperties DEF TypeOK
<1>2. /\ pendingJobs' = Append(pendingJobs, j)
      /\ pendingJobs' \in Seq(Jobs)
      /\ DOMAIN pendingJobs' = 1..Len(pendingJobs) + 1
      /\ \A m \in 1..Len(pendingJobs) : pendingJobs'[m] = pendingJobs[m]
      /\ pendingJobs'[Len(pendingJobs) + 1] = j
  BY <1>1 DEF Enqueue
<1>3. \A m \in DOMAIN pendingJobs : pendingJobs[m] # j
  BY DEF Enqueue, OnePlace
<1>4. phase' = [phase EXCEPT ![j] = "pending"] /\ phase \in [Jobs -> Phases]
  BY DEF Enqueue, TypeOK
<1>5. TypeOK'
  BY <1>2, <1>4 DEF Enqueue, TypeOK, Phases
<1>6. NoMissedWakeup' /\ IdleAwaited'
  BY <1>1, <1>2 DEF Enqueue, NoMissedWakeup, IdleAwaited
<1>7. OnePlace'
  BY <1>1, <1>2, <1>3, <1>4 DEF OnePlace
<1>8. AttemptsSpent'
  BY <1>4 DEF Enqueue, AttemptsSpent
<1>9. Working(phase') = Working(phase)
  BY <1>4 DEF Enqueue, Working, Occupying
<1>10. ActiveCounts'
  BY <1>9 DEF Enqueue, ActiveCounts
<1> QED
  BY <1>5, <1>6, <1>7, <1>8, <1>10

LEMMA RunScheduledInv ==
  ASSUME QueueInv, RunScheduled
  PROVE  QueueInv'
BY DrainKeeps DEF RunScheduled, QueueInv, TypeOK, OnePlace, AttemptsSpent, ActiveCounts

LEMMA SucceedsInv ==
  ASSUME QueueInv, NEW j \in Jobs, Succeeds(j)
  PROVE  QueueInv'
<1> DEFINE ph == [phase EXCEPT ![j] = "done"]
<1>1. /\ ph \in [Jobs -> Phases] /\ active - 1 \in 0..Concurrency
      /\ IsFiniteSet(Working(ph)) /\ active - 1 = Cardinality(Working(ph))
  BY LeavePlace DEF Succeeds, Occupying, Phases
<1>2. \A i \in Jobs : ph[i] = IF i = j THEN "done" ELSE phase[i]
  BY DEF QueueInv, TypeOK
<1>3. phase[j] = "running" /\ Drain(pendingJobs, active - 1, ph)
  BY DEF Succeeds
<1> HIDE DEF ph
<1>4. /\ pendingJobs \in Seq(Jobs) /\ attempts \in [Jobs -> 0..MaxRetries + 1]
      /\ idleWaiters \subseteq asked /\ asked \subseteq Waiters
      /\ UNCHANGED asked /\ scheduled' \in BOOLEAN
  BY DEF Succeeds, QueueInv, TypeOK
<1>5. /\ \A m, k \in DOMAIN pendingJobs : pendingJobs[m] = pendingJobs[k] => m = k
      /\ \A i \in Jobs : ph[i] = "pending" <=> \E m \in DOMAIN pendingJobs : pendingJobs[m] = i
  BY <1>2, <1>3 DEF QueueInv, OnePlace
<1>6. \A i \in Jobs : /\ ph[i] \in {"reporting", "failed"} => attempts[i] = MaxRetries + 1
                      /\ ph[i] = "pending" => attempts[i] <= MaxRetries
                      /\ ph[i] = "new" => attempts[i] = 0
  BY <1>2, <1>3 DEF QueueInv, AttemptsSpent
<1> QED
  BY <1>1, <1>3, <1>4, <1>5, <1>6, DrainKeeps

LEMMA ReportedInv ==
  ASSUME QueueInv, NEW j \in Jobs, Reported(j)
  PROVE  QueueInv'
<1> DEFINE ph == [phase EXCEPT ![j] = "failed"]
<1>1. /\ ph \in [Jobs -> Phases] /\ active - 1 \in 0..Concurrency
      /\ IsFiniteSet(Working(ph)) /\ active - 1 = Cardinality(Working(ph))
  BY LeavePlace DEF Reported, Occupying, Phases
<1>2. \A i \in Jobs : ph[i] = IF i = j THEN "failed" ELSE phase[i]
  BY DEF QueueInv, TypeOK
<1>3. phase[j] = "reporting" /\ Drain(pendingJobs, active - 1, ph)
  BY DEF Reported
<1> HIDE DEF ph
<1>4. /\ pendingJobs \in Seq(Jobs) /\ attempts \in [Jobs -> 0..MaxRetries + 1]
      /\ idleWaiters \subseteq asked /\ asked \subseteq Waiters
      /\ UNCHANGED asked /\ scheduled' \in BOOLEAN
  BY DEF Reported, QueueInv, TypeOK
<1>5. /\ \A m, k \in DOMAIN pendingJobs : pendingJobs[m] = pendingJobs[k] => m = k
      /\ \A i \in Jobs : ph[i] = "pending" <=> \E m \in DOMAIN pendingJobs : pendingJobs[m] = i
  BY <1>2, <1>3 DEF QueueInv, OnePlace
<1>6. \A i \in Jobs : /\ ph[i] \in {"reporting", "failed"} => attempts[i] = MaxRetries + 1
                      /\ ph[i] = "pending" => attempts[i] <= MaxRetries
                      /\ ph[i] = "new" => attempts[i] = 0
  BY <1>2, <1>3 DEF QueueInv, AttemptsSpent
<1> QED
  BY <1>1, <1>3, <1>4, <1>5, <1>6, DrainKeeps

\* A retry goes to the back of the queue before the drain looks at it.
LEMMA FailsAndRetriesInv ==
  ASSUME QueueInv, NEW j \in Jobs, FailsAndRetries(j)
  PROVE  QueueInv'
<1> DEFINE ph == [phase EXCEPT ![j] = "pending"]
           p  == Append(pendingJobs, j)
<1>1. /\ ph \in [Jobs -> Phases] /\ active - 1 \in 0..Concurrency
      /\ IsFiniteSet(Working(ph)) /\ active - 1 = Cardinality(Working(ph))
  BY LeavePlace DEF FailsAndRetries, Occupying, Phases
<1>2. \A i \in Jobs : ph[i] = IF i = j THEN "pending" ELSE phase[i]
  BY DEF QueueInv, TypeOK
<1>3. phase[j] = "running" /\ attempts[j] <= MaxRetries /\ Drain(p, active - 1, ph)
  BY DEF FailsAndRetries
<1>4. /\ pendingJobs \in Seq(Jobs) /\ Len(pendingJobs) \in Nat
      /\ DOMAIN pendingJobs = 1..Len(pendingJobs)
  BY LenProperties DEF QueueInv, TypeOK
<1>5. /\ p \in Seq(Jobs)
      /\ DOMAIN p = 1..Len(pendingJobs) + 1
      /\ \A m \in 1..Len(pendingJobs) : p[m] = pendingJobs[m]
      /\ p[Len(pendingJobs) + 1] = j
  BY <1>4
<1> HIDE DEF ph, p
<1>6. \A m \in DOMAIN pendingJobs : pendingJobs[m] # j
  BY <1>3 DEF QueueInv, OnePlace
<1>7. \A m, k \in DOMAIN p : p[m] = p[k] => m = k
  BY <1>4, <1>5, <1>6 DEF QueueInv, OnePlace
<1>8. \A i \in Jobs : ph[i] = "pending" <=> \E m \in DOMAIN p : p[m] = i
  BY <1>2, <1>4, <1>5, <1>6 DEF QueueInv, OnePlace
<1>9. \A i \in Jobs : /\ ph[i] \in {"reporting", "failed"} => attempts[i] = MaxRetries + 1
                      /\ ph[i] = "pending" => attempts[i] <= MaxRetries
                      /\ ph[i] = "new" => attempts[i] = 0
  BY <1>2, <1>3 DEF QueueInv, AttemptsSpent
<1>10. /\ attempts \in [Jobs -> 0..MaxRetries + 1]
       /\ idleWaiters \subseteq asked /\ asked \subseteq Waiters
       /\ UNCHANGED asked /\ scheduled' \in BOOLEAN
  BY DEF FailsAndRetries, QueueInv, TypeOK
<1> QED
  BY <1>1, <1>3, <1>5, <1>7, <1>8, <1>9, <1>10, DrainKeeps

\* A job that is given up keeps its place while it is reported.
LEMMA FailsForGoodInv ==
  ASSUME QueueInv, NEW j \in Jobs, FailsForGood(j)
  PROVE  QueueInv'
<1> USE DEF QueueInv
<1>1. /\ phase' = [phase EXCEPT ![j] = "reporting"] /\ phase \in [Jobs -> Phases]
      /\ phase[j] = "running" /\ attempts[j] = MaxRetries + 1
  BY DEF FailsForGood, TypeOK
<1>2. Working(phase') = Working(phase)
  BY <1>1 DEF Working, Occupying
<1>3. ActiveCounts'
  BY <1>2 DEF FailsForGood, ActiveCounts
<1>4. OnePlace' /\ AttemptsSpent'
  BY <1>1 DEF FailsForGood, OnePlace, AttemptsSpent
<1> QED
  BY <1>1, <1>3, <1>4
     DEF FailsForGood, TypeOK, NoMissedWakeup, IdleAwaited, Phases, Occupying

LEMMA OnIdleInv ==
  ASSUME QueueInv, NEW w \in Waiters, OnIdle(w)
  PROVE  QueueInv'
BY DEF OnIdle, QueueInv, TypeOK, NoMissedWakeup, IdleAwaited, OnePlace, AttemptsSpent, ActiveCounts

LEMMA NextInv == QueueInv /\ [Next]_vars => QueueInv'
<1> SUFFICES ASSUME QueueInv, [Next]_vars PROVE QueueInv'
  OBVIOUS
<1>1. ASSUME NEW j \in Jobs, Enqueue(j) PROVE QueueInv'
  BY <1>1, EnqueueInv
<1>2. ASSUME NEW j \in Jobs, Settles(j) PROVE QueueInv'
  BY <1>2, SucceedsInv, FailsAndRetriesInv, FailsForGoodInv, ReportedInv DEF Settles
<1>3. ASSUME NEW w \in Waiters, OnIdle(w) PROVE QueueInv'
  BY <1>3, OnIdleInv
<1>4. CASE RunScheduled
  BY <1>4, RunScheduledInv
<1>5. CASE UNCHANGED vars
  BY <1>5 DEF vars, QueueInv, TypeOK, NoMissedWakeup, IdleAwaited, OnePlace, AttemptsSpent,
              ActiveCounts
<1> QED
  BY <1>1, <1>2, <1>3, <1>4, <1>5 DEF Next

\* Everything QueueInv says of the queue holds at all times: the counter is the
\* number of jobs at work, and nothing waits that could run.
THEOREM Invariance == Spec => []QueueInv
BY InitInv, NextInv, PTL DEF Spec

\* No job waits while there is room for it, unless a drain is on its way.
THEOREM NothingForgotten == Spec => []NoMissedWakeup
<1>1. QueueInv => NoMissedWakeup
  BY DEF QueueInv
<1> QED
  BY <1>1, Invariance, PTL

\* A job is queued once at most, and never runs beside its own retry.
THEOREM OneJobOnePlace == Spec => []OnePlace
<1>1. QueueInv => OnePlace
  BY DEF QueueInv
<1> QED
  BY <1>1, Invariance, PTL

-----------------------------------------------------------------------------
LEMMA ContractInitially == Init => Contract!ContractInit
BY DEF Init, Contract!ContractInit, Working, Occupying

\* A drain only takes pending jobs to work.
LEMMA DrainStarts ==
  ASSUME NEW p \in Seq(Jobs), NEW a \in 0..Concurrency, NEW ph \in [Jobs -> Phases],
         \A m \in DOMAIN p : ph[p[m]] = "pending",
         Drain(p, a, ph)
  PROVE  \A j \in Jobs : \/ phase'[j] = ph[j]
                         \/ ph[j] = "pending" /\ phase'[j] = "running"
<1> DEFINE n == Admitted(p, a)
           started == {p[m] : m \in 1..n}
<1>1. n \in 0..Len(p) /\ Len(p) \in Nat /\ DOMAIN p = 1..Len(p)
  BY AdmittedBounds, LenProperties
<1>2. phase' = [j \in Jobs |-> IF j \in started THEN "running" ELSE ph[j]]
  BY DEF Drain
<1>3. \A j : j \in started <=> \E m \in 1..n : p[m] = j
  OBVIOUS
<1> HIDE DEF n, started
<1>4. \A j \in started : ph[j] = "pending"
  BY <1>1, <1>3
<1> QED
  BY <1>2, <1>4

\* The contract counts as the queue does.
LEMMA SameCount == \A S : Contract!Cardinality(S) = Cardinality(S)
BY Zenon DEF Contract!Cardinality, Cardinality, Contract!IsFiniteSet, IsFiniteSet

\* A step of the queue is a step of its contract or leaves it alone.
LEMMA ContractStep ==
  QueueInv /\ QueueInv' /\ [Next]_vars => [Contract!ContractNext]_(Contract!contractVars)
<1> SUFFICES ASSUME QueueInv, QueueInv', [Next]_vars
             PROVE  [Contract!ContractNext]_(Contract!contractVars)
  OBVIOUS
<1> DEFINE accepted == {j \in Jobs : phase[j] # "new"}
           ended    == {j \in Jobs : phase[j] \in {"done", "failed"}}
<1>1. phase \in [Jobs -> Phases] /\ phase' \in [Jobs -> Phases]
  BY DEF QueueInv, TypeOK
<1>2. ASSUME NEW j \in Jobs, Enqueue(j)
      PROVE  Contract!Accept
  <2>1. phase' = [phase EXCEPT ![j] = "pending"] /\ phase[j] = "new"
    BY <1>2 DEF Enqueue
  <2>2. j \in Jobs \ accepted /\ accepted' = accepted \cup {j}
    BY <1>1, <2>1
  <2>3. Working(phase') = Working(phase) /\ ended' = ended
    BY <1>1, <2>1 DEF Working, Occupying
  <2> QED
    BY <2>2, <2>3 DEF Contract!Accept
<1>3. /\ Working(phase') \in SUBSET (accepted' \ ended')
      /\ Cardinality(Working(phase')) <= Concurrency
  BY DEF Working, Occupying, QueueInv, TypeOK, ActiveCounts
<1>4. ASSUME accepted' = accepted, ended' = ended
      PROVE  Contract!Work
  <2>1. Working(phase') \in SUBSET (accepted \ ended')
    BY <1>3, <1>4
  <2> QED
    BY <1>3, <1>4, <2>1, SameCount DEF Contract!Work
<1>5. ASSUME NEW j \in Working(phase), accepted' = accepted, ended' = ended \cup {j}
      PROVE  Contract!Work
  <2>1. Working(phase') \in SUBSET (accepted \ ended')
    BY <1>3, <1>5
  <2> QED
    BY <1>3, <1>5, <2>1, SameCount DEF Contract!Work
<1>6. /\ pendingJobs \in Seq(Jobs) /\ Len(pendingJobs) \in Nat
      /\ DOMAIN pendingJobs = 1..Len(pendingJobs)
      /\ \A m \in DOMAIN pendingJobs : pendingJobs[m] \in Jobs /\ phase[pendingJobs[m]] = "pending"
  <2>1. pendingJobs \in Seq(Jobs)
    BY DEF QueueInv, TypeOK
  <2> QED
    BY <2>1, LenProperties, ElementOfSeq DEF QueueInv, OnePlace
<1>7. CASE RunScheduled
  <2>1. \A i \in Jobs : \/ phase'[i] = phase[i]
                        \/ phase[i] = "pending" /\ phase'[i] = "running"
    BY ZenonT(60), <1>1, <1>6, <1>7, DrainStarts DEF RunScheduled, QueueInv, TypeOK
  <2>2. accepted' = accepted /\ ended' = ended
    BY <2>1
  <2> QED
    BY <1>4, <2>2 DEF Contract!ContractNext
<1>8. ASSUME NEW j \in Jobs, Succeeds(j) \/ Reported(j)
      PROVE  Contract!Work
  <2>1. PICK s \in {"done", "failed"} : /\ phase[j] \in Occupying
                                       /\ Drain(pendingJobs, active - 1, [phase EXCEPT ![j] = s])
    BY <1>8 DEF Succeeds, Reported, Occupying
  <2> DEFINE ph == [phase EXCEPT ![j] = s]
  <2>2. ph \in [Jobs -> Phases] /\ active - 1 \in 0..Concurrency
    BY <2>1, LeavePlace DEF Phases, Occupying
  <2>3. \A m \in DOMAIN pendingJobs : ph[pendingJobs[m]] = "pending"
    BY <1>1, <1>6, <2>1 DEF Occupying
  <2>4. \A i \in Jobs : \/ phase'[i] = ph[i]
                        \/ ph[i] = "pending" /\ phase'[i] = "running"
    <3>1. Drain(pendingJobs, active - 1, ph)
      BY <2>1
    <3> HIDE DEF ph
    <3> QED
      BY <1>6, <2>2, <2>3, <3>1, DrainStarts
  <2>5. accepted' = accepted /\ ended' = ended \cup {j}
    BY <1>1, <2>1, <2>4 DEF Occupying
  <2>6. j \in Working(phase)
    BY <2>1 DEF Working
  <2> QED
    BY <1>5, <2>5, <2>6
<1>9. ASSUME NEW j \in Jobs, FailsAndRetries(j)
      PROVE  Contract!Work
  <2> DEFINE ph == [phase EXCEPT ![j] = "pending"]
             p  == Append(pendingJobs, j)
  <2>1. phase[j] = "running" /\ Drain(p, active - 1, ph)
    BY <1>9 DEF FailsAndRetries
  <2>2. ph \in [Jobs -> Phases] /\ active - 1 \in 0..Concurrency
    BY <2>1, LeavePlace DEF Phases, Occupying
  <2>3. p \in Seq(Jobs) /\ \A m \in DOMAIN p : ph[p[m]] = "pending"
    BY <1>1, <1>6
  <2>4. \A i \in Jobs : \/ phase'[i] = ph[i]
                        \/ ph[i] = "pending" /\ phase'[i] = "running"
    BY ZenonT(60), <2>1, <2>2, <2>3, DrainStarts
  <2>5. accepted' = accepted /\ ended' = ended
    BY <1>1, <2>1, <2>4
  <2> QED
    BY <1>4, <2>5
<1>10. ASSUME NEW j \in Jobs, FailsForGood(j)
       PROVE  Contract!Work
  <2>1. phase' = [phase EXCEPT ![j] = "reporting"] /\ phase[j] = "running"
    BY <1>10 DEF FailsForGood
  <2>2. accepted' = accepted /\ ended' = ended
    BY <1>1, <2>1
  <2> QED
    BY <1>4, <2>2
<1>11. CASE UNCHANGED phase
  BY <1>11 DEF Contract!contractVars, Working
<1>12. ASSUME NEW w \in Waiters, OnIdle(w)
       PROVE  UNCHANGED phase
  BY <1>12 DEF OnIdle
<1> QED
  BY <1>2, <1>7, <1>8, <1>9, <1>10, <1>11, <1>12
     DEF Next, Settles, Contract!ContractNext, vars

\* The queue keeps the safety part of what it promises: a job ends once, stays
\* ended, and at most Concurrency are at work.
THEOREM SafeContract == Spec => Contract!ContractSafety
BY ContractInitially, ContractStep, Invariance, PTL DEF Spec, Contract!ContractSafety
=============================================================================
