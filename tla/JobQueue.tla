------------------------------ MODULE JobQueue ------------------------------
(***************************************************************************)
(* src/shared/queue/in-memory-job-queue.ts: the queue the outbound calls    *)
(* (three at a time) and the human joins (one at a time) are run from.  An  *)
(* action is what runs without giving up the thread.  The jobs are async    *)
(* functions, so run() never throws before it is awaited.                   *)
(***************************************************************************)
EXTENDS Naturals, Sequences, FiniteSets

CONSTANTS
  Jobs,          \* jobs that will be enqueued, each once
  Waiters,       \* callers of onIdle
  Concurrency,   \* jobs run at the same time
  MaxRetries     \* attempts after the first

ASSUME ConcurrencyAssumption == Concurrency \in Nat \ {0}
ASSUME MaxRetriesAssumption  == MaxRetries \in Nat

VARIABLES
  pendingJobs,   \* the queue
  active,        \* activeCountValue
  scheduled,     \* a drain is in the microtask queue
  attempts,      \* attempts[j]: runs of j that were started
  phase,         \* phase[j]: what has become of j
  idleWaiters,   \* callers of onIdle whose promise is pending
  asked          \* callers that have called onIdle

vars == <<pendingJobs, active, scheduled, attempts, phase, idleWaiters, asked>>

\* "reporting": the last attempt failed and onExhausted has not settled.
Occupying == {"running", "reporting"}
Phases    == {"new", "pending", "done", "failed"} \cup Occupying

Init ==
  /\ pendingJobs = <<>>
  /\ active = 0
  /\ scheduled = FALSE
  /\ attempts = [j \in Jobs |-> 0]
  /\ phase = [j \in Jobs |-> "new"]
  /\ idleWaiters = {}
  /\ asked = {}

-----------------------------------------------------------------------------
\* enqueue, with scheduleDrain.
Enqueue(j) ==
  /\ phase[j] = "new"
  /\ pendingJobs' = Append(pendingJobs, j)
  /\ phase' = [phase EXCEPT ![j] = "pending"]
  /\ scheduled' = TRUE
  /\ UNCHANGED <<active, attempts, idleWaiters, asked>>

\* Mutant: one job more than there is room for is let in.
AdmittedOneMore(p, a) == IF Len(p) <= Concurrency - a THEN Len(p) ELSE Concurrency - a + 1

\* How many jobs of queue p can start when a are active.
Admitted(p, a) == IF Len(p) <= Concurrency - a THEN Len(p) ELSE Concurrency - a

\* drain, from queue p, a active jobs and phases ph: the jobs at the head are
\* started, and the waiters told if there is nothing to do.
Drain(p, a, ph) ==
  LET n == Admitted(p, a)
      started == {p[m] : m \in 1..n}
  IN /\ pendingJobs' = SubSeq(p, n + 1, Len(p))
     /\ active' = a + n
     /\ phase' = [j \in Jobs |-> IF j \in started THEN "running" ELSE ph[j]]
     /\ attempts' = [j \in Jobs |-> IF j \in started THEN attempts[j] + 1 ELSE attempts[j]]
     /\ idleWaiters' = IF pendingJobs' = <<>> /\ active' = 0 THEN {} ELSE idleWaiters

\* The scheduled microtask.
RunScheduled ==
  /\ scheduled
  /\ scheduled' = FALSE
  /\ Drain(pendingJobs, active, phase)
  /\ UNCHANGED asked

\* execute, from the settling of run() to the drain that ends it.
Succeeds(j) ==
  /\ phase[j] = "running"
  /\ Drain(pendingJobs, active - 1, [phase EXCEPT ![j] = "done"])
  /\ UNCHANGED <<scheduled, asked>>

\* Mutant: a failed attempt frees its place without draining the queue.
RetriesWithoutDrain(j) ==
  /\ phase[j] = "running"
  /\ attempts[j] <= MaxRetries
  /\ pendingJobs' = Append(pendingJobs, j)
  /\ active' = active - 1
  /\ phase' = [phase EXCEPT ![j] = "pending"]
  /\ UNCHANGED <<scheduled, attempts, idleWaiters, asked>>

\* A retried job goes to the back of the queue.
FailsAndRetries(j) ==
  /\ phase[j] = "running"
  /\ attempts[j] <= MaxRetries
  /\ Drain(Append(pendingJobs, j), active - 1, [phase EXCEPT ![j] = "pending"])
  /\ UNCHANGED <<scheduled, asked>>

\* The job keeps its place while onExhausted runs.
FailsForGood(j) ==
  /\ phase[j] = "running"
  /\ attempts[j] > MaxRetries
  /\ phase' = [phase EXCEPT ![j] = "reporting"]
  /\ UNCHANGED <<pendingJobs, active, scheduled, attempts, idleWaiters, asked>>

\* Mutant: the place of a job that is given up is not freed.
ReportedKeepingPlace(j) ==
  /\ phase[j] = "reporting"
  /\ phase' = [phase EXCEPT ![j] = "failed"]
  /\ UNCHANGED <<pendingJobs, active, scheduled, attempts, idleWaiters, asked>>

\* onExhausted settles; whether it throws makes no difference.
Reported(j) ==
  /\ phase[j] = "reporting"
  /\ Drain(pendingJobs, active - 1, [phase EXCEPT ![j] = "failed"])
  /\ UNCHANGED <<scheduled, asked>>

\* onIdle.
OnIdle(w) ==
  /\ w \notin asked
  /\ asked' = asked \cup {w}
  /\ idleWaiters' = IF pendingJobs = <<>> /\ active = 0 THEN idleWaiters
                                                      ELSE idleWaiters \cup {w}
  /\ UNCHANGED <<pendingJobs, active, scheduled, attempts, phase>>

Settles(j) == Succeeds(j) \/ FailsAndRetries(j) \/ FailsForGood(j) \/ Reported(j)

Next ==
  \/ \E j \in Jobs : Enqueue(j) \/ Settles(j)
  \/ \E w \in Waiters : OnIdle(w)
  \/ RunScheduled

\* Node runs every microtask; that the promises of a job settle is what the
\* queue asks of its users.
Fairness == WF_vars(RunScheduled) /\ \A j \in Jobs : WF_vars(Settles(j))

Spec == Init /\ [][Next]_vars /\ Fairness

-----------------------------------------------------------------------------
TypeOK ==
  /\ pendingJobs \in Seq(Jobs)
  /\ active \in 0..Concurrency
  /\ scheduled \in BOOLEAN
  /\ attempts \in [Jobs -> 0..MaxRetries + 1]
  /\ phase \in [Jobs -> Phases]
  /\ idleWaiters \subseteq asked
  /\ asked \subseteq Waiters

\* A job never waits while there is room for it, unless a drain is on its way:
\* neither a retry, a failed report nor an enqueue during a drain is missed.
NoMissedWakeup == pendingJobs # <<>> /\ active < Concurrency => scheduled

\* Whoever waits for the queue to be idle waits for some job.
IdleAwaited == idleWaiters # {} => pendingJobs # <<>> \/ active > 0

\* A job is in one place: it is queued at most once, is queued when it is
\* pending, and never runs beside its own retry.
OnePlace ==
  /\ \A m, n \in DOMAIN pendingJobs : pendingJobs[m] = pendingJobs[n] => m = n
  /\ \A j \in Jobs : phase[j] = "pending" <=> \E m \in DOMAIN pendingJobs : pendingJobs[m] = j

\* A job is given up only after every attempt it has, and a job that waits has
\* one left.
AttemptsSpent ==
  \A j \in Jobs :
    /\ phase[j] \in {"reporting", "failed"} => attempts[j] = MaxRetries + 1
    /\ phase[j] = "pending" => attempts[j] <= MaxRetries
    /\ phase[j] = "new" => attempts[j] = 0

\* The jobs that hold a place when the phases are ph.
Working(ph) == {j \in Jobs : ph[j] \in Occupying}

\* The counter agrees with the jobs that are running or being reported, so no
\* job is started beyond the limit and no place is lost.
ActiveCounts == IsFiniteSet(Working(phase)) /\ active = Cardinality(Working(phase))

\* Together they are inductive.
QueueInv ==
  /\ TypeOK
  /\ NoMissedWakeup
  /\ IdleAwaited
  /\ OnePlace
  /\ AttemptsSpent
  /\ ActiveCounts

\* Whoever waits for the queue to be idle is told: the retries come to an end.
IdleAnnounced == \A w \in Waiters : w \in idleWaiters ~> w \notin idleWaiters

\* The queue keeps what JobContract promises.
Contract == INSTANCE JobContract WITH
  Limit <- Concurrency,
  accepted <- {j \in Jobs : phase[j] # "new"},
  working <- Working(phase),
  ended <- {j \in Jobs : phase[j] \in {"done", "failed"}}

KeepsContract == Contract!ContractSpec
=============================================================================
