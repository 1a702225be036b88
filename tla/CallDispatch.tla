---------------------------- MODULE CallDispatch ----------------------------
(***************************************************************************)
(* src/modules/calls: the outbound calls of one operation, from the         *)
(* dispatcher of its campaign to the last callback of the provider, and of  *)
(* the inbound ones that there are rows of calls to close.                  *)
(*                                                                         *)
(* The database is synchronous, so a handler runs to its end before the     *)
(* next one starts; only the request to the provider is waited for.         *)
(* A provider call is known by the attempt that placed it: 1, 2, ... stand  *)
(* for its CallSid, 0 for none.                                             *)
(***************************************************************************)
EXTENDS Naturals, Sequences, FiniteSets, SequencesExt

CONSTANTS
  QuoteCalls,    \* the calls of the campaign, one per negotiation
  CommitCalls,   \* outbound calls that close the commitment
  InboundCalls,  \* calls the selected carrier makes, which are to close it too
  MaxParallel,   \* maxParallelCalls of the campaign
  Concurrency,   \* of the queue of calls
  MaxRetries,    \* of the queue of calls
  Endings,       \* the endings the provider reports
  Faults         \* what may go wrong, among AllFaults

Calls    == QuoteCalls \cup CommitCalls
Attempts == 1..(MaxRetries + 1)

Progress == {"QUEUED", "RINGING", "IN_PROGRESS"}
Terminal == {"COMPLETED", "BUSY", "NO_ANSWER", "FAILED"}
Unanswered == {"BUSY", "NO_ANSWER", "FAILED"}

\* lostReply: a request is carried out and its answer lost.
\* storage: a statement of the database fails.
\* restart: the process is restarted.
AllFaults == {"lostReply", "storage", "restart"}

ASSUME LimitsAssumption ==
  /\ MaxParallel \in Nat \ {0}
  /\ Concurrency \in Nat \ {0}
  /\ MaxRetries \in Nat
ASSUME EndingsAssumption == Endings \subseteq Terminal
ASSUME FaultsAssumption  == Faults \subseteq AllFaults
ASSUME CallsAssumption ==
  /\ QuoteCalls \cap CommitCalls = {} /\ IsFiniteSet(QuoteCalls)
  /\ InboundCalls \cap Calls = {}

VARIABLES
  \* stored
  status,        \* status[c]: of the row, "ABSENT" before it is inserted
  sid,           \* sid[c]: twilioCallSid
  neg,           \* neg[c]: the negotiation of a quote call
  campaignOpen,  \* the campaign still listens to its calls
  received,      \* inbound calls there is a row of
  \* in memory
  scheduled,     \* scheduledCampaignIds has the campaign
  pending,       \* negotiations whose call is still to be made
  active,        \* activeCallIds
  timers,        \* scheduledBusyCommitRetries
  job,           \* job[c]: of the queue of calls
  attempts,      \* attempts[c]: runs of the job that were started
  known,         \* known[c]: providerCallId of the job
  agents,        \* <<c, k>>: an agent talks on the k-th provider call of c
  \* recorded for RetriedOnce; no handler reads it
  asked,         \* calls to close that an operator asked for
  \* the provider
  reports        \* reports[c][k]: statuses the k-th provider call went through

storedVars == <<status, sid, neg, campaignOpen>>
jobVars    == <<job, attempts, known>>
otherVars  == <<received, asked>>
vars == <<storedVars, scheduled, pending, active, timers, jobVars, agents, reports, otherVars>>

Init ==
  /\ status = [c \in Calls |-> "ABSENT"]
  /\ sid = [c \in Calls |-> 0]
  /\ neg = [c \in QuoteCalls |-> "PENDING"]
  /\ campaignOpen = TRUE
  /\ scheduled = FALSE
  /\ pending = <<>>
  /\ active = {}
  /\ timers = {}
  /\ job = [c \in Calls |-> "none"]
  /\ attempts = [c \in Calls |-> 0]
  /\ known = [c \in Calls |-> 0]
  /\ agents = {}
  /\ reports = [c \in Calls |-> [k \in Attempts |-> {}]]
  /\ received = {}
  /\ asked = {}

Ended(c)   == status[c] \in Terminal
Live(c, k) == reports[c][k] # {} /\ reports[c][k] \cap Terminal = {}
Commits    == {c \in CommitCalls : status[c] # "ABSENT"}

\* countByOperationPurpose of COMMIT: whoever made the call, or asked for it.
CommitRows == Commits \cup received

-----------------------------------------------------------------------------
\* The dispatcher.

\* enqueueOutbound of the calls in new, on rows st and jobs jb.
Enqueue(new, st, jb) ==
  /\ status' = [c \in Calls |-> IF c \in new THEN "QUEUED" ELSE st[c]]
  /\ job' = [c \in Calls |-> IF c \in new THEN "queued" ELSE jb[c]]

\* Mutant: one call more than the campaign allows.
RoomForOneMore(p, a) ==
  IF Len(p) <= MaxParallel - Cardinality(a) THEN Len(p) ELSE MaxParallel - Cardinality(a) + 1

\* Calls that can be made of p while those in a are active.
Room(p, a) ==
  IF Len(p) <= MaxParallel - Cardinality(a) THEN Len(p) ELSE MaxParallel - Cardinality(a)

\* pumpCampaign, of the negotiations p, with a active.  When a statement fails
\* in the middle, the negotiation taken off the list is lost: its row was
\* stored or not, and no job was made of it.
Pump(p, a, st, jb) ==
  \/ LET n == Room(p, a)
         new == {p[i] : i \in 1..n}
     IN /\ pending' = SubSeq(p, n + 1, Len(p))
        /\ active' = a \cup new
        /\ Enqueue(new, st, jb)
  \/ /\ "storage" \in Faults
     /\ \E n \in 1..Room(p, a), row \in {"ABSENT", "QUEUED"} :
          LET new == {p[i] : i \in 1..(n - 1)}
          IN /\ pending' = SubSeq(p, n + 1, Len(p))
             /\ active' = a \cup new
             /\ Enqueue(new, [st EXCEPT ![p[n]] = row], jb)

\* Mutant: the slot is released and nobody is called in its place.
ReleaseIdle(c, st, jb) ==
  /\ active' = active \ {c}
  /\ status' = st
  /\ job' = jb
  /\ UNCHANGED pending

\* releaseCampaignSlot: only the first release of a call counts.
Release(c, st, jb) ==
  IF c \in active
  THEN Pump(pending, active \ {c}, st, jb)
  ELSE status' = st /\ job' = jb /\ UNCHANGED <<pending, active>>

\* enqueueQuoteCalls, from startCampaign, which closes the campaign if this fails.
EnqueueQuoteCalls ==
  /\ ~ scheduled
  /\ campaignOpen
  /\ \A c \in QuoteCalls : status[c] = "ABSENT"
  /\ scheduled' = TRUE
  /\ \E p \in SetToSeqs(QuoteCalls) : Pump(p, {}, status, job)
  /\ campaignOpen' \in IF "storage" \in Faults THEN BOOLEAN ELSE {TRUE}
  /\ UNCHANGED <<sid, neg, timers, attempts, known, agents, reports, otherVars>>

\* enqueueOutbound of one call for the commitment.
EnqueueCommit(c) ==
  /\ status[c] = "ABSENT"
  /\ \/ Enqueue({c}, status, job)
     \/ "storage" \in Faults /\ Enqueue({}, [status EXCEPT ![c] = "QUEUED"], job)

\* The commitment's call: advanceAutonomousFlow makes it when the operation has
\* none (findByOperationPurpose).
EnqueueCommitCall(c) ==
  /\ CommitRows = {}
  /\ EnqueueCommit(c)
  /\ UNCHANGED <<sid, neg, campaignOpen, scheduled, pending, active, timers, attempts, known, agents, reports, otherVars>>

\* POST /operations/:operationId/calls/outbound, with purpose COMMIT: nobody
\* asks whether the winner has been called before.
OperatorCalls(c) ==
  /\ EnqueueCommit(c)
  /\ asked' = asked \cup {c}
  /\ UNCHANGED <<sid, neg, campaignOpen, scheduled, pending, active, timers, attempts, known, agents, reports, received>>

\* createOrGetInbound, of a call the selected carrier makes while the operation
\* is SOURCING: its row has the purpose COMMIT.
CarrierPhonesIn(b) ==
  /\ received' = received \cup {b}
  /\ UNCHANGED <<storedVars, scheduled, pending, active, timers, jobVars, agents, reports, asked>>

-----------------------------------------------------------------------------
\* What a status does beyond the row.

\* The status the observer moves a negotiation to, and from where it may move
\* (transitionNegotiation).
Target(s) ==
  CASE s = "RINGING" -> "CALLING"
    [] s = "IN_PROGRESS" -> "NEGOTIATING"
    [] s \in Unanswered -> "NO_ANSWER"
    [] OTHER -> "none"

MovesFrom(to) ==
  CASE to = "CALLING" -> {"PENDING"}
    [] to = "NEGOTIATING" -> {"PENDING", "CALLING", "NO_ANSWER"}
    [] to = "NO_ANSWER" -> {"PENDING", "CALLING", "NEGOTIATING"}
    [] OTHER -> {}

\* The negotiations once the observer is told that call c has status s.
Told(c, s) ==
  [d \in QuoteCalls |->
     IF d = c /\ campaignOpen /\ neg[d] \in MovesFrom(Target(s)) THEN Target(s) ELSE neg[d]]

\* scheduleBusyCommitRetry.
WithRetry(c, s) == IF c \in CommitCalls /\ s = "BUSY" THEN timers \cup {c} ELSE timers

-----------------------------------------------------------------------------
\* The job of a call.

Placing == {c \in Calls : job[c] = "requesting"}

\* The job starts; it asks the provider unless the provider has answered before.
StartJob(c) ==
  /\ job[c] = "queued"
  /\ known[c] = 0
  /\ Cardinality(Placing) < Concurrency
  /\ job' = [job EXCEPT ![c] = "requesting"]
  /\ attempts' = [attempts EXCEPT ![c] = @ + 1]
  /\ UNCHANGED <<storedVars, scheduled, pending, active, timers, known, agents, reports, otherVars>>

\* The attempt has failed: another one, or the job is over.
TryAgain(c) == IF attempts'[c] <= MaxRetries THEN "queued" ELSE "ended"

\* Mutant: the identifier is stored only when the row could be written.
AnswerForgotten(c) ==
  LET k == attempts[c] IN
  /\ job[c] = "requesting"
  /\ reports[c][k] # {}
  /\ UNCHANGED <<attempts, status, neg, campaignOpen, scheduled, pending, active, timers, agents, reports, otherVars>>
  /\ \/ /\ sid' = [sid EXCEPT ![c] = k]
        /\ known' = [known EXCEPT ![c] = k]
        /\ job' = [job EXCEPT ![c] = "ended"]
     \/ /\ "storage" \in Faults
        /\ job' = [job EXCEPT ![c] = TryAgain(c)]
        /\ UNCHANGED <<sid, known>>

\* Mutant: a row that has an identifier keeps it.
SaveFirst(c, k) ==
  /\ sid' = [sid EXCEPT ![c] = IF @ = 0 THEN k ELSE @]
  /\ job' = [job EXCEPT ![c] = "ended"]

\* setProviderCallId and the audit of the dispatch, for provider call k.
Save(c, k) ==
  \/ /\ sid' = [sid EXCEPT ![c] = k]
     /\ job' = [job EXCEPT ![c] = "ended"]
  \/ /\ "storage" \in Faults
     /\ sid' \in {sid, [sid EXCEPT ![c] = k]}
     /\ job' = [job EXCEPT ![c] = TryAgain(c)]

\* The provider's answer reaches the job.
Answer(c) ==
  LET k == attempts[c] IN
  /\ job[c] = "requesting"
  /\ reports[c][k] # {}
  /\ known' = [known EXCEPT ![c] = k]
  /\ UNCHANGED attempts
  /\ Save(c, k)
  /\ UNCHANGED <<status, neg, campaignOpen, scheduled, pending, active, timers, agents, reports, otherVars>>

\* Mutant: a call is marked FAILED when its row could not be written in time.
SaveAgainOrFail(c) ==
  /\ job[c] = "queued"
  /\ known[c] # 0
  /\ Cardinality(Placing) < Concurrency
  /\ attempts' = [attempts EXCEPT ![c] = @ + 1]
  /\ Save(c, known[c])
  /\ status' = IF sid'[c] = 0 /\ job'[c] = "ended" /\ ~ Ended(c)
               THEN [status EXCEPT ![c] = "FAILED"] ELSE status
  /\ UNCHANGED <<neg, campaignOpen, scheduled, pending, active, timers, known, agents, reports, otherVars>>

\* A later attempt of a job that knows its provider call: no other call is made.
SaveAgain(c) ==
  /\ job[c] = "queued"
  /\ known[c] # 0
  /\ Cardinality(Placing) < Concurrency
  /\ attempts' = [attempts EXCEPT ![c] = @ + 1]
  /\ Save(c, known[c])
  /\ UNCHANGED <<status, neg, campaignOpen, scheduled, pending, active, timers, known, agents, reports, otherVars>>

\* Mutant: a call that is given up is marked, and its slot kept.
GivesUpInPlace(c) ==
  /\ status' = [status EXCEPT ![c] = IF Ended(c) THEN @ ELSE "FAILED"]
  /\ neg' = IF Ended(c) THEN neg ELSE Told(c, "FAILED")
  /\ job' = [job EXCEPT ![c] = "ended"]
  /\ UNCHANGED <<pending, active>>

\* Mutant: the campaign is not told of a call that could not be made.
GivesUpUntold(c) ==
  LET jb == [job EXCEPT ![c] = "ended"] IN
  /\ IF Ended(c) THEN job' = jb /\ UNCHANGED <<status, pending, active>>
                 ELSE Release(c, [status EXCEPT ![c] = "FAILED"], jb)
  /\ UNCHANGED neg

\* onExhausted, of a job the provider never answered.
GivesUp(c) ==
  LET jb == [job EXCEPT ![c] = "ended"] IN
  \/ /\ Ended(c)
     /\ job' = jb
     /\ UNCHANGED <<status, neg, pending, active>>
  \/ /\ ~ Ended(c)
     /\ neg' = Told(c, "FAILED")
     /\ Release(c, [status EXCEPT ![c] = "FAILED"], jb)
  \/ /\ "storage" \in Faults
     /\ ~ Ended(c)
     /\ neg' = neg
     /\ \/ job' = jb /\ UNCHANGED <<status, pending, active>>
        \/ Release(c, [status EXCEPT ![c] = "FAILED"], jb)

\* Mutant: a request is tried once more than the queue allows.
RequestFailsOnceMore(c) ==
  /\ job[c] = "requesting"
  /\ "lostReply" \in Faults \/ reports[c][attempts[c]] = {}
  /\ \/ /\ attempts[c] <= MaxRetries + 1
        /\ job' = [job EXCEPT ![c] = "queued"]
        /\ UNCHANGED <<status, neg, pending, active>>
     \/ /\ attempts[c] > MaxRetries + 1
        /\ GivesUp(c)
  /\ UNCHANGED <<sid, campaignOpen, scheduled, timers, attempts, known, agents, reports, otherVars>>

\* The request fails; with lostReply, it may have been carried out.
RequestFails(c) ==
  /\ job[c] = "requesting"
  /\ "lostReply" \in Faults \/ reports[c][attempts[c]] = {}
  /\ \/ /\ attempts[c] <= MaxRetries
        /\ job' = [job EXCEPT ![c] = "queued"]
        /\ UNCHANGED <<status, neg, pending, active>>
     \/ /\ attempts[c] > MaxRetries
        /\ GivesUp(c)
  /\ UNCHANGED <<sid, campaignOpen, scheduled, timers, attempts, known, agents, reports, otherVars>>

-----------------------------------------------------------------------------
\* The provider.

ProviderAccepts(c) ==
  /\ job[c] = "requesting"
  /\ reports[c][attempts[c]] = {}
  /\ reports' = [reports EXCEPT ![c][attempts[c]] = {"QUEUED"}]
  /\ UNCHANGED <<storedVars, scheduled, pending, active, timers, jobVars, agents, otherVars>>

\* The phone rings, then is answered.
ProviderAdvances(c, k) ==
  /\ Live(c, k)
  /\ \E s \in {"RINGING", "IN_PROGRESS"} \ reports[c][k] :
       /\ s = "IN_PROGRESS" => "RINGING" \in reports[c][k]
       /\ reports' = [reports EXCEPT ![c][k] = @ \cup {s}]
  /\ UNCHANGED <<storedVars, scheduled, pending, active, timers, jobVars, agents, otherVars>>

\* Only a call that was answered completes, and only one that was not is busy.
ProviderEnds(c, k) ==
  /\ Live(c, k)
  /\ \E s \in Endings :
       /\ s = "COMPLETED" => "IN_PROGRESS" \in reports[c][k]
       /\ s \in {"BUSY", "NO_ANSWER"} => "IN_PROGRESS" \notin reports[c][k]
       /\ reports' = [reports EXCEPT ![c][k] = @ \cup {s}]
  /\ UNCHANGED <<storedVars, scheduled, pending, active, timers, jobVars, agents, otherVars>>

-----------------------------------------------------------------------------
\* Mutant: whatever the provider says anew is taken over, however late.
AllowedAfterEnd(from, to) == to \in Terminal \/ (to # from /\ to # "QUEUED")

\* isAllowedStatusTransition.
Allowed(from, to) ==
  /\ from \notin Terminal
  /\ \/ to \in Terminal
     \/ from = "QUEUED" /\ to \in {"RINGING", "IN_PROGRESS"}
     \/ from = "RINGING" /\ to = "IN_PROGRESS"

\* applyProviderStatus once the row has status s, and its caller's failures:
\* the audit throws before anything else is done, or the observer throws, which
\* does not keep the slot from being released.
Follow(c, s) ==
  LET st == [status EXCEPT ![c] = s] IN
  \/ /\ neg' = Told(c, s)
     /\ timers' = WithRetry(c, s)
     /\ IF s \in Terminal THEN Release(c, st, job)
                          ELSE status' = st /\ UNCHANGED <<job, pending, active>>
  \/ /\ "storage" \in Faults
     /\ neg' = neg
     /\ timers' = WithRetry(c, s)
     /\ IF s \in Terminal THEN Release(c, st, job)
                          ELSE status' = st /\ UNCHANGED <<job, pending, active>>
  \/ /\ "storage" \in Faults
     /\ status' = st
     /\ UNCHANGED <<neg, timers, job, pending, active>>

\* ensureProviderCallId: a row without an identifier takes the one of provider
\* call k, and one that has another refuses it.
Binds(c, k) ==
  /\ sid[c] \in {0, k}
  /\ sid' = [sid EXCEPT ![c] = k]

\* A report of provider call k reaches the program, late, again or out of order.
\* It names the call and the provider call.
Report(c, k, s) ==
  /\ s \in reports[c][k]
  /\ Binds(c, k)
  /\ \/ /\ status[c] = s \/ Allowed(status[c], s)
        /\ Follow(c, s)
     \/ /\ "storage" \in Faults \/ ~ (status[c] = s \/ Allowed(status[c], s))
        /\ UNCHANGED <<status, neg, timers, job, pending, active>>
  /\ UNCHANGED <<campaignOpen, scheduled, attempts, known, reports, otherVars>>

\* receiveStatus.
Callback(c, k, s) ==
  /\ Report(c, k, s)
  /\ UNCHANGED agents

\* handleConnection: the media stream of an answered call is connected, and an
\* agent is put on the phone unless the row says that the call has ended.
StreamStarts(c, k) ==
  /\ c \in QuoteCalls
  /\ <<c, k>> \notin agents
  /\ Live(c, k)
  /\ Report(c, k, "IN_PROGRESS")
  /\ agents' = IF status'[c] \in Terminal THEN agents ELSE agents \cup {<<c, k>>}

\* Mutant: the calls of the operation are not counted.
BusyRetryUncounted(c) ==
  /\ c \in timers
  /\ timers' = timers \ {c}
  /\ \/ /\ status[c] = "BUSY"
        /\ \E d \in CommitCalls : EnqueueCommit(d)
     \/ UNCHANGED <<status, job>>
  /\ UNCHANGED <<sid, neg, campaignOpen, scheduled, pending, active, attempts, known, agents, reports, otherVars>>

\* retryBusyCommitCall, a minute later; the context may be refused.
BusyRetryFires(c) ==
  /\ c \in timers
  /\ timers' = timers \ {c}
  /\ \/ /\ status[c] = "BUSY"
        /\ Cardinality(CommitRows) = 1
        /\ \E d \in CommitCalls : EnqueueCommit(d)
     \/ UNCHANGED <<status, job>>
  /\ UNCHANGED <<sid, neg, campaignOpen, scheduled, pending, active, attempts, known, agents, reports, otherVars>>

-----------------------------------------------------------------------------
\* The agent evaluates an offer, or saves a quote or a refusal.
AgentActs(c, k) ==
  /\ <<c, k>> \in agents
  /\ Live(c, k)
  /\ campaignOpen
  /\ neg[c] # "NO_ANSWER"
  /\ \E n \in {"NEGOTIATING", "CONCLUDED"} : neg' = [neg EXCEPT ![c] = n]
  /\ UNCHANGED <<status, sid, campaignOpen, scheduled, pending, active, timers, jobVars, agents, reports, otherVars>>

\* What is in memory is lost.
Restart ==
  /\ "restart" \in Faults
  /\ scheduled' = FALSE
  /\ pending' = <<>>
  /\ active' = {}
  /\ timers' = {}
  /\ job' = [c \in Calls |-> "none"]
  /\ known' = [c \in Calls |-> 0]
  /\ agents' = {}
  /\ UNCHANGED <<storedVars, attempts, reports, otherVars>>

Next ==
  \/ EnqueueQuoteCalls
  \/ Restart
  \/ \E c \in Calls :
       \/ StartJob(c) \/ Answer(c) \/ SaveAgain(c) \/ RequestFails(c) \/ ProviderAccepts(c)
       \/ \E k \in Attempts :
            \/ ProviderAdvances(c, k) \/ ProviderEnds(c, k) \/ StreamStarts(c, k)
            \/ \E s \in Progress \cup Terminal : Callback(c, k, s)
  \/ \E c \in CommitCalls : EnqueueCommitCall(c) \/ OperatorCalls(c) \/ BusyRetryFires(c)
  \/ \E b \in InboundCalls : CarrierPhonesIn(b)
  \/ \E c \in QuoteCalls, k \in Attempts : AgentActs(c, k)
Spec == Init /\ [][Next]_vars

\* Jobs are run, requests are answered or fail, calls come to an end, and the
\* provider delivers the last report of a call.
Fairness ==
  /\ WF_vars(\E c \in Calls : StartJob(c) \/ SaveAgain(c))
  /\ \A c \in Calls : WF_vars(Answer(c) \/ RequestFails(c))
  /\ \A c \in Calls, k \in Attempts :
       /\ WF_vars(ProviderAdvances(c, k) \/ ProviderEnds(c, k))
       /\ \A s \in Endings : WF_vars(Callback(c, k, s))

FairSpec == Spec /\ Fairness

-----------------------------------------------------------------------------
\* The rows, the memory of the process and the provider keep their types.
TypeOK ==
  /\ status \in [Calls -> {"ABSENT"} \cup Progress \cup Terminal]
  /\ sid \in [Calls -> 0..(MaxRetries + 1)]
  /\ neg \in [QuoteCalls -> {"PENDING", "CALLING", "NEGOTIATING", "NO_ANSWER", "CONCLUDED"}]
  /\ campaignOpen \in BOOLEAN
  /\ scheduled \in BOOLEAN
  /\ pending \in Seq(QuoteCalls)
  /\ active \subseteq QuoteCalls
  /\ timers \subseteq CommitCalls
  /\ job \in [Calls -> {"none", "queued", "requesting", "ended"}]
  /\ attempts \in [Calls -> 0..(MaxRetries + 1)]
  /\ known \in [Calls -> 0..(MaxRetries + 1)]
  /\ agents \subseteq QuoteCalls \X Attempts
  /\ reports \in [Calls -> [Attempts -> SUBSET (Progress \cup Terminal)]]
  /\ received \subseteq InboundCalls
  /\ asked \subseteq CommitCalls

\* The slots of a campaign are those of the calls it has made that have not
\* ended, and a negotiation only waits while all of them are taken
\* (pumpCampaign, releaseCampaignSlot), whatever reports are late or repeated.
SlotsFollowCalls ==
  /\ active = {c \in QuoteCalls : status[c] \in Progress}
  /\ pending # <<>> => Cardinality(active) = MaxParallel

\* No more phones are rung or talked on at once than maxParallelCalls: the
\* limit, which is kept on rows, holds of the provider's calls.
LiveWithinLimit ==
  Cardinality({c \in QuoteCalls : \E k \in Attempts : Live(c, k)}) <= MaxParallel

\* A call that was placed is never placed again, however often its row cannot
\* be written or its job is tried (providerCallId of enqueueOutbound).
CalledOnce ==
  \A c \in Calls : Cardinality({k \in Attempts : reports[c][k] # {}}) <= 1

\* A call the provider accepted is only ever FAILED on the provider's word
\* (onExhausted: "must never overwrite its live lifecycle as FAILED").
FailureReported ==
  \A c \in Calls :
    known[c] # 0 /\ status[c] = "FAILED" => \E k \in Attempts : "FAILED" \in reports[c][k]

\* When a call ends without having reached anybody, or in the middle of the
\* conversation, its negotiation is over too, so that the campaign does not wait
\* for it (lifecycleObserver).
NegotiationTold ==
  [][\A c \in QuoteCalls :
       ~ Ended(c) /\ status'[c] \in Unanswered => neg'[c] \in {"NO_ANSWER", "CONCLUDED"}]_vars

\* A row only goes forward, and an ended call stays as it ended: its late and
\* repeated reports change nothing (isAllowedStatusTransition).
StatusOnlyAdvances ==
  [][\A c \in Calls :
       /\ status[c] \in Terminal => status'[c] = status[c]
       /\ status[c] = "IN_PROGRESS" => status'[c] \notin {"ABSENT", "QUEUED", "RINGING"}
       /\ status[c] = "RINGING" => status'[c] \notin {"ABSENT", "QUEUED"}]_vars

\* Of its own accord the program calls to close twice at most, and the second
\* time only after the line was busy the first, whatever calls an operator asks
\* for and the winner makes, across restarts and repeated reports
\* (retryBusyCommitCall, which counts the operation's calls).
RetriedOnce ==
  LET own == Commits \ asked IN
  /\ Cardinality(own) <= 2
  /\ Cardinality(own) = 2 => \E c \in own : status[c] = "BUSY"

\* The job of the call is still to be done, or the provider has a call whose
\* reports the row will take, whatever other calls were placed for it.
AtWork(c) == job[c] \in {"queued", "requesting"}
Reachable(c) ==
  /\ job[c] = "ended"
  /\ known[c] # 0 /\ sid[c] = known[c]
  /\ reports[c][known[c]] # {}

\* Nobody is forgotten: a call that is under way is being placed or will be
\* reported on, and a carrier that was not called yet is on the dispatcher's list
\* (enqueueOutbound, setProviderCallId, pumpCampaign).
NobodyForgotten ==
  /\ \A c \in Calls : status[c] \in Progress => AtWork(c) \/ Reachable(c)
  /\ scheduled => {c \in QuoteCalls : status[c] = "ABSENT"} = ToSet(pending)

\* The calls of a campaign are what the calls module promises it, with the calls
\* its dispatcher still has to make, those that take one of its slots and those
\* that have ended.
Contract == INSTANCE CampaignContract WITH
  Carriers <- QuoteCalls,
  waiting  <- IF scheduled THEN ToSet(pending) ELSE QuoteCalls,
  calling  <- active,
  over     <- {c \in QuoteCalls : Ended(c)}

\* Every carrier is called once, in a slot of its own, and its call comes to an
\* end (enqueueQuoteCalls, pumpCampaign, releaseCampaignSlot).
KeepsCampaign == Contract!ContractSpec
=============================================================================
