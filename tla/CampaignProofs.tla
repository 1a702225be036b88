---------------------------- MODULE CampaignProofs ----------------------------
(***************************************************************************)
(* The calls of a campaign as a whole, as long as no statement fails and   *)
(* the process runs: the dispatcher keeps CampaignContract, for every      *)
(* number of carriers, limit and order in which reports arrive, and        *)
(* forgets none of its calls.                                              *)
(***************************************************************************)
EXTENDS CallDispatchProofs

NothingFails == "storage" \notin Faults /\ "restart" \notin Faults

-----------------------------------------------------------------------------
\* What a step is to the dispatcher.

\* The rows of the campaign, its list and its slots stay as they are.
Quiet ==
  /\ UNCHANGED <<pending, active, scheduled>>
  /\ \A q \in QuoteCalls : status'[q] = status[q]

\* A call goes on to status s, or its slot is freed and taken by those in N.
MovesOn(c, s, j, freed, N) ==
  /\ Settled(c, s, [job EXCEPT ![c] = j], freed, N, {})
  /\ status[c] # "ABSENT" /\ s \in Statuses \ {"ABSENT"}
  /\ freed => s \in Terminal
  /\ s \in Terminal => freed \/ s = status[c]
  /\ status[c] \in Terminal => s = status[c]
  /\ UNCHANGED scheduled

\* The campaign starts: those in N are called, of all its carriers.
Starts(N) ==
  /\ ~ scheduled /\ scheduled'
  /\ active' = N
  /\ In(pending') \cup N = QuoteCalls
  /\ \A d \in Calls : status'[d] = IF d \in N THEN "QUEUED" ELSE status[d]
  /\ \A d \in Calls : job'[d] = IF d \in N THEN "queued" ELSE job[d]

\* A report of the provider moves its call on, or changes neither row nor slots.
LEMMA ReportMoves ==
  ASSUME NothingFails, DispatchInv,
         NEW c \in Calls, NEW k \in Attempts, NEW t \in Progress \cup Terminal, Report(c, k, t)
  PROVE  \/ UNCHANGED <<status, job, pending, active, scheduled>>
         \/ \E N \in SUBSET QuoteCalls, freed \in BOOLEAN :
              MovesOn(c, t, job[c], freed, N) /\ Takes(c, t)
<1>1. status[c] # "ABSENT" /\ UNCHANGED scheduled
  BY DEF DispatchInv, Started, StartedAt, Report
<1>2. CASE Follow(c, t) /\ Takes(c, t)
  <2>1. PICK N \in SUBSET QuoteCalls, R \in SUBSET QuoteCalls, freed \in BOOLEAN :
          /\ Settled(c, t, job, freed, N, R)
          /\ freed => t \in Terminal
          /\ "storage" \notin Faults /\ t \in Terminal => freed
    BY <1>1, <1>2, FollowEffect
  <2>2. R = {} /\ job = [job EXCEPT ![c] = job[c]]
    BY <2>1 DEF Settled, NothingFails, DispatchInv, TypeOK
  <2>3. t \in Statuses \ {"ABSENT"} /\ (status[c] \in Terminal => t = status[c])
    BY <1>2 DEF Takes, Allowed, Statuses, Progress, Terminal
  <2>4. MovesOn(c, t, job[c], freed, N)
    BY <1>1, <2>1, <2>2, <2>3 DEF MovesOn, NothingFails
  <2> QED
    BY <1>2, <2>4
<1>3. CASE UNCHANGED <<status, job, pending, active>>
  BY <1>1, <1>3
<1> QED
  BY <1>2, <1>3 DEF Report, Takes

\* A request that fails is tried again, or its call has ended.
LEMMA RequestFailsMoves ==
  ASSUME NothingFails, DispatchInv, NEW c \in Calls, RequestFails(c)
  PROVE  \/ job' = [job EXCEPT ![c] = "queued"] /\ UNCHANGED <<status, pending, active, scheduled>>
         \/ \E N \in SUBSET QuoteCalls, freed \in BOOLEAN, s \in Terminal :
              MovesOn(c, s, "ended", freed, N)
<1>1. status[c] # "ABSENT" /\ UNCHANGED scheduled
  BY DEF DispatchInv, Started, StartedAt, RequestFails
<1>2. CASE GivesUp(c)
  <2>1. PICK N \in SUBSET QuoteCalls, R \in SUBSET QuoteCalls, freed \in BOOLEAN,
             s \in Statuses \ {"ABSENT"} :
          /\ Settled(c, s, [job EXCEPT ![c] = "ended"], freed, N, R)
          /\ (s = status[c] /\ ~ freed) \/ (s = "FAILED" /\ ~ Ended(c) /\ freed)
          /\ "storage" \notin Faults => s \in Terminal
    BY <1>1, <1>2, GivesUpEffect
  <2>2. R = {} /\ s \in Terminal
    BY <2>1 DEF Settled, NothingFails
  <2>3. MovesOn(c, s, "ended", freed, N)
    BY <1>1, <2>1, <2>2 DEF MovesOn, Ended
  <2> QED
    BY <2>2, <2>3
<1>3. CASE job' = [job EXCEPT ![c] = "queued"] /\ UNCHANGED <<status, pending, active>>
  BY <1>1, <1>3
<1> QED
  BY <1>2, <1>3 DEF RequestFails

LEMMA FirstCallsStart ==
  ASSUME NothingFails, DispatchInv, EnqueueQuoteCalls
  PROVE  \E N \in SUBSET QuoteCalls : Starts(N)
<1>1. PICK p, N, R : /\ N \in SUBSET QuoteCalls /\ R \in SUBSET QuoteCalls
                     /\ Callable(p, {}, status) /\ In(p) = QuoteCalls
                     /\ Pumped(p, {}, status, job, N, R)
  BY FirstCalls
<1>2. R = {} /\ active' = N /\ In(pending') \cup N = QuoteCalls
  BY <1>1 DEF Pumped, NothingFails
<1>3. \A d \in Calls : /\ status'[d] = IF d \in N THEN "QUEUED" ELSE status[d]
                       /\ job'[d] = IF d \in N THEN "queued" ELSE job[d]
  BY <1>1, <1>2 DEF Pumped
<1> QED
  BY <1>1, <1>2, <1>3 DEF Starts, EnqueueQuoteCalls

\* One call for the commitment.
LEMMA CommitCallMoves ==
  ASSUME NothingFails, DispatchInv, NEW c \in CommitCalls, EnqueueCommit(c)
  PROVE  /\ \A q \in QuoteCalls : status'[q] = status[q]
         /\ \A d \in Calls : (status'[d] = status[d] /\ job'[d] = job[d]) \/ job'[d] = "queued"
<1>1. status' = [d \in Calls |-> IF d \in {c} THEN "QUEUED" ELSE status[d]]
      /\ job' = [d \in Calls |-> IF d \in {c} THEN "queued" ELSE job[d]]
  BY DEF EnqueueCommit, Enqueue, NothingFails
<1> QED
  BY <1>1, CallsAssumption DEF Calls

Moves ==
  \/ Quiet
  \/ \E N \in SUBSET QuoteCalls : Starts(N)
  \/ \E c \in Calls, s \in Statuses, j \in JobStates, freed \in BOOLEAN, N \in SUBSET QuoteCalls :
       MovesOn(c, s, j, freed, N)

LEMMA StepMoves ==
  ASSUME NothingFails, DispatchInv, [Next]_vars
  PROVE  Moves
<1>1. Progress \cup Terminal \subseteq Statuses /\ "ended" \in JobStates
      /\ \A c \in Calls : job[c] \in JobStates
  BY DEF Statuses, JobStates, DispatchInv, TypeOK
<1>2. ASSUME NEW c \in Calls, NEW k \in Attempts, NEW t \in Progress \cup Terminal, Report(c, k, t)
      PROVE  Moves
  BY <1>1, <1>2, ReportMoves DEF Moves, Quiet
<1>3. ASSUME NEW c \in Calls, RequestFails(c) PROVE Moves
  BY <1>1, <1>3, RequestFailsMoves DEF Moves, Quiet
<1>4. ASSUME EnqueueQuoteCalls PROVE Moves
  BY <1>4, FirstCallsStart DEF Moves
<1>5. ASSUME NEW c \in Calls, StartJob(c) \/ Answer(c) \/ SaveAgain(c) \/ ProviderAccepts(c)
      PROVE  Moves
  BY <1>5 DEF StartJob, Answer, SaveAgain, ProviderAccepts, Moves, Quiet, storedVars
<1>6. ASSUME NEW c \in Calls, NEW k \in Attempts, ProviderAdvances(c, k) \/ ProviderEnds(c, k)
      PROVE  Moves
  BY <1>6 DEF ProviderAdvances, ProviderEnds, Moves, Quiet, storedVars
<1>7. ASSUME NEW c \in CommitCalls, EnqueueCommitCall(c) \/ OperatorCalls(c) \/ BusyRetryFires(c)
      PROVE  Moves
  BY <1>7, CommitCallMoves DEF EnqueueCommitCall, OperatorCalls, BusyRetryFires, Moves, Quiet
<1>8. ASSUME NEW c \in QuoteCalls, NEW k \in Attempts, AgentActs(c, k) PROVE Moves
  BY <1>8 DEF AgentActs, Moves, Quiet
<1>9. CASE (\E b \in InboundCalls : CarrierPhonesIn(b)) \/ UNCHANGED vars
  BY <1>9 DEF CarrierPhonesIn, vars, storedVars, Moves, Quiet
<1>10. "IN_PROGRESS" \in Progress \cup Terminal
  BY DEF Progress
<1>11. ~ Restart
  BY DEF Restart, NothingFails
<1> QED
  BY <1>2, <1>3, <1>4, <1>5, <1>6, <1>7, <1>8, <1>9, <1>10, <1>11 DEF Next, StreamStarts, Callback

-----------------------------------------------------------------------------
\* The contract.

\* Whoever was not called is on the list, and nobody is called before the
\* campaign starts.
ListInv ==
  IF scheduled
  THEN In(pending) = {c \in QuoteCalls : status[c] = "ABSENT"}
  ELSE /\ pending = <<>> /\ active = {}
       /\ \A c \in QuoteCalls : status[c] = "ABSENT"

\* The variables of CampaignContract.
ToCall == IF scheduled THEN ToSet(pending) ELSE QuoteCalls
Over   == {c \in QuoteCalls : Ended(c)}

LEMMA EmptyList ==
  ASSUME NEW p \in Seq(QuoteCalls)
  PROVE  /\ ToSet(p) = In(p)
         /\ In(p) = {} <=> p = <<>>
<1>1. Len(p) \in Nat /\ DOMAIN p = 1..Len(p)
  OBVIOUS
<1>2. In(p) = {} => p = <<>>
  <2>1. Len(p) # 0 => p[1] \in In(p)
    BY <1>1 DEF In
  <2> QED
    BY <2>1
<1>3. In(<<>>) = {}
  BY DEF In
<1> QED
  BY <1>1, <1>2, <1>3 DEF ToSet, In

LEMMA SameSize == \A S : Contract!Cardinality(S) = Cardinality(S)
BY DEF Contract!Cardinality, Cardinality

\* A step of the contract, in the terms of the dispatcher.
LEMMA ContractStep ==
  ASSUME SlotInv', NEW done \in SUBSET active, NEW new \in SUBSET ToCall,
         done = {} \/ \E c : done = {c},
         ToCall' = ToCall \ new,
         active' = (active \ done) \cup new,
         Over' = Over \cup done,
         scheduled'
  PROVE  Contract!ContractNext
<1>1. Cardinality(done) <= 1
  <2>1. Cardinality(done) \in {0, 1}
    BY FS_EmptySet, FS_Singleton
  <2> QED
    BY <2>1
<1>2. Cardinality(active') <= MaxParallel /\ pending' \in Seq(QuoteCalls)
  BY DEF SlotInv, DispatchInv, Callable
<1>3. ToCall' # {} => Cardinality(active') = MaxParallel
  BY <1>2, EmptyList DEF ToCall, SlotInv, SlotsFollowCalls
<1> QED
  BY <1>1, <1>2, <1>3, SameSize DEF Contract!ContractNext, ToCall, Over

LEMMA StartsKeeps ==
  ASSUME SlotInv, SlotInv', ListInv, NEW N \in SUBSET QuoteCalls, Starts(N)
  PROVE  ListInv' /\ Contract!ContractNext
<1>1. /\ pending' \in Seq(QuoteCalls) /\ In(pending') \cap active' = {}
  BY DEF SlotInv, DispatchInv, Callable
<1>2. active = {} /\ \A c \in QuoteCalls : c \in Calls /\ status[c] = "ABSENT"
  BY DEF ListInv, Starts, Calls
<1>3. \A c \in QuoteCalls : status'[c] = IF c \in N THEN "QUEUED" ELSE "ABSENT"
  BY <1>2 DEF Starts
<1>4. In(pending') = QuoteCalls \ N
  BY <1>1 DEF Starts
<1>5. ListInv'
  BY <1>3, <1>4 DEF ListInv, Starts
<1>6. Over = {} /\ Over' = {}
  BY <1>2, <1>3 DEF Over, Ended, Terminal
<1>7. ToCall = QuoteCalls /\ ToCall' = QuoteCalls \ N
  BY <1>1, <1>4, EmptyList DEF ToCall, Starts
<1>8. Contract!ContractNext
  <2>1. scheduled' /\ active' = (active \ {}) \cup N
    BY <1>2 DEF Starts
  <2> QED
    BY <1>6, <1>7, <2>1, ContractStep
<1> QED
  BY <1>5, <1>8

LEMMA MovesOnKeeps ==
  ASSUME NothingFails, SlotInv, SlotInv', ListInv, NEW c \in Calls, NEW s, NEW j \in JobStates,
         NEW freed \in BOOLEAN, NEW N \in SUBSET QuoteCalls, MovesOn(c, s, j, freed, N)
  PROVE  /\ ListInv'
         /\ Contract!ContractNext \/ UNCHANGED <<ToCall, active, Over>>
<1>1. /\ pending \in Seq(QuoteCalls) /\ pending' \in Seq(QuoteCalls)
      /\ In(pending') \cap active' = {} /\ status \in [Calls -> Statuses]
      /\ \A d \in In(pending) : status[d] = "ABSENT"
      /\ QuoteCalls \subseteq Calls
  BY DEF SlotInv, DispatchInv, Callable, TypeOK, Statuses, Calls
<1>2. /\ In(pending) = In(pending') \cup N /\ N \subseteq In(pending)
      /\ active' = (active \ (IF freed THEN {c} ELSE {})) \cup N
      /\ \A d \in Calls : status'[d] = IF d \in N THEN "QUEUED" ELSE IF d = c THEN s ELSE status[d]
      /\ s # "ABSENT" /\ status[c] # "ABSENT" /\ scheduled' = scheduled
  BY DEF MovesOn, Settled, NothingFails
<1>3. In(pending') = In(pending) \ N /\ c \notin N
  BY <1>1, <1>2
<1>4. CASE scheduled
  <2>1. In(pending) = {d \in QuoteCalls : status[d] = "ABSENT"}
    BY <1>4 DEF ListInv
  <2>2. ListInv'
    <3>1. \A d \in QuoteCalls : status'[d] = "ABSENT" <=> (status[d] = "ABSENT" /\ d \notin N)
      BY <1>1, <1>2
    <3>2. In(pending') = {d \in QuoteCalls : status'[d] = "ABSENT"}
      BY <1>3, <2>1, <3>1
    <3> QED
      BY <1>2, <1>4, <3>2 DEF ListInv
  <2> DEFINE done == IF freed THEN {c} \cap active ELSE {}
  <2>3. ToCall = In(pending) /\ ToCall' = ToCall \ N /\ N \subseteq ToCall
    <3>1. ToCall = In(pending) /\ ToCall' = In(pending')
      BY <1>1, <1>2, <1>4, EmptyList DEF ToCall
    <3> QED
      BY <1>2, <1>3, <3>1
  <2>4. active' = (active \ done) \cup N /\ done \subseteq active
    BY <1>2
  <2>5. Over' = Over \cup done
    <3>1. active = {d \in QuoteCalls : status[d] \in Progress} /\ Progress \cap Terminal = {}
      BY DEF SlotInv, SlotsFollowCalls, Progress, Terminal
    <3>2. /\ freed => s \in Terminal
          /\ s \in Terminal => freed \/ s = status[c]
          /\ status[c] \in Terminal => s = status[c]
      BY DEF MovesOn
    <3>3. status[c] \in Progress \cup Terminal
      BY <1>1, <1>2 DEF Statuses
    <3>4. ASSUME NEW d \in QuoteCalls, d # c
          PROVE  (status'[d] \in Terminal <=> status[d] \in Terminal)
      BY <1>1, <1>2, <3>4 DEF Terminal
    <3>5. c \in QuoteCalls => (s \in Terminal <=> status[c] \in Terminal \/ c \in done)
      BY <3>1, <3>2, <3>3
    <3>6. c \in QuoteCalls => status'[c] = s
      BY <1>2, <1>3
    <3>7. done \subseteq QuoteCalls /\ \A d \in done : d = c
      BY <3>1
    <3>8. \A d \in QuoteCalls : status'[d] \in Terminal <=> (status[d] \in Terminal \/ d \in done)
      BY <3>4, <3>5, <3>6, <3>7
    <3> HIDE DEF done
    <3> QED
      BY <3>7, <3>8 DEF Over, Ended
  <2>6. done = {} \/ \E d : done = {d}
    OBVIOUS
  <2>7. scheduled'
    BY <1>2, <1>4
  <2> HIDE DEF done
  <2> QED
    BY <2>2, <2>3, <2>4, <2>5, <2>6, <2>7, ContractStep
<1>5. CASE ~ scheduled
  <2>1. pending = <<>> /\ active = {} /\ \A d \in QuoteCalls : status[d] = "ABSENT"
    BY <1>5 DEF ListInv
  <2>2. In(pending) = {} /\ N = {} /\ In(pending') = {} /\ active' = {}
    BY <1>1, <1>2, <2>1, EmptyList
  <2>3. pending' = <<>> /\ c \notin QuoteCalls
    BY <1>1, <1>2, <2>1, <2>2, EmptyList
  <2>4. \A d \in QuoteCalls : status'[d] = status[d]
    BY <1>1, <1>2, <2>2, <2>3
  <2>5. UNCHANGED <<ToCall, active, Over>>
    BY <1>2, <1>5, <2>1, <2>2, <2>4 DEF ToCall, Over, Ended
  <2> QED
    BY <1>2, <1>5, <2>1, <2>2, <2>3, <2>4, <2>5 DEF ListInv
<1> QED
  BY <1>4, <1>5

LEMMA CampaignStep ==
  ASSUME NothingFails, SlotInv, SlotInv', ListInv, [Next]_vars
  PROVE  ListInv' /\ [Contract!ContractNext]_Contract!contractVars
<1>1. Moves
  BY StepMoves DEF SlotInv
<1>2. CASE Quiet
  <2>1. ListInv'
    BY <1>2 DEF Quiet, ListInv
  <2>2. UNCHANGED <<ToCall, active, Over>>
    BY <1>2 DEF Quiet, ToCall, Over, Ended
  <2> QED
    BY <2>1, <2>2 DEF ToCall, Over, Contract!contractVars
<1>3. ASSUME NEW N \in SUBSET QuoteCalls, Starts(N)
      PROVE  ListInv' /\ [Contract!ContractNext]_Contract!contractVars
  BY <1>3, StartsKeeps
<1>4. ASSUME NEW c \in Calls, NEW s, NEW j \in JobStates, NEW freed \in BOOLEAN,
             NEW N \in SUBSET QuoteCalls, MovesOn(c, s, j, freed, N)
      PROVE  ListInv' /\ [Contract!ContractNext]_Contract!contractVars
  <2>1. ListInv' /\ (Contract!ContractNext \/ UNCHANGED <<ToCall, active, Over>>)
    BY <1>4, MovesOnKeeps
  <2> QED
    BY <2>1 DEF ToCall, Over, Contract!contractVars
<1> QED
  BY <1>1, <1>2, <1>3, <1>4 DEF Moves

LEMMA SlotInvariant ==
  ASSUME NothingFails
  PROVE  Spec => []SlotInv
<1>1. "storage" \notin Faults /\ "restart" \notin Faults
  BY DEF NothingFails
<1> QED
  BY <1>1, Dispatched, SlotsAreKept, PTL DEF SlotInv

\* As long as no statement fails and the process runs, the calls of a campaign
\* are what CampaignContract promises: whoever is called was not called before,
\* in a slot of their own, and no slot stays free while somebody is left to call.
THEOREM CampaignIsKept ==
  ASSUME NothingFails
  PROVE  Spec => Contract!ContractSafety
<1>1. Init => ListInv /\ Contract!ContractInit
  <2> SUFFICES ASSUME Init PROVE ListInv /\ Contract!ContractInit
    OBVIOUS
  <2>1. /\ scheduled = FALSE /\ pending = <<>> /\ active = {}
        /\ \A c \in QuoteCalls : status[c] = "ABSENT"
    BY DEF Init, Calls
  <2> QED
    BY <2>1 DEF ListInv, Contract!ContractInit, Ended, Terminal
<1>2. SlotInv /\ SlotInv' /\ ListInv /\ [Next]_vars
        => ListInv' /\ [Contract!ContractNext]_Contract!contractVars
  BY CampaignStep
<1> QED
  BY <1>1, <1>2, SlotInvariant, PTL DEF Spec, Contract!ContractSafety

-----------------------------------------------------------------------------
\* Nobody is forgotten.

LEMMA ListInvariant ==
  ASSUME NothingFails
  PROVE  Spec => []ListInv
<1>1. Init => ListInv
  BY DEF Init, Calls, ListInv
<1>2. SlotInv /\ SlotInv' /\ ListInv /\ [Next]_vars => ListInv'
  BY CampaignStep
<1> QED
  BY <1>1, <1>2, SlotInvariant, PTL DEF Spec

\* What the job knows of is a call of the provider, and a call under way is
\* being placed or will be reported on.
WorkAt(c) ==
  /\ known[c] # 0 => reports[c][known[c]] # {}
  /\ status[c] \in Progress => AtWork(c) \/ Reachable(c)

WorkInv == \A c \in Calls : WorkAt(c)

\* The other calls when one moves on: a call is queued, or stays what it was.
LEMMA MovesOnOthers ==
  ASSUME DispatchInv, NEW c \in Calls, NEW s, NEW j \in JobStates, NEW freed \in BOOLEAN,
         NEW N \in SUBSET QuoteCalls, MovesOn(c, s, j, freed, N)
  PROVE  /\ status'[c] = s /\ job'[c] = j
         /\ \A d \in Calls \ {c} : (status'[d] = status[d] /\ job'[d] = job[d]) \/ job'[d] = "queued"
<1>1. N \subseteq In(pending) /\ \A d \in In(pending) : status[d] = "ABSENT"
  BY DEF DispatchInv, Callable, MovesOn, Settled
<1>2. c \notin N
  BY <1>1 DEF MovesOn
<1>3. \A d \in Calls : /\ status'[d] = IF d \in N THEN "QUEUED" ELSE IF d = c THEN s ELSE status[d]
                       /\ job'[d] = IF d \in N THEN "queued" ELSE [job EXCEPT ![c] = j][d]
  BY DEF MovesOn, Settled
<1>4. \A d \in Calls : [job EXCEPT ![c] = j][d] = IF d = c THEN j ELSE job[d]
  BY DEF DispatchInv, TypeOK
<1> QED
  BY <1>2, <1>3, <1>4

\* A call that was queued, or of which nothing is lost.
LEMMA WorkKept ==
  ASSUME NEW d \in Calls, WorkAt(d), UNCHANGED known,
         \A k \in Attempts : reports[d][k] \subseteq reports'[d][k],
         known[d] # 0 => known[d] \in Attempts,
         job'[d] = "queued" \/ (job'[d] = job[d] /\ sid'[d] = sid[d] /\ status'[d] = status[d])
  PROVE  WorkAt(d)'
<1>1. known[d] # 0 => reports'[d][known[d]] # {}
  BY DEF WorkAt
<1>2. CASE job'[d] = "queued"
  BY <1>1, <1>2 DEF WorkAt, AtWork
<1>3. CASE job'[d] = job[d] /\ sid'[d] = sid[d] /\ status'[d] = status[d]
  BY <1>1, <1>3 DEF WorkAt, AtWork, Reachable
<1> QED
  BY <1>2, <1>3

LEMMA KnownIsAttempt ==
  ASSUME DispatchInv
  PROVE  \A d \in Calls : known[d] # 0 => known[d] \in Attempts
<1>1. \A d \in Calls : known[d] \in 0..(MaxRetries + 1) /\ MaxRetries \in Nat
  BY LimitsAssumption DEF DispatchInv, TypeOK
<1> QED
  BY <1>1 DEF Attempts

LEMMA WorkReport ==
  ASSUME NothingFails, DispatchInv, WorkInv, NEW c \in Calls, NEW k \in Attempts,
         NEW t \in Progress \cup Terminal, Report(c, k, t)
  PROVE  WorkInv'
<1>1. /\ UNCHANGED <<known, reports>> /\ sid[c] \in {0, k} /\ t \in reports[c][k]
      /\ \A d \in Calls \ {c} : sid'[d] = sid[d]
      /\ sid'[c] = k /\ k # 0 /\ WorkAt(c)
  BY LimitsAssumption DEF Report, Binds, DispatchInv, TypeOK, WorkInv, Attempts
<1>2. \A d \in Calls : (known[d] # 0 => known[d] \in Attempts) /\ WorkAt(d)
  BY KnownIsAttempt DEF WorkInv
<1>3. CASE UNCHANGED <<status, job>>
  <2>1. WorkAt(c)'
    BY <1>1, <1>3 DEF WorkAt, AtWork, Reachable
  <2>2. \A d \in Calls \ {c} : WorkAt(d)'
    BY <1>1, <1>2, <1>3, WorkKept
  <2> QED
    BY <2>1, <2>2 DEF WorkInv
<1>4. ASSUME NEW N \in SUBSET QuoteCalls, NEW freed \in BOOLEAN,
             MovesOn(c, t, job[c], freed, N), Takes(c, t)
      PROVE  WorkInv'
  <2>1. job[c] \in JobStates
    BY DEF DispatchInv, TypeOK, JobStates
  <2>2. /\ status'[c] = t /\ job'[c] = job[c]
        /\ \A d \in Calls \ {c} : (status'[d] = status[d] /\ job'[d] = job[d]) \/ job'[d] = "queued"
    <3> DEFINE j == job[c]
    <3>1. j \in JobStates /\ MovesOn(c, t, j, freed, N)
      BY <1>4, <2>1
    <3> HIDE DEF j
    <3>2. /\ status'[c] = t /\ job'[c] = j
          /\ \A d \in Calls \ {c} : (status'[d] = status[d] /\ job'[d] = job[d]) \/ job'[d] = "queued"
      BY <3>1, MovesOnOthers
    <3> QED
      BY <3>2 DEF j
  <2>3. t \in Progress => status[c] \in Progress
    <3>1. status[c] # "ABSENT" /\ status[c] \in Statuses
      BY <1>4 DEF MovesOn, DispatchInv, TypeOK, Statuses
    <3> QED
      BY <1>4, <3>1 DEF Takes, Allowed, Statuses, Progress, Terminal
  <2>4. WorkAt(c)'
    BY <1>1, <2>2, <2>3 DEF WorkAt, AtWork, Reachable
  <2>5. \A d \in Calls \ {c} : WorkAt(d)'
    BY <1>1, <1>2, <2>2, WorkKept
  <2> QED
    BY <2>4, <2>5 DEF WorkInv
<1> QED
  BY <1>3, <1>4, ReportMoves

LEMMA WorkRequestFails ==
  ASSUME NothingFails, DispatchInv, WorkInv, NEW c \in Calls, RequestFails(c)
  PROVE  WorkInv'
<1>1. UNCHANGED <<known, reports, sid>> /\ WorkAt(c)
  BY DEF RequestFails, WorkInv
<1>2. \A d \in Calls : (known[d] # 0 => known[d] \in Attempts) /\ WorkAt(d)
  BY KnownIsAttempt DEF WorkInv
<1>3. CASE job' = [job EXCEPT ![c] = "queued"] /\ UNCHANGED status
  <2>1. \A d \in Calls : job'[d] = "queued" \/ job'[d] = job[d]
    BY <1>3 DEF DispatchInv, TypeOK
  <2> QED
    BY <1>1, <1>2, <1>3, <2>1, WorkKept DEF WorkInv
<1>4. ASSUME NEW N \in SUBSET QuoteCalls, NEW freed \in BOOLEAN, NEW s \in Terminal,
             MovesOn(c, s, "ended", freed, N)
      PROVE  WorkInv'
  <2>1. "ended" \in JobStates /\ s \notin Progress
    BY DEF JobStates, Progress, Terminal
  <2>2. /\ status'[c] = s
        /\ \A d \in Calls \ {c} : (status'[d] = status[d] /\ job'[d] = job[d]) \/ job'[d] = "queued"
    BY <1>4, <2>1, MovesOnOthers
  <2>3. WorkAt(c)'
    BY <1>1, <2>1, <2>2 DEF WorkAt
  <2>4. \A d \in Calls \ {c} : WorkAt(d)'
    BY <1>1, <1>2, <2>2, WorkKept
  <2> QED
    BY <2>3, <2>4 DEF WorkInv
<1> QED
  BY <1>3, <1>4, RequestFailsMoves

LEMMA WorkJob ==
  ASSUME NothingFails, DispatchInv, WorkInv, NEW c \in Calls,
         StartJob(c) \/ Answer(c) \/ SaveAgain(c) \/ ProviderAccepts(c)
  PROVE  WorkInv'
<1>1. \A d \in Calls : (known[d] # 0 => known[d] \in Attempts) /\ WorkAt(d)
  BY KnownIsAttempt DEF WorkInv
<1>2. TypeOK /\ StartedAt(c) /\ WorkAt(c)
  BY DEF DispatchInv, Started, WorkInv
<1>3. CASE StartJob(c)
  <2>1. UNCHANGED <<known, reports, sid, status>>
        /\ \A d \in Calls : job'[d] = IF d = c THEN "requesting" ELSE job[d]
    BY <1>2, <1>3 DEF StartJob, TypeOK, storedVars
  <2>2. WorkAt(c)'
    BY <1>2, <2>1 DEF WorkAt, AtWork
  <2>3. \A d \in Calls \ {c} : WorkAt(d)'
    BY <1>1, <2>1, WorkKept
  <2> QED
    BY <2>2, <2>3 DEF WorkInv
<1>4. ASSUME NEW k \in Attempts, reports[c][k] # {}, Save(c, k), UNCHANGED <<status, reports>>,
             known' = [known EXCEPT ![c] = k]
      PROVE  WorkInv'
  <2>1. k # 0
    BY LimitsAssumption DEF Attempts
  <2>2. /\ sid'[c] = k /\ job'[c] = "ended" /\ known'[c] = k
        /\ \A d \in Calls \ {c} : sid'[d] = sid[d] /\ job'[d] = job[d] /\ known'[d] = known[d]
    BY <1>2, <1>4 DEF Save, NothingFails, TypeOK
  <2>3. WorkAt(c)'
    BY <1>4, <2>1, <2>2 DEF WorkAt, Reachable
  <2>4. \A d \in Calls \ {c} : WorkAt(d)'
    BY <1>1, <1>4, <2>2 DEF WorkAt, AtWork, Reachable
  <2> QED
    BY <2>3, <2>4 DEF WorkInv
<1>5. CASE Answer(c)
  <2>1. attempts[c] \in Attempts
    BY <1>2, <1>5 DEF StartedAt, Answer
  <2> QED
    BY <1>4, <1>5, <2>1 DEF Answer
<1>6. CASE SaveAgain(c)
  <2>1. known[c] \in Attempts /\ reports[c][known[c]] # {} /\ known' = [known EXCEPT ![c] = known[c]]
    BY <1>1, <1>2, <1>6 DEF SaveAgain, WorkAt, TypeOK
  <2> QED
    BY <1>4, <1>6, <2>1 DEF SaveAgain
<1>7. CASE ProviderAccepts(c)
  <2>1. UNCHANGED <<known, sid, job, status>>
    BY <1>7 DEF ProviderAccepts, storedVars, jobVars
  <2>2. \A d \in Calls, k \in Attempts : reports[d][k] \subseteq reports'[d][k]
    BY <1>2, <1>7 DEF ProviderAccepts, StartedAt, TypeOK
  <2> QED
    BY <1>1, <2>1, <2>2, WorkKept DEF WorkInv
<1> QED
  BY <1>3, <1>5, <1>6, <1>7

LEMMA WorkStep ==
  ASSUME NothingFails, DispatchInv, WorkInv, [Next]_vars
  PROVE  WorkInv'
<1>1. \A d \in Calls : (known[d] # 0 => known[d] \in Attempts) /\ WorkAt(d)
  BY KnownIsAttempt DEF WorkInv
<1>2. ASSUME UNCHANGED <<known, sid>>,
             \A d \in Calls, k \in Attempts : reports[d][k] \subseteq reports'[d][k],
             \A d \in Calls : job'[d] = "queued" \/ (job'[d] = job[d] /\ status'[d] = status[d])
      PROVE  WorkInv'
  BY <1>1, <1>2, WorkKept DEF WorkInv
<1>3. ASSUME NEW c \in Calls, NEW k \in Attempts, ProviderAdvances(c, k) \/ ProviderEnds(c, k)
      PROVE  WorkInv'
  BY <1>2, <1>3, ProviderStep DEF storedVars, jobVars
<1>4. ASSUME NEW c \in CommitCalls, EnqueueCommitCall(c) \/ OperatorCalls(c) \/ BusyRetryFires(c)
      PROVE  WorkInv'
  BY <1>2, <1>4, CommitCallMoves DEF EnqueueCommitCall, OperatorCalls, BusyRetryFires
<1>5. ASSUME NEW c \in QuoteCalls, NEW k \in Attempts, AgentActs(c, k) PROVE WorkInv'
  BY <1>2, <1>5 DEF AgentActs, jobVars
<1>6. CASE EnqueueQuoteCalls
  <2>1. PICK N \in SUBSET QuoteCalls : Starts(N)
    BY <1>6, FirstCallsStart
  <2>2. UNCHANGED <<known, sid, reports>>
    BY <1>6 DEF EnqueueQuoteCalls
  <2> QED
    BY <1>2, <2>1, <2>2 DEF Starts
<1>7. CASE (\E b \in InboundCalls : CarrierPhonesIn(b)) \/ UNCHANGED vars
  BY <1>2, <1>7 DEF CarrierPhonesIn, vars, storedVars, jobVars
<1>8. "IN_PROGRESS" \in Progress \cup Terminal
  BY DEF Progress
<1>9. ~ Restart
  BY DEF Restart, NothingFails
<1> QED
  BY <1>3, <1>4, <1>5, <1>6, <1>7, <1>8, <1>9, WorkReport, WorkRequestFails, WorkJob
     DEF Next, StreamStarts, Callback

\* As long as no statement fails and the process runs, a call that is under way
\* is being placed or will be reported on, also when answers of the provider are
\* lost, and whoever was not called is on the list: NobodyForgotten.
THEOREM NobodyIsForgotten ==
  ASSUME NothingFails
  PROVE  Spec => []NobodyForgotten
<1>1. Init => WorkInv
  BY DEF Init, WorkInv, WorkAt, Progress
<1>2. DispatchInv /\ WorkInv /\ [Next]_vars => WorkInv'
  BY WorkStep
<1>3. DispatchInv /\ WorkInv /\ ListInv => NobodyForgotten
  <2> SUFFICES ASSUME DispatchInv, WorkInv, ListInv PROVE NobodyForgotten
    OBVIOUS
  <2>1. ToSet(pending) = In(pending)
    BY EmptyList DEF DispatchInv, Callable
  <2> QED
    BY <2>1 DEF WorkInv, WorkAt, ListInv, NobodyForgotten
<1> QED
  BY <1>1, <1>2, <1>3, Dispatched, ListInvariant, PTL DEF Spec
=============================================================================
