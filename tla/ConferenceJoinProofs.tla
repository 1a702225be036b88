------------------------- MODULE ConferenceJoinProofs -------------------------
(***************************************************************************)
(* What holds of a join for every number of retries and restarts, and      *)
(* whichever requests and transactions fail: the types, that the carrier   *)
(* is only brought to a human who has answered, what HUMAN_JOINED says,    *)
(* that each step is one of those HumanEscalation has, that no escalation  *)
(* is left being dialled, and how often a human is called.                 *)
(***************************************************************************)
EXTENDS ConferenceJoin, TLAPS

Reached == Answered # {} /\ Redirected

\* The job has a human on the line before it moves the carrier, and has moved
\* the carrier before it records the join; the queue has one job.
JoinInv ==
  /\ TypeOK
  /\ job = "waiting" => participant \in Legs
  /\ job \in {"discovering", "redirecting"} => Answered # {}
  /\ joined \/ completed \/ esc = "HUMAN_JOINED" => Reached
  /\ job = "recording" => joined
  /\ Redirected => Answered # {}
  /\ job # "none" => activeJoin
  /\ esc = "REQUESTED" => job = "none"

LEMMA JoinInit == Init => JoinInv
<1> SUFFICES ASSUME Init PROVE JoinInv
  OBVIOUS
<1>1. MaxRetries \in Nat /\ MaxRestarts \in Nat
  BY RetriesAssumption
<1>2. leg \in [Legs -> LegStatus] /\ attempts \in 0..MaxRetries /\ restarts \in 0..MaxRestarts
  BY <1>1 DEF Init, LegStatus
<1>3. TypeOK
  BY <1>2 DEF Init, TypeOK, JobPhase
<1> QED
  BY <1>3 DEF Init, JoinInv, Redirected

\* Who has answered has answered, and a carrier that was brought to the
\* conference was.
LEMMA AnsweredStays ==
  ASSUME TypeOK, NEW l \in Legs, NEW s \in LegStatus, leg' = [leg EXCEPT ![l] = s],
         leg[l] = "none" \/ s \in {"talking", "left"} \/ leg[l] = "ringing"
  PROVE  Answered \subseteq Answered' /\ leg' \in [Legs -> LegStatus]
BY DEF TypeOK, Answered

\* A rejected attempt keeps what was reached, and frees the queue or keeps the job.
LEMMA AttemptFailsInv ==
  ASSUME JoinInv, AttemptFails, UNCHANGED <<call, completed, restarts, carrier>>,
         Answered \subseteq Answered', leg' \in [Legs -> LegStatus], job # "none"
  PROVE  JoinInv'
<1>1. MaxRetries \in Nat
  BY RetriesAssumption
<1>2. esc' \in {esc, "FAILED"} /\ job' \in {"queued", "none"} /\ esc # "REQUESTED"
  BY DEF JoinInv, AttemptFails
<1>3. TypeOK'
  <2>1. attempts' \in 0..MaxRetries
    <3>1. attempts \in 0..MaxRetries
      BY DEF JoinInv, TypeOK
    <3>2. attempts' = attempts \/ (attempts < MaxRetries /\ attempts' = attempts + 1)
      BY DEF AttemptFails
    <3> QED
      BY <1>1, <3>1, <3>2
  <2>2. activeJoin' \in BOOLEAN /\ joined' \in BOOLEAN
    BY DEF JoinInv, TypeOK, AttemptFails
  <2> QED
    BY <1>2, <2>1, <2>2 DEF JoinInv, TypeOK, AttemptFails, JobPhase
<1>4. joined' => joined
  BY DEF AttemptFails
<1>5. job' # "none" => activeJoin'
  BY DEF JoinInv, AttemptFails
<1> QED
  BY <1>2, <1>3, <1>4, <1>5 DEF JoinInv, Reached, Redirected

LEMMA ProviderInv == JoinInv /\ Provider => JoinInv'
<1> SUFFICES ASSUME JoinInv, Provider PROVE JoinInv'
  OBVIOUS
<1>1. ASSUME NEW l \in Legs, HumanAnswers(l) \/ HumanMisses(l) \/ HumanLeaves(l) PROVE JoinInv'
  <2>1. Answered \subseteq Answered' /\ leg' \in [Legs -> LegStatus]
    <3>1. CASE HumanAnswers(l)
      BY <3>1, AnsweredStays DEF HumanAnswers, JoinInv, LegStatus
    <3>2. CASE HumanMisses(l)
      BY <3>2, AnsweredStays DEF HumanMisses, JoinInv, LegStatus
    <3>3. CASE HumanLeaves(l)
      BY <3>3, AnsweredStays DEF HumanLeaves, JoinInv, LegStatus
    <3> QED
      BY <1>1, <3>1, <3>2, <3>3
  <2>2. UNCHANGED <<esc, call, memoryVars, restarts, carrier>>
    BY <1>1 DEF HumanAnswers, HumanMisses, HumanLeaves
  <2> QED
    BY <2>1, <2>2 DEF JoinInv, TypeOK, memoryVars, jobVars, Reached, Redirected
<1>2. CASE CarrierHangsUp
  BY <1>2 DEF CarrierHangsUp, JoinInv, TypeOK, memoryVars, jobVars, Reached, Redirected, Answered
<1>3. CASE CallEnds
  BY <1>3
    DEF CallEnds, JoinInv, TypeOK, memoryVars, jobVars, providerVars, Reached, Redirected, Answered
<1> QED
  BY <1>1, <1>2, <1>3 DEF Provider

LEMMA JobInv == JoinInv /\ Job => JoinInv'
<1> SUFFICES ASSUME JoinInv, Job PROVE JoinInv'
  OBVIOUS
<1> USE DEF JobPhase
<1>1. CASE AttemptFails /\ job # "none" /\ UNCHANGED <<call, completed, restarts, providerVars>>
  BY <1>1, AttemptFailsInv DEF JoinInv, TypeOK, providerVars, Answered
<1>2. CASE StartJob
  <2>1. CASE JoinStillActive
    <3>1. /\ job' = IF joined \/ completed THEN "recording" ELSE "finding"
          /\ joined' = (joined \/ completed)
          /\ UNCHANGED <<esc, activeJoin, attempts, found, participant>>
          /\ UNCHANGED <<call, completed, restarts, providerVars>>
          /\ job = "queued"
      BY <1>2, <2>1 DEF StartJob
    <3>2. TypeOK'
      BY <3>1 DEF JoinInv, TypeOK, providerVars
    <3>3. joined' => joined \/ completed
      BY <3>1
    <3>4. job' = "recording" => joined'
      BY <3>1
    <3>5. job' \in {"recording", "finding"}
      BY <3>1
    <3> QED
      BY <3>1, <3>2, <3>3, <3>4, <3>5 DEF JoinInv, providerVars, Reached, Redirected, Answered
  <2>2. CASE ~ JoinStillActive
    BY <1>1, <1>2, <2>2 DEF StartJob
  <2> QED
    BY <2>1, <2>2
<1>3. CASE FindConference
  BY <1>3 DEF FindConference, JoinInv, TypeOK, providerVars, Reached, Redirected, Answered,
    ConferenceActive
<1>4. CASE FindParticipant
  <2>1. participant' \in Legs \cup {0} /\ (job' = "waiting" => participant' \in Legs)
    BY <1>4 DEF FindParticipant, Participants, JoinInv, TypeOK
  <2> QED
    BY <1>4, <2>1 DEF FindParticipant, JoinInv, TypeOK, providerVars, Reached, Redirected, Answered
<1>5. CASE AddParticipant
  <2>1. PICK l \in Legs :
          /\ leg[l] = "none"
          /\ leg' = [leg EXCEPT ![l] = "ringing"]
          /\ \/ /\ participant' = l
                /\ job' = "waiting"
                /\ UNCHANGED <<esc, activeJoin, attempts, found, joined>>
             \/ "lostReply" \in Faults /\ AttemptFails
    BY <1>5 DEF AddParticipant
  <2>2. Answered \subseteq Answered' /\ leg' \in [Legs -> LegStatus]
    BY <2>1, AnsweredStays DEF JoinInv, LegStatus
  <2>3. UNCHANGED <<call, completed, restarts, carrier>> /\ job = "adding"
    BY <1>5 DEF AddParticipant
  <2>4. CASE AttemptFails
    BY <2>2, <2>3, <2>4, AttemptFailsInv
  <2>5. CASE participant' = l /\ job' = "waiting" /\ UNCHANGED <<esc, activeJoin, attempts, found, joined>>
    BY <2>2, <2>3, <2>5 DEF JoinInv, TypeOK, Reached, Redirected
  <2> QED
    BY <2>1, <2>4, <2>5
<1>6. CASE SeesAnswer
  <2>1. participant \in Answered
    BY <1>6 DEF SeesAnswer, JoinInv, Answered
  <2> QED
    BY <1>6, <2>1 DEF SeesAnswer, JoinInv, TypeOK, providerVars, Reached, Redirected, Answered
<1>7. CASE GivesUpWaiting
  BY <1>1, <1>7 DEF GivesUpWaiting
<1>8. CASE Discover
  <2>1. CASE AttemptFails
    BY <1>1, <1>8, <2>1 DEF Discover
  <2>2. CASE /\ found' = TRUE
             /\ job' = "redirecting"
             /\ UNCHANGED <<esc, activeJoin, attempts, participant, joined>>
    BY <1>8, <2>2 DEF Discover, JoinInv, TypeOK, providerVars, Reached, Redirected, Answered
  <2> QED
    BY <1>8, <2>1, <2>2 DEF Discover
<1>9. CASE Redirect
  <2>1. Answered # {} /\ UNCHANGED <<call, restarts, leg>> /\ carrier' = "conference" /\ job # "none"
    BY <1>9 DEF Redirect, JoinInv
  <2>2. Answered' = Answered /\ Redirected'
    BY <2>1 DEF Answered, Redirected
  <2>3. CASE AttemptFails /\ UNCHANGED completed
    <3>1. attempts' \in 0..MaxRetries /\ job' \in {"queued", "none"} /\ esc' \in {esc, "FAILED"}
      BY <2>3, RetriesAssumption DEF AttemptFails, JoinInv, TypeOK
    <3>2. activeJoin' \in BOOLEAN /\ joined' \in BOOLEAN /\ found' = FALSE /\ participant' = 0
      BY <2>3 DEF AttemptFails, JoinInv, TypeOK
    <3>3. TypeOK'
      BY <2>1, <2>3, <3>1, <3>2 DEF JoinInv, TypeOK
    <3>4. job' # "none" => activeJoin'
      BY <2>1, <2>3 DEF AttemptFails, JoinInv
    <3> QED
      BY <2>1, <2>2, <3>1, <3>3, <3>4 DEF JoinInv, Reached
  <2>4. CASE /\ job' = "recording" /\ joined' = TRUE /\ completed' = TRUE
             /\ UNCHANGED <<esc, activeJoin, attempts, found, participant>>
    BY <2>1, <2>2, <2>4 DEF JoinInv, TypeOK, Reached
  <2> QED
    BY <1>9, <2>3, <2>4 DEF Redirect
<1>10. CASE RequestFails
  BY <1>1, <1>10 DEF RequestFails
<1>11. CASE Record
  <2>1. CASE AttemptFails
    BY <1>1, <1>11, <2>1 DEF Record
  <2>2. CASE esc' = "HUMAN_JOINED" /\ job' = "none" /\ activeJoin' = FALSE
             /\ found' = FALSE /\ participant' = 0 /\ joined' = FALSE /\ UNCHANGED attempts
    BY <1>11, <2>2 DEF Record, JoinInv, TypeOK, providerVars, Reached, Redirected, Answered
  <2> QED
    BY <1>11, <2>1, <2>2 DEF Record
<1> QED
  BY <1>2, <1>3, <1>4, <1>5, <1>6, <1>7, <1>8, <1>9, <1>10, <1>11 DEF Job

LEMMA JoinStep == JoinInv /\ [Next]_vars => JoinInv'
<1> SUFFICES ASSUME JoinInv, [Next]_vars PROVE JoinInv'
  OBVIOUS
<1>1. CASE UNCHANGED vars
  BY <1>1 DEF vars, memoryVars, jobVars, providerVars, JoinInv, TypeOK, Reached, Redirected, Answered
<1>2. CASE JoinHuman
  <2>1. TypeOK'
    <3>1. attempts' \in 0..MaxRetries
      BY <1>2, RetriesAssumption DEF JoinHuman
    <3> QED
      BY <1>2, <3>1 DEF JoinHuman, providerVars, JoinInv, TypeOK, JobPhase
  <2> QED
    BY <1>2, <2>1 DEF JoinHuman, providerVars, JoinInv, Reached, Redirected, Answered
<1>3. CASE Restart
  <2>1. restarts' \in 0..MaxRestarts /\ attempts' \in 0..MaxRetries
    BY <1>3, RetriesAssumption DEF Restart, JoinInv, TypeOK
  <2>2. TypeOK'
    BY <1>3, <2>1 DEF Restart, providerVars, JoinInv, TypeOK, JobPhase
  <2> QED
    BY <1>3, <2>2 DEF Restart, providerVars, JoinInv, Reached, Redirected, Answered
<1> QED
  BY <1>1, <1>2, <1>3, ProviderInv, JobInv DEF Next

LEMMA JoinInvariant == Spec => []JoinInv
BY JoinInit, JoinStep, PTL DEF Spec

THEOREM JoinTypeCorrect == Spec => []TypeOK
<1>1. JoinInv => TypeOK
  BY DEF JoinInv
<1> QED
  BY JoinInvariant, <1>1, PTL

\* However often the join is tried and whatever answers are lost, the carrier
\* leaves the agent only once a human has answered: CarrierMetByHuman.
THEOREM CarrierIsMet == Spec => []CarrierMetByHuman
<1>1. JoinInv => CarrierMetByHuman
  BY DEF JoinInv, CarrierMetByHuman
<1> QED
  BY JoinInvariant, <1>1, PTL

\* A join that is recorded was made, also one the gateway only remembers:
\* JoinedMeansReached.
THEOREM JoinedIsReached == Spec => []JoinedMeansReached
<1>1. JoinInv => JoinedMeansReached
  BY DEF JoinInv, JoinedMeansReached, Reached
<1> QED
  BY JoinInvariant, <1>1, PTL

-----------------------------------------------------------------------------
\* The step a rejected attempt is in HumanEscalation: tried again, given up, or
\* given up without a record of it.
LEMMA AttemptFailsMaps ==
  ASSUME JoinInv, AttemptFails, UNCHANGED call, job # "none",
         job = "queued" => ~ JoinStillActive
  PROVE  HE!JoinFails(E) \/ (job' = "none" /\ UNCHANGED <<esc, call>>) \/ UNCHANGED <<esc, call, join>>
<1> USE DEF E
<1>1. HE!JoinTurn(E) <=> job = "queued"
  BY DEF HE!JoinTurn, join, JoinInv
<1>2. HE!JoinStillActive(E) <=> JoinStillActive
  BY DEF HE!JoinStillActive, JoinStillActive
<1>3. join[E] = "dialling" \/ (HE!JoinTurn(E) /\ ~ HE!JoinStillActive(E))
  BY <1>1, <1>2 DEF join
<1>4. CASE job' = "queued" /\ UNCHANGED esc
  <2>1. join' = [join EXCEPT ![E] = "queued"]
    BY <1>4 DEF join
  <2> QED
    BY <1>3, <1>4, <2>1 DEF HE!JoinFails
<1>5. CASE job' = "none" /\ esc' = IF esc = "DIALING_HUMAN" THEN "FAILED" ELSE esc
  <2>1. join' = [join EXCEPT ![E] = "none"]
    BY <1>5 DEF join
  <2> QED
    BY <1>3, <1>5, <2>1 DEF HE!JoinFails
<1>6. CASE job' = "none" /\ UNCHANGED esc
  BY <1>6
<1> QED
  BY <1>4, <1>5, <1>6 DEF AttemptFails

LEMMA JobMaps ==
  ASSUME JoinInv, Job
  PROVE  \/ HE!StartJoin(E) \/ HE!HumanJoins(E) \/ HE!JoinFails(E)
         \/ job' = "none" /\ UNCHANGED <<esc, call>>
         \/ UNCHANGED <<esc, call, join>>
<1> USE DEF E
<1>1. CASE AttemptFails /\ UNCHANGED call /\ job \notin {"none", "queued"}
  BY <1>1, AttemptFailsMaps
<1>2. CASE StartJob
  <2>1. CASE JoinStillActive
    <3>1. job = "queued" /\ job' \in {"recording", "finding"} /\ UNCHANGED <<esc, call>>
      BY <1>2, <2>1 DEF StartJob
    <3>2. HE!JoinTurn(E) /\ HE!JoinStillActive(E)
      BY <2>1, <3>1 DEF HE!JoinTurn, HE!JoinStillActive, JoinStillActive, join
    <3>3. join' = [join EXCEPT ![E] = "dialling"]
      BY <3>1 DEF join
    <3> QED
      BY <3>1, <3>2, <3>3 DEF HE!StartJoin
  <2>2. CASE ~ JoinStillActive
    BY <1>2, <2>2, AttemptFailsMaps DEF StartJob
  <2> QED
    BY <2>1, <2>2
<1>3. CASE /\ job \notin {"none", "queued"} /\ job' \notin {"none", "queued"}
           /\ UNCHANGED <<esc, call>>
  BY <1>3 DEF join
<1>4. CASE Record
  <2>1. CASE AttemptFails
    BY <1>1, <1>4, <2>1 DEF Record
  <2>2. CASE /\ esc \in {"DIALING_HUMAN", "HUMAN_JOINED"} /\ esc' = "HUMAN_JOINED"
             /\ job' = "none"
    <3>1. job = "recording" /\ UNCHANGED call
      BY <1>4 DEF Record
    <3>2. join[E] = "dialling" /\ join' = [join EXCEPT ![E] = "none"]
      BY <2>2, <3>1 DEF join
    <3> QED
      BY <2>2, <3>1, <3>2 DEF HE!HumanJoins
  <2> QED
    BY <1>4, <2>1, <2>2 DEF Record
<1>5. CASE FindConference \/ FindParticipant \/ SeesAnswer
  BY <1>3, <1>5 DEF FindConference, FindParticipant, SeesAnswer
<1>6. CASE AddParticipant
  BY <1>1, <1>3, <1>6 DEF AddParticipant
<1>7. CASE Discover \/ Redirect
  BY <1>1, <1>3, <1>7 DEF Discover, Redirect
<1>8. CASE GivesUpWaiting \/ RequestFails
  BY <1>1, <1>8 DEF GivesUpWaiting, RequestFails
<1> QED
  BY <1>2, <1>4, <1>5, <1>6, <1>7, <1>8 DEF Job

\* Every step of the gateway's join is one HumanEscalation has, or a restart, or
\* leaves what it sees as it is: ImplementsJoin.
THEOREM GatewayImplementsJoin == Spec => ImplementsJoin
<1> DEFINE A == \/ HE!JoinHuman(E)
                \/ HE!StartJoin(E)
                \/ HE!HumanJoins(E)
                \/ HE!JoinFails(E)
                \/ HE!CallEnds(E)
                \/ job' = "none" /\ UNCHANGED <<esc, call>>
<1>1. JoinInv /\ [Next]_vars => [A]_<<esc, call, join>>
  <2> SUFFICES ASSUME JoinInv, [Next]_vars PROVE A \/ UNCHANGED <<esc, call, join>>
    OBVIOUS
  <2> USE DEF E
  <2>1. CASE UNCHANGED vars \/ Restart
    BY <2>1 DEF vars, memoryVars, jobVars, Restart, join
  <2>2. CASE JoinHuman
    <3>1. job = "none" /\ job' = "queued"
      BY <2>2 DEF JoinHuman, JoinInv
    <3>2. join[E] = "none" /\ join' = [join EXCEPT ![E] = "queued"]
      BY <3>1 DEF join
    <3>3. HE!JoinHuman(E)
      BY <2>2, <3>2 DEF JoinHuman, HE!JoinHuman
    <3> QED
      BY <3>3
  <2>3. CASE Job
    BY <2>3, JobMaps
  <2>4. CASE CallEnds
    BY <2>4 DEF CallEnds, HE!CallEnds, HE!escalationVars, memoryVars, jobVars, join
  <2>5. CASE CarrierHangsUp
    BY <2>5 DEF CarrierHangsUp, memoryVars, jobVars, join
  <2>6. ASSUME NEW l \in Legs, HumanAnswers(l) \/ HumanMisses(l) \/ HumanLeaves(l)
        PROVE  UNCHANGED <<esc, call, join>>
    BY <2>6 DEF HumanAnswers, HumanMisses, HumanLeaves, memoryVars, jobVars, join
  <2> QED
    BY <2>1, <2>2, <2>3, <2>4, <2>5, <2>6 DEF Next, Provider
<1> QED
  BY JoinInvariant, <1>1, PTL DEF Spec, ImplementsJoin
-----------------------------------------------------------------------------
(* Nobody is dialled for without a job, and nobody is dialled for ever.     *)

LEMMA NotAbandonedStep == JoinInv /\ NotAbandoned /\ [Next]_vars => NotAbandoned'
<1> SUFFICES ASSUME JoinInv, NotAbandoned, [Next]_vars PROVE NotAbandoned'
  OBVIOUS
<1> USE DEF NotAbandoned
<1>1. CASE UNCHANGED <<esc, job, activeJoin, restarts>>
  BY <1>1
<1>2. CASE JoinHuman
  BY <1>2 DEF JoinHuman
<1>3. CASE Restart
  <2>1. restarts \in Nat
    BY <1>3, RetriesAssumption DEF JoinInv, TypeOK
  <2> QED
    BY <1>3, <2>1 DEF Restart
<1>4. CASE AttemptFails /\ job # "none" /\ UNCHANGED restarts
  <2>1. activeJoin = TRUE
    BY <1>4 DEF JoinInv, TypeOK
  <2>2. CASE job' = "queued"
    BY <2>2
  <2>3. CASE esc' = IF esc = "DIALING_HUMAN" THEN "FAILED" ELSE esc
    BY <2>3
  <2>4. CASE "storage" \in Faults /\ activeJoin' = activeJoin
    BY <2>1, <2>4
  <2> QED
    BY <1>4, <2>2, <2>3, <2>4 DEF AttemptFails
<1>5. CASE job' # "none"
  BY <1>5
<1>6. CASE esc' # "DIALING_HUMAN"
  BY <1>6
<1>7. CASE Job
  BY <1>4, <1>5, <1>6, <1>7 DEF Job, StartJob, FindConference, FindParticipant, AddParticipant,
     SeesAnswer, GivesUpWaiting, Discover, Redirect, RequestFails, Record
<1>8. CASE Provider
  BY <1>1, <1>8 DEF Provider, HumanAnswers, HumanMisses, HumanLeaves, CarrierHangsUp, CallEnds,
     memoryVars, jobVars
<1> QED
  BY <1>1, <1>2, <1>3, <1>7, <1>8 DEF Next, vars, memoryVars, jobVars

\* An escalation is not left DIALING_HUMAN by a join that goes wrong:
\* NotAbandoned.
THEOREM JoinIsNotAbandoned == Spec => []NotAbandoned
<1>1. Init => NotAbandoned
  BY DEF Init, NotAbandoned
<1> QED
  BY <1>1, NotAbandonedStep, JoinInvariant, PTL DEF Spec

\* The first n calls to the human have been made, and no other.
Dialled(n) == \A l \in Legs : leg[l] # "none" <=> l <= n

\* The calls the attempts of one process may make.
PerProcess == MaxRetries + 1

\* The join may be asked for.
Askable == esc = "REQUESTED" \/ (esc = "DIALING_HUMAN" /\ ~ activeJoin)

\* The calls the processes before this one may have made.
Before == PerProcess * restarts

\* An attempt calls once at most, and nobody asks for a second join of a process.
Within(n) ==
  /\ n <= Before + PerProcess
  /\ Askable => n <= Before
  /\ job \in {"queued", "finding", "listing", "adding"} => n <= Before + attempts
  /\ job # "none" => n <= Before + attempts + 1

LegInv == \E n \in Nat : Dialled(n) /\ Within(n)

\* The calls of restarted processes add up.
LEMMA Products ==
  /\ PerProcess \in Nat
  /\ \A r \in Nat : /\ PerProcess * r \in Nat
                    /\ PerProcess * (r + 1) = PerProcess * r + PerProcess
  /\ \A r \in 0..MaxRestarts : PerProcess * (r + 1) <= PerProcess * (MaxRestarts + 1)
  /\ Legs = 1..(PerProcess * (MaxRestarts + 1))
<1>1. MaxRetries \in Nat /\ MaxRestarts \in Nat
  BY RetriesAssumption
<1>2. \A k, r, m \in Nat : r <= m => k * r <= k * m
  <2> SUFFICES ASSUME NEW k \in Nat, NEW r \in Nat, NEW m \in Nat, r <= m PROVE k * r <= k * m
    OBVIOUS
  <2>1. m = r + (m - r) /\ m - r \in Nat
    OBVIOUS
  <2>2. k * m = k * r + k * (m - r)
    BY <2>1
  <2>3. k * (m - r) \in Nat /\ k * r \in Nat
    BY <2>1
  <2> QED
    BY <2>2, <2>3
<1>3. \A r \in 0..MaxRestarts : PerProcess * (r + 1) <= PerProcess * (MaxRestarts + 1)
  <2> SUFFICES ASSUME NEW r \in 0..MaxRestarts
               PROVE  PerProcess * (r + 1) <= PerProcess * (MaxRestarts + 1)
    OBVIOUS
  <2>1. PerProcess \in Nat /\ r + 1 \in Nat /\ MaxRestarts + 1 \in Nat /\ r + 1 <= MaxRestarts + 1
    BY <1>1 DEF PerProcess
  <2> QED
    BY <1>2, <2>1
<1> QED
  BY <1>1, <1>3 DEF PerProcess, Legs

LEMMA Budgets ==
  ASSUME JoinInv
  PROVE  /\ Before \in Nat /\ PerProcess \in Nat /\ MaxRetries \in Nat /\ attempts \in 0..MaxRetries
         /\ PerProcess = MaxRetries + 1
         /\ job # "none" => ~ Askable
BY Products, RetriesAssumption DEF Before, PerProcess, Askable, JoinInv, TypeOK

\* A rejected attempt leaves room for the call of the next, if there is one.
LEMMA AttemptFailsWithin ==
  ASSUME JoinInv, AttemptFails, UNCHANGED restarts, job # "none",
         NEW n \in Nat, n <= Before + attempts + 1
  PROVE  Within(n)'
<1>1. /\ Before \in Nat /\ PerProcess = MaxRetries + 1 /\ MaxRetries \in Nat
      /\ attempts \in 0..MaxRetries
  BY Budgets
<1>2. Before' = Before /\ PerProcess' = PerProcess
  BY DEF Before, PerProcess
<1>3. n <= Before + PerProcess
  BY <1>1
<1>4. ~ Askable'
  BY DEF AttemptFails, Askable, JoinInv, TypeOK
<1>5. CASE job' = "queued" /\ attempts' = attempts + 1
  BY <1>1, <1>2, <1>3, <1>4, <1>5 DEF Within
<1>6. CASE job' = "none"
  BY <1>2, <1>3, <1>4, <1>6 DEF Within
<1> QED
  BY <1>5, <1>6 DEF AttemptFails

\* Steps of the job that call nobody.
LEMMA QuietJob ==
  ASSUME JoinInv, Job, ~ AddParticipant, NEW n \in Nat, Within(n)
  PROVE  Within(n)'
<1>1. UNCHANGED restarts /\ job # "none"
  BY DEF Job, StartJob, FindConference, FindParticipant, SeesAnswer, GivesUpWaiting, Discover,
     Redirect, RequestFails, Record
<1>2. n <= Before + attempts + 1
  BY <1>1 DEF Within
<1>3. CASE AttemptFails
  BY <1>1, <1>2, <1>3, AttemptFailsWithin
<1>4. Before' = Before /\ PerProcess' = PerProcess /\ n <= Before + PerProcess
  BY <1>1 DEF Before, PerProcess, Within
<1>5. CASE /\ UNCHANGED <<esc, activeJoin, attempts>> /\ job' # "none"
           /\ job' \in {"queued", "finding", "listing", "adding"} =>
                job \in {"queued", "finding", "listing", "adding"}
  <2>1. ~ Askable'
    BY <1>1, <1>5, Budgets DEF Askable
  <2> QED
    BY <1>2, <1>4, <1>5, <2>1 DEF Within
<1>6. CASE job' = "none" /\ esc' = "HUMAN_JOINED"
  BY <1>4, <1>6 DEF Within, Askable
<1>7. CASE StartJob
  BY <1>3, <1>5, <1>7 DEF StartJob
<1>8. CASE FindConference \/ FindParticipant
  BY <1>5, <1>8 DEF FindConference, FindParticipant
<1>9. CASE SeesAnswer \/ GivesUpWaiting \/ RequestFails
  BY <1>3, <1>5, <1>9 DEF SeesAnswer, GivesUpWaiting, RequestFails
<1>10. CASE Discover \/ Redirect
  BY <1>3, <1>5, <1>10 DEF Discover, Redirect
<1>11. CASE Record
  BY <1>3, <1>6, <1>11 DEF Record
<1> QED
  BY <1>7, <1>8, <1>9, <1>10, <1>11 DEF Job

\* The call that is made is the next one.
LEMMA NextCall ==
  ASSUME JoinInv, AddParticipant, NEW n \in Nat, Dialled(n), Within(n)
  PROVE  Dialled(n + 1)' /\ Within(n + 1)'
<1>1. PICK l \in Legs :
        /\ leg[l] = "none" /\ \A k \in 1..(l - 1) : leg[k] # "none"
        /\ leg' = [leg EXCEPT ![l] = "ringing"]
        /\ \/ /\ participant' = l
              /\ job' = "waiting"
              /\ UNCHANGED <<esc, activeJoin, attempts, found, joined>>
           \/ "lostReply" \in Faults /\ AttemptFails
  BY DEF AddParticipant
<1>2. job = "adding" /\ UNCHANGED restarts
  BY DEF AddParticipant
<1>0. PICK b \in Nat : Legs = 1..b
  BY Products, RetriesAssumption
<1>3. l \in 1..b /\ l > n
  BY <1>0, <1>1 DEF Dialled
<1>4. l = n + 1
  <2>1. CASE n + 1 < l
    <3>1. n + 1 \in 1..(l - 1) /\ n + 1 \in Legs
      BY <1>0, <1>3, <2>1
    <3>2. leg[n + 1] # "none" /\ ~ (n + 1 <= n)
      BY <1>1, <3>1
    <3> QED
      BY <3>1, <3>2 DEF Dialled
  <2> QED
    BY <1>3, <2>1
<1>5. Dialled(n + 1)'
  <2> SUFFICES ASSUME NEW k \in Legs PROVE leg'[k] # "none" <=> k <= n + 1
    BY DEF Dialled
  <2>1. leg \in [Legs -> LegStatus] /\ k \in Nat
    BY <1>0 DEF JoinInv, TypeOK
  <2>2. leg[k] # "none" <=> k <= n
    BY DEF Dialled
  <2> QED
    BY <1>1, <1>4, <2>1, <2>2
<1>6. n + 1 <= Before + attempts + 1
  BY <1>2, Budgets DEF Within
<1>7. ASSUME AttemptFails PROVE Within(n + 1)'
  BY <1>2, <1>6, <1>7, AttemptFailsWithin
<1>8. ASSUME job' = "waiting", UNCHANGED <<esc, activeJoin, attempts>> PROVE Within(n + 1)'
  <2>1. ~ Askable' /\ Before' = Before /\ PerProcess' = PerProcess
    BY <1>2, <1>8, Budgets DEF Askable, Before, PerProcess
  <2>2. n + 1 <= Before + PerProcess
    BY <1>6, Budgets
  <2> QED
    BY <1>6, <1>8, <2>1, <2>2 DEF Within
<1> QED
  BY <1>1, <1>5, <1>7, <1>8

LEMMA LegInit == Init => LegInv
<1> SUFFICES ASSUME Init PROVE LegInv
  OBVIOUS
<1>1. Dialled(0)
  BY Products DEF Init, Dialled
<1>2. PerProcess \in Nat /\ Before = 0
  BY Products DEF Init, Before
<1>3. Within(0)
  BY <1>2 DEF Init, Within
<1> QED
  BY <1>1, <1>3 DEF LegInv

LEMMA LegStep == JoinInv /\ LegInv /\ [Next]_vars => LegInv'
<1> SUFFICES ASSUME JoinInv, LegInv, [Next]_vars PROVE LegInv'
  OBVIOUS
<1>1. PICK n \in Nat : Dialled(n) /\ Within(n)
  BY DEF LegInv
<1>2. Before \in Nat /\ PerProcess \in Nat /\ n + 1 \in Nat
  BY Budgets
<1>3. CASE UNCHANGED <<esc, job, activeJoin, attempts, restarts>>
           /\ \A l \in Legs : leg'[l] # "none" <=> leg[l] # "none"
  BY <1>1, <1>3 DEF LegInv, Dialled, Within, Askable, Before, PerProcess
<1>4. CASE JoinHuman
  <2>1. Askable /\ UNCHANGED <<restarts, leg>> /\ job' = "queued" /\ attempts' = 0 /\ ~ Askable'
    BY <1>4 DEF JoinHuman, Askable, providerVars
  <2>2. n <= Before /\ Before' = Before /\ PerProcess' = PerProcess
    BY <1>1, <2>1 DEF Within, Before, PerProcess
  <2>3. Within(n)' /\ Dialled(n)'
    BY <1>1, <1>2, <2>1, <2>2 DEF Within, Dialled
  <2> QED
    BY <2>3 DEF LegInv
<1>5. CASE Restart
  <2>1. restarts \in Nat /\ restarts' = restarts + 1 /\ leg' = leg /\ job' = "none"
    BY <1>5, RetriesAssumption DEF Restart, providerVars, JoinInv, TypeOK
  <2>2. Before' = Before + PerProcess /\ PerProcess' = PerProcess
    BY <2>1, Products DEF Before, PerProcess
  <2>3. Within(n)' /\ Dialled(n)'
    BY <1>1, <1>2, <2>1, <2>2 DEF Within, Dialled
  <2> QED
    BY <2>3 DEF LegInv
<1>6. CASE AddParticipant
  BY <1>1, <1>2, <1>6, NextCall DEF LegInv
<1>7. CASE Job /\ ~ AddParticipant
  <2>1. leg' = leg
    BY <1>7 DEF Job, StartJob, FindConference, FindParticipant, SeesAnswer, GivesUpWaiting,
       Discover, Redirect, RequestFails, Record, providerVars
  <2>2. Within(n)' /\ Dialled(n)'
    BY <1>1, <1>7, <2>1, QuietJob DEF Dialled
  <2> QED
    BY <2>2 DEF LegInv
<1>8. ASSUME NEW l \in Legs, HumanAnswers(l) \/ HumanMisses(l) \/ HumanLeaves(l) PROVE LegInv'
  <2>1. UNCHANGED <<esc, job, activeJoin, attempts, restarts>>
    BY <1>8 DEF HumanAnswers, HumanMisses, HumanLeaves, memoryVars, jobVars
  <2>2. \A k \in Legs : leg'[k] # "none" <=> leg[k] # "none"
    BY <1>8 DEF HumanAnswers, HumanMisses, HumanLeaves, JoinInv, TypeOK
  <2> QED
    BY <1>3, <2>1, <2>2
<1>9. CASE CarrierHangsUp \/ CallEnds
  BY <1>3, <1>9 DEF CarrierHangsUp, CallEnds, memoryVars, jobVars, providerVars
<1>10. CASE UNCHANGED vars
  BY <1>3, <1>10 DEF vars, memoryVars, jobVars, providerVars
<1> QED
  BY <1>4, <1>5, <1>6, <1>7, <1>8, <1>9, <1>10 DEF Next, Provider, Job

\* However its answers are lost, a join calls the human at most once for every
\* attempt the queue gives it, of which a restart gives it new ones.
CallsBounded == \A l \in Legs : leg[l] # "none" => l <= PerProcess * (restarts + 1)

THEOREM CallsAreBounded == Spec => []CallsBounded
<1>1. JoinInv /\ LegInv => CallsBounded
  <2> SUFFICES ASSUME JoinInv, LegInv, NEW l \in Legs, leg[l] # "none"
               PROVE  l <= PerProcess * (restarts + 1)
    BY DEF CallsBounded
  <2>1. PICK n \in Nat : Dialled(n) /\ Within(n)
    BY DEF LegInv
  <2>2. l <= n /\ n <= Before + PerProcess
    BY <2>1 DEF Dialled, Within
  <2>3. restarts \in Nat
    BY RetriesAssumption DEF JoinInv, TypeOK
  <2>4. PerProcess * (restarts + 1) = Before + PerProcess /\ l \in Nat
    BY <2>3, Products DEF Before
  <2> QED
    BY <2>2, <2>4, Budgets
<1> QED
  BY <1>1, JoinInvariant, LegInit, LegStep, PTL DEF Spec

\* The bound of the calls never keeps the model from a call the code makes: there
\* is always one left for a job that is about to call.
THEOREM LegsSuffice ==
  Spec => [](job = "adding" =>
               \E l \in Legs : leg[l] = "none" /\ \A k \in 1..(l - 1) : leg[k] # "none")
<1>1. JoinInv /\ LegInv =>
        (job = "adding" =>
           \E l \in Legs : leg[l] = "none" /\ \A k \in 1..(l - 1) : leg[k] # "none")
  <2> SUFFICES ASSUME JoinInv, LegInv, job = "adding"
               PROVE  \E l \in Legs : leg[l] = "none" /\ \A k \in 1..(l - 1) : leg[k] # "none"
    OBVIOUS
  <2>1. PICK n \in Nat : Dialled(n) /\ Within(n)
    BY DEF LegInv
  <2>2. n + 1 <= Before + PerProcess
    BY <2>1, Budgets DEF Within
  <2>3. /\ Before + PerProcess = PerProcess * (restarts + 1)
        /\ PerProcess * (restarts + 1) <= PerProcess * (MaxRestarts + 1)
        /\ PerProcess * (MaxRestarts + 1) \in Nat /\ PerProcess * (restarts + 1) \in Nat
    BY Products, RetriesAssumption DEF Before, JoinInv, TypeOK
  <2>4. n + 1 \in Legs
    BY <2>2, <2>3, Budgets, Products
  <2>5. leg[n + 1] = "none"
    BY <2>1, <2>4 DEF Dialled
  <2>6. \A k \in 1..((n + 1) - 1) : leg[k] # "none"
    <3>1. PICK b \in Nat : Legs = 1..b
      BY <2>3, Products
    <3>2. \A k \in 1..((n + 1) - 1) : k \in Legs /\ k <= n
      BY <2>4, <3>1
    <3> QED
      BY <2>1, <3>2 DEF Dialled
  <2> QED
    BY <2>4, <2>5, <2>6
<1> QED
  BY <1>1, JoinInvariant, LegInit, LegStep, PTL DEF Spec
=============================================================================
