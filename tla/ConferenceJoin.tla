--------------------------- MODULE ConferenceJoin ---------------------------
(***************************************************************************)
(* Bringing a human into a live call: the join job of                      *)
(* escalations.service.ts, the steps human-conference.gateway.ts takes in  *)
(* it, and the telephony provider as the gateway sees it.                  *)
(*                                                                         *)
(* One escalation of one call, in more detail than HumanEscalation: there  *)
(* the gateway is a single step, here every request to the provider is.    *)
(***************************************************************************)
EXTENDS Naturals

CONSTANTS
  MaxRetries,    \* of the queue of joins
  MaxRestarts,   \* bound: restarts of the process
  Faults         \* what may go wrong, among AllFaults

\* lostReply: a request is carried out and its answer lost.
\* storage: a transaction of the database fails.
AllFaults == {"lostReply", "storage"}

ASSUME RetriesAssumption == MaxRetries \in Nat /\ MaxRestarts \in Nat
ASSUME FaultsAssumption  == Faults \subseteq AllFaults

\* Every attempt dials at most once.
Legs == 1..((MaxRetries + 1) * (MaxRestarts + 1))

VARIABLES
  \* stored
  esc,        \* escalations.status
  call,       \* calls.status of the call it was asked for on
  \* in memory
  activeJoin, \* activeJoinJobs has the escalation
  job,        \* what the job is about to do
  attempts,   \* attempts of the job that have failed
  found,      \* the gateway knows the conference
  participant,\* leg the gateway waits for, 0 for none
  joined,     \* gatewayResult of the job is set
  completed,  \* completedJoins has the escalation
  restarts,
  \* the provider
  carrier,    \* where the carrier of the call is
  leg         \* leg[l]: the l-th call to the human

jobVars      == <<job, attempts, found, participant, joined>>
memoryVars   == <<activeJoin, jobVars, completed>>
providerVars == <<carrier, leg>>
vars == <<esc, call, memoryVars, restarts, providerVars>>

JobPhase == {"none", "queued", "finding", "listing", "adding", "waiting",
             "discovering", "redirecting", "recording"}
LegStatus == {"none", "ringing", "talking", "left", "missed"}

Init ==
  /\ esc = "REQUESTED"
  /\ call = "IN_PROGRESS"
  /\ activeJoin = FALSE
  /\ job = "none"
  /\ attempts = 0
  /\ found = FALSE
  /\ participant = 0
  /\ joined = FALSE
  /\ completed = FALSE
  /\ restarts = 0
  /\ carrier = "agent"
  /\ leg = [l \in Legs |-> "none"]

-----------------------------------------------------------------------------
\* The provider: a call to the human rings and is answered or missed; who
\* answers is in the conference, which lasts while somebody is in it.

InConference == {l \in Legs : leg[l] = "talking"}
ConferenceActive == InConference # {} \/ carrier = "conference"
Participants == {l \in Legs : leg[l] \in {"ringing", "talking"}}
Answered == {l \in Legs : leg[l] \in {"talking", "left"}}

HumanAnswers(l) ==
  /\ leg[l] = "ringing"
  /\ leg' = [leg EXCEPT ![l] = "talking"]
  /\ UNCHANGED <<esc, call, memoryVars, restarts, carrier>>

HumanMisses(l) ==
  /\ leg[l] = "ringing"
  /\ leg' = [leg EXCEPT ![l] = "missed"]
  /\ UNCHANGED <<esc, call, memoryVars, restarts, carrier>>

HumanLeaves(l) ==
  /\ leg[l] = "talking"
  /\ leg' = [leg EXCEPT ![l] = "left"]
  /\ UNCHANGED <<esc, call, memoryVars, restarts, carrier>>

\* The carrier hangs up, from the agent or from the conference.
CarrierHangsUp ==
  /\ carrier \in {"agent", "conference"}
  /\ carrier' = IF carrier = "agent" THEN "gone" ELSE "left"
  /\ UNCHANGED <<esc, call, memoryVars, restarts, leg>>

\* The provider's report of the end of the call is stored.
CallEnds ==
  /\ carrier \in {"gone", "left"}
  /\ call = "IN_PROGRESS"
  /\ call' = "ENDED"
  /\ UNCHANGED <<esc, memoryVars, restarts, providerVars>>

-----------------------------------------------------------------------------
\* Asking for the join.

\* joinHuman and beginHumanJoin: the same phone may be asked for again, and a
\* job is queued only if the escalation has none.
JoinHuman ==
  /\ esc = "REQUESTED" \/ (esc = "DIALING_HUMAN" /\ ~ activeJoin)
  /\ call = "IN_PROGRESS"
  /\ esc' = "DIALING_HUMAN"
  /\ activeJoin' = TRUE
  /\ job' = "queued"
  /\ attempts' = 0
  /\ found' = FALSE
  /\ participant' = 0
  /\ joined' = FALSE
  /\ UNCHANGED <<call, completed, restarts, providerVars>>

-----------------------------------------------------------------------------
\* The job.

\* Mutant: one attempt more than the queue allows.
AttemptFailsOnceMore ==
  /\ found' = FALSE
  /\ participant' = 0
  /\ IF attempts <= MaxRetries
     THEN /\ job' = "queued"
          /\ attempts' = attempts + 1
          /\ UNCHANGED <<esc, activeJoin, joined>>
     ELSE /\ job' = "none"
          /\ activeJoin' = FALSE
          /\ joined' = FALSE
          /\ esc' = "FAILED"
          /\ UNCHANGED attempts

\* Mutant: an escalation whose job is given up is left as it is.
AttemptFailsSilently ==
  /\ found' = FALSE
  /\ participant' = 0
  /\ IF attempts < MaxRetries
     THEN /\ job' = "queued"
          /\ attempts' = attempts + 1
          /\ UNCHANGED <<esc, activeJoin, joined>>
     ELSE /\ job' = "none"
          /\ activeJoin' = FALSE
          /\ joined' = FALSE
          /\ UNCHANGED <<attempts, esc>>

\* Mutant: the attempts that fail are not counted.
AttemptFailsUncounted ==
  /\ found' = FALSE
  /\ participant' = 0
  /\ job' = "queued"
  /\ UNCHANGED <<esc, activeJoin, attempts, joined>>

\* The attempt is rejected: the queue tries again, or onExhausted marks the
\* escalation FAILED.  If that transaction fails, activeJoinJobs keeps it.
AttemptFails ==
  /\ found' = FALSE
  /\ participant' = 0
  /\ \/ /\ attempts < MaxRetries
        /\ job' = "queued"
        /\ attempts' = attempts + 1
        /\ UNCHANGED <<esc, activeJoin, joined>>
     \/ /\ attempts = MaxRetries
        /\ job' = "none"
        /\ joined' = FALSE
        /\ UNCHANGED attempts
        /\ \/ /\ esc' = IF esc = "DIALING_HUMAN" THEN "FAILED" ELSE esc
              /\ activeJoin' = FALSE
           \/ "storage" \in Faults /\ UNCHANGED <<esc, activeJoin>>

JoinStillActive == esc = "DIALING_HUMAN" /\ call = "IN_PROGRESS"

\* Mutant: a tried-again job takes the human it dialled before for joined.
StartJobTrusting ==
  /\ job = "queued"
  /\ IF JoinStillActive
     THEN /\ job' = IF joined \/ completed \/ ConferenceActive THEN "recording" ELSE "finding"
          /\ joined' = (job' = "recording")
          /\ UNCHANGED <<esc, activeJoin, attempts, found, participant>>
     ELSE AttemptFails
  /\ UNCHANGED <<call, completed, restarts, providerVars>>

\* Mutant: the job does not look whether the call goes on.
StartJobUnchecked ==
  /\ job = "queued"
  /\ esc = "DIALING_HUMAN"
  /\ job' = IF joined \/ completed THEN "recording" ELSE "finding"
  /\ joined' = (joined \/ completed)
  /\ UNCHANGED <<esc, activeJoin, attempts, found, participant>>
  /\ UNCHANGED <<call, completed, restarts, providerVars>>

\* The queue has come to the job: assertJoinStillActive.  A join that was made
\* before, or that the gateway remembers, only has to be recorded.
StartJob ==
  /\ job = "queued"
  /\ IF JoinStillActive
     THEN /\ job' = IF joined \/ completed THEN "recording" ELSE "finding"
          /\ joined' = (joined \/ completed)
          /\ UNCHANGED <<esc, activeJoin, attempts, found, participant>>
     ELSE AttemptFails
  /\ UNCHANGED <<call, completed, restarts, providerVars>>

\* findActiveConference.
FindConference ==
  /\ job = "finding"
  /\ found' = ConferenceActive
  /\ job' = IF ConferenceActive THEN "listing" ELSE "adding"
  /\ UNCHANGED <<esc, call, activeJoin, attempts, participant, joined>>
  /\ UNCHANGED <<completed, restarts, providerVars>>

\* findParticipantByLabel: any participant that was called for the escalation.
FindParticipant ==
  /\ job = "listing"
  /\ \/ /\ ConferenceActive
        /\ participant' \in Participants
        /\ job' = "waiting"
     \/ /\ ~ ConferenceActive \/ Participants = {}
        /\ job' = "adding"
        /\ UNCHANGED participant
  /\ UNCHANGED <<esc, call, activeJoin, attempts, found, joined>>
  /\ UNCHANGED <<completed, restarts, providerVars>>

\* Mutant: the carrier is moved as soon as the phone rings.
AddParticipantAndGo ==
  /\ job = "adding"
  /\ found => ConferenceActive
  /\ \E l \in Legs :
       /\ leg[l] = "none" /\ \A k \in 1..(l - 1) : leg[k] # "none"
       /\ leg' = [leg EXCEPT ![l] = "ringing"]
       /\ participant' = l
       /\ job' = "redirecting"
  /\ UNCHANGED <<esc, activeJoin, attempts, found, joined>>
  /\ UNCHANGED <<call, completed, restarts, carrier>>

\* addParticipant: the human's phone rings.  A conference that has ended since
\* it was found takes no participant.
AddParticipant ==
  /\ job = "adding"
  /\ found => ConferenceActive
  /\ \E l \in Legs :
       /\ leg[l] = "none" /\ \A k \in 1..(l - 1) : leg[k] # "none"
       /\ leg' = [leg EXCEPT ![l] = "ringing"]
       /\ \/ /\ participant' = l
             /\ job' = "waiting"
             /\ UNCHANGED <<esc, activeJoin, attempts, found, joined>>
          \/ "lostReply" \in Faults /\ AttemptFails
  /\ UNCHANGED <<call, completed, restarts, carrier>>

\* waitForHumanAnswer sees the answer.  The answer to addParticipant may name
\* the conference or not; a conference that was found need not be discovered.
SeesAnswer ==
  /\ job = "waiting"
  /\ leg[participant] = "talking"
  /\ \/ job' = "redirecting"
     \/ ~ found /\ job' = "discovering"
  /\ UNCHANGED <<esc, call, activeJoin, attempts, found, participant, joined>>
  /\ UNCHANGED <<completed, restarts, providerVars>>

\* waitForHumanAnswer sees that the human is not coming, or has no attempts
\* left while the phone still rings; it does not hang up.
GivesUpWaiting ==
  /\ job = "waiting"
  /\ leg[participant] # "talking"
  /\ AttemptFails
  /\ UNCHANGED <<call, completed, restarts, providerVars>>

\* discoverConference: it is there, or the attempts run out.
Discover ==
  /\ job = "discovering"
  /\ \/ /\ ConferenceActive
        /\ found' = TRUE
        /\ job' = "redirecting"
        /\ UNCHANGED <<esc, activeJoin, attempts, participant, joined>>
     \/ ~ ConferenceActive /\ AttemptFails
  /\ UNCHANGED <<call, completed, restarts, providerVars>>

\* redirectCall: the carrier leaves the agent for the conference.  Its answer
\* is on its way until the join is recorded.
Redirect ==
  /\ job = "redirecting"
  /\ carrier \in {"agent", "conference"}
  /\ carrier' = "conference"
  /\ \/ /\ job' = "recording"
        /\ joined' = TRUE
        /\ completed' = TRUE
        /\ UNCHANGED <<esc, activeJoin, attempts, found, participant>>
     \/ /\ "lostReply" \in Faults
        /\ AttemptFails
        /\ UNCHANGED completed
  /\ UNCHANGED <<call, restarts, leg>>

\* A request is refused.
RequestFails ==
  /\ job \in {"finding", "listing", "adding", "waiting", "discovering", "redirecting"}
  /\ AttemptFails
  /\ UNCHANGED <<call, completed, restarts, providerVars>>

\* markHumanJoined, and the end of the job.
Record ==
  /\ job = "recording"
  /\ \/ /\ esc \in {"DIALING_HUMAN", "HUMAN_JOINED"}
        /\ esc' = "HUMAN_JOINED"
        /\ activeJoin' = FALSE
        /\ job' = "none"
        /\ found' = FALSE
        /\ participant' = 0
        /\ joined' = FALSE
        /\ UNCHANGED attempts
     \/ /\ esc \notin {"DIALING_HUMAN", "HUMAN_JOINED"} \/ "storage" \in Faults
        /\ AttemptFails
  /\ UNCHANGED <<call, completed, restarts, providerVars>>

\* The queue, its marks and the gateway's are in memory; calls go on.
Restart ==
  /\ restarts < MaxRestarts
  /\ restarts' = restarts + 1
  /\ activeJoin' = FALSE
  /\ job' = "none"
  /\ attempts' = 0
  /\ found' = FALSE
  /\ participant' = 0
  /\ joined' = FALSE
  /\ completed' = FALSE
  /\ UNCHANGED <<esc, call, providerVars>>

-----------------------------------------------------------------------------
Job ==
  \/ StartJob
  \/ FindConference
  \/ FindParticipant
  \/ AddParticipant
  \/ SeesAnswer
  \/ GivesUpWaiting
  \/ Discover
  \/ Redirect
  \/ RequestFails
  \/ Record

Provider ==
  \/ \E l \in Legs : HumanAnswers(l) \/ HumanMisses(l) \/ HumanLeaves(l)
  \/ CarrierHangsUp
  \/ CallEnds

Next == JoinHuman \/ Job \/ Provider \/ Restart

Spec == Init /\ [][Next]_vars

\* Every request to the provider is answered or fails, polling is bounded, and
\* the queue comes to every job; nobody need answer, hang up or ask again.
FairSpec == Spec /\ WF_vars(Job)

-----------------------------------------------------------------------------
\* Every variable has a value of its kind.
TypeOK ==
  /\ esc \in {"REQUESTED", "DIALING_HUMAN", "HUMAN_JOINED", "FAILED"}
  /\ call \in {"IN_PROGRESS", "ENDED"}
  /\ activeJoin \in BOOLEAN
  /\ job \in JobPhase
  /\ attempts \in 0..MaxRetries
  /\ found \in BOOLEAN
  /\ participant \in Legs \cup {0}
  /\ joined \in BOOLEAN
  /\ completed \in BOOLEAN
  /\ restarts \in 0..MaxRestarts
  /\ carrier \in {"agent", "conference", "gone", "left"}
  /\ leg \in [Legs -> LegStatus]

Redirected == carrier \in {"conference", "left"}

\* The carrier is taken from the agent only once a human has answered, at
\* whatever attempt and after whatever failures ("so a busy/no-answer operator
\* cannot strand the carrier in an empty conference", lines 51-55).
CarrierMetByHuman == Redirected => Answered # {}

\* HUMAN_JOINED says that a human answered and that the carrier was brought to
\* them, not that a call to the human was made.
JoinedMeansReached == esc = "HUMAN_JOINED" => Answered # {} /\ Redirected

\* An escalation that is being dialled has a job at work on it, whatever the
\* human, the carrier and the provider do.  Only a restart leaves it without one,
\* and then it may be asked for again; or a failure that could not be recorded,
\* and then it may not (activeJoinJobs, markHumanJoinFailed).
NotAbandoned ==
  esc = "DIALING_HUMAN" /\ job = "none" =>
    \/ ~ activeJoin /\ restarts > 0
    \/ activeJoin /\ "storage" \in Faults

\* A join that is being done ends with the human joined or the escalation
\* FAILED, whatever the human and the provider do; unless the process restarts,
\* or that very failure cannot be recorded.
JoinSettles ==
  \A n \in 0..MaxRestarts :
    (restarts = n /\ job # "none") ~>
      (esc # "DIALING_HUMAN" \/ restarts # n \/ (job = "none" /\ activeJoin))

\* Exactly one call to the human is made for a join: never two at a time.
OneHumanLeg == \A k, l \in Participants : k = l

\* Every step is one of the steps the join has in HumanEscalation, for one
\* escalation of one call, or a restart, which empties the queue.
E == 1
join == [e \in {E} |-> IF job \in {"none", "queued"} THEN job ELSE "dialling"]
HE == INSTANCE HumanEscalation WITH
  Carriers <- {}, Campaigns <- {}, Commitments <- {}, Escalations <- {E},
  Calls <- {E}, Offers <- {}, MandateTerms <- {}, MaxMandates <- 1, None <- 0,
  op <- "ESCALATED", selected <- 0, version <- 1, allows <- <<>>,
  campaign <- <<>>, winner <- <<>>, neg <- <<>>, quote <- <<>>,
  commitment <- <<>>, terms <- <<>>, evidence <- {}, recap <- <<>>, texted <- {},
  esc <- [e \in {E} |-> esc],
  prev <- [e \in {E} |-> "SOURCING"],
  escCall <- [e \in {E} |-> E],
  call <- [l \in {E} |-> call]

ImplementsJoin ==
  [][ \/ HE!JoinHuman(E)
      \/ HE!StartJoin(E)
      \/ HE!HumanJoins(E)
      \/ HE!JoinFails(E)
      \/ HE!CallEnds(E)
      \/ job' = "none" /\ UNCHANGED <<esc, call>> ]_<<esc, call, join>>
=============================================================================
