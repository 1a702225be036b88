---------------------------- MODULE DealLifecycle ----------------------------
(***************************************************************************)
(* One freight operation from its creation to its delivery: the operator,  *)
(* the market, the closing and the escalations acting on the same rows, in *)
(* any order the HTTP routes, the voice agent and the queues produce.      *)
(* Node runs one transaction at a time, so an action is a transaction, or  *)
(* what runs between two waits for the outside world.                      *)
(***************************************************************************)
EXTENDS Operations, Sourcing, Closing, HumanEscalation

\* The process dies and is started again: what was only in memory is gone.
Restart ==
  /\ recap' = [i \in Commitments |-> "none"]
  /\ join' = [e \in Escalations |-> "none"]
  /\ UNCHANGED <<operationVars, campaignVars, mandateVars, commitmentVars>>
  /\ UNCHANGED <<texted, esc, prev, escCall, call>>

Operator ==
  \/ CancelOperation
  \/ \E A \in MandateTerms : CreateMandateVersion(A)

Market ==
  \/ \E c \in Campaigns, S \in SUBSET Carriers :
       StartCampaign(c, S) \/ StartCampaignFails(c, S)
  \/ \E c \in Campaigns, k \in Carriers :
       \/ \E t \in {"CALLING", "NEGOTIATING", "NO_ANSWER", "REFUSED"} : NegotiationEvent(c, k, t)
       \/ EvaluateOffer(c, k)
       \/ \E o \in Offers : SaveQuote(c, k, o)
       \/ SelectQuote(c, k)
  \/ \E c \in Campaigns : NoEligibleQuotes(c)

Close ==
  \/ \E i \in Commitments, c \in Campaigns : Authorize(i, c)
  \/ \E i \in Commitments :
       \/ RecordVerbalAgreement(i)
       \/ AttachEvidence(i)
       \/ EnqueueSummary(i)
       \/ StartSummary(i)
       \/ ProviderAccepts(i)
       \/ ProviderFails(i)
       \/ MarkSummarySent(i)
       \/ MarkValid(i)
       \/ ConfirmPickup(i)
       \/ ConfirmDelivery(i)

Escalate ==
  \/ \E l \in Calls : CallStarts(l) \/ CallEnds(l)
  \/ \E e \in Escalations, l \in Calls : RequestEscalation(e, l)
  \/ \E e \in Escalations :
       \/ JoinHuman(e)
       \/ StartJoin(e)
       \/ HumanJoins(e)
       \/ JoinFails(e)
       \/ ResolveEscalation(e)

Next == Operator \/ Market \/ Close \/ Escalate \/ Restart

Spec == Init /\ [][Next]_vars

-----------------------------------------------------------------------------
(* The escalation that parked the operation, and the status it stands for. *)

Unresolved == ActiveEscalation \cup {"FAILED"}

\* Unresolved escalations that were requested while the operation was not yet
\* escalated.
Roots == {e \in Escalations : esc[e] \in Unresolved /\ prev[e] # "ESCALATED"}

\* The operation stands at s: it is there, or is parked and will go back to s.
StandsAt(s) ==
  \/ op = s /\ op # "ESCALATED"
  \/ op = "ESCALATED" /\ \E e \in Roots : prev[e] = s

-----------------------------------------------------------------------------
(* Invariants.                                                             *)

\* Every row holds values its table allows.
TypeOK ==
  /\ op \in OperationStatus
  /\ selected \in Carriers \cup {None}
  /\ version \in Versions
  /\ allows \in [Versions -> SUBSET Offers]
  /\ campaign \in [Campaigns -> CampaignStatus]
  /\ winner \in [Campaigns -> Carriers \cup {None}]
  /\ neg \in [Campaigns -> [Carriers -> NegotiationStatus]]
  /\ quote \in [Campaigns -> [Carriers -> Quotes \cup {NoQuote}]]
  /\ commitment \in [Commitments -> CommitmentStatus]
  /\ terms \in [Commitments -> Terms \cup {NoTerms}]
  /\ evidence \subseteq Commitments
  /\ recap \in [Commitments -> RecapPhase]
  /\ texted \subseteq Commitments
  /\ esc \in [Escalations -> EscalationStatus]
  /\ prev \in [Escalations -> OperationStatus]
  /\ escCall \in [Escalations -> Calls \cup {None}]
  /\ join \in [Escalations -> JoinPhase]
  /\ call \in [Calls -> CallStatus]

\* However escalations overlap, one of them, and only one, knows the status
\* the operation goes back to, and it is never a final one; an operation that
\* is not escalated, and not cancelled, has no such escalation pending.
EscalationNesting ==
  /\ op = "ESCALATED" => \E e \in Roots : Roots = {e}
  /\ op \notin {"ESCALATED", "CANCELLED"} => Roots = {}
  /\ \A e \in Roots : prev[e] \notin Closed

\* The load is never promised twice: one commitment at most is active or
\* fulfilled, across campaigns, mandates, escalations and retried recaps.
SingleLiveDeal ==
  \A i, j \in Commitments :
    /\ commitment[i] \in ActiveCommitment \cup {"FULFILLED"}
    /\ commitment[j] \in ActiveCommitment \cup {"FULFILLED"}
    => i = j

\* Commitments at status s and operations that stand at t go together.
Backed(s, t) ==
  /\ \A i \in Commitments : commitment[i] = s => StandsAt(t) /\ selected = terms[i].carrier
  /\ StandsAt(t) => \E i \in Commitments : commitment[i] = s

\* The commitment and the operation move together: a commitment that is VALID,
\* being executed or fulfilled is the one of an operation that stands at
\* BOOKED, IN_TRANSIT or COMPLETED, with that commitment's carrier, and an
\* operation that stands there has one.  An escalation never breaks the pair.
StageBacked ==
  /\ Backed("VALID", "BOOKED")
  /\ Backed("IN_EXECUTION", "IN_TRANSIT")
  /\ Backed("FULFILLED", "COMPLETED")

\* While the market is open the operation stands at SOURCING, one campaign is
\* open and nothing is being closed; while a commitment is being closed the
\* operation stands at SOURCING and the market is shut.
MarketOrClosing ==
  /\ \A c, d \in OpenCampaigns : c = d
  /\ OpenCampaigns # {} => StandsAt("SOURCING") /\ ActiveCommitments = {}
  /\ \A i \in Commitments : commitment[i] \in PreBooking => StandsAt("SOURCING")

\* A commitment repeats the winning quote of its campaign, which no later
\* revision replaces, and a winner leaves no other negotiation standing.
WinnerExclusive ==
  /\ \A c \in Campaigns : campaign[c] = "COMPLETED" =>
       /\ winner[c] \in Invited(neg, c)
       /\ neg[c][winner[c]] = "SELECTED"
       /\ \A k \in Invited(neg, c) \ {winner[c]} : neg[c][k] = "REJECTED"
  /\ \A i \in Commitments : commitment[i] # "ABSENT" =>
       LET t == terms[i] IN
       /\ t \in Terms
       /\ campaign[t.campaign] = "COMPLETED"
       /\ winner[t.campaign] = t.carrier
       /\ quote[t.campaign][t.carrier] =
            [offer |-> t.offer, mandate |-> t.mandate, valid |-> TRUE]

\* No commitment is made on terms its mandate does not allow, and no quote is
\* valid against a mandate other than the one it was saved under.
WithinMandate ==
  /\ \A c \in Campaigns, k \in Carriers : quote[c][k].valid =>
       /\ quote[c][k].mandate <= version
       /\ quote[c][k].offer \in allows[quote[c][k].mandate]
  /\ \A i \in Commitments : commitment[i] # "ABSENT" =>
       terms[i].offer \in allows[terms[i].mandate]

\* No recap is sent without evidence of the agreement, and a commitment says
\* its recap is sent, or is valid, only if the provider took it: not after a
\* lost answer, a restart, or a retry.
EvidenceBacked ==
  /\ \A i \in Commitments :
       /\ commitment[i] \in {"SUMMARY_PENDING", "SUMMARY_SENT", "VALID", "IN_EXECUTION",
                             "FULFILLED"} => i \in evidence
       /\ commitment[i] \in {"SUMMARY_SENT", "VALID", "IN_EXECUTION", "FULFILLED"} =>
            i \in texted
  /\ texted \subseteq evidence

-----------------------------------------------------------------------------
(* What the invariants above need to be inductive.                         *)

\* A selected carrier is forgotten before the market opens again.
NobodySelected ==
  (OpenCampaigns # {} \/ \E s \in Startable : StandsAt(s)) => selected = None

\* Only an invited carrier has a quote.
QuotesOfInvited ==
  \A c \in Campaigns, k \in Carriers : quote[c][k] # NoQuote =>
    campaign[c] # "ABSENT" /\ neg[c][k] # "ABSENT"

\* The recap queue only ever holds commitments with evidence, and it records
\* an acceptance only of what the provider took.
RecapBacked ==
  \A i \in Commitments :
    /\ recap[i] # "none" => i \in evidence
    /\ recap[i] = "accepted" => i \in texted

\* Together: true initially, kept by every step, and stronger than each part.
DealInv ==
  /\ TypeOK
  /\ EscalationNesting
  /\ SingleLiveDeal
  /\ StageBacked
  /\ MarketOrClosing
  /\ WinnerExclusive
  /\ WithinMandate
  /\ EvidenceBacked
  /\ NobodySelected
  /\ QuotesOfInvited
  /\ RecapBacked

-----------------------------------------------------------------------------
(* Action properties and refinement.                                       *)

Progress ==
  <<"ABSENT", "PROPOSED", "MANDATE_VALIDATED", "SUMMARY_PENDING", "SUMMARY_SENT", "VALID",
    "IN_EXECUTION", "FULFILLED">>

\* A commitment is taken through its statuses one at a time and in order, or
\* is cancelled, and a cancelled or fulfilled one is never touched again.
CommitmentStep ==
  \A i \in Commitments : commitment'[i] # commitment[i] =>
    \/ commitment[i] \in ActiveCommitment /\ commitment'[i] = "CANCELLED"
    \/ \E n \in 1..7 : commitment[i] = Progress[n] /\ commitment'[i] = Progress[n + 1]

CommitmentsOnlyAdvance == [][CommitmentStep]_vars

\* What an operation that is booked is seen as from outside.
InForce == {i \in Commitments : commitment[i] \in {"VALID", "IN_EXECUTION", "FULFILLED"}}

DealStage ==
  IF op = "CANCELLED" THEN "CANCELLED"
  ELSE IF \E i \in Commitments : commitment[i] = "FULFILLED" THEN "COMPLETED"
  ELSE IF \E i \in Commitments : commitment[i] = "IN_EXECUTION" THEN "IN_TRANSIT"
  ELSE IF \E i \in Commitments : commitment[i] = "VALID" THEN "BOOKED"
  ELSE "OPEN"

DealsMade == {[carrier |-> terms[i].carrier, offer |-> terms[i].offer] : i \in InForce}

Contract == INSTANCE DealContract WITH
  stage <- DealStage, deals <- DealsMade, authority <- allows[version]

\* The whole operation implements the contract a customer relies on.
KeepsContract == Contract!ContractSpec
=============================================================================
