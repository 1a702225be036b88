------------------------- MODULE DealContractProofs -------------------------
(***************************************************************************)
(* What the steps of DealLifecycle may do to a commitment, and that they   *)
(* implement DealContract: each is a step of the contract or leaves what   *)
(* the contract speaks of alone.                                           *)
(***************************************************************************)
EXTENDS DealLifecycleProofs

-----------------------------------------------------------------------------
(* Commitments only advance.                                               *)

LEMMA ProgressSteps ==
  ASSUME NEW s, NEW t,
         \/ s = "ABSENT" /\ t = "PROPOSED"
         \/ s = "PROPOSED" /\ t = "MANDATE_VALIDATED"
         \/ s = "MANDATE_VALIDATED" /\ t = "SUMMARY_PENDING"
         \/ s = "SUMMARY_PENDING" /\ t = "SUMMARY_SENT"
         \/ s = "SUMMARY_SENT" /\ t = "VALID"
         \/ s = "VALID" /\ t = "IN_EXECUTION"
         \/ s = "IN_EXECUTION" /\ t = "FULFILLED"
  PROVE  \E n \in 1..7 : s = Progress[n] /\ t = Progress[n + 1]
<1>1. /\ Progress[1] = "ABSENT" /\ Progress[2] = "PROPOSED"
      /\ Progress[3] = "MANDATE_VALIDATED" /\ Progress[4] = "SUMMARY_PENDING"
      /\ Progress[5] = "SUMMARY_SENT" /\ Progress[6] = "VALID"
      /\ Progress[7] = "IN_EXECUTION" /\ Progress[8] = "FULFILLED"
  BY DEF Progress
<1> QED
  BY <1>1

\* One commitment goes from s to the status after s.
LEMMA OneAdvances ==
  ASSUME TypeOK, NEW i \in Commitments, NEW s, NEW t,
         commitment[i] = s, commitment' = [commitment EXCEPT ![i] = t],
         \E n \in 1..7 : s = Progress[n] /\ t = Progress[n + 1]
  PROVE  CommitmentStep
BY DEF TypeOK, CommitmentStep

\* Some active commitments are cancelled.
LEMMA SomeCancelled ==
  ASSUME TypeOK, NEW X \in SUBSET ActiveCommitment, commitment' = CancelCommitments(X)
  PROVE  CommitmentStep
BY DEF TypeOK, CommitmentStep, CancelCommitments

LEMMA AdvanceStep == DealInv /\ [Next]_vars => CommitmentStep
<1> SUFFICES ASSUME DealInv, [Next]_vars PROVE CommitmentStep
  OBVIOUS
<1>1. TypeOK
  BY DEF DealInv
<1>2. CASE UNCHANGED commitment
  BY <1>2 DEF CommitmentStep
<1>3. CASE Operator
  <2>1. ASSUME CancelOperation PROVE CommitmentStep
    BY <1>1, <2>1, SomeCancelled DEF CancelOperation
  <2>2. ASSUME NEW A \in MandateTerms, CreateMandateVersion(A) PROVE CommitmentStep
    BY <1>1, <1>2, <2>2, SomeCancelled DEF CreateMandateVersion, ActiveCommitment
  <2> QED
    BY <1>3, <2>1, <2>2 DEF Operator
<1>4. CASE Market
  <2>1. ASSUME NEW c \in Campaigns, NEW S \in SUBSET Carriers,
               StartCampaign(c, S) \/ StartCampaignFails(c, S)
        PROVE  UNCHANGED commitment
    BY <2>1 DEF StartCampaign, StartCampaignFails, commitmentVars
  <2>2. ASSUME NEW c \in Campaigns, NEW k \in Carriers, NEW t,
               NegotiationEvent(c, k, t) \/ EvaluateOffer(c, k) \/ SelectQuote(c, k)
        PROVE  UNCHANGED commitment
    BY <2>2 DEF NegotiationEvent, EvaluateOffer, SelectQuote, commitmentVars
  <2>3. ASSUME NEW c \in Campaigns, NEW k \in Carriers, NEW o \in Offers, SaveQuote(c, k, o)
        PROVE  UNCHANGED commitment
    BY <2>3 DEF SaveQuote, commitmentVars
  <2>4. ASSUME NEW c \in Campaigns, NoEligibleQuotes(c)
        PROVE  UNCHANGED commitment
    BY <2>4 DEF NoEligibleQuotes, commitmentVars
  <2> QED
    BY <1>2, <1>4, <2>1, <2>2, <2>3, <2>4 DEF Market
<1>5. ASSUME NEW i \in Commitments, NEW c \in Campaigns, Authorize(i, c)
      PROVE  CommitmentStep
  <2>1. commitment[i] = "ABSENT" /\ commitment' = [commitment EXCEPT ![i] = "PROPOSED"]
    BY <1>5 DEF Authorize
  <2>2. \E n \in 1..7 : "ABSENT" = Progress[n] /\ "PROPOSED" = Progress[n + 1]
    BY ProgressSteps
  <2> QED
    BY <1>1, <2>1, <2>2, OneAdvances
<1>6. ASSUME NEW i \in Commitments,
             RecordVerbalAgreement(i) \/ EnqueueSummary(i) \/ MarkSummarySent(i) \/ MarkValid(i)
             \/ ConfirmPickup(i) \/ ConfirmDelivery(i)
      PROVE  CommitmentStep
  BY SMTT(30), <1>1, <1>2, <1>6, OneAdvances, ProgressSteps
  DEF RecordVerbalAgreement, EnqueueSummary, SummaryRequested, MarkSummarySent, MarkValid,
      ConfirmPickup, ConfirmDelivery
<1>7. ASSUME NEW i \in Commitments,
             AttachEvidence(i) \/ StartSummary(i) \/ ProviderAccepts(i) \/ ProviderFails(i)
      PROVE  CommitmentStep
  BY <1>2, <1>7 DEF AttachEvidence, StartSummary, ProviderAccepts, ProviderFails, commitmentVars
<1>8. CASE Escalate
  BY <1>2, <1>8 DEF Escalate, CallStarts, CallEnds, RequestEscalation, JoinHuman, StartJoin,
                    HumanJoins, JoinFails, ResolveEscalation, commitmentVars
<1>9. CASE Restart
  BY <1>2, <1>9 DEF Restart, commitmentVars
<1>10. CASE UNCHANGED vars
  BY <1>2, <1>10 DEF vars
<1>11. CASE Close
  BY <1>5, <1>6, <1>7, <1>11 DEF Close
<1> QED
  BY <1>3, <1>4, <1>8, <1>9, <1>10, <1>11 DEF Next

\* No handler takes a commitment back, skips a stage of it, or touches one
\* that is cancelled or fulfilled.
THEOREM OnlyAdvance == Spec => CommitmentsOnlyAdvance
<1>1. DealInv /\ [Next]_vars => [CommitmentStep]_vars
  BY AdvanceStep
<1> QED
  BY <1>1, Invariance, PTL DEF Spec, CommitmentsOnlyAdvance

-----------------------------------------------------------------------------
(* The lifecycle implements the contract.                                  *)

\* What commitments are in force, by the status the operation stands at.
LEMMA InForceStands ==
  ASSUME DealInv
  PROVE  /\ \A i \in InForce : \E s \in {"BOOKED", "IN_TRANSIT", "COMPLETED"} : StandsAt(s)
         /\ \A i \in Commitments : commitment[i] = "FULFILLED" => op = "COMPLETED"
         /\ op \notin {"COMPLETED", "CANCELLED"} => DealStage \in {"OPEN", "BOOKED", "IN_TRANSIT"}
<1>1. \A i \in InForce : \E s \in {"BOOKED", "IN_TRANSIT", "COMPLETED"} : StandsAt(s)
  BY DEF DealInv, StageBacked, Backed, InForce
<1>2. \A i \in Commitments : commitment[i] = "FULFILLED" => op = "COMPLETED"
  BY DEF DealInv, StageBacked, Backed, StandsAt, EscalationNesting, Closed
<1>3. op \notin {"COMPLETED", "CANCELLED"} => DealStage \in {"OPEN", "BOOKED", "IN_TRANSIT"}
  BY <1>2 DEF DealStage
<1> QED
  BY <1>1, <1>2, <1>3

\* A step that changes no commitment in force, and no authority, is invisible
\* to the contract.
LEMMA Invisible ==
  ASSUME op = "CANCELLED" <=> op' = "CANCELLED", UNCHANGED <<version, allows>>,
         \A i \in Commitments : \A s \in {"VALID", "IN_EXECUTION", "FULFILLED"} :
           /\ commitment'[i] = s <=> commitment[i] = s
           /\ commitment[i] = s => terms'[i] = terms[i]
  PROVE  UNCHANGED Contract!dealVars
<1>1. InForce' = InForce
  BY DEF InForce
<1>2. DealsMade' = DealsMade
  BY <1>1 DEF DealsMade, InForce
<1>3. DealStage' = DealStage
  BY DEF DealStage
<1> QED
  BY <1>2, <1>3 DEF Contract!dealVars

LEMMA BookStep ==
  ASSUME DealInv, DealInv', NEW i \in Commitments, MarkValid(i), commitment' # commitment
  PROVE  Contract!Book
<1>1. /\ commitment[i] = "SUMMARY_SENT" /\ ContextHolds(i) /\ op = "SOURCING" /\ op' = "BOOKED"
      /\ commitment' = [commitment EXCEPT ![i] = "VALID"]
      /\ UNCHANGED <<version, allows, terms>>
  BY DEF MarkValid, ContextHolds, mandateVars
<1>2. InForce = {}
  BY <1>1, InForceStands DEF StandsAt
<1>3. InForce' = {i}
  BY <1>1, <1>2 DEF DealInv, TypeOK, InForce
<1> DEFINE d == [carrier |-> terms[i].carrier, offer |-> terms[i].offer]
<1>4. DealsMade' = {d}
  BY <1>1, <1>3 DEF DealsMade
<1>5. terms[i] \in Terms /\ terms[i].offer \in allows[version]
  BY <1>1 DEF DealInv, WinnerExclusive, WithinMandate, ContextHolds
<1>6. d \in Contract!Deals /\ d.offer \in allows[version]
  BY <1>5 DEF Contract!Deals, Terms
<1>7. DealStage = "OPEN" /\ DealStage' = "BOOKED"
  <2>1. DealStage = "OPEN"
    BY <1>1, <1>2 DEF DealStage, InForce
  <2>2. \A j \in Commitments : commitment'[j] \notin {"FULFILLED", "IN_EXECUTION"}
    BY <1>1, <1>2 DEF DealInv, TypeOK, InForce
  <2>3. commitment'[i] = "VALID"
    BY <1>1 DEF DealInv, TypeOK
  <2> QED
    BY <1>1, <2>1, <2>2, <2>3 DEF DealStage
<1> QED
  BY <1>1, <1>4, <1>6, <1>7 DEF Contract!Book

LEMMA ExecutionStep ==
  ASSUME DealInv, DealInv', NEW i \in Commitments, ConfirmPickup(i) \/ ConfirmDelivery(i)
  PROVE  Contract!Depart \/ Contract!Deliver
<1>1. UNCHANGED <<version, allows, terms>>
  BY DEF ConfirmPickup, ConfirmDelivery, mandateVars
<1>2. \A j \in Commitments \ {i} : j \notin InForce /\ j \notin InForce'
  BY DEF DealInv, TypeOK, SingleLiveDeal, InForce, ActiveCommitment, ConfirmPickup,
         ConfirmDelivery
<1>3. i \in InForce /\ i \in InForce'
  BY DEF DealInv, TypeOK, InForce, ConfirmPickup, ConfirmDelivery
<1>4. InForce' = InForce /\ DealsMade' = DealsMade
  <2>1. InForce' = InForce
    BY <1>2, <1>3 DEF InForce
  <2> QED
    BY <1>1, <2>1 DEF DealsMade
<1>5. CASE ConfirmPickup(i)
  <2>1. op = "BOOKED" /\ op' = "IN_TRANSIT" /\ commitment[i] = "VALID"
        /\ commitment'[i] = "IN_EXECUTION"
    BY <1>5 DEF DealInv, TypeOK, ConfirmPickup
  <2>2. DealStage = "BOOKED" /\ DealStage' = "IN_TRANSIT"
    BY <1>2, <2>1 DEF DealStage, InForce
  <2> QED
    BY <1>1, <1>4, <2>2 DEF Contract!Depart
<1>6. CASE ConfirmDelivery(i)
  <2>1. op = "IN_TRANSIT" /\ op' = "COMPLETED" /\ commitment[i] = "IN_EXECUTION"
        /\ commitment'[i] = "FULFILLED"
    BY <1>6 DEF DealInv, TypeOK, ConfirmDelivery
  <2>2. DealStage = "IN_TRANSIT" /\ DealStage' = "COMPLETED"
    BY <1>2, <2>1 DEF DealStage, InForce
  <2> QED
    BY <1>1, <1>4, <2>2 DEF Contract!Deliver
<1> QED
  BY <1>5, <1>6

LEMMA CancelStep ==
  ASSUME DealInv, DealInv', CancelOperation
  PROVE  Contract!Cancel
<1>1. op \notin Closed /\ op' = "CANCELLED" /\ UNCHANGED <<version, allows>>
  BY DEF CancelOperation, mandateVars
<1>2. InForce' = {}
  BY <1>1 DEF DealInv, StageBacked, Backed, InForce, StandsAt
<1>3. DealsMade' = {}
  BY <1>2 DEF DealsMade
<1>4. DealStage' = "CANCELLED" /\ DealStage \in {"OPEN", "BOOKED", "IN_TRANSIT"}
  BY <1>1, InForceStands DEF DealStage, Closed
<1> QED
  BY <1>1, <1>3, <1>4 DEF Contract!Cancel

LEMMA ReauthoriseStep ==
  ASSUME DealInv, DealInv', NEW A \in MandateTerms, CreateMandateVersion(A)
  PROVE  Contract!Reauthorise
<1>1. /\ op \in MutableMandate /\ version' = version + 1 /\ version < MaxMandates
      /\ allows' = [allows EXCEPT ![version + 1] = A] /\ terms' = terms
  BY DEF CreateMandateVersion
<1>2. allows'[version'] \in MandateTerms
  BY <1>1, MaxMandatesAssumption DEF DealInv, TypeOK, Versions
<1>3. DealStage \in {"OPEN", "BOOKED", "IN_TRANSIT"}
  BY <1>1, InForceStands DEF MutableMandate
<1>4. DealStage' = DealStage /\ DealsMade' = DealsMade
  <2>1. CASE Interrupted
    <3>1. Renegotiate /\ commitment' = CancelCommitments(PreBooking \cup {"VALID"})
          /\ UNCHANGED <<esc, escCall>>
      BY <2>1 DEF CreateMandateVersion
    <3>2. \A u : (StandsAt(u) <=> u = "SOURCING") /\ (StandsAt(u)' <=> u = "NEEDS_RENEGOTIATION")
      BY <3>1, RenegotiateStands
    <3>3. InForce = {} /\ InForce' = {}
      BY <3>2 DEF DealInv, StageBacked, Backed, InForce
    <3>4. op # "CANCELLED" /\ op' # "CANCELLED"
      BY <1>1, <3>1 DEF MutableMandate, Renegotiate
    <3>5. DealStage' = DealStage
      BY <3>3, <3>4 DEF DealStage, InForce
    <3> QED
      BY <3>3, <3>5 DEF DealsMade
  <2>2. CASE ~ Interrupted
    <3>1. UNCHANGED <<op, commitment>>
      BY <2>2 DEF CreateMandateVersion, operationVars
    <3> QED
      BY <1>1, <3>1 DEF DealStage, DealsMade, InForce
  <2> QED
    BY <2>1, <2>2
<1> QED
  BY <1>2, <1>3, <1>4 DEF Contract!Reauthorise

\* The market, and the closing of a commitment before it is booked.
LEMMA MarketHidden ==
  ASSUME DealInv, Market
  PROVE  UNCHANGED Contract!dealVars
<1> DEFINE Quiet == /\ UNCHANGED <<mandateVars, commitmentVars>>
                    /\ op = "CANCELLED" <=> op' = "CANCELLED"
<1>1. Quiet
  <2>1. ASSUME NEW c \in Campaigns, NEW S \in SUBSET Carriers,
               StartCampaign(c, S) \/ StartCampaignFails(c, S)
        PROVE  Quiet
    BY <2>1 DEF StartCampaign, StartCampaignFails, CreateCampaign, Startable
  <2>2. ASSUME NEW c \in Campaigns, NEW k \in Carriers, NEW t,
               NegotiationEvent(c, k, t) \/ EvaluateOffer(c, k) \/ SelectQuote(c, k)
        PROVE  Quiet
    BY <2>2 DEF NegotiationEvent, EvaluateOffer, SelectQuote, operationVars
  <2>3. ASSUME NEW c \in Campaigns, NEW k \in Carriers, NEW o \in Offers, SaveQuote(c, k, o)
        PROVE  Quiet
    BY <2>3 DEF SaveQuote, operationVars
  <2>4. ASSUME NEW c \in Campaigns, NoEligibleQuotes(c)
        PROVE  Quiet
    BY <2>4 DEF NoEligibleQuotes, Selectable
  <2> QED
    BY <2>1, <2>2, <2>3, <2>4 DEF Market
<1> QED
  BY <1>1, Invisible DEF mandateVars, commitmentVars

LEMMA EscalateHidden ==
  ASSUME DealInv, Escalate
  PROVE  UNCHANGED Contract!dealVars
<1> DEFINE Quiet == /\ UNCHANGED <<mandateVars, commitmentVars>>
                    /\ op = "CANCELLED" <=> op' = "CANCELLED"
<1>1. Quiet
  <2>1. ASSUME NEW l \in Calls, CallStarts(l) \/ CallEnds(l)
        PROVE  Quiet
    BY <2>1 DEF CallStarts, CallEnds, operationVars
  <2>2. ASSUME NEW e \in Escalations, NEW l \in Calls, RequestEscalation(e, l)
        PROVE  Quiet
    BY <2>2 DEF RequestEscalation, Escalatable
  <2>3. ASSUME NEW e \in Escalations,
               JoinHuman(e) \/ StartJoin(e) \/ HumanJoins(e) \/ JoinFails(e)
        PROVE  Quiet
    BY <2>3 DEF JoinHuman, StartJoin, HumanJoins, JoinFails, operationVars
  <2>4. ASSUME NEW e \in Escalations, ResolveEscalation(e)
        PROVE  Quiet
    <3>1. op = "ESCALATED" /\ op' = prev[e] /\ esc[e] \in Unresolved
          /\ UNCHANGED <<mandateVars, commitmentVars>>
      BY <2>4 DEF ResolveEscalation, Unresolved, ActiveEscalation
    <3>2. prev[e] # "CANCELLED"
      BY <3>1 DEF DealInv, EscalationNesting, Roots, Closed
    <3> QED
      BY <3>1, <3>2
  <2> QED
    BY <2>1, <2>2, <2>3, <2>4 DEF Escalate
<1> QED
  BY <1>1, Invisible DEF mandateVars, commitmentVars

LEMMA ClosingHidden ==
  ASSUME DealInv, NEW i \in Commitments,
         \/ RecordVerbalAgreement(i) \/ AttachEvidence(i) \/ EnqueueSummary(i)
         \/ StartSummary(i) \/ ProviderAccepts(i) \/ ProviderFails(i) \/ MarkSummarySent(i)
         \/ MarkValid(i) /\ commitment' = commitment
         \/ \E c \in Campaigns : Authorize(i, c)
  PROVE  UNCHANGED Contract!dealVars
<1>1. UNCHANGED <<version, allows>> /\ (op = "CANCELLED" <=> op' = "CANCELLED")
  BY DEF RecordVerbalAgreement, AttachEvidence, EnqueueSummary, StartSummary, ProviderAccepts,
         ProviderFails, MarkSummarySent, MarkValid, Authorize, mandateVars, operationVars,
         ContextHolds, DealInv, TypeOK
<1>2. \A j \in Commitments : terms'[j] = terms[j] \/ commitment[j] = "ABSENT"
  BY DEF RecordVerbalAgreement, AttachEvidence, EnqueueSummary, StartSummary, ProviderAccepts,
         ProviderFails, MarkSummarySent, MarkValid, Authorize, commitmentVars, DealInv, TypeOK
<1>3. \/ commitment' = commitment
      \/ /\ commitment[i] \in PreBooking \cup {"ABSENT"}
         /\ \E s \in PreBooking : commitment' = [commitment EXCEPT ![i] = s]
  BY DEF RecordVerbalAgreement, AttachEvidence, EnqueueSummary, SummaryRequested, StartSummary,
         ProviderAccepts, ProviderFails, MarkSummarySent, Authorize, commitmentVars, PreBooking
<1>4. \A j \in Commitments : \A s \in {"VALID", "IN_EXECUTION", "FULFILLED"} :
        commitment'[j] = s <=> commitment[j] = s
  BY <1>3 DEF DealInv, TypeOK, PreBooking
<1> QED
  BY <1>1, <1>2, <1>4, Invisible

LEMMA ContractStep == DealInv /\ DealInv' /\ [Next]_vars => [Contract!ContractNext]_Contract!dealVars
<1> SUFFICES ASSUME DealInv, DealInv', [Next]_vars
             PROVE  Contract!ContractNext \/ UNCHANGED Contract!dealVars
  OBVIOUS
<1> USE DEF Contract!ContractNext
<1>1. CASE Operator
  BY <1>1, CancelStep, ReauthoriseStep DEF Operator
<1>2. CASE Market
  BY <1>2, MarketHidden
<1>3. CASE Close
  <2>1. ASSUME NEW i \in Commitments, MarkValid(i), commitment' # commitment
        PROVE  Contract!ContractNext
    BY <2>1, BookStep
  <2>2. ASSUME NEW i \in Commitments, ConfirmPickup(i) \/ ConfirmDelivery(i)
        PROVE  Contract!ContractNext
    BY <2>2, ExecutionStep
  <2> QED
    BY <1>3, <2>1, <2>2, ClosingHidden DEF Close
<1>4. CASE Escalate
  BY <1>4, EscalateHidden
<1>5. CASE Restart \/ UNCHANGED vars
  BY <1>5, Invisible DEF Restart, vars, operationVars, mandateVars, commitmentVars
<1> QED
  BY <1>1, <1>2, <1>3, <1>4, <1>5 DEF Next

\* The whole operation, with its market, recap queue and escalations, is an
\* implementation of the contract: one deal, made under the mandate of the
\* moment and kept until the load is delivered or the operation cancelled.
THEOREM Implementation == Spec => KeepsContract
<1>1. Init => Contract!ContractInit
  <2> SUFFICES ASSUME Init PROVE Contract!ContractInit
    OBVIOUS
  <2>1. InForce = {}
    BY DEF Init, InForce
  <2>2. DealStage = "OPEN" /\ DealsMade = {}
    BY <2>1 DEF Init, DealStage, DealsMade, InForce
  <2>3. allows[version] \in MandateTerms
    BY MaxMandatesAssumption DEF Init, Versions
  <2> QED
    BY <2>2, <2>3 DEF Contract!ContractInit
<1>2. DealInv /\ DealInv' /\ [Next]_vars => [Contract!ContractNext]_Contract!dealVars
  BY ContractStep
<1> QED
  BY <1>1, <1>2, Invariance, PTL DEF Spec, KeepsContract, Contract!ContractSpec
-----------------------------------------------------------------------------
(* What the contract means for whoever relies on a deal.                   *)

\* A deal is made out of nothing, on an offer allowed at that moment, and one
\* that has been made is kept as it is until it is delivered or cancelled.
DealKept ==
  /\ DealsMade # {} => DealsMade' = DealsMade \/ DealStage' = "CANCELLED"
  /\ \A d \in DealsMade' \ DealsMade : d.offer \in allows[version] /\ DealsMade' = {d}

LEMMA OpenMeansNoDeal == DealStage = "OPEN" => DealsMade = {}
BY DEF DealStage, DealsMade, InForce

\* The carrier and the terms of a deal in force outlive every new mandate,
\* escalation, late report and retried recap.
THEOREM DealIsKept == Spec => [][DealKept]_vars
<1>1. ASSUME DealInv, DealInv', [Next]_vars PROVE DealKept
  <2>1. CASE UNCHANGED Contract!dealVars
    BY <2>1 DEF Contract!dealVars, DealKept
  <2>2. CASE Contract!Book
    BY <2>2, OpenMeansNoDeal DEF Contract!Book, DealKept
  <2>3. CASE Contract!Depart \/ Contract!Deliver \/ Contract!Cancel \/ Contract!Reauthorise
    BY <2>3 DEF Contract!Depart, Contract!Deliver, Contract!Cancel, Contract!Reauthorise, DealKept
  <2> QED
    BY <1>1, <2>1, <2>2, <2>3, ContractStep DEF Contract!ContractNext
<1> QED
  BY <1>1, Invariance, PTL DEF Spec

\* An operation that is over keeps its stage, its deal and its mandate.
StaysOver ==
  DealStage \in {"COMPLETED", "CANCELLED"} => UNCHANGED <<DealStage, DealsMade, allows[version]>>

\* A load that is delivered, or an operation that is cancelled, stays so, whatever
\* is still queued, dialled or said about it: nothing touches it again.
THEOREM OverForGood == Spec => [][StaysOver]_vars
<1>1. ASSUME DealInv, DealInv', [Next]_vars, DealStage \in {"COMPLETED", "CANCELLED"}
      PROVE  UNCHANGED <<DealStage, DealsMade, allows[version]>>
  <2>1. ~ Contract!ContractNext
    BY <1>1 DEF Contract!ContractNext, Contract!Book, Contract!Depart, Contract!Deliver,
       Contract!Cancel, Contract!Reauthorise
  <2> QED
    BY <1>1, <2>1, ContractStep DEF Contract!dealVars
<1>2. DealInv /\ DealInv' /\ [Next]_vars => StaysOver
  BY <1>1 DEF StaysOver
<1> QED
  BY <1>2, Invariance, PTL DEF Spec
=============================================================================
