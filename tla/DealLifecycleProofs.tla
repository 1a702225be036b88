------------------------- MODULE DealLifecycleProofs -------------------------
(***************************************************************************)
(* DealInv is an inductive invariant of DealLifecycle, and the lifecycle   *)
(* implements DealContract, for every set of carriers, offers, mandates,   *)
(* campaigns, commitments, escalations and calls.                          *)
(***************************************************************************)
EXTENDS DealLifecycle, TLAPS

-----------------------------------------------------------------------------
(* What each part of DealInv depends on: a step that leaves that alone      *)
(* keeps the part.                                                         *)

LEMMA RootsFrame ==
  ASSUME UNCHANGED <<esc, prev>>
  PROVE  Roots' = Roots
BY DEF Roots

LEMMA NestingFrame ==
  ASSUME EscalationNesting, UNCHANGED <<op, prev>>, Roots' = Roots
  PROVE  EscalationNesting'
BY DEF EscalationNesting

LEMMA StandsAtFrame ==
  ASSUME UNCHANGED <<op, prev>>, Roots' = Roots, NEW s
  PROVE  StandsAt(s)' <=> StandsAt(s)
BY DEF StandsAt

LEMMA StageFrame ==
  ASSUME StageBacked, UNCHANGED <<op, prev, selected, commitment, terms>>, Roots' = Roots
  PROVE  StageBacked'
BY StandsAtFrame DEF StageBacked, Backed

LEMMA MarketFrame ==
  ASSUME MarketOrClosing, UNCHANGED <<op, prev, commitment>>, Roots' = Roots,
         OpenCampaigns' = OpenCampaigns
  PROVE  MarketOrClosing'
BY StandsAtFrame DEF MarketOrClosing, ActiveCommitments

LEMMA SelectedFrame ==
  ASSUME NobodySelected, UNCHANGED <<op, prev, selected>>, Roots' = Roots,
         OpenCampaigns' = OpenCampaigns
  PROVE  NobodySelected'
BY StandsAtFrame DEF NobodySelected

LEMMA SingleFrame ==
  ASSUME SingleLiveDeal, UNCHANGED commitment
  PROVE  SingleLiveDeal'
BY DEF SingleLiveDeal

LEMMA WinnerFrame ==
  ASSUME WinnerExclusive, UNCHANGED <<campaign, winner, neg, quote, commitment, terms>>
  PROVE  WinnerExclusive'
BY DEF WinnerExclusive, Invited

LEMMA MandateFrame ==
  ASSUME WithinMandate, UNCHANGED <<version, allows, quote, commitment, terms>>
  PROVE  WithinMandate'
BY DEF WithinMandate

LEMMA EvidenceFrame ==
  ASSUME EvidenceBacked, UNCHANGED <<commitment, evidence, texted>>
  PROVE  EvidenceBacked'
BY DEF EvidenceBacked

LEMMA QuotesFrame ==
  ASSUME QuotesOfInvited, UNCHANGED <<campaign, neg, quote>>
  PROVE  QuotesOfInvited'
BY DEF QuotesOfInvited

LEMMA RecapFrame ==
  ASSUME RecapBacked, UNCHANGED <<recap, evidence, texted>>
  PROVE  RecapBacked'
BY DEF RecapBacked

-----------------------------------------------------------------------------
(* The initial states.                                                     *)

LEMMA InitInv == Init => DealInv
<1> SUFFICES ASSUME Init PROVE DealInv
  OBVIOUS
<1> USE DEF Init
<1>1. TypeOK
  BY MaxMandatesAssumption, MandateTermsAssumption
  DEF TypeOK, OperationStatus, Versions, CampaignStatus, NegotiationStatus, CommitmentStatus,
      RecapPhase, EscalationStatus, JoinPhase, CallStatus
<1>2. Roots = {} /\ OpenCampaigns = {} /\ ActiveCommitments = {}
  BY DEF Roots, Unresolved, ActiveEscalation, OpenCampaigns, Open, ActiveCommitments,
         ActiveCommitment, PreBooking
<1>3. EscalationNesting /\ SingleLiveDeal /\ StageBacked /\ MarketOrClosing
  BY <1>2 DEF EscalationNesting, SingleLiveDeal, StageBacked, Backed, StandsAt, MarketOrClosing,
              ActiveCommitment, PreBooking
<1>4. WinnerExclusive /\ WithinMandate /\ EvidenceBacked
  BY DEF WinnerExclusive, WithinMandate, EvidenceBacked, NoQuote
<1>5. NobodySelected /\ QuotesOfInvited /\ RecapBacked
  BY DEF NobodySelected, QuotesOfInvited, RecapBacked
<1> QED
  BY <1>1, <1>3, <1>4, <1>5 DEF DealInv

-----------------------------------------------------------------------------
(* Steps that move only calls, jobs and the human join.                    *)

LEMMA CallsInv ==
  ASSUME DealInv, NEW l \in Calls, CallStarts(l) \/ CallEnds(l)
  PROVE  DealInv'
<1>1. TypeOK'
  BY DEF DealInv, TypeOK, CallStarts, CallEnds, operationVars, campaignVars, mandateVars,
         commitmentVars, recapVars, escalationVars, CallStatus
<1>2. UNCHANGED <<operationVars, campaignVars, mandateVars, commitmentVars, recapVars,
                  escalationVars>>
  BY DEF CallStarts, CallEnds
<1> QED
  BY <1>1, <1>2, RootsFrame, NestingFrame, StageFrame, MarketFrame, SelectedFrame, SingleFrame,
     WinnerFrame, MandateFrame, EvidenceFrame, QuotesFrame, RecapFrame
  DEF DealInv, operationVars, campaignVars, mandateVars, commitmentVars, recapVars,
      escalationVars, OpenCampaigns

LEMMA RestartInv ==
  ASSUME DealInv, Restart
  PROVE  DealInv'
<1>1. TypeOK'
  BY DEF DealInv, TypeOK, Restart, operationVars, campaignVars, mandateVars, commitmentVars,
         RecapPhase, JoinPhase
<1>2. RecapBacked'
  BY DEF RecapBacked, Restart
<1>3. UNCHANGED <<operationVars, campaignVars, mandateVars, commitmentVars, texted, esc, prev>>
  BY DEF Restart
<1> QED
  BY <1>1, <1>2, <1>3, RootsFrame, NestingFrame, StageFrame, MarketFrame, SelectedFrame,
     SingleFrame, WinnerFrame, MandateFrame, EvidenceFrame, QuotesFrame
  DEF DealInv, operationVars, campaignVars, mandateVars, commitmentVars, OpenCampaigns

\* An escalation that is being worked on stays unresolved, so the join job
\* moves no root.
LEMMA JoinInv ==
  ASSUME DealInv, NEW e \in Escalations,
         JoinHuman(e) \/ StartJoin(e) \/ HumanJoins(e) \/ JoinFails(e)
  PROVE  DealInv'
<1>1. TypeOK'
  BY DEF DealInv, TypeOK, JoinHuman, StartJoin, HumanJoins, JoinFails, operationVars,
         campaignVars, mandateVars, commitmentVars, recapVars, EscalationStatus,
         ActiveEscalation, JoinPhase
<1>2. Roots' = Roots
  BY DEF DealInv, TypeOK, Roots, Unresolved, ActiveEscalation, JoinHuman, StartJoin, HumanJoins,
         JoinFails
<1>3. UNCHANGED <<operationVars, campaignVars, mandateVars, commitmentVars, recapVars, prev>>
  BY DEF JoinHuman, StartJoin, HumanJoins, JoinFails
<1> QED
  BY <1>1, <1>2, <1>3, NestingFrame, StageFrame, MarketFrame, SelectedFrame, SingleFrame,
     WinnerFrame, MandateFrame, EvidenceFrame, QuotesFrame, RecapFrame
  DEF DealInv, operationVars, campaignVars, mandateVars, commitmentVars, recapVars, OpenCampaigns

\* The recap job up to the provider's answer.
LEMMA SendingInv ==
  ASSUME DealInv, NEW i \in Commitments,
         StartSummary(i) \/ ProviderAccepts(i) \/ ProviderFails(i)
  PROVE  DealInv'
<1>1. TypeOK'
  BY DEF DealInv, TypeOK, StartSummary, ProviderAccepts, ProviderFails, Throws,
         SummaryExhausted, operationVars,
         campaignVars, mandateVars, commitmentVars, escalationVars, RecapPhase
<1>2. RecapBacked' /\ EvidenceBacked'
  BY DEF DealInv, TypeOK, RecapBacked, EvidenceBacked, StartSummary, ProviderAccepts,
         ProviderFails, Throws, SummaryExhausted, commitmentVars
<1>3. UNCHANGED <<operationVars, campaignVars, mandateVars, commitmentVars, escalationVars>>
  BY DEF StartSummary, ProviderAccepts, ProviderFails
<1> QED
  BY <1>1, <1>2, <1>3, RootsFrame, NestingFrame, StageFrame, MarketFrame, SelectedFrame,
     SingleFrame, WinnerFrame, MandateFrame, QuotesFrame
  DEF DealInv, operationVars, campaignVars, mandateVars, commitmentVars, escalationVars,
      OpenCampaigns

LEMMA AttachEvidenceInv ==
  ASSUME DealInv, NEW i \in Commitments, AttachEvidence(i)
  PROVE  DealInv'
<1>1. TypeOK'
  BY DEF DealInv, TypeOK, AttachEvidence, operationVars, campaignVars, mandateVars, recapVars,
         escalationVars
<1>2. RecapBacked' /\ EvidenceBacked'
  BY DEF DealInv, RecapBacked, EvidenceBacked, AttachEvidence, recapVars
<1>3. UNCHANGED <<operationVars, campaignVars, mandateVars, commitment, terms, escalationVars>>
  BY DEF AttachEvidence
<1> QED
  BY <1>1, <1>2, <1>3, RootsFrame, NestingFrame, StageFrame, MarketFrame, SelectedFrame,
     SingleFrame, WinnerFrame, MandateFrame, QuotesFrame
  DEF DealInv, operationVars, campaignVars, mandateVars, escalationVars, OpenCampaigns

-----------------------------------------------------------------------------
(* Closing.                                                                *)

\* A commitment that advances before it is booked disturbs nothing but the
\* record of its evidence.
LEMMA AdvanceFrame ==
  ASSUME DealInv, NEW i \in Commitments, NEW s \in PreBooking, commitment[i] \in PreBooking,
         commitment' = [commitment EXCEPT ![i] = s],
         UNCHANGED <<operationVars, campaignVars, mandateVars, terms, esc, prev>>
  PROVE  /\ EscalationNesting' /\ SingleLiveDeal' /\ StageBacked' /\ MarketOrClosing'
         /\ WinnerExclusive' /\ WithinMandate' /\ NobodySelected' /\ QuotesOfInvited'
<1> USE DEF operationVars, campaignVars, mandateVars
<1>1. Roots' = Roots /\ OpenCampaigns' = OpenCampaigns
  BY RootsFrame DEF OpenCampaigns
<1>2. EscalationNesting' /\ NobodySelected' /\ QuotesOfInvited'
  BY <1>1, NestingFrame, SelectedFrame, QuotesFrame DEF DealInv
<1>3. SingleLiveDeal'
  BY DEF DealInv, TypeOK, SingleLiveDeal, ActiveCommitment, PreBooking
<1>4. StageBacked'
  BY <1>1, StandsAtFrame DEF DealInv, TypeOK, StageBacked, Backed, PreBooking
<1>5. MarketOrClosing'
  <2>1. ActiveCommitments # {}
    BY DEF ActiveCommitments, ActiveCommitment
  <2>2. OpenCampaigns' = {} /\ StandsAt("SOURCING")'
    BY <1>1, <2>1, StandsAtFrame DEF DealInv, MarketOrClosing
  <2> QED
    BY <2>2 DEF MarketOrClosing
<1>6. WinnerExclusive' /\ WithinMandate'
  BY DEF DealInv, TypeOK, WinnerExclusive, WithinMandate, Invited, PreBooking
<1> QED
  BY <1>2, <1>3, <1>4, <1>5, <1>6

LEMMA RecordVerbalAgreementInv ==
  ASSUME DealInv, NEW i \in Commitments, RecordVerbalAgreement(i)
  PROVE  DealInv'
<1>1. TypeOK'
  BY DEF DealInv, TypeOK, RecordVerbalAgreement, operationVars, campaignVars, mandateVars,
         recapVars, escalationVars, CommitmentStatus, ActiveCommitment, PreBooking
<1>2. RecapBacked' /\ EvidenceBacked'
  BY DEF DealInv, TypeOK, RecapBacked, EvidenceBacked, RecordVerbalAgreement, recapVars
<1> QED
  BY <1>1, <1>2, AdvanceFrame DEF DealInv, RecordVerbalAgreement, escalationVars, PreBooking

LEMMA EnqueueSummaryInv ==
  ASSUME DealInv, NEW i \in Commitments, EnqueueSummary(i)
  PROVE  DealInv'
<1>1. TypeOK'
  BY DEF DealInv, TypeOK, EnqueueSummary, Queued, SummaryRequested, operationVars, campaignVars,
         mandateVars, escalationVars, CommitmentStatus, ActiveCommitment, PreBooking, RecapPhase
<1>2. RecapBacked' /\ EvidenceBacked'
  BY DEF DealInv, TypeOK, RecapBacked, EvidenceBacked, EnqueueSummary, Queued, SummaryRequested,
         ContextHolds
<1>3. UNCHANGED <<operationVars, campaignVars, mandateVars, terms, escalationVars>>
  BY DEF EnqueueSummary
<1>4. CASE UNCHANGED commitment
  BY <1>1, <1>2, <1>3, <1>4, RootsFrame, NestingFrame, StageFrame, MarketFrame, SelectedFrame,
     SingleFrame, WinnerFrame, MandateFrame, QuotesFrame
  DEF DealInv, operationVars, campaignVars, mandateVars, escalationVars, OpenCampaigns
<1>5. CASE ~ UNCHANGED commitment
  BY <1>1, <1>2, <1>3, <1>5, AdvanceFrame
  DEF DealInv, EnqueueSummary, SummaryRequested, escalationVars, PreBooking
<1> QED
  BY <1>4, <1>5

LEMMA MarkSummarySentInv ==
  ASSUME DealInv, NEW i \in Commitments, MarkSummarySent(i)
  PROVE  DealInv'
<1>1. TypeOK'
  BY DEF DealInv, TypeOK, MarkSummarySent, Throws, SummaryExhausted, operationVars,
         campaignVars, mandateVars,
         escalationVars, CommitmentStatus, ActiveCommitment, PreBooking, RecapPhase
<1>2. RecapBacked' /\ EvidenceBacked'
  BY DEF DealInv, TypeOK, RecapBacked, EvidenceBacked, MarkSummarySent, Throws, SummaryExhausted
<1>3. UNCHANGED <<operationVars, campaignVars, mandateVars, terms, escalationVars>>
  BY DEF MarkSummarySent
<1>4. CASE UNCHANGED commitment
  BY <1>1, <1>2, <1>3, <1>4, RootsFrame, NestingFrame, StageFrame, MarketFrame, SelectedFrame,
     SingleFrame, WinnerFrame, MandateFrame, QuotesFrame
  DEF DealInv, operationVars, campaignVars, mandateVars, escalationVars, OpenCampaigns
<1>5. CASE ~ UNCHANGED commitment
  BY <1>1, <1>2, <1>3, <1>5, AdvanceFrame
  DEF DealInv, MarkSummarySent, escalationVars, PreBooking
<1> QED
  BY <1>4, <1>5

\* A commitment and its operation are taken to the next stage together.
LEMMA StageInv ==
  ASSUME DealInv, NEW i \in Commitments, NEW s, NEW t,
         /\ op = "SOURCING" /\ commitment[i] = "SUMMARY_SENT" /\ s = "VALID" /\ t = "BOOKED"
         \/ /\ op = "BOOKED" /\ commitment[i] = "VALID"
            /\ s = "IN_EXECUTION" /\ t = "IN_TRANSIT"
         \/ /\ op = "IN_TRANSIT" /\ commitment[i] = "IN_EXECUTION"
            /\ s = "FULFILLED" /\ t = "COMPLETED",
         selected = terms[i].carrier,
         op' = t,
         commitment' = [commitment EXCEPT ![i] = s],
         UNCHANGED <<selected, campaignVars, mandateVars, terms, evidence, texted, escalationVars>>
  PROVE  /\ EscalationNesting' /\ SingleLiveDeal' /\ StageBacked' /\ MarketOrClosing'
         /\ WinnerExclusive' /\ WithinMandate' /\ NobodySelected' /\ QuotesOfInvited'
         /\ EvidenceBacked'
<1> USE DEF campaignVars, mandateVars, escalationVars
<1>1. Roots' = {} /\ Roots = {} /\ OpenCampaigns' = OpenCampaigns
  BY RootsFrame DEF DealInv, EscalationNesting, OpenCampaigns
<1>2. \A u : (StandsAt(u) <=> u = op) /\ (StandsAt(u)' <=> u = t)
  BY DEF StandsAt
<1>3. EscalationNesting'
  BY <1>1 DEF EscalationNesting
<1>4. \A j \in Commitments : j # i =>
        commitment[j] \notin ActiveCommitment \cup {"FULFILLED"}
  BY DEF DealInv, SingleLiveDeal, ActiveCommitment, PreBooking
<1>5. SingleLiveDeal'
  BY <1>4 DEF DealInv, TypeOK, SingleLiveDeal, ActiveCommitment, PreBooking
<1>6. StageBacked'
  BY <1>2, <1>4 DEF DealInv, TypeOK, StageBacked, Backed, ActiveCommitment
<1>7. ActiveCommitments # {}
  BY DEF ActiveCommitments, ActiveCommitment, PreBooking
<1>8. MarketOrClosing'
  <2>1. OpenCampaigns' = {}
    BY <1>1, <1>7 DEF DealInv, MarketOrClosing
  <2>2. \A j \in Commitments : commitment'[j] \notin PreBooking
    BY <1>4 DEF DealInv, TypeOK, PreBooking, ActiveCommitment
  <2> QED
    BY <2>1, <2>2 DEF MarketOrClosing
<1>9. WinnerExclusive' /\ WithinMandate' /\ EvidenceBacked'
  BY DEF DealInv, TypeOK, WinnerExclusive, WithinMandate, EvidenceBacked, Invited, PreBooking
<1>10. NobodySelected'
  <2>1. OpenCampaigns' = {}
    BY <1>1, <1>7 DEF DealInv, MarketOrClosing
  <2> QED
    BY <2>1, <1>2 DEF NobodySelected, Startable
<1>11. QuotesOfInvited'
  BY QuotesFrame DEF DealInv
<1> QED
  BY <1>3, <1>5, <1>6, <1>8, <1>9, <1>10, <1>11

LEMMA MarkValidInv ==
  ASSUME DealInv, NEW i \in Commitments, MarkValid(i)
  PROVE  DealInv'
<1>1. TypeOK'
  BY DEF DealInv, TypeOK, MarkValid, Throws, SummaryExhausted, campaignVars,
         mandateVars, escalationVars,
         OperationStatus, CommitmentStatus, ActiveCommitment, PreBooking, RecapPhase
<1>2. RecapBacked'
  BY DEF DealInv, TypeOK, RecapBacked, MarkValid, Throws, SummaryExhausted
<1>3. UNCHANGED <<selected, campaignVars, mandateVars, terms, evidence, texted, escalationVars>>
  BY DEF MarkValid
<1>4. CASE UNCHANGED <<op, commitment>>
  BY <1>1, <1>2, <1>3, <1>4, RootsFrame, NestingFrame, StageFrame, MarketFrame, SelectedFrame,
     SingleFrame, WinnerFrame, MandateFrame, EvidenceFrame, QuotesFrame
  DEF DealInv, campaignVars, mandateVars, escalationVars, OpenCampaigns
<1>5. CASE ~ UNCHANGED <<op, commitment>>
  BY <1>1, <1>2, <1>3, <1>5, StageInv DEF DealInv, MarkValid, ContextHolds
<1> QED
  BY <1>4, <1>5

LEMMA ExecutionInv ==
  ASSUME DealInv, NEW i \in Commitments, ConfirmPickup(i) \/ ConfirmDelivery(i)
  PROVE  DealInv'
<1>1. TypeOK'
  BY DEF DealInv, TypeOK, ConfirmPickup, ConfirmDelivery, campaignVars, mandateVars, recapVars,
         escalationVars, OperationStatus, CommitmentStatus, ActiveCommitment
<1>2. UNCHANGED <<selected, campaignVars, mandateVars, terms, evidence, recapVars,
                  escalationVars>>
  BY DEF ConfirmPickup, ConfirmDelivery
<1>3. RecapBacked'
  BY <1>2, RecapFrame DEF DealInv, recapVars
<1> QED
  BY <1>1, <1>2, <1>3, StageInv
  DEF DealInv, ConfirmPickup, ConfirmDelivery, CarrierStands, recapVars

\* The selected carrier is the one fact that keeps authorize off while the
\* market is open.
LEMMA AuthorizeInv ==
  ASSUME DealInv, NEW i \in Commitments, NEW c \in Campaigns, Authorize(i, c)
  PROVE  DealInv'
<1> DEFINE k == winner[c]
<1> USE DEF operationVars, mandateVars, recapVars, escalationVars
<1>1. /\ k \in Carriers
      /\ quote[c][k] \in Quotes
      /\ commitment[i] = "ABSENT" /\ op = "SOURCING" /\ campaign[c] = "COMPLETED"
      /\ selected = k /\ ActiveCommitments = {} /\ quote[c][k].valid
  BY NoneAssumption DEF DealInv, TypeOK, WinnerExclusive, Invited, Authorize, Authorizable, NoQuote
<1>2. /\ commitment' = [commitment EXCEPT ![i] = "PROPOSED"]
      /\ terms' = [terms EXCEPT ![i] = [campaign |-> c, carrier |-> k,
                     offer |-> quote[c][k].offer, mandate |-> quote[c][k].mandate]]
  BY DEF Authorize
<1>3. /\ Roots' = Roots /\ Roots = {}
      /\ OpenCampaigns' = OpenCampaigns /\ OpenCampaigns = {}
  BY <1>1, RootsFrame, NoneAssumption
  DEF DealInv, EscalationNesting, NobodySelected, OpenCampaigns, Authorize
<1>4. neg' = neg
  <2>1. neg[c][k] = "SELECTED"
    BY <1>1 DEF DealInv, WinnerExclusive
  <2>2. \A j \in Carriers : j # k => neg[c][j] \in {"REJECTED", "ABSENT"}
    BY <1>1 DEF DealInv, WinnerExclusive, Invited
  <2>3. \A j \in Carriers : neg'[c][j] = neg[c][j]
    BY <2>1, <2>2, <1>1 DEF DealInv, TypeOK, Authorize, Offerable
  <2>4. neg' \in [Campaigns -> [Carriers -> NegotiationStatus]]
    BY <1>1, <2>1, <2>3 DEF DealInv, TypeOK, Authorize, Offerable, NegotiationStatus, Concluded
  <2>5. \A d \in Campaigns : d # c => neg'[d] = neg[d]
    BY DEF DealInv, TypeOK, Authorize
  <2> QED
    BY <2>3, <2>4, <2>5 DEF DealInv, TypeOK
<1>5. TypeOK'
  BY <1>1, <1>2, <1>4
  DEF DealInv, TypeOK, Authorize, Terms, Quotes, CommitmentStatus, ActiveCommitment, PreBooking
<1>6. \A j \in Commitments : commitment[j] \notin ActiveCommitment \cup {"FULFILLED"}
  BY <1>1 DEF DealInv, ActiveCommitments, StageBacked, Backed, StandsAt
<1>7. SingleLiveDeal'
  BY <1>2, <1>6 DEF DealInv, TypeOK, SingleLiveDeal
<1>8. EscalationNesting' /\ NobodySelected' /\ QuotesOfInvited'
  BY <1>3, <1>4, NestingFrame, SelectedFrame, QuotesFrame DEF DealInv, Authorize
<1>9. StageBacked'
  BY <1>1, <1>2, <1>6 DEF DealInv, TypeOK, StageBacked, Backed, StandsAt, Authorize,
                          ActiveCommitment
<1>10. MarketOrClosing'
  BY <1>1, <1>3 DEF MarketOrClosing, StandsAt, Authorize
<1>11. WinnerExclusive'
  <2>1. UNCHANGED <<campaign, winner, quote>>
    BY DEF Authorize
  <2>2. quote[c][k] = [offer |-> quote[c][k].offer, mandate |-> quote[c][k].mandate,
                       valid |-> TRUE]
    BY <1>1 DEF Quotes
  <2>3. commitment'[i] # "ABSENT" /\ terms'[i] =
          [campaign |-> c, carrier |-> k, offer |-> quote[c][k].offer,
           mandate |-> quote[c][k].mandate]
    BY <1>2 DEF DealInv, TypeOK
  <2>4. \A j \in Commitments : j # i =>
          commitment'[j] = commitment[j] /\ terms'[j] = terms[j]
    BY <1>2 DEF DealInv, TypeOK
  <2> DEFINE Drawn(j) == /\ terms[j] \in Terms
                         /\ campaign[terms[j].campaign] = "COMPLETED"
                         /\ winner[terms[j].campaign] = terms[j].carrier
                         /\ quote[terms[j].campaign][terms[j].carrier] =
                              [offer |-> terms[j].offer, mandate |-> terms[j].mandate,
                               valid |-> TRUE]
  <2>5. Drawn(i)'
    BY <1>1, <2>1, <2>2, <2>3 DEF Terms, Quotes
  <2>6. \A j \in Commitments : j # i /\ commitment[j] # "ABSENT" => Drawn(j)
    BY DEF DealInv, WinnerExclusive
  <2>7. \A j \in Commitments : commitment'[j] # "ABSENT" => Drawn(j)'
    BY ZenonT(60), <2>1, <2>4, <2>5, <2>6
  <2> QED
    BY <1>4, <2>1, <2>7 DEF DealInv, WinnerExclusive, Invited
<1>12. WithinMandate'
  BY <1>1, <1>2 DEF DealInv, TypeOK, WithinMandate, Authorize
<1>13. EvidenceBacked' /\ RecapBacked'
  BY <1>2 DEF DealInv, TypeOK, EvidenceBacked, RecapBacked, Authorize
<1> QED
  BY <1>5, <1>7, <1>8, <1>9, <1>10, <1>11, <1>12, <1>13 DEF DealInv

-----------------------------------------------------------------------------
(* Escalations.                                                            *)

\* A step that leaves the status the operation stands at keeps what depends on
\* it, whether or not the operation is parked.
LEMMA StandsFrame ==
  ASSUME StageBacked, MarketOrClosing, NobodySelected,
         \A s : StandsAt(s)' <=> StandsAt(s),
         UNCHANGED <<selected, commitment, terms>>, OpenCampaigns' = OpenCampaigns
  PROVE  StageBacked' /\ MarketOrClosing' /\ NobodySelected'
<1>1. StageBacked'
  BY DEF StageBacked, Backed
<1>2. MarketOrClosing'
  BY DEF MarketOrClosing, ActiveCommitments
<1>3. NobodySelected'
  BY DEF NobodySelected
<1> QED
  BY <1>1, <1>2, <1>3

\* Parking the operation and bringing it back change no row but the
\* operation's status and the escalations.
LEMMA ParkingFrame ==
  ASSUME DealInv, TypeOK', EscalationNesting', \A s : StandsAt(s)' <=> StandsAt(s),
         UNCHANGED <<selected, campaignVars, mandateVars, commitmentVars, recapVars>>
  PROVE  DealInv'
BY StandsFrame, SingleFrame, WinnerFrame, MandateFrame, EvidenceFrame, QuotesFrame, RecapFrame
DEF DealInv, campaignVars, mandateVars, commitmentVars, recapVars, OpenCampaigns

LEMMA RequestEscalationInv ==
  ASSUME DealInv, NEW e \in Escalations, NEW l \in Calls, RequestEscalation(e, l)
  PROVE  DealInv'
<1>1. TypeOK'
  BY DEF DealInv, TypeOK, RequestEscalation, campaignVars, mandateVars, commitmentVars,
         recapVars, OperationStatus, EscalationStatus, ActiveEscalation
<1>2. CASE op = "ESCALATED"
  <2>1. Roots' = Roots /\ \A d \in Roots : prev'[d] = prev[d]
    BY <1>2 DEF DealInv, TypeOK, RequestEscalation, Roots, Unresolved, ActiveEscalation
  <2>2. EscalationNesting'
    BY <1>2, <2>1 DEF DealInv, EscalationNesting, RequestEscalation
  <2>3. \A s : StandsAt(s)' <=> StandsAt(s)
    BY <1>2, <2>1 DEF StandsAt, RequestEscalation
  <2> QED
    BY <1>1, <2>2, <2>3, ParkingFrame DEF RequestEscalation
<1>3. CASE op # "ESCALATED"
  <2>1. Roots' = {e} /\ prev'[e] = op /\ op \notin Closed /\ op' = "ESCALATED"
    BY <1>3 DEF DealInv, TypeOK, EscalationNesting, RequestEscalation, Escalatable, Roots,
           Unresolved,
                ActiveEscalation, Closed
  <2>2. EscalationNesting'
    BY <2>1 DEF EscalationNesting
  <2>3. \A s : StandsAt(s)' <=> StandsAt(s)
    BY <1>3, <2>1 DEF StandsAt
  <2> QED
    BY <1>1, <2>2, <2>3, ParkingFrame DEF RequestEscalation
<1> QED
  BY <1>2, <1>3

LEMMA ResolveEscalationInv ==
  ASSUME DealInv, NEW e \in Escalations, ResolveEscalation(e)
  PROVE  DealInv'
<1>1. TypeOK'
  BY DEF DealInv, TypeOK, ResolveEscalation, campaignVars, mandateVars, commitmentVars,
         recapVars, OperationStatus, EscalationStatus
<1>2. op = "ESCALATED" /\ op' = prev[e] /\ prev' = prev /\ esc[e] \in Unresolved
  BY DEF ResolveEscalation, Unresolved, ActiveEscalation
<1>3. \A d \in Escalations : d # e => esc'[d] = esc[d]
  BY DEF DealInv, TypeOK, ResolveEscalation
<1>4. esc'[e] \notin Unresolved
  BY DEF DealInv, TypeOK, ResolveEscalation, Unresolved, ActiveEscalation
<1>5. CASE prev[e] = "ESCALATED"
  <2>1. Roots' = Roots /\ op' = op
    BY <1>2, <1>3, <1>4, <1>5 DEF Roots
  <2> QED
    BY <1>1, <1>2, <2>1, NestingFrame, StandsAtFrame, ParkingFrame
    DEF DealInv, ResolveEscalation
<1>6. CASE prev[e] # "ESCALATED"
  <2>1. Roots = {e} /\ prev[e] \notin Closed
    BY <1>2, <1>6 DEF DealInv, EscalationNesting, Roots
  <2>2. Roots' = {}
    BY <1>2, <1>3, <1>4, <2>1 DEF Roots
  <2>3. EscalationNesting'
    BY <1>2, <1>6, <2>2 DEF EscalationNesting
  <2>4. \A s : StandsAt(s)' <=> StandsAt(s)
    BY <1>2, <1>6, <2>1 DEF StandsAt
  <2> QED
    BY <1>1, <2>3, <2>4, ParkingFrame DEF ResolveEscalation
<1> QED
  BY <1>5, <1>6

-----------------------------------------------------------------------------
(* The market.                                                             *)

\* A step inside an open campaign that leaves it open, keeps its carriers and
\* gives quotes only to them.
LEMMA BargainFrame ==
  ASSUME DealInv, TypeOK', NEW c \in Campaigns, campaign[c] \in Open, campaign'[c] \in Open,
         \A d \in Campaigns \ {c} : /\ campaign'[d] = campaign[d]
                                    /\ neg'[d] = neg[d]
                                    /\ quote'[d] = quote[d],
         \A k \in Carriers : /\ neg'[c][k] = "ABSENT" <=> neg[c][k] = "ABSENT"
                             /\ quote'[c][k] # NoQuote => neg[c][k] # "ABSENT",
         \A k \in Carriers : quote'[c][k].valid =>
           /\ quote'[c][k].mandate <= version
           /\ quote'[c][k].offer \in allows[quote'[c][k].mandate],
         UNCHANGED <<operationVars, mandateVars, winner, commitmentVars, recapVars, esc, prev>>
  PROVE  DealInv'
<1> USE DEF operationVars, mandateVars, commitmentVars, recapVars
<1>1. Roots' = Roots /\ OpenCampaigns' = OpenCampaigns
  BY RootsFrame DEF OpenCampaigns
<1>2. /\ EscalationNesting' /\ StageBacked' /\ MarketOrClosing' /\ NobodySelected'
      /\ SingleLiveDeal' /\ EvidenceBacked' /\ RecapBacked'
  BY <1>1, NestingFrame, StageFrame, MarketFrame, SelectedFrame, SingleFrame, EvidenceFrame,
     RecapFrame DEF DealInv
<1>3. campaign[c] \notin {"COMPLETED", "ABSENT"} /\ campaign'[c] \notin {"COMPLETED", "ABSENT"}
  BY DEF Open
<1>4. WinnerExclusive'
  <2>1. ASSUME NEW d \in Campaigns, campaign'[d] = "COMPLETED"
        PROVE  campaign[d] = "COMPLETED" /\ neg'[d] = neg[d] /\ quote'[d] = quote[d]
    BY <1>3, <2>1
  <2>2. ASSUME NEW d \in Campaigns, campaign[d] = "COMPLETED"
        PROVE  campaign'[d] = "COMPLETED" /\ neg'[d] = neg[d] /\ quote'[d] = quote[d]
    BY <1>3, <2>2
  <2>3. \A i \in Commitments : commitment[i] # "ABSENT" => terms[i].campaign \in Campaigns
    BY DEF DealInv, WinnerExclusive, Terms
  <2> QED
    BY <2>1, <2>2, <2>3 DEF DealInv, WinnerExclusive, Invited
<1>5. WithinMandate'
  BY DEF DealInv, WithinMandate
<1>6. QuotesOfInvited'
  BY <1>3 DEF DealInv, QuotesOfInvited
<1> QED
  BY <1>2, <1>4, <1>5, <1>6 DEF DealInv

\* refreshCampaign keeps an open campaign open, and leaves a closed one alone.
LEMMA RefreshedOpen ==
  ASSUME NEW c \in Campaigns, NEW n
  PROVE  /\ campaign[c] \in Open => Refreshed(c, n) \in Open
         /\ campaign[c] \notin Open => Refreshed(c, n) = campaign[c]
BY DEF Refreshed, Open

LEMMA NegotiationEventInv ==
  ASSUME DealInv, NEW c \in Campaigns, NEW k \in Carriers,
         NEW t \in {"CALLING", "NEGOTIATING", "NO_ANSWER", "REFUSED"}, NegotiationEvent(c, k, t)
  PROVE  DealInv'
<1>1. UNCHANGED <<operationVars, mandateVars, winner, quote, commitmentVars, recapVars,
                  escalationVars, call>>
  BY DEF NegotiationEvent
<1>2. /\ \A d \in Campaigns \ {c} : campaign'[d] = campaign[d]
      /\ campaign'[c] = Refreshed(c, neg')
  BY DEF DealInv, TypeOK, NegotiationEvent
<1>3. campaign' \in [Campaigns -> CampaignStatus]
  BY RefreshedOpen DEF DealInv, TypeOK, NegotiationEvent, CampaignStatus
<1>4. neg' \in [Campaigns -> [Carriers -> NegotiationStatus]]
  BY DEF DealInv, TypeOK, NegotiationEvent, Transitioned, NegotiationStatus, Offerable, Concluded
<1>5. TypeOK'
  BY <1>1, <1>3, <1>4
  DEF DealInv, TypeOK, operationVars, mandateVars, commitmentVars, recapVars, escalationVars
<1>6. CASE campaign[c] \in Open
  <2>1. campaign'[c] \in Open
    BY <1>2, <1>6, RefreshedOpen
  <2>2. \A d \in Campaigns \ {c} : neg'[d] = neg[d]
    BY DEF DealInv, TypeOK, NegotiationEvent, Transitioned
  <2>3. \A j \in Carriers : neg'[c][j] = "ABSENT" <=> neg[c][j] = "ABSENT"
    BY DEF DealInv, TypeOK, NegotiationEvent, Transitioned, MayBecome
  <2>4. \A j \in Carriers : quote'[c][j] # NoQuote => neg[c][j] # "ABSENT"
    BY <1>1 DEF DealInv, QuotesOfInvited
  <2>5. \A j \in Carriers : quote'[c][j].valid =>
          quote'[c][j].mandate <= version /\ quote'[c][j].offer \in allows[quote'[c][j].mandate]
    BY <1>1 DEF DealInv, WithinMandate
  <2> QED
    BY <1>1, <1>2, <1>5, <1>6, <2>1, <2>2, <2>3, <2>4, <2>5, BargainFrame DEF escalationVars
<1>7. CASE campaign[c] \notin Open
  <2>1. neg' = neg
    BY <1>7 DEF NegotiationEvent, Transitioned
  <2>2. campaign' = campaign
    BY <1>2, <1>3, <1>7, RefreshedOpen DEF DealInv, TypeOK
  <2> QED
    BY <1>1, <1>5, <2>1, <2>2, RootsFrame, NestingFrame, StageFrame, MarketFrame, SelectedFrame,
       SingleFrame, WinnerFrame, MandateFrame, EvidenceFrame, QuotesFrame, RecapFrame
    DEF DealInv, operationVars, mandateVars, commitmentVars, recapVars, escalationVars,
        OpenCampaigns
<1> QED
  BY <1>6, <1>7

LEMMA EvaluateOfferInv ==
  ASSUME DealInv, NEW c \in Campaigns, NEW k \in Carriers, EvaluateOffer(c, k)
  PROVE  DealInv'
<1>1. campaign[c] \in Open /\ neg[c][k] # "ABSENT"
  BY DEF EvaluateOffer, AcceptsOffer, Offerable
<1>2. campaign'[c] \in Open /\ \A d \in Campaigns \ {c} : campaign'[d] = campaign[d]
  BY <1>1 DEF DealInv, TypeOK, EvaluateOffer, Open
<1>3. TypeOK'
  BY DEF DealInv, TypeOK, EvaluateOffer, operationVars, mandateVars, commitmentVars, recapVars,
         escalationVars, CampaignStatus, Open, NegotiationStatus, Offerable
<1>4. \A d \in Campaigns \ {c} : neg'[d] = neg[d]
  BY DEF DealInv, TypeOK, EvaluateOffer
<1>5. \A j \in Carriers : neg'[c][j] = "ABSENT" <=> neg[c][j] = "ABSENT"
  BY <1>1 DEF DealInv, TypeOK, EvaluateOffer
<1>6. UNCHANGED <<operationVars, mandateVars, winner, quote, commitmentVars, recapVars,
                  escalationVars>>
  BY DEF EvaluateOffer
<1>7. \A j \in Carriers : quote'[c][j] # NoQuote => neg[c][j] # "ABSENT"
  BY <1>6 DEF DealInv, QuotesOfInvited
<1>8. \A j \in Carriers : quote'[c][j].valid =>
        quote'[c][j].mandate <= version /\ quote'[c][j].offer \in allows[quote'[c][j].mandate]
  BY <1>6 DEF DealInv, WithinMandate
<1> QED
  BY <1>1, <1>2, <1>3, <1>4, <1>5, <1>6, <1>7, <1>8, BargainFrame DEF escalationVars

LEMMA SaveQuoteInv ==
  ASSUME DealInv, NEW c \in Campaigns, NEW k \in Carriers, NEW o \in Offers, SaveQuote(c, k, o)
  PROVE  DealInv'
<1> DEFINE new == [offer |-> o, mandate |-> version, valid |-> o \in allows[version]]
<1>1. campaign[c] \in Open /\ neg[c][k] # "ABSENT" /\ quote' = [quote EXCEPT ![c][k] = new]
  BY DEF SaveQuote, AcceptsOffer, Offerable
<1>2. campaign'[c] \in Open /\ \A d \in Campaigns \ {c} : campaign'[d] = campaign[d]
  BY <1>1 DEF DealInv, TypeOK, SaveQuote, WithQuoteSaved, Open
<1>3. new \in Quotes /\ version \in Nat
  BY MaxMandatesAssumption DEF DealInv, TypeOK, Quotes, Versions
<1>4. UNCHANGED <<operationVars, mandateVars, winner, commitmentVars, recapVars, escalationVars,
                  call>>
  BY DEF SaveQuote
<1>5. campaign' \in [Campaigns -> CampaignStatus]
  BY DEF DealInv, TypeOK, SaveQuote, WithQuoteSaved, CampaignStatus, Open
<1>6. neg' \in [Campaigns -> [Carriers -> NegotiationStatus]]
  BY DEF DealInv, TypeOK, SaveQuote, NegotiationStatus, Offerable
<1>7. quote' \in [Campaigns -> [Carriers -> Quotes \cup {NoQuote}]]
  BY <1>1, <1>3 DEF DealInv, TypeOK
<1>8. TypeOK'
  BY <1>4, <1>5, <1>6, <1>7
  DEF DealInv, TypeOK, operationVars, mandateVars, commitmentVars, recapVars, escalationVars
<1>9. \A d \in Campaigns \ {c} : neg'[d] = neg[d] /\ quote'[d] = quote[d]
  BY <1>1 DEF DealInv, TypeOK, SaveQuote
<1>10. \A j \in Carriers : neg'[c][j] = "ABSENT" <=> neg[c][j] = "ABSENT"
  BY <1>1 DEF DealInv, TypeOK, SaveQuote
<1>11. quote'[c][k] = new /\ \A j \in Carriers \ {k} : quote'[c][j] = quote[c][j]
  BY <1>1 DEF DealInv, TypeOK
<1>12. \A j \in Carriers : quote'[c][j] # NoQuote => neg[c][j] # "ABSENT"
  BY <1>1, <1>11 DEF DealInv, QuotesOfInvited
<1>13. \A j \in Carriers : quote'[c][j].valid =>
         quote'[c][j].mandate <= version /\ quote'[c][j].offer \in allows[quote'[c][j].mandate]
  <2>1. new.mandate = version /\ new.offer = o /\ version <= version
    BY <1>3
  <2>2. new.valid = (o \in allows[version])
    BY Zenon
  <2>3. new.mandate <= version /\ (new.valid => new.offer \in allows[new.mandate])
    BY <2>1, <2>2, Zenon
  <2>4. \A j \in Carriers : quote[c][j].valid =>
          quote[c][j].mandate <= version /\ quote[c][j].offer \in allows[quote[c][j].mandate]
    BY DEF DealInv, WithinMandate
  <2> HIDE DEF new
  <2> QED
    BY <1>11, <2>3, <2>4
<1> QED
  BY <1>1, <1>2, <1>4, <1>8, <1>9, <1>10, <1>12, <1>13, BargainFrame DEF escalationVars

\* Before a market opens, and while it is open, nothing is being closed.
LEMMA NothingClosing ==
  ASSUME DealInv, op \in Startable \/ (op = "SOURCING" /\ OpenCampaigns # {})
  PROVE  /\ Roots = {} /\ selected = None
         /\ \A i \in Commitments : commitment[i] \notin ActiveCommitment \cup {"FULFILLED"}
<1>1. Roots = {} /\ \A u : StandsAt(u) <=> u = op
  BY DEF DealInv, EscalationNesting, Startable, StandsAt
<1>2. selected = None
  BY <1>1 DEF DealInv, NobodySelected
<1>3. \A i \in Commitments : commitment[i] \notin {"VALID", "IN_EXECUTION", "FULFILLED"}
  BY <1>1 DEF DealInv, StageBacked, Backed, Startable
<1>4. \A i \in Commitments : commitment[i] \notin PreBooking
  BY <1>1 DEF DealInv, MarketOrClosing, ActiveCommitments, ActiveCommitment, Startable
<1> QED
  BY <1>1, <1>2, <1>3, <1>4 DEF ActiveCommitment

\* The operation goes from one status to another with no commitment about.
LEMMA UncommittedFrame ==
  ASSUME DealInv, Roots = {}, UNCHANGED <<esc, prev, commitment, terms>>,
         \A i \in Commitments : commitment[i] \notin ActiveCommitment \cup {"FULFILLED"},
         op' \in Startable \cup {"SOURCING"},
         \A d, f \in OpenCampaigns' : d = f,
         OpenCampaigns' # {} => op' = "SOURCING",
         OpenCampaigns' # {} \/ op' \in Startable => selected' = None
  PROVE  EscalationNesting' /\ StageBacked' /\ MarketOrClosing' /\ NobodySelected'
<1>1. Roots' = {} /\ \A u : StandsAt(u)' <=> u = op'
  BY RootsFrame DEF StandsAt, Startable
<1>2. EscalationNesting'
  BY <1>1 DEF EscalationNesting, Startable
<1>3. StageBacked'
  BY <1>1 DEF StageBacked, Backed, Startable, ActiveCommitment
<1>4. MarketOrClosing'
  BY <1>1 DEF MarketOrClosing, ActiveCommitments, ActiveCommitment
<1>5. NobodySelected'
  BY <1>1 DEF NobodySelected
<1> QED
  BY <1>2, <1>3, <1>4, <1>5

LEMMA StartCampaignInv ==
  ASSUME DealInv, NEW c \in Campaigns, NEW S \in SUBSET Carriers,
         StartCampaign(c, S) \/ StartCampaignFails(c, S)
  PROVE  DealInv'
<1> USE DEF StartCampaign, CallsEnqueued, StartCampaignFails, CreateCampaign
<1>1. /\ op \in Startable /\ OpenCampaigns = {} /\ campaign[c] = "ABSENT"
      /\ UNCHANGED <<selected, winner, quote, call, mandateVars, commitmentVars, recapVars,
                     escalationVars>>
  OBVIOUS
<1>2. TypeOK'
  <2>1. op' \in OperationStatus /\ campaign' \in [Campaigns -> CampaignStatus]
    BY DEF DealInv, TypeOK, OperationStatus, CampaignStatus, Open
  <2> DEFINE row == [k \in Carriers |-> IF k \in S THEN "PENDING" ELSE "ABSENT"]
  <2>2. row \in [Carriers -> NegotiationStatus]
    BY DEF NegotiationStatus, Offerable
  <2>3. neg' = [neg EXCEPT ![c] = row]
    OBVIOUS
  <2>4. neg' \in [Campaigns -> [Carriers -> NegotiationStatus]]
    <3> HIDE DEF row
    <3> QED
      BY <2>2, <2>3 DEF DealInv, TypeOK
  <2> QED
    BY <1>1, <2>1, <2>4
    DEF DealInv, TypeOK, mandateVars, commitmentVars, recapVars, escalationVars
<1>3. \A d \in Campaigns \ {c} : campaign'[d] = campaign[d] /\ neg'[d] = neg[d]
  BY DEF DealInv, TypeOK
<1>4. \/ campaign'[c] \in Open /\ op' = "SOURCING"
      \/ campaign'[c] = "FAILED" /\ op' = "NEEDS_CARRIER"
  BY DEF DealInv, TypeOK, Open
<1>5. OpenCampaigns' = IF op' = "SOURCING" THEN {c} ELSE {}
  BY <1>1, <1>3, <1>4 DEF OpenCampaigns, Open
<1>6. EscalationNesting' /\ StageBacked' /\ MarketOrClosing' /\ NobodySelected'
  BY <1>1, <1>4, <1>5, NothingClosing, UncommittedFrame
  DEF commitmentVars, escalationVars, Startable
<1>7. \A d \in Campaigns : (campaign'[d] = "COMPLETED" <=> campaign[d] = "COMPLETED")
                        /\ (campaign[d] = "COMPLETED" => neg'[d] = neg[d])
  BY <1>1, <1>3, <1>4 DEF Open
<1>8. WinnerExclusive'
  <2>1. \A i \in Commitments : commitment[i] # "ABSENT" => terms[i].campaign \in Campaigns
    BY DEF DealInv, WinnerExclusive, Terms
  <2> QED
    BY <1>1, <1>7, <2>1 DEF DealInv, WinnerExclusive, Invited, commitmentVars
<1>9. QuotesOfInvited'
  <2>1. \A k \in Carriers : quote'[c][k] = NoQuote
    BY <1>1 DEF DealInv, QuotesOfInvited
  <2> QED
    BY <1>1, <1>3, <2>1 DEF DealInv, QuotesOfInvited
<1> QED
  BY <1>1, <1>2, <1>6, <1>8, <1>9, SingleFrame, MandateFrame, EvidenceFrame, RecapFrame
  DEF DealInv, mandateVars, commitmentVars, recapVars

LEMMA NoEligibleQuotesInv ==
  ASSUME DealInv, NEW c \in Campaigns, NoEligibleQuotes(c)
  PROVE  DealInv'
<1> USE DEF NoEligibleQuotes, Selectable
<1>1. /\ op = "SOURCING" /\ op' = "NEEDS_CARRIER" /\ c \in OpenCampaigns
      /\ UNCHANGED <<selected, winner, neg, quote, call, mandateVars, commitmentVars, recapVars,
                     escalationVars>>
  BY DEF OpenCampaigns
<1>2. TypeOK'
  BY DEF DealInv, TypeOK, mandateVars, commitmentVars, recapVars, escalationVars,
         OperationStatus, CampaignStatus
<1>3. campaign'[c] = "FAILED" /\ \A d \in Campaigns \ {c} : campaign'[d] = campaign[d]
  BY DEF DealInv, TypeOK
<1>4. OpenCampaigns' = {}
  BY <1>1, <1>3 DEF DealInv, MarketOrClosing, OpenCampaigns, Open
<1>5. EscalationNesting' /\ StageBacked' /\ MarketOrClosing' /\ NobodySelected'
  BY <1>1, <1>4, NothingClosing, UncommittedFrame DEF commitmentVars, escalationVars, Startable
<1>6. \A d \in Campaigns : campaign'[d] = "COMPLETED" <=> campaign[d] = "COMPLETED"
  BY <1>1, <1>3 DEF OpenCampaigns, Open
<1>7. WinnerExclusive'
  <2>1. \A i \in Commitments : commitment[i] # "ABSENT" => terms[i].campaign \in Campaigns
    BY DEF DealInv, WinnerExclusive, Terms
  <2> QED
    BY <1>1, <1>6, <2>1 DEF DealInv, WinnerExclusive, Invited, commitmentVars
<1>8. QuotesOfInvited'
  BY <1>1, <1>3 DEF DealInv, QuotesOfInvited
<1> QED
  BY <1>1, <1>2, <1>5, <1>7, <1>8, SingleFrame, MandateFrame, EvidenceFrame, RecapFrame
  DEF DealInv, mandateVars, commitmentVars, recapVars

LEMMA SelectQuoteInv ==
  ASSUME DealInv, NEW c \in Campaigns, NEW k \in Carriers, SelectQuote(c, k)
  PROVE  DealInv'
<1> USE DEF SelectQuote, Selectable
<1>1. /\ op = "SOURCING" /\ c \in OpenCampaigns /\ selected' = k
      /\ UNCHANGED <<op, quote, call, mandateVars, commitmentVars, recapVars, escalationVars>>
  BY DEF OpenCampaigns
<1>2. TypeOK'
  BY DEF DealInv, TypeOK, mandateVars, commitmentVars, recapVars, escalationVars,
         CampaignStatus, NegotiationStatus, Concluded
<1>3. /\ campaign'[c] = "COMPLETED" /\ winner'[c] = k
      /\ \A d \in Campaigns \ {c} : campaign'[d] = campaign[d] /\ winner'[d] = winner[d]
                                    /\ neg'[d] = neg[d]
  BY DEF DealInv, TypeOK
<1>4. \A j \in Carriers : neg'[c][j] = IF j = k THEN "SELECTED"
                            ELSE IF j \in Invited(neg, c) THEN "REJECTED" ELSE "ABSENT"
  BY DEF DealInv, TypeOK
<1>5. k \in Invited(neg, c)
  BY DEF DealInv, QuotesOfInvited, Candidates, Invited
<1>6. OpenCampaigns' = {}
  BY <1>1, <1>3 DEF DealInv, MarketOrClosing, OpenCampaigns, Open
<1>7. EscalationNesting' /\ StageBacked' /\ MarketOrClosing' /\ NobodySelected'
  BY <1>1, <1>6, NothingClosing, UncommittedFrame DEF commitmentVars, escalationVars, Startable
<1>8. WinnerExclusive'
  <2>1. ASSUME NEW d \in Campaigns, campaign'[d] = "COMPLETED"
        PROVE  /\ winner'[d] \in Invited(neg', d)
               /\ neg'[d][winner'[d]] = "SELECTED"
               /\ \A j \in Invited(neg', d) \ {winner'[d]} : neg'[d][j] = "REJECTED"
    BY <1>3, <1>4, <2>1 DEF DealInv, WinnerExclusive, Invited
  <2>2. \A i \in Commitments : commitment[i] # "ABSENT" =>
          terms[i].campaign \in Campaigns \ {c}
    BY <1>1 DEF DealInv, WinnerExclusive, Terms, OpenCampaigns, Open
  <2> QED
    BY SMTT(30), <1>1, <1>3, <2>1, <2>2 DEF DealInv, WinnerExclusive, Invited, commitmentVars
<1>9. QuotesOfInvited'
  BY <1>1, <1>3, <1>4 DEF DealInv, QuotesOfInvited, Invited
<1> QED
  BY <1>1, <1>2, <1>7, <1>8, <1>9, SingleFrame, MandateFrame, EvidenceFrame, RecapFrame
  DEF DealInv, mandateVars, commitmentVars, recapVars

-----------------------------------------------------------------------------
(* The operator.                                                           *)

\* Closing the open campaigns touches no winner.
LEMMA CloseCampaigns ==
  ASSUME DealInv, campaign' = FailOpenCampaigns,
         neg' \in [Campaigns -> [Carriers -> NegotiationStatus]],
         \A c \in Campaigns : campaign[c] = "COMPLETED" => neg'[c] = neg[c],
         \A c \in Campaigns, k \in Carriers : neg'[c][k] = "ABSENT" <=> neg[c][k] = "ABSENT",
         \A i \in Commitments : commitment'[i] # "ABSENT" => commitment[i] # "ABSENT",
         UNCHANGED <<winner, quote, terms>>
  PROVE  /\ campaign' \in [Campaigns -> CampaignStatus]
         /\ OpenCampaigns' = {} /\ WinnerExclusive' /\ QuotesOfInvited'
<1>1. campaign' \in [Campaigns -> CampaignStatus]
  BY DEF DealInv, TypeOK, FailOpenCampaigns, CampaignStatus
<1>2. \A c \in Campaigns : /\ campaign'[c] \notin Open
                           /\ campaign'[c] = "COMPLETED" <=> campaign[c] = "COMPLETED"
                           /\ campaign'[c] = "ABSENT" <=> campaign[c] = "ABSENT"
  BY DEF FailOpenCampaigns, Open
<1>3. OpenCampaigns' = {}
  BY <1>2 DEF OpenCampaigns
<1>4. WinnerExclusive'
  <2>1. \A i \in Commitments : commitment[i] # "ABSENT" => terms[i].campaign \in Campaigns
    BY DEF DealInv, WinnerExclusive, Terms
  <2> QED
    BY <1>2, <2>1 DEF DealInv, WinnerExclusive, Invited
<1>5. QuotesOfInvited'
  BY <1>2 DEF DealInv, QuotesOfInvited
<1> QED
  BY <1>1, <1>3, <1>4, <1>5

LEMMA CancelOperationInv ==
  ASSUME DealInv, CancelOperation
  PROVE  DealInv'
<1>1. /\ op \notin Closed /\ op' = "CANCELLED"
      /\ campaign' = FailOpenCampaigns /\ neg' = CloseOffers(neg)
      /\ commitment' = CancelCommitments(ActiveCommitment)
      /\ UNCHANGED <<selected, winner, quote, terms, evidence, call, mandateVars, recapVars,
                     escalationVars>>
  BY DEF CancelOperation
<1>2. neg' \in [Campaigns -> [Carriers -> NegotiationStatus]]
  BY <1>1 DEF DealInv, TypeOK, CloseOffers, NegotiationStatus, Concluded
<1>3. \A c \in Campaigns, k \in Carriers : neg'[c][k] = "ABSENT" <=> neg[c][k] = "ABSENT"
  BY <1>1 DEF CloseOffers, Offerable
<1>4. \A c \in Campaigns : campaign[c] = "COMPLETED" => neg'[c] = neg[c]
  <2> SUFFICES ASSUME NEW c \in Campaigns, campaign[c] = "COMPLETED"
               PROVE  neg'[c] = neg[c]
    OBVIOUS
  <2>1. \A k \in Carriers : neg[c][k] \notin Offerable
    BY DEF DealInv, WinnerExclusive, Invited, Offerable
  <2>2. neg'[c] = [k \in Carriers |-> neg[c][k]]
    BY <1>1, <2>1 DEF CloseOffers
  <2> QED
    BY <2>2 DEF DealInv, TypeOK
<1>5. /\ commitment' \in [Commitments -> CommitmentStatus]
      /\ \A i \in Commitments : commitment'[i] \notin ActiveCommitment \cup {"FULFILLED"}
      /\ \A i \in Commitments : commitment'[i] # "ABSENT" => commitment[i] # "ABSENT"
  <2>1. \A i \in Commitments : commitment[i] # "FULFILLED"
    BY <1>1 DEF DealInv, StageBacked, Backed, StandsAt, EscalationNesting, Closed
  <2> QED
    BY <1>1, <2>1
    DEF DealInv, TypeOK, CancelCommitments, CommitmentStatus, ActiveCommitment, PreBooking
<1>6. /\ campaign' \in [Campaigns -> CampaignStatus]
      /\ OpenCampaigns' = {} /\ WinnerExclusive' /\ QuotesOfInvited'
  BY <1>1, <1>2, <1>3, <1>4, <1>5, CloseCampaigns
<1>7. TypeOK'
  BY <1>1, <1>2, <1>5, <1>6
  DEF DealInv, TypeOK, mandateVars, recapVars, escalationVars, OperationStatus
<1>8. \A u : StandsAt(u)' <=> u = "CANCELLED"
  BY <1>1 DEF StandsAt
<1>9. EscalationNesting' /\ SingleLiveDeal' /\ StageBacked' /\ MarketOrClosing'
      /\ NobodySelected'
  <2>1. EscalationNesting'
    BY <1>1 DEF DealInv, EscalationNesting, Roots, escalationVars
  <2>2. SingleLiveDeal'
    BY <1>5 DEF SingleLiveDeal
  <2>3. StageBacked'
    BY <1>5, <1>8 DEF StageBacked, Backed, ActiveCommitment
  <2>4. MarketOrClosing' /\ NobodySelected'
    BY <1>5, <1>6, <1>8 DEF MarketOrClosing, NobodySelected, Startable, ActiveCommitment
  <2> QED
    BY <2>1, <2>2, <2>3, <2>4
<1>10. WithinMandate' /\ EvidenceBacked' /\ RecapBacked'
  <2>1. WithinMandate'
    BY <1>1, <1>5 DEF DealInv, WithinMandate, mandateVars
  <2>2. EvidenceBacked'
    BY <1>1, <1>5 DEF DealInv, EvidenceBacked, recapVars, ActiveCommitment, PreBooking
  <2> QED
    BY <1>1, <2>1, <2>2, RecapFrame DEF DealInv, recapVars
<1> QED
  BY <1>6, <1>7, <1>9, <1>10 DEF DealInv

\* A replaced mandate leaves the negotiations of closed campaigns alone.
LEMMA RejectedRows ==
  ASSUME DealInv, neg' = RejectInvalidated
  PROVE  /\ neg' \in [Campaigns -> [Carriers -> NegotiationStatus]]
         /\ \A c \in Campaigns : campaign[c] = "COMPLETED" => neg'[c] = neg[c]
         /\ \A c \in Campaigns, k \in Carriers : neg'[c][k] = "ABSENT" <=> neg[c][k] = "ABSENT"
<1>1. \A c \in Campaigns : neg[c] \in [Carriers -> NegotiationStatus]
  BY DEF DealInv, TypeOK
<1>2. \A c \in Campaigns : neg'[c] \in [Carriers -> NegotiationStatus]
  BY <1>1 DEF RejectInvalidated, NegotiationStatus, Concluded
<1>3. neg' \in [Campaigns -> [Carriers -> NegotiationStatus]]
  BY <1>2 DEF RejectInvalidated
<1>4. \A c \in Campaigns : campaign[c] = "COMPLETED" => neg'[c] = neg[c]
  BY DEF RejectInvalidated, Open
<1>5. \A c \in Campaigns, k \in Carriers : neg'[c][k] = "ABSENT" <=> neg[c][k] = "ABSENT"
  BY DEF RejectInvalidated, Invited
<1> QED
  BY <1>3, <1>4, <1>5

\* The sourcing that a new mandate stops stands at SOURCING before the step
\* and at NEEDS_RENEGOTIATION after it, also when it is parked.
LEMMA RenegotiateStands ==
  ASSUME DealInv, Renegotiate, UNCHANGED <<esc, escCall>>
  PROVE  /\ op' \in OperationStatus /\ prev' \in [Escalations -> OperationStatus]
         /\ EscalationNesting'
         /\ \A s : StandsAt(s) <=> s = "SOURCING"
         /\ \A s : StandsAt(s)' <=> s = "NEEDS_RENEGOTIATION"
<1>1. CASE op = "SOURCING"
  <2>1. op' = "NEEDS_RENEGOTIATION" /\ prev' = prev
    BY <1>1 DEF Renegotiate
  <2>2. Roots = {} /\ Roots' = {}
    BY <1>1, <2>1, RootsFrame DEF DealInv, EscalationNesting
  <2> QED
    BY <1>1, <2>1, <2>2 DEF DealInv, TypeOK, EscalationNesting, StandsAt, OperationStatus
<1>2. CASE op # "SOURCING"
  <2>1. op = "ESCALATED" /\ op' = op
    BY <1>2 DEF Renegotiate
  <2>2. PICK e \in SourcingEscalations : prev' = [prev EXCEPT ![e] = "NEEDS_RENEGOTIATION"]
    BY <1>2 DEF Renegotiate
  <2>3. e \in Roots /\ prev[e] = "SOURCING"
    BY <2>2 DEF SourcingEscalations, Roots, Unresolved
  <2>4. Roots = {e}
    BY <2>1, <2>3 DEF DealInv, EscalationNesting
  <2>5. prev' \in [Escalations -> OperationStatus] /\ prev'[e] = "NEEDS_RENEGOTIATION"
    BY <2>2 DEF DealInv, TypeOK, OperationStatus, SourcingEscalations
  <2>6. Roots' = Roots
    BY <2>2, <2>3 DEF DealInv, TypeOK, Roots
  <2> QED
    BY <2>1, <2>3, <2>4, <2>5, <2>6 DEF DealInv, TypeOK, EscalationNesting, StandsAt, Closed
<1> QED
  BY <1>1, <1>2

LEMMA CreateMandateVersionInv ==
  ASSUME DealInv, NEW A \in MandateTerms, CreateMandateVersion(A)
  PROVE  DealInv'
<1>1. /\ version < MaxMandates /\ version' = version + 1
      /\ allows' = [allows EXCEPT ![version + 1] = A]
      /\ campaign' = FailOpenCampaigns /\ neg' = RejectInvalidated
      /\ UNCHANGED <<winner, quote, terms, evidence, recapVars, esc, escCall, join, call>>
  BY DEF CreateMandateVersion
<1>2. version \in Nat /\ version' \in Versions /\ allows' \in [Versions -> SUBSET Offers]
      /\ \A v \in Nat : v <= version => allows'[v] = allows[v]
  BY <1>1, MaxMandatesAssumption, MandateTermsAssumption DEF DealInv, TypeOK, Versions
<1>3. /\ commitment' \in [Commitments -> CommitmentStatus]
      /\ \A i \in Commitments :
           commitment'[i] # commitment[i] =>
             commitment'[i] = "CANCELLED" /\ commitment[i] # "ABSENT"
  <2>1. commitment \in [Commitments -> CommitmentStatus]
    BY DEF DealInv, TypeOK
  <2>2. CASE commitment' = CancelCommitments(PreBooking \cup {"VALID"})
    BY <2>1, <2>2 DEF CancelCommitments, CommitmentStatus, PreBooking
  <2>3. CASE commitment' = commitment
    BY <2>1, <2>3
  <2>4. \/ commitment' = CancelCommitments(PreBooking \cup {"VALID"})
        \/ commitment' = commitment
    BY DEF CreateMandateVersion
  <2> QED
    BY <2>2, <2>3, <2>4
<1>4. /\ campaign' \in [Campaigns -> CampaignStatus]
      /\ OpenCampaigns' = {} /\ WinnerExclusive' /\ QuotesOfInvited'
  BY <1>1, <1>3, RejectedRows, CloseCampaigns
<1>5. /\ op' \in OperationStatus /\ prev' \in [Escalations -> OperationStatus]
      /\ selected' \in Carriers \cup {None}
      /\ EscalationNesting' /\ StageBacked' /\ MarketOrClosing' /\ NobodySelected'
  <2>1. CASE Interrupted
    <3>1. Renegotiate /\ selected' = None
          /\ commitment' = CancelCommitments(PreBooking \cup {"VALID"})
      BY <2>1 DEF CreateMandateVersion
    <3>2. /\ op' \in OperationStatus /\ prev' \in [Escalations -> OperationStatus]
          /\ EscalationNesting'
          /\ \A s : StandsAt(s) <=> s = "SOURCING"
          /\ \A s : StandsAt(s)' <=> s = "NEEDS_RENEGOTIATION"
      BY <1>1, <3>1, RenegotiateStands
    <3>3. \A i \in Commitments : commitment[i] \notin {"VALID", "IN_EXECUTION", "FULFILLED"}
      BY <3>2 DEF DealInv, StageBacked, Backed
    <3>4. \A i \in Commitments : commitment'[i] \notin ActiveCommitment \cup {"FULFILLED"}
      BY <3>1, <3>3 DEF CancelCommitments, ActiveCommitment, PreBooking
    <3>5. StageBacked'
      BY <3>2, <3>4 DEF StageBacked, Backed, ActiveCommitment
    <3>6. MarketOrClosing' /\ NobodySelected'
      BY <1>4, <3>1, <3>4 DEF MarketOrClosing, NobodySelected, ActiveCommitment
    <3> QED
      BY <3>1, <3>2, <3>5, <3>6
  <2>2. CASE ~ Interrupted
    <3>1. UNCHANGED <<operationVars, prev, commitment>>
      BY <2>2 DEF CreateMandateVersion
    <3>2. UNCHANGED <<op, selected, prev, commitment, terms, esc>> /\ Roots' = Roots
      BY <1>1, <3>1, RootsFrame DEF operationVars
    <3>3. EscalationNesting' /\ StageBacked'
      BY <3>2, NestingFrame, StageFrame DEF DealInv
    <3>4. MarketOrClosing'
      BY <1>4, <3>2, StandsAtFrame DEF DealInv, MarketOrClosing
    <3>5. NobodySelected'
      BY <1>4, <3>2, StandsAtFrame DEF DealInv, NobodySelected
    <3> QED
      BY <3>2, <3>3, <3>4, <3>5 DEF DealInv, TypeOK
  <2> QED
    BY <2>1, <2>2
<1>6. TypeOK'
  BY <1>1, <1>2, <1>3, <1>4, <1>5, RejectedRows DEF DealInv, TypeOK, recapVars
<1>7. SingleLiveDeal'
  BY <1>3 DEF DealInv, SingleLiveDeal, ActiveCommitment, PreBooking
<1>8. WithinMandate'
  <2>1. \A c \in Campaigns, k \in Carriers : quote[c][k].valid =>
          quote[c][k].mandate \in Nat /\ quote[c][k].mandate <= version
          /\ quote[c][k].offer \in allows[quote[c][k].mandate]
    BY DEF DealInv, TypeOK, WithinMandate, Quotes, NoQuote, Versions
  <2>2. \A i \in Commitments : commitment'[i] # "ABSENT" =>
          terms[i].mandate \in Nat /\ terms[i].mandate <= version
          /\ terms[i].offer \in allows[terms[i].mandate]
    <3> SUFFICES ASSUME NEW i \in Commitments, commitment[i] # "ABSENT"
                 PROVE  terms[i].mandate \in Nat /\ terms[i].mandate <= version
                        /\ terms[i].offer \in allows[terms[i].mandate]
      BY <1>3
    <3>1. terms[i] \in Terms
          /\ quote[terms[i].campaign][terms[i].carrier] =
              [offer |-> terms[i].offer, mandate |-> terms[i].mandate, valid |-> TRUE]
      BY DEF DealInv, WinnerExclusive
    <3>2. terms[i].campaign \in Campaigns /\ terms[i].carrier \in Carriers
          /\ terms[i].mandate \in Nat
      BY <3>1 DEF Terms, Versions
    <3> QED
      BY <3>1, <3>2 DEF DealInv, WithinMandate
  <2> QED
    BY <1>1, <1>2, <2>1, <2>2 DEF WithinMandate
<1>9. EvidenceBacked' /\ RecapBacked'
  BY <1>1, <1>3, RecapFrame DEF DealInv, EvidenceBacked, recapVars
<1> QED
  BY <1>4, <1>5, <1>6, <1>7, <1>8, <1>9 DEF DealInv

-----------------------------------------------------------------------------
(* The invariant.                                                          *)

LEMMA NextInv == DealInv /\ [Next]_vars => DealInv'
<1> SUFFICES ASSUME DealInv, [Next]_vars PROVE DealInv'
  OBVIOUS
<1>1. CASE Operator
  BY <1>1, CancelOperationInv, CreateMandateVersionInv DEF Operator
<1>2. CASE Market
  BY <1>2, StartCampaignInv, NegotiationEventInv, EvaluateOfferInv, SaveQuoteInv, SelectQuoteInv,
     NoEligibleQuotesInv DEF Market
<1>3. CASE Close
  BY <1>3, AuthorizeInv, RecordVerbalAgreementInv, AttachEvidenceInv, EnqueueSummaryInv,
     SendingInv, MarkSummarySentInv, MarkValidInv, ExecutionInv DEF Close
<1>4. CASE Escalate
  BY <1>4, CallsInv, RequestEscalationInv, JoinInv, ResolveEscalationInv DEF Escalate
<1>5. CASE Restart
  BY <1>5, RestartInv
<1>6. CASE UNCHANGED vars
  BY <1>6, RootsFrame, NestingFrame, StageFrame, MarketFrame, SelectedFrame, SingleFrame,
     WinnerFrame, MandateFrame, EvidenceFrame, QuotesFrame, RecapFrame
  DEF DealInv, TypeOK, vars, OpenCampaigns
<1> QED
  BY <1>1, <1>2, <1>3, <1>4, <1>5, <1>6 DEF Next

\* In every reachable state the parts of DealInv hold together.
THEOREM Invariance == Spec => []DealInv
<1>1. Init => DealInv
  BY InitInv
<1>2. DealInv /\ [Next]_vars => DealInv'
  BY NextInv
<1> QED
  BY <1>1, <1>2, PTL DEF Spec

\* Every row holds values its table allows, whatever handlers run and in
\* whatever order.
THEOREM TypeCorrect == Spec => []TypeOK
<1>1. DealInv => TypeOK
  BY DEF DealInv
<1> QED
  BY <1>1, Invariance, PTL

\* The load is never promised twice: authorize, createMandateVersion and the
\* recap job leave at most one commitment active or fulfilled.
THEOREM OneDeal == Spec => []SingleLiveDeal
<1>1. DealInv => SingleLiveDeal
  BY DEF DealInv
<1> QED
  BY <1>1, Invariance, PTL

\* However requestEscalation and resolve interleave on the calls of an
\* operation, exactly one unresolved escalation knows where it goes back to.
THEOREM EscalationsNest == Spec => []EscalationNesting
<1>1. DealInv => EscalationNesting
  BY DEF DealInv
<1> QED
  BY <1>1, Invariance, PTL

\* A commitment in force is the one its operation, parked or not, stands for:
\* markValid, confirmPickup and confirmDelivery never separate the two.
THEOREM DealAndOperationAgree == Spec => []StageBacked
<1>1. DealInv => StageBacked
  BY DEF DealInv
<1> QED
  BY <1>1, Invariance, PTL

\* No carrier is still bidding while another one is being closed with.
THEOREM MarketShutWhileClosing == Spec => []MarketOrClosing
<1>1. DealInv => MarketOrClosing
  BY DEF DealInv
<1> QED
  BY <1>1, Invariance, PTL

\* A commitment repeats the winning quote, and the winner is the only carrier
\* of its campaign that is not rejected.
THEOREM WinnerTakesAll == Spec => []WinnerExclusive
<1>1. DealInv => WinnerExclusive
  BY DEF DealInv
<1> QED
  BY <1>1, Invariance, PTL

\* Every commitment is on terms the mandate it names allows.
THEOREM MandateRespected == Spec => []WithinMandate
<1>1. DealInv => WithinMandate
  BY DEF DealInv
<1> QED
  BY <1>1, Invariance, PTL

\* A commitment is booked only with evidence and with a recap the provider
\* took, across retries, lost answers and restarts.
THEOREM EvidenceKept == Spec => []EvidenceBacked
<1>1. DealInv => EvidenceBacked
  BY DEF DealInv
<1> QED
  BY <1>1, Invariance, PTL
=============================================================================
