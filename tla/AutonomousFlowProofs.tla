------------------------ MODULE AutonomousFlowProofs ------------------------
(***************************************************************************)
(* The autonomous flow implements the deal lifecycle, so that it keeps     *)
(* every invariant proved of it, and its contract.  It calls a winner once *)
(* at most, when the call is due, and while there is one to find or to     *)
(* call it is at work or has a timer.                                      *)
(***************************************************************************)
EXTENDS AutonomousFlow, DealContractProofs

\* A step of the flow is a step of the deal, or leaves its rows alone.
LEMMA FlowStep == FlowInv /\ [FlowNext]_allVars => [Next]_vars
<1> SUFFICES ASSUME FlowInv, [FlowNext]_allVars PROVE [Next]_vars
  OBVIOUS
<1>1. CASE UNCHANGED allVars
  BY <1>1 DEF allVars
<1>2. ASSUME NEW c \in Campaigns, NEW S \in SUBSET Carriers, BeginCampaign(c, S)
      PROVE  [Next]_vars
  BY <1>2 DEF BeginCampaign, Next, Market
<1>3. ASSUME NEW c \in Campaigns, NEW k \in Carriers, NEW o \in Offers, RecordQuote(c, k, o)
      PROVE  [Next]_vars
  BY <1>3 DEF RecordQuote, Next, Market
<1>4. ASSUME NEW c \in Campaigns, NEW k \in Carriers, CallFails(c, k) \/ SaveCallBrief(c, k)
      PROVE  [Next]_vars
  BY <1>4 DEF CallFails, SaveCallBrief, Next, Market
<1>5. ASSUME NEW c \in Campaigns, NEW k \in Carriers, CarrierTalks(c, k)
      PROVE  [Next]_vars
  BY <1>5 DEF CarrierTalks, Next, Market
<1>6. ASSUME NEW c \in Campaigns, Elapse(c) PROVE [Next]_vars
  BY <1>6 DEF Elapse
<1>7. CASE Elsewhere
  BY <1>7 DEF Elsewhere, Next
<1>8. CASE TimerFires
  BY <1>8 DEF TimerFires
<1>9. CASE Advance
  <2>1. CASE Look
    BY <2>1 DEF Look
  <2>2. CASE CallWinner
    BY <2>2 DEF CallWinner
  <2>3. CASE Select
    BY <2>3 DEF Select, Next, Market, FlowInv
  <2>4. CASE AuthorizeWinner
    BY <2>4 DEF AuthorizeWinner, Next, Close, FlowInv
  <2> QED
    BY <1>9, <2>1, <2>2, <2>3, <2>4 DEF Advance
<1>10. CASE FlowRestart
  BY <1>10 DEF FlowRestart, Next
<1>11. ASSUME NEW o \in OtherCalls, OperatorCalls(o) \/ CarrierPhonesIn(o) PROVE [Next]_vars
  BY <1>11 DEF OperatorCalls, CarrierPhonesIn
<1> QED
  BY <1>1, <1>2, <1>3, <1>4, <1>5, <1>6, <1>7, <1>8, <1>9, <1>10, <1>11 DEF FlowNext

-----------------------------------------------------------------------------
\* Steps that do not call anybody keep the calls as they are.
LEMMA NoCall ==
  ASSUME FlowInv, UNCHANGED made,
         latest' \in Campaigns \cup {None},
         step' \in {"select", "authorize", "call"} => latest' \in Campaigns
  PROVE  FlowInv'
BY DEF FlowInv, OneCommitCall

LEMMA FlowInitInv == FlowInit => FlowInv
BY DEF FlowInit, FlowInv, OneCommitCall

LEMMA CallWinnerInv == FlowInv /\ CallWinner => FlowInv'
<1> SUFFICES ASSUME FlowInv, CallWinner PROVE FlowInv'
  OBVIOUS
<1>1. latest' = latest /\ step' = "idle"
  BY DEF CallWinner
<1>2. CASE UNCHANGED made
  BY <1>1, <1>2, NoCall DEF FlowInv
<1>3. CASE ~ AlreadyCalled
           /\ \E i \in Commitments : made' = [made EXCEPT ![i] = @ + 1]
  <2>1. PICK i \in Commitments : made' = [made EXCEPT ![i] = @ + 1]
    BY <1>3
  <2>2. \A j \in Commitments : made[j] = 0
    BY <1>3 DEF AlreadyCalled, FlowInv
  <2>3. \A j \in Commitments : made'[j] = IF j = i THEN 1 ELSE 0
    BY <2>1, <2>2 DEF FlowInv
  <2> QED
    BY <1>1, <2>1, <2>3 DEF FlowInv, OneCommitCall
<1> QED
  <2>1. PICK i \in ActiveCommitments :
          \/ UNCHANGED made
          \/ ~ AlreadyCalled /\ made' = [made EXCEPT ![i] = IF Callable(i) THEN @ + 1 ELSE @]
    BY DEF CallWinner
  <2>2. i \in Commitments
    BY DEF ActiveCommitments
  <2>3. CASE ~ Callable(i)
    BY <2>1, <2>2, <2>3, <1>2 DEF FlowInv
  <2>4. CASE Callable(i)
    BY <2>1, <2>2, <2>4, <1>2, <1>3
  <2> QED
    BY <2>3, <2>4

LEMMA FlowNextInv == FlowInv /\ [FlowNext]_allVars => FlowInv'
<1> SUFFICES ASSUME FlowInv, [FlowNext]_allVars PROVE FlowInv'
  OBVIOUS
<1>1. CASE UNCHANGED allVars
  BY <1>1, NoCall DEF allVars, flowVars, FlowInv
<1>2. ASSUME NEW c \in Campaigns, NEW S \in SUBSET Carriers, BeginCampaign(c, S)
      PROVE  FlowInv'
  BY <1>2, NoCall DEF BeginCampaign, Idle
<1>3. ASSUME NEW c \in Campaigns, NEW k \in Carriers, NEW o \in Offers, RecordQuote(c, k, o)
      PROVE  FlowInv'
  BY <1>3, NoCall DEF RecordQuote, FlowInv
<1>4. ASSUME NEW c \in Campaigns, NEW k \in Carriers, CallFails(c, k) \/ SaveCallBrief(c, k)
      PROVE  FlowInv'
  BY <1>4, NoCall DEF CallFails, SaveCallBrief, FlowInv
<1>5. ASSUME NEW c \in Campaigns, NEW k \in Carriers, CarrierTalks(c, k)
      PROVE  FlowInv'
  BY <1>5, NoCall DEF CarrierTalks, flowVars, FlowInv
<1>6. ASSUME NEW c \in Campaigns, Elapse(c) PROVE FlowInv'
  BY <1>6, NoCall DEF Elapse, FlowInv
<1>7. CASE Elsewhere
  BY <1>7, NoCall DEF Elsewhere, flowVars, FlowInv
<1>8. CASE TimerFires
  BY <1>8, NoCall DEF TimerFires, FlowInv
<1>9. CASE Look
  BY <1>9, NoCall DEF Look, Goes, FlowInv
<1>10. CASE Select
  BY <1>10, NoCall DEF Select, Goes, FlowInv
<1>11. CASE AuthorizeWinner
  BY <1>11, NoCall DEF AuthorizeWinner, Goes, FlowInv
<1>12. CASE CallWinner
  BY <1>12, CallWinnerInv
<1>13. CASE FlowRestart
  BY <1>13, NoCall DEF FlowRestart, FlowInv
<1>14. ASSUME NEW o \in OtherCalls, OperatorCalls(o) \/ CarrierPhonesIn(o) PROVE FlowInv'
  BY <1>14, NoCall DEF OperatorCalls, CarrierPhonesIn, FlowInv
<1> QED
  BY <1>1, <1>2, <1>3, <1>4, <1>5, <1>6, <1>7, <1>8, <1>9, <1>10, <1>11, <1>12, <1>13, <1>14
     DEF FlowNext, Advance

LEMMA FlowInvariance == FlowSpec => []FlowInv
BY FlowInitInv, FlowNextInv, PTL DEF FlowSpec

-----------------------------------------------------------------------------
\* The flow, restarts in the middle of it included, takes no step the deal's
\* own components do not take.
THEOREM FlowImplementsDeal == FlowSpec => FlowIsDeal
<1>1. FlowInit => Init
  BY DEF FlowInit
<1> QED
  BY <1>1, FlowStep, FlowInvariance, PTL DEF FlowSpec, FlowIsDeal, Spec

\* So an operation handled by itself keeps all the deal's invariants.
THEOREM FlowKeepsDeal == FlowSpec => []DealInv
BY FlowImplementsDeal, Invariance DEF FlowIsDeal

\* And it keeps the contract: what it selects, authorises and has called to
\* close by itself is promised as what an operator does is.
THEOREM FlowKeepsContract == FlowSpec => KeepsContract /\ [][DealKept]_vars
BY FlowImplementsDeal, Implementation, DealIsKept DEF FlowIsDeal

\* The winner is called to close at most once, however often the flow is set
\* going and wherever it is cut off.
THEOREM CalledToCloseOnce == FlowSpec => []OneCommitCall
<1>1. FlowInv => OneCommitCall
  BY DEF FlowInv
<1> QED
  BY <1>1, FlowInvariance, PTL

-----------------------------------------------------------------------------
\* Who may still be called to close.
CurrentWin(c) == campaign[c] = "COMPLETED" /\ quote[c][winner[c]].mandate = version

\* No quote is of a mandate to come; a campaign won under the active mandate is
\* the latest, and so is the campaign of a commitment that is being closed.
CallInv ==
  /\ \A c \in Campaigns, k \in Carriers : quote[c][k].mandate <= version
  /\ \A c \in Campaigns : CurrentWin(c) => selected # None /\ c = latest
  /\ \A i \in Commitments : commitment[i] \in PreBooking => terms[i].campaign = latest
  /\ step \in {"authorize", "call"} => campaign[latest] = "COMPLETED"

\* Steps that leave the market and the mandate alone and start to close nothing.
LEMMA NothingWon ==
  ASSUME CallInv, UNCHANGED <<campaign, winner, quote, selected, version, terms, latest>>,
         \A i \in Commitments : commitment'[i] \in PreBooking => commitment[i] \in PreBooking,
         step' \in {"authorize", "call"} => campaign[latest] = "COMPLETED"
  PROVE  CallInv'
BY DEF CallInv, CurrentWin

\* Steps of a campaign that is open, and of its quotes.
LEMMA OpenMarket ==
  ASSUME FlowInv, CallInv, NEW c \in Campaigns,
         campaign[c] # "COMPLETED", campaign'[c] # "COMPLETED",
         \A d \in Campaigns : d # c => campaign'[d] = campaign[d] /\ quote'[d] = quote[d],
         \A k \in Carriers : quote'[c][k].mandate <= version,
         UNCHANGED <<winner, selected, version, commitment, terms, latest>>,
         step' \in {"authorize", "call"} => step \in {"authorize", "call"}
  PROVE  CallInv'
<1>1. \A d \in Campaigns, k \in Carriers : quote'[d][k].mandate <= version'
  BY DEF CallInv
<1>2. \A d \in Campaigns : CurrentWin(d)' => CurrentWin(d)
  BY DEF CurrentWin
<1>3. step' \in {"authorize", "call"} => campaign'[latest'] = "COMPLETED"
  <2> SUFFICES ASSUME step' \in {"authorize", "call"} PROVE campaign'[latest'] = "COMPLETED"
    OBVIOUS
  <2>1. campaign[latest] = "COMPLETED" /\ latest \in Campaigns
    BY DEF CallInv, FlowInv
  <2> QED
    BY <2>1
<1> QED
  BY <1>1, <1>2, <1>3 DEF CallInv

\* A campaign is begun only while nothing has been won that may still be closed.
LEMMA BeginNothing ==
  ASSUME DealInv, FlowInv, CallInv, NEW c \in Campaigns, NEW S \in SUBSET Carriers, BeginCampaign(c, S)
  PROVE  CallInv'
<1>1. op \in Startable /\ campaign[c] = "ABSENT" /\ TypeOK
  BY DEF BeginCampaign, StartCampaign, StartCampaignFails, CreateCampaign, DealInv
<1>2. selected = None
  BY <1>1 DEF DealInv, NobodySelected, StandsAt, Startable
<1>3. \A i \in Commitments : commitment[i] \notin PreBooking
  BY <1>1 DEF DealInv, MarketOrClosing, StandsAt, Startable
<1>4. /\ UNCHANGED <<winner, quote, selected, version, commitment, terms, step>>
      /\ \A d \in Campaigns : campaign'[d] = "COMPLETED" => campaign[d] = "COMPLETED"
  BY <1>1 DEF BeginCampaign, StartCampaign, StartCampaignFails, CallsEnqueued, TypeOK,
     mandateVars, commitmentVars
<1>5. step' = "idle"
  BY <1>4 DEF BeginCampaign, Idle
<1>6. \A d \in Campaigns : ~ CurrentWin(d)'
  BY <1>2, <1>4 DEF CallInv, CurrentWin
<1> QED
  BY <1>3, <1>4, <1>5, <1>6 DEF CallInv

LEMMA EventKeeps ==
  ASSUME TypeOK, FlowInv, CallInv, NEW c \in Campaigns, NEW k \in Carriers, NEW t,
         NegotiationEvent(c, k, t), UNCHANGED latest,
         step' \in {"authorize", "call"} => step \in {"authorize", "call"}
  PROVE  CallInv'
<1>1. /\ campaign' = [campaign EXCEPT ![c] = Refreshed(c, neg')]
      /\ UNCHANGED <<winner, quote, selected, version, commitment, terms>>
  BY DEF NegotiationEvent, operationVars, mandateVars, commitmentVars
<1>2. Refreshed(c, neg') = campaign[c] \/ (Refreshed(c, neg') # "COMPLETED" /\ campaign[c] # "COMPLETED")
  BY DEF Refreshed, Open
<1>3. \A d \in Campaigns : d # c => campaign'[d] = campaign[d]
  BY <1>1 DEF TypeOK
<1>4. campaign'[c] = Refreshed(c, neg')
  BY <1>1 DEF TypeOK
<1>5. CASE campaign' = campaign
  BY <1>1, <1>5, NothingWon DEF CallInv
<1>6. CASE campaign[c] # "COMPLETED" /\ campaign'[c] # "COMPLETED"
  BY <1>1, <1>3, <1>6, OpenMarket DEF CallInv
<1> QED
  BY <1>1, <1>2, <1>4, <1>5, <1>6 DEF TypeOK

LEMMA QuoteKeeps ==
  ASSUME DealInv, FlowInv, CallInv, NEW c \in Campaigns, NEW k \in Carriers, NEW o \in Offers,
         RecordQuote(c, k, o)
  PROVE  CallInv'
<1>1. TypeOK /\ campaign[c] # "COMPLETED" /\ UNCHANGED latest /\ step' = "look"
  BY DEF RecordQuote, SaveQuote, AcceptsOffer, Open, DealInv
<1>2. CASE SaveQuote(c, k, o)
  <2>1. /\ UNCHANGED <<winner, selected, version, commitment, terms>>
        /\ \A d \in Campaigns : d # c => campaign'[d] = campaign[d] /\ quote'[d] = quote[d]
        /\ campaign'[c] # "COMPLETED"
    BY <1>1, <1>2 DEF SaveQuote, WithQuoteSaved, TypeOK, operationVars, mandateVars, commitmentVars
  <2>2. \A j \in Carriers : quote'[c][j].mandate <= version
    <3>1. \A j \in Carriers : quote'[c][j] =
            IF j = k THEN [offer |-> o, mandate |-> version, valid |-> o \in allows[version]] ELSE quote[c][j]
      BY <1>1, <1>2 DEF SaveQuote, TypeOK
    <3>2. version \in Nat
      BY <1>1, MaxMandatesAssumption DEF TypeOK, Versions
    <3> QED
      BY <3>1, <3>2 DEF CallInv
  <2> QED
    BY <1>1, <2>1, <2>2, OpenMarket
<1>3. CASE UNCHANGED vars
  BY <1>1, <1>3, NothingWon DEF vars, operationVars, mandateVars, campaignVars, commitmentVars
<1> QED
  BY <1>2, <1>3 DEF RecordQuote

LEMMA TalkKeeps ==
  ASSUME DealInv, FlowInv, CallInv, NEW c \in Campaigns, NEW k \in Carriers, CarrierTalks(c, k)
  PROVE  CallInv'
<1>1. TypeOK /\ UNCHANGED <<latest, step>>
  BY DEF CarrierTalks, flowVars, DealInv
<1>2. CASE \E t \in {"CALLING", "NEGOTIATING"} : NegotiationEvent(c, k, t)
  BY <1>1, <1>2, EventKeeps
<1>3. CASE EvaluateOffer(c, k)
  <2>1. /\ UNCHANGED <<winner, quote, selected, version, commitment, terms>>
        /\ \A d \in Campaigns : d # c => campaign'[d] = campaign[d]
        /\ campaign[c] # "COMPLETED" /\ campaign'[c] # "COMPLETED"
    BY <1>1, <1>3 DEF EvaluateOffer, AcceptsOffer, Open, TypeOK, operationVars, mandateVars, commitmentVars
  <2> QED
    BY <1>1, <2>1, OpenMarket DEF CallInv
<1> QED
  BY <1>2, <1>3 DEF CarrierTalks

\* A commitment is only ever made for the latest campaign.
LEMMA AuthorizeKeeps ==
  ASSUME DealInv, CallInv, NEW i \in Commitments, NEW c \in Campaigns, Authorize(i, c),
         UNCHANGED latest,
         step' \in {"authorize", "call"} => campaign[latest] = "COMPLETED"
  PROVE  CallInv'
<1>1. TypeOK /\ Authorizable(c) /\ UNCHANGED <<campaign, winner, quote, selected, version>>
  BY DEF Authorize, DealInv, operationVars, mandateVars
<1>2. CurrentWin(c) /\ c = latest
  BY <1>1 DEF Authorizable, CurrentWin, CallInv
<1>3. \A d \in Campaigns : CurrentWin(d)' = CurrentWin(d)
  BY <1>1 DEF CurrentWin
<1>4. \A j \in Commitments : commitment'[j] \in PreBooking => terms'[j].campaign = latest
  <2> SUFFICES ASSUME NEW j \in Commitments, commitment'[j] \in PreBooking
               PROVE  terms'[j].campaign = latest
    OBVIOUS
  <2>1. CASE j = i
    BY <1>1, <1>2, <2>1 DEF Authorize, TypeOK
  <2>2. CASE j # i
    BY <1>1, <2>2 DEF Authorize, TypeOK, CallInv
  <2> QED
    BY <2>1, <2>2
<1> QED
  BY <1>1, <1>3, <1>4 DEF CallInv

LEMMA CancelKeeps ==
  ASSUME DealInv, CallInv, CancelOperation, UNCHANGED latest, step' \notin {"authorize", "call"}
  PROVE  CallInv'
<1>1. TypeOK /\ UNCHANGED <<winner, quote, selected, version, terms>>
  BY DEF CancelOperation, DealInv, mandateVars
<1>2. \A c \in Campaigns : campaign'[c] = "COMPLETED" => campaign[c] = "COMPLETED"
  BY DEF CancelOperation, FailOpenCampaigns
<1>3. \A c \in Campaigns : CurrentWin(c)' => CurrentWin(c)
  BY <1>1, <1>2 DEF CurrentWin
<1>4. \A i \in Commitments : commitment'[i] \in PreBooking => commitment[i] \in PreBooking
  BY DEF CancelOperation, CancelCommitments, PreBooking
<1> QED
  BY <1>1, <1>3, <1>4 DEF CallInv

\* Nothing has been won under a new mandate.
LEMMA MandateKeeps ==
  ASSUME DealInv, CallInv, NEW A, CreateMandateVersion(A), UNCHANGED latest,
         step' \notin {"authorize", "call"}
  PROVE  CallInv'
<1>1. TypeOK /\ version' = version + 1 /\ version \in Nat /\ UNCHANGED <<winner, quote, terms>>
  BY MaxMandatesAssumption DEF CreateMandateVersion, DealInv, TypeOK, Versions
<1>2. \A c \in Campaigns, k \in Carriers : quote[c][k].mandate \in Nat
  BY <1>1, MaxMandatesAssumption DEF TypeOK, Quotes, NoQuote, Versions
<1>3. \A c \in Campaigns, k \in Carriers : quote'[c][k].mandate <= version'
                                           /\ quote[c][k].mandate # version'
  BY <1>1, <1>2 DEF CallInv
<1>4. \A c \in Campaigns : campaign'[c] = "COMPLETED" => campaign[c] = "COMPLETED"
  BY DEF CreateMandateVersion, FailOpenCampaigns
<1>5. \A c \in Campaigns : campaign[c] = "COMPLETED" => winner[c] \in Carriers
  BY DEF DealInv, WinnerExclusive, Invited
<1>6. \A c \in Campaigns : ~ CurrentWin(c)'
  BY <1>1, <1>3, <1>4, <1>5 DEF CurrentWin
<1>7. \A i \in Commitments : commitment'[i] \in PreBooking => commitment[i] \in PreBooking
  BY DEF CreateMandateVersion, CancelCommitments, PreBooking
<1> QED
  BY <1>1, <1>3, <1>6, <1>7 DEF CallInv

LEMMA ElsewhereKeeps ==
  ASSUME DealInv, CallInv, Elsewhere
  PROVE  CallInv'
<1>1. TypeOK /\ UNCHANGED <<latest, step>> /\ step = "idle"
  BY DEF Elsewhere, Idle, flowVars, DealInv
<1>2. CASE Operator
  BY <1>1, <1>2, CancelKeeps, MandateKeeps DEF Operator
<1>3. CASE Escalate
  <2>1. UNCHANGED <<campaign, winner, quote, selected, version, terms, commitment>>
    BY <1>3 DEF Escalate, CallStarts, CallEnds, RequestEscalation, JoinHuman, StartJoin, HumanJoins,
       JoinFails, ResolveEscalation, operationVars, campaignVars, mandateVars, commitmentVars
  <2> QED
    BY <1>1, <2>1, NothingWon
<1>4. ASSUME NEW i \in Commitments, NEW c \in Campaigns, Authorize(i, c) PROVE CallInv'
  BY <1>1, <1>4, AuthorizeKeeps
<1>5. ASSUME NEW i \in Commitments,
             \/ RecordVerbalAgreement(i) \/ AttachEvidence(i) \/ EnqueueSummary(i)
             \/ StartSummary(i) \/ ProviderAccepts(i) \/ ProviderFails(i)
             \/ MarkSummarySent(i) \/ MarkValid(i) \/ ConfirmPickup(i) \/ ConfirmDelivery(i)
      PROVE  CallInv'
  <2>1. UNCHANGED <<campaign, winner, quote, selected, version, terms>>
    BY <1>5 DEF RecordVerbalAgreement, AttachEvidence, EnqueueSummary, StartSummary, ProviderAccepts,
       ProviderFails, MarkSummarySent, MarkValid, ConfirmPickup, ConfirmDelivery,
       operationVars, campaignVars, mandateVars, commitmentVars
  <2>2. \A j \in Commitments : commitment'[j] \in PreBooking => commitment[j] \in PreBooking
    BY <1>1, <1>5 DEF RecordVerbalAgreement, AttachEvidence, EnqueueSummary, SummaryRequested,
       StartSummary, ProviderAccepts, ProviderFails, MarkSummarySent, MarkValid, ConfirmPickup,
       ConfirmDelivery, commitmentVars, TypeOK, PreBooking
  <2> QED
    BY <1>1, <2>1, <2>2, NothingWon
<1> QED
  BY <1>2, <1>3, <1>4, <1>5 DEF Elsewhere, Close

\* The winner of the latest campaign is selected.
LEMMA SelectKeeps ==
  ASSUME DealInv, FlowInv, CallInv, Select
  PROVE  CallInv'
<1>1. TypeOK /\ latest \in Campaigns /\ latest' = latest
  BY DEF Select, Goes, FlowInv, DealInv
<1>2. ASSUME NEW k \in Carriers, SelectQuote(latest, k) PROVE CallInv'
  <2>1. /\ campaign' = [campaign EXCEPT ![latest] = "COMPLETED"] /\ selected' = k
        /\ winner' = [winner EXCEPT ![latest] = k]
        /\ UNCHANGED <<quote, version, commitment, terms>> /\ campaign[latest] \in Open
    BY <1>2 DEF SelectQuote, Selectable, mandateVars, commitmentVars
  <2>2. selected = None
    BY <1>1, <2>1 DEF DealInv, NobodySelected, OpenCampaigns
  <2>3. \A d \in Campaigns : CurrentWin(d)' => d = latest
    BY <1>1, <2>1, <2>2 DEF CallInv, CurrentWin, TypeOK
  <2>4. k # None
    BY NoneAssumption
  <2>5. campaign'[latest] = "COMPLETED"
    BY <1>1, <2>1 DEF TypeOK
  <2> QED
    BY <1>1, <2>1, <2>3, <2>4, <2>5 DEF CallInv
<1>3. CASE NoEligibleQuotes(latest) /\ Goes("idle")
  <2>1. /\ campaign' = [campaign EXCEPT ![latest] = "FAILED"] /\ step' = "idle"
        /\ UNCHANGED <<winner, quote, selected, version, commitment, terms>>
        /\ campaign[latest] \in Open
    BY <1>3 DEF NoEligibleQuotes, Selectable, Goes, mandateVars, commitmentVars
  <2>2. /\ \A d \in Campaigns : d # latest => campaign'[d] = campaign[d]
        /\ campaign[latest] # "COMPLETED" /\ campaign'[latest] # "COMPLETED"
    BY <1>1, <2>1 DEF TypeOK, Open
  <2> QED
    BY <1>1, <2>1, <2>2, OpenMarket DEF CallInv
<1>4. CASE UNCHANGED vars /\ Goes("idle")
  BY <1>1, <1>4, NothingWon DEF vars, Goes
<1> QED
  BY <1>2, <1>3, <1>4 DEF Select

LEMMA CallInvariance == FlowSpec => []CallInv
<1>1. FlowInit => CallInv
  BY MaxMandatesAssumption DEF FlowInit, Init, CallInv, CurrentWin, NoQuote, PreBooking
<1>2. ASSUME DealInv, FlowInv, CallInv, [FlowNext]_allVars PROVE CallInv'
  <2>1. CASE UNCHANGED allVars
    BY <1>2, <2>1, NothingWon DEF allVars, vars, flowVars, CallInv
  <2>2. ASSUME NEW c \in Campaigns, NEW k \in Carriers, CallFails(c, k) \/ SaveCallBrief(c, k)
        PROVE  CallInv'
    BY <1>2, <2>2, EventKeeps DEF CallFails, SaveCallBrief, DealInv
  <2>3. ASSUME NEW c \in Campaigns, Elapse(c) PROVE CallInv'
    BY <1>2, <2>3, NothingWon DEF Elapse, vars, CallInv
  <2>4. CASE TimerFires
    BY <1>2, <2>4, NothingWon DEF TimerFires, vars
  <2>5. CASE Look
    BY <1>2, <2>5, NothingWon DEF Look, Goes, vars
  <2>6. CASE AuthorizeWinner
    <3>1. step = "authorize" /\ campaign[latest] = "COMPLETED" /\ latest \in Campaigns /\ latest' = latest
      BY <1>2, <2>6 DEF AuthorizeWinner, Goes, CallInv, FlowInv
    <3>2. CASE UNCHANGED vars
      BY <1>2, <3>1, <3>2, NothingWon DEF vars
    <3>3. CASE \E i \in Commitments : Authorize(i, latest)
      BY <1>2, <3>1, <3>3, AuthorizeKeeps
    <3> QED
      BY <2>6, <3>2, <3>3 DEF AuthorizeWinner
  <2>7. CASE CallWinner
    BY <1>2, <2>7, NothingWon DEF CallWinner, vars
  <2>8. CASE FlowRestart
    <3>1. UNCHANGED <<campaign, winner, quote, selected, version, terms, commitment, latest>>
          /\ step' \notin {"authorize", "call"}
      BY <2>8 DEF FlowRestart, Restart, operationVars, campaignVars, mandateVars, commitmentVars
    <3> QED
      BY <1>2, <3>1, NothingWon
  <2>9. ASSUME NEW o \in OtherCalls, OperatorCalls(o) \/ CarrierPhonesIn(o) PROVE CallInv'
    BY <1>2, <2>9, NothingWon DEF OperatorCalls, CarrierPhonesIn, vars, CallInv
  <2> QED
    BY <1>2, <2>1, <2>2, <2>3, <2>4, <2>5, <2>6, <2>7, <2>8, <2>9, BeginNothing, QuoteKeeps, TalkKeeps,
       ElsewhereKeeps, SelectKeeps DEF FlowNext, Advance
<1>3. DealInv /\ FlowInv /\ CallInv /\ [FlowNext]_allVars => CallInv'
  BY <1>2
<1> QED
  BY <1>1, <1>3, FlowKeepsDeal, FlowInvariance, PTL DEF FlowSpec

\* The call to close goes to the carrier of the commitment in force, drawn from
\* the latest campaign, and only once its last quote is 45 seconds old.
THEOREM CallIsDue == FlowSpec => CommitCallDue
<1>1. ASSUME CallInv, FlowInv, [FlowNext]_allVars
      PROVE  [ \A i \in Commitments : made'[i] # made[i] =>
                 /\ commitment[i] \in PreBooking
                 /\ selected = terms[i].carrier
                 /\ terms[i].campaign = latest
                 /\ campaign[latest] = "COMPLETED"
                 /\ latest \notin recent ]_allVars
  <2> SUFFICES ASSUME NEW i \in Commitments, made'[i] # made[i]
               PROVE  /\ commitment[i] \in PreBooking
                      /\ selected = terms[i].carrier
                      /\ terms[i].campaign = latest
                      /\ campaign[latest] = "COMPLETED"
                      /\ latest \notin recent
    OBVIOUS
  <2>1. CallWinner
    BY <1>1 DEF FlowNext, Advance, allVars, flowVars, BeginCampaign, RecordQuote, CallFails,
       SaveCallBrief, CarrierTalks, Elapse, Elsewhere, TimerFires, Look, Select, AuthorizeWinner,
       Goes, FlowRestart, OperatorCalls, CarrierPhonesIn
  <2>2. Callable(i) /\ latest \notin recent /\ step = "call"
    BY <1>1, <2>1 DEF CallWinner, FlowInv
  <2> QED
    BY <1>1, <2>2 DEF Callable, CallInv
<1> QED
  BY <1>1, CallInvariance, FlowInvariance, PTL DEF FlowSpec, CommitCallDue

-----------------------------------------------------------------------------
\* The flow's own variables, the deal's being of their types.
OwnTypes ==
  /\ FlowInv
  /\ step \in Steps
  /\ recent \subseteq Campaigns
  /\ timer \in Campaigns \cup {None}
  /\ others \in [OtherCalls -> Campaigns \cup {None}]
  /\ restarts \in 0..MaxRestarts

LEMMA OwnTypesNext == CallInv /\ OwnTypes /\ [FlowNext]_allVars => OwnTypes'
<1> SUFFICES ASSUME CallInv, OwnTypes, [FlowNext]_allVars PROVE OwnTypes'
  OBVIOUS
<1> USE DEF Steps
<1>1. FlowInv' /\ FlowInv
  BY FlowNextInv DEF OwnTypes
<1>2. CASE UNCHANGED allVars
  BY <1>1, <1>2 DEF allVars, flowVars, OwnTypes
<1>3. ASSUME NEW c \in Campaigns, NEW S \in SUBSET Carriers, BeginCampaign(c, S)
      PROVE  OwnTypes'
  BY <1>1, <1>3 DEF BeginCampaign, OwnTypes
<1>4. ASSUME NEW c \in Campaigns, NEW k \in Carriers, NEW o \in Offers, RecordQuote(c, k, o)
      PROVE  OwnTypes'
  BY <1>1, <1>4 DEF RecordQuote, OwnTypes
<1>5. ASSUME NEW c \in Campaigns, NEW k \in Carriers,
             CallFails(c, k) \/ SaveCallBrief(c, k) \/ CarrierTalks(c, k)
      PROVE  OwnTypes'
  BY <1>1, <1>5 DEF CallFails, SaveCallBrief, CarrierTalks, flowVars, OwnTypes
<1>6. ASSUME NEW c \in Campaigns, Elapse(c) PROVE OwnTypes'
  BY <1>1, <1>6 DEF Elapse, OwnTypes
<1>7. CASE Elsewhere \/ TimerFires
  BY <1>1, <1>7 DEF Elsewhere, TimerFires, flowVars, OwnTypes
<1>8. CASE Look
  BY <1>1, <1>8 DEF Look, Goes, OwnTypes
<1>9. CASE Select \/ AuthorizeWinner
  BY <1>1, <1>9 DEF Select, AuthorizeWinner, Goes, OwnTypes
<1>10. CASE CallWinner
  BY <1>1, <1>10 DEF CallWinner, OwnTypes, FlowInv
<1>11. CASE FlowRestart
  <2>1. restarts' \in 0..MaxRestarts
    BY <1>11, FlowBoundsAssumption DEF FlowRestart, OwnTypes
  <2> QED
    BY <1>1, <1>11, <2>1 DEF FlowRestart, OwnTypes
<1>12. ASSUME NEW o \in OtherCalls, OperatorCalls(o) \/ CarrierPhonesIn(o) PROVE OwnTypes'
  <2>1. others' = [others EXCEPT ![o] = latest]
    BY <1>12 DEF OperatorCalls, CarrierPhonesIn, Callable, CallInv
  <2>2. others' \in [OtherCalls -> Campaigns \cup {None}]
    BY <1>1, <2>1 DEF OwnTypes, FlowInv
  <2> QED
    BY <1>1, <1>12, <2>2 DEF OperatorCalls, CarrierPhonesIn, OwnTypes
<1> QED
  BY <1>2, <1>3, <1>4, <1>5, <1>6, <1>7, <1>8, <1>9, <1>10, <1>11, <1>12 DEF FlowNext, Advance

\* The flow and the deal keep their types.
THEOREM FlowTypeCorrect == FlowSpec => []FlowTypeOK
<1>1. FlowInit => OwnTypes
  BY FlowInitInv, FlowBoundsAssumption DEF FlowInit, OwnTypes, Steps
<1>2. DealInv /\ OwnTypes => FlowTypeOK
  <2> SUFFICES ASSUME DealInv, OwnTypes PROVE FlowTypeOK
    OBVIOUS
  <2>1. \A i \in Commitments : made[i] = 0 \/ made[i] = 1
    BY DEF OwnTypes, FlowInv, OneCommitCall
  <2>2. made \in [Commitments -> 0..MaxCommits]
    BY <2>1, FlowBoundsAssumption DEF OwnTypes, FlowInv
  <2> QED
    BY <2>2 DEF FlowTypeOK, DealInv, OwnTypes, FlowInv
<1> QED
  BY <1>1, <1>2, OwnTypesNext, CallInvariance, FlowKeepsDeal, PTL DEF FlowSpec

-----------------------------------------------------------------------------
\* Why the winner is never lost sight of.

\* Only the latest campaign can be open.
LatestOpen == \A c \in Campaigns : campaign[c] \in Open => c = latest

\* A campaign whose carriers have all concluded says so: whoever concludes last
\* makes the campaign ready in the same transaction.
ReadyInTime ==
  \A c \in Campaigns : campaign[c] \in Open /\ AllConcluded(neg, c) => campaign[c] = "READY_TO_SELECT"

\* An operation that sources carriers has a campaign that is open, or a winner
\* that may be committed to.
Sourced ==
  Undisturbed /\ op = "SOURCING" =>
    latest \in Campaigns /\ (campaign[latest] \in Open \/ Authorizable(latest))

\* What is being closed is closed with the selected carrier.
ClosingWithSelected ==
  \A i \in Commitments : commitment[i] \in PreBooking => selected = terms[i].carrier

PursuitInv ==
  /\ LatestOpen
  /\ ReadyInTime
  /\ Sourced
  /\ ClosingWithSelected
  /\ step = "select" => campaign[latest] = "READY_TO_SELECT"
  /\ WinnerPursued

\* Steps that leave the market alone, and stop nothing that has to go on.
LEMMA MarketStill ==
  ASSUME PursuitInv, UNCHANGED <<campaign, winner, quote, neg, selected, version, allows, terms, latest>>,
         \A i \in Commitments : commitment'[i] \in PreBooking => commitment[i] \in PreBooking,
         Undisturbed' => Undisturbed,
         Undisturbed' /\ op' = "SOURCING" => op = "SOURCING",
         step' = "select" => campaign[latest] = "READY_TO_SELECT",
         WinnerPursued'
  PROVE  PursuitInv'
<1>1. LatestOpen' /\ ReadyInTime'
  BY DEF PursuitInv, LatestOpen, ReadyInTime, AllConcluded, Invited
<1>2. Sourced'
  BY DEF PursuitInv, Sourced, Authorizable
<1>3. ClosingWithSelected'
  BY DEF PursuitInv, ClosingWithSelected
<1> QED
  BY <1>1, <1>2, <1>3 DEF PursuitInv

\* The winner stays pursued if nothing is stopped and nothing becomes decidable.
LEMMA StillPursued ==
  ASSUME WinnerPursued, UNCHANGED <<campaign, quote, neg, version, allows, latest>>,
         AlreadyCalled => AlreadyCalled',
         Undisturbed' => Undisturbed,
         Undisturbed' /\ op' = "SOURCING" => op = "SOURCING",
         step' # "idle" \/ timer' # None \/ (step' = step /\ timer' = timer)
  PROVE  WinnerPursued'
<1> SUFFICES ASSUME Undisturbed', ~ AlreadyCalled', op' = "SOURCING",
                    NEW c \in Campaigns, Decidable(c)' \/ (c = latest' /\ campaign'[c] = "COMPLETED")
             PROVE  step' # "idle" \/ timer' # None
  BY DEF WinnerPursued
<1>1. Undisturbed /\ op = "SOURCING" /\ ~ AlreadyCalled
  OBVIOUS
<1>2. Decidable(c) \/ (c = latest /\ campaign[c] = "COMPLETED")
  BY <1>1 DEF Decidable, Selectable, Candidates, AllConcluded, Invited
<1> QED
  BY <1>1, <1>2 DEF WinnerPursued

\* Steps of a campaign that is open and stays open: if its carriers have all
\* concluded it is ready, and the flow is set going.
LEMMA Bargained ==
  ASSUME PursuitInv, NEW c \in Campaigns, campaign[c] \in Open, campaign'[c] \in Open,
         \A d \in Campaigns : d # c => campaign'[d] = campaign[d] /\ neg'[d] = neg[d],
         AllConcluded(neg', c) => campaign'[c] = "READY_TO_SELECT" /\ step' # "idle",
         UNCHANGED <<op, selected, commitment, terms, esc, latest>>,
         step' # "select"
  PROVE  PursuitInv'
<1>1. c = latest
  BY DEF PursuitInv, LatestOpen
<1>2. LatestOpen'
  BY <1>1 DEF PursuitInv, LatestOpen
<1>3. ReadyInTime'
  BY DEF PursuitInv, ReadyInTime, AllConcluded, Invited
<1>4. Sourced'
  BY <1>1 DEF Sourced
<1>5. ClosingWithSelected'
  BY DEF PursuitInv, ClosingWithSelected
<1>6. WinnerPursued'
  <2> SUFFICES ASSUME NEW d \in Campaigns, Decidable(d)' \/ (d = latest' /\ campaign'[d] = "COMPLETED")
               PROVE  step' # "idle"
    BY DEF WinnerPursued
  <2>1. d = c /\ campaign'[d] # "COMPLETED"
    BY <1>1 DEF Decidable, Open
  <2> QED
    BY <2>1 DEF Decidable, Selectable, AllConcluded, Invited
<1> QED
  BY <1>2, <1>3, <1>4, <1>5, <1>6 DEF PursuitInv

\* Steps that leave everything but the flow's clock and timer as it is.
LEMMA NothingMoves ==
  ASSUME PursuitInv, UNCHANGED <<vars, latest>>, AlreadyCalled => AlreadyCalled',
         step' = "select" => campaign[latest] = "READY_TO_SELECT",
         step' # "idle" \/ timer' # None \/ (step' = step /\ timer' = timer)
  PROVE  PursuitInv'
<1>1. /\ UNCHANGED <<campaign, winner, quote, neg, selected, version, allows, terms, op, esc, commitment>>
      /\ Undisturbed' = Undisturbed
  BY DEF vars, Undisturbed
<1>2. WinnerPursued'
  BY <1>1, StillPursued DEF PursuitInv
<1> QED
  BY <1>1, <1>2, MarketStill

LEMMA PursueBegin ==
  ASSUME TypeOK, PursuitInv, NEW c \in Campaigns, NEW S \in SUBSET Carriers, BeginCampaign(c, S)
  PROVE  PursuitInv'
<1>1. /\ OpenCampaigns = {} /\ S # {} /\ latest' = c /\ step' = "idle"
      /\ \A d \in Campaigns : d # c => campaign'[d] = campaign[d]
      /\ neg' = [neg EXCEPT ![c] = [k \in Carriers |-> IF k \in S THEN "PENDING" ELSE "ABSENT"]]
      /\ UNCHANGED <<selected, commitment, terms>>
  BY DEF BeginCampaign, Idle, StartCampaign, StartCampaignFails, CreateCampaign, CallsEnqueued,
     TypeOK, commitmentVars
<1>2. \/ campaign'[c] \in Open /\ op' = "SOURCING"
      \/ campaign'[c] = "FAILED" /\ op' = "NEEDS_CARRIER"
  <2>1. campaign \in [Campaigns -> CampaignStatus]
    BY DEF TypeOK
  <2>2. CASE StartCampaign(c, S)
    BY <2>1, <2>2 DEF StartCampaign, CallsEnqueued, Open
  <2>3. CASE StartCampaignFails(c, S)
    BY <2>1, <2>3 DEF StartCampaignFails
  <2> QED
    BY <2>2, <2>3 DEF BeginCampaign
<1>3. \A d \in Campaigns : d # c => campaign'[d] \notin Open
  BY <1>1 DEF OpenCampaigns
<1>4. ~ AllConcluded(neg', c)
  <2>1. PICK k \in S : TRUE
    BY <1>1
  <2>2. neg'[c][k] = "PENDING"
    BY <1>1, <2>1 DEF TypeOK
  <2> QED
    BY <2>1, <2>2 DEF AllConcluded, Invited, Concluded
<1>5. LatestOpen' /\ ReadyInTime'
  BY <1>1, <1>3, <1>4 DEF LatestOpen, ReadyInTime
<1>6. Sourced'
  BY <1>1, <1>2 DEF Sourced
<1>7. ClosingWithSelected'
  BY <1>1 DEF PursuitInv, ClosingWithSelected
<1>8. WinnerPursued'
  BY <1>1, <1>2, <1>4 DEF WinnerPursued, Decidable, Selectable, Open
<1> QED
  BY <1>1, <1>5, <1>6, <1>7, <1>8 DEF PursuitInv

\* An event of a call, of which a conclusion sets the flow going.
LEMMA PursueEvent ==
  ASSUME TypeOK, PursuitInv, NEW c \in Campaigns, NEW k \in Carriers, NEW t, NegotiationEvent(c, k, t),
         step' # "select", t \notin Concluded \cup {"ABSENT"} \/ step' # "idle",
         UNCHANGED <<latest, made, others>>,
         step' # "idle" \/ (step' = step /\ timer' = timer)
  PROVE  PursuitInv'
<1>1. /\ campaign' = [campaign EXCEPT ![c] = Refreshed(c, neg')]
      /\ neg' = Transitioned(c, k, t)
      /\ UNCHANGED <<op, selected, version, allows, winner, quote, commitment, terms, esc>>
      /\ Undisturbed' = Undisturbed
  BY DEF NegotiationEvent, operationVars, mandateVars, commitmentVars, escalationVars, Undisturbed
<1>2. CASE UNCHANGED <<campaign, neg>>
  <2>1. WinnerPursued'
    BY <1>1, <1>2, StillPursued DEF PursuitInv, AlreadyCalled
  <2> QED
    BY <1>1, <1>2, <2>1, MarketStill
<1>3. CASE campaign[c] \notin Open
  <2>1. UNCHANGED <<campaign, neg>>
    BY <1>1, <1>3 DEF Transitioned, Refreshed, TypeOK
  <2> QED
    BY <2>1, <1>2
<1>4. CASE campaign[c] \in Open /\ ~ UNCHANGED <<campaign, neg>>
  <2>1. campaign'[c] = Refreshed(c, neg')
    BY <1>1 DEF TypeOK
  <2>2. /\ campaign'[c] \in Open
        /\ AllConcluded(neg', c) => campaign'[c] = "READY_TO_SELECT"
    BY <1>4, <2>1 DEF Refreshed, Open
  <2>3. \A d \in Campaigns : d # c => campaign'[d] = campaign[d] /\ neg'[d] = neg[d]
    BY <1>1 DEF Transitioned, TypeOK
  <2>4. AllConcluded(neg', c) => step' # "idle"
    <3>1. CASE neg' = neg /\ AllConcluded(neg, c)
      BY <1>1, <1>4, <2>1, <3>1 DEF PursuitInv, ReadyInTime, Refreshed, TypeOK
    <3>2. CASE neg' # neg /\ t \notin Concluded \cup {"ABSENT"}
      <4>1. neg'[c][k] = t
        BY <1>1, <3>2 DEF Transitioned, TypeOK
      <4> QED
        BY <3>2, <4>1 DEF AllConcluded, Invited
    <3> QED
      BY <3>1, <3>2
  <2> QED
    BY <1>1, <1>4, <2>2, <2>3, <2>4, Bargained
<1> QED
  BY <1>3, <1>2, <1>4

LEMMA PursueQuote ==
  ASSUME TypeOK, PursuitInv, NEW c \in Campaigns, NEW k \in Carriers, NEW o \in Offers,
         RecordQuote(c, k, o)
  PROVE  PursuitInv'
<1>1. step' = "look" /\ UNCHANGED <<latest, made, others>>
  BY DEF RecordQuote
<1>2. CASE SaveQuote(c, k, o)
  <2>1. /\ campaign[c] \in Open /\ campaign' = WithQuoteSaved(c, neg')
        /\ \A d \in Campaigns : d # c => neg'[d] = neg[d]
        /\ UNCHANGED <<op, selected, commitment, terms, esc>>
    BY <1>2 DEF SaveQuote, AcceptsOffer, TypeOK, operationVars, commitmentVars, escalationVars
  <2>2. /\ campaign'[c] \in Open
        /\ AllConcluded(neg', c) => campaign'[c] = "READY_TO_SELECT"
        /\ \A d \in Campaigns : d # c => campaign'[d] = campaign[d]
    BY <2>1 DEF WithQuoteSaved, TypeOK, Open
  <2> QED
    BY <1>1, <2>1, <2>2, Bargained
<1>3. CASE UNCHANGED vars
  BY <1>1, <1>3, NothingMoves DEF AlreadyCalled
<1> QED
  BY <1>2, <1>3 DEF RecordQuote

LEMMA PursueTalk ==
  ASSUME TypeOK, PursuitInv, NEW c \in Campaigns, NEW k \in Carriers, CarrierTalks(c, k)
  PROVE  PursuitInv'
<1>1. step = "idle" /\ UNCHANGED <<latest, made, others, step, timer>>
  BY DEF CarrierTalks, flowVars, Idle
<1>2. CASE \E t \in {"CALLING", "NEGOTIATING"} : NegotiationEvent(c, k, t)
  BY <1>1, <1>2, PursueEvent DEF Concluded
<1>3. CASE EvaluateOffer(c, k)
  <2>1. /\ campaign[c] \in Open /\ campaign'[c] \in Open
        /\ \A d \in Campaigns : d # c => campaign'[d] = campaign[d] /\ neg'[d] = neg[d]
        /\ UNCHANGED <<op, selected, commitment, terms, esc>>
    BY <1>3 DEF EvaluateOffer, AcceptsOffer, TypeOK, Open, operationVars, commitmentVars, escalationVars
  <2>2. neg'[c][k] = "NEGOTIATING"
    BY <1>3 DEF EvaluateOffer, TypeOK
  <2>3. ~ AllConcluded(neg', c)
    BY <2>2 DEF AllConcluded, Invited, Concluded
  <2> QED
    BY <1>1, <2>1, <2>3, Bargained
<1> QED
  BY <1>2, <1>3 DEF CarrierTalks

\* A commitment is authorised only when the market is shut.
LEMMA PursueAuthorize ==
  ASSUME DealInv, PursuitInv, NEW i \in Commitments, NEW c \in Campaigns, Authorize(i, c),
         UNCHANGED <<latest, made, others>>, step' # "select",
         step' # "idle" \/ (step' = step /\ timer' = timer)
  PROVE  PursuitInv'
<1>1. /\ TypeOK /\ campaign[c] = "COMPLETED" /\ selected = winner[c]
      /\ UNCHANGED <<op, campaign, winner, quote, selected, version, allows, esc>>
      /\ \A d \in Campaigns : d # c => neg'[d] = neg[d]
      /\ Undisturbed' = Undisturbed
  BY DEF Authorize, Authorizable, DealInv, TypeOK, operationVars, mandateVars, escalationVars, Undisturbed
<1>2. \A d \in Campaigns : campaign[d] \in Open => neg'[d] = neg[d]
  BY <1>1 DEF Open
<1>3. LatestOpen' /\ ReadyInTime'
  BY <1>1, <1>2 DEF PursuitInv, LatestOpen, ReadyInTime, AllConcluded, Invited
<1>4. Sourced'
  BY <1>1 DEF PursuitInv, Sourced, Authorizable
<1>5. ClosingWithSelected'
  BY <1>1 DEF Authorize, TypeOK, PursuitInv, ClosingWithSelected
<1>6. WinnerPursued'
  <2> SUFFICES ASSUME Undisturbed', ~ AlreadyCalled', op' = "SOURCING",
                      NEW d \in Campaigns, Decidable(d)' \/ (d = latest' /\ campaign'[d] = "COMPLETED")
               PROVE  step' # "idle" \/ timer' # None
    BY DEF WinnerPursued
  <2>1. Decidable(d) \/ (d = latest /\ campaign[d] = "COMPLETED")
    BY <1>1, <1>2 DEF Decidable, Selectable, Candidates, AllConcluded, Invited
  <2> QED
    BY <1>1, <2>1 DEF PursuitInv, WinnerPursued, AlreadyCalled
<1> QED
  BY <1>3, <1>4, <1>5, <1>6 DEF PursuitInv

\* Cancelling, or replacing the mandate of what is being sourced, ends the
\* pursuit; no other operation that it can happen to is sourcing.
LEMMA PursueOperator ==
  ASSUME DealInv, PursuitInv, Operator, UNCHANGED <<latest, made, others>>, step' = "idle"
  PROVE  PursuitInv'
<1>1. /\ TypeOK /\ campaign' = FailOpenCampaigns /\ terms' = terms
      /\ op' # "SOURCING"
      /\ \A i \in Commitments : commitment'[i] \in PreBooking =>
           commitment[i] \in PreBooking /\ selected' = selected
  <2>1. CASE CancelOperation
    BY <2>1 DEF CancelOperation, CancelCommitments, PreBooking, ActiveCommitment, DealInv
  <2>2. ASSUME NEW A, CreateMandateVersion(A)
        PROVE  /\ campaign' = FailOpenCampaigns /\ terms' = terms
               /\ op' # "SOURCING"
               /\ \A i \in Commitments : commitment'[i] \in PreBooking =>
                    commitment[i] \in PreBooking /\ selected' = selected
    BY <2>2 DEF CreateMandateVersion, Interrupted, Renegotiate, CancelCommitments, PreBooking,
       operationVars
  <2> QED
    BY <2>1, <2>2 DEF Operator, DealInv
<1>2. \A c \in Campaigns : campaign'[c] \notin Open
  BY <1>1 DEF FailOpenCampaigns, Open
<1>3. LatestOpen' /\ ReadyInTime' /\ Sourced' /\ WinnerPursued'
  BY <1>1, <1>2 DEF LatestOpen, ReadyInTime, Sourced, WinnerPursued
<1>4. ClosingWithSelected'
  BY <1>1 DEF PursuitInv, ClosingWithSelected
<1> QED
  BY <1>3, <1>4 DEF PursuitInv

LEMMA PursueElsewhere ==
  ASSUME DealInv, PursuitInv, Elsewhere
  PROVE  PursuitInv'
<1>1. TypeOK /\ UNCHANGED <<latest, made, others, step, timer>> /\ step = "idle"
  BY DEF Elsewhere, Idle, flowVars, DealInv
<1>2. CASE Operator
  BY <1>1, <1>2, PursueOperator
<1>3. ASSUME NEW i \in Commitments, NEW c \in Campaigns, Authorize(i, c) PROVE PursuitInv'
  BY <1>1, <1>3, PursueAuthorize
<1>4. CASE Escalate
  <2>1. UNCHANGED <<campaign, winner, quote, neg, selected, version, allows, terms, commitment>>
    BY <1>4 DEF Escalate, CallStarts, CallEnds, RequestEscalation, JoinHuman, StartJoin, HumanJoins,
       JoinFails, ResolveEscalation, operationVars, campaignVars, mandateVars, commitmentVars
  <2>2. Undisturbed' => Undisturbed /\ op' = op
    <3>1. CASE \E l \in Calls : CallStarts(l) \/ CallEnds(l)
      BY <3>1 DEF CallStarts, CallEnds, operationVars, escalationVars, Undisturbed
    <3>2. ASSUME NEW e \in Escalations, NEW l \in Calls, RequestEscalation(e, l) PROVE ~ Undisturbed'
      BY <1>1, <3>2 DEF RequestEscalation, Undisturbed, TypeOK
    <3>3. ASSUME NEW e \in Escalations,
                 JoinHuman(e) \/ StartJoin(e) \/ HumanJoins(e) \/ JoinFails(e) \/ ResolveEscalation(e)
          PROVE  Undisturbed' => Undisturbed /\ op' = op
      <4>1. CASE StartJoin(e)
        BY <4>1 DEF StartJoin, operationVars, Undisturbed
      <4>2. CASE JoinHuman(e)
        BY <1>1, <4>2 DEF JoinHuman, Undisturbed, TypeOK
      <4>3. CASE HumanJoins(e)
        BY <1>1, <4>3 DEF HumanJoins, Undisturbed, TypeOK
      <4>4. CASE ResolveEscalation(e)
        BY <1>1, <4>4 DEF ResolveEscalation, Undisturbed, TypeOK
      <4>5. CASE JoinFails(e)
        BY <1>1, <4>5 DEF JoinFails, operationVars, Undisturbed, TypeOK
      <4> QED
        BY <3>3, <4>1, <4>2, <4>3, <4>4, <4>5
    <3> QED
      BY <1>4, <3>1, <3>2, <3>3 DEF Escalate
  <2>3. WinnerPursued'
    BY <1>1, <2>1, <2>2, StillPursued DEF PursuitInv, AlreadyCalled
  <2> QED
    BY <1>1, <2>1, <2>2, <2>3, MarketStill
<1>5. ASSUME NEW i \in Commitments,
             \/ RecordVerbalAgreement(i) \/ AttachEvidence(i) \/ EnqueueSummary(i)
             \/ StartSummary(i) \/ ProviderAccepts(i) \/ ProviderFails(i)
             \/ MarkSummarySent(i) \/ MarkValid(i) \/ ConfirmPickup(i) \/ ConfirmDelivery(i)
      PROVE  PursuitInv'
  <2>1. /\ UNCHANGED <<campaign, winner, quote, neg, selected, version, allows, terms, esc>>
        /\ op' = "SOURCING" => op = "SOURCING"
    BY <1>5 DEF RecordVerbalAgreement, AttachEvidence, EnqueueSummary, StartSummary, ProviderAccepts,
       ProviderFails, MarkSummarySent, MarkValid, ConfirmPickup, ConfirmDelivery,
       operationVars, campaignVars, mandateVars, commitmentVars, escalationVars
  <2>2. \A j \in Commitments : commitment'[j] \in PreBooking => commitment[j] \in PreBooking
    BY <1>1, <1>5 DEF RecordVerbalAgreement, AttachEvidence, EnqueueSummary, SummaryRequested,
       StartSummary, ProviderAccepts, ProviderFails, MarkSummarySent, MarkValid, ConfirmPickup,
       ConfirmDelivery, commitmentVars, TypeOK, PreBooking
  <2>3. Undisturbed' => Undisturbed
    BY <2>1 DEF Undisturbed
  <2>4. WinnerPursued'
    BY <1>1, <2>1, <2>3, StillPursued DEF PursuitInv, AlreadyCalled
  <2> QED
    BY <1>1, <2>1, <2>2, <2>3, <2>4, MarketStill
<1> QED
  BY <1>2, <1>3, <1>4, <1>5 DEF Elsewhere, Close

LEMMA PursueSelect ==
  ASSUME DealInv, FlowInv, PursuitInv, Select
  PROVE  PursuitInv'
<1>1. TypeOK /\ latest \in Campaigns /\ UNCHANGED <<latest, made, others>>
  BY DEF Select, Goes, FlowInv, DealInv
<1>2. \A c \in Campaigns : campaign[c] \in Open => c = latest
  BY DEF PursuitInv, LatestOpen
<1>3. ASSUME NEW k \in Carriers, SelectQuote(latest, k), Goes("authorize") PROVE PursuitInv'
  <2>1. /\ campaign' = [campaign EXCEPT ![latest] = "COMPLETED"]
        /\ winner' = [winner EXCEPT ![latest] = k]
        /\ selected' = k /\ op = "SOURCING" /\ campaign[latest] \in Open /\ k \in Candidates(latest)
        /\ UNCHANGED <<op, quote, version, allows, commitment>>
    BY <1>3 DEF SelectQuote, Selectable, mandateVars, commitmentVars
  <2>2. \A c \in Campaigns : campaign'[c] \notin Open
    BY <1>1, <1>2, <2>1 DEF TypeOK, Open
  <2>3. Authorizable(latest)'
    BY <1>1, <2>1 DEF Authorizable, Candidates, TypeOK
  <2>4. ClosingWithSelected'
    <3>1. latest \in OpenCampaigns
      BY <1>1, <2>1 DEF OpenCampaigns
    <3>2. ActiveCommitments = {}
      BY <3>1 DEF DealInv, MarketOrClosing
    <3> QED
      BY <2>1, <3>2 DEF ActiveCommitments, ActiveCommitment, ClosingWithSelected
  <2>5. step' = "authorize"
    BY <1>3 DEF Goes
  <2> QED
    BY <1>1, <2>2, <2>3, <2>4, <2>5
       DEF PursuitInv, LatestOpen, ReadyInTime, Sourced, WinnerPursued
<1>4. CASE NoEligibleQuotes(latest) /\ Goes("idle")
  <2>1. /\ campaign' = [campaign EXCEPT ![latest] = "FAILED"] /\ op' = "NEEDS_CARRIER" /\ step' = "idle"
        /\ UNCHANGED <<selected, commitment, terms>>
    BY <1>4 DEF NoEligibleQuotes, Goes, commitmentVars
  <2>2. \A c \in Campaigns : campaign'[c] \notin Open
    BY <1>1, <1>2, <2>1 DEF TypeOK, Open
  <2> QED
    BY <2>1, <2>2 DEF PursuitInv, LatestOpen, ReadyInTime, Sourced, ClosingWithSelected, WinnerPursued
<1>5. CASE ~ Selectable(latest) /\ UNCHANGED vars /\ Goes("idle")
  <2>1. UNCHANGED <<op, campaign, winner, quote, neg, selected, version, allows, terms, esc, commitment>>
    BY <1>5 DEF vars
  <2>2. Undisturbed' = Undisturbed /\ step' = "idle"
    BY <1>5, <2>1 DEF Undisturbed, Goes
  <2>3. campaign[latest] # "COMPLETED"
    BY DEF Select, PursuitInv
  <2>4. WinnerPursued'
    BY <1>1, <1>5, <2>1, <2>3 DEF WinnerPursued, Decidable, Selectable, AllConcluded, Invited
  <2> QED
    BY <1>1, <2>1, <2>2, <2>4, MarketStill
<1> QED
  BY <1>3, <1>4, <1>5 DEF Select

\* An operation that still sources, and was not escalated, has a commitment that
\* its winner may be called about.
LEMMA CallableNow ==
  ASSUME DealInv, PursuitInv, Undisturbed, op = "SOURCING", NEW i \in ActiveCommitments
  PROVE  Callable(i)
<1>1. i \in Commitments /\ commitment[i] \in ActiveCommitment
  BY DEF ActiveCommitments
<1>2. commitment[i] # "VALID" /\ commitment[i] # "IN_EXECUTION"
  BY <1>1 DEF DealInv, StageBacked, Backed, StandsAt
<1> QED
  BY <1>1, <1>2 DEF Callable, Closed, ActiveCommitment, PursuitInv, ClosingWithSelected

LEMMA PursueCall ==
  ASSUME DealInv, FlowInv, PursuitInv, CallWinner
  PROVE  PursuitInv'
<1>1. /\ step' = "idle" /\ UNCHANGED <<vars, latest, others>> /\ latest \in Campaigns
  BY DEF CallWinner, FlowInv
<1>2. /\ UNCHANGED <<op, campaign, winner, quote, neg, selected, version, allows, terms, esc, commitment>>
      /\ Undisturbed' = Undisturbed
  BY <1>1 DEF vars, Undisturbed
<1>3. PICK i \in ActiveCommitments :
        \/ AlreadyCalled /\ UNCHANGED <<timer, made>>
        \/ timer' = IF timer = None THEN latest ELSE timer
        \/ made' = [made EXCEPT ![i] = IF Callable(i) THEN @ + 1 ELSE @]
  BY DEF CallWinner
<1>4. WinnerPursued'
  <2> SUFFICES ASSUME Undisturbed, op = "SOURCING", ~ AlreadyCalled', timer' = None PROVE FALSE
    BY <1>2 DEF WinnerPursued
  <2>1. Callable(i) /\ i \in Commitments
    BY CallableNow DEF ActiveCommitments
  <2>2. CASE made' = [made EXCEPT ![i] = IF Callable(i) THEN @ + 1 ELSE @]
    <3>1. made'[i] = made[i] + 1 /\ made[i] \in Nat
      BY <2>1, <2>2 DEF FlowInv
    <3>2. made'[i] > 0
      BY <3>1
    <3> QED
      BY <2>1, <3>2 DEF AlreadyCalled
  <2>3. CASE timer' = IF timer = None THEN latest ELSE timer
    BY <1>1, <2>3, NoCampaignAssumption
  <2>4. CASE AlreadyCalled /\ UNCHANGED <<timer, made>>
    BY <1>1, <2>4 DEF AlreadyCalled
  <2> QED
    BY <1>3, <2>2, <2>3, <2>4
<1> QED
  BY <1>1, <1>2, <1>4, MarketStill

LEMMA PursueLook ==
  ASSUME PursuitInv, Look
  PROVE  PursuitInv'
<1>1. /\ UNCHANGED <<vars, latest, made, others, timer>> /\ step' \in {"select", "authorize", "idle"}
      /\ step' = "select" => campaign[latest] = "READY_TO_SELECT"
      /\ step' = "idle" => latest = None \/ campaign[latest] \notin {"READY_TO_SELECT", "COMPLETED"}
  BY DEF Look, Goes
<1>2. CASE step' # "idle"
  BY <1>1, <1>2, NothingMoves DEF AlreadyCalled
<1>3. CASE step' = "idle"
  <2>1. UNCHANGED <<op, campaign, winner, quote, neg, selected, version, allows, terms, esc, commitment>>
    BY <1>1 DEF vars
  <2>2. Undisturbed' = Undisturbed
    BY <2>1 DEF Undisturbed
  <2>3. \A c \in Campaigns : ~ Decidable(c)' /\ ~ (c = latest' /\ campaign'[c] = "COMPLETED")
    BY <1>1, <1>3, <2>1, NoCampaignAssumption
       DEF PursuitInv, ReadyInTime, Decidable, Selectable, AllConcluded, Invited
  <2>4. WinnerPursued'
    BY <2>3 DEF WinnerPursued
  <2> QED
    BY <1>1, <1>3, <2>1, <2>2, <2>4, MarketStill
<1> QED
  BY <1>2, <1>3

LEMMA PursueAuthorizeWinner ==
  ASSUME DealInv, FlowInv, CallInv, PursuitInv, AuthorizeWinner
  PROVE  PursuitInv'
<1>1. /\ step = "authorize" /\ latest \in Campaigns /\ campaign[latest] = "COMPLETED"
      /\ UNCHANGED <<latest, made, others, timer>> /\ step' \in {"call", "idle"}
  BY DEF AuthorizeWinner, Goes, FlowInv, CallInv
<1>2. CASE UNCHANGED vars /\ step' = "call"
  BY <1>1, <1>2, NothingMoves DEF AlreadyCalled
<1>3. ASSUME NEW i \in Commitments, Authorize(i, latest), step' = "call" PROVE PursuitInv'
  BY <1>1, <1>3, PursueAuthorize
<1>4. CASE ~ Authorizable(latest) /\ UNCHANGED vars
  <2>1. UNCHANGED <<op, campaign, winner, quote, neg, selected, version, allows, terms, esc, commitment>>
    BY <1>4 DEF vars
  <2>2. Undisturbed' = Undisturbed
    BY <2>1 DEF Undisturbed
  <2>3. ~ (Undisturbed /\ op = "SOURCING")
    BY <1>1, <1>4 DEF PursuitInv, Sourced, Open
  <2>4. WinnerPursued'
    BY <2>1, <2>2, <2>3 DEF WinnerPursued
  <2> QED
    BY <1>1, <2>1, <2>2, <2>4, MarketStill
<1> QED
  BY <1>2, <1>3, <1>4 DEF AuthorizeWinner, Goes

LEMMA PursueRestart ==
  ASSUME PursuitInv, FlowRestart
  PROVE  PursuitInv'
<1>1. /\ UNCHANGED <<op, campaign, winner, quote, neg, selected, version, allows, terms, esc, commitment,
                     latest>>
      /\ step' = IF op = "SOURCING" THEN "look" ELSE "idle"
  BY DEF FlowRestart, Restart, operationVars, campaignVars, mandateVars, commitmentVars
<1>2. Undisturbed' = Undisturbed
  BY <1>1 DEF Undisturbed
<1>3. WinnerPursued'
  BY <1>1 DEF WinnerPursued
<1> QED
  BY <1>1, <1>2, <1>3, MarketStill

LEMMA PursuitNext ==
  DealInv /\ FlowInv /\ FlowTypeOK /\ CallInv /\ PursuitInv /\ [FlowNext]_allVars => PursuitInv'
<1> SUFFICES ASSUME DealInv, FlowInv, FlowTypeOK, CallInv, PursuitInv, [FlowNext]_allVars PROVE PursuitInv'
  OBVIOUS
<1>1. TypeOK
  BY DEF DealInv
<1>2. CASE UNCHANGED allVars
  BY <1>2, NothingMoves DEF allVars, flowVars, PursuitInv, AlreadyCalled
<1>3. ASSUME NEW c \in Campaigns, NEW k \in Carriers, CallFails(c, k) \/ SaveCallBrief(c, k)
      PROVE  PursuitInv'
  BY <1>1, <1>3, PursueEvent DEF CallFails, SaveCallBrief
<1>4. ASSUME NEW c \in Campaigns, Elapse(c) PROVE PursuitInv'
  BY <1>4, NothingMoves DEF Elapse, PursuitInv, AlreadyCalled
<1>5. CASE TimerFires
  BY <1>5, NothingMoves DEF TimerFires, AlreadyCalled
<1>6. ASSUME NEW o \in OtherCalls, OperatorCalls(o) \/ CarrierPhonesIn(o) PROVE PursuitInv'
  <2>1. UNCHANGED <<vars, step, latest, timer, made>>
    BY <1>6 DEF OperatorCalls, CarrierPhonesIn
  <2>2. \A x \in OtherCalls : others[x] # None => others'[x] = others[x]
    BY <1>6 DEF OperatorCalls, CarrierPhonesIn, FlowTypeOK
  <2>3. AlreadyCalled => AlreadyCalled'
    BY <2>1, <2>2 DEF AlreadyCalled
  <2> QED
    BY <2>1, <2>3, NothingMoves DEF PursuitInv
<1> QED
  BY <1>1, <1>2, <1>3, <1>4, <1>5, <1>6, PursueBegin, PursueQuote, PursueTalk, PursueElsewhere, PursueLook,
     PursueSelect, PursueAuthorizeWinner, PursueCall, PursueRestart DEF FlowNext, Advance

\* Whenever there is a winner to find or to call, there is no call to close,
\* whoever made it, and nobody was asked for, something in the process goes on
\* with it.  It is the part of
\* FirstWinnerCalled that a single step could break; what is left of it is that
\* the steps are taken.
THEOREM WinnerIsPursued == FlowSpec => []WinnerPursued
<1>1. FlowInit => PursuitInv
  <2> SUFFICES ASSUME FlowInit PROVE PursuitInv
    OBVIOUS
  <2>1. /\ op = "CREATED" /\ step = "idle"
        /\ \A c \in Campaigns : campaign[c] \notin Open
        /\ \A i \in Commitments : commitment[i] \notin PreBooking
    BY DEF FlowInit, Init, Open, PreBooking
  <2> QED
    BY <2>1 DEF PursuitInv, LatestOpen, ReadyInTime, Sourced, ClosingWithSelected, WinnerPursued
<1>2. PursuitInv => WinnerPursued
  BY DEF PursuitInv
<1> QED
  BY <1>1, <1>2, PursuitNext, CallInvariance, FlowKeepsDeal, FlowInvariance, FlowTypeCorrect, PTL DEF FlowSpec
=============================================================================
