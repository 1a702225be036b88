------------------------------ MODULE Sourcing ------------------------------
(***************************************************************************)
(* The market: campaigns and their negotiations                            *)
(* (campaigns.repository.ts, campaigns.service.ts) and the offers made in  *)
(* them up to the selection of a winner (market.repository.ts).            *)
(***************************************************************************)
EXTENDS DealState

\* Mutant: a second campaign may be started while one is running.
StartableAnytime == {"CREATED", "SOURCING", "NEEDS_CARRIER", "NEEDS_RENEGOTIATION"}

Startable == {"CREATED", "NEEDS_CARRIER", "NEEDS_RENEGOTIATION"}

\* createCampaign inviting the carriers S.  A mandate is always active, and
\* the inactive carriers are those the operator does not find among S.
CreateCampaign(c, S) ==
  /\ op \in Startable
  /\ OpenCampaigns = {}
  /\ campaign[c] = "ABSENT"
  /\ S # {}
  /\ neg' = [neg EXCEPT ![c] = [k \in Carriers |-> IF k \in S THEN "PENDING" ELSE "ABSENT"]]

\* markCallsEnqueued.
CallsEnqueued(c) == [campaign EXCEPT ![c] = "CALLING"]

\* startCampaign runs from createCampaign to its last update without giving up
\* the thread to anything but promise callbacks, so it is one step.  With no
\* call scheduler the campaign stays QUEUED; with one, its calls are enqueued.
StartCampaign(c, S) ==
  /\ CreateCampaign(c, S)
  /\ campaign' \in {[campaign EXCEPT ![c] = "QUEUED"], CallsEnqueued(c)}
  /\ op' = "SOURCING"
  /\ UNCHANGED <<selected, winner, quote, call>>
  /\ UNCHANGED <<mandateVars, commitmentVars, recapVars, escalationVars>>

\* The scheduler throws: markCampaignFailed undoes the start, but leaves the
\* negotiations PENDING.
StartCampaignFails(c, S) ==
  /\ CreateCampaign(c, S)
  /\ campaign' = [campaign EXCEPT ![c] = "FAILED"]
  /\ op' = "NEEDS_CARRIER"
  /\ UNCHANGED <<selected, winner, quote, call>>
  /\ UNCHANGED <<mandateVars, commitmentVars, recapVars, escalationVars>>

-----------------------------------------------------------------------------
\* refreshCampaign, over negotiations n.
Refreshed(c, n) ==
  CASE campaign[c] \notin Open -> campaign[c]
    [] campaign[c] \in Open /\ AllConcluded(n, c) -> "READY_TO_SELECT"
    [] campaign[c] \in Open /\ ~ AllConcluded(n, c)
         /\ (\E k \in Carriers : quote[c][k] # NoQuote) -> "COLLECTING_QUOTES"
    [] OTHER -> IF /\ campaign[c] = "QUEUED"
                   /\ \A k \in Carriers : n[c][k] \notin {"CALLING", "NEGOTIATING"}
                THEN "QUEUED"
                ELSE "CALLING"

\* The statuses transitionNegotiation moves to target from.
MayBecome(target) ==
  CASE target = "CALLING"     -> {"PENDING"}
    [] target = "NEGOTIATING" -> {"PENDING", "CALLING", "NO_ANSWER"}
    [] OTHER                  -> {"PENDING", "CALLING", "NEGOTIATING"}

\* transitionNegotiation.
Transitioned(c, k, target) ==
  IF campaign[c] \in Open /\ neg[c][k] \in MayBecome(target)
  THEN [neg EXCEPT ![c][k] = target]
  ELSE neg

\* A call's life, or the agent's report, moves a negotiation; the campaign is
\* then refreshed, also when the event came too late to move anything.  The
\* operation's status is not looked at.
NegotiationEvent(c, k, target) ==
  /\ neg[c][k] # "ABSENT"
  /\ neg' = Transitioned(c, k, target)
  /\ campaign' = [campaign EXCEPT ![c] = Refreshed(c, neg')]
  /\ UNCHANGED <<winner, quote, call>>
  /\ UNCHANGED <<operationVars, mandateVars, commitmentVars, recapVars, escalationVars>>

-----------------------------------------------------------------------------
\* assertNegotiationAcceptsOffer.
AcceptsOffer(c, k) ==
  /\ neg[c][k] \in Offerable
  /\ op = "SOURCING"
  /\ campaign[c] \in Open

\* evaluateQuote: the carrier is negotiating again, whatever it quoted before.
EvaluateOffer(c, k) ==
  /\ AcceptsOffer(c, k)
  /\ neg' = [neg EXCEPT ![c][k] = "NEGOTIATING"]
  /\ campaign' = [campaign EXCEPT ![c] = IF @ \in {"QUEUED", "CALLING"} THEN "CALLING" ELSE @]
  /\ UNCHANGED <<winner, quote, call>>
  /\ UNCHANGED <<operationVars, mandateVars, commitmentVars, recapVars, escalationVars>>

\* The campaigns once a quote of c is saved, with negotiations n.
WithQuoteSaved(c, n) ==
  [campaign EXCEPT ![c] = IF AllConcluded(n, c) THEN "READY_TO_SELECT" ELSE "COLLECTING_QUOTES"]

\* Mutant: an offer that an earlier mandate allowed is still taken for valid.
SaveQuoteUnderAnyMandate(c, k, o) ==
  LET new == [offer |-> o, mandate |-> version,
              valid |-> \E v \in 1..version : o \in allows[v]] IN
  /\ AcceptsOffer(c, k)
  /\ quote[c][k] # new
  /\ quote' = [quote EXCEPT ![c][k] = new]
  /\ neg' = [neg EXCEPT ![c][k] = "QUOTED"]
  /\ campaign' = WithQuoteSaved(c, neg')
  /\ UNCHANGED <<winner, call>>
  /\ UNCHANGED <<operationVars, mandateVars, commitmentVars, recapVars, escalationVars>>

\* saveQuote: offer o becomes the newest revision, evaluated under the active
\* mandate.  Repeating the newest revision returns it and changes nothing.
SaveQuote(c, k, o) ==
  LET new == [offer |-> o, mandate |-> version, valid |-> o \in allows[version]] IN
  /\ AcceptsOffer(c, k)
  /\ quote[c][k] # new
  /\ quote' = [quote EXCEPT ![c][k] = new]
  /\ neg' = [neg EXCEPT ![c][k] = "QUOTED"]
  /\ campaign' = WithQuoteSaved(c, neg')
  /\ UNCHANGED <<winner, call>>
  /\ UNCHANGED <<operationVars, mandateVars, commitmentVars, recapVars, escalationVars>>

\* selectQuote refuses while a negotiation is unfinished.  The campaign's own
\* status only has to be open: the negotiations are counted afresh.
Selectable(c) ==
  /\ op = "SOURCING"
  /\ campaign[c] \in Open
  /\ AllConcluded(neg, c)

\* Carriers whose newest quote the active mandate allows.  It may have expired
\* since, or its carrier been deactivated: any of them may be missing.
Candidates(c) ==
  {k \in Carriers : /\ quote[c][k] # NoQuote
                    /\ quote[c][k].valid
                    /\ quote[c][k].mandate = version
                    /\ quote[c][k].offer \in allows[version]}

\* Mutant: the losers' negotiations are left as they are.
SelectQuoteKeepingLosers(c, k) ==
  /\ Selectable(c)
  /\ k \in Candidates(c)
  /\ campaign' = [campaign EXCEPT ![c] = "COMPLETED"]
  /\ winner' = [winner EXCEPT ![c] = k]
  /\ neg' = [neg EXCEPT ![c][k] = "SELECTED"]
  /\ selected' = k
  /\ UNCHANGED <<op, quote, call>>
  /\ UNCHANGED <<mandateVars, commitmentVars, recapVars, escalationVars>>

\* selectQuote.  Which of the candidates the ranking puts first is left open.
SelectQuote(c, k) ==
  /\ Selectable(c)
  /\ k \in Candidates(c)
  /\ campaign' = [campaign EXCEPT ![c] = "COMPLETED"]
  /\ winner' = [winner EXCEPT ![c] = k]
  /\ neg' = [neg EXCEPT ![c] = [j \in Carriers |-> IF j = k THEN "SELECTED"
                                   ELSE IF j \in Invited(neg, c) THEN "REJECTED" ELSE "ABSENT"]]
  /\ selected' = k
  /\ UNCHANGED <<op, quote, call>>
  /\ UNCHANGED <<mandateVars, commitmentVars, recapVars, escalationVars>>

\* failCampaignWithoutEligibleQuotes: no candidate is left.
NoEligibleQuotes(c) ==
  /\ Selectable(c)
  /\ campaign' = [campaign EXCEPT ![c] = "FAILED"]
  /\ op' = "NEEDS_CARRIER"
  /\ UNCHANGED <<selected, winner, neg, quote, call>>
  /\ UNCHANGED <<mandateVars, commitmentVars, recapVars, escalationVars>>
=============================================================================
