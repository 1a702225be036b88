------------------------------ MODULE Closing ------------------------------
(***************************************************************************)
(* From the selected quote to a delivered load: commitments.repository.ts, *)
(* the recap job of commitments.service.ts with its queue, and             *)
(* execution.repository.ts.  The verbal agreement, the pickup and the      *)
(* delivery are confirmed on a call of the right purpose; such a call can  *)
(* always be placed, so it is not a state of this module.                  *)
(***************************************************************************)
EXTENDS DealState

\* Mutant: the mandate is not compared.
ContextHoldsUnversioned(i) == op = "SOURCING" /\ selected = terms[i].carrier

\* The selection and the mandate that authorised commitment i still stand.
ContextHolds(i) ==
  /\ op = "SOURCING"
  /\ selected = terms[i].carrier
  /\ version = terms[i].mandate

\* The winner of campaign c may be committed to: it is still the selected
\* carrier, and its quote was evaluated under the mandate now active.
Authorizable(c) ==
  /\ op = "SOURCING"
  /\ campaign[c] = "COMPLETED"
  /\ selected = winner[c]
  /\ quote[c][winner[c]].valid
  /\ quote[c][winner[c]].mandate = version

\* Mutant: the active commitment of the operation is not looked for.
AuthorizeAgain(i, c) ==
  LET k == winner[c] IN
  /\ commitment[i] = "ABSENT"
  /\ Authorizable(c)
  /\ commitment' = [commitment EXCEPT ![i] = "PROPOSED"]
  /\ terms' = [terms EXCEPT ![i] = [campaign |-> c, carrier |-> k,
                 offer |-> quote[c][k].offer, mandate |-> quote[c][k].mandate]]
  /\ UNCHANGED <<operationVars, campaignVars, evidence, call>>
  /\ UNCHANGED <<mandateVars, recapVars, escalationVars>>

\* authorize, for the winning quote of campaign c.
Authorize(i, c) ==
  LET k == winner[c] IN
  /\ commitment[i] = "ABSENT"
  /\ Authorizable(c)
  /\ ActiveCommitments = {}
  /\ commitment' = [commitment EXCEPT ![i] = "PROPOSED"]
  /\ terms' = [terms EXCEPT ![i] = [campaign |-> c, carrier |-> k,
                 offer |-> quote[c][k].offer, mandate |-> quote[c][k].mandate]]
  /\ neg' = [neg EXCEPT ![c] = [j \in Carriers |->
               IF j = k THEN "SELECTED"
               ELSE IF neg[c][j] \in Offerable THEN "REJECTED" ELSE neg[c][j]]]
  /\ UNCHANGED <<operationVars, campaign, winner, quote, evidence, call>>
  /\ UNCHANGED <<mandateVars, recapVars, escalationVars>>

\* recordVerbalAgreement: VERBALLY_AGREED and MANDATE_VALIDATED are written in
\* one transaction, so nobody sees the first.
RecordVerbalAgreement(i) ==
  LET q == quote[terms[i].campaign][terms[i].carrier] IN
  /\ commitment[i] = "PROPOSED"
  /\ ContextHolds(i)
  /\ q = [offer |-> terms[i].offer, mandate |-> version, valid |-> TRUE]
  /\ commitment' = [commitment EXCEPT ![i] = "MANDATE_VALIDATED"]
  /\ UNCHANGED <<operationVars, campaignVars, terms, evidence, call>>
  /\ UNCHANGED <<mandateVars, recapVars, escalationVars>>

\* attachEvidence looks at the commitment alone.
AttachEvidence(i) ==
  /\ commitment[i] = "MANDATE_VALIDATED"
  /\ i \notin evidence
  /\ evidence' = evidence \cup {i}
  /\ UNCHANGED <<operationVars, campaignVars, commitment, terms, call>>
  /\ UNCHANGED <<mandateVars, recapVars, escalationVars>>

-----------------------------------------------------------------------------
\* Mutant: a recap that is already sent is started afresh.
SummaryRequestedAfresh(i) ==
  /\ commitment[i] \in {"MANDATE_VALIDATED", "SUMMARY_SENT", "SUMMARY_PENDING"}
  /\ i \in evidence
  /\ ContextHolds(i)
  /\ commitment' = [commitment EXCEPT ![i] = "SUMMARY_PENDING"]

\* markSummaryPending: what it accepts, and what it then writes.
SummaryRequested(i) ==
  \/ /\ commitment[i] \in {"VALID", "SUMMARY_SENT", "SUMMARY_PENDING"}
     /\ UNCHANGED commitment
  \/ /\ commitment[i] = "MANDATE_VALIDATED"
     /\ i \in evidence
     /\ ContextHolds(i)
     /\ commitment' = [commitment EXCEPT ![i] = "SUMMARY_PENDING"]

\* A commitment that is in the queue is not queued twice.
Queued(i) == [recap EXCEPT ![i] = IF @ = "none" THEN "queued" ELSE @]

\* enqueueSummary.
EnqueueSummary(i) ==
  /\ SummaryRequested(i)
  /\ recap' = Queued(i)
  /\ UNCHANGED <<operationVars, campaignVars, terms, evidence, texted, call>>
  /\ UNCHANGED <<mandateVars, escalationVars>>

\* The queue runs one job at a time.
QueueBusy == \E i \in Commitments : recap[i] \in {"sending", "accepted", "recorded"}

\* onExhausted: an audit event is all that is written, and the commitment stays
\* where it is.
SummaryExhausted(i) == [recap EXCEPT ![i] = "none"]

\* A job that throws goes back to the queue, or is given up after the last
\* retry.
Throws(i) == recap' \in {[recap EXCEPT ![i] = "queued"], SummaryExhausted(i)}

\* sendSummary up to the call of the provider.
StartSummary(i) ==
  /\ recap[i] = "queued"
  /\ ~ QueueBusy
  /\ CASE commitment[i] = "VALID"        -> recap' = [recap EXCEPT ![i] = "none"]
       [] commitment[i] = "SUMMARY_SENT" -> recap' = [recap EXCEPT ![i] = "recorded"]
       [] commitment[i] = "SUMMARY_PENDING" /\ ContextHolds(i)
                                         -> recap' = [recap EXCEPT ![i] = "sending"]
       [] OTHER                          -> Throws(i)
  /\ UNCHANGED <<operationVars, campaignVars, commitmentVars, texted, call>>
  /\ UNCHANGED <<mandateVars, escalationVars>>

\* The messaging provider answers with an acceptance ...
ProviderAccepts(i) ==
  /\ recap[i] = "sending"
  /\ recap' = [recap EXCEPT ![i] = "accepted"]
  /\ texted' = texted \cup {i}
  /\ UNCHANGED <<operationVars, campaignVars, commitmentVars, call>>
  /\ UNCHANGED <<mandateVars, escalationVars>>

\* Mutant: an error of the provider is swallowed.
ProviderFailsSilently(i) ==
  /\ recap[i] = "sending"
  /\ recap' = [recap EXCEPT ![i] = "accepted"]
  /\ texted' \in {texted, texted \cup {i}}
  /\ UNCHANGED <<operationVars, campaignVars, commitmentVars, call>>
  /\ UNCHANGED <<mandateVars, escalationVars>>

\* ... or the request fails, which does not say whether the text went out.
ProviderFails(i) ==
  /\ recap[i] = "sending"
  /\ Throws(i)
  /\ texted' \in {texted, texted \cup {i}}
  /\ UNCHANGED <<operationVars, campaignVars, commitmentVars, call>>
  /\ UNCHANGED <<mandateVars, escalationVars>>

\* markSummarySent: the operation may have changed during the request, but
\* only the commitment is looked at.
MarkSummarySent(i) ==
  /\ recap[i] = "accepted"
  /\ \/ /\ commitment[i] = "SUMMARY_PENDING"
        /\ commitment' = [commitment EXCEPT ![i] = "SUMMARY_SENT"]
        /\ recap' = [recap EXCEPT ![i] = "recorded"]
     \/ /\ commitment[i] # "SUMMARY_PENDING"
        /\ Throws(i)
        /\ UNCHANGED commitment
  /\ UNCHANGED <<operationVars, campaignVars, terms, evidence, texted, call>>
  /\ UNCHANGED <<mandateVars, escalationVars>>

\* markValid: the one step that books the operation.
MarkValid(i) ==
  /\ recap[i] = "recorded"
  /\ \/ /\ commitment[i] = "SUMMARY_SENT"
        /\ ContextHolds(i)
        /\ commitment' = [commitment EXCEPT ![i] = "VALID"]
        /\ op' = "BOOKED"
        /\ recap' = [recap EXCEPT ![i] = "none"]
     \/ /\ ~ (commitment[i] = "SUMMARY_SENT" /\ ContextHolds(i))
        /\ Throws(i)
        /\ UNCHANGED <<op, commitment>>
  /\ UNCHANGED <<selected, campaignVars, terms, evidence, texted, call>>
  /\ UNCHANGED <<mandateVars, escalationVars>>

-----------------------------------------------------------------------------
\* validateCarrierContext.
CarrierStands(i) == selected = terms[i].carrier

\* confirmPickup and confirmDelivery.
ConfirmPickup(i) ==
  /\ op = "BOOKED"
  /\ commitment[i] = "VALID"
  /\ CarrierStands(i)
  /\ op' = "IN_TRANSIT"
  /\ commitment' = [commitment EXCEPT ![i] = "IN_EXECUTION"]
  /\ UNCHANGED <<selected, campaignVars, terms, evidence, call>>
  /\ UNCHANGED <<mandateVars, recapVars, escalationVars>>

ConfirmDelivery(i) ==
  /\ op = "IN_TRANSIT"
  /\ commitment[i] = "IN_EXECUTION"
  /\ CarrierStands(i)
  /\ op' = "COMPLETED"
  /\ commitment' = [commitment EXCEPT ![i] = "FULFILLED"]
  /\ UNCHANGED <<selected, campaignVars, terms, evidence, call>>
  /\ UNCHANGED <<mandateVars, recapVars, escalationVars>>
=============================================================================
