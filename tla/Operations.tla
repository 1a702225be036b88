----------------------------- MODULE Operations -----------------------------
(***************************************************************************)
(* What the operator does to the operation itself: cancel it               *)
(* (operations.repository.ts) and replace its mandate                      *)
(* (mandates.repository.ts).  Both reach into the rows of every other      *)
(* component in one immediate transaction.                                 *)
(***************************************************************************)
EXTENDS DealState

Closed == {"CANCELLED", "COMPLETED"}

\* Negotiations an operator's cancellation still closes.
CloseOffers(n) ==
  [c \in Campaigns |-> [k \in Carriers |->
     IF n[c][k] \in Offerable THEN "REJECTED" ELSE n[c][k]]]

\* Mutant: a campaign that is ready to select is forgotten.
FailRunningCampaigns ==
  [c \in Campaigns |-> IF campaign[c] \in Open \ {"READY_TO_SELECT"}
                       THEN "FAILED" ELSE campaign[c]]

FailOpenCampaigns ==
  [c \in Campaigns |-> IF campaign[c] \in Open THEN "FAILED" ELSE campaign[c]]

CancelCommitments(statuses) ==
  [i \in Commitments |->
     IF commitment[i] \in statuses THEN "CANCELLED" ELSE commitment[i]]

\* cancelOperation.  Escalations, queued recaps and queued human joins are
\* left as they are.
CancelOperation ==
  /\ op \notin Closed
  /\ op' = "CANCELLED"
  /\ campaign' = FailOpenCampaigns
  /\ neg' = CloseOffers(neg)
  /\ commitment' = CancelCommitments(ActiveCommitment)
  /\ UNCHANGED <<selected, winner, quote, terms, evidence, call>>
  /\ UNCHANGED <<mandateVars, recapVars, escalationVars>>

-----------------------------------------------------------------------------
MutableMandate ==
  {"CREATED", "SOURCING", "NEEDS_RENEGOTIATION", "ESCALATED", "NEEDS_CARRIER"}

\* Every negotiation of a campaign the new mandate invalidates is rejected,
\* whatever its status.
RejectInvalidated ==
  [c \in Campaigns |->
     IF campaign[c] \in Open
     THEN [k \in Carriers |-> IF k \in Invited(neg, c) THEN "REJECTED" ELSE "ABSENT"]
     ELSE neg[c]]

\* Escalations that interrupted the sourcing and are still being worked on.
SourcingEscalations ==
  {e \in Escalations : esc[e] \in ActiveEscalation /\ prev[e] = "SOURCING"}

\* The sourcing starts again under the new mandate: at once, or when the
\* escalation that interrupted it is resolved.
Renegotiate ==
  \/ /\ op = "SOURCING"
     /\ op' = "NEEDS_RENEGOTIATION"
     /\ UNCHANGED prev
  \/ /\ op = "ESCALATED"
     /\ \E e \in SourcingEscalations : prev' = [prev EXCEPT ![e] = "NEEDS_RENEGOTIATION"]
     /\ UNCHANGED op

Interrupted == op = "SOURCING" \/ (op = "ESCALATED" /\ SourcingEscalations # {})

\* createMandateVersion, with the set A of offers the new version allows.
CreateMandateVersion(A) ==
  /\ op \in MutableMandate
  /\ version < MaxMandates
  /\ version' = version + 1
  /\ allows' = [allows EXCEPT ![version + 1] = A]
  /\ campaign' = FailOpenCampaigns
  /\ neg' = RejectInvalidated
  /\ \/ /\ Interrupted
        /\ Renegotiate
        /\ selected' = None
        /\ commitment' = CancelCommitments(PreBooking \cup {"VALID"})
     \/ /\ ~ Interrupted
        /\ UNCHANGED <<operationVars, prev, commitment>>
  /\ UNCHANGED <<winner, quote, terms, evidence, recapVars, esc, escCall, join, call>>
=============================================================================
