----------------------------- MODULE DealState -----------------------------
(***************************************************************************)
(* The rows of src/db/schema.ts that belong to one freight operation, and  *)
(* the two in-memory tables that work on them (the recap queue and the     *)
(* human-join queue).  A row that does not exist yet has status "ABSENT".  *)
(*                                                                         *)
(* An offer stands for a combination of price, currency, pickup date and   *)
(* notes; a mandate version is the set of offers it allows, which is all   *)
(* that evaluateAgainstMandate tells the rest of the program.              *)
(***************************************************************************)
EXTENDS Naturals

CONSTANTS
  Carriers,       \* carriers that exist in the database
  Campaigns,      \* identifiers for campaign rows
  Commitments,    \* identifiers for commitment rows
  Escalations,    \* identifiers for escalation rows
  Calls,          \* calls on which a human can be asked for
  Offers,         \* what a carrier may quote
  MandateTerms,   \* the sets of offers an operator may authorise
  MaxMandates,    \* bound: mandate versions of the operation
  None            \* absence of a carrier or an offer

ASSUME MaxMandatesAssumption == MaxMandates \in Nat \ {0}
ASSUME MandateTermsAssumption == MandateTerms \subseteq SUBSET Offers
ASSUME NoneAssumption == None \notin Carriers \cup Offers

VARIABLES
  op,          \* operations.status
  selected,    \* operations.selectedCarrierId
  version,     \* version of the ACTIVE mandate; the earlier ones are SUPERSEDED
  allows,      \* allows[v]: the offers mandate v allows
  campaign,    \* campaigns.status
  winner,      \* winner[c]: carrier of campaigns.winningQuoteId
  neg,         \* neg[c][k]: status of the negotiation of campaign c with k
  quote,       \* quote[c][k]: newest quote revision of that negotiation
  commitment,  \* commitments.status
  terms,       \* terms[i]: campaign, carrier, mandate and offer i was drawn from
  evidence,    \* commitments with an evidence range attached
  recap,       \* recap[i]: where the recap queue has got to with i
  texted,      \* commitments whose recap the messaging provider accepted
  esc,         \* escalations.status
  prev,        \* escalations.previousOperationStatus
  escCall,     \* escalations.callId
  join,        \* join[e]: where the human-join queue has got to with e
  call         \* calls.status, as far as escalations look at it

operationVars  == <<op, selected>>
mandateVars    == <<version, allows>>
campaignVars   == <<campaign, winner, neg, quote>>
commitmentVars == <<commitment, terms, evidence>>
recapVars      == <<recap, texted>>
escalationVars == <<esc, prev, escCall, join>>
vars == <<op, selected, version, allows, campaign, winner, neg, quote,
          commitment, terms, evidence, recap, texted, esc, prev, escCall,
          join, call>>

-----------------------------------------------------------------------------
OperationStatus ==
  {"CREATED", "SOURCING", "BOOKED", "IN_TRANSIT", "COMPLETED",
   "NEEDS_RENEGOTIATION", "ESCALATED", "NEEDS_CARRIER", "CANCELLED"}

Open           == {"QUEUED", "CALLING", "COLLECTING_QUOTES", "READY_TO_SELECT"}
CampaignStatus == {"ABSENT", "COMPLETED", "FAILED"} \cup Open

Offerable    == {"PENDING", "CALLING", "NEGOTIATING", "QUOTED"}
Concluded    == {"QUOTED", "REFUSED", "NO_ANSWER", "SELECTED", "REJECTED"}
NegotiationStatus == {"ABSENT"} \cup Offerable \cup Concluded

\* Active commitments that have not become the booked deal.
PreBooking == {"PROPOSED", "MANDATE_VALIDATED", "SUMMARY_PENDING", "SUMMARY_SENT"}
ActiveCommitment == PreBooking \cup {"VALID", "IN_EXECUTION"}
CommitmentStatus == {"ABSENT", "FULFILLED", "CANCELLED"} \cup ActiveCommitment

ActiveEscalation == {"REQUESTED", "DIALING_HUMAN", "HUMAN_JOINED"}
EscalationStatus == {"ABSENT", "FAILED", "RESOLVED"} \cup ActiveEscalation

RecapPhase == {"none", "queued", "sending", "accepted", "recorded"}
JoinPhase  == {"none", "queued", "dialling"}
CallStatus == {"ABSENT", "IN_PROGRESS", "ENDED"}

Versions == 1..MaxMandates
Quotes   == [offer : Offers, mandate : Versions, valid : BOOLEAN]
NoQuote  == [offer |-> None, mandate |-> 0, valid |-> FALSE]
Terms    == [campaign : Campaigns, carrier : Carriers, offer : Offers,
             mandate : Versions]
NoTerms  == [campaign |-> None, carrier |-> None, offer |-> None, mandate |-> 0]

\* The carriers campaign c negotiates with; campaigns.requestedCarriers counts
\* them, so "completed >= requested" says that each of them has concluded.
Invited(n, c)   == {k \in Carriers : n[c][k] # "ABSENT"}
AllConcluded(n, c) == \A k \in Invited(n, c) : n[c][k] \in Concluded

OpenCampaigns     == {c \in Campaigns : campaign[c] \in Open}
ActiveCommitments == {i \in Commitments : commitment[i] \in ActiveCommitment}

\* The operation as createOperationWithMandate leaves it.
Init ==
  /\ op = "CREATED"
  /\ selected = None
  /\ version = 1
  /\ \E A \in MandateTerms : allows = [v \in Versions |-> IF v = 1 THEN A ELSE {}]
  /\ campaign = [c \in Campaigns |-> "ABSENT"]
  /\ winner = [c \in Campaigns |-> None]
  /\ neg = [c \in Campaigns |-> [k \in Carriers |-> "ABSENT"]]
  /\ quote = [c \in Campaigns |-> [k \in Carriers |-> NoQuote]]
  /\ commitment = [i \in Commitments |-> "ABSENT"]
  /\ terms = [i \in Commitments |-> NoTerms]
  /\ evidence = {}
  /\ recap = [i \in Commitments |-> "none"]
  /\ texted = {}
  /\ esc = [e \in Escalations |-> "ABSENT"]
  /\ prev = [e \in Escalations |-> "CREATED"]
  /\ escCall = [e \in Escalations |-> None]
  /\ join = [e \in Escalations |-> "none"]
  /\ call = [l \in Calls |-> "ABSENT"]
=============================================================================
