--------------------------- MODULE AutonomousFlow ---------------------------
(***************************************************************************)
(* What the program does by itself with an operation created by voice      *)
(* (integration.service.ts): it starts a campaign, and when the last       *)
(* carrier has concluded it selects the winner, authorises the commitment  *)
(* and, 45 seconds after the last quote, calls the winner to close.        *)
(*                                                                         *)
(* The steps are those of DealLifecycle, taken in the order of             *)
(* advanceAutonomousFlow.  It runs to its end without waiting for anything *)
(* outside, so nothing comes between two of its steps but a restart.       *)
(***************************************************************************)
EXTENDS DealLifecycle

CONSTANTS
  OtherCalls,    \* calls to close that the flow does not make
  MaxRestarts,   \* bound: restarts of the process
  MaxCommits     \* bound: calls to close made for one commitment

ASSUME FlowBoundsAssumption == MaxRestarts \in Nat /\ MaxCommits \in Nat \ {0}

\* No timer, no latest campaign and no call is None as well.
ASSUME NoCampaignAssumption == None \notin Campaigns

VARIABLES
  step,      \* what advanceAutonomousFlow does next; "idle" if it is not running
  latest,    \* the campaign of the operation created last
  recent,    \* campaigns whose newest quote is less than 45 seconds old
  timer,     \* scheduledCommitOperations: the campaign the timer waits for
  made,      \* made[i]: calls with purpose COMMIT the flow made while i was active
  others,    \* others[o]: the campaign whose winner is on call o; None before the call
  restarts

flowVars == <<step, latest, recent, timer, made, others, restarts>>
allVars  == <<vars, flowVars>>

Steps == {"idle", "look", "select", "authorize", "call"}

FlowInit ==
  /\ Init
  /\ step = "idle"
  /\ latest = None
  /\ recent = {}
  /\ timer = None
  /\ made = [i \in Commitments |-> 0]
  /\ others = [o \in OtherCalls |-> None]
  /\ restarts = 0

Idle == step = "idle"

-----------------------------------------------------------------------------
\* What sets the flow going.

\* createOperationAutonomously and recoverAutonomousFlows start the campaign of
\* a CREATED operation; later ones are started by an operator.
BeginCampaign(c, S) ==
  /\ Idle
  /\ StartCampaign(c, S) \/ StartCampaignFails(c, S)
  /\ latest' = c
  /\ UNCHANGED <<step, recent, timer, made, others, restarts>>

\* The recordQuote tool.  Recording the newest revision again saves nothing,
\* and advances all the same.
RecordQuote(c, k, o) ==
  /\ Idle
  /\ \/ SaveQuote(c, k, o) /\ recent' = recent \cup {c}
     \/ /\ AcceptsOffer(c, k)
        /\ quote[c][k] = [offer |-> o, mandate |-> version, valid |-> o \in allows[version]]
        /\ UNCHANGED <<vars, recent>>
  /\ step' = "look"
  /\ UNCHANGED <<latest, timer, made, others, restarts>>

\* A call that ended without an answer, or failed: the observer of its status
\* reports it.
CallFails(c, k) ==
  /\ Idle
  /\ NegotiationEvent(c, k, "NO_ANSWER")
  /\ step' = "look"
  /\ UNCHANGED <<latest, recent, timer, made, others, restarts>>

\* The saveCallBrief tool, with an outcome that says the carrier refused.
SaveCallBrief(c, k) ==
  /\ Idle
  /\ NegotiationEvent(c, k, "REFUSED")
  /\ step' = "look"
  /\ UNCHANGED <<latest, recent, timer, made, others, restarts>>

\* A call that rings or is answered, and an offer that is evaluated.
CarrierTalks(c, k) ==
  /\ Idle
  /\ \/ \E t \in {"CALLING", "NEGOTIATING"} : NegotiationEvent(c, k, t)
     \/ EvaluateOffer(c, k)
  /\ UNCHANGED flowVars

\* The operator, the closing conversation, the recap queue and escalations.
Elsewhere ==
  /\ Idle
  /\ Operator \/ Close \/ Escalate
  /\ UNCHANGED flowVars

\* What resolveOutboundCallContext asks of a call to close commitment i.
Callable(i) ==
  /\ op \notin Closed
  /\ selected = terms[i].carrier
  /\ commitment[i] \in PreBooking

\* POST /operations/:operationId/calls/outbound with purpose COMMIT: the operator
\* has the winner called, whether or not it was called before.
OperatorCalls(o) ==
  /\ Idle
  /\ others[o] = None
  /\ \E i \in Commitments :
       /\ Callable(i)
       /\ others' = [others EXCEPT ![o] = terms[i].campaign]
  /\ UNCHANGED <<vars, step, latest, recent, timer, made, restarts>>

\* The winner phones in: resolveInboundCallContext takes a call of the selected
\* carrier, while the operation is sourcing, for one to close.
CarrierPhonesIn(o) ==
  /\ Idle
  /\ others[o] = None
  /\ op = "SOURCING"
  /\ selected # None
  /\ others' = [others EXCEPT ![o] = latest]
  /\ UNCHANGED <<vars, step, latest, recent, timer, made, restarts>>

\* Time passes: the newest quote of c is 45 seconds old.
Elapse(c) ==
  /\ c \in recent
  /\ recent' = recent \ {c}
  /\ UNCHANGED <<vars, step, latest, timer, made, others, restarts>>

TimerFires ==
  /\ Idle
  /\ timer # None
  /\ timer \notin recent
  /\ timer' = None
  /\ step' = "look"
  /\ UNCHANGED <<vars, latest, recent, made, others, restarts>>

-----------------------------------------------------------------------------
\* advanceAutonomousFlowOnce.

Goes(s) ==
  /\ step' = s
  /\ UNCHANGED <<latest, recent, timer, made, others, restarts>>

\* The latest campaign says what there is to do.
Look ==
  /\ step = "look"
  /\ Goes(IF latest = None THEN "idle"
          ELSE CASE campaign[latest] = "READY_TO_SELECT" -> "select"
                 [] campaign[latest] = "COMPLETED"       -> "authorize"
                 [] OTHER                                -> "idle")
  /\ UNCHANGED vars

\* selectMarketWinner throws if no quote can be selected, or if the operation
\* or a negotiation has moved on.
Select ==
  /\ step = "select"
  /\ \/ /\ \E k \in Carriers : SelectQuote(latest, k)
        /\ Goes("authorize")
     \/ /\ NoEligibleQuotes(latest)
        /\ Goes("idle")
     \/ /\ ~ Selectable(latest)
        /\ UNCHANGED vars
        /\ Goes("idle")

\* Mutant: a commitment that has been booked is not looked for.
AuthorizeAfterBooking ==
  /\ step = "authorize"
  /\ IF ActiveCommitments # {}
     THEN UNCHANGED vars
     ELSE /\ \E i \in Commitments :
               /\ commitment[i] = "ABSENT"
               /\ commitment' = [commitment EXCEPT ![i] = "PROPOSED"]
          /\ UNCHANGED <<operationVars, mandateVars, campaignVars, terms, evidence,
                         recapVars, escalationVars, call>>
  /\ Goes("call")

\* The commitment that is active, or a new one.
AuthorizeWinner ==
  /\ step = "authorize"
  /\ \/ /\ ActiveCommitments # {}
        /\ UNCHANGED vars
        /\ Goes("call")
     \/ /\ \E i \in Commitments : Authorize(i, latest)
        /\ Goes("call")
     \/ /\ ActiveCommitments = {}
        /\ ~ Authorizable(latest)
        /\ UNCHANGED vars
        /\ Goes("idle")

\* Mutant: only calls about the latest campaign's winner are looked for.
CalledForLatest ==
  \/ \E i \in Commitments : made[i] > 0 /\ terms[i].campaign = latest
  \/ \E o \in OtherCalls : others[o] = latest

\* findByOperationPurpose finds any call with that purpose, whoever made it,
\* whatever became of it and whichever commitment it was for.  (The retry of a
\* busy line is one more of these calls, but only made when there is one.)
AlreadyCalled ==
  \/ \E i \in Commitments : made[i] > 0
  \/ \E o \in OtherCalls : others[o] # None

\* Mutant: the call is made without waiting for other carriers' last words.
CallAtOnce ==
  /\ step = "call"
  /\ step' = "idle"
  /\ \E i \in ActiveCommitments :
       made' = [made EXCEPT ![i] = IF ~ AlreadyCalled /\ Callable(i) THEN @ + 1 ELSE @]
  /\ UNCHANGED <<vars, latest, recent, timer, others, restarts>>

\* Mutant: a call is made whenever the commitment is still to be closed.
CallWhilePending ==
  /\ step = "call"
  /\ step' = "idle"
  /\ \E i \in ActiveCommitments :
       IF latest \in recent
       THEN /\ timer' = IF timer = None THEN latest ELSE timer
            /\ UNCHANGED made
       ELSE /\ made' = [made EXCEPT ![i] = IF Callable(i) THEN @ + 1 ELSE @]
            /\ UNCHANGED timer
  /\ UNCHANGED <<vars, latest, recent, others, restarts>>

\* Mutant: a quote that is too fresh is not waited for.
CallOrForget ==
  /\ step = "call"
  /\ step' = "idle"
  /\ \E i \in ActiveCommitments :
       made' = [made EXCEPT ![i] =
                  IF ~ AlreadyCalled /\ latest \notin recent /\ Callable(i) THEN @ + 1 ELSE @]
  /\ UNCHANGED <<vars, latest, recent, timer, others, restarts>>

\* The call to close: made before, to be made by a timer, or made now; a call
\* that is refused leaves things as they are.
CallWinner ==
  /\ step = "call"
  /\ step' = "idle"
  /\ \E i \in ActiveCommitments :
       \/ AlreadyCalled /\ UNCHANGED <<timer, made>>
       \/ /\ ~ AlreadyCalled
          /\ latest \in recent
          /\ timer' = IF timer = None THEN latest ELSE timer
          /\ UNCHANGED made
       \/ /\ ~ AlreadyCalled
          /\ latest \notin recent
          /\ made' = [made EXCEPT ![i] = IF Callable(i) THEN @ + 1 ELSE @]
          /\ UNCHANGED timer
  /\ UNCHANGED <<vars, latest, recent, others, restarts>>

Advance == Look \/ Select \/ AuthorizeWinner \/ CallWinner

\* Mutant: an operation that was sourcing is not looked at again.
FlowRestartUnrecovered ==
  /\ restarts < MaxRestarts
  /\ restarts' = restarts + 1
  /\ Restart
  /\ step' = "idle"
  /\ timer' = None
  /\ UNCHANGED <<latest, recent, made, others>>

\* The process dies, between any two steps, and recoverAutonomousFlows looks at
\* the operation again if it was sourcing.
FlowRestart ==
  /\ restarts < MaxRestarts
  /\ restarts' = restarts + 1
  /\ Restart
  /\ step' = IF op = "SOURCING" THEN "look" ELSE "idle"
  /\ timer' = None
  /\ UNCHANGED <<latest, recent, made, others>>

-----------------------------------------------------------------------------
FlowNext ==
  \/ \E c \in Campaigns, S \in SUBSET Carriers : BeginCampaign(c, S)
  \/ \E c \in Campaigns, k \in Carriers :
       \/ \E o \in Offers : RecordQuote(c, k, o)
       \/ CallFails(c, k)
       \/ SaveCallBrief(c, k)
       \/ CarrierTalks(c, k)
  \/ \E c \in Campaigns : Elapse(c)
  \/ \E o \in OtherCalls : OperatorCalls(o) \/ CarrierPhonesIn(o)
  \/ Elsewhere
  \/ TimerFires
  \/ Advance
  \/ FlowRestart

FlowSpec == FlowInit /\ [][FlowNext]_allVars

\* What runs goes on running and time passes; a timer that is due gets its turn
\* however many requests the event loop serves in between.  Carriers and
\* operators may do nothing.
FairFlow ==
  /\ FlowSpec
  /\ WF_allVars(Advance)
  /\ SF_allVars(TimerFires)
  /\ \A c \in Campaigns : WF_allVars(Elapse(c))

-----------------------------------------------------------------------------
\* Every variable of the flow has a value of its kind.
FlowTypeOK ==
  /\ TypeOK
  /\ step \in Steps
  /\ latest \in Campaigns \cup {None}
  /\ recent \subseteq Campaigns
  /\ timer \in Campaigns \cup {None}
  /\ made \in [Commitments -> 0..MaxCommits]
  /\ others \in [OtherCalls -> Campaigns \cup {None}]
  /\ restarts \in 0..MaxRestarts

\* The flow does nothing to the operation that DealLifecycle does not do: it
\* implements it, and keeps whatever is proved of it.
FlowIsDeal == Spec

\* However often the flow is set going, by repeated reports, timers and
\* restarts, it calls at most once to close ("replaying this method cannot
\* create duplicate effects", lines 541-544).
OneCommitCall ==
  \A i, j \in Commitments : made[i] > 0 /\ made[j] > 0 => i = j /\ made[i] = 1

\* What the two properties above need: the flow selects and authorises in a
\* campaign there is, and the calls it has made are one at most.
FlowInv ==
  /\ latest \in Campaigns \cup {None}
  /\ step \in {"select", "authorize", "call"} => latest \in Campaigns
  /\ made \in [Commitments -> Nat]
  /\ OneCommitCall

\* The call to close goes to the carrier of the commitment in force, drawn from
\* the latest campaign, and not within 45 seconds of the last quote.
CommitCallDue ==
  [][ \A i \in Commitments : made'[i] # made[i] =>
        /\ commitment[i] \in PreBooking
        /\ selected = terms[i].carrier
        /\ terms[i].campaign = latest
        /\ campaign[latest] = "COMPLETED"
        /\ latest \notin recent ]_allVars

\* The campaign is over one way or the other: its winner has been called or has
\* phoned in to close, the offer has expired, a carrier negotiates again or the
\* operation stops sourcing.
Over(c) ==
  \/ \E i \in Commitments : terms[i].campaign = c /\ made[i] > 0
  \/ \E o \in OtherCalls : others[o] = c
  \/ campaign[c] = "FAILED"
  \/ ~ AllConcluded(neg, c)
  \/ op # "SOURCING"

\* All the carriers of campaign c have concluded, and one has made a valid offer.
Decidable(c) == latest = c /\ Selectable(c) /\ Candidates(c) # {}

\* No human was ever asked for.
Undisturbed == \A e \in Escalations : esc[e] = "ABSENT"

\* What keeps the winner in sight: whenever the latest campaign can be decided,
\* or has been, and there is no call to close, neither the flow's nor one the
\* winner made or an operator asked for, the flow is running or a timer is set to
\* run it.  No report that came too late, timer that fired too early, call that
\* was refused or restart leaves an operation that nothing goes on with.
WinnerPursued ==
  (/\ Undisturbed
   /\ ~ AlreadyCalled
   /\ op = "SOURCING"
   /\ \E c \in Campaigns : Decidable(c) \/ (c = latest /\ campaign[c] = "COMPLETED"))
  => step # "idle" \/ timer # None

\* TEST-VOICE-01, lines 10 and 11: the winner is called to close.
WinnerCalled == \A c \in Campaigns : Decidable(c) ~> Over(c)

\* The winner comes to talk to the program, because the flow calls, an operator
\* has it call or the winner phones in first, whatever restarts and new mandates
\* come in between, if there was no call to close and no human asked for before.
FirstWinnerCalled ==
  \A c \in Campaigns :
    (Decidable(c) /\ ~ AlreadyCalled /\ Undisturbed) ~> Over(c)
=============================================================================
