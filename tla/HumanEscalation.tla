--------------------------- MODULE HumanEscalation ---------------------------
(***************************************************************************)
(* Handing a call to a human: escalations.repository.ts and the join job   *)
(* of escalations.service.ts.  The operation is parked in ESCALATED and    *)
(* remembers, in the escalation, the status to go back to.                 *)
(***************************************************************************)
EXTENDS DealState

\* A call of the operation that is not collecting a quote is answered, and
\* later ends.  Calls are placed by other components at any time.
CallStarts(l) ==
  /\ call[l] = "ABSENT"
  /\ call' = [call EXCEPT ![l] = "IN_PROGRESS"]
  /\ UNCHANGED <<operationVars, campaignVars, mandateVars, commitmentVars>>
  /\ UNCHANGED <<recapVars, escalationVars>>

CallEnds(l) ==
  /\ call[l] = "IN_PROGRESS"
  /\ call' = [call EXCEPT ![l] = "ENDED"]
  /\ UNCHANGED <<operationVars, campaignVars, mandateVars, commitmentVars>>
  /\ UNCHANGED <<recapVars, escalationVars>>

\* One active escalation per call, not per operation: an operation that is
\* ESCALATED can be escalated again.
Escalatable(l) ==
  /\ op \notin {"COMPLETED", "CANCELLED"}
  /\ call[l] = "IN_PROGRESS"
  /\ \A d \in Escalations : ~ (esc[d] \in ActiveEscalation /\ escCall[d] = l)

\* Mutant: an escalation of an escalated operation copies the status another
\* escalation remembers.
RequestEscalationFlat(e, l) ==
  /\ esc[e] = "ABSENT"
  /\ Escalatable(l)
  /\ esc' = [esc EXCEPT ![e] = "REQUESTED"]
  /\ \/ op # "ESCALATED" /\ prev' = [prev EXCEPT ![e] = op]
     \/ op = "ESCALATED" /\ \E d \in Escalations : /\ esc[d] # "ABSENT"
                                                 /\ prev' = [prev EXCEPT ![e] = prev[d]]
  /\ escCall' = [escCall EXCEPT ![e] = l]
  /\ op' = "ESCALATED"
  /\ UNCHANGED <<selected, campaignVars, mandateVars, commitmentVars>>
  /\ UNCHANGED <<recapVars, join, call>>

\* requestEscalation.
RequestEscalation(e, l) ==
  /\ esc[e] = "ABSENT"
  /\ Escalatable(l)
  /\ esc' = [esc EXCEPT ![e] = "REQUESTED"]
  /\ prev' = [prev EXCEPT ![e] = op]
  /\ escCall' = [escCall EXCEPT ![e] = l]
  /\ op' = "ESCALATED"
  /\ UNCHANGED <<selected, campaignVars, mandateVars, commitmentVars>>
  /\ UNCHANGED <<recapVars, join, call>>

\* beginHumanJoin and the enqueueing of its job.  Asking again for the same
\* number while it is being dialled queues a job only if the first one is lost.
JoinHuman(e) ==
  /\ esc[e] \in {"REQUESTED", "DIALING_HUMAN"}
  /\ call[escCall[e]] = "IN_PROGRESS"
  /\ esc' = [esc EXCEPT ![e] = "DIALING_HUMAN"]
  /\ join' = [join EXCEPT ![e] = IF @ = "none" THEN "queued" ELSE @]
  /\ UNCHANGED <<operationVars, campaignVars, mandateVars, commitmentVars>>
  /\ UNCHANGED <<recapVars, prev, escCall, call>>

\* assertJoinStillActive.
JoinStillActive(e) == esc[e] = "DIALING_HUMAN" /\ call[escCall[e]] = "IN_PROGRESS"

\* The queue runs one join at a time.
JoinTurn(e) == join[e] = "queued" /\ \A d \in Escalations : join[d] # "dialling"

\* The gateway dials the human, and waits for an answer.
StartJoin(e) ==
  /\ JoinTurn(e)
  /\ JoinStillActive(e)
  /\ join' = [join EXCEPT ![e] = "dialling"]
  /\ UNCHANGED <<operationVars, campaignVars, mandateVars, commitmentVars>>
  /\ UNCHANGED <<recapVars, esc, prev, escCall, call>>

\* The gateway has the human in the conference: markHumanJoined.
HumanJoins(e) ==
  /\ join[e] = "dialling"
  /\ esc[e] \in {"DIALING_HUMAN", "HUMAN_JOINED"}
  /\ esc' = [esc EXCEPT ![e] = "HUMAN_JOINED"]
  /\ join' = [join EXCEPT ![e] = "none"]
  /\ UNCHANGED <<operationVars, campaignVars, mandateVars, commitmentVars>>
  /\ UNCHANGED <<recapVars, prev, escCall, call>>

\* The gateway gives up, or the job finds at its start that the call is gone:
\* the job is tried again, or exhausted (markHumanJoinFailed).
JoinFails(e) ==
  /\ \/ join[e] = "dialling"
     \/ JoinTurn(e) /\ ~ JoinStillActive(e)
  /\ \/ /\ join' = [join EXCEPT ![e] = "queued"]
        /\ UNCHANGED esc
     \/ /\ join' = [join EXCEPT ![e] = "none"]
        /\ esc' = [esc EXCEPT ![e] = IF @ = "DIALING_HUMAN" THEN "FAILED" ELSE @]
  /\ UNCHANGED <<operationVars, campaignVars, mandateVars, commitmentVars>>
  /\ UNCHANGED <<recapVars, prev, escCall, call>>

\* Mutant: the operation need not be escalated any more.
ResolveAnyEscalation(e) ==
  /\ esc[e] \in {"HUMAN_JOINED", "FAILED"}
  /\ esc' = [esc EXCEPT ![e] = "RESOLVED"]
  /\ op' = prev[e]
  /\ UNCHANGED <<selected, campaignVars, mandateVars, commitmentVars>>
  /\ UNCHANGED <<recapVars, prev, escCall, join, call>>

\* resolve.
ResolveEscalation(e) ==
  /\ esc[e] \in {"HUMAN_JOINED", "FAILED"}
  /\ op = "ESCALATED"
  /\ esc' = [esc EXCEPT ![e] = "RESOLVED"]
  /\ op' = prev[e]
  /\ UNCHANGED <<selected, campaignVars, mandateVars, commitmentVars>>
  /\ UNCHANGED <<recapVars, prev, escCall, join, call>>
=============================================================================
