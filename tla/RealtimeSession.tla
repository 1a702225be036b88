--------------------------- MODULE RealtimeSession ---------------------------
(***************************************************************************)
(* The conversation of an agent on one call: the session of                *)
(* realtime.service.ts, the media bridge that feeds it                     *)
(* (twilio-media.bridge.ts) and the row of the call both write             *)
(* (calls.service.ts).                                                     *)
(*                                                                         *)
(* Sessions are kept in memory and read and saved as copies.  A tool reads *)
(* its copy before it is executed and saves it afterwards, while the       *)
(* bridge's chain of transcript writes and the closing of the session run  *)
(* beside it: every wait for one of these is a place where the others may  *)
(* come in.                                                                *)
(***************************************************************************)
EXTENDS Naturals, Sequences, FiniteSets

CONSTANTS
  Purposes,      \* the purposes a call may begin with
  MaxTurns,      \* bound: things the human says
  MaxUpdates,    \* bound: updates of the history
  MaxInFlight,   \* bound: tools in flight
  Faults         \* statements of the database that may fail, among AllFaults

\* transcript: the row of a transcript segment.    opening: the link to the call.
\* binding: the change of context of the call.     closing: the last writes.
AllFaults == {"transcript", "opening", "binding", "closing"}
\* Sessions of mode QUOTE and INCIDENT have none of the tools below but
\* requestEscalation, and keep their mode.
Modes     == {"OPERATIONS", "COMMIT", "EXECUTION", "DELIVERY"}

ASSUME BoundsAssumption == MaxTurns \in Nat /\ MaxUpdates \in Nat /\ MaxInFlight \in Nat
ASSUME FaultsAssumption == Faults \subseteq AllFaults
ASSUME PurposesAssumption == Purposes \subseteq Modes

Turns  == 1..MaxTurns
Stamps == 0..(2 * MaxUpdates)   \* two between one update and the next

VARIABLES
  call,       \* the row: whether the caller is an operator, purpose, bound to an
              \* operation, turns of the transcript, linked to the session
  session,    \* in the repository: status, mode, bound, endMs of its segments
  heard,      \* the human's turns in the history
  clock,      \* updates of the history so far
  chain,      \* transcriptWriteChain: observations still to be written
  writeError, \* transcriptWriteError
  stream,     \* the media stream
  transportClosed,
  closer,     \* connectionClosers has the bridge's
  closing,    \* closingSessions has a close that waits for the bridge
  tool,       \* tool[t]: how far t is, and the copy of the session it read
  executions, \* toolExecutionsBySession: mutating tools that have succeeded
  evidence,   \* evidence[t]: the turn the last execution of t rests on, 0 for none
  recorded,   \* history: turns that have been in the row
  torn,       \* history: the last tool that bound the call failed after that
  cut         \* history: the session was closed while the bridge still had words to write

bridgeVars == <<heard, clock, chain, writeError, stream, transportClosed>>
closeVars  == <<closer, closing>>
toolVars   == <<tool, executions, evidence>>
vars == <<call, session, bridgeVars, closeVars, toolVars, recorded, torn, cut>>

\* Tools that change what the session may do, or rest on what the human said.
\* The others of a mode read, or write elsewhere.
ToolsOf(m) ==
  CASE m = "OPERATIONS" -> {"createOperation", "getOperationStatus"}
    [] m = "COMMIT"     -> {"recordVerbalAgreement", "requestEscalation"}
    [] m = "EXECUTION"  -> {"confirmPickup", "requestEscalation"}
    [] m = "DELIVERY"   -> {"confirmDelivery", "requestEscalation"}

Tools == UNION {ToolsOf(m) : m \in Modes}

\* synchronizeSessionContext has something to do after these.
Contextual == {"createOperation", "getOperationStatus", "confirmPickup"}
Mutating   == Tools \ {"getOperationStatus"}

\* modeForCallPurpose.
ModeFor(p) == p

Silence  == [t \in Turns |-> 0]
Known(s) == {t \in Turns : s.segments[t] # 0}
NoSession == [status |-> "none", mode |-> "COMMIT", bound |-> FALSE, segments |-> Silence]
NotCalled == [phase |-> "idle", copy |-> NoSession]
InFlight == {t \in Tools : tool[t].phase # "idle"}

\* A call of an operator is bound to no operation at first.
Init ==
  /\ \E p \in Purposes :
       call = [operator |-> p = "OPERATIONS", purpose |-> p,
               bound |-> p # "OPERATIONS", row |-> {}, linked |-> FALSE]
  /\ session = NoSession
  /\ heard = 0
  /\ clock = 0
  /\ chain = <<>>
  /\ writeError = FALSE
  /\ stream = "none"
  /\ transportClosed = FALSE
  /\ closer = FALSE
  /\ closing = FALSE
  /\ tool = [t \in Tools |-> NotCalled]
  /\ executions = {}
  /\ evidence = [t \in Tools |-> 0]
  /\ recorded = {}
  /\ torn = FALSE
  /\ cut = FALSE

-----------------------------------------------------------------------------
\* The media stream.

NewSession == [status |-> "ACTIVE", mode |-> ModeFor(call.purpose),
               bound |-> call.bound, segments |-> Silence]

\* create, and handleConnection up to the handlers of the stream: the active
\* session of the call is taken, or a new one made and linked.
Connect ==
  /\ stream = "none"
  /\ \/ /\ session.status = "ACTIVE"
        /\ session.mode = ModeFor(call.purpose)
        /\ UNCHANGED <<session, call>>
     \/ /\ session.status = "none"
        /\ session' = NewSession
        /\ call' = [call EXCEPT !.linked = TRUE]
  /\ stream' = "open"
  /\ closer' = TRUE
  /\ UNCHANGED <<heard, clock, chain, writeError, transportClosed, closing>>
  /\ UNCHANGED <<toolVars, recorded, torn, cut>>

\* The session is stored and its link is not: the stream is refused, and finds
\* the session when it is connected again.
ConnectFails ==
  /\ "opening" \in Faults
  /\ stream = "none"
  /\ session.status = "none"
  /\ session' = NewSession
  /\ UNCHANGED <<call, bridgeVars, closeVars, toolVars, recorded, torn, cut>>

\* Mutant: the history is taken to count its items from zero.
ObservationsFromZero(n, now) ==
  [t \in 1..n |-> [turn |-> t - 1, stamp |-> IF t > heard THEN now + 1 ELSE now]]

\* transcriptSegment, of every item of the history, new or not: it ends now, and
\* later than it was first seen.
Observations(n, now) ==
  [t \in 1..n |-> [turn |-> t, stamp |-> IF t > heard THEN now + 1 ELSE now]]

\* history_updated: a write of every item of the history is put at the end of
\* the chain.
HistoryUpdated ==
  /\ stream = "open"
  /\ ~ transportClosed
  /\ clock < MaxUpdates
  /\ clock' = clock + 1
  /\ heard' \in {heard, heard + 1} \cap (0..MaxTurns)
  /\ chain' = chain \o Observations(heard', 2 * clock' - 1)
  /\ UNCHANGED <<writeError, stream, transportClosed>>
  /\ UNCHANGED <<call, session, closeVars, toolVars, recorded, torn, cut>>

\* The segments of the session, with what the chain has next.
Merged == [session EXCEPT !.segments[Head(chain).turn] = Head(chain).stamp]

\* appendTranscriptSegment: the session first, then the row, whole.  It does
\* nothing to a session that is CLOSED, and fails on one that is deleted.
AppendTranscriptSegment ==
  /\ chain # <<>>
  /\ chain' = Tail(chain)
  /\ \/ /\ session.status = "ACTIVE"
        /\ session' = Merged
        /\ call' = [call EXCEPT !.row = Known(Merged)]
        /\ recorded' = recorded \cup Known(Merged)
        /\ writeError' = FALSE
     \/ /\ "transcript" \in Faults
        /\ session.status = "ACTIVE"
        /\ session' = Merged
        /\ writeError' = TRUE
        /\ UNCHANGED <<call, recorded>>
     \/ /\ session.status # "ACTIVE"
        /\ writeError' = (session.status = "deleted")
        /\ UNCHANGED <<call, session, recorded>>
  /\ UNCHANGED <<heard, clock, stream, transportClosed, closeVars, toolVars, torn, cut>>

-----------------------------------------------------------------------------
\* Tools.

\* latestTranscriptEvidence sorts by the end of the segments, the last first:
\* of those that end alike the one that was heard first comes first.
LatestEvidence(s) ==
  {t \in Known(s) : \A u \in Known(s) :
      s.segments[u] < s.segments[t] \/ (s.segments[u] = s.segments[t] /\ t <= u)}

\* An operation is asked for by its identifier or by its container.
Evidenced(t, s) ==
  CASE t \in {"recordVerbalAgreement", "requestEscalation", "createOperation"} -> {TRUE}
    [] t = "getOperationStatus" -> {FALSE, ~ s.bound}
    [] OTHER -> {FALSE}

\* Mutant: a tool is executed although a segment could not be stored.
StartToolAfterError(t) ==
  /\ stream \in {"open", "closing"}
  /\ chain = <<>>
  /\ session.status = "ACTIVE"
  /\ t \in ToolsOf(session.mode)
  /\ t \notin executions
  /\ tool[t].phase = "idle"
  /\ Cardinality(InFlight) < MaxInFlight
  /\ \E needed \in Evidenced(t, session) :
       \E e \in (IF needed THEN LatestEvidence(session) ELSE {0}) :
         evidence' = [evidence EXCEPT ![t] = e]
  /\ tool' = [tool EXCEPT ![t] = [phase |-> "running", copy |-> session]]
  /\ UNCHANGED <<call, session, bridgeVars, closeVars, executions, recorded, torn, cut>>

\* The agent calls t: waitForTranscript, then executeTool up to its execution.
\* What the human said may also be found not to authorise it.
StartTool(t) ==
  /\ stream \in {"open", "closing"}
  /\ chain = <<>>
  /\ ~ writeError
  /\ session.status = "ACTIVE"
  /\ t \in ToolsOf(session.mode)
  /\ t \notin executions
  /\ tool[t].phase = "idle"
  /\ Cardinality(InFlight) < MaxInFlight
  /\ \E needed \in Evidenced(t, session) :
       \E e \in (IF needed THEN LatestEvidence(session) ELSE {0}) :
         evidence' = [evidence EXCEPT ![t] = e]
  /\ tool' = [tool EXCEPT ![t] = [phase |-> "running", copy |-> session]]
  /\ UNCHANGED <<call, session, bridgeVars, closeVars, executions, recorded, torn, cut>>

\* bindOperationContext.
BindTo(p) == call' = [call EXCEPT !.purpose = p, !.bound = TRUE]

\* The purposes executing t gives the call: an operation that is in transit is
\* looked up in order to be delivered.
PurposesGiven(t) ==
  CASE t = "createOperation" -> {"OPERATIONS"}
    [] t = "getOperationStatus" /\ ~ tool[t].copy.bound -> {"OPERATIONS", "DELIVERY"}
    [] OTHER -> {}

Ends(t) == tool' = [tool EXCEPT ![t] = NotCalled]

\* The tool is executed, and its context is still to be synchronised.  An
\* operation that is not found binds nothing.
Execute(t) ==
  /\ tool[t].phase = "running"
  /\ \/ \E p \in PurposesGiven(t) : BindTo(p)
     \/ t # "createOperation" /\ UNCHANGED call
  /\ IF t \in Contextual
     THEN tool' = [tool EXCEPT ![t].phase = "ran"] /\ UNCHANGED executions
     ELSE Ends(t) /\ executions' = executions \cup {t}
  /\ UNCHANGED <<session, bridgeVars, closeVars, evidence, recorded, torn, cut>>

\* The tool throws, before it has bound the call or after, and may be called
\* again: the campaign of a new operation needs carriers.
ExecuteFails(t) ==
  /\ tool[t].phase = "running"
  /\ \/ UNCHANGED <<call, torn>>
     \/ \E p \in PurposesGiven(t) : BindTo(p) /\ torn' = TRUE
  /\ Ends(t)
  /\ UNCHANGED <<session, bridgeVars, closeVars, executions, evidence, recorded, cut>>

Delivery(s) == [s EXCEPT !.mode = "DELIVERY"]

\* Mutant: the mode stays that of the copy.
ContextKeepingMode(t) ==
  IF t = "confirmPickup"
  THEN BindTo("DELIVERY") /\ session' = Delivery(tool[t].copy)
  ELSE /\ session' = IF call.bound THEN [tool[t].copy EXCEPT !.bound = TRUE] ELSE session
       /\ UNCHANGED call

\* An operator's tool that has bound no operation leaves nothing to save.
Saves(t) == t = "confirmPickup" \/ (call.operator /\ call.bound)

\* synchronizeSessionContext, of the copy t has read.
Synchronized(t) ==
  LET copy == tool[t].copy IN
  IF t = "confirmPickup"
  THEN BindTo("DELIVERY") /\ session' = Delivery(copy)
  ELSE /\ session' = IF ~ Saves(t) THEN session
                     ELSE LET s == [copy EXCEPT !.bound = TRUE]
                          IN IF call.purpose = "DELIVERY" THEN Delivery(s) ELSE s
       /\ UNCHANGED call

\* Mutant: save stores a session that has been deleted.
Upsert == TRUE

\* save throws if the session has been deleted.
Saveable == session.status \in {"ACTIVE", "CLOSED"}

Synchronize(t) ==
  /\ tool[t].phase = "ran"
  /\ Saves(t) => Saveable
  /\ Synchronized(t)
  /\ torn' = FALSE
  /\ executions' = executions \cup ({t} \cap Mutating)
  /\ Ends(t)
  /\ UNCHANGED <<bridgeVars, closeVars, evidence, recorded, cut>>

\* The context of the call, or the session, cannot be saved.
SynchronizeFails(t) ==
  /\ tool[t].phase = "ran"
  /\ \/ "binding" \in Faults /\ UNCHANGED call
     \/ Saves(t) /\ ~ Saveable /\ IF t = "confirmPickup" THEN BindTo("DELIVERY") ELSE UNCHANGED call
  /\ torn' = (t # "confirmPickup" \/ torn)
  /\ Ends(t)
  /\ UNCHANGED <<session, bridgeVars, closeVars, executions, evidence, recorded, cut>>

-----------------------------------------------------------------------------
\* Closing.

\* closeSession once the bridge's connection is closed.
CloseSession ==
  \/ /\ session.status # "ACTIVE"
     /\ UNCHANGED <<call, session, executions, recorded>>
  \/ /\ session.status = "ACTIVE"
     /\ session' = [session EXCEPT !.status = "deleted"]
     /\ call' = [call EXCEPT !.linked = FALSE,
                   !.row = IF Known(session) = {} THEN @ ELSE Known(session)]
     /\ recorded' = recorded \cup Known(session)
     /\ executions' = {}
  \/ /\ "closing" \in Faults
     /\ session.status = "ACTIVE"
     /\ session' = [session EXCEPT !.status = "CLOSED"]
     /\ UNCHANGED <<call, executions, recorded>>

\* The stream stops, closes or fails: close() unregisters the closer and closes
\* the transport, or joins the close that runs.
HangUp ==
  /\ stream = "open"
  /\ stream' = IF closing THEN "closed" ELSE "closing"
  /\ transportClosed' = TRUE
  /\ closer' = FALSE
  /\ UNCHANGED <<heard, clock, chain, writeError, closing>>
  /\ UNCHANGED <<call, session, toolVars, recorded, torn, cut>>

\* Mutant: the transport is closed without waiting for the chain.
TransportClosesAtOnce ==
  /\ stream = "closing"
  /\ stream' = "closed"
  /\ CloseSession
  /\ UNCHANGED <<heard, clock, chain, writeError, transportClosed, closeVars>>
  /\ UNCHANGED <<tool, evidence, torn, cut>>

\* closeTransport has waited for the chain, and the session is closed, whether
\* the chain ended well or not.
TransportCloses ==
  /\ stream = "closing"
  /\ chain = <<>>
  /\ stream' = "closed"
  /\ CloseSession
  /\ UNCHANGED <<heard, clock, chain, writeError, transportClosed, closeVars>>
  /\ UNCHANGED <<tool, evidence, torn, cut>>

\* DELETE /realtime/sessions/:id.  The closer waits for the chain; without one
\* the session is closed at once.
CloseRequested ==
  /\ ~ closing
  /\ session.status # "none"
  /\ \/ /\ closer
        /\ closer' = FALSE
        /\ closing' = TRUE
        /\ transportClosed' = TRUE
        /\ UNCHANGED <<call, session, executions, recorded, cut>>
     \/ /\ ~ closer
        /\ CloseSession
        /\ cut' = (cut \/ chain # <<>>)
        /\ UNCHANGED <<closeVars, transportClosed>>
  /\ UNCHANGED <<heard, clock, chain, writeError, stream, tool, evidence, torn>>

CloseFinishes ==
  /\ closing
  /\ chain = <<>>
  /\ closing' = FALSE
  /\ CloseSession
  /\ UNCHANGED <<bridgeVars, closer, tool, evidence, torn, cut>>

-----------------------------------------------------------------------------
Next ==
  \/ Connect \/ ConnectFails \/ HistoryUpdated \/ AppendTranscriptSegment
  \/ HangUp \/ TransportCloses \/ CloseRequested \/ CloseFinishes
  \/ \E t \in Tools :
       \/ StartTool(t) \/ Execute(t) \/ ExecuteFails(t)
       \/ Synchronize(t) \/ SynchronizeFails(t)

Spec == Init /\ [][Next]_vars

\* Promises that are due are run.  Nothing is asked of the human, the agent or
\* the tools.
FairSpec ==
  /\ Spec
  /\ WF_vars(AppendTranscriptSegment)
  /\ WF_vars(TransportCloses)
  /\ WF_vars(CloseFinishes)

-----------------------------------------------------------------------------
Sessions == [status : {"none", "ACTIVE", "CLOSED", "deleted"}, mode : Modes,
             bound : BOOLEAN, segments : [Turns -> Stamps]]

\* Every variable has a value of its kind.
TypeOK ==
  /\ call \in [operator : BOOLEAN, purpose : Modes, bound : BOOLEAN,
              row : SUBSET Turns, linked : BOOLEAN]
  /\ session \in Sessions
  /\ heard \in 0..MaxTurns
  /\ clock \in 0..MaxUpdates
  /\ chain \in Seq([turn : Turns, stamp : Stamps \ {0}])
  /\ writeError \in BOOLEAN
  /\ stream \in {"none", "open", "closing", "closed"}
  /\ transportClosed \in BOOLEAN
  /\ closer \in BOOLEAN
  /\ closing \in BOOLEAN
  /\ tool \in [Tools -> [phase : {"idle", "running", "ran"}, copy : Sessions]]
  /\ executions \subseteq Tools
  /\ evidence \in [Tools -> 0..MaxTurns]
  /\ recorded \subseteq Turns
  /\ torn \in BOOLEAN
  /\ cut \in BOOLEAN

\* No tool rests on words that were never stored with the call, whichever
\* writes failed before it (waitForTranscript); and the words an agreement
\* rests on stay in the call's transcript until it has been closed and after.
EvidenceKept ==
  \A t \in Tools : evidence[t] # 0 =>
    /\ evidence[t] \in recorded
    /\ call.purpose = "COMMIT" => evidence[t] \in call.row

\* The agent may do what the call is for: while no tool is changing what that
\* is, the session has the mode and the operation of the row, however old the
\* copy that was saved last (synchronizeSessionContext).
SessionFollowsCall ==
  session.status = "ACTIVE" /\ InFlight = {} /\ ~ torn =>
    session.mode = ModeFor(call.purpose) /\ session.bound = call.bound

\* A call to close that has ended has everything the human said in its
\* transcript, whatever writes failed before the last, unless the session was
\* closed from outside while the bridge was closing it (closeTransport, closeSession).
WholeTranscript ==
  session.status = "deleted" /\ ~ cut /\ call.purpose = "COMMIT" => 1..heard \subseteq call.row

\* A conversation that has ended leaves no session behind, for good: not for a
\* tool to use, nor to be saved again by one that was in flight.  Only if its
\* last writes fail does it stay: CLOSED, until a tool that was in flight saves
\* the active copy it has read.
HangUpCloses ==
  closing \/ stream = "closing" ~>
    (session.status = "CLOSED" \/ [](session.status = "deleted"))

\* The evidence of an agreement is the last thing the human said
\* (twilio-media.bridge.ts, line 654).
LastWordIsEvidence ==
  [][\A t \in Tools : evidence'[t] \notin {evidence[t], 0} =>
        \A u \in Known(session) : u <= evidence'[t]]_vars
=============================================================================
