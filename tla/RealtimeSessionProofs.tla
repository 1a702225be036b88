------------------------ MODULE RealtimeSessionProofs ------------------------
(***************************************************************************)
(* What holds of a session for every number of turns, updates and tools in *)
(* flight, and whichever statements fail: the types, that evidence is      *)
(* recorded before it is used, that the session follows the call, that a   *)
(* call to close keeps its whole transcript, that a conversation that has  *)
(* ended leaves no session, and that a deleted session is never stored     *)
(* again.                                                                  *)
(***************************************************************************)
EXTENDS RealtimeSession, SequenceTheorems, TLAPS

\* The items of an update are observations of turns.
LEMMA ObservationsType ==
  ASSUME NEW n \in 0..MaxTurns, NEW c \in 1..MaxUpdates, TypeOK
  PROVE  Observations(n, 2 * c - 1) \in Seq([turn : Turns, stamp : Stamps \ {0}])
<1> DEFINE S == [turn : Turns, stamp : Stamps \ {0}]
<1>1. n \in Nat
  BY BoundsAssumption
<1>2. 2 * c - 1 \in Stamps \ {0} /\ 2 * c \in Stamps \ {0} /\ (2 * c - 1) + 1 = 2 * c
  BY BoundsAssumption DEF Stamps
<1>3. \A t \in 1..n :
        [turn |-> t, stamp |-> IF t > heard THEN (2 * c - 1) + 1 ELSE 2 * c - 1] \in S
  BY <1>2, BoundsAssumption DEF Turns
<1> QED
  BY <1>1, <1>3, IsASeq DEF Observations

LEMMA ToolNames ==
  /\ Tools = {"createOperation", "getOperationStatus", "recordVerbalAgreement",
              "requestEscalation", "confirmPickup", "confirmDelivery"}
  /\ \A m \in Modes : ToolsOf(m) \subseteq Tools
BY DEF Tools, ToolsOf, Modes

LEMMA NoSessionType == NoSession \in Sessions /\ Known(NoSession) = {}
BY BoundsAssumption DEF NoSession, Sessions, Known, Silence, Modes, Stamps

LEMMA InitType == Init => TypeOK
<1> SUFFICES ASSUME Init PROVE TypeOK
  OBVIOUS
<1>1. call \in [operator : BOOLEAN, purpose : Modes, bound : BOOLEAN,
                row : SUBSET Turns, linked : BOOLEAN]
  BY PurposesAssumption DEF Init
<1>2. tool \in [Tools -> [phase : {"idle", "running", "ran"}, copy : Sessions]]
  BY NoSessionType DEF Init, NotCalled
<1>3. session \in Sessions
  BY NoSessionType DEF Init
<1>4. chain \in Seq([turn : Turns, stamp : Stamps \ {0}])
  BY DEF Init
<1>5. heard \in 0..MaxTurns /\ clock \in 0..MaxUpdates /\ evidence \in [Tools -> 0..MaxTurns]
  BY BoundsAssumption DEF Init, Stamps
<1> QED
  BY <1>1, <1>2, <1>3, <1>4, <1>5 DEF TypeOK, Init

\* Changing the fields of a session keeps it one.
LEMMA SessionFields ==
  ASSUME NEW s \in Sessions
  PROVE  /\ Delivery(s) \in Sessions
         /\ [s EXCEPT !.bound = TRUE] \in Sessions
         /\ \A st \in {"CLOSED", "deleted"} : [s EXCEPT !.status = st] \in Sessions
         /\ Known(s) \subseteq Turns
BY DEF Sessions, Delivery, Modes, Known

LEMMA StreamType ==
  ASSUME TypeOK, Connect \/ ConnectFails \/ HangUp
  PROVE  TypeOK'
<1>1. NewSession \in Sessions
  BY BoundsAssumption DEF TypeOK, NewSession, Sessions, ModeFor, Silence, Stamps
<1>2. CASE Connect
  BY <1>1, <1>2 DEF TypeOK, Connect, toolVars
<1>3. CASE ConnectFails
  BY <1>1, <1>3 DEF TypeOK, ConnectFails, bridgeVars, closeVars, toolVars
<1>4. CASE HangUp
  BY <1>4 DEF TypeOK, HangUp, toolVars
<1> QED
  BY <1>2, <1>3, <1>4

LEMMA HistoryType == TypeOK /\ HistoryUpdated => TypeOK'
<1> SUFFICES ASSUME TypeOK, HistoryUpdated PROVE TypeOK'
  OBVIOUS
<1>1. heard' \in 0..MaxTurns /\ clock' \in 1..MaxUpdates
  BY BoundsAssumption DEF TypeOK, HistoryUpdated
<1>2. Observations(heard', 2 * clock' - 1) \in Seq([turn : Turns, stamp : Stamps \ {0}])
  BY <1>1, ObservationsType
<1>3. chain' \in Seq([turn : Turns, stamp : Stamps \ {0}])
  BY <1>2 DEF TypeOK, HistoryUpdated
<1> QED
  BY <1>1, <1>3 DEF TypeOK, HistoryUpdated, closeVars, toolVars

\* What the chain has next is merged into a session.
LEMMA MergedType ==
  ASSUME TypeOK, chain # <<>>
  PROVE  /\ Merged \in Sessions
         /\ Known(Merged) = Known(session) \cup {Head(chain).turn}
         /\ Tail(chain) \in Seq([turn : Turns, stamp : Stamps \ {0}])
<1> DEFINE S == [turn : Turns, stamp : Stamps \ {0}]
<1>1. chain \in Seq(S) /\ session \in Sessions
  BY DEF TypeOK
<1>2. Head(chain) \in S /\ Tail(chain) \in Seq(S)
  BY <1>1, HeadTailProperties
<1>3. PICK t \in Turns, c \in Stamps \ {0} : Head(chain).turn = t /\ Head(chain).stamp = c
  BY <1>2
<1>4. Merged = [session EXCEPT !.segments = [session.segments EXCEPT ![t] = c]]
  BY <1>3 DEF Merged
<1>5. session.segments \in [Turns -> Stamps]
  BY <1>1 DEF Sessions
<1>6. [session.segments EXCEPT ![t] = c] \in [Turns -> Stamps]
  BY <1>3, <1>5
<1>7. Merged \in Sessions /\ Merged.segments = [session.segments EXCEPT ![t] = c]
  BY <1>1, <1>4, <1>6 DEF Sessions
<1>8. Known(Merged) = Known(session) \cup {t}
  BY <1>3, <1>5, <1>7 DEF Known
<1> QED
  BY <1>2, <1>3, <1>7, <1>8

LEMMA AppendType == TypeOK /\ AppendTranscriptSegment => TypeOK'
<1> SUFFICES ASSUME TypeOK, AppendTranscriptSegment PROVE TypeOK'
  OBVIOUS
<1>1. /\ Merged \in Sessions
      /\ Known(Merged) \subseteq Turns
      /\ chain' \in Seq([turn : Turns, stamp : Stamps \ {0}])
  BY MergedType, SessionFields DEF AppendTranscriptSegment
<1>2. /\ session' \in Sessions
      /\ call' \in [operator : BOOLEAN, purpose : Modes, bound : BOOLEAN,
                     row : SUBSET Turns, linked : BOOLEAN]
      /\ recorded' \subseteq Turns
      /\ writeError' \in BOOLEAN
  BY <1>1 DEF TypeOK, AppendTranscriptSegment
<1> QED
  BY <1>1, <1>2 DEF TypeOK, AppendTranscriptSegment, closeVars, toolVars

LEMMA StartToolType ==
  ASSUME TypeOK, NEW t \in Tools, StartTool(t)
  PROVE  TypeOK'
<1>1. PICK e \in Known(session) \cup {0} : evidence' = [evidence EXCEPT ![t] = e]
  BY DEF StartTool, LatestEvidence
<1>2. e \in 0..MaxTurns
  <2>1. session \in Sessions
    BY DEF TypeOK
  <2>2. e \in Turns \cup {0}
    BY <2>1, SessionFields
  <2> QED
    BY <2>2, BoundsAssumption DEF Turns
<1>3. evidence' \in [Tools -> 0..MaxTurns]
  BY <1>1, <1>2 DEF TypeOK
<1>4. tool' \in [Tools -> [phase : {"idle", "running", "ran"}, copy : Sessions]]
  BY DEF TypeOK, StartTool
<1> QED
  BY <1>3, <1>4 DEF TypeOK, StartTool, bridgeVars, closeVars

\* The row keeps its kind when its context is changed.
LEMMA BoundRow ==
  ASSUME TypeOK, NEW p \in Modes, BindTo(p)
  PROVE  /\ call' \in [operator : BOOLEAN, purpose : Modes, bound : BOOLEAN,
                        row : SUBSET Turns, linked : BOOLEAN]
         /\ call'.operator = call.operator
         /\ call'.purpose = p
         /\ call'.bound = TRUE
         /\ call'.row = call.row
BY DEF TypeOK, BindTo

LEMMA ToolEnds ==
  ASSUME TypeOK, NEW t \in Tools, Ends(t)
  PROVE  tool' \in [Tools -> [phase : {"idle", "running", "ran"}, copy : Sessions]]
BY NoSessionType DEF TypeOK, Ends, NotCalled

LEMMA PurposeGiven ==
  ASSUME NEW t \in Tools, NEW p \in PurposesGiven(t)
  PROVE  /\ p \in {"OPERATIONS", "DELIVERY"}
         /\ t \in {"createOperation", "getOperationStatus"}
<1>1. CASE t = "createOperation"
  BY <1>1 DEF PurposesGiven
<1>2. CASE t = "getOperationStatus" /\ ~ tool[t].copy.bound
  BY <1>2 DEF PurposesGiven
<1>3. CASE t # "createOperation" /\ ~ (t = "getOperationStatus" /\ ~ tool[t].copy.bound)
  BY <1>3 DEF PurposesGiven
<1> QED
  BY <1>1, <1>2, <1>3

\* Executing a tool leaves the row as it is, or gives it a purpose.
LEMMA ExecutedRow ==
  ASSUME TypeOK, NEW t \in Tools, Execute(t) \/ ExecuteFails(t)
  PROVE  \/ UNCHANGED call
         \/ /\ t \in {"createOperation", "getOperationStatus"}
            /\ \E p \in {"OPERATIONS", "DELIVERY"} : BindTo(p)
BY PurposeGiven DEF Execute, ExecuteFails

LEMMA ExecuteType ==
  ASSUME TypeOK, NEW t \in Tools, Execute(t) \/ ExecuteFails(t)
  PROVE  TypeOK'
<1>1. call' \in [operator : BOOLEAN, purpose : Modes, bound : BOOLEAN,
                 row : SUBSET Turns, linked : BOOLEAN]
  BY ExecutedRow, BoundRow DEF TypeOK, Modes
<1>2. tool' \in [Tools -> [phase : {"idle", "running", "ran"}, copy : Sessions]]
  <2>1. CASE Ends(t)
    BY <2>1, ToolEnds
  <2>2. CASE tool' = [tool EXCEPT ![t].phase = "ran"]
    BY <2>2 DEF TypeOK
  <2> QED
    BY <2>1, <2>2 DEF Execute, ExecuteFails
<1>3. executions' \subseteq Tools /\ torn' \in BOOLEAN
  BY DEF TypeOK, Execute, ExecuteFails
<1>4. UNCHANGED <<session, bridgeVars, closeVars, evidence, recorded, cut>>
  BY DEF Execute, ExecuteFails
<1> QED
  BY <1>1, <1>2, <1>3, <1>4 DEF TypeOK, bridgeVars, closeVars

\* What a tool saves is a session.
LEMMA SynchronizedType ==
  ASSUME TypeOK, NEW t \in Tools, Synchronized(t)
  PROVE  /\ session' \in Sessions
         /\ call' \in [operator : BOOLEAN, purpose : Modes, bound : BOOLEAN,
                       row : SUBSET Turns, linked : BOOLEAN]
<1> DEFINE copy == tool[t].copy
           s == [copy EXCEPT !.bound = TRUE]
<1>1. copy \in Sessions /\ session \in Sessions
  BY DEF TypeOK
<1>2. Delivery(copy) \in Sessions /\ s \in Sessions /\ Delivery(s) \in Sessions
  BY <1>1, SessionFields
<1>3. session' \in {session, Delivery(copy), s, Delivery(s)}
  BY DEF Synchronized
<1>4. UNCHANGED call \/ BindTo("DELIVERY")
  BY DEF Synchronized
<1> QED
  BY <1>1, <1>2, <1>3, <1>4, BoundRow DEF TypeOK, Modes

LEMMA SynchronizeType ==
  ASSUME TypeOK, NEW t \in Tools, Synchronize(t) \/ SynchronizeFails(t)
  PROVE  TypeOK'
<1>1. tool' \in [Tools -> [phase : {"idle", "running", "ran"}, copy : Sessions]]
  BY ToolEnds DEF Synchronize, SynchronizeFails
<1>2. CASE Synchronize(t)
  <2>1. executions' \subseteq Tools
    BY <1>2 DEF TypeOK, Synchronize
  <2> QED
    BY <1>1, <1>2, <2>1, SynchronizedType DEF TypeOK, Synchronize, bridgeVars, closeVars
<1>3. CASE SynchronizeFails(t)
  <2>1. UNCHANGED call \/ BindTo("DELIVERY")
    BY <1>3 DEF SynchronizeFails
  <2>2. call' \in [operator : BOOLEAN, purpose : Modes, bound : BOOLEAN,
                   row : SUBSET Turns, linked : BOOLEAN]
    BY <2>1, BoundRow DEF TypeOK, Modes
  <2> QED
    BY <1>1, <1>3, <2>2 DEF TypeOK, SynchronizeFails, bridgeVars, closeVars
<1> QED
  BY <1>2, <1>3

LEMMA CloseSessionType ==
  ASSUME TypeOK, CloseSession
  PROVE  /\ session' \in Sessions
         /\ call' \in [operator : BOOLEAN, purpose : Modes, bound : BOOLEAN,
                       row : SUBSET Turns, linked : BOOLEAN]
         /\ executions' \subseteq Tools
         /\ recorded' \subseteq Turns
<1>1. session \in Sessions
  BY DEF TypeOK
<1>2. /\ [session EXCEPT !.status = "deleted"] \in Sessions
      /\ [session EXCEPT !.status = "CLOSED"] \in Sessions
      /\ Known(session) \subseteq Turns
  BY <1>1, SessionFields
<1> QED
  BY <1>2 DEF TypeOK, CloseSession

LEMMA ClosingType ==
  ASSUME TypeOK, TransportCloses \/ CloseRequested \/ CloseFinishes
  PROVE  TypeOK'
<1>1. CASE TransportCloses
  BY <1>1, CloseSessionType DEF TypeOK, TransportCloses, closeVars
<1>2. CASE CloseRequested
  BY <1>2, CloseSessionType DEF TypeOK, CloseRequested, closeVars
<1>3. CASE CloseFinishes
  BY <1>3, CloseSessionType DEF TypeOK, CloseFinishes, bridgeVars
<1> QED
  BY <1>1, <1>2, <1>3

LEMMA NextType == TypeOK /\ [Next]_vars => TypeOK'
<1> SUFFICES ASSUME TypeOK, [Next]_vars PROVE TypeOK'
  OBVIOUS
<1>1. CASE UNCHANGED vars
  BY <1>1 DEF TypeOK, vars, bridgeVars, closeVars, toolVars
<1>2. ASSUME NEW t \in Tools,
             StartTool(t) \/ Execute(t) \/ ExecuteFails(t) \/ Synchronize(t) \/ SynchronizeFails(t)
      PROVE  TypeOK'
  BY <1>2, StartToolType, ExecuteType, SynchronizeType
<1> QED
  BY <1>1, <1>2, StreamType, HistoryType, AppendType, ClosingType DEF Next

THEOREM TypeCorrect == Spec => []TypeOK
<1> QED
  BY InitType, NextType, PTL DEF Spec

-----------------------------------------------------------------------------
\* What is known of a session, and of the copy a tool works on, is in the row
\* or has been; a copy is of an active session that allows the tool.
Stored ==
  /\ session.status = "ACTIVE" /\ ~ writeError => Known(session) \subseteq recorded
  /\ \A t \in Tools : tool[t].phase # "idle" =>
       /\ tool[t].copy.status = "ACTIVE"
       /\ Known(tool[t].copy) \subseteq recorded
       /\ t \in ToolsOf(tool[t].copy.mode)
       /\ tool[t].phase = "ran" => t \in Contextual
  /\ \A t \in Tools : evidence[t] # 0 => evidence[t] \in recorded

\* A call to close has no tool that saves its session, whose segments only
\* grow, and the row with them.
CommitCall ==
  call.purpose = "COMMIT" =>
    /\ session.mode = "COMMIT"
    /\ \A t \in Tools : tool[t].phase # "idle" => tool[t].copy.mode = "COMMIT"
    /\ session.status = "none" => call.row = {}
    /\ session.status # "none" => call.row \subseteq Known(session)
    /\ session.status = "ACTIVE" /\ ~ writeError => Known(session) \subseteq call.row
    /\ \A t \in Tools : evidence[t] # 0 => evidence[t] \in call.row

EvidenceInv == TypeOK /\ Stored /\ CommitCall

\* The turns the chain still has to write.
Waiting == {chain[i].turn : i \in DOMAIN chain}

\* The stream feeds an active session until it closes.
Feeds ==
  /\ closer <=> (stream = "open" /\ ~ transportClosed)
  /\ closer => session.status = "ACTIVE"
  /\ stream = "none" =>
       heard = 0 /\ chain = <<>> /\ ~ transportClosed /\ ~ closing
  /\ closing => transportClosed
  /\ session.status = "none" => stream = "none"

\* Nothing that was heard is forgotten.
Remembered ==
  call.purpose = "COMMIT" /\ ~ cut =>
    /\ session.status = "ACTIVE" => 1..heard \subseteq Known(session) \cup Waiting
    /\ session.status = "deleted" => 1..heard \subseteq call.row

TranscriptInv == EvidenceInv /\ Feeds /\ Remembered

\* A session in mode m may be one of this call.
Fits(m) ==
  /\ m = "OPERATIONS" => call.operator
  /\ m = "COMMIT" => call.purpose = "COMMIT"
  /\ m = "EXECUTION" => call.purpose \in {"EXECUTION", "DELIVERY"} /\ ~ call.operator
  /\ m = "DELIVERY" => call.purpose \in {"OPERATIONS", "DELIVERY"}

\* s is a session of this call.
Belongs(s) ==
  /\ Fits(s.mode)
  /\ s.bound => call.bound
  /\ s.mode # "OPERATIONS" => s.bound

\* What is unbound is an operator's call, before it has an operation.
Context ==
  /\ call.purpose = "OPERATIONS" => call.operator
  /\ call.operator => call.purpose \in {"OPERATIONS", "DELIVERY"}
  /\ ~ call.bound => call.purpose = "OPERATIONS"
  /\ session.status # "none" => Belongs(session)
  /\ \A t \in Tools : tool[t].phase # "idle" => Belongs(tool[t].copy)

Binding == {"createOperation", "getOperationStatus"}

\* Unless a tool has bound the call and not yet saved the session.
Agreement ==
  session.status = "ACTIVE" /\ ~ torn /\ (\A t \in Binding : tool[t].phase # "ran") =>
    session.mode = call.purpose /\ session.bound = call.bound

ContextInv == TypeOK /\ Stored /\ Context /\ Agreement

-----------------------------------------------------------------------------
\* Evidence.

\* Only the status, the mode and the operation of a session are changed.
LEMMA SameWords ==
  ASSUME NEW s \in Sessions
  PROVE  /\ Known(Delivery(s)) = Known(s)
         /\ Known([s EXCEPT !.bound = TRUE]) = Known(s)
         /\ \A st \in {"CLOSED", "deleted"} : Known([s EXCEPT !.status = st]) = Known(s)
BY DEF Sessions, Delivery, Known

LEMMA SameRest ==
  ASSUME NEW s \in Sessions
  PROVE  /\ Delivery(s).status = s.status
         /\ Delivery(s).bound = s.bound
         /\ Delivery(s).mode = "DELIVERY"
         /\ [s EXCEPT !.bound = TRUE].status = s.status
         /\ [s EXCEPT !.bound = TRUE].mode = s.mode
         /\ [s EXCEPT !.bound = TRUE].bound = TRUE
         /\ \A st \in {"CLOSED", "deleted"} :
              /\ [s EXCEPT !.status = st].status = st
              /\ [s EXCEPT !.status = st].mode = s.mode
              /\ [s EXCEPT !.status = st].bound = s.bound
BY DEF Sessions, Delivery

LEMMA NewSessionFields ==
  ASSUME TypeOK
  PROVE  /\ NewSession.status = "ACTIVE"
         /\ NewSession.mode = call.purpose
         /\ NewSession.bound = call.bound
         /\ Known(NewSession) = {}
BY DEF NewSession, ModeFor, Known, Silence

LEMMA MergedFields ==
  /\ Merged.status = session.status
  /\ Merged.mode = session.mode
  /\ Merged.bound = session.bound
BY DEF Merged

\* What closing a session does to it and to the row.
LEMMA Closed ==
  ASSUME TypeOK, CloseSession
  PROVE  /\ call' = call \/ call' = [call EXCEPT !.linked = FALSE,
                   !.row = IF Known(session) = {} THEN @ ELSE Known(session)]
         /\ call'.purpose = call.purpose /\ call'.operator = call.operator
         /\ call'.bound = call.bound
         /\ call'.row = call.row \/ (Known(session) # {} /\ call'.row = Known(session))
         /\ session'.status # "ACTIVE"
         /\ session'.mode = session.mode /\ session'.bound = session.bound
         /\ Known(session') = Known(session)
         /\ recorded \subseteq recorded'
         /\ session.status # "ACTIVE" => UNCHANGED <<session, call>>
<1>1. session \in Sessions
  BY DEF TypeOK
<1>2. CASE UNCHANGED <<call, session, recorded>> /\ session.status # "ACTIVE"
  BY <1>2
<1>3. CASE /\ session' = [session EXCEPT !.status = "deleted"]
           /\ session.status = "ACTIVE"
           /\ call' = [call EXCEPT !.linked = FALSE,
                   !.row = IF Known(session) = {} THEN @ ELSE Known(session)]
           /\ recorded' = recorded \cup Known(session)
  <2>1. Known(session') = Known(session)
    BY <1>1, <1>3, SameWords
  <2> QED
    BY <1>1, <1>3, <2>1, SameRest DEF TypeOK
<1>4. CASE /\ session' = [session EXCEPT !.status = "CLOSED"]
           /\ session.status = "ACTIVE"
           /\ UNCHANGED <<call, recorded>>
  <2>1. Known(session') = Known(session)
    BY <1>1, <1>4, SameWords
  <2> QED
    BY <1>1, <1>4, <2>1, SameRest
<1> QED
  BY <1>2, <1>3, <1>4 DEF CloseSession

\* What a tool saves is what it read, and only Contextual tools save.
LEMMA Saved ==
  ASSUME TypeOK, NEW t \in Tools, Synchronized(t)
  PROVE  \/ UNCHANGED <<session, call>>
         \/ /\ t = "confirmPickup"
            /\ BindTo("DELIVERY")
            /\ session' = Delivery(tool[t].copy)
         \/ /\ t # "confirmPickup"
            /\ UNCHANGED call
            /\ call.operator /\ call.bound
            /\ session' = IF call.purpose = "DELIVERY"
                          THEN Delivery([tool[t].copy EXCEPT !.bound = TRUE])
                          ELSE [tool[t].copy EXCEPT !.bound = TRUE]
BY DEF Synchronized, Saves

LEMMA SavedFields ==
  ASSUME TypeOK, NEW t \in Tools, Synchronized(t)
  PROVE  \/ UNCHANGED session
         \/ /\ session'.status = tool[t].copy.status
            /\ Known(session') = Known(tool[t].copy)
<1> DEFINE copy == tool[t].copy
           s == [copy EXCEPT !.bound = TRUE]
<1>1. copy \in Sessions
  BY DEF TypeOK
<1>2. s \in Sessions /\ s.status = copy.status /\ Known(s) = Known(copy)
  BY <1>1, SessionFields, SameWords, SameRest
<1>3. /\ Known(Delivery(copy)) = Known(copy) /\ Delivery(copy).status = copy.status
      /\ Known(Delivery(s)) = Known(copy) /\ Delivery(s).status = copy.status
  BY <1>1, <1>2, SameWords, SameRest
<1>4. session' \in {session, Delivery(copy), s, Delivery(s)}
  BY Saved
<1> QED
  BY <1>2, <1>3, <1>4

\* A tool that ends leaves the others as they are.
LEMMA EndsAlone ==
  ASSUME TypeOK, NEW t \in Tools, Ends(t), NEW u \in Tools, tool'[u].phase # "idle"
  PROVE  u # t /\ tool'[u] = tool[u]
BY DEF TypeOK, Ends, NotCalled

LEMMA StoredStep == TypeOK /\ Stored /\ [Next]_vars => Stored'
<1> SUFFICES ASSUME TypeOK, Stored, [Next]_vars PROVE Stored'
  OBVIOUS
<1>1. CASE UNCHANGED <<session, writeError, tool, evidence, recorded>>
  BY <1>1 DEF Stored, Known
<1>2. CASE Connect \/ ConnectFails
  <2>1. session' = session \/ (session' = NewSession)
    BY <1>2 DEF Connect, ConnectFails
  <2>2. Known(session') = {} \/ UNCHANGED session
    BY <2>1, NewSessionFields
  <2>3. UNCHANGED <<writeError, tool, evidence, recorded>>
    BY <1>2 DEF Connect, ConnectFails, bridgeVars, toolVars
  <2> QED
    BY <2>2, <2>3 DEF Stored, Known
<1>3. CASE AppendTranscriptSegment
  <2>1. UNCHANGED <<tool, evidence>> /\ recorded \subseteq recorded'
    BY <1>3 DEF AppendTranscriptSegment, toolVars
  <2>2. session'.status = "ACTIVE" /\ ~ writeError' => Known(session') \subseteq recorded'
    <3>1. CASE session' = Merged /\ recorded' = recorded \cup Known(Merged)
      BY <3>1
    <3>2. CASE writeError' = TRUE
      BY <3>2
    <3>3. CASE UNCHANGED session /\ session.status # "ACTIVE"
      BY <3>3
    <3> QED
      BY <1>3, <3>1, <3>2, <3>3 DEF AppendTranscriptSegment
  <2> QED
    BY <2>1, <2>2 DEF Stored
<1>4. CASE TransportCloses \/ CloseRequested \/ CloseFinishes
  <2>1. UNCHANGED <<writeError, tool, evidence>>
    BY <1>4 DEF TransportCloses, CloseRequested, CloseFinishes, bridgeVars
  <2>2. UNCHANGED <<session, recorded>> \/ CloseSession
    BY <1>4 DEF TransportCloses, CloseRequested, CloseFinishes
  <2> QED
    BY <2>1, <2>2, Closed DEF Stored, Known
<1>5. ASSUME NEW t \in Tools, StartTool(t) PROVE Stored'
  <2>1. PICK e \in Known(session) \cup {0} : evidence' = [evidence EXCEPT ![t] = e]
    BY <1>5 DEF StartTool, LatestEvidence
  <2>2. Known(session) \subseteq recorded
    BY <1>5 DEF Stored, StartTool
  <2>3. \A u \in Tools : evidence'[u] # 0 => evidence'[u] \in recorded
    BY <2>1, <2>2 DEF Stored, TypeOK
  <2>4. \A u \in Tools : tool'[u] = IF u = t THEN [phase |-> "running", copy |-> session] ELSE tool[u]
    BY <1>5 DEF StartTool, TypeOK
  <2>5. \A u \in Tools : tool'[u].phase # "idle" =>
          /\ tool'[u].copy.status = "ACTIVE"
          /\ Known(tool'[u].copy) \subseteq recorded
          /\ u \in ToolsOf(tool'[u].copy.mode)
          /\ tool'[u].phase = "ran" => u \in Contextual
    BY <1>5, <2>2, <2>4 DEF Stored, StartTool
  <2> QED
    BY <1>5, <2>3, <2>5 DEF Stored, StartTool, bridgeVars, Known
<1>6. ASSUME NEW t \in Tools, Execute(t) \/ ExecuteFails(t) PROVE Stored'
  <2>1. UNCHANGED <<session, writeError, evidence, recorded>>
    BY <1>6 DEF Execute, ExecuteFails, bridgeVars
  <2>2. Ends(t) \/ (tool[t].phase = "running" /\ t \in Contextual /\ tool' = [tool EXCEPT ![t].phase = "ran"])
    BY <1>6 DEF Execute, ExecuteFails
  <2>3. \A u \in Tools : tool'[u].phase # "idle" =>
          /\ tool[u].phase # "idle" /\ tool'[u].copy = tool[u].copy
          /\ tool'[u].phase = "ran" => u \in Contextual \/ tool[u].phase = "ran"
    <3>1. CASE Ends(t)
      BY <3>1, EndsAlone
    <3>2. CASE tool[t].phase = "running" /\ t \in Contextual /\ tool' = [tool EXCEPT ![t].phase = "ran"]
      BY <3>2 DEF TypeOK
    <3> QED
      BY <2>2, <3>1, <3>2
  <2> QED
    BY <2>1, <2>3 DEF Stored, Known
<1>7. ASSUME NEW t \in Tools, Synchronize(t) \/ SynchronizeFails(t) PROVE Stored'
  <2>1. UNCHANGED <<writeError, evidence, recorded>> /\ Ends(t) /\ tool[t].phase = "ran"
    BY <1>7 DEF Synchronize, SynchronizeFails, bridgeVars
  <2>2. \A u \in Tools : tool'[u].phase # "idle" =>
          tool[u].phase # "idle" /\ tool'[u] = tool[u]
    BY <2>1, EndsAlone DEF TypeOK
  <2>3. UNCHANGED session \/ Known(session') \subseteq recorded
    BY <1>7, <2>1, SavedFields DEF Stored, Synchronize, SynchronizeFails
  <2> QED
    BY <2>1, <2>2, <2>3 DEF Stored, Known
<1>8. UNCHANGED vars \/ HistoryUpdated \/ HangUp
        => UNCHANGED <<session, writeError, tool, evidence, recorded>>
  BY DEF vars, HistoryUpdated, HangUp, bridgeVars, toolVars
<1> QED
  BY <1>1, <1>2, <1>3, <1>4, <1>5, <1>6, <1>7, <1>8 DEF Next

\* In a call to close nothing binds the call and nothing saves the session.
LEMMA NothingBinds ==
  ASSUME TypeOK, Stored, CommitCall, call.purpose = "COMMIT",
         NEW t \in Tools, tool[t].phase # "idle"
  PROVE  t \notin Contextual /\ PurposesGiven(t) = {}
<1>1. t \in {"recordVerbalAgreement", "requestEscalation"}
  BY DEF Stored, CommitCall, ToolsOf
<1> QED
  BY <1>1 DEF Contextual, PurposesGiven

\* A call never becomes one to close.
LEMMA NeverToClose ==
  ASSUME TypeOK, [Next]_vars, call'.purpose = "COMMIT"
  PROVE  call.purpose = "COMMIT"
<1>1. CASE UNCHANGED call.purpose
  BY <1>1
<1>2. ASSUME NEW p \in {"OPERATIONS", "DELIVERY"}, BindTo(p) PROVE FALSE
  BY <1>2, BoundRow DEF Modes
<1>3. CASE Connect \/ AppendTranscriptSegment
  <2>1. call'.purpose = call.purpose
    BY <1>3 DEF Connect, AppendTranscriptSegment, TypeOK
  <2> QED
    BY <2>1
<1>4. CASE TransportCloses \/ CloseRequested \/ CloseFinishes
  BY <1>4, Closed DEF TransportCloses, CloseRequested, CloseFinishes
<1>5. ASSUME NEW t \in Tools, Execute(t) \/ ExecuteFails(t) PROVE UNCHANGED call
  BY <1>5, <1>2, ExecutedRow
<1>6. ASSUME NEW t \in Tools, Synchronize(t) \/ SynchronizeFails(t) PROVE UNCHANGED call
  BY <1>6, <1>2, Saved DEF Synchronize, SynchronizeFails
<1> QED
  BY <1>1, <1>3, <1>4, <1>5, <1>6
    DEF Next, vars, ConnectFails, HistoryUpdated, HangUp, StartTool

LEMMA CommitCallStep == EvidenceInv /\ [Next]_vars => CommitCall'
<1> SUFFICES ASSUME TypeOK, Stored, CommitCall, [Next]_vars, call'.purpose = "COMMIT"
             PROVE  CommitCall'
  BY DEF EvidenceInv, CommitCall
<1> call.purpose = "COMMIT"
  BY NeverToClose
<1>1. CASE UNCHANGED <<session, writeError, tool, evidence, call>>
  BY <1>1 DEF CommitCall, Known
<1>2. CASE Connect \/ ConnectFails
  <2>1. UNCHANGED <<writeError, tool, evidence>> /\ call'.row = call.row
    BY <1>2 DEF Connect, ConnectFails, bridgeVars, toolVars, TypeOK
  <2>2. \/ UNCHANGED session
        \/ session.status = "none" /\ session' = NewSession
    BY <1>2 DEF Connect, ConnectFails
  <2>3. CASE session.status = "none" /\ session' = NewSession
    <3>1. call.row = {}
      BY <2>3 DEF CommitCall
    <3>2. session'.status = "ACTIVE" /\ session'.mode = "COMMIT" /\ Known(session') = {}
      BY <2>3, NewSessionFields
    <3> QED
      BY <2>1, <3>1, <3>2 DEF CommitCall
  <2> QED
    BY <2>1, <2>2, <2>3 DEF CommitCall, Known
<1>3. CASE AppendTranscriptSegment
  <2>1. UNCHANGED <<tool, evidence>> /\ chain # <<>>
    BY <1>3 DEF AppendTranscriptSegment, toolVars
  <2>2. CASE UNCHANGED <<session, call>> /\ session.status # "ACTIVE"
    BY <2>1, <2>2 DEF CommitCall, Known
  <2>3. CASE session.status = "ACTIVE" /\ session' = Merged
    <3>1. Known(session) \subseteq Known(session')
      BY <2>1, <2>3, MergedType
    <3>2. call.row \subseteq Known(session)
      BY <2>3 DEF CommitCall
    <3>3. session'.status = "ACTIVE" /\ session'.mode = "COMMIT"
      BY <2>3, MergedFields DEF CommitCall
    <3>4. call'.row = Known(session') \/ (UNCHANGED call /\ writeError')
      BY <1>3, <2>3 DEF AppendTranscriptSegment, TypeOK
    <3> QED
      BY <2>1, <3>1, <3>2, <3>3, <3>4 DEF CommitCall
  <2> QED
    BY <1>3, <2>2, <2>3 DEF AppendTranscriptSegment
<1>4. CASE TransportCloses \/ CloseRequested \/ CloseFinishes
  <2>1. UNCHANGED <<writeError, tool, evidence>>
    BY <1>4 DEF TransportCloses, CloseRequested, CloseFinishes, bridgeVars
  <2>2. UNCHANGED <<session, call>> \/ CloseSession
    BY <1>4 DEF TransportCloses, CloseRequested, CloseFinishes
  <2>3. CASE CloseSession /\ session.status = "ACTIVE"
    <3>1. call.row \subseteq Known(session)
      BY <2>3 DEF CommitCall
    <3>2. call.row \subseteq call'.row /\ call'.row \subseteq Known(session')
      BY <2>3, <3>1, Closed
    <3>3. session'.status # "ACTIVE" /\ session'.mode = "COMMIT" /\ session'.status # "none"
      BY <2>3, Closed, SameRest DEF CommitCall, CloseSession, TypeOK
    <3> QED
      BY <2>1, <3>2, <3>3 DEF CommitCall
  <2> QED
    BY <2>1, <2>2, <2>3, Closed DEF CommitCall, Known
<1>5. ASSUME NEW t \in Tools, StartTool(t) PROVE CommitCall'
  <2>1. PICK e \in Known(session) \cup {0} : evidence' = [evidence EXCEPT ![t] = e]
    BY <1>5 DEF StartTool, LatestEvidence
  <2>2. Known(session) \subseteq call.row
    BY <1>5 DEF CommitCall, StartTool
  <2>3. \A u \in Tools : evidence'[u] # 0 => evidence'[u] \in call.row
    BY <2>1, <2>2 DEF CommitCall, TypeOK
  <2>4. \A u \in Tools : tool'[u] = IF u = t THEN [phase |-> "running", copy |-> session] ELSE tool[u]
    BY <1>5 DEF StartTool, TypeOK
  <2>5. \A u \in Tools : tool'[u].phase # "idle" => tool'[u].copy.mode = "COMMIT"
    BY <2>4 DEF CommitCall
  <2> QED
    BY <1>5, <2>3, <2>5 DEF CommitCall, StartTool, bridgeVars, Known
<1>6. ASSUME NEW t \in Tools, Execute(t) \/ ExecuteFails(t) PROVE CommitCall'
  <2>1. UNCHANGED <<session, writeError, evidence>> /\ tool[t].phase = "running"
    BY <1>6 DEF Execute, ExecuteFails, bridgeVars
  <2>2. t \notin Contextual /\ PurposesGiven(t) = {}
    BY <2>1, NothingBinds
  <2>3. UNCHANGED call /\ Ends(t)
    BY <1>6, <2>2 DEF Execute, ExecuteFails
  <2>4. \A u \in Tools : tool'[u].phase # "idle" => tool'[u] = tool[u]
    BY <2>3, EndsAlone
  <2> QED
    BY <2>1, <2>3, <2>4 DEF CommitCall, Known
<1>7. ASSUME NEW t \in Tools, Synchronize(t) \/ SynchronizeFails(t) PROVE CommitCall'
  <2>1. tool[t].phase = "ran"
    BY <1>7 DEF Synchronize, SynchronizeFails
  <2> QED
    BY <2>1, NothingBinds DEF Stored
<1>8. UNCHANGED vars \/ HistoryUpdated \/ HangUp
        => UNCHANGED <<session, writeError, tool, evidence, call>>
  BY DEF vars, HistoryUpdated, HangUp, bridgeVars, toolVars
<1> QED
  BY <1>1, <1>2, <1>3, <1>4, <1>5, <1>6, <1>7, <1>8 DEF Next

LEMMA EvidenceInvInit == Init => EvidenceInv
<1> SUFFICES ASSUME Init PROVE EvidenceInv
  OBVIOUS
<1>1. TypeOK
  BY InitType
<1>2. /\ session.status = "none" /\ session.mode = "COMMIT" /\ Known(session) = {}
      /\ \A t \in Tools : tool[t].phase = "idle" /\ evidence[t] = 0
      /\ call.row = {}
  <2>1. session = NoSession /\ call.row = {}
    BY DEF Init
  <2>2. \A t \in Tools : tool[t].phase = "idle" /\ evidence[t] = 0
    BY DEF Init, NotCalled
  <2>3. NoSession.status = "none" /\ NoSession.mode = "COMMIT"
    BY DEF NoSession
  <2> QED
    BY <2>1, <2>2, <2>3, NoSessionType
<1> QED
  BY <1>1, <1>2 DEF EvidenceInv, Stored, CommitCall

LEMMA EvidenceInvariant == Spec => []EvidenceInv
<1>1. EvidenceInv /\ [Next]_vars => EvidenceInv'
  BY NextType, StoredStep, CommitCallStep DEF EvidenceInv
<1> QED
  BY EvidenceInvInit, <1>1, PTL DEF Spec

\* No tool rests on words that were not stored, and those an agreement rests on
\* stay with the call: EvidenceKept, whichever writes fail.
THEOREM EvidenceIsKept == Spec => []EvidenceKept
<1>1. EvidenceInv => EvidenceKept
  BY DEF EvidenceInv, Stored, CommitCall, EvidenceKept
<1> QED
  BY EvidenceInvariant, <1>1, PTL

-----------------------------------------------------------------------------
\* A deleted session is not stored again, by no tool that was in flight.
THEOREM DeletedForGood == Spec => [][session.status = "deleted" => UNCHANGED session]_vars
<1>1. TypeOK /\ [Next]_vars => [session.status = "deleted" => UNCHANGED session]_vars
  <2> SUFFICES ASSUME TypeOK, [Next]_vars, session.status = "deleted" PROVE UNCHANGED session
    OBVIOUS
  <2>1. CASE UNCHANGED session
    BY <2>1
  <2>2. CASE Connect \/ ConnectFails \/ AppendTranscriptSegment
    BY <2>2 DEF Connect, ConnectFails, AppendTranscriptSegment
  <2>3. CASE TransportCloses \/ CloseRequested \/ CloseFinishes
    BY <2>3, Closed DEF TransportCloses, CloseRequested, CloseFinishes
  <2>4. ASSUME NEW t \in Tools, Synchronize(t) PROVE UNCHANGED session
    <3>1. ~ Saves(t)
      BY <2>4 DEF Synchronize, Saveable
    <3> QED
      BY <2>4, <3>1 DEF Synchronize, Synchronized, Saves
  <2> QED
    BY <2>1, <2>2, <2>3, <2>4
      DEF Next, vars, HistoryUpdated, HangUp, StartTool, Execute, ExecuteFails, SynchronizeFails
<1> QED
  BY TypeCorrect, <1>1, PTL DEF Spec

-----------------------------------------------------------------------------
\* The transcript.

\* While the session is active, tools leave it active.
LEMMA ToolsKeepStatus ==
  ASSUME TypeOK, Stored, NEW t \in Tools,
         Execute(t) \/ ExecuteFails(t) \/ Synchronize(t) \/ SynchronizeFails(t)
  PROVE  UNCHANGED session.status \/ session'.status = "ACTIVE"
BY SavedFields DEF Stored, Execute, ExecuteFails, Synchronize, SynchronizeFails

LEMMA FeedsStep == EvidenceInv /\ Feeds /\ [Next]_vars => Feeds'
<1> SUFFICES ASSUME TypeOK, Stored, Feeds, [Next]_vars PROVE Feeds'
  BY DEF EvidenceInv
<1>1. CASE Connect
  BY <1>1, NewSessionFields DEF Connect, Feeds, toolVars
<1>2. CASE ConnectFails
  BY <1>2, NewSessionFields DEF ConnectFails, Feeds, bridgeVars, closeVars
<1>3. CASE HistoryUpdated
  BY <1>3 DEF HistoryUpdated, Feeds, closeVars
<1>4. CASE AppendTranscriptSegment
  BY <1>4, MergedFields DEF AppendTranscriptSegment, Feeds, closeVars
<1>5. CASE HangUp
  BY <1>5 DEF HangUp, Feeds
<1>6. CASE TransportCloses
  <2>1. ~ closer /\ ~ closer' /\ stream' = "closed"
    BY <1>6 DEF TransportCloses, Feeds, closeVars
  <2>2. session.status # "none" => session'.status # "none"
    BY <1>6, SameRest DEF TransportCloses, CloseSession, TypeOK
  <2> QED
    BY <1>6, <2>1, <2>2 DEF TransportCloses, Feeds, closeVars
<1>7. CASE CloseRequested
  <2>1. session'.status # "none"
    BY <1>7, SameRest DEF CloseRequested, CloseSession, TypeOK
  <2> QED
    BY <1>7, <2>1 DEF CloseRequested, Feeds, closeVars
<1>8. CASE CloseFinishes
  <2>1. stream # "none" /\ session.status # "none"
    BY <1>8 DEF CloseFinishes, Feeds
  <2>2. session'.status # "none"
    BY <1>8, <2>1, SameRest DEF CloseFinishes, CloseSession, TypeOK
  <2>3. ~ closer
    BY <1>8 DEF CloseFinishes, Feeds
  <2> QED
    BY <1>8, <2>1, <2>2 DEF CloseFinishes, Feeds, bridgeVars
<1>9. ASSUME NEW t \in Tools,
             StartTool(t) \/ Execute(t) \/ ExecuteFails(t) \/ Synchronize(t) \/ SynchronizeFails(t)
      PROVE  Feeds'
  <2>1. UNCHANGED <<bridgeVars, closeVars>>
    BY <1>9 DEF StartTool, Execute, ExecuteFails, Synchronize, SynchronizeFails
  <2>2. UNCHANGED session.status \/ session'.status = "ACTIVE"
    BY <1>9, ToolsKeepStatus DEF StartTool
  <2> QED
    BY <2>1, <2>2 DEF Feeds, bridgeVars, closeVars
<1>10. CASE UNCHANGED vars
  BY <1>10 DEF vars, Feeds, bridgeVars, closeVars
<1> QED
  BY <1>1, <1>2, <1>3, <1>4, <1>5, <1>6, <1>7, <1>8, <1>9, <1>10 DEF Next

\* An update puts every turn that has been heard at the end of the chain.
LEMMA WaitingGrows ==
  ASSUME TypeOK, HistoryUpdated
  PROVE  1..heard' \subseteq Waiting'
<1> DEFINE S == [turn : Turns, stamp : Stamps \ {0}]
           obs == Observations(heard', 2 * clock' - 1)
<1>1. heard' \in 0..MaxTurns /\ clock' \in 1..MaxUpdates
  BY BoundsAssumption DEF TypeOK, HistoryUpdated
<1>2. obs \in Seq(S)
  BY <1>1, ObservationsType
<1>3. heard' \in Nat
  BY <1>1, BoundsAssumption
<1>4. Len(obs) = heard' /\ \A t \in 1..heard' : obs[t].turn = t
  BY <1>2, <1>3, LenProperties DEF Observations
<1>5. chain \in Seq(S) /\ chain' = chain \o obs
  BY DEF TypeOK, HistoryUpdated
<1>6. /\ Len(chain \o obs) = Len(chain) + heard'
      /\ \A t \in 1..heard' : (chain \o obs)[Len(chain) + t] = obs[t]
  <2> HIDE DEF obs
  <2>1. Len(chain) \in Nat /\ Len(obs) = heard'
    BY <1>4, <1>5
  <2>2. /\ Len(chain \o obs) = Len(chain) + Len(obs)
        /\ \A i \in 1..(Len(chain) + Len(obs)) :
             (chain \o obs)[i] = IF i <= Len(chain) THEN chain[i] ELSE obs[i - Len(chain)]
    BY <1>2, <1>5, ConcatProperties
  <2>3. ASSUME NEW t \in 1..heard' PROVE (chain \o obs)[Len(chain) + t] = obs[t]
    <3>1. Len(chain) + t \in 1..(Len(chain) + Len(obs)) /\ ~ (Len(chain) + t <= Len(chain))
      BY <1>3, <2>1
    <3>2. Len(chain) + t - Len(chain) = t
      BY <1>3, <2>1
    <3> QED
      BY <2>2, <3>1, <3>2
  <2> QED
    BY <2>1, <2>2, <2>3
<1>7. ASSUME NEW t \in 1..heard' PROVE t \in Waiting'
  <2>1. chain'[Len(chain) + t].turn = t
    BY <1>4, <1>5, <1>6
  <2>2. Len(chain) \in Nat /\ chain' \in Seq(S)
    BY <1>2, <1>5
  <2>3. Len(chain) + t \in DOMAIN chain'
    BY <1>3, <1>5, <1>6, <2>2
  <2> QED
    BY <2>1, <2>3 DEF Waiting
<1> QED
  BY <1>7

LEMMA WaitingShrinks ==
  ASSUME TypeOK, chain # <<>>, chain' = Tail(chain)
  PROVE  Waiting \subseteq Waiting' \cup {Head(chain).turn}
<1> DEFINE S == [turn : Turns, stamp : Stamps \ {0}]
<1>1. chain \in Seq(S)
  BY DEF TypeOK
<1>2. /\ Tail(chain) \in Seq(S) /\ Len(Tail(chain)) = Len(chain) - 1
      /\ \A i \in 1..Len(Tail(chain)) : Tail(chain)[i] = chain[i + 1]
  BY <1>1, HeadTailProperties
<1>3. ASSUME NEW i \in DOMAIN chain
      PROVE  chain[i].turn \in Waiting' \cup {Head(chain).turn}
  <2>1. i \in 1..Len(chain) /\ Len(chain) \in Nat
    BY <1>1
  <2>2. CASE i = 1
    BY <1>1, <2>2
  <2>3. CASE i # 1
    <3>1. i - 1 \in 1..Len(Tail(chain))
      BY <1>2, <2>1, <2>3
    <3>2. chain'[i - 1] = chain[i]
      BY <1>2, <2>1, <3>1
    <3>3. i - 1 \in DOMAIN chain'
      BY <1>2, <3>1
    <3> QED
      BY <3>2, <3>3 DEF Waiting
  <2> QED
    BY <2>2, <2>3
<1> QED
  BY <1>3 DEF Waiting

LEMMA NothingWaiting == chain = <<>> => Waiting = {}
BY DEF Waiting

\* In a call to close the transcript is whole when a session that has nothing
\* to write is closed.
LEMMA ClosedWhole ==
  ASSUME TypeOK, CommitCall, Remembered, call.purpose = "COMMIT", ~ cut,
         CloseSession, chain = <<>>
  PROVE  session'.status = "deleted" => 1..heard \subseteq call'.row
<1>1. CASE session.status = "ACTIVE"
  <2>1. 1..heard \subseteq Known(session)
    BY <1>1, NothingWaiting DEF Remembered
  <2>2. session'.status = "deleted" => Known(session) \subseteq call'.row
    <3>1. CASE call' = [call EXCEPT !.linked = FALSE,
                   !.row = IF Known(session) = {} THEN @ ELSE Known(session)]
      <4>1. call'.row = IF Known(session) = {} THEN call.row ELSE Known(session)
        BY <3>1 DEF TypeOK
      <4> QED
        BY <4>1
    <3>2. CASE session' = [session EXCEPT !.status = "CLOSED"]
      BY <3>2, SameRest DEF TypeOK
    <3> QED
      BY <1>1, <3>1, <3>2 DEF CloseSession
  <2> QED
    BY <2>1, <2>2
<1>2. CASE session.status # "ACTIVE"
  BY <1>2, Closed DEF Remembered
<1> QED
  BY <1>1, <1>2

LEMMA RememberedStep == TranscriptInv /\ [Next]_vars => Remembered'
<1> SUFFICES ASSUME TypeOK, Stored, CommitCall, Feeds, Remembered, [Next]_vars,
                    call'.purpose = "COMMIT", ~ cut'
             PROVE  /\ session'.status = "ACTIVE" => 1..heard' \subseteq Known(session)' \cup Waiting'
                    /\ session'.status = "deleted" => 1..heard' \subseteq call'.row
  BY DEF TranscriptInv, EvidenceInv, Remembered
<1> call.purpose = "COMMIT"
  BY NeverToClose
<1>1. CASE UNCHANGED <<session, chain, heard, call, cut>>
  BY <1>1 DEF Remembered, Known, Waiting
<1>2. CASE Connect \/ ConnectFails
  <2>1. UNCHANGED heard /\ heard = 0 /\ session'.status = "ACTIVE"
    BY <1>2, NewSessionFields DEF Connect, ConnectFails, Feeds, bridgeVars
  <2> QED
    BY <2>1
<1>3. CASE HistoryUpdated
  <2>1. 1..heard' \subseteq Waiting' /\ UNCHANGED session
    BY <1>3, WaitingGrows DEF HistoryUpdated
  <2>2. session.status = "ACTIVE"
    BY <1>3 DEF HistoryUpdated, Feeds
  <2> QED
    BY <2>1, <2>2
<1>4. CASE AppendTranscriptSegment
  <2>1. UNCHANGED <<heard, cut>> /\ chain # <<>> /\ chain' = Tail(chain)
    BY <1>4 DEF AppendTranscriptSegment
  <2>2. CASE session.status = "ACTIVE" /\ session' = Merged
    <3>1. 1..heard \subseteq Known(session) \cup Waiting
      BY <2>1, <2>2 DEF Remembered
    <3>2. Known(Merged) = Known(session) \cup {Head(chain).turn}
      BY <2>1, MergedType
    <3>3. Known(session)' = Known(Merged)
      BY <2>2 DEF Known
    <3>4. session'.status = "ACTIVE"
      BY <2>2, MergedFields
    <3> QED
      BY <2>1, <3>1, <3>2, <3>3, <3>4, WaitingShrinks
  <2>3. CASE session.status # "ACTIVE" /\ UNCHANGED <<session, call>>
    BY <2>1, <2>3 DEF Remembered
  <2> QED
    BY <1>4, <2>2, <2>3 DEF AppendTranscriptSegment
<1>5. CASE TransportCloses \/ CloseFinishes
  <2>1. UNCHANGED <<heard, cut>> /\ chain = <<>> /\ CloseSession
    BY <1>5 DEF TransportCloses, CloseFinishes, bridgeVars
  <2> QED
    BY <2>1, ClosedWhole, Closed
<1>6. CASE CloseRequested
  <2>1. UNCHANGED <<heard, chain>> /\ ~ cut
    <3>1. CASE UNCHANGED cut
      BY <1>6, <3>1 DEF CloseRequested
    <3>2. CASE cut' = (cut \/ chain # <<>>)
      BY <1>6, <3>2 DEF CloseRequested
    <3> QED
      BY <1>6, <3>1, <3>2 DEF CloseRequested
  <2>2. CASE UNCHANGED <<call, session>>
    BY <2>1, <2>2 DEF Remembered, Known, Waiting
  <2>3. CASE CloseSession /\ chain = <<>>
    BY <2>1, <2>3, ClosedWhole, Closed
  <2> QED
    BY <1>6, <2>2, <2>3 DEF CloseRequested
<1>7. ASSUME NEW t \in Tools,
             StartTool(t) \/ Execute(t) \/ ExecuteFails(t) \/ Synchronize(t) \/ SynchronizeFails(t)
      PROVE  UNCHANGED <<session, chain, heard, call, cut>>
  <2>1. UNCHANGED <<chain, heard, cut>>
    BY <1>7 DEF StartTool, Execute, ExecuteFails, Synchronize, SynchronizeFails, bridgeVars
  <2>2. CASE StartTool(t)
    BY <2>1, <2>2 DEF StartTool
  <2>3. CASE Execute(t) \/ ExecuteFails(t)
    BY <2>1, <2>3, NothingBinds DEF Execute, ExecuteFails
  <2>4. CASE Synchronize(t) \/ SynchronizeFails(t)
    BY <2>4, NothingBinds DEF Stored, Synchronize, SynchronizeFails
  <2> QED
    BY <1>7, <2>2, <2>3, <2>4
<1>8. UNCHANGED vars \/ HangUp => UNCHANGED <<session, chain, heard, call, cut>>
  BY DEF vars, HangUp, bridgeVars
<1> QED
  BY <1>1, <1>2, <1>3, <1>4, <1>5, <1>6, <1>7, <1>8 DEF Next

LEMMA TranscriptInvInit == Init => TranscriptInv
<1> SUFFICES ASSUME Init PROVE TranscriptInv
  OBVIOUS
<1>1. EvidenceInv
  BY EvidenceInvInit
<1>2. session.status = "none"
  BY DEF Init, NoSession
<1> QED
  BY <1>1, <1>2 DEF Init, TranscriptInv, Feeds, Remembered

LEMMA TranscriptInvariant == Spec => []TranscriptInv
<1>1. TranscriptInv /\ [Next]_vars => TranscriptInv'
  BY NextType, StoredStep, CommitCallStep, FeedsStep, RememberedStep
    DEF TranscriptInv, EvidenceInv
<1> QED
  BY TranscriptInvInit, <1>1, PTL DEF Spec

\* A call to close that has ended has everything that was heard in its
\* transcript, whichever writes failed: WholeTranscript.
THEOREM TranscriptIsWhole == Spec => []WholeTranscript
<1>1. TranscriptInv => WholeTranscript
  BY DEF TranscriptInv, Remembered, WholeTranscript
<1> QED
  BY TranscriptInvariant, <1>1, PTL

-----------------------------------------------------------------------------
\* The end of a conversation.

\* When the stream has closed and no close is still waiting for it, the session
\* is deleted; it is CLOSED only after a failure of its last writes.
HungUpLeavesNothing ==
  "closing" \notin Faults =>
    /\ session.status # "CLOSED"
    /\ stream = "closed" /\ ~ closing => session.status = "deleted"

LEMMA HungUpStep ==
  TypeOK /\ Stored /\ Feeds /\ HungUpLeavesNothing /\ [Next]_vars => HungUpLeavesNothing'
<1> SUFFICES ASSUME TypeOK, Stored, Feeds, HungUpLeavesNothing, [Next]_vars, "closing" \notin Faults
             PROVE  /\ session'.status # "CLOSED"
                    /\ stream' = "closed" /\ ~ closing' => session'.status = "deleted"
  BY DEF HungUpLeavesNothing
<1>1. /\ session.status # "CLOSED"
      /\ stream = "closed" /\ ~ closing => session.status = "deleted"
      /\ session.status \in {"none", "ACTIVE", "CLOSED", "deleted"}
  BY DEF HungUpLeavesNothing, TypeOK, Sessions
<1>2. CASE UNCHANGED <<session, stream, closing>>
  BY <1>1, <1>2
<1>3. CASE Connect \/ ConnectFails
  BY <1>1, <1>3 DEF Connect, ConnectFails, NewSession, bridgeVars, closeVars
<1>4. CASE AppendTranscriptSegment
  <2>1. session'.status = session.status
    BY <1>4, MergedFields DEF AppendTranscriptSegment
  <2> QED
    BY <1>1, <1>4, <2>1 DEF AppendTranscriptSegment, closeVars
<1>5. CASE HangUp
  BY <1>1, <1>5 DEF HangUp
<1>6. ASSUME CloseSession, session.status # "none" PROVE session'.status = "deleted"
  BY <1>1, <1>6 DEF CloseSession, TypeOK, Sessions
<1>7. CASE TransportCloses \/ CloseFinishes
  <2>1. session.status # "none"
    BY <1>7 DEF Feeds, TransportCloses, CloseFinishes
  <2> QED
    BY <1>6, <1>7, <2>1 DEF TransportCloses, CloseFinishes
<1>8. CASE CloseRequested
  BY <1>1, <1>6, <1>8 DEF CloseRequested, closeVars
<1>9. ASSUME NEW t \in Tools,
             Execute(t) \/ ExecuteFails(t) \/ Synchronize(t) \/ SynchronizeFails(t)
      PROVE  /\ session'.status # "CLOSED"
             /\ stream' = "closed" /\ ~ closing' => session'.status = "deleted"
  <2>1. UNCHANGED <<stream, closing>>
    BY <1>9 DEF Execute, ExecuteFails, Synchronize, SynchronizeFails, bridgeVars, closeVars
  <2>2. UNCHANGED session.status \/ session'.status = "ACTIVE"
    BY <1>9, ToolsKeepStatus
  <2>3. session.status = "deleted" => UNCHANGED session
    BY <1>9 DEF Execute, ExecuteFails, Synchronize, SynchronizeFails, Synchronized, Saves, Saveable
  <2> QED
    BY <1>1, <2>1, <2>2, <2>3
<1> QED
  BY <1>2, <1>3, <1>4, <1>5, <1>7, <1>8, <1>9
    DEF Next, vars, bridgeVars, closeVars, HistoryUpdated, StartTool

\* A conversation that has ended leaves no session behind unless its last writes
\* fail, whoever closed it and whatever its tools were doing.
THEOREM NothingLeftBehind == Spec => []HungUpLeavesNothing
<1>1. Init => HungUpLeavesNothing
  BY DEF Init, NoSession, HungUpLeavesNothing
<1>2. TranscriptInv => TypeOK /\ Stored /\ Feeds
  BY DEF TranscriptInv, EvidenceInv
<1> QED
  BY <1>1, <1>2, HungUpStep, TranscriptInvariant, PTL DEF Spec

-----------------------------------------------------------------------------
\* The context.

\* A session or a copy that belongs to the call goes on belonging to it when
\* the call is bound.
LEMMA BelongsBound ==
  ASSUME TypeOK, Context, NEW p \in {"OPERATIONS", "DELIVERY"}, BindTo(p),
         NEW s \in Sessions, Belongs(s), p = "OPERATIONS" => call.operator,
         p = "DELIVERY" => call.purpose \in {"OPERATIONS", "EXECUTION", "DELIVERY"}
  PROVE  Belongs(s)'
<1>1. call'.operator = call.operator /\ call'.purpose = p /\ call'.bound
  BY BoundRow DEF Modes
<1>2. s.mode \in Modes
  BY DEF Sessions
<1> QED
  BY <1>1, <1>2 DEF Context, Belongs, Fits, Modes

\* Who binds a call, and to what it may be bound.
LEMMA Binders ==
  ASSUME TypeOK, Stored, Context, NEW t \in Tools, tool[t].phase # "idle"
  PROVE  /\ t \in Binding => call.operator /\ tool[t].copy.mode = "OPERATIONS"
         /\ t = "confirmPickup" =>
              /\ ~ call.operator /\ tool[t].copy.mode = "EXECUTION"
              /\ call.purpose \in {"EXECUTION", "DELIVERY"}
<1>1. t \in ToolsOf(tool[t].copy.mode) /\ tool[t].copy \in Sessions /\ Belongs(tool[t].copy)
  BY DEF Stored, Context, TypeOK
<1>2. tool[t].copy.mode \in Modes
  BY <1>1 DEF Sessions
<1>3. t \in Binding => tool[t].copy.mode = "OPERATIONS"
  BY <1>1, <1>2 DEF Modes, ToolsOf, Binding
<1>4. t = "confirmPickup" => tool[t].copy.mode = "EXECUTION"
  BY <1>1, <1>2 DEF Modes, ToolsOf
<1> QED
  BY <1>1, <1>3, <1>4 DEF Belongs, Fits

\* Executing a tool keeps what belongs to the call.
LEMMA ExecuteContext ==
  ASSUME TypeOK, Stored, Context, NEW t \in Tools, Execute(t) \/ ExecuteFails(t)
  PROVE  Context'
<1>1. tool[t].phase = "running"
  BY DEF Execute, ExecuteFails
<1>2. \A u \in Tools : tool'[u].phase # "idle" =>
        tool[u].phase # "idle" /\ tool'[u].copy = tool[u].copy
  <2>1. CASE Ends(t)
    BY <2>1, EndsAlone
  <2>2. CASE tool' = [tool EXCEPT ![t].phase = "ran"]
    BY <1>1, <2>2 DEF TypeOK
  <2> QED
    BY <2>1, <2>2 DEF Execute, ExecuteFails
<1>3. UNCHANGED session
  BY DEF Execute, ExecuteFails
<1>4. CASE UNCHANGED call
  BY <1>2, <1>3, <1>4 DEF Context, Belongs, Fits
<1>5. ASSUME NEW p \in {"OPERATIONS", "DELIVERY"}, BindTo(p), t \in Binding PROVE Context'
  <2>1. call.operator /\ call.purpose \in {"OPERATIONS", "DELIVERY"}
    BY <1>1, <1>5, Binders DEF Context
  <2>2. \A s \in Sessions : Belongs(s) => Belongs(s)'
    BY <1>5, <2>1, BelongsBound
  <2>3. session \in Sessions /\ \A u \in Tools : tool[u].copy \in Sessions
    BY DEF TypeOK
  <2>4. call'.operator = call.operator /\ call'.purpose = p /\ call'.bound
    BY <1>5, BoundRow DEF Modes
  <2>5. session'.status # "none" => Belongs(session)'
    BY <1>3, <2>2, <2>3 DEF Context, Belongs, Fits
  <2>6. \A u \in Tools : tool'[u].phase # "idle" => Belongs(tool[u].copy)'
    BY <1>2, <2>2, <2>3 DEF Context, Belongs, Fits
  <2> QED
    BY <1>5, <2>1, <2>4, <2>5, <2>6 DEF Context
<1> QED
  BY <1>4, <1>5, ExecutedRow DEF Binding

\* Whichever tool ends: what is still in flight is as it was.
LEMMA SynchronizeFrame ==
  ASSUME TypeOK, NEW t \in Tools, Synchronize(t) \/ SynchronizeFails(t)
  PROVE  /\ tool[t].phase = "ran"
         /\ \A u \in Tools : tool'[u].phase # "idle" =>
              tool[u].phase # "idle" /\ tool'[u] = tool[u]
BY EndsAlone DEF Synchronize, SynchronizeFails

\* confirmPickup binds the call of a driver to its delivery.
LEMMA PickupContext ==
  ASSUME TypeOK, Stored, Context, tool["confirmPickup"].phase = "ran",
         Synchronize("confirmPickup") \/ SynchronizeFails("confirmPickup"), BindTo("DELIVERY"),
         session' \in {session, Delivery(tool["confirmPickup"].copy)}
  PROVE  Context'
<1> DEFINE t == "confirmPickup"
           copy == tool[t].copy
<1>1. t \in Tools
  BY ToolNames
<1>2. /\ ~ call.operator /\ call.purpose \in {"EXECUTION", "DELIVERY"}
      /\ copy.mode = "EXECUTION" /\ Belongs(copy) /\ copy \in Sessions
  BY <1>1, Binders DEF Context, TypeOK
<1>3. \A s \in Sessions : Belongs(s) => Belongs(s)'
  BY <1>2, BelongsBound
<1>4. call'.operator = call.operator /\ call'.purpose = "DELIVERY" /\ call'.bound
  BY BoundRow DEF Modes
<1>5. \A u \in Tools : tool'[u].phase # "idle" => Belongs(tool[u].copy)'
  <2> SUFFICES ASSUME NEW u \in Tools, tool'[u].phase # "idle" PROVE Belongs(tool[u].copy)'
    OBVIOUS
  <2>1. tool[u].phase # "idle" /\ tool'[u] = tool[u] /\ tool[u].copy \in Sessions
    BY <1>1, SynchronizeFrame DEF TypeOK
  <2> QED
    BY <1>3, <2>1 DEF Context, Belongs, Fits
<1>6. session'.status # "none" => Belongs(session)'
  <2>1. CASE session' = session
    BY <1>3, <2>1 DEF Context, Belongs, Fits, TypeOK
  <2>2. CASE session' = Delivery(copy)
    <3>1. session'.mode = "DELIVERY" /\ session'.bound = copy.bound
      BY <1>2, <2>2, SameRest
    <3> QED
      BY <1>2, <1>4, <3>1 DEF Belongs, Fits
  <2> QED
    BY <2>1, <2>2
<1> QED
  BY <1>2, <1>4, <1>5, <1>6 DEF Context

LEMMA SynchronizeContext ==
  ASSUME TypeOK, Stored, Context, NEW t \in Tools, Synchronize(t) \/ SynchronizeFails(t)
  PROVE  Context'
<1> DEFINE copy == tool[t].copy
           s == [copy EXCEPT !.bound = TRUE]
<1>1. /\ tool[t].phase = "ran"
      /\ \A u \in Tools : tool'[u].phase # "idle" =>
           tool[u].phase # "idle" /\ tool'[u] = tool[u]
  BY SynchronizeFrame
<1>2. CASE UNCHANGED <<session, call>>
  BY <1>1, <1>2 DEF Context, Belongs, Fits
<1>3. CASE t = "confirmPickup" /\ BindTo("DELIVERY") /\ session' \in {session, Delivery(copy)}
  BY <1>1, <1>3, PickupContext
<1>4. CASE /\ t # "confirmPickup" /\ UNCHANGED call /\ call.operator /\ call.bound
           /\ session' = IF call.purpose = "DELIVERY" THEN Delivery(s) ELSE s
  <2>1. copy \in Sessions /\ s \in Sessions
    BY SessionFields DEF TypeOK
  <2>2. t \in Binding
    BY <1>1, <1>4 DEF Stored, Contextual, Binding
  <2>3. copy.mode = "OPERATIONS"
    BY <1>1, <2>2, Binders
  <2>4. session'.bound = TRUE /\ session'.mode = IF call.purpose = "DELIVERY" THEN "DELIVERY" ELSE "OPERATIONS"
    <3>1. s.bound = TRUE /\ s.mode = copy.mode
      BY <2>1, SameRest
    <3>2. Delivery(s).bound = s.bound /\ Delivery(s).mode = "DELIVERY"
      <4> HIDE DEF s
      <4> QED
        BY <2>1, SameRest
    <3> QED
      BY <1>4, <2>3, <3>1, <3>2
  <2>5. Belongs(session)'
    BY <1>4, <2>4 DEF Belongs, Fits
  <2>6. \A u \in Tools : tool'[u].phase # "idle" => Belongs(tool[u].copy)'
    BY <1>1, <1>4 DEF Context, Belongs, Fits
  <2> QED
    BY <1>1, <1>4, <2>5, <2>6 DEF Context
<1>5. CASE Synchronize(t)
  BY <1>2, <1>3, <1>4, <1>5, Saved DEF Synchronize
<1>6. CASE SynchronizeFails(t)
  BY <1>2, <1>3, <1>6 DEF SynchronizeFails
<1> QED
  BY <1>5, <1>6

LEMMA ContextStep == TypeOK /\ Stored /\ Context /\ [Next]_vars => Context'
<1> SUFFICES ASSUME TypeOK, Stored, Context, [Next]_vars PROVE Context'
  OBVIOUS
<1>1. CASE UNCHANGED <<session, call, tool>>
  BY <1>1 DEF Context, Belongs, Fits
<1>2. CASE Connect \/ ConnectFails
  <2>1. /\ UNCHANGED tool
        /\ call'.operator = call.operator /\ call'.purpose = call.purpose /\ call'.bound = call.bound
    BY <1>2 DEF Connect, ConnectFails, toolVars, TypeOK
  <2>2. UNCHANGED session \/ session' = NewSession
    BY <1>2 DEF Connect, ConnectFails
  <2>3. CASE session' = NewSession
    <3>1. session'.mode = call.purpose /\ session'.bound = call.bound
      BY <2>3, NewSessionFields
    <3>2. Belongs(session)'
      BY <2>1, <3>1 DEF Context, Belongs, Fits
    <3> QED
      BY <2>1, <3>2 DEF Context, Belongs, Fits
  <2> QED
    BY <2>1, <2>2, <2>3 DEF Context, Belongs, Fits
<1>3. CASE AppendTranscriptSegment
  <2>1. /\ UNCHANGED tool
        /\ call'.operator = call.operator /\ call'.purpose = call.purpose /\ call'.bound = call.bound
    BY <1>3 DEF AppendTranscriptSegment, toolVars, TypeOK
  <2>2. session'.mode = session.mode /\ session'.bound = session.bound
        /\ session'.status = session.status
    BY <1>3, MergedFields DEF AppendTranscriptSegment
  <2> QED
    BY <2>1, <2>2 DEF Context, Belongs, Fits
<1>4. CASE TransportCloses \/ CloseRequested \/ CloseFinishes
  <2>1. UNCHANGED tool
    BY <1>4 DEF TransportCloses, CloseRequested, CloseFinishes
  <2>2. UNCHANGED <<session, call>> \/ CloseSession
    BY <1>4 DEF TransportCloses, CloseRequested, CloseFinishes
  <2>3. CASE CloseSession
    <3>1. /\ call'.operator = call.operator /\ call'.purpose = call.purpose
          /\ call'.bound = call.bound
          /\ session'.mode = session.mode /\ session'.bound = session.bound
          /\ session.status # "ACTIVE" => UNCHANGED session
      BY <2>3, Closed
    <3> QED
      BY <2>1, <3>1 DEF Context, Belongs, Fits
  <2> QED
    BY <2>1, <2>2, <2>3 DEF Context, Belongs, Fits
<1>5. ASSUME NEW t \in Tools, StartTool(t) PROVE Context'
  <2>1. UNCHANGED <<session, call>> /\ session.status = "ACTIVE"
    BY <1>5 DEF StartTool
  <2>2. \A u \in Tools : tool'[u] = IF u = t THEN [phase |-> "running", copy |-> session] ELSE tool[u]
    BY <1>5 DEF StartTool, TypeOK
  <2>3. \A u \in Tools : tool'[u].phase # "idle" => Belongs(tool'[u].copy)
    BY <2>1, <2>2 DEF Context
  <2> QED
    BY <2>1, <2>3 DEF Context, Belongs, Fits
<1>6. UNCHANGED vars \/ HistoryUpdated \/ HangUp => UNCHANGED <<session, call, tool>>
  BY DEF vars, HistoryUpdated, HangUp, toolVars
<1> QED
  BY <1>1, <1>2, <1>3, <1>4, <1>5, <1>6, ExecuteContext, SynchronizeContext DEF Next

\* A tool that is synchronised leaves the session in agreement with the call,
\* however old its copy was.
LEMMA SynchronizeAgrees ==
  ASSUME TypeOK, Stored, Context, NEW t \in Tools, Synchronize(t), session'.status = "ACTIVE"
  PROVE  session'.mode = call'.purpose /\ session'.bound = call'.bound
<1> DEFINE copy == tool[t].copy
           s == [copy EXCEPT !.bound = TRUE]
<1>1. tool[t].phase = "ran" /\ t \in Contextual /\ copy \in Sessions /\ Belongs(copy)
  BY SynchronizeFrame DEF Stored, Context, TypeOK
<1>2. s \in Sessions
  BY <1>1, SessionFields
<1>3. CASE t = "confirmPickup"
  <2>1. BindTo("DELIVERY") /\ session' = Delivery(copy)
    BY <1>3 DEF Synchronize, Synchronized
  <2>2. call'.purpose = "DELIVERY" /\ call'.bound = TRUE
    BY <2>1, BoundRow DEF Modes
  <2>3. copy.bound = TRUE
    BY <1>1, <1>3, Binders DEF Belongs, Sessions
  <2> QED
    BY <1>1, <2>1, <2>2, <2>3, SameRest
<1>4. CASE t \in Binding
  <2>1. t # "confirmPickup" /\ call.operator /\ copy.mode = "OPERATIONS" /\ UNCHANGED call
    BY <1>1, <1>4, Binders DEF Binding, Synchronize, Synchronized
  <2>2. CASE call.bound
    <3>1. session' = IF call.purpose = "DELIVERY" THEN Delivery(s) ELSE s
      BY <2>1, <2>2 DEF Synchronize, Synchronized, Saves
    <3>2. call.purpose \in {"OPERATIONS", "DELIVERY"} /\ call'.bound = TRUE
      BY <2>1, <2>2 DEF Context, TypeOK
    <3>3. /\ s.bound = TRUE /\ s.mode = "OPERATIONS"
          /\ Delivery(s).bound = TRUE /\ Delivery(s).mode = "DELIVERY"
      <4>1. s.bound = TRUE /\ s.mode = copy.mode
        BY ONLY <1>1, SameRest
      <4>2. Delivery(s).bound = s.bound /\ Delivery(s).mode = "DELIVERY"
        <5> HIDE DEF s
        <5> QED
          BY ONLY <1>2, SameRest
      <4> QED
        BY ONLY <2>1, <4>1, <4>2
    <3>4. CASE call.purpose = "DELIVERY"
      BY <2>1, <3>1, <3>2, <3>3, <3>4
    <3>5. CASE call.purpose = "OPERATIONS"
      BY <2>1, <3>1, <3>2, <3>3, <3>5
    <3> QED
      BY <3>2, <3>4, <3>5
  <2>3. CASE ~ call.bound
    <3>1. UNCHANGED session
      BY <2>1, <2>3 DEF Synchronize, Synchronized, Saves
    <3>2. Belongs(session) /\ call.purpose = "OPERATIONS"
      BY <2>3, <3>1 DEF Context
    <3>3. session.mode = "OPERATIONS" /\ ~ session.bound
      BY <2>3, <3>2 DEF Belongs
    <3>4. session.bound = FALSE /\ call.bound = FALSE
      BY <2>3, <3>3 DEF TypeOK, Sessions
    <3> QED
      BY <2>1, <3>1, <3>2, <3>3, <3>4
  <2> QED
    BY <2>2, <2>3
<1> QED
  BY <1>1, <1>3, <1>4 DEF Contextual, Binding

LEMMA AgreementStep == ContextInv /\ [Next]_vars => Agreement'
<1> SUFFICES ASSUME TypeOK, Stored, Context, Agreement, [Next]_vars PROVE Agreement'
  BY DEF ContextInv
<1>1. CASE UNCHANGED <<session, call, tool, torn>>
  BY <1>1 DEF Agreement
<1>2. CASE Connect \/ ConnectFails
  <2>1. /\ UNCHANGED <<tool, torn>>
        /\ call'.purpose = call.purpose /\ call'.bound = call.bound
    BY <1>2 DEF Connect, ConnectFails, toolVars, TypeOK
  <2>2. UNCHANGED session \/ session' = NewSession
    BY <1>2 DEF Connect, ConnectFails
  <2> QED
    BY <2>1, <2>2, NewSessionFields DEF Agreement
<1>3. CASE AppendTranscriptSegment
  <2>1. /\ UNCHANGED <<tool, torn>>
        /\ call'.purpose = call.purpose /\ call'.bound = call.bound
    BY <1>3 DEF AppendTranscriptSegment, toolVars, TypeOK
  <2>2. session'.mode = session.mode /\ session'.bound = session.bound
        /\ session'.status = session.status
    BY <1>3, MergedFields DEF AppendTranscriptSegment
  <2> QED
    BY <2>1, <2>2 DEF Agreement
<1>4. CASE TransportCloses \/ CloseRequested \/ CloseFinishes
  <2>1. UNCHANGED <<tool, torn>>
    BY <1>4 DEF TransportCloses, CloseRequested, CloseFinishes
  <2>2. UNCHANGED <<session, call>> \/ CloseSession
    BY <1>4 DEF TransportCloses, CloseRequested, CloseFinishes
  <2> QED
    BY <2>1, <2>2, Closed DEF Agreement
<1>5. ASSUME NEW t \in Tools, StartTool(t) PROVE Agreement'
  <2>1. UNCHANGED <<session, call, torn>> /\ tool[t].phase # "ran"
    BY <1>5 DEF StartTool
  <2>2. \A u \in Tools : tool[u].phase = "ran" => tool'[u].phase = "ran"
    BY <1>5, <2>1 DEF StartTool, TypeOK
  <2> QED
    BY <2>1, <2>2, ToolNames DEF Agreement, Binding
<1>6. ASSUME NEW t \in Tools, Execute(t) PROVE Agreement'
  <2>1. UNCHANGED <<session, torn>> /\ tool[t].phase = "running"
    BY <1>6 DEF Execute
  <2>2. CASE t \in Binding
    <3>1. tool'[t].phase = "ran"
      BY <1>6, <2>2 DEF Execute, Contextual, Binding, TypeOK
    <3> QED
      BY <2>2, <3>1 DEF Agreement
  <2>3. CASE t \notin Binding
    <3>1. UNCHANGED call
      BY <1>6, <2>3, ExecutedRow DEF Binding
    <3>2. \A u \in Binding : tool'[u] = tool[u]
      BY <1>6, <2>3, ToolNames DEF Execute, Ends, TypeOK, Binding
    <3> QED
      BY <2>1, <3>1, <3>2 DEF Agreement
  <2> QED
    BY <2>2, <2>3
<1>7. ASSUME NEW t \in Tools, ExecuteFails(t) PROVE Agreement'
  <2>1. CASE torn' = TRUE
    BY <2>1 DEF Agreement
  <2>2. CASE UNCHANGED <<call, torn>>
    <3>1. UNCHANGED session /\ tool[t].phase = "running" /\ Ends(t)
      BY <1>7 DEF ExecuteFails
    <3>2. \A u \in Binding : tool[u].phase = "ran" => tool'[u].phase = "ran"
      BY <3>1, ToolNames DEF Ends, TypeOK, Binding
    <3> QED
      BY <2>2, <3>1, <3>2 DEF Agreement
  <2> QED
    BY <1>7, <2>1, <2>2 DEF ExecuteFails
<1>8. ASSUME NEW t \in Tools, Synchronize(t) PROVE Agreement'
  BY <1>8, SynchronizeAgrees DEF Agreement
<1>9. ASSUME NEW t \in Tools, SynchronizeFails(t) PROVE Agreement'
  <2>1. CASE t # "confirmPickup"
    BY <1>9, <2>1 DEF Agreement, SynchronizeFails
  <2>2. CASE t = "confirmPickup" /\ session.status # "ACTIVE"
    BY <1>9, <2>2 DEF Agreement, SynchronizeFails
  <2>3. CASE t = "confirmPickup" /\ session.status = "ACTIVE"
    <3>1. UNCHANGED <<call, session>> /\ Ends(t)
      BY <1>9, <2>3 DEF SynchronizeFails, Saveable
    <3>2. \A u \in Binding : tool'[u] = tool[u]
      BY <2>3, <3>1, ToolNames DEF Ends, TypeOK, Binding
    <3>3. ~ torn' => ~ torn
      BY <1>9, <2>3 DEF SynchronizeFails
    <3> QED
      BY <3>1, <3>2, <3>3 DEF Agreement
  <2> QED
    BY <2>1, <2>2, <2>3
<1>10. UNCHANGED vars \/ HistoryUpdated \/ HangUp => UNCHANGED <<session, call, tool, torn>>
  BY DEF vars, HistoryUpdated, HangUp, toolVars
<1> QED
  BY <1>1, <1>2, <1>3, <1>4, <1>5, <1>6, <1>7, <1>8, <1>9, <1>10 DEF Next

LEMMA ContextInvInit == Init => ContextInv
<1> SUFFICES ASSUME Init PROVE ContextInv
  OBVIOUS
<1>1. TypeOK /\ Stored
  BY EvidenceInvInit DEF EvidenceInv
<1>2. session.status = "none" /\ \A t \in Tools : tool[t].phase = "idle"
  BY DEF Init, NoSession, NotCalled
<1>3. PICK p \in Purposes :
        /\ call.operator = (p = "OPERATIONS") /\ call.purpose = p
        /\ call.bound = (p # "OPERATIONS")
  BY DEF Init
<1>4. Context
  BY <1>2, <1>3 DEF Context
<1> QED
  BY <1>1, <1>2, <1>4 DEF ContextInv, Agreement

\* While no tool is changing what the call is for, the session has its mode and
\* its operation: SessionFollowsCall, whatever copies were saved before.
THEOREM SessionAgrees == Spec => []SessionFollowsCall
<1>1. ContextInv /\ [Next]_vars => ContextInv'
  BY NextType, StoredStep, ContextStep, AgreementStep DEF ContextInv
<1>2. ContextInv => SessionFollowsCall
  <2>1. Binding \subseteq Tools
    BY ToolNames DEF Binding
  <2> QED
    BY <2>1 DEF ContextInv, Agreement, SessionFollowsCall, InFlight, ModeFor
<1> QED
  BY ContextInvInit, <1>1, <1>2, PTL DEF Spec
=============================================================================
