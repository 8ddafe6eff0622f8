------------------------ MODULE NanocodexTurnProofs ------------------------
(* The server and the turn runner together, proved for any client, agent,    *)
(* capacity and number of events.  First: every step of the bridge is a step *)
(* of the server with some backend, so all that BridgeOutputProofs shows     *)
(* holds of it.  Then the inductive invariant of what the two share - the    *)
(* session, the call of TurnControl::cancel and the cause of a cancellation  *)
(* - with one lemma per conjunct, and the theorems.                          *)
EXTENDS NanocodexTurn, BridgeOutputProofs
-----------------------------------------------------------------------------
(* The bridge implements the server with its general backend.              *)

LEMMA BridgeStepIsServerStep ==
  ASSUME [BridgeNext]_bridgeVars
  PROVE  [Next]_vars
<1> USE DEF serverVars, bridgeVars, Next
<1>1. CASE ServerSide BY <1>1 DEF ServerSide
<1>2. CASE RunnerStep
  <2>1. BackendFinishes \/ BackendAccepts \/ BackendReports \/ UNCHANGED vars
    BY <1>2 DEF RunnerStep, OpeningFails, AgentBuilt, PromptAccepted, PromptFails,
                PromptCancelled, OfferTurn, StreamEvent, StreamEnds, ForwardUpstream,
                ObserveToken, FinishForwarding, JoinFallback, ReturnResult, Return
  <2> QED BY <2>1 DEF BackendStep
<1>3. CASE ExactStep
  <2>1. ExactSettles \/ UNCHANGED vars
    BY <1>3 DEF ExactStep, ExactBegins, ExactFindsIssued, ExactTimesOut, AnswerExactCall
  <2> QED BY <2>1 DEF BackendStep
<1>4. CASE AgentStep
  BY <1>4 DEF AgentStep, AgentHears, AnswerFallbackCall, AgentSettles
<1>5. CASE BridgeDone BY <1>5 DEF BridgeDone, Done
<1>6. CASE UNCHANGED bridgeVars BY <1>6
<1> QED BY <1>1, <1>2, <1>3, <1>4, <1>5, <1>6 DEF BridgeNext

\* With run_with_openai behind it the server is still the server: its runner
\* does nothing that BridgeServer's general backend could not do, so every
\* invariant of the server holds of the bridge.
THEOREM BridgeImplementsServer == BridgeSpec => Spec
<1>1. BridgeInit => Init BY DEF BridgeInit
<1>2. [BridgeNext]_bridgeVars => [Next]_vars BY BridgeStepIsServerStep
<1> QED BY <1>1, <1>2, PTL DEF BridgeSpec, Spec

\* What the client of the whole bridge sees is a TurnProtocol.
THEOREM BridgeImplementsProtocol == BridgeSpec => RefinesTurnProtocol
BY BridgeImplementsServer, ServerImplementsProtocol
-----------------------------------------------------------------------------
(* The inductive invariant.                                                *)

Early == {"absent", "opening", "prompting", "offering"}
Late  == {"streaming", "finishing", "joining", "awaiting"}

OfferPending == \E p \in 1 .. Len(notices) : notices[p].kind = "accepted"
Completed == turn = "returned" /\ outcome.kind = "completed"

\* The session the server has accepted, or will once it handles its notices, is
\* the agent's; it is offered before a turn can complete.
SessionShared ==
  /\ turn \in {"prompting", "offering"} \cup Late => agentSession \in SessionIds
  /\ accepted # NoSession => accepted = agentSession
  /\ \A p \in 1 .. Len(notices) :
       notices[p].kind = "accepted" => notices[p].session = agentSession
  /\ accepted # NoSession \/ OfferPending => turn \notin Early
  /\ turn \in Late \/ Completed => accepted # NoSession \/ OfferPending
  /\ Completed => outcome.session = agentSession

\* The flag is the permission to call, and is taken after the turn is offered.
ControlShared ==
  /\ controlCalls = IF issued THEN 1 ELSE 0
  /\ calls = {} \/ (issued /\ \E c \in Callers : calls = {c})
  /\ issued \/ exactTask # "none" => turn \notin Early
  /\ exactTask # "none" => accepted # NoSession

Refused(j) == out[j].type = "command.rejected" /\ out[j].info = "turn_not_cancellable"

\* Why the agent may be told to stop: a cause, an error, a command that is being
\* settled, or one that was refused as too late.
Explained ==
  \/ cause # NoCause \/ fatal # NoError \/ pendingCancel # NoCommand
  \/ writer # "running"
  \/ \E j \in 1 .. Len(out) : Refused(j)

\* Only an issued call stops the agent, and only a token or a stopped agent ends
\* the turn as cancelled.
CancellationTraced ==
  /\ token => cause # NoCause
  /\ issued => Explained
  /\ agent \in {"stopping", "stopped"} \/ result = "cancelled" => issued
  /\ turn = "returned" /\ outcome.kind = "cancelled" => cause # NoCause \/ issued

BridgeInv ==
  /\ OutInv /\ TurnTypeOK /\ SessionShared /\ ControlShared /\ CancellationTraced
  /\ CompletionIsRecognized /\ UncausedCancellationExplained
-----------------------------------------------------------------------------
(* What a step of the server's side may do, and one of the runner's.       *)

LEMMA ServerSideMoves ==
  ASSUME IInv, ServerSide
  PROVE  /\ UNCHANGED <<callVars, streamVars, agentSession, agentVars, produced, outcome>>
         /\ \/ StartTurn /\ turn' = "opening" /\ backend' = "running"
            \/ UNCHANGED <<turn, backend>>
         /\ HandleNotice \/ UNCHANGED <<notices, accepted>>
         /\ exactTask' \in {exactTask, "none"} \/ StartExactCancel
<1> USE DEF ServerSide, BesideTurn, vars, clientVars, cancelVars, exactVars, inputVars, branchVars,
            endVars, writerVars, backendVars
<1>1. CASE StartTurn BY <1>1 DEF StartTurn
<1>2. CASE ~StartTurn /\ BeforeStart
  BY <1>2 DEF BeforeStart, RefuseFirstRecord, EndOfInputBeforeStart,
              SignalBeforeStart, OutputLostBeforeStart, ExitBeforeStart, FailBeforeStart
<1>3. CASE ~StartTurn /\ HandleNotice BY <1>3 DEF HandleNotice
<1>4. CASE ~StartTurn /\ StartExactCancel BY <1>4 DEF StartExactCancel
<1>5. CASE ~StartTurn /\ DuringTurn /\ ~HandleNotice /\ ~StartExactCancel
  BY <1>5 DEF DuringTurn, ReadFatalInput, ReadEndOfInput, RefuseRunningCommand,
              CancelBeforeSession, ExactCancelDone, AnswerExactCancel, SignalDuringTurn,
              OutputLostDuringTurn, BackendDone
<1>6. CASE ~StartTurn /\ AfterTurn
  BY <1>6 DEF AfterTurn, SettleNothing, SettleFinishedExact, AbortExactCancel, AnswerExactCancel,
              RefuseFinalizingCommand, FinishDraining, EmitTerminal, Exit
<1>7. CASE ~StartTurn /\ (WriterStep \/ ClientStep)
  BY <1>7 DEF WriterStep, ClientStep, WriterFlush, WriterFail, ClientSend, ClientClose, Signal
<1> QED BY <1>1, <1>2, <1>3, <1>4, <1>5, <1>6, <1>7 DEF ServerStep

\* The runner returns only through Return.
LEMMA TurnMoves ==
  ASSUME [BridgeNext]_bridgeVars
  PROVE  \/ ServerSide
         \/ /\ turn \in {"opening", "prompting", "awaiting"}
            /\ turn' = "returned" /\ BackendFinishes
         \/ turn = "opening" /\ turn' = "prompting" /\ UNCHANGED vars
         \/ turn = "prompting" /\ turn' = "offering" /\ UNCHANGED vars
         \/ turn = "offering" /\ turn' = "streaming" /\ BackendAccepts
         \/ /\ turn \in {"streaming", "finishing", "joining"} /\ turn' \in Late
            /\ BackendReports \/ UNCHANGED vars
         \/ turn' = turn /\ (ExactSettles \/ UNCHANGED vars)
<1> USE DEF bridgeVars, serverVars, turnVars, Late
<1>1. CASE RunnerStep
  <2>1. CASE OpeningFails \/ PromptFails \/ PromptCancelled \/ ReturnResult
    BY <2>1 DEF OpeningFails, PromptFails, PromptCancelled, ReturnResult, Return
  <2>2. CASE AgentBuilt BY <2>2 DEF AgentBuilt, Return
  <2>3. CASE PromptAccepted \/ OfferTurn BY <2>3 DEF PromptAccepted, OfferTurn
  <2>4. CASE StreamEvent \/ StreamEnds \/ ObserveToken \/ FinishForwarding \/ JoinFallback
    BY <2>4 DEF StreamEvent, StreamEnds, ForwardUpstream, ObserveToken, FinishForwarding,
                JoinFallback
  <2> QED BY <1>1, <2>1, <2>2, <2>3, <2>4 DEF RunnerStep
<1>2. CASE ExactStep
  BY <1>2 DEF ExactStep, ExactBegins, ExactFindsIssued, ExactTimesOut, AnswerExactCall
<1>3. CASE AgentStep
  BY <1>3 DEF AgentStep, AgentHears, AnswerFallbackCall, AgentSettles
<1>4. CASE BridgeDone BY <1>4 DEF BridgeDone, Done
<1>5. CASE UNCHANGED bridgeVars BY <1>5
<1> QED BY <1>1, <1>2, <1>3, <1>4, <1>5 DEF BridgeNext

LEMMA TurnTypeStep ==
  ASSUME IInv, Lifecycle, TurnTypeOK, [BridgeNext]_bridgeVars
  PROVE  TurnTypeOK'
<1>1. /\ turn' \in {"absent", "opening", "prompting", "offering", "streaming",
                    "finishing", "joining", "awaiting", "returned"}
      /\ (turn = "absent" <=> backend = "absent")'
      /\ (turn = "returned" <=> backend = "finished")'
  <2>1. backend \in {"absent", "running", "finished"} BY DEF IInv, TypeOK, BackendType
  <2>2. StartTurn => backend = "absent" BY DEF StartTurn, Lifecycle
  <2>3. CASE ServerSide BY <2>1, <2>2, <2>3, ServerSideMoves DEF TurnTypeOK
  <2>4. CASE BackendFinishes /\ turn' = "returned" BY <2>4 DEF BackendFinishes
  <2>5. ASSUME ExactSettles \/ BackendAccepts \/ BackendReports \/ UNCHANGED vars
        PROVE  backend' = backend
    BY <2>5 DEF ExactSettles, BackendAccepts, BackendReports, vars, backendVars
  <2> QED BY <2>1, <2>3, <2>4, <2>5, TurnMoves DEF TurnTypeOK, Late
<1> DEFINE Rest ==
      /\ issued \in BOOLEAN /\ eventError \in BOOLEAN /\ owedMarker \in BOOLEAN
      /\ cancelTask \in {"none", "running", "ok", "refused", "failed"}
      /\ calls \subseteq Callers /\ controlCalls \in Nat
      /\ timedOut \in BOOLEAN
      /\ agentSession \in SessionIds \cup {NoSession}
      /\ agent \in {"idle", "working", "stopping", "settled", "stopped"}
      /\ result \in {"none", "ok", "cancelled", "error"}
<1>2. ASSUME Rest PROVE Rest'
  <2> USE <1>2 DEF callVars, streamVars, agentVars, turnVars
  <2>1. CASE ServerSide BY <2>1, ServerSideMoves
  <2>2. CASE OpeningFails \/ AgentBuilt \/ PromptAccepted \/ PromptFails \/ PromptCancelled
             \/ OfferTurn \/ JoinFallback \/ ReturnResult
    BY <2>2 DEF OpeningFails, AgentBuilt, PromptAccepted, PromptFails, PromptCancelled,
                OfferTurn, JoinFallback, ReturnResult
  <2>3. CASE StreamEvent \/ StreamEnds \/ FinishForwarding
    BY <2>3 DEF StreamEvent, StreamEnds, FinishForwarding, ForwardUpstream
  <2>4. CASE ObserveToken \/ ExactStep
    <3>1. \A c \in Callers : calls \cup {c} \subseteq Callers /\ calls \ {c} \subseteq Callers
      OBVIOUS
    <3>2. "exact" \in Callers /\ "fallback" \in Callers BY DEF Callers
    <3>3. CASE ObserveToken BY <3>1, <3>2, <3>3 DEF ObserveToken, FallbackSwap
    <3>4. CASE ExactBegins BY <3>1, <3>2, <3>4 DEF ExactBegins
    <3>5. CASE ExactFindsIssued \/ ExactTimesOut \/ AnswerExactCall
      BY <3>1, <3>2, <3>5 DEF ExactFindsIssued, ExactTimesOut, AnswerExactCall, AgentStops
    <3> QED BY <2>4, <3>3, <3>4, <3>5 DEF ExactStep
  <2>5. CASE AgentStep
    BY <2>5 DEF AgentStep, AgentHears, AnswerFallbackCall, AgentSettles, AgentStops, Reply
  <2>6. CASE BridgeDone \/ UNCHANGED bridgeVars BY <2>6 DEF BridgeDone, bridgeVars
  <2> HIDE DEF Rest
  <2> QED BY <2>1, <2>2, <2>3, <2>4, <2>5, <2>6 DEF BridgeNext, RunnerStep
<1> QED BY <1>1, <1>2 DEF TurnTypeOK
-----------------------------------------------------------------------------
(* The session.                                                            *)

\* The server takes a notice: an offer taken is an offer accepted.
LEMMA TakingAnOffer ==
  ASSUME IInv, SessionShared, HandleNotice, UNCHANGED <<turn, agentSession, outcome>>
  PROVE  SessionShared'
<1>1. /\ notices \in Seq(Notices) /\ notices # <<>> /\ Takes
      /\ Head(notices) = notices[1] /\ 1 \in 1 .. Len(notices) /\ notices[1] \in Notices
  BY DEF IInv, TypeOK, BackendType, HandleNotice, Takes, backendVars
<1>2. /\ \A p \in 1 .. Len(notices') : p + 1 \in 1 .. Len(notices) /\ notices'[p] = notices[p + 1]
      /\ \A p \in 2 .. Len(notices) : p - 1 \in 1 .. Len(notices') /\ notices'[p - 1] = notices[p]
  BY <1>1, AfterTaking
<1>3. OfferPending' => OfferPending BY <1>2 DEF OfferPending
<1>4. \A p \in 1 .. Len(notices') :
         notices'[p].kind = "accepted" => notices'[p].session = agentSession'
  BY <1>2 DEF SessionShared
<1>5. CASE notices[1].kind = "accepted"
  <2>1. notices[1].session = agentSession /\ notices[1].session \in SessionIds
    BY <1>1, <1>5 DEF SessionShared, Notices
  <2>2. accepted' = agentSession /\ accepted' # NoSession
    BY <1>1, <1>5, <2>1, NamesAssumption DEF HandleNotice, AcceptSession, SessionShared
  <2>3. OfferPending BY <1>1, <1>5 DEF OfferPending
  <2> QED BY <1>3, <1>4, <2>2, <2>3 DEF SessionShared, Completed
<1>6. CASE notices[1].kind # "accepted"
  <2>1. accepted' = accepted BY <1>1, <1>6 DEF HandleNotice, ForwardEvent
  <2>2. OfferPending => OfferPending'
    <3> SUFFICES ASSUME NEW p \in 1 .. Len(notices), notices[p].kind = "accepted"
                 PROVE  OfferPending'
      BY DEF OfferPending
    <3>1. p \in 2 .. Len(notices) BY <1>1, <1>6
    <3> QED BY <1>2, <3>1 DEF OfferPending
  <2> QED BY <1>3, <1>4, <2>1, <2>2 DEF SessionShared, Completed
<1> QED BY <1>5, <1>6

LEMMA SessionStep ==
  ASSUME IInv, Lifecycle, TurnTypeOK, SessionShared, [BridgeNext]_bridgeVars
  PROVE  SessionShared'
<1> USE DEF callVars, streamVars, agentVars, turnVars
<1>1. CASE ServerSide
  <2>1. CASE StartTurn
    <3>1. turn = "absent" /\ turn' = "opening" /\ UNCHANGED <<notices, accepted, outcome, agentSession>>
      BY <1>1, <2>1, ServerSideMoves DEF StartTurn, TurnTypeOK, Lifecycle
    <3> QED BY <3>1 DEF SessionShared, Completed, Early, Late, OfferPending
  <2>2. CASE ~StartTurn /\ HandleNotice BY <1>1, <2>2, ServerSideMoves, TakingAnOffer
  <2>3. CASE UNCHANGED <<notices, accepted>> /\ ~StartTurn
    <3>1. UNCHANGED <<turn, notices, accepted, outcome, agentSession>>
      BY <1>1, <2>3, ServerSideMoves
    <3> QED BY <3>1 DEF SessionShared, Completed, OfferPending
  <2> QED BY <1>1, <2>1, <2>2, <2>3, ServerSideMoves
<1>2. CASE OfferTurn
  <2>1. PICK s \in SessionIds :
          /\ notices' = Append(notices, [kind |-> "accepted", session |-> s, n |-> 0])
          /\ UNCHANGED <<accepted, outcome, agentSession>>
          /\ turn = "offering" /\ turn' = "streaming"
          /\ notices'[Len(notices')].session = agentSession
    BY <1>2 DEF OfferTurn, BackendAccepts, backendVars
  <2> DEFINE n == [kind |-> "accepted", session |-> s, n |-> 0]
  <2>2. n \in Notices /\ n.kind = "accepted" /\ n.session = s BY DEF Notices
  <2> HIDE DEF n
  <2>3. Adds(n) BY <2>1 DEF Adds, n
  <2>4. /\ Len(notices) \in Nat /\ Len(notices') = Len(notices) + 1
        /\ notices'[Len(notices')] = n
        /\ \A p \in 1 .. Len(notices) : notices'[p] = notices[p]
    BY <2>2, <2>3, AfterAdding
  <2>5. s = agentSession BY <2>1, <2>2, <2>4
  <2>6. OfferPending' BY <2>2, <2>4 DEF OfferPending
  <2>7. accepted = NoSession /\ agentSession \in SessionIds
    BY <2>1 DEF SessionShared, Early
  <2>8. \A p \in 1 .. Len(notices') :
           notices'[p].kind = "accepted" => notices'[p].session = agentSession'
    BY <2>1, <2>2, <2>4, <2>5 DEF SessionShared
  <2> QED BY <2>1, <2>6, <2>7, <2>8 DEF SessionShared, Completed, Early, Late
<1>3. CASE StreamEvent \/ StreamEnds \/ FinishForwarding
  <2>1. /\ turn \in Late /\ turn' \in Late /\ UNCHANGED agentSession
        /\ BackendReports \/ UNCHANGED vars
    BY <1>3 DEF StreamEvent, StreamEnds, FinishForwarding, ForwardUpstream, Late, serverVars
  <2>2. CASE BackendReports
    <3> DEFINE n == Reported
    <3>1. Adds(n) /\ UNCHANGED <<accepted, outcome>> /\ produced' \in Nat /\ produced < MaxEvents
      BY <2>2, NoticeTypes DEF BackendReports, Adds, Reported
    <3>2. n \in Notices /\ n.kind # "accepted"
      BY <3>1, NoticeTypes, BoundsAssumption DEF Reported, Notices
    <3>3. /\ Len(notices) \in Nat /\ Len(notices') = Len(notices) + 1
          /\ notices'[Len(notices')] = n
          /\ \A p \in 1 .. Len(notices) : notices'[p] = notices[p]
      <4> HIDE DEF n
      <4> QED BY <3>1, <3>2, AfterAdding
    <3> HIDE DEF n
    <3>4. OfferPending' <=> OfferPending BY <3>2, <3>3 DEF OfferPending
    <3>5. \A p \in 1 .. Len(notices') :
             notices'[p].kind = "accepted" => notices'[p].session = agentSession'
      BY <2>1, <3>2, <3>3 DEF SessionShared
    <3> QED BY <2>1, <3>1, <3>4, <3>5 DEF SessionShared, Completed, Early, Late
  <2>3. CASE UNCHANGED vars
    BY <2>1, <2>3 DEF vars, backendVars, SessionShared, OfferPending, Completed, Early, Late
  <2> QED BY <2>1, <2>2, <2>3
<1>4. CASE OpeningFails \/ AgentBuilt \/ PromptFails \/ PromptCancelled
  <2>1. /\ turn \in {"opening", "prompting"}
        /\ UNCHANGED <<notices, accepted>>
        /\ \/ turn' = "returned" /\ outcome'.kind # "completed"
           \/ turn' = "prompting" /\ agentSession' \in SessionIds
    BY <1>4 DEF OpeningFails, AgentBuilt, PromptFails, PromptCancelled, Return, BackendFinishes,
                FailedOutcome, CancelledOutcome, serverVars, vars
  <2>2. accepted = NoSession /\ ~OfferPending BY <2>1 DEF SessionShared, Early
  <2> QED BY <2>1, <2>2 DEF SessionShared, OfferPending, Completed, Early, Late
<1>5. CASE ReturnResult
  <2>1. /\ turn = "awaiting" /\ turn' = "returned"
        /\ UNCHANGED <<notices, accepted, agentSession>>
        /\ outcome'.kind = "completed" => outcome'.session = agentSession
    BY <1>5 DEF ReturnResult, Return, BackendFinishes, FailedOutcome, CancelledOutcome,
                CompletedOutcome, CleanupOutcome
  <2> QED BY <2>1 DEF SessionShared, OfferPending, Completed, Early, Late
<1>6. CASE PromptAccepted
  BY <1>6 DEF PromptAccepted, serverVars, vars, backendVars, SessionShared, OfferPending,
              Completed, Early, Late
<1>7. CASE ObserveToken \/ JoinFallback \/ ExactStep \/ AgentStep \/ BridgeDone
             \/ UNCHANGED bridgeVars
  <2>1. /\ UNCHANGED <<notices, accepted, agentSession, outcome>>
        /\ turn' = turn \/ (turn \in Late /\ turn' \in Late)
    BY <1>7 DEF ObserveToken, JoinFallback, ExactStep, ExactBegins, ExactFindsIssued,
                ExactTimesOut, AnswerExactCall, AgentStep, AgentHears, AnswerFallbackCall,
                AgentSettles, BridgeDone, Done, ExactSettles, bridgeVars, serverVars, vars,
                backendVars, Late
  <2> QED BY <2>1 DEF SessionShared, OfferPending, Completed, Early, Late
<1> QED BY <1>1, <1>2, <1>3, <1>4, <1>5, <1>6, <1>7 DEF BridgeNext, RunnerStep
-----------------------------------------------------------------------------
(* The call of TurnControl::cancel.                                        *)

\* A step that leaves the calls alone, or answers one, keeps the count.
LEMMA CallsKept ==
  ASSUME SessionShared, ControlShared, UNCHANGED <<issued, controlCalls, accepted>>,
         calls' \in {calls} \cup {calls \ {c} : c \in Callers},
         exactTask' \in {exactTask, "none"} \cup ExactResults,
         exactTask = "none" => exactTask' = "none",
         turn' = turn \/ turn' \notin Early
  PROVE  ControlShared'
<1>1. calls' = {} \/ (issued' /\ \E c \in Callers : calls' = {c})
  BY DEF ControlShared
<1>2. exactTask' # "none" => exactTask # "none" OBVIOUS
<1> QED BY <1>1, <1>2 DEF ControlShared

\* Taking the flag, and calling.
LEMMA CallMade ==
  ASSUME ControlShared, ~issued, issued', controlCalls' = controlCalls + 1,
         NEW c \in Callers, calls' = calls \cup {c}, turn \notin Early,
         UNCHANGED <<turn, accepted, exactTask>>
  PROVE  ControlShared'
<1>1. calls = {} BY DEF ControlShared
<1>2. calls' = {c} BY <1>1
<1> QED BY <1>2 DEF ControlShared

LEMMA ControlStep ==
  ASSUME IInv, Lifecycle, TurnTypeOK, SessionShared, ControlShared, [BridgeNext]_bridgeVars
  PROVE  ControlShared'
<1> USE DEF callVars, streamVars, agentVars, turnVars
<1>0. exactTask \in {"none", "running"} \cup ExactResults BY DEF IInv, TypeOK, TurnType
<1>1. CASE ServerSide
  <2>0. UNCHANGED <<issued, controlCalls, calls>> BY <1>1, ServerSideMoves
  <2>1. CASE StartTurn
    <3>1. turn = "absent" /\ turn' = "opening"
          /\ UNCHANGED <<accepted, exactTask>>
      BY <1>1, <2>1, ServerSideMoves DEF StartTurn, TurnTypeOK, Lifecycle, exactVars
    <3> QED BY <2>0, <3>1 DEF ControlShared, Early
  <2>2. CASE ~StartTurn /\ StartExactCancel
    <3>1. turn' = turn /\ accepted' = accepted /\ accepted # NoSession
      BY <1>1, <2>2, ServerSideMoves DEF StartExactCancel
    <3>2. turn \notin Early BY <3>1 DEF SessionShared
    <3> QED BY <2>0, <3>1, <3>2 DEF ControlShared
  <2>3. CASE ~StartTurn /\ ~StartExactCancel
    <3>1. turn' = turn /\ exactTask' \in {exactTask, "none"}
      BY <1>1, <2>3, ServerSideMoves
    <3>2. accepted # NoSession => accepted' = accepted
      BY <1>1, BridgeStepIsServerStep, SessionStays
    <3> QED BY <2>0, <3>1, <3>2 DEF ControlShared
  <2> QED BY <2>1, <2>2, <2>3
<1>2. CASE ObserveToken
  <2>1. "fallback" \in Callers /\ turn \notin Early BY <1>2 DEF Callers, ObserveToken, Early
  <2>2. UNCHANGED <<turn, accepted, exactTask>>
    BY <1>2 DEF ObserveToken, serverVars, vars, exactVars
  <2> QED BY <1>2, <2>1, <2>2, CallMade DEF ObserveToken, FallbackSwap
<1>3. CASE ExactBegins
  <2>1. "exact" \in Callers /\ turn \notin Early
    BY <1>3 DEF Callers, ExactBegins, ControlShared
  <2>2. UNCHANGED <<turn, accepted, exactTask>>
    BY <1>3 DEF ExactBegins, serverVars, vars, exactVars
  <2> QED BY <1>3, <2>1, <2>2, CallMade DEF ExactBegins
<1>4. CASE ExactFindsIssued \/ ExactTimesOut \/ AnswerExactCall
  <2>1. exactTask = "running" /\ exactTask' \in ExactResults /\ accepted' = accepted
    BY <1>4 DEF ExactFindsIssued, ExactTimesOut, AnswerExactCall, ExactSettles
  <2>2. UNCHANGED <<issued, controlCalls, turn>>
    BY <1>4 DEF ExactFindsIssued, ExactTimesOut, AnswerExactCall
  <2>3. calls' \in {calls, calls \ {"exact"}}
    BY <1>4 DEF ExactFindsIssued, ExactTimesOut, AnswerExactCall
  <2>4. calls' \in {calls} \cup {calls \ {c} : c \in Callers} BY <2>3 DEF Callers
  <2> QED BY <2>1, <2>2, <2>4, CallsKept
<1>5. CASE AgentStep
  <2>1. UNCHANGED <<issued, controlCalls, turn, accepted, exactTask>>
    BY <1>5 DEF AgentStep, AgentHears, AnswerFallbackCall, AgentSettles, serverVars, vars, exactVars
  <2>2. calls' \in {calls, calls \ {"fallback"}}
    BY <1>5 DEF AgentStep, AgentHears, AnswerFallbackCall, AgentSettles
  <2>3. calls' \in {calls} \cup {calls \ {c} : c \in Callers} BY <2>2 DEF Callers
  <2> QED BY <2>1, <2>3, CallsKept
<1>6. CASE RunnerStep /\ ~ObserveToken
  <2>1. UNCHANGED <<issued, controlCalls, calls>>
    BY <1>6 DEF RunnerStep, OpeningFails, AgentBuilt, PromptAccepted, PromptFails,
                PromptCancelled, OfferTurn, StreamEvent, StreamEnds, FinishForwarding,
                JoinFallback, ReturnResult
  <2>2. UNCHANGED <<accepted, exactTask>>
    BY <1>6 DEF RunnerStep, OpeningFails, AgentBuilt, PromptAccepted, PromptFails,
                PromptCancelled, OfferTurn, StreamEvent, StreamEnds, FinishForwarding,
                JoinFallback, ReturnResult, Return, ForwardUpstream, BackendFinishes,
                BackendAccepts, BackendReports, serverVars, vars, exactVars
  <2>3. turn' \in Early => turn \in Early
    BY <1>6 DEF RunnerStep, OpeningFails, AgentBuilt, PromptAccepted, PromptFails,
                PromptCancelled, OfferTurn, StreamEvent, StreamEnds, FinishForwarding,
                JoinFallback, ReturnResult, Return, Early
  <2> QED BY <2>1, <2>2, <2>3 DEF ControlShared
<1>7. CASE BridgeDone \/ UNCHANGED bridgeVars
  <2>1. UNCHANGED <<issued, controlCalls, calls, turn, accepted, exactTask>>
    BY <1>7 DEF BridgeDone, Done, bridgeVars, serverVars, vars, exactVars
  <2> QED BY <2>1 DEF ControlShared
<1> QED BY <1>1, <1>2, <1>3, <1>4, <1>5, <1>6, <1>7 DEF BridgeNext, ExactStep

LEMMA ControlIsCalledOnce == ControlShared => ControlCalledOnce
<1> SUFFICES ASSUME ControlShared PROVE ControlCalledOnce OBVIOUS
<1>1. Cardinality(calls) = 0 \/ (issued /\ Cardinality(calls) = 1)
  BY FS_EmptySet, FS_Singleton DEF ControlShared
<1>2. controlCalls = 1 => issued BY DEF ControlShared
<1> QED BY <1>1, <1>2 DEF ControlShared, ControlCalledOnce, Early
-----------------------------------------------------------------------------
(* The cause.                                                              *)

\* The first cause, an error and a failed writer stay; a token has a cause.
LEMMA CauseMoves ==
  ASSUME IInv, [Next]_vars
  PROVE  /\ cause # NoCause => cause' = cause
         /\ token' => token \/ cause' # NoCause
         /\ fatal # NoError => fatal' # NoError
         /\ pendingCancel # NoCommand => pendingCancel' = pendingCancel
              \/ ExactCancelDone \/ SettleFinishedExact \/ AbortExactCancel
<1> USE DEF vars, clientVars, cancelVars, exactVars, inputVars, branchVars, endVars,
            writerVars, backendVars
<1>0. /\ FallbackCauses \cap {NoCause} = {} /\ CommandIds \cap {NoCause} = {}
      /\ {"protocol_error", "stdin_eof", "stdin_error", "external_signal", "output_closed",
          "cancellation_task_failed"} \subseteq FallbackCauses
  BY NamesAssumption DEF FallbackCauses
<1>1. ASSUME NEW c \in FallbackCauses, FallbackCancel(c)
      PROVE  cause' # NoCause /\ (cause # NoCause => cause' = cause)
  BY <1>0, <1>1 DEF FallbackCancel
<1>2. CASE BeforeStart
  BY <1>2 DEF BeforeStart, StartTurn, RefuseFirstRecord, EndOfInputBeforeStart,
              SignalBeforeStart, OutputLostBeforeStart, ExitBeforeStart, FailBeforeStart
<1>3. CASE HandleNotice \/ RefuseRunningCommand \/ StartExactCancel \/ BackendDone
  BY <1>3 DEF HandleNotice, RefuseRunningCommand, RefuseCommand, StartExactCancel, AdmitCancel,
              CancelInProgress, BackendDone
<1>4. CASE ReadFatalInput
  <2>1. cause' # NoCause /\ (cause # NoCause => cause' = cause)
    BY <1>0, <1>1, <1>4 DEF ReadFatalInput
  <2> QED BY <1>4, <2>1 DEF ReadFatalInput, FatalInput
<1>5. CASE ReadEndOfInput \/ SignalDuringTurn \/ OutputLostDuringTurn
  <2>1. cause' # NoCause /\ (cause # NoCause => cause' = cause)
    BY <1>0, <1>1, <1>5 DEF ReadEndOfInput, SignalDuringTurn, OutputLostDuringTurn
  <2> QED BY <1>5, <2>1 DEF ReadEndOfInput, SignalDuringTurn, OutputLostDuringTurn
<1>6. CASE CancelBeforeSession
  <2>1. Head(stdin) \in ClientRecords BY <1>6 DEF CancelBeforeSession, IInv, TypeOK, InputType
  <2>2. Head(stdin).id \in CommandIds
    BY <1>6, <2>1, FramedRecord, BoundsAssumption
       DEF CancelBeforeSession, AdmitCancel, IInv, TypeOK, InputType
  <2> QED BY <1>0, <1>6, <2>2 DEF CancelBeforeSession
<1>7. CASE ExactCancelDone
  <2>1. fatal # NoError => fatal' # NoError
    BY <1>7 DEF ExactCancelDone, AnswerExactCancel
  <2>2. CASE FallbackCancel("cancellation_task_failed") BY <1>0, <1>1, <1>7, <2>1, <2>2
  <2>3. CASE CreditExactCancel BY <1>7, <2>1, <2>3 DEF CreditExactCancel
  <2> QED BY <1>7, <2>2, <2>3 DEF ExactCancelDone
<1>8. CASE SettleFinishedExact
  BY <1>8 DEF SettleFinishedExact, AnswerExactCancel, CreditExactCancel
<1>9. CASE AbortExactCancel \/ SettleNothing \/ FinishDraining \/ EmitTerminal \/ Exit
  BY <1>9 DEF AbortExactCancel, SettleNothing, FinishDraining, EmitTerminal, Exit
<1>10. CASE RefuseFinalizingCommand
  BY <1>10 DEF RefuseFinalizingCommand, FatalInput, RefuseCommand
<1>11. CASE WriterStep \/ ClientStep \/ BackendStep
  BY <1>11 DEF WriterStep, ClientStep, WriterFlush, WriterFail, ClientSend, ClientClose, Signal,
               BackendStep, ExactSettles, BackendAccepts, BackendReports, BackendFinishes
<1>12. CASE UNCHANGED vars BY <1>12
<1> QED BY <1>2, <1>3, <1>4, <1>5, <1>6, <1>7, <1>8, <1>9, <1>10, <1>11, <1>12
        DEF Next, ServerStep, DuringTurn, AfterTurn, Done

\* A command that was being settled leaves a cause, an error or its refusal.
LEMMA SettlingExplains ==
  ASSUME IInv, [Next]_vars, ExactCancelDone \/ SettleFinishedExact \/ AbortExactCancel
  PROVE  Explained'
<1>0. exactTask # "none" => pendingCancel \in CommandIds
  BY DEF IInv, ExactTracked, TypeOK, TurnType
<1>1. /\ "turn_not_cancellable" \in RecordCodes /\ "command.rejected" \in AnswerTypes
      /\ NoCause \notin CommandIds \cup FallbackCauses /\ NoError # "cancellation_failed"
  BY RefusalsAreCodes, NamesAssumption DEF AnswerTypes
<1>2. ASSUME Answer("command.rejected", pendingCancel, "turn_not_cancellable"),
             pendingCancel \in CommandIds, writer' = writer
      PROVE  Explained'
  <2>1. \/ writer # "running"
        \/ AddsRecord(Rec("command.rejected", pendingCancel, accepted, "turn_not_cancellable", 0))
    BY <1>1, <1>2, AnswerMoves DEF IInv
  <2>2. CASE writer # "running" BY <1>2, <2>2 DEF Explained
  <2>3. CASE AddsRecord(Rec("command.rejected", pendingCancel, accepted,
                            "turn_not_cancellable", 0))
    <3>1. Len(out) \in Nat /\ Len(out') = Len(out) + 1
          /\ out'[Len(out')].type = "command.rejected"
          /\ out'[Len(out')].info = "turn_not_cancellable"
      BY <2>3, OldRecords DEF AddsRecord, Rec
    <3> QED BY <3>1 DEF Explained, Refused
  <2> QED BY <2>1, <2>2, <2>3
<1>3. CASE AbortExactCancel
  BY <1>0, <1>2, <1>3 DEF AbortExactCancel, writerVars
<1>4. ASSUME AnswerExactCancel, exactTask \in ExactResults, writer' = writer,
             exactTask = "ok" => cause' # NoCause
      PROVE  Explained'
  <2>1. CASE exactTask = "ok" BY <1>4, <2>1 DEF Explained
  <2>2. CASE exactTask = "refused"
    BY <1>0, <1>2, <1>4, <2>2 DEF AnswerExactCancel
  <2>3. CASE exactTask = "failed"
    <3>1. fatal' # NoError BY <1>1, <1>4, <2>3 DEF AnswerExactCancel
    <3> QED BY <3>1 DEF Explained
  <2> QED BY <1>4, <2>1, <2>2, <2>3 DEF ExactResults
<1>5. ASSUME CreditExactCancel, exactTask = "ok"
      PROVE  cause' # NoCause
  BY <1>0, <1>1, <1>5 DEF CreditExactCancel
<1>6. CASE ExactCancelDone
  BY <1>4, <1>5, <1>6 DEF ExactCancelDone, writerVars
<1>7. CASE SettleFinishedExact
  BY <1>4, <1>5, <1>7 DEF SettleFinishedExact, writerVars
<1> QED BY <1>3, <1>6, <1>7

LEMMA StillExplained ==
  ASSUME IInv, [Next]_vars, Explained
  PROVE  Explained'
<1>1. CASE cause # NoCause \/ fatal # NoError
  <2>1. cause' # NoCause \/ fatal' # NoError BY <1>1, CauseMoves
  <2> QED BY <2>1 DEF Explained
<1>2. CASE pendingCancel # NoCommand
  <2>1. \/ pendingCancel' = pendingCancel
        \/ ExactCancelDone \/ SettleFinishedExact \/ AbortExactCancel
    BY <1>2, CauseMoves
  <2> QED BY <1>2, <2>1, SettlingExplains DEF Explained
<1>3. CASE writer # "running" BY <1>3, WriterMoves DEF Explained
<1>4. CASE \E j \in 1 .. Len(out) : Refused(j)
  BY <1>4, OldRecords DEF Explained, Refused
<1> QED BY <1>1, <1>2, <1>3, <1>4 DEF Explained

LEMMA TraceStep ==
  ASSUME IInv, TurnTypeOK, ControlShared, CancellationTraced, [BridgeNext]_bridgeVars
  PROVE  CancellationTraced'
<1> USE DEF callVars, streamVars, agentVars, turnVars
<1>0. [Next]_vars BY BridgeStepIsServerStep
<1>1. token' => cause' # NoCause
  BY <1>0, CauseMoves DEF CancellationTraced
<1>2. issued => issued'
  <2>1. CASE ServerSide BY <2>1, ServerSideMoves
  <2>2. CASE RunnerStep
    BY <2>2 DEF RunnerStep, OpeningFails, AgentBuilt, PromptAccepted, PromptFails,
                PromptCancelled, OfferTurn, StreamEvent, StreamEnds, ObserveToken, FallbackSwap,
                FinishForwarding, JoinFallback, ReturnResult
  <2>3. CASE ExactStep \/ AgentStep \/ BridgeDone \/ UNCHANGED bridgeVars
    BY <2>3 DEF ExactStep, ExactBegins, ExactFindsIssued, ExactTimesOut, AnswerExactCall,
                AgentStep, AgentHears, AnswerFallbackCall, AgentSettles, BridgeDone, bridgeVars
  <2> QED BY <2>1, <2>2, <2>3 DEF BridgeNext
<1>3. issued' => Explained'
  <2>1. CASE issued BY <1>0, <2>1, StillExplained DEF CancellationTraced
  <2>2. CASE ObserveToken
    BY <1>0, <2>2, StillExplained DEF ObserveToken, CancellationTraced, Explained
  <2>3. CASE ExactBegins
    <3>1. pendingCancel # NoCommand BY <2>3 DEF ExactBegins, IInv, ExactTracked
    <3> QED BY <1>0, <3>1, StillExplained DEF Explained
  <2>4. CASE ~issued /\ ~ObserveToken /\ ~ExactBegins
    <3>1. CASE ServerSide BY <2>4, <3>1, ServerSideMoves
    <3>2. CASE RunnerStep
      BY <2>4, <3>2 DEF RunnerStep, OpeningFails, AgentBuilt, PromptAccepted, PromptFails,
                PromptCancelled, OfferTurn, StreamEvent, StreamEnds,
                FinishForwarding, JoinFallback, ReturnResult
    <3>3. CASE ExactStep \/ AgentStep \/ BridgeDone \/ UNCHANGED bridgeVars
      BY <2>4, <3>3 DEF ExactStep, ExactFindsIssued, ExactTimesOut, AnswerExactCall,
                AgentStep, AgentHears, AnswerFallbackCall, AgentSettles, BridgeDone, bridgeVars
    <3> QED BY <3>1, <3>2, <3>3 DEF BridgeNext
  <2> QED BY <2>1, <2>2, <2>3, <2>4
<1>4. agent' \in {"stopping", "stopped"} \/ result' = "cancelled" => issued'
  <2>1. agent' \in {"stopping", "stopped"} \/ result' = "cancelled" =>
          agent \in {"stopping", "stopped"} \/ result = "cancelled" \/ calls # {}
    <3>1. CASE ServerSide BY <3>1, ServerSideMoves
    <3>2. CASE RunnerStep
      BY <3>2 DEF RunnerStep, OpeningFails, AgentBuilt, PromptAccepted, PromptFails,
                PromptCancelled, OfferTurn, StreamEvent, StreamEnds, ObserveToken,
                FinishForwarding, JoinFallback, ReturnResult
    <3>3. CASE ExactStep
      BY <3>3 DEF ExactStep, ExactBegins, ExactFindsIssued, ExactTimesOut, AnswerExactCall
    <3>4. CASE AgentStep
      BY <3>4 DEF AgentStep, AgentHears, AnswerFallbackCall, AgentSettles, AgentStops
    <3>5. CASE BridgeDone \/ UNCHANGED bridgeVars BY <3>5 DEF BridgeDone, bridgeVars
    <3> QED BY <3>1, <3>2, <3>3, <3>4, <3>5 DEF BridgeNext
  <2> QED BY <1>2, <2>1 DEF CancellationTraced, ControlShared
<1>5. turn' = "returned" /\ outcome'.kind = "cancelled" => cause' # NoCause \/ issued'
  <2>1. \/ turn' = turn /\ outcome' = outcome
        \/ turn' # "returned"
        \/ turn' = "returned" /\ (outcome'.kind = "cancelled" => token \/ result = "cancelled")
    <3>1. CASE ServerSide BY <3>1, ServerSideMoves
    <3>2. CASE OpeningFails \/ AgentBuilt \/ PromptFails \/ PromptCancelled \/ ReturnResult
      BY <3>2 DEF OpeningFails, AgentBuilt, PromptFails, PromptCancelled, ReturnResult, Return,
                  FailedOutcome, CompletedOutcome, CleanupOutcome
    <3>3. CASE PromptAccepted \/ OfferTurn \/ StreamEvent \/ StreamEnds \/ ObserveToken
                 \/ FinishForwarding \/ JoinFallback
      BY <3>3 DEF PromptAccepted, OfferTurn, StreamEvent, StreamEnds, ObserveToken,
                  FinishForwarding, JoinFallback
    <3>4. CASE ExactStep \/ AgentStep \/ BridgeDone \/ UNCHANGED bridgeVars
      BY <3>4 DEF ExactStep, ExactBegins, ExactFindsIssued, ExactTimesOut, AnswerExactCall,
                  AgentStep, AgentHears, AnswerFallbackCall, AgentSettles, BridgeDone, Done,
                  bridgeVars, serverVars, vars, backendVars, ExactSettles
    <3> QED BY <3>1, <3>2, <3>3, <3>4 DEF BridgeNext, RunnerStep
  <2>2. cause # NoCause => cause' # NoCause BY <1>0, CauseMoves
  <2> QED BY <1>2, <2>1, <2>2 DEF CancellationTraced
<1> QED BY <1>1, <1>3, <1>4, <1>5 DEF CancellationTraced
-----------------------------------------------------------------------------
(* What is reported.                                                       *)

\* A datum that only a terminal carries is the datum of the one just chosen.
LEMMA TerminalDatum ==
  ASSUME IInv, [Next]_vars, NEW i \in 1 .. Len(out'), i \notin 1 .. Len(out),
         out'[i].info \in {"backend_cancelled", "completion_before_acceptance",
                           "session_identity_mismatch"}
  PROVE  /\ EmitTerminal /\ writer = "running" /\ Len(out) < i
         /\ out'[i].info = ChosenTerminal.record.info
<1>0. Len(out) \in Nat /\ Len(out') \in Nat BY OldRecords
<1>1. /\ Marker.info = "bridge_event_backpressure"
      /\ \A n : Event(n).info = "upstream"
  BY DEF Marker, Event, Rec
<1>2. ~FailsEarly
  BY <1>0 DEF FailsEarly, AddsRecord, Rec
<1>3. ~Discloses
  BY <1>0 DEF Discloses, AddsRecord, Rec
<1>4. ~Answers
  <2> SUFFICES ASSUME Answers PROVE FALSE OBVIOUS
  <2>1. PICK code \in AnswerCodes : i = Len(out) + 1 /\ out'[i].info = code
    BY <1>0 DEF Answers, AddsRecord, Rec
  <2> QED BY <2>1 DEF AnswerCodes
<1> QED BY <1>0, <1>1, <1>2, <1>3, <1>4, NewRecord DEF Terminates

\* The terminals that carry such a datum.
LEMMA ChosenDatum ==
  ASSUME IInv, EmitTerminal
  PROVE  /\ ChosenTerminal.record.info = "backend_cancelled" =>
              fatal = NoError /\ outcome.kind = "cancelled" /\ cause = NoCause
         /\ ChosenTerminal.record.info \in {"completion_before_acceptance",
                                            "session_identity_mismatch"} =>
              /\ outcome.kind = "completed"
              /\ accepted = NoSession \/ accepted # outcome.session
<1> DEFINE Tested == {"backend_cancelled", "completion_before_acceptance",
                      "session_identity_mismatch"}
<1>1. outcome.kind \in {"completed", "cancelled", "failed"}
  BY DEF IInv, OutcomeKnown, AfterBackend, EmitTerminal, Outcomes
<1>2. /\ cause # NoCause => cause \notin Tested
      /\ fatal # NoError => fatal \notin Tested
  BY NamesAssumption
     DEF IInv, TypeOK, TurnType, InputType, Causes, FallbackCauses, FatalCodes
<1>3. \A info, status : Failure(info, status).record.info = info
  BY DEF Failure, Terminal, Rec
<1>4. \A reason : CancelledTerminal(reason).record.info
                    \in {reason, "cancelled_before_acceptance"}
  BY <1>3 DEF CancelledTerminal, Terminal, Rec
<1>5. CASE fatal # NoError BY <1>2, <1>3, <1>5 DEF ChosenTerminal
<1>6. CASE fatal = NoError /\ outcome.kind = "completed"
  <2>1. ChosenTerminal = CompletedTerminal BY <1>6 DEF ChosenTerminal
  <2> QED BY <1>3, <1>6, <2>1 DEF CompletedTerminal, Terminal, Rec
<1>7. CASE fatal = NoError /\ outcome.kind = "cancelled"
  <2>1. ChosenTerminal =
          CancelledTerminal(IF cause = NoCause THEN "backend_cancelled" ELSE cause)
    BY <1>7 DEF ChosenTerminal
  <2>2. ChosenTerminal.record.info
          \in {IF cause = NoCause THEN "backend_cancelled" ELSE cause,
               "cancelled_before_acceptance"}
    BY <1>4, <2>1
  <2> QED BY <1>2, <1>7, <2>2
<1>8. CASE fatal = NoError /\ outcome.kind = "failed"
  <2>1. ChosenTerminal = FailedTerminal BY <1>8 DEF ChosenTerminal
  <2>2. CASE cause # NoCause /\ FailedTerminal = CancelledTerminal(cause)
    <3>1. ChosenTerminal.record.info \in {cause, "cancelled_before_acceptance"}
      BY <1>4, <2>1, <2>2
    <3> QED BY <1>2, <2>2, <3>1
  <2>3. CASE FailedTerminal.record.info \in {"backend_error", "result_too_large"}
    BY <2>1, <2>3
  <2> QED BY <1>3, <2>2, <2>3 DEF FailedTerminal
<1> QED BY <1>1, <1>5, <1>6, <1>7, <1>8

LEMMA RecognizedStep ==
  ASSUME IInv, Lifecycle, TurnTypeOK, SessionShared, CompletionIsRecognized,
         [BridgeNext]_bridgeVars
  PROVE  CompletionIsRecognized'
<1>0. [Next]_vars BY BridgeStepIsServerStep
<1> SUFFICES ASSUME NEW i \in 1 .. Len(out'),
                    out'[i].info \in {"completion_before_acceptance",
                                      "session_identity_mismatch"}
             PROVE  FALSE
  BY DEF CompletionIsRecognized
<1>1. i \notin 1 .. Len(out) BY <1>0, OldRecords DEF CompletionIsRecognized
<1>2. /\ EmitTerminal
      /\ outcome.kind = "completed" /\ (accepted = NoSession \/ accepted # outcome.session)
  BY <1>0, <1>1, TerminalDatum, ChosenDatum
<1>3. turn = "returned" /\ ~OfferPending
  BY <1>2 DEF EmitTerminal, IInv, OutcomeKnown, AfterBackend, TurnTypeOK, Lifecycle, OfferPending
<1> QED BY <1>2, <1>3 DEF SessionShared, Completed

LEMMA ExplainedStep ==
  ASSUME IInv, TurnTypeOK, CancellationTraced, UncausedCancellationExplained,
         [BridgeNext]_bridgeVars
  PROVE  UncausedCancellationExplained'
<1>0. [Next]_vars BY BridgeStepIsServerStep
<1>1. Len(out) \in Nat /\ \A i \in 1 .. Len(out) : out'[i] = out[i] BY <1>0, OldRecords
<1> SUFFICES ASSUME NEW i \in 1 .. Len(out'), out'[i].info = "backend_cancelled"
             PROVE  \E j \in 1 .. (i - 1) : /\ out'[j].type = "command.rejected"
                                            /\ out'[j].info = "turn_not_cancellable"
  BY DEF UncausedCancellationExplained
<1>2. CASE i \in 1 .. Len(out)
  <2>1. PICK j \in 1 .. (i - 1) : Refused(j)
    BY <1>1, <1>2 DEF UncausedCancellationExplained, Refused
  <2>2. j \in 1 .. Len(out) BY <1>1, <1>2
  <2> QED BY <1>1, <2>1, <2>2 DEF Refused
<1>3. CASE i \notin 1 .. Len(out)
  <2>1. /\ EmitTerminal /\ writer = "running" /\ Len(out) < i
        /\ fatal = NoError /\ outcome.kind = "cancelled" /\ cause = NoCause
    BY <1>0, <1>3, TerminalDatum, ChosenDatum
  <2>2. turn = "returned" /\ pendingCancel = NoCommand
    BY <2>1 DEF EmitTerminal, IInv, OutcomeKnown, AfterBackend, TurnTypeOK, ExactTracked, Settled
  <2>3. PICK j \in 1 .. Len(out) : Refused(j)
    BY <2>1, <2>2 DEF CancellationTraced, Explained
  <2>4. j \in 1 .. (i - 1) /\ out'[j] = out[j] BY <1>1, <2>1, <2>3
  <2> QED BY <2>3, <2>4 DEF Refused
<1> QED BY <1>2, <1>3
-----------------------------------------------------------------------------
(* The invariant holds.                                                    *)

LEMMA BridgeStart == BridgeInit => BridgeInv
<1> SUFFICES ASSUME BridgeInit PROVE BridgeInv OBVIOUS
<1>1. OutInv BY OutInit DEF BridgeInit
<1>2. TurnTypeOK BY DEF BridgeInit, TurnInit, Init, TurnTypeOK
<1>3. SessionShared
  BY DEF BridgeInit, TurnInit, Init, SessionShared, OfferPending, Completed, Early, Late
<1>4. ControlShared /\ CancellationTraced
  BY DEF BridgeInit, TurnInit, Init, ControlShared, CancellationTraced
<1>5. Len(out) = 1 /\ out[1].info = "none" BY DEF BridgeInit, Init, Rec
<1>6. CompletionIsRecognized /\ UncausedCancellationExplained
  BY <1>5 DEF CompletionIsRecognized, UncausedCancellationExplained
<1> QED BY <1>1, <1>2, <1>3, <1>4, <1>6 DEF BridgeInv

LEMMA BridgeStep ==
  ASSUME BridgeInv, [BridgeNext]_bridgeVars
  PROVE  BridgeInv'
<1> USE DEF BridgeInv
<1>0. IInv /\ Lifecycle BY DEF OutInv
<1>1. OutInv' BY BridgeStepIsServerStep, OutStep
<1>2. TurnTypeOK' BY <1>0, TurnTypeStep
<1>3. SessionShared' BY <1>0, SessionStep
<1>4. ControlShared' BY <1>0, ControlStep
<1>5. CancellationTraced' BY <1>0, TraceStep
<1>6. CompletionIsRecognized' BY <1>0, RecognizedStep
<1>7. UncausedCancellationExplained' BY <1>0, ExplainedStep
<1> QED BY <1>1, <1>2, <1>3, <1>4, <1>5, <1>6, <1>7

LEMMA BridgeInvariant == BridgeSpec => []BridgeInv
<1>1. BridgeInit => BridgeInv BY BridgeStart
<1>2. BridgeInv /\ [BridgeNext]_bridgeVars => BridgeInv' BY BridgeStep
<1> QED BY <1>1, <1>2, PTL DEF BridgeSpec

\* The runner, the agent and the calls between them keep their types, and the
\* server sees its task finished exactly when the runner has returned.
THEOREM TurnTypeCorrect == BridgeSpec => []TurnTypeOK
<1>1. BridgeInv => TurnTypeOK BY DEF BridgeInv
<1> QED BY <1>1, BridgeInvariant, PTL

\* A completed turn is never reported as completed before its acceptance or as
\* another session's, however late the server reads the notices.
THEOREM CompletionRecognized == BridgeSpec => []CompletionIsRecognized
<1>1. BridgeInv => CompletionIsRecognized BY DEF BridgeInv
<1> QED BY <1>1, BridgeInvariant, PTL

\* A cancellation nobody is named for ends a turn whose client was told that its
\* command came too late, whoever raced to cancel and whatever call hung.
THEOREM UncausedExplained == BridgeSpec => []UncausedCancellationExplained
<1>1. BridgeInv => UncausedCancellationExplained BY DEF BridgeInv
<1> QED BY <1>1, BridgeInvariant, PTL

\* TurnControl::cancel is called at most once, by the server's supervised task
\* or by the runner's fallback, and never before the turn is offered.
THEOREM ControlOnce == BridgeSpec => []ControlCalledOnce
<1>1. BridgeInv => ControlCalledOnce BY ControlIsCalledOnce DEF BridgeInv
<1> QED BY <1>1, BridgeInvariant, PTL
=============================================================================
