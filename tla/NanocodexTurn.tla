---------------------------- MODULE NanocodexTurn ----------------------------
(***************************************************************************)
(* The whole bridge: the server of BridgeServer with NanocodexBackend      *)
(* (src/src/backend.rs, run_nanocodex and run_with_openai) as its backend. *)
(*                                                                         *)
(* The turn runner and the server meet in four places: the notice channel, *)
(* the cancellation token, the supervised exact cancellation with the flag *)
(* both share, and the outcome.  Here every step of BridgeServer's general *)
(* backend is a step of the runner, so this specification implements       *)
(* BridgeServer's and inherits its invariants.                             *)
(*                                                                         *)
(* External: the Nanocodex agent, its event stream and its TurnControl,    *)
(* modelled from how backend.rs uses them.  Forwarding is reduced to the   *)
(* notice an event becomes or the marker it leaves owed; EventForwarder    *)
(* has the rest.                                                           *)
(***************************************************************************)
EXTENDS BridgeServer

CONSTANT HangingCalls   \* the TurnControl::cancel calls the agent may not answer

Callers == {"exact", "fallback"}

ASSUME HangingAssumption == HangingCalls \subseteq Callers

VARIABLES
  turn,          \* where run_with_openai is
  issued,        \* exact_cancel_issued, shared with the server's handle
  cancelTask,    \* the fallback's own task
  calls,         \* TurnControl::cancel calls the agent has not answered
  controlCalls,  \* auxiliary: how often TurnControl::cancel was called
  timedOut,      \* auxiliary: the server gave up waiting for the exact call
  eventError,    \* event_error is set
  owedMarker,    \* the forwarder owes a backpressure marker
  agentSession,  \* the session of the built agent
  agent,         \* "idle", "working", "stopping"; then "settled", or "stopped"
                 \* when it was told to stop before
  result         \* what awaiting the turn gives: "none", "ok", "cancelled", "error"

callVars   == <<issued, cancelTask, calls, controlCalls, timedOut>>
streamVars == <<eventError, owedMarker>>
agentVars  == <<agent, result>>
turnVars   == <<turn, callVars, streamVars, agentSession, agentVars>>
serverVars == vars
bridgeVars == <<serverVars, turnVars>>
-----------------------------------------------------------------------------
TurnInit ==
  /\ turn = "absent"
  /\ issued = FALSE /\ cancelTask = "none" /\ calls = {} /\ controlCalls = 0
  /\ timedOut = FALSE
  /\ eventError = FALSE /\ owedMarker = FALSE
  /\ agentSession = NoSession
  /\ agent = "idle" /\ result = "none"

BridgeInit == Init /\ TurnInit

\* The server's own steps; StartTurn spawns the runner.
BesideTurn ==
  /\ turn' = IF StartTurn THEN "opening" ELSE turn
  /\ UNCHANGED <<callVars, streamVars, agentSession, agentVars>>
ServerSide == (ServerStep \/ WriterStep \/ ClientStep) /\ BesideTurn
-----------------------------------------------------------------------------
(* Opening: validation, auth, client, agent; then the prompt.              *)

\* The runner returns: shutdown is over and the task ends.
Return(o) ==
  /\ BackendFinishes /\ outcome' = o
  /\ turn' = "returned"

FailedOutcome(category) ==
  [kind |-> "failed", session |-> NoSession, category |-> category,
   completed |-> FALSE, fits |-> TRUE]
CancelledOutcome ==
  [kind |-> "cancelled", session |-> NoSession, category |-> "none",
   completed |-> FALSE, fits |-> TRUE]
CompletedOutcome(fits) ==
  [kind |-> "completed", session |-> agentSession, category |-> "none",
   completed |-> TRUE, fits |-> fits]
CleanupOutcome(fits) ==
  [kind |-> "failed", session |-> NoSession, category |-> "cleanup",
   completed |-> TRUE, fits |-> fits]

\* validate_request, resolve_auth, tools_for_auth or a builder fails; none of
\* them looks at the token.
OpeningFails ==
  /\ turn = "opening"
  /\ \E category \in AllCategories : Return(FailedOutcome(category))
  /\ UNCHANGED <<callVars, streamVars, agentSession, agentVars>>

\* The agent is built; the token is looked at once.
AgentBuilt ==
  /\ turn = "opening"
  /\ \E s \in SessionIds : agentSession' = s
  /\ \/ token /\ Return(CancelledOutcome)
     \/ ~token /\ turn' = "prompting" /\ UNCHANGED serverVars
  /\ UNCHANGED <<callVars, streamVars, agentVars>>

PromptAccepted ==
  /\ turn = "prompting"
  /\ turn' = "offering" /\ agent' = "working"
  /\ UNCHANGED <<serverVars, callVars, streamVars, agentSession, result>>

PromptFails ==
  /\ turn = "prompting"
  /\ \E category \in AllCategories : Return(FailedOutcome(category))
  /\ UNCHANGED <<callVars, streamVars, agentSession, agentVars>>

PromptCancelled ==
  /\ turn = "prompting" /\ token
  /\ Return(CancelledOutcome)
  /\ UNCHANGED <<callVars, streamVars, agentSession, agentVars>>

\* The first notice: the session and the handle the server may cancel with.
\* The server keeps its end of the channel until the runner has returned.
OfferTurn ==
  /\ turn = "offering"
  /\ BackendAccepts
  /\ notices'[Len(notices')].session = agentSession
  /\ turn' = "streaming"
  /\ UNCHANGED <<callVars, streamVars, agentSession, agentVars>>
-----------------------------------------------------------------------------
(* Streaming: select! between the turn's events and the token.             *)

\* forward: an event becomes a notice, or finds the channel full and leaves a
\* marker owed, or is over budget and leaves nothing.
ForwardUpstream ==
  \/ ~owedMarker /\ BackendReports /\ UNCHANGED owedMarker
  \/ owedMarker /\ BackendReports /\ owedMarker' \in BOOLEAN
  \/ Len(notices) = NoticeCapacity /\ owedMarker' = TRUE /\ UNCHANGED serverVars
  \/ UNCHANGED <<owedMarker, serverVars>>

\* Within the bound on events, which keeps the last one for finish.
StreamEvent ==
  /\ turn = "streaming"
  /\ produced + 2 < MaxEvents
  /\ ForwardUpstream
  /\ UNCHANGED <<turn, callVars, eventError, agentSession, agentVars>>

\* The terminal event, or the end of the stream without one.
StreamEnds ==
  /\ turn = "streaming" /\ agent \in {"settled", "stopped"}
  /\ turn' = "finishing"
  /\ \/ produced + 1 < MaxEvents /\ ForwardUpstream /\ UNCHANGED eventError
     \/ eventError' = TRUE /\ UNCHANGED <<owedMarker, serverVars>>
  /\ UNCHANGED <<callVars, agentSession, agentVars>>

\* Mutant: the flag is not looked at before it is set.
FallbackSwapUnchecked ==
  /\ issued' = TRUE
  /\ cancelTask' = "running" /\ calls' = calls \cup {"fallback"}
  /\ controlCalls' = controlCalls + 1 /\ UNCHANGED timedOut

\* Mutant: the flag is taken but nothing is spawned.
FallbackSwapIdle ==
  /\ ~issued /\ issued' = TRUE
  /\ UNCHANGED <<cancelTask, calls, controlCalls, timedOut>>

\* The swap of the shared flag.  Once it is set the branch does nothing: the
\* loop turns again with the token still ready.
FallbackSwap ==
  /\ ~issued /\ issued' = TRUE
  /\ cancelTask' = "running" /\ calls' = calls \cup {"fallback"}
  /\ controlCalls' = controlCalls + 1 /\ UNCHANGED timedOut

ObserveToken ==
  /\ turn = "streaming" /\ token /\ cancelTask = "none"
  /\ FallbackSwap
  /\ UNCHANGED <<serverVars, turn, streamVars, agentSession, agentVars>>
-----------------------------------------------------------------------------
(* The server's exact cancellation: NanocodexTurnCancellation::cancel.     *)

ExactBegins ==
  /\ Alive /\ exactTask = "running" /\ ~issued
  /\ issued' = TRUE
  /\ calls' = calls \cup {"exact"} /\ controlCalls' = controlCalls + 1
  /\ UNCHANGED <<serverVars, turn, cancelTask, timedOut, streamVars, agentSession,
                 agentVars>>

\* The fallback was there first: nothing is called and the reply is Ok.
ExactFindsIssued ==
  /\ issued /\ "exact" \notin calls
  /\ ExactSettles /\ exactTask' = "ok"
  /\ UNCHANGED turnVars

\* Mutant: the supervised task waits for the acknowledgement without a limit.
LimitNever == FALSE

\* The second it may take has passed: only where the agent may hang.
LimitPasses == "exact" \in HangingCalls

\* The server's timeout; the request may or may not still be with the agent.
ExactTimesOut ==
  /\ "exact" \in calls /\ LimitPasses
  /\ ExactSettles /\ exactTask' = "failed"
  /\ calls' \in {calls, calls \ {"exact"}} /\ timedOut' = TRUE
  /\ UNCHANGED <<turn, issued, cancelTask, controlCalls, streamVars,
                 agentSession, agentVars>>
-----------------------------------------------------------------------------
(* The agent (external).  A request to cancel stops a working agent and is *)
(* refused by one that has settled, or whose driver is gone.  The agent    *)
(* may act on a request, and even end its turn, before the caller has its  *)
(* reply.                                                                  *)

Reply == CASE agent = "settled" -> {"refused", "failed"}
           [] agent = "stopped" -> {"ok", "failed"}
           [] OTHER             -> {"ok"}

AgentStops == agent' = IF agent = "working" THEN "stopping" ELSE agent

AgentHears ==
  /\ calls # {} /\ agent = "working"
  /\ AgentStops
  /\ UNCHANGED <<serverVars, turn, callVars, streamVars, agentSession, result>>

AnswerExactCall ==
  /\ "exact" \in calls /\ exactTask = "running"
  /\ ExactSettles /\ exactTask' \in Reply
  /\ calls' = calls \ {"exact"}
  /\ AgentStops
  /\ UNCHANGED <<turn, issued, cancelTask, controlCalls, timedOut, streamVars,
                 agentSession, result>>

AnswerFallbackCall ==
  /\ "fallback" \in calls
  /\ cancelTask' \in Reply
  /\ calls' = calls \ {"fallback"}
  /\ AgentStops
  /\ UNCHANGED <<serverVars, turn, issued, controlCalls, timedOut, streamVars,
                 agentSession, result>>

\* The agent ends its turn: as cancelled only when it was told to.
AgentSettles ==
  /\ agent \in {"working", "stopping"}
  /\ agent' = IF agent = "stopping" THEN "stopped" ELSE "settled"
  /\ result' \in {"ok", "error"} \cup (IF agent = "stopping" THEN {"cancelled"} ELSE {})
  /\ UNCHANGED <<serverVars, turn, callVars, streamVars, agentSession>>
-----------------------------------------------------------------------------
(* After the stream: the owed marker, the fallback's task, the result.     *)

\* forwarder.finish waits for room in the channel.
FinishForwarding ==
  /\ turn = "finishing"
  /\ \/ owedMarker /\ BackendReports
     \/ ~owedMarker /\ UNCHANGED serverVars
  /\ owedMarker' = FALSE
  /\ turn' = "joining"
  /\ UNCHANGED <<callVars, eventError, agentSession, agentVars>>

\* Mutant: the runner leaves without a result once the fallback has joined.
JoinFallbackAndLeave ==
  /\ turn = "joining"
  /\ cancelTask = "running" => "fallback" \in HangingCalls
  /\ turn' = "returned"
  /\ UNCHANGED <<serverVars, callVars, streamVars, agentSession, agentVars>>

\* The fallback's task is awaited with a timeout, which is not an error.
JoinFallback ==
  /\ turn = "joining"
  /\ cancelTask = "running" => "fallback" \in HangingCalls
  /\ turn' = "awaiting"
  /\ UNCHANGED <<serverVars, callVars, streamVars, agentSession, agentVars>>

\* The result decides: cancelled, failed, failed after all because the
\* cancellation or the stream failed or the snapshot cannot be resumed,
\* recoverable because only the shutdown failed, or completed.
ReturnResult ==
  /\ turn = "awaiting"
  /\ \/ result = "cancelled" /\ Return(CancelledOutcome)
     \/ result = "error" /\ \E category \in AllCategories :
                              Return(FailedOutcome(category))
     \/ /\ result = "ok" /\ (cancelTask = "failed" \/ eventError)
        /\ Return(FailedOutcome("internal"))
     \/ /\ result = "ok" /\ cancelTask # "failed" /\ ~eventError
        /\ \/ \E category \in {"internal", "checkpoint"} :
                Return(FailedOutcome(category))
           \/ \E fits \in BOOLEAN :
                Return(CleanupOutcome(fits)) \/ Return(CompletedOutcome(fits))
  /\ UNCHANGED <<callVars, streamVars, agentSession, agentVars>>
-----------------------------------------------------------------------------
RunnerStep ==
  \/ OpeningFails \/ AgentBuilt \/ PromptAccepted \/ PromptFails
  \/ PromptCancelled \/ OfferTurn
  \/ StreamEvent \/ StreamEnds \/ ObserveToken
  \/ FinishForwarding \/ JoinFallback \/ ReturnResult

ExactStep == ExactBegins \/ ExactFindsIssued \/ ExactTimesOut \/ AnswerExactCall
AgentStep == AgentHears \/ AnswerFallbackCall \/ AgentSettles

BridgeDone == Done /\ UNCHANGED turnVars

BridgeNext == ServerSide \/ RunnerStep \/ ExactStep \/ AgentStep \/ BridgeDone

BridgeSpec == BridgeInit /\ [][BridgeNext]_bridgeVars
-----------------------------------------------------------------------------
(* Fairness: the server, the runner and the exact cancellation keep taking *)
(* steps; the agent answers the calls it does not hang on and stops once   *)
(* it was told to.  An agent nobody cancels may work for ever, a client or *)
(* a signal need never come, and the writer has no fairness: nobody need   *)
(* read the output.  One fairness condition for all branches of a select!  *)
(* is enough: each is taken finitely often before it is disabled.          *)

AnswersExact    == "exact" \notin HangingCalls /\ AnswerExactCall
AnswersFallback == "fallback" \notin HangingCalls /\ AnswerFallbackCall
AgentStopsSoon  == agent = "stopping" /\ AgentSettles

BridgeFairness ==
  /\ WF_bridgeVars(ServerStep /\ BesideTurn)
  /\ WF_bridgeVars(RunnerStep)
  /\ WF_bridgeVars(ExactBegins \/ ExactFindsIssued \/ ExactTimesOut)
  /\ WF_bridgeVars(AnswersExact) /\ WF_bridgeVars(AnswersFallback)
  /\ WF_bridgeVars(AgentStopsSoon)

FairBridgeSpec == BridgeSpec /\ BridgeFairness
-----------------------------------------------------------------------------
(* Properties of the bridge as a whole.                                    *)

\* The runner, the agent and the calls between them keep their types; the
\* runner has returned exactly when the server's backend task is finished.
TurnTypeOK ==
  /\ turn \in {"absent", "opening", "prompting", "offering", "streaming",
               "finishing", "joining", "awaiting", "returned"}
  /\ turn = "absent" <=> backend = "absent"
  /\ turn = "returned" <=> backend = "finished"
  /\ issued \in BOOLEAN /\ eventError \in BOOLEAN /\ owedMarker \in BOOLEAN
  /\ cancelTask \in {"none", "running", "ok", "refused", "failed"}
  /\ calls \subseteq Callers /\ controlCalls \in Nat
  /\ timedOut \in BOOLEAN
  /\ agentSession \in SessionIds \cup {NoSession}
  /\ agent \in {"idle", "working", "stopping", "settled", "stopped"}
  /\ result \in {"none", "ok", "cancelled", "error"}

\* A turn the runner completed is never reported as completed before its
\* acceptance, nor as another session's: what the runner sent before it
\* returned is handled before its outcome is (server.rs, the try_recv loop).
CompletionIsRecognized ==
  \A i \in 1 .. Len(out) :
    out[i].info \notin {"completion_before_acceptance", "session_identity_mismatch"}

\* A cancellation without a cause is the trace of one race only: the turn
\* ended as cancelled before the reply to the client's command was seen, and
\* that command was refused as too late.
UncausedCancellationExplained ==
  \A i \in 1 .. Len(out) :
    out[i].info = "backend_cancelled" =>
      \E j \in 1 .. (i - 1) : /\ out[j].type = "command.rejected"
                              /\ out[j].info = "turn_not_cancellable"

\* Before a session is accepted nobody has TurnControl, so a turn that ends
\* unaccepted was never cancelled through it; and it is called at most once,
\* whichever of the server and the runner comes first (spec 9).
ControlCalledOnce ==
  /\ Cardinality(calls) <= controlCalls /\ controlCalls <= 1
  /\ controlCalls = 1 => turn \notin {"absent", "opening", "prompting", "offering"}

-----------------------------------------------------------------------------
(* Liveness.                                                               *)

\* The writer gets rid of what it is given, or fails: the client reads or closes.
OutputDrains == []<>(writer = "failed" \/ flushed = Len(out))

\* Once the turn is told to stop - end of input, a signal, a lost writer, a
\* fatal record, a cancellation before acceptance, a refused exact one - the
\* backend returns and the terminal is queued, even if nobody ever reads the
\* output (spec 6.2: a blocked writer must not stop input, signal, cancellation
\* or backend state).  Unless the agent left the exact call unanswered: then
\* the turn may go on (FallbackRemainsAvailable).
CancelledTurnSettles == token ~> phase \in {"joining", "exited"} \/ timedOut

\* A client that closes its end, a signal in any phase and a cancelled turn end
\* the process, provided its output is read or fails: after the terminal only
\* finish_writer is waited for, and no signal is looked at.  With the same
\* exception.
StoppedProcessEnds ==
  OutputDrains =>
    (token \/ stdinClosed \/ signalled ~> phase = "exited" \/ timedOut)

\* An exact cancellation is always settled: by the agent's reply, by the end of
\* the turn or, if the agent never replies, by the limit on the wait, whatever
\* else the select! loop has ready and whether the output is read or not.
ExactCancelAnswered == pendingCancel # NoCommand ~> pendingCancel = NoCommand

\* spec 9: "Fallback cancellation remains available when that exact
\* acknowledgement hangs, panics, or races completion."
FallbackRemainsAvailable == token ~> backend = "finished"
=============================================================================
