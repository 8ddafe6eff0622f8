---------------------------- MODULE BridgeServer ----------------------------
(***************************************************************************)
(* The one-turn protocol server of smithers-nanocodex                      *)
(* (src/src/server.rs, serve_with_backend): it says hello, waits for one   *)
(* turn.start, runs the backend, serves turn.cancel while the turn runs,   *)
(* finalizes, emits exactly one terminal record and exits.                 *)
(*                                                                         *)
(* One action is one step of the server task between two awaits (sending   *)
(* to the output queue never waits), one branch of its select! loop, or    *)
(* one step of a task that runs beside it: the writer, the supervised      *)
(* exact cancellation, the backend, the client, the signal handler.        *)
(*                                                                         *)
(* The backend is here the most general AgentBackend: it may send any      *)
(* notices, finish at any time with any outcome, or stop with a panic.     *)
(*                                                                         *)
(* Abstractions.  A record is its type, its correlation and the one datum  *)
(* the properties tell apart.  A cancellation reason given by a client is  *)
(* named by the command that carried it.  Encoding and sizes are left out, *)
(* except whether a terminal fits the output limit.                        *)
(***************************************************************************)
EXTENDS Integers, Sequences, FiniteSets

CONSTANTS
  CommandIds,          \* identifiers a client may put in commandId
  SessionIds,          \* identifiers a backend may give its session
  Writable,            \* the client records a run lets the client write
  PossibleOutcomes,    \* the backend outcomes a run lets the backend return
  MaxCommandRecords,   \* capabilities::MAX_COMMAND_RECORDS
  NoticeCapacity,      \* NOTICE_QUEUE_CAPACITY
  EventSlots,          \* EVENT_OUTPUT_CAPACITY
  MaxClientRecords,    \* bound: records unread or counted
  MaxUnread,           \* bound: records unread
  MaxEvents,           \* bound: events the backend reports
  NoSession, NoCommand, NoCause, NoError, NoOutcome, NoExit

ASSUME BoundsAssumption ==
  /\ MaxCommandRecords \in Nat \ {0}
  /\ NoticeCapacity \in Nat \ {0}
  /\ EventSlots \in Nat \ {0}
  /\ MaxClientRecords \in Nat /\ MaxUnread \in Nat
  /\ MaxEvents \in Nat

FallbackCauses == {"protocol_error", "stdin_eof", "stdin_error",
                   "external_signal", "output_closed",
                   "cancellation_task_failed"}

AllCategories == {"protocol", "config", "auth", "checkpoint", "workspace",
                  "provider", "tool", "cleanup", "internal"}

ASSUME NamesAssumption ==
  /\ NoSession \notin SessionIds
  /\ NoCommand \notin CommandIds
  /\ CommandIds \cap FallbackCauses = {}
  /\ NoCause \notin CommandIds \cup FallbackCauses
  /\ NoError \notin {"malformed", "unreadable", "too_many_commands",
                     "cancellation_failed"}
  /\ NoExit \notin {0, 2, 3, 4, 5, 130}
  /\ CommandIds \cap {"backend_cancelled", "completion_before_acceptance",
                      "session_identity_mismatch"} = {}

VARIABLES
  stdin,            \* records the client wrote that the server has not read
  stdinClosed,      \* the client closed its end
  signalled,        \* external_shutdown: SIGINT or SIGTERM arrived
  phase,            \* where serve_with_backend is
  accepted,         \* accepted_session
  cancelRequested,  \* cancellation_requested
  pendingCancel,    \* command of cancellation_task, NoCommand when there is none
  cause,            \* cancellation_cause
  dropPending,      \* event_backpressure_pending
  inputOpen,        \* input_open
  externalOpen,     \* external_open
  writerOpen,       \* writer_open
  fatal,            \* fatal_protocol_error
  commandIds,       \* command_ids
  recordCount,      \* command_record_count
  verdict,          \* the ServeExit chosen with the terminal
  exit,             \* the status the process ended with
  out,              \* every record put on the output queue, in order
  flushed,          \* how many of them are written and flushed
  writer,           \* "running" or "failed" (the writer_failed token)
  token,            \* turn_cancellation is cancelled
  notices,          \* the notice channel
  produced,         \* events the backend has reported so far
  backend,          \* the backend task: "absent", "running" or "finished"
  outcome,          \* what the backend task returned
  exactTask         \* the supervised exact cancellation

clientVars  == <<stdin, stdinClosed, signalled>>
cancelVars  == <<cancelRequested, cause, token>>
exactVars   == <<pendingCancel, exactTask>>
inputVars   == <<commandIds, recordCount, inputOpen, fatal>>
branchVars  == <<externalOpen, writerOpen>>
endVars     == <<verdict, exit>>
writerVars  == <<flushed, writer>>
backendVars == <<produced, backend, outcome>>
vars == <<clientVars, phase, accepted, cancelVars, exactVars, dropPending,
          inputVars, branchVars, endVars, out, writerVars, notices, backendVars>>
-----------------------------------------------------------------------------
(* What clients write, what is written to them, what the backend reports.  *)

\* A turn.start; a turn.cancel and its target; another well-formed frame; a
\* record that is no strict-JSON frame; one that cannot be read or is too long.
ClientRecords ==
  [kind : {"start", "other"}, id : CommandIds, ours : {TRUE},
   session : {NoSession}]
    \cup [kind : {"cancel"}, id : CommandIds, ours : BOOLEAN,
          session : SessionIds \cup {NoSession}]
    \cup [kind : {"malformed", "unreadable"}, id : {NoCommand}, ours : {FALSE},
          session : {NoSession}]

EventTypes    == {"agent.event", "agent.event-truncated"}
AnswerTypes   == {"command.accepted", "command.rejected"}
TurnTerminals == {"turn.completed", "turn.cancelled", "turn.failed"}
Terminals     == TurnTerminals \cup {"process.failed"}

\* An Outbound: cmd and session are its correlation, info its datum, and n
\* the number of the event it carries.
Rec(type, cmd, session, info, n) ==
  [type |-> type, cmd |-> cmd, session |-> session, info |-> info, n |-> n]

\* Event and EventTruncated differ only in the record they become: one kind.
Notices ==
  [kind : {"accepted"}, session : SessionIds, n : {0}]
    \cup [kind : {"event"}, session : {NoSession}, n : 1 .. MaxEvents]

\* A failure may carry the completed turn; only then may it not fit.
Outcomes ==
  [kind : {"completed"}, session : SessionIds, category : {"none"},
   completed : {TRUE}, fits : BOOLEAN]
    \cup [kind : {"cancelled"}, session : {NoSession}, category : {"none"},
          completed : {FALSE}, fits : {TRUE}]
    \cup [kind : {"failed"}, session : {NoSession}, category : AllCategories,
          completed : {TRUE}, fits : BOOLEAN]
    \cup [kind : {"failed"}, session : {NoSession},
          category : AllCategories,
          completed : {FALSE}, fits : {TRUE}]

ASSUME EnvironmentAssumption ==
  Writable \subseteq ClientRecords /\ PossibleOutcomes \subseteq Outcomes

ExitForCategory(category) ==
  CASE category \in {"protocol", "config", "checkpoint", "workspace"} -> 2
    [] category = "auth" -> 3
    [] category \in {"provider", "tool"} -> 4
    [] category \in {"cleanup", "internal"} -> 5

ExitForFatal == IF fatal = "cancellation_failed" THEN 5 ELSE 2
-----------------------------------------------------------------------------
Init ==
  /\ stdin = <<>> /\ stdinClosed = FALSE /\ signalled = FALSE
  /\ phase = "await_start"
  /\ accepted = NoSession
  /\ cancelRequested = FALSE /\ cause = NoCause /\ token = FALSE
  /\ pendingCancel = NoCommand /\ exactTask = "none"
  /\ dropPending = FALSE
  /\ inputOpen = TRUE /\ externalOpen = TRUE /\ writerOpen = TRUE
  /\ fatal = NoError
  /\ commandIds = {} /\ recordCount = 0
  /\ verdict = NoExit /\ exit = NoExit
  /\ out = <<Rec("hello", NoCommand, NoSession, "none", 0)>>
  /\ flushed = 0 /\ writer = "running"
  /\ notices = <<>> /\ produced = 0
  /\ backend = "absent" /\ outcome = NoOutcome

\* OutputQueue::send_control: it never waits; once the writer is gone the
\* channel is closed and the record is lost.
Enqueue(records) ==
  out' = IF writer = "running" THEN out \o records ELSE out

\* Mutant: the first cause is recorded but the token is never cancelled.
FallbackCancelQuiet(newCause) ==
  /\ cancelRequested' = TRUE
  /\ cause' = IF cause = NoCause THEN newCause ELSE cause
  /\ UNCHANGED token

\* request_fallback_cancellation with set_cancellation_cause: the first
\* cause stays.
FallbackCancel(newCause) ==
  /\ cancelRequested' = TRUE
  /\ cause' = IF cause = NoCause THEN newCause ELSE cause
  /\ token' = TRUE
-----------------------------------------------------------------------------
(* Before the turn: select! between a record, a signal and a dead writer.  *)

\* send_process_failure, then the exit code that was chosen.
FailBeforeStart(code, status) ==
  /\ phase' = "leaving"
  /\ Enqueue(<<Rec("process.failed", NoCommand, NoSession, code, 0)>>)
  /\ verdict' = status
  /\ UNCHANGED <<stdinClosed, signalled, accepted, cancelVars, exactVars,
                 dropPending, inputVars, branchVars, exit, writerVars, notices,
                 backendVars>>

StartTurn ==
  /\ phase = "await_start" /\ stdin # <<>>
  /\ Head(stdin).kind = "start"
  /\ stdin' = Tail(stdin)
  /\ commandIds' = {Head(stdin).id} /\ recordCount' = 1
  /\ backend' = "running"
  /\ phase' = "running"
  /\ UNCHANGED <<stdinClosed, signalled, accepted, cancelVars, exactVars,
                 dropPending, inputOpen, fatal, branchVars, endVars, out,
                 writerVars, notices, produced, outcome>>

RefuseFirstRecord ==
  /\ phase = "await_start" /\ stdin # <<>>
  /\ Head(stdin).kind # "start"
  /\ stdin' = Tail(stdin)
  /\ FailBeforeStart("invalid_first_record", 2)

EndOfInputBeforeStart ==
  /\ phase = "await_start" /\ stdin = <<>> /\ stdinClosed
  /\ UNCHANGED stdin
  /\ FailBeforeStart("stdin_closed_before_start", 2)

SignalBeforeStart ==
  /\ phase = "await_start" /\ signalled
  /\ UNCHANGED stdin
  /\ FailBeforeStart("terminated_before_start", 130)

OutputLostBeforeStart ==
  /\ phase = "await_start" /\ writer = "failed"
  /\ phase' = "leaving" /\ verdict' = 5
  /\ UNCHANGED <<clientVars, accepted, cancelVars, exactVars, dropPending,
                 inputVars, branchVars, exit, out, writerVars, notices,
                 backendVars>>
-----------------------------------------------------------------------------
(* Notices: handle_notice, called from the select! loop and, once the      *)
(* backend is done, from the try_recv loop that empties the channel.       *)

\* Permits of event_slots in use: an event gives its permit back once written.
QueuedEvents ==
  Cardinality({i \in (flushed + 1) .. Len(out) : out[i].type \in EventTypes})

Marker == Rec("agent.event-truncated", NoCommand, accepted,
              "bridge_event_backpressure", 0)

\* Mutant: a second Accepted replaces the session.
AcceptSessionAgain(n) ==
  /\ accepted' = n.session
  /\ Enqueue(<<Rec("turn.accepted", NoCommand, n.session, "none", 0)>>)
  /\ UNCHANGED dropPending

\* A second Accepted is ignored.
AcceptSession(n) ==
  /\ accepted' = IF accepted = NoSession THEN n.session ELSE accepted
  /\ IF accepted = NoSession
       THEN Enqueue(<<Rec("turn.accepted", NoCommand, n.session, "none", 0)>>)
       ELSE UNCHANGED out
  /\ UNCHANGED dropPending

\* Mutant: an event that finds no slot is dropped without a trace.
ForwardEventUnmarked(n) ==
  /\ UNCHANGED <<accepted, dropPending>>
  /\ IF accepted = NoSession \/ QueuedEvents >= EventSlots
       THEN UNCHANGED out
       ELSE Enqueue(<<Rec("agent.event", NoCommand, accepted, "upstream", n.n)>>)

\* An event before acceptance is dropped.  Otherwise the marker of earlier
\* drops goes first, and an event that finds no slot, or finds that marker
\* still owed, is dropped too.
ForwardEvent(n) ==
  LET event == Rec("agent.event", NoCommand, accepted, "upstream", n.n)
      room  == EventSlots - QueuedEvents
  IN  /\ UNCHANGED accepted
      /\ \/ /\ accepted = NoSession \/ writer = "failed"
            /\ UNCHANGED <<out, dropPending>>
         \/ /\ accepted # NoSession /\ writer = "running"
            /\ \/ /\ room <= 0
                  /\ dropPending' = TRUE /\ UNCHANGED out
               \/ /\ room >= 1 /\ ~dropPending
                  /\ Enqueue(<<event>>) /\ UNCHANGED dropPending
               \/ /\ room = 1 /\ dropPending
                  /\ Enqueue(<<Marker>>) /\ UNCHANGED dropPending
               \/ /\ room >= 2 /\ dropPending
                  /\ Enqueue(<<Marker, event>>) /\ dropPending' = FALSE

HandleNotice ==
  /\ phase \in {"running", "draining"} /\ notices # <<>>
  /\ notices' = Tail(notices)
  /\ LET n == Head(notices)
     IN  \/ n.kind = "accepted" /\ AcceptSession(n)
         \/ n.kind # "accepted" /\ ForwardEvent(n)
  /\ UNCHANGED <<clientVars, phase, cancelVars, exactVars, inputVars,
                 branchVars, endVars, writerVars, backendVars>>
-----------------------------------------------------------------------------
(* Commands: handle_running_command, reject_finalizing_command.            *)

Answer(type, id, code) == Enqueue(<<Rec(type, id, accepted, code, 0)>>)

\* The target is the active turn, by request and by session: no session
\* before acceptance, exactly the accepted one after.
TargetsThisTurn(r) == r.ours /\ r.session = accepted

\* What both command handlers refuse, in the order they test it.
CommonRefusal(r) ==
  CASE r.id \in commandIds -> "duplicate_command_id"
    [] r.id \notin commandIds /\ r.kind # "cancel" -> "unsupported_command"
    [] r.id \notin commandIds /\ r.kind = "cancel" /\ ~TargetsThisTurn(r)
         -> "correlation_mismatch"
    [] OTHER -> "none"

\* Mutant: a repeated id is dropped instead of refused.
RefuseCommandUnlessRepeated(r, code) ==
  /\ recordCount' = recordCount + 1
  /\ commandIds' = commandIds \cup {r.id}
  /\ IF code = "duplicate_command_id" THEN UNCHANGED out
     ELSE Answer("command.rejected", r.id, code)

\* The record is counted and its id is spent; it is refused.
RefuseCommand(r, code) ==
  /\ recordCount' = recordCount + 1
  /\ commandIds' = commandIds \cup {r.id}
  /\ Answer("command.rejected", r.id, code)

\* Mutant: one record too many is let through.
FatalCodeOffByOne(r) ==
  CASE r.kind = "unreadable" -> "unreadable"
    [] r.kind # "unreadable" /\ recordCount > MaxCommandRecords
         -> "too_many_commands"
    [] r.kind = "malformed" /\ recordCount <= MaxCommandRecords -> "malformed"
    [] OTHER -> NoError

\* The record ends input: unreadable, over the limit, or not a frame.
FatalCode(r) ==
  CASE r.kind = "unreadable" -> "unreadable"
    [] r.kind # "unreadable" /\ recordCount >= MaxCommandRecords
         -> "too_many_commands"
    [] r.kind = "malformed" /\ recordCount < MaxCommandRecords -> "malformed"
    [] OTHER -> NoError

\* The error always replaces an earlier one (server.rs:322, 342 and 431).
FatalInput(r) ==
  /\ fatal' = FatalCode(r)
  /\ recordCount' = IF FatalCode(r) = "malformed" THEN recordCount + 1
                                                  ELSE recordCount
  /\ UNCHANGED <<commandIds, out>>

ReadFatalInput ==
  /\ phase = "running" /\ inputOpen /\ stdin # <<>>
  /\ stdin' = Tail(stdin)
  /\ LET r == Head(stdin)
     IN  /\ FatalCode(r) # NoError
         /\ FatalInput(r)
         /\ FallbackCancel(IF r.kind = "unreadable" THEN "stdin_error"
                                                    ELSE "protocol_error")
  /\ inputOpen' = FALSE
  /\ UNCHANGED <<stdinClosed, signalled, phase, accepted, exactVars, dropPending,
                 branchVars, endVars, writerVars, notices, backendVars>>

ReadEndOfInput ==
  /\ phase = "running" /\ inputOpen /\ stdin = <<>> /\ stdinClosed
  /\ inputOpen' = FALSE
  /\ FallbackCancel("stdin_eof")
  /\ UNCHANGED <<clientVars, phase, accepted, exactVars, dropPending,
                 commandIds, recordCount, fatal, branchVars, endVars, out,
                 writerVars, notices, backendVars>>

\* Mutant: only a cancellation that is being settled counts.
CancelInProgressNarrow == pendingCancel # NoCommand

CancelInProgress == cancelRequested \/ pendingCancel # NoCommand

RefuseRunningCommand ==
  /\ phase = "running" /\ inputOpen /\ stdin # <<>>
  /\ stdin' = Tail(stdin)
  /\ LET r == Head(stdin)
     IN  /\ FatalCode(r) = NoError
         /\ \/ /\ CommonRefusal(r) # "none"
               /\ RefuseCommand(r, CommonRefusal(r))
            \/ /\ CommonRefusal(r) = "none" /\ CancelInProgress
               /\ RefuseCommand(r, "cancellation_in_progress")
  /\ UNCHANGED <<stdinClosed, signalled, phase, accepted, cancelVars, exactVars,
                 dropPending, inputOpen, fatal, branchVars, endVars, writerVars,
                 notices, backendVars>>

\* The record is a turn.cancel this server acts on.
AdmitCancel(r) ==
  /\ FatalCode(r) = NoError
  /\ CommonRefusal(r) = "none" /\ ~CancelInProgress
  /\ recordCount' = recordCount + 1
  /\ commandIds' = commandIds \cup {r.id}
  /\ cancelRequested' = TRUE

\* No session yet: the token is cancelled and the command accepted at once.
CancelBeforeSession ==
  /\ phase = "running" /\ inputOpen /\ stdin # <<>> /\ accepted = NoSession
  /\ stdin' = Tail(stdin)
  /\ AdmitCancel(Head(stdin))
  /\ cause' = IF cause = NoCause THEN Head(stdin).id ELSE cause
  /\ token' = TRUE
  /\ Answer("command.accepted", Head(stdin).id, "turn.cancel")
  /\ UNCHANGED <<stdinClosed, signalled, phase, accepted, exactVars,
                 dropPending, inputOpen, fatal, branchVars, endVars, writerVars,
                 notices, backendVars>>

\* A session is active: the exact cancellation is spawned under its timeout,
\* and the command is answered when it settles.
StartExactCancel ==
  /\ phase = "running" /\ inputOpen /\ stdin # <<>> /\ accepted # NoSession
  /\ stdin' = Tail(stdin)
  /\ AdmitCancel(Head(stdin))
  /\ pendingCancel' = Head(stdin).id /\ exactTask' = "running"
  /\ UNCHANGED <<stdinClosed, signalled, phase, accepted, cause, token,
                 dropPending, inputOpen, fatal, branchVars, endVars, out,
                 writerVars, notices, backendVars>>
-----------------------------------------------------------------------------
(* The supervised exact cancellation settles with Ok, with an error that   *)
(* is not internal, or with an internal one: timeout, panic, transport.    *)

ExactResults == {"ok", "refused", "failed"}

\* handle_cancellation_task_result and handle_cancellation_reply.
AnswerExactCancel ==
  /\ pendingCancel' = NoCommand /\ exactTask' = "none"
  /\ IF exactTask = "ok" THEN Answer("command.accepted", pendingCancel, "turn.cancel")
     ELSE Answer("command.rejected", pendingCancel,
                 IF exactTask = "refused" THEN "turn_not_cancellable"
                                          ELSE "cancellation_failed")
  /\ fatal' = IF exactTask = "failed" /\ fatal = NoError
                THEN "cancellation_failed" ELSE fatal

\* Mutant: a refused cancellation becomes the cause too.
CreditAnyExactCancel ==
  /\ cancelRequested' = TRUE
  /\ cause' = IF cause = NoCause THEN pendingCancel ELSE cause
  /\ UNCHANGED token

\* Mutant: an acknowledged cancellation is answered but leaves no cause.
CreditNobody ==
  /\ cancelRequested' = (cancelRequested \/ exactTask = "ok")
  /\ UNCHANGED <<cause, token>>

\* An acknowledged cancellation is the cause, unless there is one already.
CreditExactCancel ==
  /\ cancelRequested' = (cancelRequested \/ exactTask = "ok")
  /\ cause' = IF exactTask = "ok" /\ cause = NoCause THEN pendingCancel ELSE cause
  /\ UNCHANGED token

\* The select! branch: an internal error also takes the fallback path.
ExactCancelDone ==
  /\ phase = "running" /\ exactTask \in ExactResults
  /\ AnswerExactCancel
  /\ \/ exactTask = "failed" /\ FallbackCancel("cancellation_task_failed")
     \/ exactTask # "failed" /\ CreditExactCancel
  /\ UNCHANGED <<clientVars, phase, accepted, dropPending, commandIds,
                 recordCount, inputOpen, branchVars, endVars, writerVars,
                 notices, backendVars>>

SignalDuringTurn ==
  /\ phase = "running" /\ externalOpen /\ signalled
  /\ externalOpen' = FALSE
  /\ FallbackCancel("external_signal")
  /\ UNCHANGED <<clientVars, phase, accepted, exactVars, dropPending, inputVars,
                 writerOpen, endVars, out, writerVars, notices, backendVars>>

OutputLostDuringTurn ==
  /\ phase = "running" /\ writerOpen /\ writer = "failed"
  /\ writerOpen' = FALSE
  /\ FallbackCancel("output_closed")
  /\ UNCHANGED <<clientVars, phase, accepted, exactVars, dropPending, inputVars,
                 externalOpen, endVars, out, writerVars, notices, backendVars>>

BackendDone ==
  /\ phase = "running" /\ backend = "finished"
  /\ phase' = "draining"
  /\ UNCHANGED <<clientVars, accepted, cancelVars, exactVars, dropPending,
                 inputVars, branchVars, endVars, out, writerVars, notices,
                 backendVars>>
-----------------------------------------------------------------------------
(* After the backend: settle the exact cancellation, refuse what the       *)
(* client already wrote, emit the terminal, let the writer finish.         *)

AfterSettling == phase' = IF inputOpen THEN "finalizing" ELSE "emitting"

\* Mutant: what the backend sent last is not waited for.
SettleNothingUndrained ==
  /\ phase = "draining" /\ exactTask = "none"
  /\ AfterSettling
  /\ UNCHANGED <<clientVars, accepted, cancelVars, exactVars, dropPending,
                 inputVars, branchVars, endVars, out, writerVars, notices,
                 backendVars>>

SettleNothing ==
  /\ phase = "draining" /\ notices = <<>> /\ exactTask = "none"
  /\ AfterSettling
  /\ UNCHANGED <<clientVars, accepted, cancelVars, exactVars, dropPending,
                 inputVars, branchVars, endVars, out, writerVars, notices,
                 backendVars>>

SettleFinishedExact ==
  /\ phase = "draining" /\ notices = <<>> /\ exactTask \in ExactResults
  /\ AnswerExactCancel /\ CreditExactCancel
  /\ AfterSettling
  /\ UNCHANGED <<clientVars, accepted, dropPending, commandIds, recordCount,
                 inputOpen, branchVars, endVars, writerVars, notices,
                 backendVars>>

\* Still running: the task is aborted and its command refused.
AbortExactCancel ==
  /\ phase = "draining" /\ notices = <<>> /\ exactTask = "running"
  /\ pendingCancel' = NoCommand /\ exactTask' = "none"
  /\ Answer("command.rejected", pendingCancel, "turn_not_cancellable")
  /\ AfterSettling
  /\ UNCHANGED <<clientVars, accepted, cancelVars, dropPending, inputVars,
                 branchVars, endVars, writerVars, notices, backendVars>>

RefuseFinalizingCommand ==
  /\ phase = "finalizing" /\ stdin # <<>>
  /\ stdin' = Tail(stdin)
  /\ LET r == Head(stdin)
     IN  \/ /\ FatalCode(r) # NoError
            /\ FatalInput(r)
            /\ phase' = "emitting"
         \/ /\ FatalCode(r) = NoError
            /\ RefuseCommand(r, IF CommonRefusal(r) = "none"
                                  THEN "turn_not_cancellable"
                                  ELSE CommonRefusal(r))
            /\ UNCHANGED <<fatal, phase>>
  /\ UNCHANGED <<stdinClosed, signalled, accepted, cancelVars, exactVars,
                 dropPending, inputOpen, branchVars, endVars, writerVars,
                 notices, backendVars>>

\* End of input, or FINALIZING_COMMAND_DRAIN_MS.  Records the client wrote may
\* still be in the pipe: stdin is read by a blocking thread of its own.
FinishDraining ==
  /\ phase = "finalizing"
  /\ phase' = "emitting"
  /\ UNCHANGED <<clientVars, accepted, cancelVars, exactVars, dropPending,
                 inputVars, branchVars, endVars, out, writerVars, notices,
                 backendVars>>

\* emit_terminal's choice: a record type, its datum and an exit code.
Terminal(type, info, status) ==
  [record |-> Rec(type, NoCommand, accepted, info, 0), status |-> status]

Failure(info, status) ==
  Terminal(IF accepted = NoSession THEN "process.failed" ELSE "turn.failed",
           info, status)

CancelledTerminal(reason) ==
  IF accepted = NoSession THEN Failure("cancelled_before_acceptance", 130)
                          ELSE Terminal("turn.cancelled", reason, 130)

\* A completion needs its session to be the accepted one and must fit.
CompletedTerminal ==
  IF accepted = NoSession THEN Failure("completion_before_acceptance", 5)
  ELSE IF accepted # outcome.session THEN Failure("session_identity_mismatch", 5)
  ELSE IF outcome.fits THEN Terminal("turn.completed", "completed", 0)
                       ELSE Failure("result_too_large", 5)

\* A cleanup failure with nothing to recover does not hide the cancellation
\* that led to it.
FailedTerminal ==
  IF cause # NoCause /\ outcome.category = "cleanup" /\ ~outcome.completed
    THEN CancelledTerminal(cause)
  ELSE IF outcome.fits
    THEN Failure("backend_error", ExitForCategory(outcome.category))
    ELSE Failure("result_too_large", 5)

\* Mutant: a backend that completed outranks a fatal error.
ChosenTerminalOutcomeFirst ==
  IF outcome.kind = "completed" THEN CompletedTerminal
  ELSE IF fatal # NoError THEN Failure(fatal, ExitForFatal)
  ELSE IF outcome.kind = "failed" THEN FailedTerminal
  ELSE CancelledTerminal(IF cause = NoCause THEN "backend_cancelled" ELSE cause)

ChosenTerminal ==
  IF fatal # NoError THEN Failure(fatal, ExitForFatal)
  ELSE CASE outcome.kind = "completed" -> CompletedTerminal
         [] outcome.kind = "cancelled" ->
              CancelledTerminal(IF cause = NoCause THEN "backend_cancelled" ELSE cause)
         [] outcome.kind = "failed" -> FailedTerminal

\* flush_final_event_backpressure_marker, then emit_terminal.  A writer that
\* is already gone turns any exit code into 5.
EmitTerminal ==
  /\ phase = "emitting"
  /\ LET owed == dropPending /\ accepted # NoSession
     IN  /\ Enqueue((IF owed THEN <<Marker>> ELSE <<>>) \o <<ChosenTerminal.record>>)
         /\ dropPending' = (dropPending /\ ~(owed /\ writer = "running"))
  /\ verdict' = IF writer = "running" THEN ChosenTerminal.status ELSE 5
  /\ phase' = "joining"
  /\ UNCHANGED <<clientVars, accepted, cancelVars, exactVars, inputVars,
                 branchVars, exit, writerVars, notices, backendVars>>

\* Mutant: the process does not wait for its writer.
WriterIsIgnored == TRUE

WriterIsDone == writer = "failed" \/ flushed = Len(out)

\* finish_writer after a turn: a failed writer makes the exit code 5.
Exit ==
  /\ phase = "joining" /\ WriterIsDone
  /\ phase' = "exited"
  /\ exit' = IF writer = "failed" THEN 5 ELSE verdict
  /\ UNCHANGED <<clientVars, accepted, cancelVars, exactVars, dropPending,
                 inputVars, branchVars, verdict, out, writerVars, notices,
                 backendVars>>

\* finish_writer without a turn: its result is ignored.
ExitBeforeStart ==
  /\ phase = "leaving" /\ WriterIsDone
  /\ phase' = "exited" /\ exit' = verdict
  /\ UNCHANGED <<clientVars, accepted, cancelVars, exactVars, dropPending,
                 inputVars, branchVars, verdict, out, writerVars, notices,
                 backendVars>>
-----------------------------------------------------------------------------
(* What runs beside the server task.                                       *)

Alive == phase # "exited"

\* writer_loop: one record is encoded, written and flushed.
WriterFlush ==
  /\ Alive /\ writer = "running" /\ flushed < Len(out)
  /\ flushed' = flushed + 1
  /\ UNCHANGED <<clientVars, phase, accepted, cancelVars, exactVars, dropPending,
                 inputVars, branchVars, endVars, out, writer, notices,
                 backendVars>>

\* write_all or flush fails: the writer ends and what is queued is lost.
WriterFail ==
  /\ Alive /\ writer = "running" /\ flushed < Len(out)
  /\ writer' = "failed"
  /\ UNCHANGED <<clientVars, phase, accepted, cancelVars, exactVars, dropPending,
                 inputVars, branchVars, endVars, out, flushed, notices,
                 backendVars>>

\* The supervised task: AcceptedTurnCancellation::cancel, or its timeout.
ExactSettles ==
  /\ Alive /\ exactTask = "running"
  /\ exactTask' \in ExactResults
  /\ UNCHANGED <<clientVars, phase, accepted, cancelVars, pendingCancel,
                 dropPending, inputVars, branchVars, endVars, out, writerVars,
                 notices, backendVars>>

\* Records the server has stopped reading are left out.
StillReading ==
  inputOpen /\ phase \in {"await_start", "running", "draining", "finalizing"}

ClientSend ==
  /\ StillReading /\ ~stdinClosed
  /\ Len(stdin) < MaxUnread /\ Len(stdin) + recordCount < MaxClientRecords
  /\ \E r \in Writable : stdin' = Append(stdin, r)
  /\ UNCHANGED <<stdinClosed, signalled, phase, accepted, cancelVars, exactVars,
                 dropPending, inputVars, branchVars, endVars, out, writerVars,
                 notices, backendVars>>

ClientClose ==
  /\ Alive /\ ~stdinClosed
  /\ stdinClosed' = TRUE
  /\ UNCHANGED <<stdin, signalled, phase, accepted, cancelVars, exactVars,
                 dropPending, inputVars, branchVars, endVars, out, writerVars,
                 notices, backendVars>>

Signal ==
  /\ Alive /\ ~signalled
  /\ signalled' = TRUE
  /\ UNCHANGED <<stdin, stdinClosed, phase, accepted, cancelVars, exactVars,
                 dropPending, inputVars, branchVars, endVars, out, writerVars,
                 notices, backendVars>>

BackendAccepts ==
  /\ backend = "running" /\ Alive /\ Len(notices) < NoticeCapacity
  /\ \E s \in SessionIds :
       notices' = Append(notices, [kind |-> "accepted", session |-> s, n |-> 0])
  /\ UNCHANGED <<clientVars, phase, accepted, cancelVars, exactVars, dropPending,
                 inputVars, branchVars, endVars, out, writerVars, backendVars>>

BackendReports ==
  /\ backend = "running" /\ Alive /\ Len(notices) < NoticeCapacity
  /\ produced < MaxEvents
  /\ produced' = produced + 1
  /\ notices' = Append(notices, [kind |-> "event", session |-> NoSession,
                                 n |-> produced + 1])
  /\ UNCHANGED <<clientVars, phase, accepted, cancelVars, exactVars, dropPending,
                 inputVars, branchVars, endVars, out, writerVars, backend,
                 outcome>>

\* The task returns, or panics (then the outcome is an internal failure).
BackendFinishes ==
  /\ backend = "running" /\ Alive
  /\ backend' = "finished"
  /\ outcome' \in PossibleOutcomes
  /\ UNCHANGED <<clientVars, phase, accepted, cancelVars, exactVars, dropPending,
                 inputVars, branchVars, endVars, out, writerVars, notices,
                 produced>>
-----------------------------------------------------------------------------
BeforeStart ==
  \/ StartTurn \/ RefuseFirstRecord \/ EndOfInputBeforeStart
  \/ SignalBeforeStart \/ OutputLostBeforeStart \/ ExitBeforeStart

DuringTurn ==
  \/ HandleNotice
  \/ ReadFatalInput \/ ReadEndOfInput \/ RefuseRunningCommand
  \/ CancelBeforeSession \/ StartExactCancel \/ ExactCancelDone
  \/ SignalDuringTurn \/ OutputLostDuringTurn \/ BackendDone

AfterTurn ==
  \/ SettleNothing \/ SettleFinishedExact \/ AbortExactCancel
  \/ RefuseFinalizingCommand \/ FinishDraining \/ EmitTerminal \/ Exit

ServerStep == BeforeStart \/ DuringTurn \/ AfterTurn

WriterStep == WriterFlush \/ WriterFail
ClientStep == ClientSend \/ ClientClose \/ Signal

\* What an AgentBackend decides: this module's is the most general one.
BackendStep ==
  ExactSettles \/ BackendAccepts \/ BackendReports \/ BackendFinishes

Done == phase = "exited" /\ UNCHANGED vars

Next == ServerStep \/ WriterStep \/ ClientStep \/ BackendStep \/ Done

Spec == Init /\ [][Next]_vars
-----------------------------------------------------------------------------
(* Properties.                                                             *)

Phases == {"await_start", "running", "draining", "finalizing", "emitting",
           "joining", "leaving", "exited"}
FatalCodes == {"malformed", "unreadable", "too_many_commands",
               "cancellation_failed"}
Causes == CommandIds \cup FallbackCauses
RecordCodes == Causes \cup FatalCodes \cup
  {"none", "upstream", "bridge_event_backpressure", "turn.cancel",
   "invalid_first_record", "stdin_closed_before_start",
   "terminated_before_start", "duplicate_command_id", "unsupported_command",
   "correlation_mismatch", "cancellation_in_progress", "turn_not_cancellable",
   "completed", "backend_cancelled", "backend_error",
   "cancelled_before_acceptance", "completion_before_acceptance",
   "session_identity_mismatch", "result_too_large"}
Records ==
  [type : {"hello", "turn.accepted"} \cup EventTypes \cup AnswerTypes
            \cup Terminals,
   cmd : CommandIds \cup {NoCommand}, session : SessionIds \cup {NoSession},
   info : RecordCodes, n : Nat]
ExitCodes == {0, 2, 3, 4, 5, 130}

FlagsType ==
  /\ stdinClosed \in BOOLEAN /\ signalled \in BOOLEAN
  /\ cancelRequested \in BOOLEAN /\ token \in BOOLEAN
  /\ dropPending \in BOOLEAN
  /\ inputOpen \in BOOLEAN /\ externalOpen \in BOOLEAN /\ writerOpen \in BOOLEAN
TurnType ==
  /\ phase \in Phases
  /\ accepted \in SessionIds \cup {NoSession}
  /\ cause \in Causes \cup {NoCause}
  /\ pendingCancel \in CommandIds \cup {NoCommand}
  /\ exactTask \in {"none", "running"} \cup ExactResults
InputType ==
  /\ stdin \in Seq(ClientRecords)
  /\ fatal \in FatalCodes \cup {NoError}
  /\ commandIds \subseteq CommandIds
  /\ recordCount \in 0 .. MaxCommandRecords
OutputType ==
  /\ out \in Seq(Records) /\ flushed \in 0 .. Len(out)
  /\ writer \in {"running", "failed"}
  /\ verdict \in ExitCodes \cup {NoExit} /\ exit \in ExitCodes \cup {NoExit}
BackendType ==
  /\ notices \in Seq(Notices) /\ Len(notices) <= NoticeCapacity
  /\ produced \in 0 .. MaxEvents
  /\ backend \in {"absent", "running", "finished"}
  /\ outcome \in Outcomes \cup {NoOutcome}

\* Every variable of the client, the server, the queue and the backend keeps
\* its type; the bounded ones keep their bounds.
TypeOK == FlagsType /\ TurnType /\ InputType /\ OutputType /\ BackendType

AnswersSent == {i \in 1 .. Len(out) : out[i].type \in AnswerTypes}

\* Every command record the server counted after turn.start is answered by one
\* command.accepted or command.rejected, is the one exact cancellation still
\* being settled, or is the malformed record that ended input (spec 5.6, 6.2):
\* none is answered twice, and at the terminal none is left without an answer.
EveryCommandAnswered ==
  writer = "running" /\ recordCount > 0 =>
    Cardinality(AnswersSent) + (IF pendingCancel # NoCommand THEN 1 ELSE 0)
                             + (IF fatal = "malformed" THEN 1 ELSE 0)
      = recordCount - 1

\* A command id gets one verdict of its own; repeats of it are refused as such,
\* before or after that verdict.  And only one cancellation of a turn is ever
\* accepted, whatever raced to cancel it.
OneVerdictPerCommand ==
  \A i, j \in AnswersSent : i < j =>
    /\ out[i].cmd = out[j].cmd =>
         "duplicate_command_id" \in {out[i].info, out[j].info}
    /\ ~(out[i].type = "command.accepted" /\ out[j].type = "command.accepted")

\* turn.cancelled names a client's reason only after the client's command was
\* accepted (spec 5.6: acknowledged before turn.cancelled).
CancelReasonAcknowledged ==
  \A i \in 1 .. Len(out) :
    out[i].type = "turn.cancelled" /\ out[i].info \in CommandIds =>
      \E j \in 1 .. (i - 1) : /\ out[j].type = "command.accepted"
                              /\ out[j].cmd = out[i].info

\* No two event records that follow each other in the output skip an event of
\* the accepted turn unless one of them is a truncation marker, and the last one
\* before the terminal is a marker or the last event of the turn (spec 7.2).
EventRecords ==
  {i \in 1 .. Len(out) : out[i].type \in EventTypes}
NoSilentGap ==
  /\ \A i, j \in EventRecords :
       /\ i < j /\ out[i].n > 0 /\ out[j].n > 0
       /\ \A k \in (i + 1) .. (j - 1) : k \notin EventRecords
       => out[j].n = out[i].n + 1
  /\ \A i \in 1 .. Len(out), j \in EventRecords :
       /\ out[i].type \in Terminals
       /\ \A k \in (j + 1) .. i : k \notin EventRecords
       => out[j].n \in {0, produced}

\* The exit status tells the truth about what the client could read: 0 only
\* with turn.completed written last, 130 after a turn only with a cancellation
\* terminal written last, and a lost record always gives 5.
LastWritten(types) == flushed > 0 /\ out[flushed].type \in types
ExitAgreesWithOutput ==
  exit # NoExit /\ recordCount > 0 =>
    /\ exit # 5 => flushed = Len(out) /\ LastWritten(Terminals)
    /\ exit = 0 <=> LastWritten({"turn.completed"})
    /\ exit = 130 <=>
         \/ LastWritten({"turn.cancelled"})
         \/ /\ LastWritten({"process.failed"})
            /\ out[flushed].info = "cancelled_before_acceptance"

\* After a fatal input error or a failed exact cancellation no terminal claims
\* success or a cancellation, whatever the backend returns meanwhile.
FatalErrorDecides ==
  \A i \in 1 .. Len(out) :
    out[i].type \in Terminals /\ fatal # NoError =>
      out[i].type \in {"turn.failed", "process.failed"} /\ out[i].info = fatal

\* spec 6.2, of an exact cancellation that times out or panics: it "activates
\* fallback cancellation, and settles an accepted turn as turn.failed/internal".
CancellationFailureDecides ==
  \A i \in 1 .. Len(out) :
    cause = "cancellation_task_failed" /\ out[i].type \in Terminals =>
      out[i].type = "turn.failed" /\ out[i].info = "cancellation_failed"

-----------------------------------------------------------------------------
(* What the client sees of this server is a TurnProtocol.                  *)

View(r) == [type |-> r.type, cmd |-> r.cmd, session |-> r.session]
Views(records) == [i \in 1 .. Len(records) |-> View(records[i])]

Stage ==
  IF phase = "exited" THEN "left"
  ELSE IF writer = "failed" THEN "cut"
  ELSE IF phase \in {"joining", "leaving"} THEN "closed"
  ELSE IF accepted = NoSession THEN "offered" ELSE "accepted"

Client == INSTANCE TurnProtocol WITH
            transcript <- Views(out), stage <- Stage,
            session <- IF writer = "failed" THEN NoSession ELSE accepted,
            status <- exit

\* The output of every behaviour of the server - hello first, one acceptance,
\* events and turn.* terminals only after it, process.failed only without it,
\* one terminal that is last, an exit status that fits it - is one the protocol
\* allows, under every interleaving of client, backend, writer and signals.
RefinesTurnProtocol == Client!ProtocolSpec
=============================================================================
