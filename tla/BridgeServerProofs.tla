------------------------ MODULE BridgeServerProofs -------------------------
(* Theorems about BridgeServer, for every value of its constants.          *)
EXTENDS BridgeServer, TLAPS
-----------------------------------------------------------------------------
(* What the operators of the module return.                                *)

\* A record that does not end input is a frame, and the server may count it.
LEMMA FramedRecord ==
  ASSUME NEW r \in ClientRecords, recordCount \in Nat, FatalCode(r) = NoError
  PROVE  /\ r.kind \notin {"malformed", "unreadable"}
         /\ recordCount < MaxCommandRecords
         /\ r.id \in CommandIds
<1>1. r.kind # "unreadable"
  BY NamesAssumption DEF FatalCode
<1>2. recordCount < MaxCommandRecords
  BY <1>1, NamesAssumption, BoundsAssumption DEF FatalCode
<1>3. r.kind # "malformed"
  BY <1>1, <1>2, NamesAssumption, BoundsAssumption DEF FatalCode
<1> QED BY <1>1, <1>2, <1>3 DEF ClientRecords

\* The code of a record that ends input; only a malformed one is counted.
LEMMA FatalRecord ==
  ASSUME NEW r \in ClientRecords, recordCount \in Nat, FatalCode(r) # NoError
  PROVE  /\ FatalCode(r) \in FatalCodes
         /\ FatalCode(r) = "malformed" => recordCount < MaxCommandRecords
BY BoundsAssumption DEF FatalCode, FatalCodes

\* A command is refused with a code, or passes.
LEMMA RefusalCode ==
  ASSUME NEW r
  PROVE  CommonRefusal(r) \in {"duplicate_command_id", "unsupported_command",
                               "correlation_mismatch", "none"}
BY DEF CommonRefusal

\* A queue of records stays one, and never shrinks.
LEMMA EnqueueType ==
  ASSUME out \in Seq(Records), NEW rs \in Seq(Records), Enqueue(rs),
         flushed \in 0 .. Len(out)
  PROVE  out' \in Seq(Records) /\ flushed \in 0 .. Len(out')
<1>1. CASE writer = "running"
  <2>1. out' = out \o rs BY <1>1 DEF Enqueue
  <2>2. out \o rs \in Seq(Records) /\ Len(out \o rs) = Len(out) + Len(rs)
    OBVIOUS
  <2> QED BY <2>1, <2>2
<1>2. CASE writer # "running" BY <1>2 DEF Enqueue
<1> QED BY <1>1, <1>2
-----------------------------------------------------------------------------
(* The inductive invariant: the types, and what the phase says about the   *)
(* backend, the exact cancellation and the chosen terminal.                *)

AfterBackend == {"draining", "finalizing", "emitting", "joining"}
Settled == {"await_start", "finalizing", "emitting", "joining", "leaving"}

\* A backend that finished left an outcome; the turn ends only after that.
OutcomeKnown ==
  /\ backend = "finished" => outcome \in Outcomes
  /\ phase \in AfterBackend => backend = "finished"

\* A command is pending exactly while its task exists, and only during a turn.
ExactTracked ==
  /\ pendingCancel = NoCommand <=> exactTask = "none"
  /\ phase \in Settled => exactTask = "none"

IInv == TypeOK /\ OutcomeKnown /\ ExactTracked

\* Whatever happened, emit_terminal chooses a terminal record of the stage the
\* turn reached, and an exit code that goes with it.
Fits(t, disclosed) ==
  /\ t.record \in Records
  /\ t.record.cmd = NoCommand /\ t.record.session = disclosed
  /\ t.status \in ExitCodes
  /\ \/ /\ disclosed = NoSession /\ t.record.type = "process.failed"
        /\ t.status # 0
     \/ /\ disclosed # NoSession /\ t.record.type = "turn.failed"
        /\ t.status \notin {0, 130}
     \/ /\ disclosed # NoSession /\ t.record.type = "turn.cancelled"
        /\ t.status = 130
     \/ /\ disclosed # NoSession /\ t.record.type = "turn.completed"
        /\ t.status = 0

LEMMA FailureFits ==
  ASSUME TypeOK, NEW info \in RecordCodes, NEW status \in ExitCodes \ {0},
         accepted # NoSession => status # 130
  PROVE  Fits(Failure(info, status), accepted)
BY DEF Fits, Failure, Terminal, Rec, Records, TypeOK, TurnType, InputType, ExitCodes, Terminals,
       TurnTerminals

LEMMA CancelledFits ==
  ASSUME TypeOK, NEW reason \in RecordCodes
  PROVE  Fits(CancelledTerminal(reason), accepted)
<1>1. CASE accepted = NoSession
  <2>1. "cancelled_before_acceptance" \in RecordCodes BY DEF RecordCodes
  <2>2. 130 \in ExitCodes \ {0} BY DEF ExitCodes
  <2> QED BY <1>1, <2>1, <2>2, FailureFits DEF CancelledTerminal
<1>2. CASE accepted # NoSession
  BY <1>2 DEF CancelledTerminal, Fits, Terminal, Rec, Records, TypeOK, TurnType, InputType,
              ExitCodes, Terminals, TurnTerminals
<1> QED BY <1>1, <1>2

LEMMA CompletedFits ==
  ASSUME TypeOK, outcome \in Outcomes, outcome.kind = "completed"
  PROVE  Fits(CompletedTerminal, accepted)
<1>0. /\ {"completion_before_acceptance", "session_identity_mismatch",
          "result_too_large", "completed"} \subseteq RecordCodes
      /\ 5 \in ExitCodes \ {0}
  BY DEF RecordCodes, ExitCodes
<1>1. CASE accepted = NoSession \/ accepted # outcome.session \/ ~outcome.fits
  BY <1>0, <1>1, FailureFits DEF CompletedTerminal
<1>2. CASE accepted # NoSession /\ accepted = outcome.session /\ outcome.fits
  <2>1. CompletedTerminal = Terminal("turn.completed", "completed", 0)
    BY <1>2 DEF CompletedTerminal
  <2> QED BY <1>0, <1>2, <2>1 DEF Fits, Terminal, Rec, Records, TypeOK, TurnType, InputType, ExitCodes,
                              Terminals, TurnTerminals
<1> QED BY <1>1, <1>2

LEMMA FailedFits ==
  ASSUME TypeOK, outcome \in Outcomes, outcome.kind = "failed"
  PROVE  Fits(FailedTerminal, accepted)
<1>0. /\ {"backend_error", "result_too_large"} \subseteq RecordCodes
      /\ Causes \subseteq RecordCodes
      /\ 5 \in ExitCodes \ {0}
  BY DEF RecordCodes, ExitCodes
<1>1. CASE cause # NoCause /\ outcome.category = "cleanup" /\ ~outcome.completed
  BY <1>0, <1>1, CancelledFits DEF FailedTerminal, TypeOK, TurnType, InputType
<1>2. CASE ~(cause # NoCause /\ outcome.category = "cleanup" /\ ~outcome.completed)
  <2>1. outcome.category \in AllCategories BY DEF Outcomes
  <2>2. ExitForCategory(outcome.category) \in {2, 3, 4, 5}
    BY <2>1 DEF ExitForCategory, AllCategories
  <2> QED BY <1>0, <1>2, <2>2, FailureFits DEF FailedTerminal, ExitCodes
<1> QED BY <1>1, <1>2

LEMMA ChosenTerminalFits ==
  ASSUME TypeOK, outcome \in Outcomes
  PROVE  Fits(ChosenTerminal, accepted)
<1>1. CASE fatal # NoError
  <2>1. fatal \in RecordCodes BY <1>1 DEF TypeOK, TurnType, InputType, RecordCodes
  <2>2. ExitForFatal \in ExitCodes \ {0, 130} BY DEF ExitForFatal, ExitCodes
  <2> QED BY <1>1, <2>1, <2>2, FailureFits DEF ChosenTerminal
<1>2. CASE fatal = NoError /\ outcome.kind = "completed"
  BY <1>2, CompletedFits DEF ChosenTerminal
<1>3. CASE fatal = NoError /\ outcome.kind = "cancelled"
  <2>1. (IF cause = NoCause THEN "backend_cancelled" ELSE cause) \in RecordCodes
    BY DEF TypeOK, TurnType, InputType, RecordCodes
  <2> QED BY <1>3, <2>1, CancelledFits DEF ChosenTerminal
<1>4. CASE fatal = NoError /\ outcome.kind = "failed"
  BY <1>4, FailedFits DEF ChosenTerminal
<1>5. outcome.kind \in {"completed", "cancelled", "failed"} BY DEF Outcomes
<1> QED BY <1>1, <1>2, <1>3, <1>4, <1>5

LEMMA InitInvariant == Init => IInv
<1> SUFFICES ASSUME Init PROVE IInv OBVIOUS
<1>1. Rec("hello", NoCommand, NoSession, "none", 0) \in Records
  BY DEF Rec, Records, RecordCodes
<1>2. out \in Seq(Records) /\ Len(out) = 1 BY <1>1 DEF Init
<1>3. FlagsType BY DEF Init, FlagsType
<1>8. TurnType BY DEF Init, TurnType, Phases
<1>7. InputType BY BoundsAssumption DEF Init, InputType
<1>5. OutputType BY <1>2 DEF Init, OutputType
<1>6. BackendType BY BoundsAssumption DEF Init, BackendType
<1>4. OutcomeKnown /\ ExactTracked
  BY NamesAssumption DEF Init, OutcomeKnown, ExactTracked, AfterBackend, Settled
<1> QED BY <1>3, <1>4, <1>5, <1>6, <1>7, <1>8 DEF IInv, TypeOK

\* The steps of the server before a turn keep the invariant.
LEMMA BeforeStartInvariant ==
  ASSUME IInv, BeforeStart
  PROVE  IInv'
<1> USE DEF IInv, TypeOK, FlagsType, TurnType, InputType, OutputType,
            BackendType, OutcomeKnown, ExactTracked, AfterBackend, Settled,
            Phases, ExitCodes, vars, clientVars, cancelVars, exactVars, inputVars,
            branchVars, endVars, writerVars, backendVars
<1>0. ASSUME NEW code \in RecordCodes, NEW status \in ExitCodes,
             FailBeforeStart(code, status), phase = "await_start",
             stdin' \in Seq(ClientRecords)
      PROVE  IInv'
  <2>1. Rec("process.failed", NoCommand, NoSession, code, 0) \in Records
    BY DEF Rec, Records, Terminals
  <2>2. <<Rec("process.failed", NoCommand, NoSession, code, 0)>> \in Seq(Records)
    BY <2>1
  <2>3. out' \in Seq(Records) /\ flushed \in 0 .. Len(out')
    BY <1>0, <2>2, EnqueueType DEF FailBeforeStart
  <2> QED BY <1>0, <2>3 DEF FailBeforeStart
<1>9. /\ {"invalid_first_record", "stdin_closed_before_start",
          "terminated_before_start"} \subseteq RecordCodes
      /\ {2, 130} \subseteq ExitCodes
  BY DEF RecordCodes
<1>1. CASE StartTurn
  <2>1. Head(stdin) \in ClientRecords /\ Tail(stdin) \in Seq(ClientRecords)
    BY <1>1 DEF StartTurn
  <2>2. Head(stdin).id \in CommandIds BY <1>1, <2>1 DEF StartTurn, ClientRecords
  <2> QED BY <1>1, <2>1, <2>2, BoundsAssumption DEF StartTurn
<1>2. CASE RefuseFirstRecord
  <2>1. Tail(stdin) \in Seq(ClientRecords) BY <1>2 DEF RefuseFirstRecord
  <2> QED BY <1>0, <1>2, <1>9, <2>1 DEF RefuseFirstRecord
<1>3. CASE EndOfInputBeforeStart BY <1>0, <1>3, <1>9 DEF EndOfInputBeforeStart
<1>4. CASE SignalBeforeStart BY <1>0, <1>4, <1>9 DEF SignalBeforeStart
<1>5. CASE OutputLostBeforeStart BY <1>5 DEF OutputLostBeforeStart
<1>6. CASE ExitBeforeStart BY <1>6 DEF ExitBeforeStart
<1> QED BY <1>1, <1>2, <1>3, <1>4, <1>5, <1>6 DEF BeforeStart

\* Answering a command puts one record on the queue.
LEMMA AnswerType ==
  ASSUME IInv, NEW type \in AnswerTypes, NEW id \in CommandIds \cup {NoCommand},
         NEW code \in RecordCodes, Answer(type, id, code)
  PROVE  out' \in Seq(Records) /\ flushed \in 0 .. Len(out')
<1>1. Rec(type, id, accepted, code, 0) \in Records
  BY DEF Rec, Records, IInv, TypeOK, TurnType
<1>2. <<Rec(type, id, accepted, code, 0)>> \in Seq(Records) BY <1>1
<1> QED BY <1>2, EnqueueType DEF Answer, IInv, TypeOK, OutputType

\* So does a refusal; it counts a record that was framed.
LEMMA RefusalType ==
  ASSUME IInv, NEW r \in ClientRecords, FatalCode(r) = NoError,
         NEW code \in RecordCodes, RefuseCommand(r, code)
  PROVE  /\ out' \in Seq(Records) /\ flushed \in 0 .. Len(out')
         /\ recordCount' \in 0 .. MaxCommandRecords
         /\ commandIds' \subseteq CommandIds
<1>1. r.id \in CommandIds /\ recordCount < MaxCommandRecords
  BY FramedRecord DEF IInv, TypeOK, InputType
<1>2. out' \in Seq(Records) /\ flushed \in 0 .. Len(out')
  BY <1>1, AnswerType DEF RefuseCommand, AnswerTypes
<1> QED BY <1>1, <1>2, BoundsAssumption DEF RefuseCommand, IInv, TypeOK, InputType

\* The refusals of the commands are codes of records.
LEMMA RefusalsAreCodes ==
  /\ {"duplicate_command_id", "unsupported_command", "correlation_mismatch", "none",
      "cancellation_in_progress", "turn_not_cancellable", "turn.cancel"}
        \subseteq RecordCodes
  /\ FatalCodes \subseteq RecordCodes
  /\ \A r : CommonRefusal(r) \in RecordCodes
<1>1. {"duplicate_command_id", "unsupported_command", "correlation_mismatch", "none",
       "cancellation_in_progress", "turn_not_cancellable", "turn.cancel"}
        \subseteq RecordCodes
  BY DEF RecordCodes
<1> QED BY <1>1, RefusalCode DEF RecordCodes

\* Handling a notice keeps the invariant.
LEMMA NoticeInvariant ==
  ASSUME IInv, HandleNotice
  PROVE  IInv'
<1> USE DEF IInv, TypeOK, FlagsType, TurnType, InputType, OutputType,
            BackendType, OutcomeKnown, ExactTracked, AfterBackend, Settled,
            Phases, ExitCodes, vars, clientVars, cancelVars, exactVars, inputVars,
            branchVars, endVars, writerVars, backendVars
<1>1. Head(notices) \in Notices /\ notices' \in Seq(Notices)
      /\ Len(notices') <= NoticeCapacity
  <2>1. notices # <<>> /\ notices' = Tail(notices) BY DEF HandleNotice
  <2>2. notices \in Seq(Notices) /\ Len(notices) <= NoticeCapacity OBVIOUS
  <2>3. Head(notices) \in Notices /\ Tail(notices) \in Seq(Notices)
        /\ Len(Tail(notices)) = Len(notices) - 1
    BY <2>1, <2>2
  <2> QED BY <2>1, <2>2, <2>3, BoundsAssumption
<1>2. CASE /\ Head(notices).kind = "accepted"
           /\ AcceptSession(Head(notices))
  <2>1. Head(notices).session \in SessionIds BY <1>1, <1>2 DEF Notices
  <2>2. Rec("turn.accepted", NoCommand, Head(notices).session, "none", 0) \in Records
    BY <2>1 DEF Rec, Records, RecordCodes
  <2>4. <<Rec("turn.accepted", NoCommand, Head(notices).session, "none", 0)>>
          \in Seq(Records)
    BY <2>2
  <2>3. out' \in Seq(Records) /\ flushed \in 0 .. Len(out')
    BY <1>2, <2>4, EnqueueType DEF AcceptSession
  <2> QED BY <1>1, <1>2, <2>1, <2>3 DEF HandleNotice, AcceptSession
<1>3. CASE /\ Head(notices).kind # "accepted"
           /\ ForwardEvent(Head(notices))
  <2> DEFINE event == Rec("agent.event", NoCommand, accepted, "upstream",
                          Head(notices).n)
  <2>1. Head(notices).n \in Nat BY <1>1, <1>3 DEF Notices
  <2>2. event \in Records /\ Marker \in Records
    BY <2>1 DEF Marker, Rec, Records, EventTypes, RecordCodes
  <2>3. /\ <<event>> \in Seq(Records) /\ <<Marker>> \in Seq(Records)
        /\ <<Marker, event>> \in Seq(Records)
    BY <2>2
  <2>4. /\ out' \in Seq(Records) /\ flushed \in 0 .. Len(out')
        /\ accepted' = accepted
    BY <1>3, <2>3, EnqueueType DEF ForwardEvent
  <2>5. dropPending' \in BOOLEAN BY <1>3 DEF ForwardEvent
  <2> QED BY <1>1, <1>3, <2>4, <2>5 DEF HandleNotice
<1> QED BY <1>2, <1>3 DEF HandleNotice

\* The other steps of the server during a turn keep the invariant.
LEMMA DuringTurnInvariant ==
  ASSUME IInv, DuringTurn
  PROVE  IInv'
<1> USE DEF IInv, TypeOK, FlagsType, TurnType, InputType, OutputType,
            BackendType, OutcomeKnown, ExactTracked, AfterBackend, Settled,
            Phases, ExitCodes, vars, clientVars, cancelVars, exactVars, inputVars,
            branchVars, endVars, writerVars, backendVars
<1>0. stdin # <<>> => Head(stdin) \in ClientRecords /\ Tail(stdin) \in Seq(ClientRecords)
  OBVIOUS
<1>1. ASSUME NEW c \in FallbackCauses, FallbackCancel(c)
      PROVE  /\ cancelRequested' \in BOOLEAN /\ token' \in BOOLEAN
             /\ cause' \in Causes \cup {NoCause}
  BY <1>1 DEF FallbackCancel, Causes
<1>2. CASE HandleNotice BY <1>2, NoticeInvariant
<1>3. CASE ReadFatalInput
  <2>1. /\ cancelRequested' \in BOOLEAN /\ token' \in BOOLEAN
        /\ cause' \in Causes \cup {NoCause}
    BY <1>1, <1>3 DEF ReadFatalInput, FallbackCauses
  <2>2. fatal' \in FatalCodes /\ recordCount' \in 0 .. MaxCommandRecords
    <3>1. /\ Head(stdin) \in ClientRecords
          /\ FatalCode(Head(stdin)) # NoError /\ FatalInput(Head(stdin))
      BY <1>0, <1>3 DEF ReadFatalInput
    <3>2. recordCount \in Nat /\ recordCount <= MaxCommandRecords
      BY BoundsAssumption
    <3>3. /\ FatalCode(Head(stdin)) \in FatalCodes
          /\ FatalCode(Head(stdin)) = "malformed" => recordCount < MaxCommandRecords
      BY <3>1, <3>2, FatalRecord
    <3> QED BY <3>1, <3>2, <3>3, BoundsAssumption DEF FatalInput
  <2>3. inputOpen' \in BOOLEAN BY <1>3 DEF ReadFatalInput
  <2> QED BY <1>0, <1>3, <2>1, <2>2, <2>3 DEF ReadFatalInput, FatalInput
<1>4. CASE ReadEndOfInput
  <2>1. /\ cancelRequested' \in BOOLEAN /\ token' \in BOOLEAN
        /\ cause' \in Causes \cup {NoCause}
    BY <1>1, <1>4 DEF ReadEndOfInput, FallbackCauses
  <2>2. inputOpen' \in BOOLEAN BY <1>4 DEF ReadEndOfInput
  <2> QED BY <1>4, <2>1, <2>2 DEF ReadEndOfInput
<1>5. CASE RefuseRunningCommand
  <2>1. PICK code \in RecordCodes : RefuseCommand(Head(stdin), code)
    BY <1>5, RefusalsAreCodes DEF RefuseRunningCommand
  <2>2. /\ out' \in Seq(Records) /\ flushed \in 0 .. Len(out')
        /\ recordCount' \in 0 .. MaxCommandRecords
        /\ commandIds' \subseteq CommandIds
    BY <1>0, <1>5, <2>1, RefusalType DEF RefuseRunningCommand
  <2> QED BY <1>0, <1>5, <2>2 DEF RefuseRunningCommand
<1>6. ASSUME NEW r \in ClientRecords, AdmitCancel(r)
      PROVE  /\ recordCount' \in 0 .. MaxCommandRecords
             /\ commandIds' \subseteq CommandIds
             /\ cancelRequested' \in BOOLEAN /\ r.id \in CommandIds
             /\ pendingCancel = NoCommand
  <2>1. r.id \in CommandIds /\ recordCount < MaxCommandRecords
    BY <1>6, FramedRecord DEF AdmitCancel
  <2>2. cancelRequested' \in BOOLEAN /\ pendingCancel = NoCommand
    BY <1>6 DEF AdmitCancel, CancelInProgress
  <2> QED BY <1>6, <2>1, <2>2, BoundsAssumption DEF AdmitCancel
<1>7. CASE CancelBeforeSession
  <2>1. /\ recordCount' \in 0 .. MaxCommandRecords
        /\ commandIds' \subseteq CommandIds
        /\ cancelRequested' \in BOOLEAN /\ Head(stdin).id \in CommandIds
    BY <1>0, <1>6, <1>7 DEF CancelBeforeSession
  <2>2. out' \in Seq(Records) /\ flushed \in 0 .. Len(out')
    BY <1>7, <2>1, AnswerType, RefusalsAreCodes DEF CancelBeforeSession, AnswerTypes
  <2>3. cause' \in Causes \cup {NoCause}
    BY <1>7, <2>1 DEF CancelBeforeSession, Causes
  <2>4. token' \in BOOLEAN BY <1>7 DEF CancelBeforeSession
  <2> QED BY <1>0, <1>7, <2>1, <2>2, <2>3, <2>4 DEF CancelBeforeSession
<1>8. CASE StartExactCancel
  <2>1. /\ recordCount' \in 0 .. MaxCommandRecords
        /\ commandIds' \subseteq CommandIds
        /\ cancelRequested' \in BOOLEAN /\ Head(stdin).id \in CommandIds
    BY <1>0, <1>6, <1>8 DEF StartExactCancel
  <2>2. pendingCancel' # NoCommand BY <1>8, <2>1, NamesAssumption DEF StartExactCancel
  <2> QED BY <1>0, <1>8, <2>1, <2>2 DEF StartExactCancel
<1>9. CASE ExactCancelDone
  <2>1. /\ out' \in Seq(Records) /\ flushed \in 0 .. Len(out')
        /\ pendingCancel' = NoCommand /\ exactTask' = "none"
        /\ fatal' \in FatalCodes \cup {NoError}
    <3>1. /\ "cancellation_failed" \in RecordCodes \cap FatalCodes
          /\ "turn_not_cancellable" \in RecordCodes /\ "turn.cancel" \in RecordCodes
          /\ {"command.accepted", "command.rejected"} \subseteq AnswerTypes
      BY RefusalsAreCodes DEF FatalCodes, AnswerTypes
    <3> QED BY <1>9, <3>1, AnswerType DEF ExactCancelDone, AnswerExactCancel
  <2>2. /\ cancelRequested' \in BOOLEAN /\ token' \in BOOLEAN
        /\ cause' \in Causes \cup {NoCause}
    <3>1. CASE FallbackCancel("cancellation_task_failed")
      BY <1>1, <3>1 DEF FallbackCauses
    <3>2. CASE CreditExactCancel
      <4>1. cancelRequested' \in BOOLEAN /\ token' \in BOOLEAN
        BY <3>2 DEF CreditExactCancel
      <4>2. exactTask = "ok" => pendingCancel \in CommandIds OBVIOUS
      <4> QED BY <3>2, <4>1, <4>2 DEF CreditExactCancel, Causes
    <3> QED BY <1>9, <3>1, <3>2 DEF ExactCancelDone
  <2> QED BY <1>9, <2>1, <2>2 DEF ExactCancelDone
<1>10. CASE SignalDuringTurn
  <2>1. /\ cancelRequested' \in BOOLEAN /\ token' \in BOOLEAN
        /\ cause' \in Causes \cup {NoCause}
    BY <1>1, <1>10 DEF SignalDuringTurn, FallbackCauses
  <2>2. externalOpen' \in BOOLEAN BY <1>10 DEF SignalDuringTurn
  <2> QED BY <1>10, <2>1, <2>2 DEF SignalDuringTurn
<1>11. CASE OutputLostDuringTurn
  <2>1. /\ cancelRequested' \in BOOLEAN /\ token' \in BOOLEAN
        /\ cause' \in Causes \cup {NoCause}
    BY <1>1, <1>11 DEF OutputLostDuringTurn, FallbackCauses
  <2>2. writerOpen' \in BOOLEAN BY <1>11 DEF OutputLostDuringTurn
  <2> QED BY <1>11, <2>1, <2>2 DEF OutputLostDuringTurn
<1>12. CASE BackendDone BY <1>12 DEF BackendDone
<1> QED BY <1>2, <1>3, <1>4, <1>5, <1>7, <1>8, <1>9, <1>10, <1>11, <1>12
        DEF DuringTurn

\* The steps of the server after a turn keep the invariant.
LEMMA AfterTurnInvariant ==
  ASSUME IInv, AfterTurn
  PROVE  IInv'
<1> USE DEF IInv, TypeOK, FlagsType, TurnType, InputType, OutputType,
            BackendType, OutcomeKnown, ExactTracked, AfterBackend, Settled,
            Phases, ExitCodes, vars, clientVars, cancelVars, exactVars, inputVars,
            branchVars, endVars, writerVars, backendVars
<1>0. AfterSettling => phase' \in {"finalizing", "emitting"}
  BY DEF AfterSettling
<1>1. CASE SettleNothing BY <1>0, <1>1 DEF SettleNothing
<1>2. CASE SettleFinishedExact
  <2>1. /\ out' \in Seq(Records) /\ flushed \in 0 .. Len(out')
        /\ pendingCancel' = NoCommand /\ exactTask' = "none"
        /\ fatal' \in FatalCodes \cup {NoError}
    <3>1. /\ "cancellation_failed" \in RecordCodes \cap FatalCodes
          /\ "turn_not_cancellable" \in RecordCodes /\ "turn.cancel" \in RecordCodes
          /\ {"command.accepted", "command.rejected"} \subseteq AnswerTypes
      BY RefusalsAreCodes DEF FatalCodes, AnswerTypes
    <3> QED BY <1>2, <3>1, AnswerType DEF SettleFinishedExact, AnswerExactCancel
  <2>2. cancelRequested' \in BOOLEAN /\ token' \in BOOLEAN
    BY <1>2 DEF SettleFinishedExact, CreditExactCancel
  <2>3. cause' \in Causes \cup {NoCause}
    BY <1>2 DEF SettleFinishedExact, CreditExactCancel, Causes
  <2> QED BY <1>0, <1>2, <2>1, <2>2, <2>3 DEF SettleFinishedExact
<1>3. CASE AbortExactCancel
  <2>1. out' \in Seq(Records) /\ flushed \in 0 .. Len(out')
    BY <1>3, AnswerType, RefusalsAreCodes DEF AbortExactCancel, AnswerTypes
  <2> QED BY <1>0, <1>3, <2>1 DEF AbortExactCancel
<1>4. CASE RefuseFinalizingCommand
  <2>1. /\ Head(stdin) \in ClientRecords /\ stdin' \in Seq(ClientRecords)
        /\ recordCount \in Nat
    BY <1>4, BoundsAssumption DEF RefuseFinalizingCommand
  <2>2. CASE /\ FatalCode(Head(stdin)) # NoError /\ FatalInput(Head(stdin))
             /\ phase' = "emitting"
    <3>1. fatal' \in FatalCodes /\ recordCount' \in 0 .. MaxCommandRecords
      BY <2>1, <2>2, FatalRecord, BoundsAssumption DEF FatalInput
    <3> QED BY <1>4, <2>1, <2>2, <3>1 DEF RefuseFinalizingCommand, FatalInput
  <2>3. CASE /\ FatalCode(Head(stdin)) = NoError /\ fatal' = fatal /\ phase' = phase
             /\ \E code \in RecordCodes : RefuseCommand(Head(stdin), code)
    <3>1. /\ out' \in Seq(Records) /\ flushed \in 0 .. Len(out')
          /\ recordCount' \in 0 .. MaxCommandRecords
          /\ commandIds' \subseteq CommandIds
      BY <2>1, <2>3, RefusalType
    <3> QED BY <1>4, <2>1, <2>3, <3>1 DEF RefuseFinalizingCommand
  <2> QED BY <1>4, <2>2, <2>3, RefusalsAreCodes DEF RefuseFinalizingCommand
<1>5. CASE FinishDraining BY <1>5 DEF FinishDraining
<1>6. CASE EmitTerminal
  <2> DEFINE records == (IF dropPending /\ accepted # NoSession THEN <<Marker>>
                                                               ELSE <<>>)
                          \o <<ChosenTerminal.record>>
  <2>1. outcome \in Outcomes BY <1>6 DEF EmitTerminal
  <2>2. /\ ChosenTerminal.record \in Records /\ ChosenTerminal.status \in ExitCodes
    BY <2>1, ChosenTerminalFits DEF Fits
  <2>3. Marker \in Records
    BY DEF Marker, Rec, Records, EventTypes, RecordCodes
  <2>4. records \in Seq(Records) BY <2>2, <2>3
  <2>5. out' \in Seq(Records) /\ flushed \in 0 .. Len(out')
    BY <1>6, <2>4, EnqueueType DEF EmitTerminal
  <2>6. dropPending' \in BOOLEAN BY <1>6 DEF EmitTerminal
  <2>7. verdict' \in ExitCodes BY <1>6, <2>2 DEF EmitTerminal
  <2> QED BY <1>6, <2>5, <2>6, <2>7 DEF EmitTerminal
<1>7. CASE Exit BY <1>7 DEF Exit
<1> QED BY <1>1, <1>2, <1>3, <1>4, <1>5, <1>6, <1>7 DEF AfterTurn

\* The steps beside the server task keep the invariant.
LEMMA BesideInvariant ==
  ASSUME IInv, WriterStep \/ ClientStep \/ BackendStep
  PROVE  IInv'
<1> USE DEF IInv, TypeOK, FlagsType, TurnType, InputType, OutputType,
            BackendType, OutcomeKnown, ExactTracked, AfterBackend, Settled,
            Phases, ExitCodes, vars, clientVars, cancelVars, exactVars, inputVars,
            branchVars, endVars, writerVars, backendVars
<1>1. CASE WriterFlush BY <1>1 DEF WriterFlush
<1>2. CASE WriterFail BY <1>2 DEF WriterFail
<1>3. CASE ClientSend
  <2>1. stdin' \in Seq(ClientRecords)
    BY <1>3, EnvironmentAssumption DEF ClientSend
  <2> QED BY <1>3, <2>1 DEF ClientSend
<1>4. CASE ClientClose
  <2>1. stdinClosed' \in BOOLEAN BY <1>4 DEF ClientClose
  <2> QED BY <1>4, <2>1 DEF ClientClose
<1>5. CASE Signal
  <2>1. signalled' \in BOOLEAN BY <1>5 DEF Signal
  <2> QED BY <1>5, <2>1 DEF Signal
<1>6. CASE ExactSettles BY <1>6 DEF ExactSettles, ExactResults
<1>7. CASE BackendAccepts
  <2>1. PICK s \in SessionIds :
          notices' = Append(notices, [kind |-> "accepted", session |-> s, n |-> 0])
    BY <1>7 DEF BackendAccepts
  <2>2. [kind |-> "accepted", session |-> s, n |-> 0] \in Notices BY DEF Notices
  <2>3. notices' \in Seq(Notices) /\ Len(notices') = Len(notices) + 1
    BY <2>1, <2>2
  <2>4. Len(notices') <= NoticeCapacity
    BY <1>7, <2>3, BoundsAssumption DEF BackendAccepts
  <2> QED BY <1>7, <2>3, <2>4 DEF BackendAccepts
<1>8. CASE BackendReports
  <2> DEFINE n == [kind |-> "event", session |-> NoSession, n |-> produced + 1]
  <2>1. notices' = Append(notices, n) BY <1>8 DEF BackendReports
  <2>2. produced + 1 \in 1 .. MaxEvents BY <1>8, BoundsAssumption DEF BackendReports
  <2>3. n \in Notices BY <2>2 DEF Notices
  <2>4. notices' \in Seq(Notices) /\ Len(notices') = Len(notices) + 1
    BY <2>1, <2>3
  <2>5. Len(notices') <= NoticeCapacity
    BY <1>8, <2>4, BoundsAssumption DEF BackendReports
  <2>6. produced' \in 0 .. MaxEvents BY <1>8, <2>2 DEF BackendReports
  <2> QED BY <1>8, <2>4, <2>5, <2>6 DEF BackendReports
<1>9. CASE BackendFinishes
  <2>1. outcome' \in Outcomes BY <1>9, EnvironmentAssumption DEF BackendFinishes
  <2> QED BY <1>9, <2>1 DEF BackendFinishes
<1> QED BY <1>1, <1>2, <1>3, <1>4, <1>5, <1>6, <1>7, <1>8, <1>9
        DEF WriterStep, ClientStep, BackendStep

\* A stuttering step changes nothing.
LEMMA StutterInvariant ==
  ASSUME IInv, UNCHANGED vars
  PROVE  IInv'
<1> USE DEF IInv, TypeOK, FlagsType, TurnType, InputType, OutputType,
            BackendType, OutcomeKnown, ExactTracked, AfterBackend, Settled,
            Phases, ExitCodes, vars, clientVars, cancelVars, exactVars, inputVars,
            branchVars, endVars, writerVars, backendVars
<1> QED OBVIOUS

LEMMA NextInvariant ==
  ASSUME IInv, [Next]_vars
  PROVE  IInv'
BY BeforeStartInvariant, DuringTurnInvariant, AfterTurnInvariant,
   BesideInvariant, StutterInvariant
   DEF Next, ServerStep, Done

LEMMA InvariantHolds == Spec => []IInv
<1>1. Init => IInv BY InitInvariant
<1>2. IInv /\ [Next]_vars => IInv' BY NextInvariant
<1> QED BY <1>1, <1>2, PTL DEF Spec

\* Type correctness for any command limit, queue capacities and identifiers:
\* the record count never passes MAX_COMMAND_RECORDS, the notice channel never
\* passes its capacity, and emit_terminal always has a record and an exit code.
THEOREM TypeCorrect == Spec => []TypeOK
<1>1. IInv => TypeOK BY DEF IInv
<1> QED BY <1>1, InvariantHolds, PTL
=============================================================================
