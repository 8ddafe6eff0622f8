------------------------- MODULE BridgeOutputProofs -------------------------
(* What the server puts on its output, proved for every command limit, queue *)
(* capacity, client and backend: the answers, the events, the terminal and   *)
(* the exit status.  First the inductive invariant; then what one step may   *)
(* add to the output (OutputMoves, NewRecord), do to the commands            *)
(* (CommandMoves) and to the notice channel (ChannelMoves); then one lemma   *)
(* per conjunct of the invariant, and the theorems; last, that the server    *)
(* implements TurnProtocol.                                                  *)
EXTENDS BridgeServerProofs, FiniteSetTheorems, SequenceTheorems
-----------------------------------------------------------------------------
(* The inductive invariant: how the phases of a turn relate to what was    *)
(* read, and how the output relates to both.                               *)

Started == {"running"} \cup AfterBackend
Ended == {"joining", "leaving", "exited"}

\* Before turn.start nothing of a turn exists.  After the backend every notice
\* is handled before anything is settled.
Lifecycle ==
  /\ phase \in {"await_start", "leaving"} => recordCount = 0
  /\ phase \in Started => recordCount > 0
  /\ recordCount = 0 =>
       /\ backend = "absent" /\ notices = <<>> /\ produced = 0
       /\ accepted = NoSession /\ commandIds = {}
       /\ fatal = NoError /\ cause = NoCause /\ pendingCancel = NoCommand
  /\ phase \in {"finalizing", "emitting", "joining", "exited"} => notices = <<>>
  /\ phase = "exited" => backend # "running"
  /\ phase = "finalizing" => inputOpen
  /\ fatal = "malformed" => ~inputOpen \/ phase \in {"emitting", "joining", "exited"}

\* A writer that failed left a record unwritten.  A terminal is the last record.
OutputShape ==
  /\ Len(out) > 0
  /\ writer = "failed" => flushed < Len(out)
  /\ \A i \in 1 .. Len(out) :
       out[i].type \in Terminals => i = Len(out) /\ phase \in Ended

\* The first cause, if a client is, was acknowledged.
CauseAcknowledged ==
  writer = "running" /\ cause \in CommandIds =>
    \E j \in 1 .. Len(out) : /\ out[j].type = "command.accepted"
                             /\ out[j].cmd = cause

\* Answers are to commands whose ids are spent.  The pending cancellation is
\* the only one, and was answered only as a repeat.
AnswersKnown ==
  /\ \A i \in AnswersSent : out[i].cmd \in commandIds
  /\ pendingCancel # NoCommand =>
       /\ pendingCancel \in commandIds /\ cancelRequested
       /\ \A i \in AnswersSent :
            out[i].cmd = pendingCancel => out[i].info = "duplicate_command_id"
  /\ \A i \in 1 .. Len(out) :
       out[i].type = "command.accepted" => cancelRequested /\ pendingCancel = NoCommand

\* The exit code of a terminal.
Agrees(status, r) ==
  /\ status = 0 <=> r.type = "turn.completed"
  /\ r.type = "turn.cancelled" => status = 130
  /\ r.type = "turn.failed" => status \in {2, 3, 4, 5}
  /\ r.type = "process.failed" =>
       /\ status \in {2, 3, 4, 5, 130}
       /\ recordCount > 0 => (status = 130 <=> r.info = "cancelled_before_acceptance")

VerdictAgrees ==
  /\ phase \in Ended =>
       /\ verdict \in ExitCodes
       /\ recordCount = 0 => verdict \in {2, 5, 130}
       /\ writer = "running" =>
            /\ out[Len(out)].type \in Terminals
            /\ Agrees(verdict, out[Len(out)])
  /\ exit # NoExit <=> phase = "exited"
  /\ phase = "exited" =>
       /\ writer = "running" => flushed = Len(out) /\ exit = verdict
       /\ writer = "failed" => exit = IF recordCount = 0 THEN verdict ELSE 5

\* The events in the notice channel, in the order of their numbers, with none
\* left out up to the last one reported.
IsEvent(channel, p) == p \in 1 .. Len(channel) /\ channel[p].kind = "event"
NoticesInOrder ==
  /\ \A p \in 1 .. Len(notices) : IsEvent(notices, p) => notices[p].n <= produced
  /\ \A p, q \in 1 .. Len(notices) :
       IsEvent(notices, p) /\ IsEvent(notices, q) /\ p < q => notices[p].n < notices[q].n
  /\ \A p \in 1 .. Len(notices) : IsEvent(notices, p) =>
       \A k \in notices[p].n .. produced :
         \E q \in 1 .. Len(notices) : IsEvent(notices, q) /\ notices[q].n = k

\* Unless a marker is owed, the next event in the channel is the one after the
\* last one in the output.
LastEvent(j) == j \in EventRecords /\ \A k \in (j + 1) .. Len(out) : k \notin EventRecords
NextEventFollows ==
  /\ EventRecords # {} => accepted # NoSession
  /\ writer = "running" /\ ~dropPending =>
       \A j \in EventRecords : LastEvent(j) /\ out[j].n > 0 =>
         /\ out[j].n <= produced
         /\ \A p \in 1 .. Len(notices) : IsEvent(notices, p) => notices[p].n > out[j].n
         /\ \A k \in (out[j].n + 1) .. produced :
              \E p \in 1 .. Len(notices) : IsEvent(notices, p) /\ notices[p].n = k

OutInv ==
  /\ IInv /\ Lifecycle /\ OutputShape /\ CauseAcknowledged /\ AnswersKnown
  /\ VerdictAgrees /\ NoticesInOrder /\ NextEventFollows
  /\ FatalErrorDecides /\ CancelReasonAcknowledged /\ OneVerdictPerCommand
  /\ EveryCommandAnswered /\ NoSilentGap
-----------------------------------------------------------------------------
(* What one step may add to the output.                                    *)

AddsRecord(r) ==
  /\ writer = "running" /\ Len(out') = Len(out) + 1
  /\ out'[Len(out) + 1] = r
  /\ \A i \in 1 .. Len(out) : out'[i] = out[i]

AddsTwo(q, r) ==
  /\ writer = "running" /\ Len(out') = Len(out) + 2
  /\ out'[Len(out) + 1] = q /\ out'[Len(out) + 2] = r
  /\ \A i \in 1 .. Len(out) : out'[i] = out[i]

FailsEarly ==
  /\ phase = "await_start" /\ phase' = "leaving"
  /\ \E code \in {"invalid_first_record", "stdin_closed_before_start",
                  "terminated_before_start"} :
       /\ AddsRecord(Rec("process.failed", NoCommand, NoSession, code, 0))
       /\ verdict' = IF code = "terminated_before_start" THEN 130 ELSE 2

Discloses ==
  /\ phase \in {"running", "draining"} /\ phase' = phase
  /\ accepted = NoSession /\ accepted' \in SessionIds
  /\ AddsRecord(Rec("turn.accepted", NoCommand, accepted', "none", 0))

Event(n) == Rec("agent.event", NoCommand, accepted, "upstream", n)
Forwards ==
  /\ phase \in {"running", "draining"} /\ phase' = phase
  /\ accepted # NoSession /\ accepted' = accepted
  /\ IsEvent(notices, 1) /\ notices' = Tail(notices) /\ produced' = produced
  /\ \/ AddsRecord(Marker) /\ dropPending'
     \/ AddsRecord(Event(notices[1].n)) /\ ~dropPending
     \/ AddsTwo(Marker, Event(notices[1].n))

AnswerCodes ==
  {"turn.cancel", "turn_not_cancellable", "cancellation_failed", "duplicate_command_id",
   "unsupported_command", "correlation_mismatch", "cancellation_in_progress"}

AnsweringStep ==
  \/ RefuseRunningCommand \/ CancelBeforeSession \/ ExactCancelDone
  \/ SettleFinishedExact \/ AbortExactCancel \/ RefuseFinalizingCommand
Answers ==
  /\ AnsweringStep
  /\ phase \in {"running", "draining", "finalizing"}
  /\ phase' \in {"running", "finalizing", "emitting"} /\ accepted' = accepted
  /\ \E type \in AnswerTypes, id \in CommandIds, code \in AnswerCodes :
       AddsRecord(Rec(type, id, accepted, code, 0))

Terminates ==
  /\ EmitTerminal
  /\ \/ dropPending /\ accepted # NoSession /\ AddsTwo(Marker, ChosenTerminal.record)
     \/ ~(dropPending /\ accepted # NoSession) /\ AddsRecord(ChosenTerminal.record)

LEMMA EnqueueOne ==
  ASSUME TypeOK, NEW r \in Records, Enqueue(<<r>>)
  PROVE  (writer # "running" /\ out' = out) \/ AddsRecord(r)
<1>1. out \in Seq(Records) /\ <<r>> \in Seq(Records) BY DEF TypeOK, OutputType
<1>2. CASE writer = "running"
  <2>1. out' = out \o <<r>> BY <1>2 DEF Enqueue
  <2> QED BY <1>1, <1>2, <2>1 DEF AddsRecord
<1> QED BY <1>2 DEF Enqueue

LEMMA EnqueueTwo ==
  ASSUME TypeOK, NEW rs \in Seq(Records), Len(rs) = 2, Enqueue(rs)
  PROVE  (writer # "running" /\ out' = out) \/ AddsTwo(rs[1], rs[2])
<1>1. out \in Seq(Records) BY DEF TypeOK, OutputType
<1>2. CASE writer = "running"
  <2>1. out' = out \o rs BY <1>2 DEF Enqueue
  <2>2. /\ Len(out \o rs) = Len(out) + Len(rs)
        /\ \A i \in 1 .. Len(out) + Len(rs) :
             (out \o rs)[i] = IF i <= Len(out) THEN out[i] ELSE rs[i - Len(out)]
    BY <1>1, ConcatProperties
  <2>3. Len(out) \in Nat BY <1>1
  <2> QED BY <1>2, <2>1, <2>2, <2>3 DEF AddsTwo
<1> QED BY <1>2 DEF Enqueue

\* The records the server may add are records.
LEMMA TheseAreRecords ==
  ASSUME TypeOK
  PROVE  /\ Marker \in Records
         /\ \A n \in Nat : Event(n) \in Records
         /\ \A s \in SessionIds : Rec("turn.accepted", NoCommand, s, "none", 0) \in Records
         /\ \A code \in RecordCodes :
              Rec("process.failed", NoCommand, NoSession, code, 0) \in Records
         /\ \A type \in AnswerTypes, id \in CommandIds, code \in RecordCodes :
              Rec(type, id, accepted, code, 0) \in Records
BY DEF Marker, Event, Rec, Records, RecordCodes, TypeOK, TurnType, EventTypes, AnswerTypes,
       Terminals

LEMMA AnswerMoves ==
  ASSUME TypeOK, NEW type \in AnswerTypes, NEW id \in CommandIds, NEW code \in RecordCodes,
         Answer(type, id, code)
  PROVE  (writer # "running" /\ out' = out) \/ AddsRecord(Rec(type, id, accepted, code, 0))
BY TheseAreRecords, EnqueueOne DEF Answer

\* The codes an answer may carry.
LEMMA AnswersHaveCodes ==
  /\ AnswerCodes \subseteq RecordCodes
  /\ \A r : CommonRefusal(r) # "none" => CommonRefusal(r) \in AnswerCodes
<1>1. AnswerCodes \subseteq RecordCodes BY DEF AnswerCodes, RecordCodes, FatalCodes
<1> QED BY <1>1, RefusalCode DEF AnswerCodes

\* The steps that answer a command.
LEMMA AnsweringSteps ==
  ASSUME IInv, AnsweringStep
  PROVE  out' = out \/ Answers
<1> USE DEF IInv, TypeOK, InputType
<1>0. /\ "command.rejected" \in AnswerTypes /\ "command.accepted" \in AnswerTypes
      /\ {"turn.cancel", "turn_not_cancellable", "cancellation_failed",
          "cancellation_in_progress"} \subseteq AnswerCodes
  BY DEF AnswerTypes, AnswerCodes
<1>1. ASSUME NEW type \in AnswerTypes, NEW id \in CommandIds, NEW code \in AnswerCodes,
             Answer(type, id, code), accepted' = accepted,
             phase \in {"running", "draining", "finalizing"},
             phase' \in {"running", "finalizing", "emitting"}
      PROVE  out' = out \/ Answers
  BY <1>1, AnswerMoves, AnswersHaveCodes DEF Answers
<1>2. ASSUME NEW r \in ClientRecords, FatalCode(r) = NoError
      PROVE  r.id \in CommandIds
  BY <1>2, FramedRecord, BoundsAssumption
<1>3. stdin # <<>> => Head(stdin) \in ClientRecords
  OBVIOUS
<1>4. pendingCancel \in CommandIds \/ exactTask = "none"
  BY DEF ExactTracked, TurnType
<1>5. CASE RefuseRunningCommand
  <2>1. PICK code \in AnswerCodes : RefuseCommand(Head(stdin), code)
    BY <1>0, <1>5, AnswersHaveCodes DEF RefuseRunningCommand
  <2> QED BY <1>0, <1>1, <1>2, <1>3, <1>5, <2>1 DEF RefuseRunningCommand, RefuseCommand
<1>6. CASE CancelBeforeSession
  BY <1>0, <1>1, <1>2, <1>3, <1>6 DEF CancelBeforeSession, AdmitCancel
<1>7. ASSUME AnswerExactCancel, exactTask \in ExactResults, accepted' = accepted,
             phase \in {"running", "draining", "finalizing"},
             phase' \in {"running", "finalizing", "emitting"}
      PROVE  out' = out \/ Answers
  <2>1. pendingCancel \in CommandIds BY <1>4, <1>7 DEF ExactResults
  <2> QED BY <1>0, <1>1, <1>7, <2>1 DEF AnswerExactCancel
<1>8. CASE ExactCancelDone BY <1>7, <1>8 DEF ExactCancelDone
<1>9. CASE SettleFinishedExact BY <1>7, <1>9 DEF SettleFinishedExact, AfterSettling
<1>10. CASE AbortExactCancel
  BY <1>0, <1>1, <1>4, <1>10 DEF AbortExactCancel, AfterSettling
<1>11. CASE RefuseFinalizingCommand
  <2>1. CASE FatalInput(Head(stdin)) BY <2>1 DEF FatalInput
  <2>2. CASE /\ FatalCode(Head(stdin)) = NoError /\ phase' = phase
             /\ \E code \in AnswerCodes : RefuseCommand(Head(stdin), code)
    BY <1>0, <1>1, <1>2, <1>3, <1>11, <2>2 DEF RefuseFinalizingCommand, RefuseCommand
  <2> QED BY <1>0, <1>11, <2>1, <2>2, AnswersHaveCodes DEF RefuseFinalizingCommand
<1> QED BY <1>5, <1>6, <1>8, <1>9, <1>10, <1>11 DEF AnsweringStep

LEMMA NoticeSteps ==
  ASSUME IInv, HandleNotice
  PROVE  out' = out \/ Discloses \/ Forwards
<1> USE DEF IInv, TypeOK, BackendType
<1>1. Head(notices) \in Notices /\ Head(notices) = notices[1] /\ 1 \in 1 .. Len(notices)
  BY DEF HandleNotice
<1>2. CASE Head(notices).kind = "accepted" /\ AcceptSession(Head(notices))
  <2>1. Head(notices).session \in SessionIds BY <1>1, <1>2 DEF Notices
  <2> QED BY <1>2, <2>1, TheseAreRecords, EnqueueOne DEF AcceptSession, HandleNotice, Discloses
<1>3. CASE Head(notices).kind # "accepted" /\ ForwardEvent(Head(notices))
  <2>1. IsEvent(notices, 1) /\ Head(notices).n \in Nat BY <1>1, <1>3 DEF IsEvent, Notices
  <2>2. Marker \in Records /\ Event(notices[1].n) \in Records
    BY <1>1, <2>1, TheseAreRecords
  <2>3. \/ out' = out
        \/ accepted # NoSession /\ Enqueue(<<Marker>>) /\ dropPending'
        \/ accepted # NoSession /\ Enqueue(<<Event(notices[1].n)>>) /\ ~dropPending
        \/ accepted # NoSession /\ Enqueue(<<Marker, Event(notices[1].n)>>)
    BY <1>1, <1>3 DEF ForwardEvent, Event
  <2>4. ASSUME Enqueue(<<Marker, Event(notices[1].n)>>)
        PROVE  out' = out \/ AddsTwo(Marker, Event(notices[1].n))
    <3> DEFINE rs == <<Marker, Event(notices[1].n)>>
    <3>1. rs \in Seq(Records) /\ Len(rs) = 2 /\ rs[1] = Marker /\ rs[2] = Event(notices[1].n)
      BY <2>2
    <3> QED BY <2>4, <3>1, EnqueueTwo
  <2> QED BY <1>3, <2>1, <2>2, <2>3, <2>4, EnqueueOne
          DEF ForwardEvent, HandleNotice, Forwards, backendVars
<1> QED BY <1>2, <1>3 DEF HandleNotice

LEMMA TerminalSteps ==
  ASSUME IInv, EmitTerminal
  PROVE  out' = out \/ Terminates
<1> USE DEF IInv, TypeOK
<1>1. ChosenTerminal.record \in Records
  BY ChosenTerminalFits DEF Fits, OutcomeKnown, AfterBackend, EmitTerminal
<1>2. CASE dropPending /\ accepted # NoSession
  <2> DEFINE rs == <<Marker>> \o <<ChosenTerminal.record>>
  <2>1. rs \in Seq(Records) /\ Len(rs) = 2 /\ rs[1] = Marker /\ rs[2] = ChosenTerminal.record
    BY <1>1, TheseAreRecords
  <2>2. Enqueue(rs) BY <1>2 DEF EmitTerminal
  <2> QED BY <1>2, <2>1, <2>2, EnqueueTwo DEF Terminates
<1>3. CASE ~(dropPending /\ accepted # NoSession)
  <2>1. <<>> \o <<ChosenTerminal.record>> = <<ChosenTerminal.record>>
    BY <1>1
  <2>2. Enqueue(<<ChosenTerminal.record>>) BY <1>3, <2>1 DEF EmitTerminal
  <2> QED BY <1>1, <1>3, <2>2, EnqueueOne DEF Terminates
<1> QED BY <1>2, <1>3

LEMMA OutputMoves ==
  ASSUME IInv, [Next]_vars
  PROVE  out' = out \/ FailsEarly \/ Discloses \/ Forwards \/ Answers \/ Terminates
<1>1. ASSUME NEW code \in {"invalid_first_record", "stdin_closed_before_start",
                          "terminated_before_start"},
             FailBeforeStart(code, IF code = "terminated_before_start" THEN 130 ELSE 2),
             phase = "await_start"
      PROVE  out' = out \/ FailsEarly
  <2>1. code \in RecordCodes BY DEF RecordCodes
  <2> QED BY <1>1, <2>1, TheseAreRecords, EnqueueOne DEF IInv, FailBeforeStart, FailsEarly
<1>2. CASE RefuseFirstRecord BY <1>1, <1>2 DEF RefuseFirstRecord
<1>3. CASE EndOfInputBeforeStart BY <1>1, <1>3 DEF EndOfInputBeforeStart
<1>4. CASE SignalBeforeStart BY <1>1, <1>4 DEF SignalBeforeStart
<1>5. CASE StartTurn \/ OutputLostBeforeStart \/ ExitBeforeStart
  BY <1>5 DEF StartTurn, OutputLostBeforeStart, ExitBeforeStart
<1>6. CASE DuringTurn
  <2>1. CASE ReadFatalInput BY <2>1 DEF ReadFatalInput, FatalInput
  <2>2. CASE \/ ReadEndOfInput \/ StartExactCancel
             \/ SignalDuringTurn \/ OutputLostDuringTurn \/ BackendDone
    BY <2>2 DEF ReadEndOfInput, StartExactCancel, SignalDuringTurn, OutputLostDuringTurn, BackendDone
  <2> QED BY <1>6, <2>1, <2>2, NoticeSteps, AnsweringSteps DEF DuringTurn, AnsweringStep
<1>7. CASE AfterTurn
  <2>1. CASE SettleNothing \/ FinishDraining \/ Exit
    BY <2>1 DEF SettleNothing, FinishDraining, Exit
  <2> QED BY <1>7, <2>1, AnsweringSteps, TerminalSteps DEF AfterTurn, AnsweringStep
<1>8. CASE WriterStep \/ ClientStep \/ BackendStep
  BY <1>8 DEF WriterStep, ClientStep, BackendStep, WriterFlush, WriterFail, ClientSend,
              ClientClose, Signal, ExactSettles, BackendAccepts, BackendReports, BackendFinishes
<1>9. CASE UNCHANGED vars BY <1>9 DEF vars
<1> QED BY <1>2, <1>3, <1>4, <1>5, <1>6, <1>7, <1>8, <1>9
        DEF Next, ServerStep, BeforeStart, Done

\* What was in the output stays as it is.
LEMMA OldRecords ==
  ASSUME IInv, [Next]_vars
  PROVE  /\ out \in Seq(Records) /\ out' \in Seq(Records)
         /\ Len(out) \in Nat /\ Len(out') \in Nat /\ Len(out) <= Len(out')
         /\ \A i \in 1 .. Len(out) : i \in 1 .. Len(out') /\ out'[i] = out[i]
<1>1. out \in Seq(Records) /\ out' \in Seq(Records)
  BY NextInvariant DEF IInv, TypeOK, OutputType
<1>2. Len(out) \in Nat /\ Len(out') \in Nat BY <1>1
<1> QED BY <1>1, <1>2, OutputMoves
       DEF FailsEarly, Discloses, Forwards, Answers, Terminates, AddsRecord, AddsTwo

\* What is added, and by which kind of step.
LEMMA NewRecord ==
  ASSUME IInv, [Next]_vars, NEW i \in 1 .. Len(out'), i \notin 1 .. Len(out)
  PROVE  /\ writer = "running"
         /\ \/ FailsEarly /\ i = Len(out') /\ out'[i].type = "process.failed"
            \/ Discloses /\ i = Len(out') /\ out'[i].type = "turn.accepted"
            \/ /\ Forwards /\ out'[i].type \in EventTypes
               /\ \/ out'[i] = Marker
                  \/ i = Len(out') /\ out'[i] = Event(notices[1].n)
            \/ Answers /\ i = Len(out') /\ out'[i].type \in AnswerTypes
            \/ /\ Terminates
               /\ \/ i = Len(out') /\ out'[i] = ChosenTerminal.record
                  \/ i < Len(out') /\ out'[i] = Marker
<1>0. Len(out) \in Nat /\ Len(out') \in Nat BY OldRecords
<1>1. CASE FailsEarly
  BY <1>0, <1>1 DEF FailsEarly, AddsRecord, Rec
<1>2. CASE Discloses
  BY <1>0, <1>2 DEF Discloses, AddsRecord, Rec
<1>3. CASE Forwards
  <2>1. /\ Marker.type \in EventTypes
        /\ \A n : Event(n).type \in EventTypes
    BY DEF Marker, Event, Rec, EventTypes
  <2>2. CASE AddsRecord(Marker) BY <1>0, <1>3, <2>1, <2>2 DEF AddsRecord
  <2>3. CASE AddsRecord(Event(notices[1].n)) BY <1>0, <1>3, <2>1, <2>3 DEF AddsRecord
  <2>4. CASE AddsTwo(Marker, Event(notices[1].n)) BY <1>0, <1>3, <2>1, <2>4 DEF AddsTwo
  <2> QED BY <1>3, <2>2, <2>3, <2>4 DEF Forwards
<1>4. CASE Answers
  BY <1>0, <1>4 DEF Answers, AddsRecord, Rec
<1>5. CASE Terminates
  BY <1>0, <1>5 DEF Terminates, AddsRecord, AddsTwo
<1> QED BY <1>1, <1>2, <1>3, <1>4, <1>5, OutputMoves

-----------------------------------------------------------------------------
(* The phases.                                                             *)

LEMMA LifecycleStep ==
  ASSUME IInv, Lifecycle, [Next]_vars
  PROVE  Lifecycle'
<1> USE DEF Lifecycle, Started, AfterBackend, vars, clientVars, cancelVars, exactVars,
            inputVars, branchVars, endVars, writerVars, backendVars
<1>0. recordCount \in Nat /\ NoError # "malformed"
  BY NamesAssumption, BoundsAssumption DEF IInv, TypeOK, InputType
<1>1. CASE BeforeStart
  BY <1>0, <1>1, BoundsAssumption
     DEF BeforeStart, StartTurn, RefuseFirstRecord, EndOfInputBeforeStart, SignalBeforeStart,
         OutputLostBeforeStart, ExitBeforeStart, FailBeforeStart, IInv, ExactTracked, Settled
<1>2. CASE HandleNotice
  BY <1>0, <1>2 DEF HandleNotice, AcceptSession, ForwardEvent
<1>3. CASE ReadFatalInput
  BY <1>0, <1>3 DEF ReadFatalInput, FatalInput, FallbackCancel
<1>4. CASE \/ ReadEndOfInput \/ SignalDuringTurn \/ OutputLostDuringTurn \/ BackendDone
  BY <1>0, <1>4 DEF ReadEndOfInput, SignalDuringTurn, OutputLostDuringTurn, BackendDone,
                    FallbackCancel
<1>5. CASE RefuseRunningCommand
  BY <1>0, <1>5 DEF RefuseRunningCommand, RefuseCommand
<1>6. CASE CancelBeforeSession \/ StartExactCancel
  BY <1>0, <1>6 DEF CancelBeforeSession, StartExactCancel, AdmitCancel
<1>7. CASE ExactCancelDone
  BY <1>0, <1>7 DEF ExactCancelDone, AnswerExactCancel, FallbackCancel, CreditExactCancel
<1>8. CASE AfterTurn
  BY <1>0, <1>8 DEF AfterTurn, SettleNothing, SettleFinishedExact, AbortExactCancel, AfterSettling,
                    AnswerExactCancel, CreditExactCancel, RefuseFinalizingCommand, FatalInput,
                    RefuseCommand, FinishDraining, EmitTerminal, Exit, IInv, OutcomeKnown
<1>9. CASE WriterStep \/ ClientStep
  BY <1>9 DEF WriterStep, ClientStep, WriterFlush, WriterFail, ClientSend, ClientClose, Signal
<1>10. CASE BackendStep
  BY <1>10 DEF BackendStep, ExactSettles, BackendAccepts, BackendReports, BackendFinishes, Alive,
               IInv, OutcomeKnown
<1>11. CASE UNCHANGED vars BY <1>11
<1> QED BY <1>1, <1>2, <1>3, <1>4, <1>5, <1>6, <1>7, <1>8, <1>9, <1>10, <1>11
        DEF Next, ServerStep, DuringTurn, Done

\* After the terminal only the writer and the exit are left.
LEMMA EndedIsFinal ==
  ASSUME IInv, Lifecycle, [Next]_vars, phase \in Ended
  PROVE  /\ phase' \in Ended
         /\ UNCHANGED <<out, accepted, cause, cancelRequested, fatal, recordCount, commandIds,
                        pendingCancel, verdict, produced, notices, dropPending>>
<1> USE DEF Ended, vars, clientVars, cancelVars, exactVars,
            inputVars, branchVars, endVars, writerVars, backendVars
<1>1. CASE BeforeStart
  BY <1>1 DEF BeforeStart, StartTurn, RefuseFirstRecord, EndOfInputBeforeStart,
              SignalBeforeStart, OutputLostBeforeStart, ExitBeforeStart
<1>2. CASE DuringTurn
  BY <1>2 DEF DuringTurn, HandleNotice, ReadFatalInput, ReadEndOfInput, RefuseRunningCommand,
              CancelBeforeSession, StartExactCancel, ExactCancelDone, SignalDuringTurn,
              OutputLostDuringTurn, BackendDone
<1>3. CASE AfterTurn
  BY <1>3 DEF AfterTurn, SettleNothing, SettleFinishedExact, AbortExactCancel,
              RefuseFinalizingCommand, FinishDraining, EmitTerminal, Exit
<1>4. CASE WriterStep \/ ClientStep
  BY <1>4 DEF WriterStep, ClientStep, WriterFlush, WriterFail, ClientSend, ClientClose, Signal
<1>5. CASE BackendStep
  BY <1>5 DEF BackendStep, ExactSettles, BackendAccepts, BackendReports, BackendFinishes, Alive,
              IInv, OutcomeKnown, AfterBackend, Lifecycle
<1>6. CASE UNCHANGED vars BY <1>6
<1> QED BY <1>1, <1>2, <1>3, <1>4, <1>5, <1>6 DEF Next, ServerStep, Done

\* The process ends its output by a step that adds a terminal.
LEMMA EndStep ==
  ASSUME IInv, [Next]_vars, phase \notin Ended, phase' \in Ended
  PROVE  \/ EmitTerminal
         \/ /\ RefuseFirstRecord \/ EndOfInputBeforeStart \/ SignalBeforeStart
         \/ OutputLostBeforeStart
<1> USE DEF Ended, vars, clientVars, cancelVars, exactVars,
            inputVars, branchVars, endVars, writerVars, backendVars
<1>1. CASE BeforeStart BY <1>1 DEF BeforeStart, StartTurn, ExitBeforeStart
<1>2. CASE DuringTurn
  BY <1>2 DEF DuringTurn, HandleNotice, ReadFatalInput, ReadEndOfInput, RefuseRunningCommand,
              CancelBeforeSession, StartExactCancel, ExactCancelDone, SignalDuringTurn,
              OutputLostDuringTurn, BackendDone
<1>3. CASE AfterTurn
  BY <1>3 DEF AfterTurn, SettleNothing, SettleFinishedExact, AbortExactCancel, AfterSettling,
              RefuseFinalizingCommand, FinishDraining, Exit
<1>4. CASE WriterStep \/ ClientStep \/ BackendStep
  BY <1>4 DEF WriterStep, ClientStep, WriterFlush, WriterFail, ClientSend, ClientClose, Signal,
              BackendStep, ExactSettles, BackendAccepts, BackendReports, BackendFinishes
<1>5. CASE UNCHANGED vars BY <1>5
<1> QED BY <1>1, <1>2, <1>3, <1>4, <1>5 DEF Next, ServerStep, Done

\* The writer.
LEMMA WriterMoves ==
  ASSUME IInv, [Next]_vars
  PROVE  \/ writer' = writer /\ flushed' = flushed
         \/ /\ writer = "running" /\ writer' = "running" /\ flushed < Len(out)
            /\ flushed' = flushed + 1 /\ out' = out
         \/ /\ writer = "running" /\ writer' = "failed" /\ flushed < Len(out)
            /\ flushed' = flushed /\ out' = out
<1> USE DEF vars, clientVars, cancelVars, exactVars,
            inputVars, branchVars, endVars, writerVars, backendVars
<1>1. CASE BeforeStart
  BY <1>1 DEF BeforeStart, StartTurn, RefuseFirstRecord, EndOfInputBeforeStart,
              SignalBeforeStart, OutputLostBeforeStart, ExitBeforeStart, FailBeforeStart
<1>2. CASE DuringTurn
  BY <1>2 DEF DuringTurn, HandleNotice, ReadFatalInput, ReadEndOfInput, RefuseRunningCommand,
              CancelBeforeSession, StartExactCancel, ExactCancelDone, SignalDuringTurn,
              OutputLostDuringTurn, BackendDone
<1>3. CASE AfterTurn
  BY <1>3 DEF AfterTurn, SettleNothing, SettleFinishedExact, AbortExactCancel,
              RefuseFinalizingCommand, FinishDraining, EmitTerminal, Exit
<1>4. CASE WriterStep BY <1>4 DEF WriterStep, WriterFlush, WriterFail
<1>5. CASE ClientStep \/ BackendStep
  BY <1>5 DEF ClientStep, ClientSend, ClientClose, Signal,
              BackendStep, ExactSettles, BackendAccepts, BackendReports, BackendFinishes
<1>6. CASE UNCHANGED vars BY <1>6
<1> QED BY <1>1, <1>2, <1>3, <1>4, <1>5, <1>6 DEF Next, ServerStep, Done

\* A terminal record, chosen with an exit code that fits it.
LEMMA ChosenIsTerminal ==
  ASSUME IInv, EmitTerminal
  PROVE  /\ ChosenTerminal.record.type \in Terminals
         /\ Fits(ChosenTerminal, accepted)
<1>1. outcome \in Outcomes BY DEF IInv, OutcomeKnown, AfterBackend, EmitTerminal
<1> QED BY <1>1, ChosenTerminalFits DEF IInv, Fits, Terminals, TurnTerminals

LEMMA ShapeStep ==
  ASSUME IInv, Lifecycle, OutputShape, [Next]_vars
  PROVE  OutputShape'
<1>0. /\ out \in Seq(Records) /\ out' \in Seq(Records)
      /\ flushed \in 0 .. Len(out) /\ writer \in {"running", "failed"}
  BY NextInvariant DEF IInv, TypeOK, OutputType
<1>1. writer' = "failed" => flushed' < Len(out')
  BY <1>0, WriterMoves, OutputMoves
     DEF OutputShape, FailsEarly, Discloses, Forwards, Answers, Terminates, AddsRecord, AddsTwo
<1>2. ASSUME NEW i \in 1 .. Len(out'), out'[i].type \in Terminals
      PROVE  i = Len(out') /\ phase' \in Ended
  <2>1. CASE out' = out
    <3>1. phase \in Ended => phase' \in Ended BY EndedIsFinal
    <3> QED BY <1>2, <2>1, <3>1 DEF OutputShape
  <2>2. CASE out' # out /\ i \in 1 .. Len(out)
    <3>1. phase \in Ended BY <1>2, <2>2, OldRecords DEF OutputShape
    <3> QED BY <2>2, <3>1, EndedIsFinal
  <2>3. CASE i \notin 1 .. Len(out)
    <3>1. Terminals \cap (EventTypes \cup AnswerTypes \cup {"turn.accepted"}) = {}
          /\ Marker.type \in EventTypes
      BY DEF Terminals, TurnTerminals, EventTypes, AnswerTypes, Marker, Rec
    <3>2. i = Len(out') /\ (FailsEarly \/ Terminates) BY <1>2, <2>3, <3>1, NewRecord
    <3> QED BY <3>2 DEF FailsEarly, Terminates, EmitTerminal, Ended
  <2> QED BY <2>1, <2>2, <2>3
<1>3. Len(out') > 0 BY OldRecords DEF OutputShape
<1> QED BY <1>1, <1>2, <1>3 DEF OutputShape

-----------------------------------------------------------------------------
(* What a terminal says.                                                   *)

LEMMA FatalStep ==
  ASSUME IInv, Lifecycle, OutputShape, FatalErrorDecides, [Next]_vars
  PROVE  FatalErrorDecides'
<1> SUFFICES ASSUME NEW i \in 1 .. Len(out'), out'[i].type \in Terminals, fatal' # NoError
             PROVE  /\ out'[i].type \in {"turn.failed", "process.failed"}
                    /\ out'[i].info = fatal'
  BY DEF FatalErrorDecides
<1>0. OutputShape' BY ShapeStep
<1>1. CASE phase \in Ended
  BY <1>1, EndedIsFinal DEF FatalErrorDecides
<1>2. CASE phase \notin Ended
  <2>1. phase' \in Ended /\ i = Len(out') BY <1>0 DEF OutputShape
  <2>2. \A k \in 1 .. Len(out) : out[k].type \notin Terminals BY <1>2 DEF OutputShape
  <2>3. CASE EmitTerminal
    <3>1. fatal' = fatal BY <2>3 DEF EmitTerminal, inputVars
    <3>2. Terminates
      BY <2>2, <2>3, TerminalSteps
    <3>3. out'[i] = ChosenTerminal.record
      BY <2>1, <3>2 DEF Terminates, AddsRecord, AddsTwo, IInv, TypeOK, OutputType
    <3> QED BY <3>1, <3>3 DEF ChosenTerminal, Failure, Terminal, Rec
  <2>4. CASE RefuseFirstRecord \/ EndOfInputBeforeStart \/ SignalBeforeStart \/ OutputLostBeforeStart
    BY <2>4 DEF RefuseFirstRecord, EndOfInputBeforeStart, SignalBeforeStart,
                OutputLostBeforeStart, FailBeforeStart, inputVars, Lifecycle
  <2> QED BY <1>2, <2>1, <2>3, <2>4, EndStep
<1> QED BY <1>1, <1>2

\* The first cause stays; a client's is acknowledged in the step that sets it.
LEMMA CauseStep ==
  ASSUME IInv, Lifecycle, CauseAcknowledged, [Next]_vars
  PROVE  CauseAcknowledged'
<1> SUFFICES ASSUME writer' = "running", cause' \in CommandIds
             PROVE  \E j \in 1 .. Len(out') : out'[j].type = "command.accepted"
                                              /\ out'[j].cmd = cause'
  BY DEF CauseAcknowledged
<1>0. out \in Seq(Records) /\ writer = "running"
  BY WriterMoves DEF IInv, TypeOK, OutputType
<1>1. \A j \in 1 .. Len(out) : j \in 1 .. Len(out') /\ out'[j] = out[j]
  BY OldRecords
<1>2. CASE cause' = cause BY <1>0, <1>1, <1>2 DEF CauseAcknowledged
<1>3. ASSUME NEW id \in CommandIds, Answer("command.accepted", id, "turn.cancel"), cause' = id
      PROVE  \E j \in 1 .. Len(out') : out'[j].type = "command.accepted"
                                       /\ out'[j].cmd = cause'
  <2>1. "command.accepted" \in AnswerTypes /\ "turn.cancel" \in RecordCodes
    BY RefusalsAreCodes DEF AnswerTypes
  <2>2. AddsRecord(Rec("command.accepted", id, accepted, "turn.cancel", 0))
    BY <1>0, <1>3, <2>1, AnswerMoves DEF IInv
  <2>3. Len(out) + 1 \in 1 .. Len(out') BY <1>0, <2>2 DEF AddsRecord
  <2> QED BY <1>3, <2>2, <2>3 DEF AddsRecord, Rec
<1>4. CASE CancelBeforeSession
  BY <1>2, <1>3, <1>4 DEF CancelBeforeSession
<1>5. ASSUME AnswerExactCancel, CreditExactCancel, exactTask \in ExactResults
      PROVE  \E j \in 1 .. Len(out') : out'[j].type = "command.accepted"
                                       /\ out'[j].cmd = cause'
  BY <1>2, <1>3, <1>5 DEF AnswerExactCancel, CreditExactCancel
<1>6. ASSUME NEW c \in FallbackCauses, FallbackCancel(c)
      PROVE  cause' = cause
  BY <1>6, NamesAssumption DEF FallbackCancel
<1>7. CASE ExactCancelDone BY <1>2, <1>5, <1>6, <1>7 DEF ExactCancelDone, FallbackCauses
<1>8. CASE SettleFinishedExact BY <1>5, <1>8 DEF SettleFinishedExact
<1>9. CASE ReadFatalInput \/ ReadEndOfInput \/ SignalDuringTurn \/ OutputLostDuringTurn
  BY <1>2, <1>6, <1>9 DEF ReadFatalInput, ReadEndOfInput, SignalDuringTurn, OutputLostDuringTurn,
                          FallbackCauses
<1>10. cause' # cause =>
         \/ CancelBeforeSession \/ ExactCancelDone \/ SettleFinishedExact
         \/ ReadFatalInput \/ ReadEndOfInput \/ SignalDuringTurn \/ OutputLostDuringTurn
  <2> USE DEF cancelVars, vars
  <2>1. BeforeStart => cause' = cause
    BY DEF BeforeStart, StartTurn, RefuseFirstRecord, EndOfInputBeforeStart,
           SignalBeforeStart, OutputLostBeforeStart, ExitBeforeStart, FailBeforeStart
  <2>2. HandleNotice \/ RefuseRunningCommand \/ StartExactCancel \/ BackendDone => cause' = cause
    BY DEF HandleNotice, RefuseRunningCommand, StartExactCancel, BackendDone
  <2>3. SettleNothing \/ AbortExactCancel \/ RefuseFinalizingCommand \/ FinishDraining
          \/ EmitTerminal \/ Exit => cause' = cause
    BY DEF SettleNothing, AbortExactCancel, RefuseFinalizingCommand, FinishDraining,
           EmitTerminal, Exit
  <2>4. WriterStep \/ ClientStep \/ BackendStep => cause' = cause
    BY DEF WriterStep, ClientStep, WriterFlush, WriterFail, ClientSend, ClientClose, Signal,
           BackendStep, ExactSettles, BackendAccepts, BackendReports, BackendFinishes
  <2>5. UNCHANGED vars => cause' = cause OBVIOUS
  <2> QED BY <2>1, <2>2, <2>3, <2>4, <2>5
          DEF Next, ServerStep, DuringTurn, AfterTurn, Done
<1> QED BY <1>2, <1>4, <1>7, <1>8, <1>9, <1>10

LEMMA CancelReasonStep ==
  ASSUME IInv, Lifecycle, OutputShape, CauseAcknowledged, CancelReasonAcknowledged, [Next]_vars
  PROVE  CancelReasonAcknowledged'
<1> SUFFICES ASSUME NEW i \in 1 .. Len(out'), out'[i].type = "turn.cancelled",
                    out'[i].info \in CommandIds
             PROVE  \E j \in 1 .. (i - 1) : /\ out'[j].type = "command.accepted"
                                            /\ out'[j].cmd = out'[i].info
  BY DEF CancelReasonAcknowledged
<1>0. out \in Seq(Records) BY DEF IInv, TypeOK, OutputType
<1>1. \A j \in 1 .. Len(out) : j \in 1 .. Len(out') /\ out'[j] = out[j]
  BY OldRecords
<1>2. CASE i \in 1 .. Len(out)
  <2>1. PICK j \in 1 .. (i - 1) : out[j].type = "command.accepted" /\ out[j].cmd = out[i].info
    BY <1>1, <1>2 DEF CancelReasonAcknowledged
  <2> QED BY <1>0, <1>1, <1>2, <2>1
<1>3. CASE i \notin 1 .. Len(out)
  <2>1. "turn.cancelled" \notin EventTypes \cup AnswerTypes /\ Marker.type \in EventTypes
    BY DEF EventTypes, AnswerTypes, Marker, Rec
  <2>2. Terminates /\ out'[i] = ChosenTerminal.record /\ writer = "running"
    BY <1>3, <2>1, NewRecord
  <2>3. ChosenTerminal.record.info = cause
    <3>1. ChosenTerminal.record.type = "turn.cancelled" BY <2>2
    <3>2. outcome.kind \in {"completed", "cancelled", "failed"}
      BY <2>2 DEF Terminates, EmitTerminal, IInv, OutcomeKnown, AfterBackend, Outcomes
    <3> QED
      BY <2>2, <3>1, <3>2, NamesAssumption
         DEF ChosenTerminal, CompletedTerminal, FailedTerminal, CancelledTerminal, Failure,
             Terminal, Rec
  <2>4. PICK j \in 1 .. Len(out) : out[j].type = "command.accepted" /\ out[j].cmd = cause
    BY <2>2, <2>3 DEF CauseAcknowledged
  <2> QED BY <1>0, <1>1, <1>3, <2>2, <2>3, <2>4
<1> QED BY <1>2, <1>3

-----------------------------------------------------------------------------
(* The commands.  A step refuses one, accepts one at once, starts the exact *)
(* cancellation, settles it, or answers nothing.                           *)

Says(type, id, code) ==
  \/ writer # "running" /\ out' = out
  \/ AddsRecord(Rec(type, id, accepted, code, 0))

Refuses ==
  /\ recordCount > 0 /\ recordCount' = recordCount + 1
  /\ fatal # "malformed" /\ fatal' = fatal
  /\ UNCHANGED <<pendingCancel, cancelRequested>>
  /\ \E id \in CommandIds, code \in RecordCodes :
       /\ commandIds' = commandIds \cup {id}
       /\ id \in commandIds => code = "duplicate_command_id"
       /\ Says("command.rejected", id, code)

AcceptsAtOnce ==
  /\ recordCount > 0 /\ recordCount' = recordCount + 1
  /\ fatal # "malformed" /\ fatal' = fatal
  /\ pendingCancel = NoCommand /\ pendingCancel' = NoCommand
  /\ ~cancelRequested /\ cancelRequested'
  /\ \E id \in CommandIds \ commandIds :
       /\ commandIds' = commandIds \cup {id}
       /\ Says("command.accepted", id, "turn.cancel")

StartsExact ==
  /\ recordCount > 0 /\ recordCount' = recordCount + 1
  /\ fatal # "malformed" /\ fatal' = fatal
  /\ pendingCancel = NoCommand /\ pendingCancel' \in CommandIds \ commandIds
  /\ ~cancelRequested /\ cancelRequested'
  /\ commandIds' = commandIds \cup {pendingCancel'} /\ out' = out

SettlesExact ==
  /\ UNCHANGED <<recordCount, commandIds>>
  /\ fatal' = "malformed" <=> fatal = "malformed"
  /\ pendingCancel \in CommandIds /\ pendingCancel' = NoCommand
  /\ cancelRequested => cancelRequested'
  /\ \E type \in AnswerTypes, code \in RecordCodes : Says(type, pendingCancel, code)

AnswersNothing ==
  /\ \A i \in 1 .. Len(out') : i \notin 1 .. Len(out) => out'[i].type \notin AnswerTypes
  /\ pendingCancel' = pendingCancel /\ commandIds \subseteq commandIds'
  /\ cancelRequested => cancelRequested'
  /\ \/ recordCount' = recordCount /\ (fatal' = "malformed" <=> fatal = "malformed")
     \/ /\ recordCount > 0 /\ fatal # "malformed"
        /\ recordCount' = recordCount + (IF fatal' = "malformed" THEN 1 ELSE 0)
     \/ recordCount = 0 /\ recordCount' = 1 /\ fatal' = fatal

\* The steps that touch no command.
LEMMA QuietSteps ==
  ASSUME IInv, Lifecycle, [Next]_vars,
         ~AnsweringStep, ~StartExactCancel
  PROVE  /\ pendingCancel' = pendingCancel /\ commandIds \subseteq commandIds'
         /\ cancelRequested => cancelRequested'
         /\ \/ recordCount' = recordCount /\ fatal' = fatal
            \/ ReadFatalInput
            \/ recordCount = 0 /\ recordCount' = 1 /\ fatal' = fatal
<1> USE DEF vars, cancelVars, exactVars, inputVars
<1>1. CASE StartTurn BY <1>1 DEF StartTurn, Lifecycle
<1>2. CASE RefuseFirstRecord \/ EndOfInputBeforeStart \/ SignalBeforeStart
             \/ OutputLostBeforeStart \/ ExitBeforeStart
  BY <1>2 DEF RefuseFirstRecord, EndOfInputBeforeStart, SignalBeforeStart,
              OutputLostBeforeStart, ExitBeforeStart, FailBeforeStart
<1>3. CASE HandleNotice \/ ReadFatalInput \/ ReadEndOfInput \/ SignalDuringTurn
             \/ OutputLostDuringTurn \/ BackendDone
  BY <1>3 DEF HandleNotice, ReadFatalInput, ReadEndOfInput, SignalDuringTurn,
              OutputLostDuringTurn, BackendDone, FallbackCancel, FatalInput
<1>4. CASE SettleNothing \/ FinishDraining \/ EmitTerminal \/ Exit
  BY <1>4 DEF SettleNothing, FinishDraining, EmitTerminal, Exit
<1>5. CASE WriterStep \/ ClientStep \/ BackendStep
  BY <1>5 DEF WriterStep, ClientStep, WriterFlush, WriterFail, ClientSend, ClientClose, Signal,
              BackendStep, ExactSettles, BackendAccepts, BackendReports, BackendFinishes
<1>6. CASE UNCHANGED vars BY <1>6
<1> QED BY <1>1, <1>2, <1>3, <1>4, <1>5, <1>6
        DEF Next, ServerStep, BeforeStart, DuringTurn, AfterTurn, Done, AnsweringStep

LEMMA CommandMoves ==
  ASSUME IInv, Lifecycle, [Next]_vars
  PROVE  Refuses \/ AcceptsAtOnce \/ StartsExact \/ SettlesExact \/ AnswersNothing
<1>0. /\ stdin # <<>> => Head(stdin) \in ClientRecords
      /\ phase \in {"running", "finalizing"} => recordCount > 0
      /\ phase \in {"running", "finalizing"} /\ inputOpen => fatal # "malformed"
      /\ phase = "finalizing" => inputOpen
      /\ {"command.accepted", "command.rejected"} \subseteq AnswerTypes
      /\ recordCount \in Nat
  BY BoundsAssumption DEF IInv, TypeOK, InputType, Lifecycle, Started, AfterBackend, AnswerTypes
<1>1. ASSUME NEW r \in ClientRecords, FatalCode(r) = NoError
      PROVE  r.id \in CommandIds
  BY <1>0, <1>1, FramedRecord
<1>2. ASSUME NEW r \in ClientRecords, FatalCode(r) = NoError, NEW code \in RecordCodes,
             CommonRefusal(r) # "none" => code = CommonRefusal(r), RefuseCommand(r, code),
             phase \in {"running", "finalizing"}, inputOpen,
             UNCHANGED <<pendingCancel, cancelRequested, fatal>>
      PROVE  Refuses
  <2>1. r.id \in commandIds => code = "duplicate_command_id" BY <1>2 DEF CommonRefusal
  <2>2. Says("command.rejected", r.id, code)
    BY <1>0, <1>1, <1>2, AnswerMoves DEF RefuseCommand, Says, IInv
  <2> QED BY <1>0, <1>1, <1>2, <2>1, <2>2 DEF RefuseCommand, Refuses
<1>3. CASE RefuseRunningCommand
  <2>1. PICK code \in RecordCodes : /\ CommonRefusal(Head(stdin)) # "none"
                                         => code = CommonRefusal(Head(stdin))
                                    /\ RefuseCommand(Head(stdin), code)
    BY <1>3, RefusalsAreCodes DEF RefuseRunningCommand
  <2> QED BY <1>0, <1>2, <1>3, <2>1 DEF RefuseRunningCommand, exactVars, cancelVars
<1>4. CASE RefuseFinalizingCommand
  <2>1. CASE FatalInput(Head(stdin))
    <3>1. recordCount' = recordCount + (IF fatal' = "malformed" THEN 1 ELSE 0)
          /\ out' = out /\ commandIds' = commandIds
      BY <1>0, <2>1 DEF FatalInput
    <3> QED BY <1>0, <1>4, <3>1 DEF RefuseFinalizingCommand, AnswersNothing, exactVars, cancelVars
  <2>2. CASE ~FatalInput(Head(stdin))
    <3>1. PICK code \in RecordCodes : /\ CommonRefusal(Head(stdin)) # "none"
                                           => code = CommonRefusal(Head(stdin))
                                      /\ RefuseCommand(Head(stdin), code)
      BY <1>4, <2>2, RefusalsAreCodes DEF RefuseFinalizingCommand
    <3> QED BY <1>0, <1>2, <1>4, <2>2, <3>1 DEF RefuseFinalizingCommand, exactVars, cancelVars
  <2> QED BY <2>1, <2>2
<1>5. ASSUME NEW r \in ClientRecords, AdmitCancel(r)
      PROVE  /\ r.id \in CommandIds \ commandIds /\ ~cancelRequested /\ cancelRequested'
             /\ pendingCancel = NoCommand
             /\ commandIds' = commandIds \cup {r.id} /\ recordCount' = recordCount + 1
  BY <1>1, <1>5 DEF AdmitCancel, CancelInProgress, CommonRefusal
<1>6. CASE CancelBeforeSession
  <2>1. Says("command.accepted", Head(stdin).id, "turn.cancel")
    BY <1>0, <1>5, <1>6, AnswerMoves, RefusalsAreCodes DEF CancelBeforeSession, Says, IInv
  <2> QED BY <1>0, <1>5, <1>6, <2>1 DEF CancelBeforeSession, AcceptsAtOnce, exactVars
<1>7. CASE StartExactCancel
  BY <1>0, <1>5, <1>7 DEF StartExactCancel, StartsExact
<1>8. exactTask # "none" => pendingCancel \in CommandIds
  BY DEF IInv, ExactTracked, TypeOK, TurnType
<1>9. ASSUME AnswerExactCancel, exactTask \in ExactResults, UNCHANGED <<recordCount, commandIds>>,
             cancelRequested => cancelRequested'
      PROVE  SettlesExact
  <2>1. /\ {"cancellation_failed", "turn_not_cancellable", "turn.cancel"} \subseteq RecordCodes
        /\ pendingCancel \in CommandIds
    BY <1>8, <1>9, RefusalsAreCodes DEF ExactResults, FatalCodes
  <2>2. \E type \in AnswerTypes, code \in RecordCodes : Answer(type, pendingCancel, code)
    BY <1>0, <1>9, <2>1 DEF AnswerExactCancel
  <2>3. \E type \in AnswerTypes, code \in RecordCodes : Says(type, pendingCancel, code)
    BY <2>1, <2>2, AnswerMoves DEF Says, IInv
  <2> QED BY <1>9, <2>1, <2>3, NamesAssumption DEF AnswerExactCancel, SettlesExact
<1>10. CASE ExactCancelDone
  BY <1>9, <1>10 DEF ExactCancelDone, FallbackCancel, CreditExactCancel
<1>11. CASE SettleFinishedExact
  BY <1>9, <1>11 DEF SettleFinishedExact, CreditExactCancel
<1>12. CASE AbortExactCancel
  <2>1. "turn_not_cancellable" \in RecordCodes BY RefusalsAreCodes
  <2>2. Says("command.rejected", pendingCancel, "turn_not_cancellable")
    BY <1>0, <1>8, <1>12, <2>1, AnswerMoves DEF AbortExactCancel, Says, IInv
  <2> QED BY <1>0, <1>8, <1>12, <2>1, <2>2
          DEF AbortExactCancel, SettlesExact, inputVars, cancelVars
<1>13. CASE ~AnsweringStep /\ ~StartExactCancel
  <2>1. ASSUME NEW i \in 1 .. Len(out'), i \notin 1 .. Len(out)
        PROVE  out'[i].type \notin AnswerTypes
    <3>1. /\ Marker.type \notin AnswerTypes /\ EventTypes \cap AnswerTypes = {}
          /\ Terminals \cap AnswerTypes = {}
          /\ {"process.failed", "turn.accepted"} \cap AnswerTypes = {}
      BY DEF Marker, Rec, AnswerTypes, EventTypes, Terminals, TurnTerminals
    <3>2. Terminates => ChosenTerminal.record.type \in Terminals
      BY ChosenIsTerminal DEF Terminates
    <3> QED BY <1>13, <2>1, <3>1, <3>2, NewRecord DEF Answers
  <2>2. ReadFatalInput =>
          /\ recordCount > 0 /\ fatal # "malformed"
          /\ recordCount' = recordCount + (IF fatal' = "malformed" THEN 1 ELSE 0)
    BY <1>0 DEF ReadFatalInput, FatalInput
  <2> QED BY <1>13, <2>1, <2>2, QuietSteps DEF AnswersNothing, AnsweringStep
<1> QED BY <1>3, <1>4, <1>6, <1>7, <1>10, <1>11, <1>12, <1>13 DEF AnsweringStep

\* An answer is the last record; the answers before it stay as they are.
LEMMA SaysOne ==
  ASSUME IInv, [Next]_vars, NEW type \in AnswerTypes, NEW id, NEW code, Says(type, id, code)
  PROVE  /\ \A i \in AnswersSent : i \in AnswersSent' /\ out'[i] = out[i]
         /\ \/ out' = out /\ AnswersSent' = AnswersSent /\ writer # "running"
            \/ /\ AnswersSent' = AnswersSent \cup {Len(out')}
               /\ Len(out') = Len(out) + 1
               /\ out'[Len(out')].type = type /\ out'[Len(out')].cmd = id
               /\ out'[Len(out')].info = code
<1> USE DEF AnswersSent
<1>1. CASE out' = out /\ writer # "running" BY <1>1
<1>2. CASE AddsRecord(Rec(type, id, accepted, code, 0))
  <2>1. /\ Len(out') = Len(out) + 1 /\ out'[Len(out')].type = type
        /\ out'[Len(out')].cmd = id /\ out'[Len(out')].info = code
        /\ \A i \in 1 .. Len(out) : out'[i] = out[i]
    BY <1>2 DEF AddsRecord, Rec
  <2>2. Len(out) \in Nat BY OldRecords
  <2>3. AnswersSent' = AnswersSent \cup {Len(out')} BY <2>1, <2>2
  <2> QED BY <2>1, <2>2, <2>3
<1> QED BY <1>1, <1>2 DEF Says

LEMMA SaysNothing ==
  ASSUME IInv, [Next]_vars, AnswersNothing
  PROVE  AnswersSent' = AnswersSent /\ \A i \in AnswersSent : out'[i] = out[i]
<1>1. \A i \in 1 .. Len(out) : i \in 1 .. Len(out') /\ out'[i] = out[i] BY OldRecords
<1> QED BY <1>1 DEF AnswersNothing, AnswersSent

LEMMA AnswersKnownStep ==
  ASSUME IInv, Lifecycle, AnswersKnown, [Next]_vars
  PROVE  AnswersKnown'
<1> DEFINE Accepted(i) == out[i].type = "command.accepted"
<1>0. /\ "command.accepted" \in AnswerTypes /\ "command.rejected" \in AnswerTypes
      /\ (\A i \in 1 .. Len(out) : Accepted(i) => cancelRequested /\ pendingCancel = NoCommand)
           <=> \A i \in AnswersSent : Accepted(i) => cancelRequested /\ pendingCancel = NoCommand
      /\ (\A i \in AnswersSent' : Accepted(i)' => cancelRequested' /\ pendingCancel' = NoCommand)
           => \A i \in 1 .. Len(out') : Accepted(i)' => cancelRequested' /\ pendingCancel' = NoCommand
  BY DEF AnswersSent, AnswerTypes
<1> HIDE DEF Accepted
<1>1. CASE Refuses
  <2>1. PICK id \in CommandIds, code \in RecordCodes :
          /\ commandIds' = commandIds \cup {id}
          /\ id \in commandIds => code = "duplicate_command_id"
          /\ Says("command.rejected", id, code)
    BY <1>1 DEF Refuses
  <2>2. \A i \in AnswersSent' :
          \/ i \in AnswersSent /\ out'[i] = out[i]
          \/ out'[i].cmd = id /\ out'[i].info = code /\ out'[i].type = "command.rejected"
    BY <1>0, <2>1, SaysOne
  <2> QED BY <1>0, <1>1, <2>1, <2>2 DEF Refuses, AnswersKnown, Accepted
<1>2. CASE AcceptsAtOnce
  <2>1. PICK id \in CommandIds \ commandIds :
          /\ commandIds' = commandIds \cup {id}
          /\ Says("command.accepted", id, "turn.cancel")
    BY <1>2 DEF AcceptsAtOnce
  <2>2. \A i \in AnswersSent' :
          \/ i \in AnswersSent /\ out'[i] = out[i]
          \/ out'[i].cmd = id /\ out'[i].type = "command.accepted"
    BY <1>0, <2>1, SaysOne
  <2> QED BY <1>0, <1>2, <2>1, <2>2 DEF AcceptsAtOnce, AnswersKnown, Accepted
<1>3. CASE StartsExact
  <2>1. AnswersSent' = AnswersSent BY <1>3 DEF StartsExact, AnswersSent
  <2> QED BY <1>0, <1>3, <2>1 DEF StartsExact, AnswersKnown, Accepted
<1>4. CASE SettlesExact
  <2>1. PICK type \in AnswerTypes, code \in RecordCodes : Says(type, pendingCancel, code)
    BY <1>4 DEF SettlesExact
  <2>2. \A i \in AnswersSent' :
          \/ i \in AnswersSent /\ out'[i] = out[i]
          \/ out'[i].cmd = pendingCancel
    BY <2>1, SaysOne
  <2>3. pendingCancel # NoCommand BY <1>4, NamesAssumption DEF SettlesExact
  <2> QED BY <1>0, <1>4, <2>2, <2>3 DEF SettlesExact, AnswersKnown, Accepted
<1>5. CASE AnswersNothing
  <2>1. AnswersSent' = AnswersSent /\ \A i \in AnswersSent : out'[i] = out[i]
    BY <1>5, SaysNothing
  <2> QED BY <1>0, <1>5, <2>1 DEF AnswersNothing, AnswersKnown, Accepted
<1> QED BY <1>1, <1>2, <1>3, <1>4, <1>5, CommandMoves

\* Two answers of which the second is the one just added.
LEMMA OneVerdictStep ==
  ASSUME IInv, Lifecycle, AnswersKnown, OneVerdictPerCommand, [Next]_vars
  PROVE  OneVerdictPerCommand'
<1> DEFINE Apart(a, b) ==
             /\ a.cmd = b.cmd => "duplicate_command_id" \in {a.info, b.info}
             /\ ~(a.type = "command.accepted" /\ b.type = "command.accepted")
<1>0. /\ "command.accepted" \in AnswerTypes /\ "command.rejected" \in AnswerTypes
      /\ AnswersSent \subseteq 1 .. Len(out) /\ AnswersSent' \subseteq 1 .. Len(out')
      /\ Len(out) \in Nat
  BY OldRecords DEF AnswersSent, AnswerTypes
<1>1. SUFFICES ASSUME NEW i \in AnswersSent', NEW j \in AnswersSent', i < j
               PROVE  Apart(out'[i], out'[j])
  BY DEF OneVerdictPerCommand
<1>2. i \in AnswersSent /\ j \in AnswersSent /\ out'[i] = out[i] /\ out'[j] = out[j]
        => Apart(out'[i], out'[j])
  BY <1>1 DEF OneVerdictPerCommand
<1>3. ASSUME NEW type \in AnswerTypes, NEW id, NEW code, Says(type, id, code),
             j \notin AnswersSent
      PROVE  /\ i \in AnswersSent /\ out'[i] = out[i]
             /\ out'[j].type = type /\ out'[j].cmd = id /\ out'[j].info = code
  BY <1>0, <1>1, <1>3, SaysOne
<1>4. ASSUME NEW type \in AnswerTypes, NEW id, NEW code, Says(type, id, code), j \in AnswersSent
      PROVE  Apart(out'[i], out'[j])
  BY <1>0, <1>1, <1>2, <1>4, SaysOne
<1>5. CASE Refuses
  <2>1. PICK id \in CommandIds, code \in RecordCodes :
          /\ id \in commandIds => code = "duplicate_command_id"
          /\ Says("command.rejected", id, code)
    BY <1>5 DEF Refuses
  <2> QED BY <1>0, <1>3, <1>4, <2>1 DEF AnswersKnown
<1>6. CASE AcceptsAtOnce
  <2>1. PICK id \in CommandIds \ commandIds : Says("command.accepted", id, "turn.cancel")
    BY <1>6 DEF AcceptsAtOnce
  <2> QED BY <1>0, <1>3, <1>4, <1>6, <2>1 DEF AcceptsAtOnce, AnswersKnown
<1>7. CASE StartsExact \/ AnswersNothing
  <2>1. AnswersSent' = AnswersSent /\ \A k \in AnswersSent : out'[k] = out[k]
    BY <1>7, SaysNothing DEF StartsExact, AnswersSent
  <2> QED BY <1>1, <1>2, <2>1
<1>8. CASE SettlesExact
  <2>1. PICK type \in AnswerTypes, code \in RecordCodes : Says(type, pendingCancel, code)
    BY <1>8 DEF SettlesExact
  <2>2. pendingCancel # NoCommand BY <1>8, NamesAssumption DEF SettlesExact
  <2> QED BY <1>0, <1>3, <1>4, <2>1, <2>2 DEF AnswersKnown
<1> QED BY <1>5, <1>6, <1>7, <1>8, CommandMoves

\* Every command counted is answered, once.
LEMMA AnsweredStep ==
  ASSUME IInv, Lifecycle, AnswersKnown, EveryCommandAnswered, [Next]_vars
  PROVE  EveryCommandAnswered'
<1> DEFINE Owed == (IF pendingCancel # NoCommand THEN 1 ELSE 0)
                     + (IF fatal = "malformed" THEN 1 ELSE 0)
           Counted == Cardinality(AnswersSent) + (IF pendingCancel # NoCommand THEN 1 ELSE 0)
                                               + (IF fatal = "malformed" THEN 1 ELSE 0)
<1>0. /\ IsFiniteSet(AnswersSent) /\ Cardinality(AnswersSent) \in Nat
      /\ recordCount \in Nat /\ recordCount' \in Nat /\ Owed \in Nat /\ Owed' \in Nat
      /\ Len(out) \in Nat /\ AnswersSent \subseteq 1 .. Len(out)
  <2>1. Len(out) \in Nat /\ AnswersSent \subseteq 1 .. Len(out) BY OldRecords DEF AnswersSent
  <2>2. IsFiniteSet(1 .. Len(out)) BY <2>1, FS_Interval
  <2>3. IsFiniteSet(AnswersSent) BY <2>1, <2>2, FS_Subset
  <2> QED BY <2>1, <2>3, FS_CardinalityType, NextInvariant, BoundsAssumption
          DEF IInv, TypeOK, InputType
<1>11. IsFiniteSet(AnswersSent') /\ Cardinality(AnswersSent') \in Nat
  <2>1. Len(out') \in Nat /\ AnswersSent' \subseteq 1 .. Len(out') BY OldRecords DEF AnswersSent
  <2>2. IsFiniteSet(1 .. Len(out')) BY <2>1, FS_Interval
  <2>3. IsFiniteSet(AnswersSent') BY <2>1, <2>2, FS_Subset
  <2> QED BY <2>3, FS_CardinalityType
<1>12. Counted = Cardinality(AnswersSent) + Owed
       /\ Counted' = Cardinality(AnswersSent') + Owed'
  BY <1>0, <1>11
<1>13. EveryCommandAnswered' <=>
         (writer' = "running" /\ recordCount' > 0 => Counted' = recordCount' - 1)
  BY DEF EveryCommandAnswered
<1>14. writer = "running" /\ recordCount > 0 => Counted = recordCount - 1
  BY DEF EveryCommandAnswered
<1> HIDE DEF Counted
<1>1. SUFFICES ASSUME writer' = "running", recordCount' > 0
               PROVE  Cardinality(AnswersSent') + Owed' = recordCount' - 1
  BY <1>12, <1>13
<1>2. writer = "running" BY <1>1, WriterMoves
<1>3. recordCount > 0 => Cardinality(AnswersSent) + Owed = recordCount - 1
  BY <1>2, <1>12, <1>14
<1>4. ASSUME NEW type \in AnswerTypes, NEW id, NEW code, Says(type, id, code)
      PROVE  Cardinality(AnswersSent') = Cardinality(AnswersSent) + 1
  <2>1. AnswersSent' = AnswersSent \cup {Len(out')} /\ Len(out') = Len(out) + 1
    BY <1>2, <1>4, SaysOne
  <2>2. Len(out') \notin AnswersSent BY <1>0, <2>1
  <2> QED BY <1>0, <2>1, <2>2, FS_AddElement
<1>5. {"command.accepted", "command.rejected"} \subseteq AnswerTypes BY DEF AnswerTypes
<1>6. CASE Refuses
  <2>1. Cardinality(AnswersSent') = Cardinality(AnswersSent) + 1
    BY <1>4, <1>5, <1>6 DEF Refuses
  <2> QED BY <1>0, <1>3, <1>6, <2>1 DEF Refuses
<1>7. CASE AcceptsAtOnce
  <2>1. Cardinality(AnswersSent') = Cardinality(AnswersSent) + 1
    BY <1>4, <1>5, <1>7 DEF AcceptsAtOnce
  <2> QED BY <1>0, <1>3, <1>7, <2>1 DEF AcceptsAtOnce
<1>8. CASE StartsExact
  <2>1. AnswersSent' = AnswersSent BY <1>8 DEF StartsExact, AnswersSent
  <2>2. Owed = 0 /\ Owed' = 1 BY <1>8, NamesAssumption DEF StartsExact
  <2> QED BY <1>0, <1>3, <1>8, <2>1, <2>2 DEF StartsExact
<1>9. CASE SettlesExact
  <2>1. Cardinality(AnswersSent') = Cardinality(AnswersSent) + 1
    BY <1>4, <1>9 DEF SettlesExact
  <2>2. Owed = Owed' + 1 BY <1>9, NamesAssumption DEF SettlesExact
  <2> QED BY <1>0, <1>1, <1>3, <1>9, <2>1, <2>2 DEF SettlesExact
<1>10. CASE AnswersNothing
  <2>1. AnswersSent' = AnswersSent BY <1>10, SaysNothing
  <2>2. CASE recordCount' = recordCount /\ (fatal' = "malformed" <=> fatal = "malformed")
    BY <1>0, <1>1, <1>3, <1>10, <2>1, <2>2 DEF AnswersNothing
  <2>3. CASE /\ recordCount > 0 /\ fatal # "malformed"
             /\ recordCount' = recordCount + (IF fatal' = "malformed" THEN 1 ELSE 0)
    BY <1>0, <1>3, <1>10, <2>1, <2>3 DEF AnswersNothing
  <2>4. CASE recordCount = 0 /\ recordCount' = 1 /\ fatal' = fatal
    <3>1. AnswersSent = {} BY <2>4 DEF AnswersKnown, Lifecycle
    <3>2. Owed' = 0 BY <1>10, <2>4, NamesAssumption DEF AnswersNothing, Lifecycle
    <3> QED BY <2>1, <2>4, <3>1, <3>2, FS_EmptySet
  <2> QED BY <1>10, <2>2, <2>3, <2>4 DEF AnswersNothing
<1> QED BY <1>6, <1>7, <1>8, <1>9, <1>10, CommandMoves

-----------------------------------------------------------------------------
(* The exit code.                                                          *)

\* A process that exited does nothing more.
LEMMA ExitedIsStill ==
  ASSUME IInv, Lifecycle, [Next]_vars, phase = "exited"
  PROVE  UNCHANGED vars
<1>1. CASE BeforeStart
  BY <1>1 DEF BeforeStart, StartTurn, RefuseFirstRecord, EndOfInputBeforeStart,
              SignalBeforeStart, OutputLostBeforeStart, ExitBeforeStart
<1>2. CASE DuringTurn
  BY <1>2 DEF DuringTurn, HandleNotice, ReadFatalInput, ReadEndOfInput, RefuseRunningCommand,
              CancelBeforeSession, StartExactCancel, ExactCancelDone, SignalDuringTurn,
              OutputLostDuringTurn, BackendDone
<1>3. CASE AfterTurn
  BY <1>3 DEF AfterTurn, SettleNothing, SettleFinishedExact, AbortExactCancel,
              RefuseFinalizingCommand, FinishDraining, EmitTerminal, Exit
<1>4. CASE WriterStep \/ ClientStep \/ BackendStep
  BY <1>4 DEF WriterStep, ClientStep, WriterFlush, WriterFail, ClientSend, ClientClose, Signal,
              StillReading, BackendStep, ExactSettles, BackendAccepts, BackendReports,
              BackendFinishes, Alive
<1> QED BY <1>1, <1>2, <1>3, <1>4 DEF Next, ServerStep, Done

LEMMA ExitMoves ==
  ASSUME IInv, Lifecycle, [Next]_vars
  PROVE  \/ Exit \/ ExitBeforeStart
         \/ exit' = exit /\ (phase' = "exited" <=> phase = "exited")
<1> USE DEF vars, clientVars, cancelVars, exactVars,
            inputVars, branchVars, endVars, writerVars, backendVars
<1>1. CASE StartTurn \/ RefuseFirstRecord \/ EndOfInputBeforeStart \/ SignalBeforeStart
             \/ OutputLostBeforeStart
  BY <1>1 DEF StartTurn, RefuseFirstRecord, EndOfInputBeforeStart,
              SignalBeforeStart, OutputLostBeforeStart, FailBeforeStart
<1>2. CASE DuringTurn
  BY <1>2 DEF DuringTurn, HandleNotice, ReadFatalInput, ReadEndOfInput, RefuseRunningCommand,
              CancelBeforeSession, StartExactCancel, ExactCancelDone, SignalDuringTurn,
              OutputLostDuringTurn, BackendDone
<1>3. CASE AfterTurn /\ ~Exit
  BY <1>3 DEF AfterTurn, SettleNothing, SettleFinishedExact, AbortExactCancel, AfterSettling,
              RefuseFinalizingCommand, FinishDraining, EmitTerminal
<1>4. CASE WriterStep \/ ClientStep \/ BackendStep
  BY <1>4 DEF WriterStep, ClientStep, WriterFlush, WriterFail, ClientSend, ClientClose, Signal,
              BackendStep, ExactSettles, BackendAccepts, BackendReports, BackendFinishes
<1>5. CASE UNCHANGED vars BY <1>5
<1> QED BY <1>1, <1>2, <1>3, <1>4, <1>5 DEF Next, ServerStep, BeforeStart, Done

\* The code of a terminal agrees with it; 130 without a session only says that
\* the turn was cancelled before it had one.
LEMMA TerminalAgrees ==
  ASSUME IInv, Lifecycle, EmitTerminal
  PROVE  Agrees(ChosenTerminal.status, ChosenTerminal.record)
<1>1. Fits(ChosenTerminal, accepted) BY ChosenIsTerminal
<1>2. outcome \in Outcomes BY DEF IInv, OutcomeKnown, AfterBackend, EmitTerminal
<1>3. ASSUME ChosenTerminal.record.type = "process.failed"
      PROVE  /\ ChosenTerminal.status \in {2, 3, 4, 5, 130}
             /\ ChosenTerminal.status = 130
                  <=> ChosenTerminal.record.info = "cancelled_before_acceptance"
  <2>1. /\ ChosenTerminal.status \in {2, 3, 4, 5, 130}
        /\ accepted = NoSession
    BY <1>1, <1>3 DEF Fits, ExitCodes
  <2>2. CASE fatal # NoError
    <3>1. fatal \in FatalCodes BY <2>2 DEF IInv, TypeOK, InputType
    <3>2. fatal # "cancelled_before_acceptance" /\ ExitForFatal \in {2, 5}
      BY <3>1 DEF FatalCodes, ExitForFatal
    <3>3. ChosenTerminal = Failure(fatal, ExitForFatal) BY <2>2 DEF ChosenTerminal
    <3> QED BY <2>1, <3>2, <3>3 DEF Failure, Terminal, Rec
  <2>3. CASE fatal = NoError
    <3>1. outcome.kind \in {"completed", "cancelled", "failed"} BY <1>2 DEF Outcomes
    <3>2. outcome.kind = "failed" => ExitForCategory(outcome.category) \in {2, 3, 4, 5}
      BY <1>2 DEF Outcomes, ExitForCategory, AllCategories
    <3>3. CASE outcome.kind = "completed"
      <4>1. ChosenTerminal = Failure("completion_before_acceptance", 5)
        BY <2>1, <2>3, <3>3 DEF ChosenTerminal, CompletedTerminal
      <4> QED BY <2>1, <4>1 DEF Failure, Terminal, Rec
    <3>4. CASE outcome.kind = "cancelled"
      <4>1. ChosenTerminal = Failure("cancelled_before_acceptance", 130)
        BY <2>1, <2>3, <3>4 DEF ChosenTerminal, CancelledTerminal
      <4> QED BY <2>1, <4>1 DEF Failure, Terminal, Rec
    <3>5. CASE outcome.kind = "failed"
      <4>1. \/ ChosenTerminal = Failure("cancelled_before_acceptance", 130)
            \/ ChosenTerminal = Failure("backend_error", ExitForCategory(outcome.category))
            \/ ChosenTerminal = Failure("result_too_large", 5)
        BY <2>1, <2>3, <3>5 DEF ChosenTerminal, FailedTerminal, CancelledTerminal
      <4> QED BY <2>1, <3>2, <3>5, <4>1 DEF Failure, Terminal, Rec
    <3> QED BY <3>1, <3>3, <3>4, <3>5
  <2> QED BY <2>1, <2>2, <2>3
<1> QED BY <1>1, <1>3 DEF Fits, Agrees, ExitCodes

LEMMA VerdictStep ==
  ASSUME IInv, Lifecycle, OutputShape, VerdictAgrees, [Next]_vars
  PROVE  VerdictAgrees'
<1>0. /\ Len(out) \in Nat /\ Len(out') \in Nat /\ writer \in {"running", "failed"}
      /\ recordCount \in Nat /\ NoExit \notin ExitCodes /\ "exited" \in Ended
      /\ writer' = "running" => writer = "running"
  BY OldRecords, WriterMoves, NamesAssumption, BoundsAssumption
     DEF IInv, TypeOK, InputType, OutputType, ExitCodes, Ended
<1>1. CASE phase = "exited"
  BY <1>1, ExitedIsStill
     DEF VerdictAgrees, Agrees, vars, inputVars, endVars, writerVars
<1>2. CASE phase \in {"joining", "leaving"}
  <2>1. phase' \in Ended /\ UNCHANGED <<out, recordCount, verdict>>
    BY <1>2, EndedIsFinal DEF Ended
  <2>2. phase \in Ended /\ phase # "exited" BY <1>2 DEF Ended
  <2>3. /\ verdict' \in ExitCodes
        /\ recordCount' = 0 => verdict' \in {2, 5, 130}
        /\ writer' = "running" => /\ out'[Len(out')].type \in Terminals
                                  /\ Agrees(verdict, out[Len(out)])'
    BY <1>0, <2>1, <2>2 DEF VerdictAgrees, Agrees
  <2>4. CASE Exit \/ ExitBeforeStart
    <3>1. /\ phase' = "exited" /\ UNCHANGED <<writer, flushed>> /\ WriterIsDone
          /\ exit' = IF Exit /\ writer = "failed" THEN 5 ELSE verdict
          /\ Exit => recordCount > 0
          /\ ExitBeforeStart => recordCount = 0
      BY <2>4 DEF Exit, ExitBeforeStart, writerVars, Lifecycle, Started, AfterBackend
    <3>2. exit' \in ExitCodes BY <2>1, <2>3, <3>1 DEF ExitCodes
    <3> QED BY <1>0, <2>1, <2>3, <2>4, <3>1, <3>2 DEF VerdictAgrees, WriterIsDone, OutputShape
  <2>5. CASE exit' = exit /\ phase' # "exited"
    BY <2>2, <2>3, <2>5 DEF VerdictAgrees
  <2> QED BY <2>2, <2>4, <2>5, ExitMoves
<1>3. CASE phase \notin Ended
  <2>1. exit' = exit /\ exit = NoExit /\ phase' # "exited"
    <3>1. ~Exit /\ ~ExitBeforeStart BY <1>3 DEF Exit, ExitBeforeStart, Ended
    <3> QED BY <1>0, <1>3, <3>1, ExitMoves DEF VerdictAgrees
  <2>2. CASE phase' \notin Ended
    BY <2>1, <2>2 DEF VerdictAgrees, Ended
  <2>3. CASE EmitTerminal
    <3>1. /\ ChosenTerminal.status \in ExitCodes /\ ChosenTerminal.record.type \in Terminals
          /\ Agrees(ChosenTerminal.status, ChosenTerminal.record)
      BY <2>3, ChosenIsTerminal, TerminalAgrees DEF Fits
    <3>2. /\ recordCount' = recordCount /\ recordCount > 0
          /\ verdict' = IF writer = "running" THEN ChosenTerminal.status ELSE 5
          /\ phase' = "joining" /\ writer' = writer
      BY <2>3 DEF EmitTerminal, inputVars, writerVars, Lifecycle, Started, AfterBackend
    <3>3. writer = "running" => out'[Len(out')] = ChosenTerminal.record
      <4>1. ASSUME writer = "running" PROVE out' # out
        <5>1. out \in Seq(Records) BY DEF IInv, TypeOK, OutputType
        <5>2. Len(out') > Len(out)
          BY <2>3, <4>1, <5>1 DEF EmitTerminal, Enqueue
        <5> QED BY <1>0, <5>2
      <4> QED BY <1>0, <2>3, <4>1, TerminalSteps DEF Terminates, AddsRecord, AddsTwo
    <3> QED BY <1>0, <2>1, <3>1, <3>2, <3>3 DEF VerdictAgrees, Agrees, ExitCodes
  <2>4. CASE RefuseFirstRecord \/ EndOfInputBeforeStart \/ SignalBeforeStart
    <3>1. PICK code \in RecordCodes, status \in {2, 130} :
            FailBeforeStart(code, status) /\ phase = "await_start"
      BY <2>4 DEF RefuseFirstRecord, EndOfInputBeforeStart, SignalBeforeStart, RecordCodes
    <3>2. /\ recordCount' = recordCount /\ recordCount = 0 /\ verdict' = status
          /\ writer' = writer
      BY <3>1 DEF FailBeforeStart, inputVars, writerVars, Lifecycle
    <3>3. writer = "running" =>
            out'[Len(out')] = Rec("process.failed", NoCommand, NoSession, code, 0)
      BY <1>0, <3>1, EnqueueOne, TheseAreRecords DEF FailBeforeStart, AddsRecord, IInv, Enqueue
    <3>4. phase' \in Ended BY <3>1 DEF FailBeforeStart, Ended
    <3> QED BY <1>0, <2>1, <3>2, <3>3, <3>4 DEF VerdictAgrees, Agrees, ExitCodes, Rec, Terminals
  <2>5. CASE OutputLostBeforeStart
    BY <1>0, <2>1, <2>5 DEF OutputLostBeforeStart, VerdictAgrees, ExitCodes, inputVars,
                            writerVars, Lifecycle
  <2> QED BY <1>3, <2>2, <2>3, <2>4, <2>5, EndStep
<1> QED BY <1>1, <1>2, <1>3 DEF Ended

\* What the process ends with is what its output says.
LEMMA ExitFromVerdict ==
  ASSUME IInv, OutputShape, VerdictAgrees
  PROVE  ExitAgreesWithOutput
<1> SUFFICES ASSUME exit # NoExit, recordCount > 0
             PROVE  /\ exit # 5 => flushed = Len(out) /\ LastWritten(Terminals)
                    /\ exit = 0 <=> LastWritten({"turn.completed"})
                    /\ exit = 130 <=>
                         \/ LastWritten({"turn.cancelled"})
                         \/ /\ LastWritten({"process.failed"})
                            /\ out[flushed].info = "cancelled_before_acceptance"
  BY DEF ExitAgreesWithOutput
<1>1. /\ phase = "exited" /\ phase \in Ended /\ flushed \in 0 .. Len(out) /\ Len(out) \in Nat
      /\ writer \in {"running", "failed"} /\ recordCount \in Nat
  BY BoundsAssumption DEF VerdictAgrees, Ended, IInv, TypeOK, OutputType, InputType
<1>2. CASE writer = "running"
  <2>1. /\ flushed = Len(out) /\ exit = verdict
        /\ out[Len(out)].type \in Terminals /\ Agrees(verdict, out[Len(out)])
    BY <1>1, <1>2 DEF VerdictAgrees
  <2>2. Len(out) > 0 BY DEF OutputShape
  <2> QED BY <1>1, <2>1, <2>2 DEF LastWritten, Agrees, Terminals, TurnTerminals
<1>3. CASE writer = "failed"
  <2>1. exit = 5 /\ flushed < Len(out) BY <1>1, <1>3 DEF VerdictAgrees, OutputShape
  <2>2. flushed > 0 => out[flushed].type \notin Terminals
    BY <1>1, <2>1 DEF OutputShape
  <2> QED BY <1>1, <2>1, <2>2 DEF LastWritten, Terminals, TurnTerminals
<1> QED BY <1>1, <1>2, <1>3

-----------------------------------------------------------------------------
(* The events.  A step takes a notice, adds one, or leaves them alone.     *)

Takes == notices # <<>> /\ notices' = Tail(notices) /\ produced' = produced
Adds(n) == notices' = Append(notices, n)
Reported == [kind |-> "event", session |-> NoSession, n |-> produced + 1]

LEMMA ChannelMoves ==
  ASSUME IInv, [Next]_vars
  PROVE  \/ HandleNotice /\ Takes
         \/ /\ out' = out /\ UNCHANGED <<accepted, dropPending>>
            /\ \/ \E s \in SessionIds :
                    Adds([kind |-> "accepted", session |-> s, n |-> 0]) /\ produced' = produced
               \/ Adds(Reported) /\ produced' = produced + 1
         \/ EmitTerminal /\ UNCHANGED <<notices, produced, accepted>>
         \/ UNCHANGED <<notices, produced, accepted, dropPending>>
<1> USE DEF vars, clientVars, cancelVars, exactVars,
            inputVars, branchVars, endVars, writerVars, backendVars
<1>1. CASE BeforeStart
  BY <1>1 DEF BeforeStart, StartTurn, RefuseFirstRecord, EndOfInputBeforeStart,
              SignalBeforeStart, OutputLostBeforeStart, ExitBeforeStart, FailBeforeStart
<1>2. CASE HandleNotice BY <1>2 DEF HandleNotice, Takes
<1>3. CASE DuringTurn /\ ~HandleNotice
  BY <1>3 DEF DuringTurn, ReadFatalInput, ReadEndOfInput, RefuseRunningCommand,
              CancelBeforeSession, StartExactCancel, ExactCancelDone, SignalDuringTurn,
              OutputLostDuringTurn, BackendDone
<1>4. CASE AfterTurn
  BY <1>4 DEF AfterTurn, SettleNothing, SettleFinishedExact, AbortExactCancel,
              RefuseFinalizingCommand, FinishDraining, EmitTerminal, Exit
<1>5. CASE WriterStep \/ ClientStep \/ ExactSettles \/ BackendFinishes
  BY <1>5 DEF WriterStep, ClientStep, WriterFlush, WriterFail, ClientSend, ClientClose, Signal,
              ExactSettles, BackendFinishes
<1>6. CASE BackendAccepts BY <1>6 DEF BackendAccepts, Adds
<1>7. CASE BackendReports BY <1>7 DEF BackendReports, Adds, Reported
<1>8. CASE UNCHANGED vars BY <1>8
<1> QED BY <1>1, <1>2, <1>3, <1>4, <1>5, <1>6, <1>7, <1>8 DEF Next, ServerStep, BackendStep, Done

\* What the channel holds after such a step.
LEMMA AfterTaking ==
  ASSUME IInv, Takes
  PROVE  /\ Len(notices') = Len(notices) - 1 /\ Len(notices) \in Nat \ {0}
         /\ \A p : p \in 1 .. Len(notices') <=> p \in Nat /\ p + 1 \in 2 .. Len(notices)
         /\ \A p \in 1 .. Len(notices') : notices'[p] = notices[p + 1]
         /\ \A p \in 1 .. Len(notices') : IsEvent(notices', p) <=> IsEvent(notices, p + 1)
<1>1. notices \in Seq(Notices) BY DEF IInv, TypeOK, BackendType
<1>2. /\ Len(notices') = Len(notices) - 1 /\ Len(notices) \in Nat \ {0}
      /\ \A p \in 1 .. Len(notices') : notices'[p] = notices[p + 1]
  BY <1>1 DEF Takes
<1>3. \A p : p \in 1 .. Len(notices') <=> p \in Nat /\ p + 1 \in 2 .. Len(notices)
  BY <1>2
<1> QED BY <1>2, <1>3 DEF IsEvent

LEMMA AfterAdding ==
  ASSUME IInv, NEW n \in Notices, Adds(n)
  PROVE  /\ Len(notices') = Len(notices) + 1 /\ Len(notices) \in Nat
         /\ notices'[Len(notices')] = n
         /\ \A p \in 1 .. Len(notices) : notices'[p] = notices[p]
         /\ \A p \in 1 .. Len(notices) : IsEvent(notices', p) <=> IsEvent(notices, p)
         /\ IsEvent(notices', Len(notices')) <=> n.kind = "event"
         /\ \A p : IsEvent(notices', p) => p \in 1 .. Len(notices) \/ p = Len(notices')
<1>1. notices \in Seq(Notices) BY DEF IInv, TypeOK, BackendType
<1>2. /\ Len(notices') = Len(notices) + 1 /\ Len(notices) \in Nat
      /\ notices'[Len(notices')] = n
      /\ \A p \in 1 .. Len(notices) : notices'[p] = notices[p]
  BY <1>1 DEF Adds
<1> QED BY <1>2 DEF IsEvent

\* The types of what is reported.
LEMMA NoticeTypes ==
  ASSUME IInv
  PROVE  /\ \A p : IsEvent(notices, p) => p \in Nat /\ notices[p].n \in Nat \ {0}
         /\ produced \in Nat /\ Len(notices) \in Nat
<1>1. notices \in Seq(Notices) /\ produced \in Nat
  BY BoundsAssumption DEF IInv, TypeOK, BackendType
<1>2. \A p \in 1 .. Len(notices) : notices[p] \in Notices BY <1>1
<1> QED BY <1>1, <1>2 DEF IsEvent, Notices

LEMMA NoticesInOrderStep ==
  ASSUME IInv, NoticesInOrder, [Next]_vars
  PROVE  NoticesInOrder'
<1>0. /\ \A p : IsEvent(notices, p) => p \in Nat /\ notices[p].n \in Nat \ {0}
      /\ \A p : IsEvent(notices', p) => p \in Nat /\ notices'[p].n \in Nat \ {0}
      /\ produced \in Nat /\ Len(notices) \in Nat
  <2>1. notices' \in Seq(Notices) BY NextInvariant DEF IInv, TypeOK, BackendType
  <2>2. \A p \in 1 .. Len(notices') : notices'[p] \in Notices BY <2>1
  <2> QED BY <2>1, <2>2, NoticeTypes DEF IsEvent, Notices
<1>1. CASE Takes
  <2>1. ASSUME NEW p \in 1 .. Len(notices'), IsEvent(notices', p),
               NEW k \in notices'[p].n .. produced'
        PROVE  \E q \in 1 .. Len(notices') : IsEvent(notices', q) /\ notices'[q].n = k
    <3>1. /\ p + 1 \in 1 .. Len(notices) /\ IsEvent(notices, p + 1) /\ p + 1 > 1
          /\ k \in notices[p + 1].n .. produced
      BY <1>1, <2>1, AfterTaking DEF Takes, IsEvent
    <3>2. PICK q \in 1 .. Len(notices) : IsEvent(notices, q) /\ notices[q].n = k
      BY <3>1 DEF NoticesInOrder
    <3>3. q # 1 BY <1>0, <3>1, <3>2 DEF NoticesInOrder
    <3>4. q - 1 \in 1 .. Len(notices') /\ (q - 1) + 1 = q
      BY <1>1, <3>2, <3>3, AfterTaking
    <3> QED BY <1>1, <3>2, <3>4, AfterTaking
  <2>2. ASSUME NEW p \in 1 .. Len(notices'), IsEvent(notices', p)
        PROVE  notices'[p].n <= produced'
    BY <1>1, <2>2, AfterTaking DEF Takes, NoticesInOrder, IsEvent
  <2>3. ASSUME NEW p \in 1 .. Len(notices'), NEW q \in 1 .. Len(notices'),
               IsEvent(notices', p), IsEvent(notices', q), p < q
        PROVE  notices'[p].n < notices'[q].n
    <3>1. p + 1 < q + 1 /\ IsEvent(notices, p + 1) /\ IsEvent(notices, q + 1)
      BY <1>0, <1>1, <2>3, AfterTaking
    <3> QED BY <1>1, <3>1, AfterTaking DEF NoticesInOrder, IsEvent
  <2> QED BY <2>1, <2>2, <2>3 DEF NoticesInOrder
<1>2. ASSUME NEW s \in SessionIds,
             Adds([kind |-> "accepted", session |-> s, n |-> 0]), produced' = produced
      PROVE  NoticesInOrder'
  <2>1. [kind |-> "accepted", session |-> s, n |-> 0] \in Notices BY DEF Notices
  <2>2. /\ Len(notices') = Len(notices) + 1
        /\ \A p : IsEvent(notices', p) <=> IsEvent(notices, p)
        /\ \A p : IsEvent(notices, p) => p \in 1 .. Len(notices) /\ p \in 1 .. Len(notices')
                                /\ notices'[p] = notices[p]
    BY <1>0, <1>2, <2>1, AfterAdding DEF IsEvent
  <2> QED BY <1>2, <2>2 DEF NoticesInOrder
<1>3. CASE Adds(Reported) /\ produced' = produced + 1
  <2>1. Reported \in Notices
    <3>1. produced' \in 0 .. MaxEvents BY NextInvariant DEF IInv, TypeOK, BackendType
    <3>2. produced + 1 \in 1 .. MaxEvents BY <1>0, <1>3, <3>1, BoundsAssumption
    <3> QED BY <3>2 DEF Reported, Notices
  <2> DEFINE last == Len(notices')
  <2>2. /\ last = Len(notices) + 1 /\ last \in 1 .. last
        /\ IsEvent(notices', last) /\ notices'[last].n = produced + 1
        /\ \A p \in 1 .. last : p # last => p \in 1 .. Len(notices)
        /\ \A p \in 1 .. Len(notices) : IsEvent(notices', p) <=> IsEvent(notices, p)
        /\ \A p \in 1 .. Len(notices) : p \in 1 .. last /\ p < last /\ notices'[p] = notices[p]
    BY <1>0, <1>3, <2>1, AfterAdding DEF Reported
  <2> HIDE DEF last
  <2>3. ASSUME NEW p \in 1 .. last, IsEvent(notices', p)
        PROVE  notices'[p].n <= produced'
    BY <1>0, <1>3, <2>2, <2>3 DEF NoticesInOrder
  <2>4. ASSUME NEW p \in 1 .. last, NEW q \in 1 .. last, IsEvent(notices', p), IsEvent(notices', q), p < q
        PROVE  notices'[p].n < notices'[q].n
    <3>1. p \in 1 .. Len(notices) BY <2>2, <2>4
    <3>2. /\ notices[p].n <= produced /\ notices[p].n \in Nat
          /\ notices'[p].n = notices[p].n
      BY <1>0, <2>2, <2>4, <3>1 DEF NoticesInOrder
    <3>3. CASE q = last
      <4>1. notices'[q].n = produced + 1 BY <2>2, <3>3
      <4> QED BY <1>0, <3>2, <4>1
    <3>4. CASE q # last BY <2>2, <2>4, <3>1, <3>4 DEF NoticesInOrder
    <3> QED BY <3>3, <3>4
  <2>5. ASSUME NEW p \in 1 .. last, IsEvent(notices', p), NEW k \in notices'[p].n .. produced'
        PROVE  \E q \in 1 .. last : IsEvent(notices', q) /\ notices'[q].n = k
    <3>1. CASE k = produced + 1 BY <2>2, <3>1
    <3>2. CASE k # produced + 1
      <4>1. p \in 1 .. Len(notices) /\ k \in notices[p].n .. produced
        BY <1>0, <1>3, <2>2, <2>5, <3>2
      <4>2. PICK q \in 1 .. Len(notices) : IsEvent(notices, q) /\ notices[q].n = k
        BY <2>2, <2>5, <4>1 DEF NoticesInOrder
      <4> QED BY <2>2, <4>2
    <3> QED BY <3>1, <3>2
  <2> QED BY <2>3, <2>4, <2>5 DEF NoticesInOrder, last
<1>4. CASE notices' = notices /\ produced' = produced
  BY <1>4 DEF NoticesInOrder, IsEvent
<1> QED BY <1>1, <1>2, <1>3, <1>4, ChannelMoves

SameEvents == EventRecords' = EventRecords /\ \A j \in EventRecords : out'[j] = out[j]

\* A notice that adds nothing to a running output was no event, came before
\* acceptance, or is owed a marker.
SkipsNotice ==
  /\ SameEvents /\ Takes
  /\ accepted # NoSession => accepted' = accepted
  /\ \/ dropPending' = dropPending /\ ~IsEvent(notices, 1)
     \/ EventRecords = {}
     \/ dropPending'

MarksEnd ==
  /\ Terminates /\ accepted # NoSession /\ accepted' = accepted
  /\ AddsTwo(Marker, ChosenTerminal.record)
  /\ UNCHANGED <<notices, produced>>

LEMMA KeepingEvents ==
  ASSUME IInv, [Next]_vars,
         \A i \in 1 .. Len(out') : i \notin 1 .. Len(out) => out'[i].type \notin EventTypes
  PROVE  SameEvents
BY OldRecords DEF SameEvents, EventRecords

LEMMA SessionStays ==
  ASSUME IInv, [Next]_vars, accepted # NoSession
  PROVE  accepted' = accepted
<1>1. HandleNotice => accepted' = accepted
  BY DEF HandleNotice, AcceptSession, ForwardEvent
<1> QED BY <1>1, ChannelMoves

LEMMA SilentNotice ==
  ASSUME IInv, HandleNotice, writer = "running", out' = out
  PROVE  \/ dropPending' = dropPending /\ ~IsEvent(notices, 1)
         \/ accepted = NoSession
         \/ dropPending'
<1>1. /\ out \in Seq(Records) /\ notices \in Seq(Notices) /\ Head(notices) = notices[1]
      /\ Head(notices) \in Notices
  BY DEF IInv, TypeOK, OutputType, BackendType, HandleNotice
<1>2. CASE Head(notices).kind = "accepted" /\ AcceptSession(Head(notices))
  BY <1>1, <1>2 DEF AcceptSession, IsEvent
<1>3. CASE Head(notices).kind # "accepted" /\ ForwardEvent(Head(notices))
  <2>1. Head(notices).n \in Nat BY <1>1, <1>3 DEF Notices
  <2>2. \A r \in Records : ~Enqueue(<<r>>)
    <3> SUFFICES ASSUME NEW r \in Records, Enqueue(<<r>>) PROVE FALSE OBVIOUS
    <3>1. Len(out \o <<r>>) = Len(out) + 1 /\ Len(out) \in Nat BY <1>1
    <3> QED BY <3>1 DEF Enqueue
  <2>3. Marker \in Records /\ Event(Head(notices).n) \in Records BY <2>1, TheseAreRecords DEF IInv
  <2>4. ~Enqueue(<<Marker, Event(Head(notices).n)>>)
    <3> DEFINE rs == <<Marker, Event(Head(notices).n)>>
    <3>1. rs \in Seq(Records) /\ Len(rs) = 2 BY <2>3
    <3>2. Len(out \o rs) = Len(out) + 2 /\ Len(out) \in Nat BY <1>1, <3>1
    <3> QED BY <3>2 DEF Enqueue
  <2> QED BY <1>3, <2>2, <2>3, <2>4 DEF ForwardEvent, Event
<1> QED BY <1>2, <1>3 DEF HandleNotice

LEMMA EventMoves ==
  ASSUME IInv, NextEventFollows, [Next]_vars, writer' = "running"
  PROVE  \/ SameEvents /\ UNCHANGED <<notices, produced, accepted, dropPending>>
         \/ /\ SameEvents /\ UNCHANGED <<accepted, dropPending>>
            /\ \/ \E s \in SessionIds :
                    Adds([kind |-> "accepted", session |-> s, n |-> 0]) /\ produced' = produced
               \/ Adds(Reported) /\ produced' = produced + 1
         \/ SkipsNotice \/ Forwards \/ MarksEnd
<1>0. writer = "running" /\ dropPending \in BOOLEAN
  BY WriterMoves DEF IInv, TypeOK, FlagsType
<1>1. CASE HandleNotice /\ Takes
  <2>1. CASE out' = out
    <3>1. SameEvents BY <2>1 DEF SameEvents, EventRecords
    <3> QED BY <1>0, <1>1, <2>1, <3>1, SilentNotice, SessionStays
            DEF SkipsNotice, NextEventFollows
  <2>2. CASE Discloses
    <3>1. \A i \in 1 .. Len(out') : i \notin 1 .. Len(out) => out'[i].type = "turn.accepted"
      BY <2>2, OldRecords DEF Discloses, AddsRecord, Rec
    <3>2. SameEvents BY <3>1, KeepingEvents DEF EventTypes
    <3>3. EventRecords = {} BY <2>2 DEF Discloses, NextEventFollows
    <3> QED BY <1>1, <3>2, <3>3, SessionStays DEF SkipsNotice
  <2> QED BY <1>1, <2>1, <2>2, NoticeSteps
<1>2. CASE EmitTerminal /\ UNCHANGED <<notices, produced, accepted>>
  <2>1. CASE dropPending /\ accepted # NoSession /\ Terminates
    BY <1>2, <2>1 DEF Terminates, MarksEnd
  <2>2. CASE ~(dropPending /\ accepted # NoSession) /\ Terminates
    <3>1. AddsRecord(ChosenTerminal.record) BY <2>2 DEF Terminates
    <3>2. ChosenTerminal.record.type \notin EventTypes
      BY <1>2, ChosenIsTerminal DEF EventTypes, Terminals, TurnTerminals
    <3>3. SameEvents BY <3>1, <3>2, KeepingEvents, OldRecords DEF AddsRecord
    <3> QED BY <1>0, <1>2, <2>2, <3>3 DEF EmitTerminal
  <2>3. CASE out' = out
    <3>1. SameEvents BY <2>3 DEF SameEvents, EventRecords
    <3>2. out \in Seq(Records) BY OldRecords
    <3>3. FALSE
      BY <1>0, <1>2, <2>3, <3>2 DEF EmitTerminal, Enqueue
    <3> QED BY <3>3
  <2> QED BY <1>2, <2>1, <2>2, <2>3, TerminalSteps
<1>3. CASE out' = out /\ UNCHANGED <<accepted, dropPending>>
  BY <1>3, ChannelMoves, <1>1, <1>2 DEF SameEvents, EventRecords
<1>4. CASE UNCHANGED <<notices, produced, accepted, dropPending>> /\ ~EmitTerminal
  <2>1. ~Forwards /\ ~Terminates /\ ~Discloses
    <3>1. notices \in Seq(Notices) BY DEF IInv, TypeOK, BackendType
    <3>2. notices # <<>> => Len(Tail(notices)) = Len(notices) - 1 /\ Len(notices) \in Nat \ {0}
      BY <3>1
    <3>3. notices # <<>> => Tail(notices) # notices BY <3>2
    <3>4. IsEvent(notices, 1) => notices # <<>> BY DEF IsEvent
    <3> QED BY <1>4, <3>3, <3>4, NamesAssumption DEF Forwards, Terminates, Discloses
  <2>2. \A i \in 1 .. Len(out') : i \notin 1 .. Len(out) => out'[i].type \notin EventTypes
    BY <2>1, NewRecord DEF EventTypes, AnswerTypes
  <2> QED BY <1>4, <2>2, KeepingEvents
<1> QED BY <1>1, <1>2, <1>3, <1>4, ChannelMoves

\* What a step leaves in the channel follows the last event of the output.
LEMMA NextEventStep ==
  ASSUME IInv, OutputShape, NoticesInOrder, NextEventFollows, [Next]_vars
  PROVE  NextEventFollows'
<1> DEFINE Follows(j) ==
             /\ out'[j].n <= produced'
             /\ \A p \in 1 .. Len(notices') :
                  IsEvent(notices', p) => notices'[p].n > out'[j].n
             /\ \A k \in (out'[j].n + 1) .. produced' :
                  \E p \in 1 .. Len(notices') : IsEvent(notices', p) /\ notices'[p].n = k
<1>0. /\ Len(out) \in Nat /\ Len(out') \in Nat /\ Len(out) <= Len(out')
      /\ \A i \in 1 .. Len(out) : i \in 1 .. Len(out') /\ out'[i] = out[i]
      /\ produced \in Nat /\ Len(notices) \in Nat
      /\ \A p : IsEvent(notices, p) => p \in Nat /\ notices[p].n \in Nat \ {0}
      /\ \A i \in 1 .. Len(out') : out'[i].n \in Nat
  <2>1. \A r \in Records : r.n \in Nat BY DEF Records
  <2> QED BY <2>1, OldRecords, NoticeTypes
<1>1. EventRecords' # {} => accepted' # NoSession
  <2> SUFFICES ASSUME NEW j \in EventRecords' PROVE accepted' # NoSession OBVIOUS
  <2>1. CASE j \in 1 .. Len(out)
    <3>1. j \in EventRecords BY <1>0, <2>1 DEF EventRecords
    <3> QED BY <3>1, SessionStays DEF NextEventFollows
  <2>2. CASE j \notin 1 .. Len(out)
    <3>1. Terminates => ChosenTerminal.record.type \notin EventTypes
      BY ChosenIsTerminal DEF Terminates, EventTypes, Terminals, TurnTerminals
    <3>2. Forwards \/ (Terminates /\ j < Len(out'))
      BY <2>2, <3>1, NewRecord DEF EventRecords, EventTypes, AnswerTypes
    <3>3. Terminates /\ j < Len(out') => accepted # NoSession
      BY <1>0, <2>2 DEF Terminates, AddsRecord, AddsTwo, EventRecords
    <3>4. accepted # NoSession BY <3>2, <3>3 DEF Forwards
    <3> QED BY <3>4, SessionStays
  <2> QED BY <2>1, <2>2
<1>2. SUFFICES ASSUME writer' = "running", ~dropPending',
                      NEW j \in EventRecords', LastEvent(j)', out'[j].n > 0
               PROVE  Follows(j)
  BY <1>1 DEF NextEventFollows
<1>3. writer = "running" BY <1>2, WriterMoves
<1>4. ASSUME SameEvents, ~dropPending
      PROVE  /\ j \in EventRecords /\ out'[j] = out[j] /\ out[j].n > 0 /\ out[j].n \in Nat
             /\ out[j].n <= produced
             /\ \A p \in 1 .. Len(notices) : IsEvent(notices, p) => notices[p].n > out[j].n
             /\ \A k \in (out[j].n + 1) .. produced :
                  \E p \in 1 .. Len(notices) : IsEvent(notices, p) /\ notices[p].n = k
  <2>1. j \in EventRecords /\ out'[j] = out[j] BY <1>4 DEF SameEvents
  <2>2. LastEvent(j) BY <1>0, <1>2, <1>4, <2>1 DEF SameEvents, LastEvent
  <2> QED BY <1>0, <1>2, <1>3, <1>4, <2>1, <2>2 DEF NextEventFollows, EventRecords
<1>5. CASE SameEvents /\ UNCHANGED <<notices, produced, accepted, dropPending>>
  BY <1>2, <1>4, <1>5
<1>6. ASSUME SameEvents, dropPending' = dropPending, NEW s \in SessionIds,
             Adds([kind |-> "accepted", session |-> s, n |-> 0]), produced' = produced
      PROVE  Follows(j)
  <2>1. [kind |-> "accepted", session |-> s, n |-> 0] \in Notices BY DEF Notices
  <2>2. /\ \A p : IsEvent(notices', p) <=> IsEvent(notices, p)
        /\ \A p : IsEvent(notices, p) => p \in 1 .. Len(notices) /\ p \in 1 .. Len(notices')
                                         /\ notices'[p] = notices[p]
    BY <1>0, <1>6, <2>1, AfterAdding DEF IsEvent
  <2> QED BY <1>2, <1>4, <1>6, <2>2
<1>7. CASE SameEvents /\ dropPending' = dropPending /\ Adds(Reported) /\ produced' = produced + 1
  <2>1. Reported \in Notices
    <3>1. produced' \in 0 .. MaxEvents BY NextInvariant DEF IInv, TypeOK, BackendType
    <3>2. produced + 1 \in 1 .. MaxEvents BY <1>0, <1>7, <3>1, BoundsAssumption
    <3> QED BY <3>2 DEF Reported, Notices
  <2> DEFINE last == Len(notices')
  <2>2. /\ last = Len(notices) + 1 /\ last \in 1 .. last
        /\ IsEvent(notices', last) /\ notices'[last].n = produced + 1
        /\ \A p \in 1 .. last : p # last => p \in 1 .. Len(notices)
        /\ \A p \in 1 .. Len(notices) : IsEvent(notices', p) <=> IsEvent(notices, p)
        /\ \A p \in 1 .. Len(notices) : p \in 1 .. last /\ p < last /\ notices'[p] = notices[p]
    BY <1>0, <1>7, <2>1, AfterAdding DEF Reported
  <2> HIDE DEF last
  <2>3. /\ out'[j] = out[j] /\ out[j].n \in Nat /\ out[j].n <= produced
        /\ \A p \in 1 .. Len(notices) : IsEvent(notices, p) => notices[p].n > out[j].n
        /\ \A k \in (out[j].n + 1) .. produced :
             \E p \in 1 .. Len(notices) : IsEvent(notices, p) /\ notices[p].n = k
    BY <1>2, <1>4, <1>7
  <2>4. \A p \in 1 .. last : IsEvent(notices', p) => notices'[p].n > out'[j].n
    BY <1>0, <2>2, <2>3
  <2>5. ASSUME NEW k \in (out[j].n + 1) .. produced'
        PROVE  \E p \in 1 .. last : IsEvent(notices', p) /\ notices'[p].n = k
    <3>1. CASE k = produced + 1 BY <2>2, <3>1
    <3>2. CASE k # produced + 1
      <4>1. k \in (out[j].n + 1) .. produced BY <1>0, <1>7, <2>3, <2>5, <3>2
      <4>2. PICK p \in 1 .. Len(notices) : IsEvent(notices, p) /\ notices[p].n = k
        BY <2>3, <4>1
      <4> QED BY <2>2, <4>2
    <3> QED BY <3>1, <3>2
  <2>6. out'[j].n <= produced' BY <1>0, <1>7, <2>3
  <2> QED BY <2>3, <2>4, <2>5, <2>6 DEF last
<1>8. CASE SkipsNotice
  <2>1. /\ SameEvents /\ Takes /\ dropPending' = dropPending /\ ~IsEvent(notices, 1)
    BY <1>2, <1>8 DEF SkipsNotice, SameEvents
  <2>2. /\ out'[j] = out[j] /\ out[j].n <= produced /\ produced' = produced
        /\ \A p \in 1 .. Len(notices) : IsEvent(notices, p) => notices[p].n > out[j].n
        /\ \A k \in (out[j].n + 1) .. produced :
             \E p \in 1 .. Len(notices) : IsEvent(notices, p) /\ notices[p].n = k
    BY <1>2, <1>4, <2>1 DEF Takes
  <2>3. \A p \in 1 .. Len(notices') : IsEvent(notices', p) => notices'[p].n > out'[j].n
    BY <2>1, <2>2, AfterTaking DEF IsEvent
  <2>4. ASSUME NEW k \in (out[j].n + 1) .. produced
        PROVE  \E p \in 1 .. Len(notices') : IsEvent(notices', p) /\ notices'[p].n = k
    <3>1. PICK p \in 1 .. Len(notices) : IsEvent(notices, p) /\ notices[p].n = k
      BY <2>2, <2>4
    <3>2. p # 1 BY <2>1, <3>1
    <3>3. p - 1 \in 1 .. Len(notices') /\ (p - 1) + 1 = p BY <2>1, <3>1, <3>2, AfterTaking
    <3> QED BY <2>1, <3>1, <3>3, AfterTaking
  <2> QED BY <2>2, <2>3, <2>4
<1>9. CASE Forwards
  <2>1. j = Len(out') /\ out'[j] = Event(notices[1].n) /\ Takes
    <3>1. Len(out') \in EventRecords' /\ out'[Len(out')] \in {Marker, Event(notices[1].n)}
          /\ (out'[Len(out')] = Marker => dropPending')
      BY <1>0, <1>9
         DEF Forwards, AddsRecord, AddsTwo, EventRecords, EventTypes, Marker, Event, Rec
    <3>2. j = Len(out') BY <1>0, <1>2, <3>1 DEF LastEvent, EventRecords
    <3>3. Takes BY <1>9 DEF Forwards, Takes, IsEvent
    <3> QED BY <1>2, <3>1, <3>2, <3>3
  <2>2. out'[j].n = notices[1].n /\ IsEvent(notices, 1) /\ produced' = produced
    BY <1>9, <2>1 DEF Event, Rec, Forwards
  <2>3. out'[j].n <= produced' BY <2>2 DEF NoticesInOrder, IsEvent
  <2>4. \A p \in 1 .. Len(notices') : IsEvent(notices', p) => notices'[p].n > out'[j].n
    <3> SUFFICES ASSUME NEW p \in 1 .. Len(notices'), IsEvent(notices', p)
                 PROVE  notices'[p].n > out'[j].n
      OBVIOUS
    <3>1. IsEvent(notices, p + 1) /\ 1 < p + 1 /\ notices'[p] = notices[p + 1]
      BY <2>1, AfterTaking
    <3>2. notices[1].n < notices[p + 1].n BY <2>2, <3>1 DEF NoticesInOrder, IsEvent
    <3> QED BY <1>0, <2>2, <3>1, <3>2
  <2>5. ASSUME NEW k \in (out'[j].n + 1) .. produced'
        PROVE  \E p \in 1 .. Len(notices') : IsEvent(notices', p) /\ notices'[p].n = k
    <3>1. k \in notices[1].n .. produced /\ k # notices[1].n BY <1>0, <2>2, <2>5
    <3>2. PICK p \in 1 .. Len(notices) : IsEvent(notices, p) /\ notices[p].n = k
      BY <2>2, <3>1 DEF NoticesInOrder, IsEvent
    <3>3. p - 1 \in 1 .. Len(notices') /\ (p - 1) + 1 = p BY <2>1, <3>1, <3>2, AfterTaking
    <3> QED BY <2>1, <3>2, <3>3, AfterTaking
  <2> QED BY <2>3, <2>4, <2>5
<1>10. CASE MarksEnd
  <2>1. /\ Len(out') - 1 \in EventRecords' /\ Len(out') \notin EventRecords'
        /\ out'[Len(out') - 1] = Marker
    BY <1>0, <1>10, ChosenIsTerminal
       DEF MarksEnd, Terminates, AddsTwo, EventRecords, EventTypes, Marker, Rec, Terminals,
           TurnTerminals
  <2>2. j = Len(out') - 1 BY <1>0, <1>2, <2>1 DEF LastEvent, EventRecords
  <2> QED BY <1>2, <2>1, <2>2 DEF Marker, Rec
<1> HIDE DEF Follows
<1> QED BY <1>2, <1>5, <1>6, <1>7, <1>8, <1>9, <1>10, EventMoves

\* The event a step adds is the one after the last in the output, unless a
\* marker goes with it; and the terminal leaves none behind.
LEMMA GapStep ==
  ASSUME IInv, Lifecycle, OutputShape, NoticesInOrder, NextEventFollows, NoSilentGap, [Next]_vars
  PROVE  NoSilentGap'
<1>0. /\ Len(out) \in Nat /\ Len(out') \in Nat /\ Len(out) <= Len(out')
      /\ \A i \in 1 .. Len(out) : i \in 1 .. Len(out') /\ out'[i] = out[i]
      /\ \A i \in 1 .. Len(out) : i \in EventRecords' <=> i \in EventRecords
      /\ \A i \in 1 .. Len(out') : out'[i].n \in Nat
      /\ produced \in Nat
      /\ \A p : IsEvent(notices, p) => p \in Nat /\ notices[p].n \in Nat \ {0}
  <2>1. \A r \in Records : r.n \in Nat BY DEF Records
  <2> QED BY <2>1, OldRecords, NoticeTypes DEF EventRecords
<1>1. ASSUME NEW i \in EventRecords', NEW j \in EventRecords', i < j,
             out'[i].n > 0, out'[j].n > 0, \A k \in (i + 1) .. (j - 1) : k \notin EventRecords'
      PROVE  out'[j].n = out'[i].n + 1
  <2>1. i \in 1 .. Len(out') /\ j \in 1 .. Len(out') BY DEF EventRecords
  <2>2. CASE j \in 1 .. Len(out)
    <3>1. i \in EventRecords /\ j \in EventRecords /\ out'[i] = out[i] /\ out'[j] = out[j]
      BY <1>0, <1>1, <2>1, <2>2
    <3>2. \A k \in (i + 1) .. (j - 1) : k \notin EventRecords
      BY <1>0, <1>1, <2>1, <2>2
    <3> QED BY <1>1, <3>1, <3>2 DEF NoSilentGap
  <2>3. CASE j \notin 1 .. Len(out)
    <3>1. Marker.n = 0 BY DEF Marker, Rec
    <3>2. Terminates => ChosenTerminal.record.type \notin EventTypes
      BY ChosenIsTerminal DEF Terminates, EventTypes, Terminals, TurnTerminals
    <3>3. Forwards /\ j = Len(out') /\ out'[j] = Event(notices[1].n) /\ writer = "running"
      BY <1>1, <2>1, <2>3, <3>1, <3>2, NewRecord DEF EventRecords, EventTypes, AnswerTypes
    <3>4. ~AddsTwo(Marker, Event(notices[1].n))
      <4> SUFFICES ASSUME AddsTwo(Marker, Event(notices[1].n)) PROVE FALSE OBVIOUS
      <4>1. Len(out) + 1 \in EventRecords' /\ Len(out) + 1 < j /\ out'[Len(out) + 1].n = 0
        BY <1>0, <3>3 DEF AddsTwo, EventRecords, EventTypes, Marker, Rec
      <4>2. i # Len(out) + 1 /\ i \in Nat /\ j \in Nat BY <1>1, <2>1, <4>1
      <4>3. Len(out) + 1 \in (i + 1) .. (j - 1)
        BY <1>0, <1>1, <2>1, <3>3, <4>1, <4>2 DEF AddsTwo
      <4> QED BY <1>1, <4>1, <4>3
    <3>5. AddsRecord(Event(notices[1].n)) /\ ~dropPending /\ j = Len(out) + 1
      BY <1>0, <1>1, <3>3, <3>4 DEF Forwards, AddsRecord, Marker, Event, Rec
    <3>6. i \in EventRecords /\ out'[i] = out[i]
      BY <1>0, <1>1, <2>1, <3>5
    <3>7. LastEvent(i)
      BY <1>0, <1>1, <2>1, <3>5, <3>6 DEF LastEvent
    <3>8. /\ \A p \in 1 .. Len(notices) : IsEvent(notices, p) => notices[p].n > out[i].n
          /\ \A k \in (out[i].n + 1) .. produced :
               \E p \in 1 .. Len(notices) : IsEvent(notices, p) /\ notices[p].n = k
      BY <1>1, <3>3, <3>5, <3>6, <3>7 DEF NextEventFollows
    <3>9. /\ IsEvent(notices, 1) /\ notices[1].n > out[i].n /\ notices[1].n <= produced
          /\ out'[j].n = notices[1].n
      BY <3>3, <3>8 DEF Forwards, NoticesInOrder, IsEvent, Event, Rec
    <3>10. ASSUME notices[1].n # out[i].n + 1 PROVE FALSE
      <4>1. out[i].n + 1 \in (out[i].n + 1) .. produced /\ out[i].n + 1 < notices[1].n
        <5> DEFINE m == out[i].n
                   n == notices[1].n
        <5>1. m \in Nat /\ n \in Nat /\ produced \in Nat BY <1>0, <2>1, <3>6, <3>9
        <5>2. n > m /\ n # m + 1 /\ n <= produced BY <3>9, <3>10
        <5> HIDE DEF m, n
        <5>3. m + 1 \in (m + 1) .. produced /\ m + 1 < n BY <5>1, <5>2
        <5> QED BY <5>3 DEF m, n
      <4>2. PICK p \in 1 .. Len(notices) : IsEvent(notices, p) /\ notices[p].n = out[i].n + 1
        BY <3>8, <4>1
      <4>3. p # 1 BY <3>10, <4>2
      <4>4. notices[1].n < notices[p].n
        <5>1. 1 \in 1 .. Len(notices) /\ 1 < p BY <3>9, <4>2, <4>3 DEF IsEvent
        <5> QED BY <3>9, <4>2, <5>1 DEF NoticesInOrder
      <4>5. notices[1].n \in Nat /\ notices[p].n \in Nat BY <1>0, <3>9, <4>2
      <4> QED BY <4>1, <4>2, <4>4, <4>5
    <3> QED BY <3>6, <3>9, <3>10
  <2> QED BY <2>2, <2>3
<1>2. ASSUME NEW i \in 1 .. Len(out'), NEW j \in EventRecords', out'[i].type \in Terminals,
             \A k \in (j + 1) .. i : k \notin EventRecords'
      PROVE  out'[j].n \in {0, produced'}
  <2>0. j \in 1 .. Len(out') BY DEF EventRecords
  <2>1. i = Len(out') /\ phase' \in Ended BY <1>2, ShapeStep DEF OutputShape
  <2>2. CASE phase \in Ended
    BY <1>2, <2>2, EndedIsFinal DEF NoSilentGap, EventRecords
  <2>3. CASE phase \notin Ended
    <3>1. i \notin 1 .. Len(out) BY <1>0, <1>2, <2>3 DEF OutputShape
    <3>2. Terminals \cap (EventTypes \cup AnswerTypes \cup {"turn.accepted"}) = {}
      BY DEF Terminals, TurnTerminals, EventTypes, AnswerTypes
    <3>3. FailsEarly \/ Terminates
      <4>1. Marker.type \in EventTypes BY DEF Marker, Rec, EventTypes
      <4> QED BY <1>2, <3>1, <3>2, <4>1, NewRecord
    <3>4. CASE FailsEarly
      <4>1. accepted = NoSession /\ EventRecords = {}
        BY <3>4 DEF FailsEarly, Lifecycle, NextEventFollows
      <4>2. j \notin EventRecords' \/ j \notin 1 .. Len(out) BY <1>0, <4>1
      <4>3. j = Len(out') BY <1>0, <2>0, <3>4, <4>2 DEF FailsEarly, AddsRecord
      <4> QED BY <1>2, <2>1, <3>2, <4>3 DEF EventRecords
    <3>5. CASE Terminates
      <4>1. produced' = produced /\ notices = <<>> /\ dropPending \in BOOLEAN
        BY <3>5 DEF Terminates, EmitTerminal, Lifecycle, backendVars, IInv, TypeOK, FlagsType
      <4>2. j # i BY <1>2, <3>2 DEF EventRecords
      <4>3. CASE AddsTwo(Marker, ChosenTerminal.record)
        <5>1. Len(out) + 1 \in EventRecords' /\ Len(out') = Len(out) + 2
              /\ out'[Len(out) + 1].n = 0
          BY <1>0, <4>3 DEF AddsTwo, EventRecords, EventTypes, Marker, Rec
        <5>2. j = Len(out) + 1 BY <1>0, <1>2, <2>0, <2>1, <4>2, <5>1
        <5> QED BY <5>1, <5>2
      <4>4. CASE ~(dropPending /\ accepted # NoSession) /\ AddsRecord(ChosenTerminal.record)
        <5>1. Len(out') = Len(out) + 1 /\ writer = "running" BY <4>4 DEF AddsRecord
        <5>2. j \in EventRecords /\ out'[j] = out[j] /\ out[j].n \in Nat
          BY <1>0, <2>0, <2>1, <4>2, <5>1
        <5>3. LastEvent(j)
          <6> SUFFICES ASSUME NEW k \in (j + 1) .. Len(out), k \in EventRecords PROVE FALSE
            BY <5>2 DEF LastEvent
          <6>1. k \in 1 .. Len(out) /\ k \in (j + 1) .. i
            BY <1>0, <2>0, <2>1, <5>1 DEF EventRecords
          <6> QED BY <1>0, <1>2, <6>1
        <5>4. ~dropPending BY <4>4, <5>2 DEF NextEventFollows
        <5>5. ASSUME out[j].n > 0, out[j].n # produced PROVE FALSE
          <6>1. out[j].n <= produced
                /\ \A k \in (out[j].n + 1) .. produced :
                     \E p \in 1 .. Len(notices) : IsEvent(notices, p) /\ notices[p].n = k
            BY <5>1, <5>2, <5>3, <5>4, <5>5 DEF NextEventFollows
          <6>2. produced \in (out[j].n + 1) .. produced BY <1>0, <5>2, <5>5, <6>1
          <6> QED BY <4>1, <6>1, <6>2
        <5> QED BY <4>1, <5>2, <5>5
      <4> QED BY <3>5, <4>3, <4>4 DEF Terminates
    <3> QED BY <3>3, <3>4, <3>5
  <2> QED BY <2>2, <2>3
<1> QED BY <1>1, <1>2 DEF NoSilentGap

-----------------------------------------------------------------------------
(* The invariant holds.                                                    *)

LEMMA OutInit == Init => OutInv
<1> SUFFICES ASSUME Init PROVE OutInv OBVIOUS
<1>1. IInv BY InitInvariant
<1>2. Len(out) = 1 /\ out[1] = Rec("hello", NoCommand, NoSession, "none", 0) BY DEF Init
<1>3. /\ AnswersSent = {} /\ EventRecords = {}
      /\ \A i \in 1 .. Len(out) : out[i].type \notin Terminals /\ out[i].type = "hello"
  BY <1>2 DEF AnswersSent, EventRecords, AnswerTypes, EventTypes, Terminals, TurnTerminals, Rec
<1>4. Lifecycle /\ OutputShape
  BY <1>2, <1>3, NamesAssumption DEF Init, Lifecycle, Started, AfterBackend, OutputShape
<1>5. CauseAcknowledged /\ AnswersKnown /\ VerdictAgrees
  BY <1>2, <1>3, NamesAssumption DEF Init, CauseAcknowledged, AnswersKnown, VerdictAgrees, Ended
<1>6. NoticesInOrder /\ NextEventFollows
  BY <1>3 DEF Init, NoticesInOrder, NextEventFollows, IsEvent
<1>7. /\ FatalErrorDecides /\ CancelReasonAcknowledged /\ OneVerdictPerCommand
      /\ EveryCommandAnswered
  BY <1>3 DEF Init, FatalErrorDecides, CancelReasonAcknowledged, OneVerdictPerCommand,
              EveryCommandAnswered
<1>8. NoSilentGap BY <1>3 DEF NoSilentGap
<1> QED BY <1>1, <1>4, <1>5, <1>6, <1>7, <1>8 DEF OutInv

LEMMA OutStep ==
  ASSUME OutInv, [Next]_vars
  PROVE  OutInv'
<1> USE DEF OutInv
<1>1. IInv' BY NextInvariant
<1>2. Lifecycle' /\ OutputShape' BY LifecycleStep, ShapeStep
<1>3. CauseAcknowledged' /\ AnswersKnown' BY CauseStep, AnswersKnownStep
<1>4. VerdictAgrees' BY VerdictStep
<1>5. NoticesInOrder' /\ NextEventFollows' BY NoticesInOrderStep, NextEventStep
<1>6. FatalErrorDecides' /\ CancelReasonAcknowledged' BY FatalStep, CancelReasonStep
<1>7. OneVerdictPerCommand' /\ EveryCommandAnswered' BY OneVerdictStep, AnsweredStep
<1>8. NoSilentGap' BY GapStep
<1> QED BY <1>1, <1>2, <1>3, <1>4, <1>5, <1>6, <1>7, <1>8

LEMMA OutputInvariant == Spec => []OutInv
<1>1. Init => OutInv BY OutInit
<1>2. OutInv /\ [Next]_vars => OutInv' BY OutStep
<1> QED BY <1>1, <1>2, PTL DEF Spec

\* Every command counted after turn.start is answered once, is the exact
\* cancellation being settled, or is the malformed record that ended input, for
\* any number of commands and under every race of the cancellations.
THEOREM AllCommandsAnswered == Spec => []EveryCommandAnswered
<1>1. OutInv => EveryCommandAnswered BY DEF OutInv
<1> QED BY <1>1, OutputInvariant, PTL

\* No command id has two verdicts of its own, and no turn accepts two
\* cancellations: handle_running_command and its tasks agree on who was first.
THEOREM VerdictsAreSingle == Spec => []OneVerdictPerCommand
<1>1. OutInv => OneVerdictPerCommand BY DEF OutInv
<1> QED BY <1>1, OutputInvariant, PTL

\* A client's reason in turn.cancelled comes after the acceptance of its
\* command: the first cause set is acknowledged in the step that sets it.
THEOREM ReasonsAcknowledged == Spec => []CancelReasonAcknowledged
<1>1. OutInv => CancelReasonAcknowledged BY DEF OutInv
<1> QED BY <1>1, OutputInvariant, PTL

\* A fatal input error or a failed exact cancellation decides the terminal,
\* whatever the backend returns and whenever it does.
THEOREM FatalErrorsDecide == Spec => []FatalErrorDecides
<1>1. OutInv => FatalErrorDecides BY DEF OutInv
<1> QED BY <1>1, OutputInvariant, PTL

\* The exit status agrees with the last record written, and is 5 whenever a
\* record of a turn was lost.
THEOREM ExitCodesAgree == Spec => []ExitAgreesWithOutput
<1>1. OutInv => ExitAgreesWithOutput BY ExitFromVerdict DEF OutInv
<1> QED BY <1>1, OutputInvariant, PTL

\* Every event dropped between two that were sent, or after the last one, is
\* marked, for any number of events and of output slots.
THEOREM GapsAreMarked == Spec => []NoSilentGap
<1>1. OutInv => NoSilentGap BY DEF OutInv
<1> QED BY <1>1, OutputInvariant, PTL
-----------------------------------------------------------------------------
(* BridgeServer implements TurnProtocol: every step of the server is, seen   *)
(* through its output, a step of the protocol or none.  First: what the      *)
(* client sees of the output.                                                *)

ViewSet == {View(r) : r \in Records}

LEMMA ViewsType ==
  ASSUME NEW rs \in Seq(Records)
  PROVE  /\ Views(rs) \in Seq(ViewSet) /\ Len(Views(rs)) = Len(rs)
         /\ \A i \in 1 .. Len(rs) : Views(rs)[i] = View(rs[i])
<1>1. \A i \in 1 .. Len(rs) : View(rs[i]) \in ViewSet
  <2>1. \A i \in 1 .. Len(rs) : rs[i] \in Records OBVIOUS
  <2> QED BY <2>1 DEF ViewSet
<1>2. Len(rs) \in Nat OBVIOUS
<1> QED BY <1>1, <1>2 DEF Views

LEMMA ViewsAddOne ==
  ASSUME TypeOK, out' \in Seq(Records), NEW r \in Records, AddsRecord(r)
  PROVE  /\ Views(out') = Views(out) \o <<View(r)>>
         /\ Views(out') = Append(Views(out), View(r))
<1>1. out \in Seq(Records) BY DEF TypeOK, OutputType
<1>2. /\ Views(out) \in Seq(ViewSet) /\ Len(Views(out)) = Len(out) /\ Len(out) \in Nat
      /\ Views(out') \in Seq(ViewSet) /\ Len(Views(out')) = Len(out) + 1
      /\ \A i \in 1 .. Len(out) : Views(out')[i] = Views(out)[i]
      /\ Views(out')[Len(out) + 1] = View(r)
  BY <1>1, ViewsType DEF AddsRecord
<1>3. View(r) \in ViewSet /\ <<View(r)>> \in Seq(ViewSet) /\ Len(<<View(r)>>) = 1
      /\ <<View(r)>>[1] = View(r)
  BY DEF ViewSet
<1>4. Views(out') = Views(out) \o <<View(r)>>
  <2> DEFINE one == <<View(r)>>
             t == Views(out) \o one
  <2>0. one \in Seq(ViewSet) /\ Len(one) = 1 /\ one[1] = View(r) BY <1>3
  <2> HIDE DEF one
  <2>1. /\ t \in Seq(ViewSet) /\ Len(t) = Len(out) + 1
        /\ \A i \in 1 .. Len(out) + 1 :
             t[i] = IF i <= Len(out) THEN Views(out)[i] ELSE one[i - Len(out)]
    <3>1. /\ t \in Seq(ViewSet) /\ Len(t) = Len(Views(out)) + Len(one)
          /\ \A i \in 1 .. Len(Views(out)) + Len(one) :
               t[i] = IF i <= Len(Views(out)) THEN Views(out)[i] ELSE one[i - Len(Views(out))]
      BY <1>2, <2>0, ConcatProperties
    <3> HIDE DEF t
    <3> QED BY <1>2, <2>0, <3>1
  <2> HIDE DEF t
  <2>2. ASSUME NEW i \in 1 .. Len(out) + 1 PROVE Views(out')[i] = t[i]
    <3>1. CASE i <= Len(out) BY <1>2, <2>1, <3>1
    <3>2. CASE i = Len(out) + 1
      <4>1. t[i] = one[1] BY <1>2, <2>1, <3>2
      <4> QED BY <1>2, <2>0, <3>2, <4>1
    <3> QED BY <1>2, <3>1, <3>2
  <2>3. Views(out') = t BY <1>2, <2>1, <2>2, SeqEqual
  <2> QED BY <2>3 DEF t, one
<1>5. Append(Views(out), View(r)) = Views(out) \o <<View(r)>>
  BY <1>2, <1>3, AppendIsConcat
<1> QED BY <1>4, <1>5

LEMMA ViewsAddTwo ==
  ASSUME TypeOK, out' \in Seq(Records), NEW q \in Records, NEW r \in Records, AddsTwo(q, r)
  PROVE  Views(out') = Views(out) \o <<View(q), View(r)>>
<1>1. out \in Seq(Records) BY DEF TypeOK, OutputType
<1>2. /\ Views(out) \in Seq(ViewSet) /\ Len(Views(out)) = Len(out) /\ Len(out) \in Nat
      /\ Views(out') \in Seq(ViewSet) /\ Len(Views(out')) = Len(out) + 2
      /\ \A i \in 1 .. Len(out) : Views(out')[i] = Views(out)[i]
      /\ Views(out')[Len(out) + 1] = View(q) /\ Views(out')[Len(out) + 2] = View(r)
  BY <1>1, ViewsType DEF AddsTwo
<1> DEFINE two == <<View(q), View(r)>>
           t == Views(out) \o two
<1>3. two \in Seq(ViewSet) /\ Len(two) = 2 /\ two[1] = View(q) /\ two[2] = View(r)
  <2>1. View(q) \in ViewSet /\ View(r) \in ViewSet BY DEF ViewSet
  <2> QED BY <2>1
<1> HIDE DEF two
<1>4. /\ t \in Seq(ViewSet) /\ Len(t) = Len(out) + 2
      /\ \A i \in 1 .. Len(out) + 2 :
           t[i] = IF i <= Len(out) THEN Views(out)[i] ELSE two[i - Len(out)]
  <2>1. /\ t \in Seq(ViewSet) /\ Len(t) = Len(Views(out)) + Len(two)
        /\ \A i \in 1 .. Len(Views(out)) + Len(two) :
             t[i] = IF i <= Len(Views(out)) THEN Views(out)[i] ELSE two[i - Len(Views(out))]
    BY <1>2, <1>3, ConcatProperties
  <2> HIDE DEF t
  <2> QED BY <1>2, <1>3, <2>1
<1> HIDE DEF t
<1>5. ASSUME NEW i \in 1 .. Len(out) + 2 PROVE Views(out')[i] = t[i]
  <2>1. CASE i <= Len(out) BY <1>2, <1>4, <2>1
  <2>2. CASE i = Len(out) + 1
    <3>1. ~(i <= Len(out)) /\ i - Len(out) = 1 BY <1>2, <2>2
    <3>2. t[i] = two[1] BY <1>4, <3>1
    <3> QED BY <1>2, <1>3, <2>2, <3>2
  <2>3. CASE i = Len(out) + 2
    <3>1. t[i] = two[2] BY <1>2, <1>4, <2>3
    <3> QED BY <1>2, <1>3, <2>3, <3>1
  <2> QED BY <1>2, <2>1, <2>2, <2>3
<1>6. Views(out') = t BY <1>2, <1>4, <1>5, SeqEqual
<1> QED BY <1>6 DEF t, two
-----------------------------------------------------------------------------
(* The steps.                                                              *)

Session == IF writer = "failed" THEN NoSession ELSE accepted

LEMMA ProtocolStarts == Init => Client!ProtocolInit
<1> SUFFICES ASSUME Init PROVE Client!ProtocolInit OBVIOUS
<1> DEFINE hello == [type |-> "hello", cmd |-> NoCommand, session |-> NoSession]
<1>1. Len(out) = 1 /\ View(out[1]) = hello BY DEF Init, View, Rec
<1>2. Views(out) = [i \in 1 .. 1 |-> hello] BY <1>1 DEF Views
<1>3. [i \in 1 .. 1 |-> hello] = <<hello>>
  <2> HIDE DEF hello
  <2>1. [i \in 1 .. 1 |-> hello] \in Seq({hello}) /\ <<hello>> \in Seq({hello})
        /\ Len([i \in 1 .. 1 |-> hello]) = 1 /\ Len(<<hello>>) = 1
    OBVIOUS
  <2>2. \A k \in 1 .. 1 : [i \in 1 .. 1 |-> hello][k] = <<hello>>[k] OBVIOUS
  <2> QED BY <2>1, <2>2, SeqEqual
<1>4. Stage = "offered" /\ exit = NoExit /\ Session = NoSession BY DEF Init, Stage, Session
<1> QED BY <1>2, <1>3, <1>4 DEF Client!ProtocolInit, Session

\* The server answers, reports and ends as a protocol does.
LEMMA ProtocolStage ==
  ASSUME IInv
  PROVE  /\ writer = "running" /\ phase \notin Ended =>
              Stage = IF accepted = NoSession THEN "offered" ELSE "accepted"
         /\ writer = "running" /\ phase \in {"joining", "leaving"} => Stage = "closed"
         /\ writer = "failed" /\ phase # "exited" => Stage = "cut"
         /\ phase = "exited" => Stage = "left"
BY DEF Stage, Ended

\* Once the process is leaving, or nothing is written any more.
LEMMA LeavingStep ==
  ASSUME OutInv, OutInv', [Next]_vars, phase # "exited", phase' = "exited"
  PROVE  Client!Leave
<1> USE DEF OutInv
<1>1. Exit \/ ExitBeforeStart BY ExitMoves
<1>2. /\ UNCHANGED <<out, writer, accepted, recordCount>> /\ phase \in {"joining", "leaving"}
      /\ exit' = IF Exit /\ writer = "failed" THEN 5 ELSE verdict
      /\ ExitBeforeStart => recordCount = 0
  BY <1>1 DEF Exit, ExitBeforeStart, writerVars, inputVars, Lifecycle
<1>3. writer \in {"running", "failed"} /\ out \in Seq(Records) /\ phase \in Ended
  BY <1>2 DEF IInv, TypeOK, OutputType, Ended
<1>4. Stage' = "left" BY DEF Stage
<1>5. CASE writer = "failed"
  <2>1. Stage = "cut" BY <1>5, ProtocolStage
  <2>2. exit' \in {2, 5, 130} BY <1>1, <1>2, <1>3, <1>5 DEF VerdictAgrees
  <2> QED BY <1>2, <1>4, <2>1, <2>2 DEF Client!Leave
<1>6. CASE writer = "running"
  <2>1. Stage = "closed" BY <1>2, <1>6, ProtocolStage
  <2>2. /\ exit' = verdict /\ out[Len(out)].type \in Terminals /\ Agrees(verdict, out[Len(out)])
    BY <1>2, <1>3, <1>6 DEF VerdictAgrees
  <2>3. Views(out)[Len(Views(out))].type = out[Len(out)].type
    <3>1. Len(out) \in 1 .. Len(out) BY <1>3 DEF OutputShape
    <3>2. Len(Views(out)) = Len(out) /\ Views(out)[Len(out)] = View(out[Len(out)])
      BY <1>3, <3>1, ViewsType
    <3> QED BY <3>2 DEF View
  <2>4. exit' \in Client!StatusesAfter(out[Len(out)].type)
    BY <2>2 DEF Client!StatusesAfter, Agrees, Terminals, TurnTerminals
  <2> QED BY <1>2, <1>4, <2>1, <2>3, <2>4 DEF Client!Leave
<1> QED BY <1>3, <1>5, <1>6

LEMMA CutStep ==
  ASSUME OutInv, [Next]_vars, writer = "running", writer' = "failed"
  PROVE  Client!Cut
<1> USE DEF OutInv
<1>1. WriterFail
  <2>1. ~BeforeStart
    BY DEF BeforeStart, StartTurn, RefuseFirstRecord, EndOfInputBeforeStart, SignalBeforeStart,
           OutputLostBeforeStart, ExitBeforeStart, FailBeforeStart, writerVars
  <2>2. ~DuringTurn
    BY DEF DuringTurn, HandleNotice, ReadFatalInput, ReadEndOfInput, RefuseRunningCommand,
           CancelBeforeSession, StartExactCancel, ExactCancelDone, SignalDuringTurn,
           OutputLostDuringTurn, BackendDone, writerVars
  <2>3. ~AfterTurn
    BY DEF AfterTurn, SettleNothing, SettleFinishedExact, AbortExactCancel,
           RefuseFinalizingCommand, FinishDraining, EmitTerminal, Exit, writerVars
  <2>4. ~ClientStep /\ ~BackendStep /\ ~WriterFlush
    BY DEF ClientStep, ClientSend, ClientClose, Signal, WriterFlush, BackendStep, ExactSettles,
           BackendAccepts, BackendReports, BackendFinishes, writerVars
  <2> QED BY <2>1, <2>2, <2>3, <2>4 DEF Next, ServerStep, WriterStep, Done, vars, writerVars
<1>2. /\ phase # "exited" /\ UNCHANGED <<phase, out, exit>>
  BY <1>1 DEF WriterFail, Alive, endVars
<1>3. Stage \notin {"cut", "left"} /\ Stage' = "cut"
  BY <1>2 DEF Stage
<1> QED BY <1>2, <1>3 DEF Client!Cut

\* While the writer runs, the step that ends the output adds a terminal, and the
\* step that learns the session discloses it.
LEMMA EndIsWritten ==
  ASSUME OutInv, [Next]_vars, writer = "running", out' = out
  PROVE  phase \notin Ended => phase' \notin Ended
<1> USE DEF OutInv
<1>1. out \in Seq(Records) /\ writer = "running" BY OldRecords
<1>2. ~EmitTerminal
  <2>1. EmitTerminal => Len(out') > Len(out) BY <1>1 DEF EmitTerminal, Enqueue
  <2> QED BY <1>1, <2>1
<1>3. \A code, status : ~FailBeforeStart(code, status)
  BY <1>1 DEF FailBeforeStart, Enqueue
<1> QED BY <1>1, <1>2, <1>3, EndStep
        DEF RefuseFirstRecord, EndOfInputBeforeStart, SignalBeforeStart, OutputLostBeforeStart

LEMMA SessionIsWritten ==
  ASSUME OutInv, [Next]_vars, writer = "running", out' = out
  PROVE  accepted' = accepted
<1> USE DEF OutInv
<1>1. out \in Seq(Records) BY OldRecords
<1>2. HandleNotice => accepted' = accepted
  <2>1. \A s : ~Enqueue(<<Rec("turn.accepted", NoCommand, s, "none", 0)>>)
    BY <1>1 DEF Enqueue
  <2> QED BY <2>1 DEF HandleNotice, AcceptSession, ForwardEvent
<1> QED BY <1>2, ChannelMoves

LEMMA WritingStep ==
  ASSUME OutInv, OutInv', [Next]_vars, phase # "exited", phase' # "exited",
         writer = "running", writer' = "running"
  PROVE  [Client!ProtocolNext]_(Client!protocolVars)
<1> USE DEF OutInv
<1>0. /\ TypeOK /\ out \in Seq(Records) /\ out' \in Seq(Records) /\ exit' = exit
      /\ phase \in Ended <=> phase \in {"joining", "leaving"}
      /\ phase' \in Ended <=> phase' \in {"joining", "leaving"}
      /\ accepted \in SessionIds \cup {NoSession}
  <2>1. ~Exit /\ ~ExitBeforeStart BY DEF Exit, ExitBeforeStart
  <2> QED BY <2>1, OldRecords, ExitMoves DEF IInv, Ended, TypeOK, TurnType
<1>1. /\ phase \notin Ended => Stage = IF accepted = NoSession THEN "offered" ELSE "accepted"
      /\ phase \in Ended => Stage = "closed"
      /\ phase' \notin Ended => Stage' = IF accepted' = NoSession THEN "offered" ELSE "accepted"
      /\ phase' \in Ended => Stage' = "closed"
  BY <1>0 DEF Stage, Ended
<1>2. CASE out' = out
  <2>1. accepted' = accepted BY <1>2, SessionIsWritten
  <2>2. phase \in Ended <=> phase' \in Ended BY <1>2, EndIsWritten, EndedIsFinal
  <2>3. Stage' = Stage BY <1>1, <2>1, <2>2
  <2>4. Views(out') = Views(out) BY <1>2
  <2> QED BY <1>0, <2>1, <2>3, <2>4 DEF Client!protocolVars
<1>3. CASE FailsEarly
  <2>1. PICK code \in RecordCodes :
          AddsRecord(Rec("process.failed", NoCommand, NoSession, code, 0))
    BY <1>3 DEF FailsEarly, RecordCodes
  <2> DEFINE r == Rec("process.failed", NoCommand, NoSession, code, 0)
  <2>2. Views(out') = Views(out) \o <<View(r)>>
    BY <1>0, <2>1, TheseAreRecords, ViewsAddOne
  <2>3. accepted = NoSession /\ accepted' = NoSession
        /\ phase \notin Ended /\ phase' \in Ended
    <3>1. phase = "await_start" /\ phase' = "leaving" BY <1>3 DEF FailsEarly
    <3>2. recordCount = 0 /\ accepted = NoSession BY <3>1 DEF Lifecycle
    <3>3. recordCount' = 0 BY <3>1 DEF Lifecycle
    <3>4. accepted' = NoSession BY <3>3 DEF Lifecycle
    <3> QED BY <3>1, <3>2, <3>4 DEF Ended
  <2>4. View(r) \in Client!TerminalRecord
    BY <2>3 DEF View, Rec, Client!TerminalRecord, Client!Record
  <2> QED BY <1>0, <1>1, <2>2, <2>3, <2>4
          DEF Client!Close, Client!Open, Client!ProtocolNext
<1>4. CASE Discloses
  <2>1. AddsRecord(Rec("turn.accepted", NoCommand, accepted', "none", 0)) /\ accepted' \in SessionIds
        /\ accepted = NoSession /\ phase \notin Ended /\ phase' \notin Ended
        /\ accepted' # NoSession
    BY <1>4, NamesAssumption DEF Discloses, Ended
  <2> DEFINE r == Rec("turn.accepted", NoCommand, accepted', "none", 0)
  <2>2. Views(out') = Append(Views(out), View(r))
    BY <1>0, <2>1, TheseAreRecords, ViewsAddOne
  <2>3. View(r) = [type |-> "turn.accepted", cmd |-> NoCommand, session |-> accepted']
    BY DEF View, Rec
  <2> QED BY <1>0, <1>1, <2>1, <2>2, <2>3 DEF Client!Accept, Client!ProtocolNext
<1>5. View(Marker) \in Client!MarkerRecord /\ View(Marker) \in Client!EventRecord
      /\ Marker \in Records
  BY <1>0, TheseAreRecords DEF Marker, View, Rec, Client!MarkerRecord, Client!EventRecord,
                               Client!Record
<1>6. CASE Forwards
  <2> DEFINE e == Event(notices[1].n)
  <2>1. accepted # NoSession /\ accepted' = accepted /\ phase \notin Ended /\ phase' \notin Ended
    BY <1>6 DEF Forwards, Ended
  <2>2. e \in Records /\ View(e) \in Client!EventRecord
    <3>1. notices[1].n \in Nat BY <1>6, NoticeTypes DEF Forwards
    <3> QED BY <1>0, <3>1, TheseAreRecords DEF Event, View, Rec, Client!EventRecord, Client!Record
  <2> HIDE DEF e
  <2>3. \/ Views(out') = Views(out) \o <<View(Marker)>>
        \/ Views(out') = Views(out) \o <<View(e)>>
        \/ Views(out') = Views(out) \o <<View(Marker), View(e)>>
    BY <1>0, <1>5, <1>6, <2>2, ViewsAddOne, ViewsAddTwo DEF Forwards, e
  <2> QED BY <1>0, <1>1, <1>5, <2>1, <2>2, <2>3 DEF Client!Report, Client!ProtocolNext
<1>7. CASE Answers
  <2>1. PICK type \in AnswerTypes, id \in CommandIds, code \in AnswerCodes :
          AddsRecord(Rec(type, id, accepted, code, 0))
    BY <1>7 DEF Answers
  <2> DEFINE r == Rec(type, id, accepted, code, 0)
  <2>2. Views(out') = Views(out) \o <<View(r)>>
    BY <1>0, <2>1, TheseAreRecords, AnswersHaveCodes, ViewsAddOne
  <2>3. accepted' = accepted /\ phase \notin Ended /\ phase' \notin Ended
    BY <1>7 DEF Answers, Ended
  <2>4. View(r) \in Client!AnswerRecord
    BY DEF View, Rec, Client!AnswerRecord, Client!Record, AnswerTypes
  <2> QED BY <1>0, <1>1, <2>2, <2>3, <2>4 DEF Client!Answer, Client!Open, Client!ProtocolNext
<1>8. CASE Terminates
  <2> DEFINE t == ChosenTerminal.record
  <2>1. accepted' = accepted /\ phase \notin Ended /\ phase' \in Ended
    BY <1>8 DEF Terminates, EmitTerminal, Ended
  <2>2. Fits(ChosenTerminal, accepted) BY <1>8, ChosenIsTerminal DEF Terminates
  <2>3. t \in Records /\ View(t) \in Client!TerminalRecord
    BY <2>2 DEF Fits, View, Client!TerminalRecord, Client!Record
  <2> HIDE DEF t
  <2>4. \/ Views(out') = Views(out) \o <<View(t)>>
        \/ accepted # NoSession /\ Views(out') = Views(out) \o <<View(Marker), View(t)>>
    BY <1>0, <1>5, <1>8, <2>3, ViewsAddOne, ViewsAddTwo DEF Terminates, t
  <2> QED BY <1>0, <1>1, <1>5, <2>1, <2>3, <2>4
          DEF Client!Close, Client!Open, Client!ProtocolNext
<1> QED BY <1>2, <1>3, <1>4, <1>6, <1>7, <1>8, OutputMoves

LEMMA ProtocolStep ==
  ASSUME OutInv, OutInv', [Next]_vars
  PROVE  [Client!ProtocolNext]_(Client!protocolVars)
<1> USE DEF OutInv
<1>0. writer \in {"running", "failed"} /\ (writer = "failed" => writer' = "failed")
  BY WriterMoves DEF IInv, TypeOK, OutputType
<1>1. CASE phase = "exited"
  <2>1. UNCHANGED <<out, exit, writer, accepted, phase>>
    BY <1>1, ExitedIsStill DEF vars, endVars, writerVars
  <2>2. Stage' = Stage /\ Views(out') = Views(out) BY <2>1 DEF Stage
  <2> QED BY <2>1, <2>2 DEF Client!protocolVars
<1>2. CASE phase # "exited" /\ phase' = "exited"
  BY <1>2, LeavingStep DEF Client!ProtocolNext
<1>3. CASE phase # "exited" /\ phase' # "exited" /\ writer = "failed"
  <2>1. out' = out
    BY <1>3, OutputMoves DEF FailsEarly, Discloses, Forwards, Answers, Terminates, AddsRecord,
                             AddsTwo
  <2>2. exit' = exit
    <3>1. ~Exit /\ ~ExitBeforeStart BY <1>3 DEF Exit, ExitBeforeStart
    <3> QED BY <3>1, ExitMoves
  <2>3. Stage = "cut" /\ Stage' = "cut" /\ Views(out') = Views(out)
    BY <1>0, <1>3, <2>1 DEF Stage
  <2> QED BY <1>0, <1>3, <2>2, <2>3 DEF Client!protocolVars
<1>4. CASE writer = "running" /\ writer' = "failed"
  BY <1>4, CutStep DEF Client!ProtocolNext
<1>5. CASE phase # "exited" /\ phase' # "exited" /\ writer = "running" /\ writer' = "running"
  BY <1>5, WritingStep
<1>6. writer' \in {"running", "failed"} BY DEF IInv, TypeOK, OutputType
<1> QED BY <1>0, <1>1, <1>2, <1>3, <1>4, <1>5, <1>6

\* The server implements the protocol of its output, for any client, backend,
\* limits and identifiers: hello first, one acceptance, events and turn.*
\* terminals only after it, one terminal that is last, and an exit status that
\* fits it.
THEOREM ServerImplementsProtocol == Spec => RefinesTurnProtocol
<1>1. Init => Client!ProtocolInit BY ProtocolStarts
<1>2. OutInv /\ OutInv' /\ [Next]_vars => [Client!ProtocolNext]_(Client!protocolVars)
  BY ProtocolStep
<1> QED BY <1>1, <1>2, OutputInvariant, PTL
        DEF Spec, RefinesTurnProtocol, Client!ProtocolSpec
=============================================================================
