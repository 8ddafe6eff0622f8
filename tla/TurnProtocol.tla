---------------------------- MODULE TurnProtocol ----------------------------
(***************************************************************************)
(* What the server promises to the client that reads its output: the order *)
(* of the records of one process and the exit status that goes with them   *)
(* (docs/spec.md, sections 6.1, 6.2 and 8), whatever the client writes,    *)
(* the backend does or the output loses.                                   *)
(*                                                                         *)
(*   offered --Accept--> accepted --Close--> closed --Leave--> left        *)
(*      |                                      ^                           *)
(*      +---------------Close------------------+                           *)
(*                                                                         *)
(* In any stage but the last the output can be cut: then nothing is added  *)
(* any more and the process can only leave, never with success.            *)
(***************************************************************************)
EXTENDS Integers, Sequences

CONSTANTS SessionIds, CommandIds, NoSession, NoCommand, NoExit

VARIABLES
  transcript,  \* the records given to the output: type and correlation
  stage,       \* "offered", "accepted", "closed", "cut" or "left"
  session,     \* the session turn.accepted disclosed on an uncut output
  status       \* the exit status of the process

protocolVars == <<transcript, stage, session, status>>

Record(types, cmds) == [type : types, cmd : cmds, session : {session}]

EventRecord  == Record({"agent.event", "agent.event-truncated"}, {NoCommand})
MarkerRecord == Record({"agent.event-truncated"}, {NoCommand})
AnswerRecord == Record({"command.accepted", "command.rejected"}, CommandIds)
TerminalRecord ==
  Record(IF session = NoSession
           THEN {"process.failed"}
           ELSE {"turn.completed", "turn.cancelled", "turn.failed"}, {NoCommand})

\* Section 8: the exit status a client may see after a terminal.
StatusesAfter(type) ==
  CASE type = "turn.completed" -> {0}
    [] type = "turn.cancelled" -> {130}
    [] type = "turn.failed"    -> {2, 3, 4, 5}
    [] OTHER                   -> {2, 3, 4, 5, 130}

Open == stage \in {"offered", "accepted"}

ProtocolInit ==
  /\ session = NoSession
  /\ transcript = <<[type |-> "hello", cmd |-> NoCommand, session |-> NoSession]>>
  /\ stage = "offered" /\ status = NoExit

\* Once, and before any record that names the session.
Accept ==
  /\ stage = "offered" /\ stage' = "accepted"
  /\ session' \in SessionIds
  /\ transcript' = Append(transcript, [type |-> "turn.accepted",
                                       cmd |-> NoCommand, session |-> session'])
  /\ UNCHANGED status

\* Events come after acceptance; one may be preceded by a marker of drops.
Report ==
  /\ stage = "accepted"
  /\ \E e \in EventRecord :
       \/ transcript' = transcript \o <<e>>
       \/ \E m \in MarkerRecord : transcript' = transcript \o <<m, e>>
  /\ UNCHANGED <<stage, session, status>>

\* A command is answered before the terminal, under the session if there is one.
Answer ==
  /\ Open
  /\ \E a \in AnswerRecord : transcript' = transcript \o <<a>>
  /\ UNCHANGED <<stage, session, status>>

\* One terminal, and nothing after it.
Close ==
  /\ Open /\ stage' = "closed"
  /\ \E t \in TerminalRecord :
       \/ transcript' = transcript \o <<t>>
       \/ /\ stage = "accepted"
          /\ \E m \in MarkerRecord : transcript' = transcript \o <<m, t>>
  /\ UNCHANGED <<session, status>>

Cut ==
  /\ stage \notin {"cut", "left"} /\ stage' = "cut"
  /\ session' = NoSession
  /\ UNCHANGED <<transcript, status>>

Leave ==
  /\ stage' = "left"
  /\ \/ stage = "cut" /\ status' \in {2, 5, 130}
     \/ stage = "closed" /\ status' \in StatusesAfter(transcript[Len(transcript)].type)
  /\ UNCHANGED <<transcript, session>>

ProtocolNext == Accept \/ Report \/ Answer \/ Close \/ Cut \/ Leave

ProtocolSpec == ProtocolInit /\ [][ProtocolNext]_protocolVars
=============================================================================
