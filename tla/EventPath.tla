------------------------------ MODULE EventPath ------------------------------
(***************************************************************************)
(* The way of an event from the agent to stdout: EventForwarder, the       *)
(* server's handle_notice with the slots of its output queue, and the      *)
(* writer (src/src/backend.rs, src/src/server.rs).                         *)
(*                                                                         *)
(* Two bounded stages drop what finds them full, each coalesces its drops  *)
(* into a marker of its own, and a marker may be dropped by the next       *)
(* stage.  The session is accepted already, and the records of a turn that *)
(* are not events take no slot and are left out, the terminal excepted.    *)
(***************************************************************************)
EXTENDS EventForwarder

CONSTANT OutputSlots   \* EVENT_OUTPUT_CAPACITY

ASSUME SlotsAssumption == OutputSlots \in Nat \ {0}

VARIABLES
  handling,   \* a notice is received, and its record not queued yet
  pending,    \* event_backpressure_pending
  out,        \* records put on the output queue, the terminal last
  written,    \* how many of them are on stdout; only then is a slot free again
  writer      \* "running" or "failed"

serverVars == <<handling, pending, out, written, writer>>
pathVars == <<vars, serverVars>>

Terminal == Notice("terminal", 0, 0)
Settled == out # <<>> /\ out[Len(out)] = Terminal

PathInit ==
  /\ Init
  /\ handling = FALSE /\ pending = FALSE /\ out = <<>> /\ written = 0
  /\ writer = "running"
-----------------------------------------------------------------------------
\* try_acquire_owned finds a permit: events not written yet hold the others.
SlotFree(queue) == Len(queue) - written < OutputSlots

\* flush_event_backpressure_marker: the marker of earlier drops, if it finds a slot.
FlushMarker ==
  IF pending /\ writer = "running" /\ SlotFree(out)
    THEN out' = Append(out, BackpressureMarker) /\ pending' = FALSE
    ELSE UNCHANGED <<out, pending>>

\* handle_notice, first half.
Receive ==
  /\ ~handling /\ handling' = TRUE
  /\ Take
  /\ FlushMarker
  /\ UNCHANGED <<written, writer>>

\* Mutant: the server waits for a slot instead of dropping the event.
EnqueueEventWaiting(event) ==
  /\ writer = "running" => SlotFree(out)
  /\ out' = IF writer = "running" THEN Append(out, event) ELSE out
  /\ UNCHANGED pending

\* Mutant: an event overtakes the marker of the drops before it.
EnqueueEventOvertaking(event) ==
  \/ /\ writer = "failed"
     /\ UNCHANGED <<out, pending>>
  \/ /\ writer = "running" /\ SlotFree(out)
     /\ out' = Append(out, event) /\ UNCHANGED pending
  \/ /\ writer = "running" /\ ~SlotFree(out)
     /\ pending' = TRUE /\ UNCHANGED out

\* enqueue_event: behind a marker still pending everything is dropped; so is
\* what finds no slot.  A closed queue drops silently.
EnqueueEvent(event) ==
  \/ /\ pending \/ writer = "failed"
     /\ UNCHANGED <<out, pending>>
  \/ /\ ~pending /\ writer = "running" /\ SlotFree(out)
     /\ out' = Append(out, event) /\ UNCHANGED pending
  \/ /\ ~pending /\ writer = "running" /\ ~SlotFree(out)
     /\ pending' = TRUE /\ UNCHANGED out

\* handle_notice, second half; the writer may have freed a slot in between.
Handle ==
  /\ receiver = "open"
  /\ handling /\ handling' = FALSE
  /\ EnqueueEvent(sent[taken])
  /\ UNCHANGED <<vars, written, writer>>

\* Mutant: the last marker goes out although nothing is pending.
SettleMarked ==
  /\ stage = "finished" /\ receiver = "open"
  /\ taken = Len(sent) /\ ~handling /\ ~Settled
  /\ out' = out \o <<BackpressureMarker, Terminal>>
  /\ pending' = FALSE
  /\ UNCHANGED <<vars, handling, written, writer>>

\* The runner has returned and every notice is handled: the last marker goes
\* out as a control record, without a slot, and the terminal follows.
Settle ==
  /\ stage = "finished" /\ receiver = "open"
  /\ taken = Len(sent) /\ ~handling /\ ~Settled
  /\ out' = out \o (IF pending THEN <<BackpressureMarker>> ELSE <<>>)
                \o <<Terminal>>
  /\ pending' = FALSE
  /\ UNCHANGED <<vars, handling, written, writer>>

\* writer_loop: one record is written and flushed, and its permit dropped.
Write ==
  /\ writer = "running" /\ written < Len(out)
  /\ written' = written + 1
  /\ UNCHANGED <<vars, handling, pending, out, writer>>

\* A write or a flush fails: the writer ends and its end of the queue closes.
WriteFails ==
  /\ writer = "running" /\ written < Len(out)
  /\ writer' = "failed"
  /\ UNCHANGED <<vars, handling, pending, out, written>>

\* The forwarder's steps.  Its channel closes when the future of the server is
\* dropped while the runner, a task of its own, goes on.
Forwarding ==
  /\ \/ \E terminal \in BOOLEAN :
          \/ DropBehindMarker(terminal)
          \/ \E e \in UpstreamEvents : Forward(terminal, e)
     \/ StreamCloses \/ Finish
     \/ ~Settled /\ CloseReceiver
  /\ UNCHANGED serverVars

PathNext == Forwarding \/ Receive \/ Handle \/ Settle \/ Write \/ WriteFails

PathSpec == PathInit /\ [][PathNext]_pathVars

\* The runtime polls a task that can go on; nothing makes the client read
\* stdout, so the writer has no fairness.
FairPathSpec ==
  /\ PathSpec
  /\ WF_pathVars(Receive) /\ WF_pathVars(Handle) /\ WF_pathVars(Settle)
  /\ WF_pathVars(Finish /\ UNCHANGED serverVars)
-----------------------------------------------------------------------------
\* A client that reads the terminal knows of every event of the agent: it read
\* its record, or a marker exactly between the records of its neighbours,
\* whichever of the two stages dropped it and whether or not that stage's own
\* marker was dropped by the other; only events after the one that met the
\* aggregate limit go unnamed (spec 7.2).
StdoutNamesEveryGap ==
  Settled /\ writer = "running" =>
    \A k \in 1 .. seq :
      \/ \E i \in 1 .. Len(out) : out[i].n = k
      \/ exhaustedAt \in 1 .. k - 1
      \/ \E i \in 1 .. Len(out) :
           /\ out[i] = BackpressureMarker
           /\ \A j \in 1 .. Len(out) \ {i} :
                out[j].n # 0 => (j < i <=> out[j].n < k)

RecordWeight(record) ==
  CASE record = BackpressureMarker -> Reserve
    [] record = Terminal -> 0
    [] OTHER -> record.charge

Weighed(log) ==
  LET weighed[i \in 0 .. Len(log)] ==
        IF i = 0 THEN 0 ELSE weighed[i - 1] + RecordWeight(log[i])
  IN  weighed[Len(log)]

\* The event records on the output queue, the markers the server adds to the
\* forwarder's included, never weigh more than the aggregate budget: a marker
\* stands for at least one dropped notice that was charged as much.
StdoutWithinBudget == Weighed(out) <= MaxTotalBytes

\* Events never hold the turn back: once the agent's stream has ended the
\* terminal is queued, however long stdout stays blocked (spec 7.2: "The bridge
\* continues draining the upstream stream after any truncation or drop").
TurnEndsDespiteBlockedStdout ==
  stage = "finishing" ~> Settled \/ receiver = "closed"
=============================================================================
