--------------------------- MODULE EventForwarder ---------------------------
(***************************************************************************)
(* EventForwarder (src/src/backend.rs): how the events of the agent become *)
(* notices to the server.  Each event is classified, charged against the   *)
(* aggregate budget and offered to the bounded notice channel without      *)
(* waiting; what finds the channel full is remembered and named later by   *)
(* one coalesced backpressure marker.                                      *)
(*                                                                         *)
(* An event is its kind and two lengths: of its raw payload and of its     *)
(* safe projection.  Text and field selection are left out.                *)
(***************************************************************************)
EXTENDS Integers, Sequences

CONSTANTS
  UpstreamEvents,   \* the events a run lets the agent emit
  MaxEventBytes,    \* capabilities::MAX_EVENT_BYTES
  MaxTotalBytes,    \* capabilities::MAX_EVENT_TOTAL_BYTES
  Reserve,          \* EVENT_WIRE_ENVELOPE_RESERVE
  QueueCapacity,    \* NOTICE_QUEUE_CAPACITY
  MaxSeq            \* bound: events the agent emits

\* "withheld": api.event and reasoning.summary.delta, never projected;
\* "undecodable": its typed payload does not decode; "plain": any other.
EventKinds == {"plain", "withheld", "undecodable"}

ASSUME ForwarderAssumption ==
  /\ MaxEventBytes \in Nat /\ MaxTotalBytes \in Nat /\ Reserve \in Nat
  /\ QueueCapacity \in Nat \ {0} /\ MaxSeq \in Nat
  /\ Reserve <= MaxEventBytes /\ MaxEventBytes <= MaxTotalBytes
  /\ UpstreamEvents \subseteq [kind : EventKinds, raw : Nat, projected : Nat]

VARIABLES
  forwardedBytes,   \* forwarded_bytes: the charges so far
  totalReported,    \* total_truncation_reported
  owed,             \* backpressure_truncation_pending
  streamError,      \* run_with_openai's event_error
  seq,              \* upstream events read so far
  sent,             \* every notice put on the channel, in order
  taken,            \* how many of them the server has received
  receiver,         \* the server's end of the channel: "open" or "closed"
  stage,            \* "streaming", "finishing" (finish is awaited), "finished"
  wireBytes,        \* auxiliary: what the notices in sent weigh
  exhaustedAt       \* auxiliary: the event that met the aggregate limit, or 0

vars == <<forwardedBytes, totalReported, owed, streamError, seq, sent, taken,
          receiver, stage, wireBytes, exhaustedAt>>
-----------------------------------------------------------------------------
\* A notice: an Event or the reason of an EventTruncated, the upstream sequence
\* number (0: null), and the charge it was given.
Notice(reason, n, charge) == [reason |-> reason, n |-> n, charge |-> charge]
BackpressureMarker == Notice("bridge_event_backpressure", 0, 0)

\* Oversized payloads are turned away before they are decoded.
Classify(e, n) ==
  CASE e.raw + Reserve > MaxEventBytes
         -> Notice("event_limit", n, Reserve)
    [] e.raw + Reserve <= MaxEventBytes /\ e.kind # "plain"
         -> Notice("event_policy", n, Reserve)
    [] e.raw + Reserve <= MaxEventBytes /\ e.kind = "plain"
         -> IF e.projected + Reserve > MaxEventBytes
              THEN Notice("event_limit", n, Reserve)
              ELSE Notice("event", n, e.projected + Reserve)

\* Mutant: no room is kept for the marker of the limit itself.
ExceedsBudgetExactly(charge) == forwardedBytes + charge > MaxTotalBytes

ExceedsBudget(charge) == forwardedBytes + charge + Reserve > MaxTotalBytes

\* Mutant: one notice too many.
FullOffByOne(log) == Len(log) - taken > QueueCapacity

Full(log) == Len(log) - taken >= QueueCapacity

\* Auxiliary: the weight of what was sent once the owed marker has gone out.  A
\* backpressure marker is not charged, and weighs no more than the reserve.
Weight == wireBytes + (IF owed THEN Reserve ELSE 0)

\* Mutant: a notice that finds the channel full is forgotten.
TrySendForgetful(log, notice) ==
  /\ sent' = IF Full(log) THEN log ELSE Append(log, notice)
  /\ wireBytes' = IF Full(log) THEN Weight ELSE Weight + notice.charge
  /\ owed' = FALSE
  /\ UNCHANGED streamError

\* Sender::try_send after what this call already sent: what finds the channel
\* full is owed a marker.
TrySend(log, notice) ==
  \/ /\ receiver = "closed"
     /\ sent' = log /\ owed' = FALSE /\ streamError' = TRUE
     /\ UNCHANGED wireBytes
  \/ /\ receiver = "open" /\ Full(log)
     /\ sent' = log /\ owed' = TRUE /\ wireBytes' = Weight
     /\ UNCHANGED streamError
  \/ /\ receiver = "open" /\ ~Full(log)
     /\ sent' = Append(log, notice) /\ owed' = FALSE
     /\ wireBytes' = Weight + notice.charge
     /\ UNCHANGED streamError

\* The notice is charged and offered, or is over the aggregate budget: the
\* first such event becomes the marker of the limit, any other is dropped.
ChargeAndSend(log, notice) ==
  \/ /\ ~ExceedsBudget(notice.charge)
     /\ forwardedBytes' = forwardedBytes + notice.charge
     /\ TrySend(log, notice)
     /\ UNCHANGED <<totalReported, exhaustedAt>>
  \/ /\ ExceedsBudget(notice.charge) /\ ~totalReported
     /\ totalReported' = TRUE /\ exhaustedAt' = notice.n
     /\ TrySend(log, Notice("aggregate_event_limit", notice.n, Reserve))
     /\ UNCHANGED forwardedBytes
  \/ /\ ExceedsBudget(notice.charge) /\ totalReported
     /\ sent' = log /\ owed' = FALSE /\ wireBytes' = Weight
     /\ UNCHANGED <<forwardedBytes, totalReported, streamError, exhaustedAt>>
-----------------------------------------------------------------------------
Init ==
  /\ forwardedBytes = 0 /\ totalReported = FALSE /\ owed = FALSE
  /\ streamError = FALSE
  /\ seq = 0 /\ sent = <<>> /\ taken = 0 /\ receiver = "open"
  /\ stage = "streaming" /\ wireBytes = 0 /\ exhaustedAt = 0

\* One event of the turn's stream: a terminal event is the last one.
ReadEvent(terminal) ==
  /\ stage = "streaming" /\ seq < MaxSeq
  /\ seq' = seq + 1
  /\ stage' = IF terminal THEN "finishing" ELSE stage
  /\ UNCHANGED <<taken, receiver>>

\* forward, when a marker is owed and cannot go out: the event is dropped.
DropBehindMarker(terminal) ==
  /\ ReadEvent(terminal)
  /\ owed
  /\ \/ receiver = "open" /\ Full(sent) /\ UNCHANGED streamError
     \/ receiver = "closed" /\ streamError' = TRUE
  /\ UNCHANGED <<forwardedBytes, totalReported, owed, sent, wireBytes,
                 exhaustedAt>>

\* forward otherwise: the owed marker first, then the event.
Forward(terminal, e) ==
  /\ ReadEvent(terminal)
  /\ owed => receiver = "open" /\ ~Full(sent)
  /\ ChargeAndSend(IF owed THEN Append(sent, BackpressureMarker) ELSE sent,
                   Classify(e, seq + 1))

\* The stream ends without a terminal event.
StreamCloses ==
  /\ stage = "streaming"
  /\ stage' = "finishing" /\ streamError' = TRUE
  /\ UNCHANGED <<forwardedBytes, totalReported, owed, seq, sent, taken,
                 receiver, wireBytes, exhaustedAt>>

\* finish: waits for room to send the owed marker.
Finish ==
  /\ stage = "finishing" /\ stage' = "finished"
  /\ \/ /\ ~owed
        /\ UNCHANGED <<sent, owed, streamError, wireBytes>>
     \/ /\ owed /\ receiver = "open" /\ ~Full(sent)
        /\ sent' = Append(sent, BackpressureMarker) /\ owed' = FALSE
        /\ wireBytes' = Weight /\ UNCHANGED streamError
     \/ /\ owed /\ receiver = "closed"
        /\ streamError' = TRUE /\ UNCHANGED <<sent, owed, wireBytes>>
  /\ UNCHANGED <<forwardedBytes, totalReported, seq, taken, receiver, exhaustedAt>>

\* The server receives one notice.
Take ==
  /\ taken < Len(sent) /\ receiver = "open"
  /\ taken' = taken + 1
  /\ UNCHANGED <<forwardedBytes, totalReported, owed, streamError, seq, sent,
                 receiver, stage, wireBytes, exhaustedAt>>

\* The server drops its end.
CloseReceiver ==
  /\ receiver = "open" /\ receiver' = "closed"
  /\ UNCHANGED <<forwardedBytes, totalReported, owed, streamError, seq, sent,
                 taken, stage, wireBytes, exhaustedAt>>

Next ==
  \/ \E terminal \in BOOLEAN :
       \/ DropBehindMarker(terminal)
       \/ \E e \in UpstreamEvents : Forward(terminal, e)
  \/ StreamCloses \/ Finish \/ Take \/ CloseReceiver

Spec == Init /\ [][Next]_vars
-----------------------------------------------------------------------------
Reasons == {"event", "event_policy", "event_limit", "aggregate_event_limit",
            "bridge_event_backpressure"}
Notices == [reason : Reasons, n : 0 .. MaxSeq, charge : 0 .. MaxEventBytes]

\* Counters are naturals, the channel never holds more than its capacity and
\* no notice is charged more than one event may weigh.
TypeOK ==
  /\ forwardedBytes \in Nat /\ wireBytes \in Nat /\ totalReported \in BOOLEAN /\ owed \in BOOLEAN
  /\ streamError \in BOOLEAN
  /\ seq \in 0 .. MaxSeq /\ exhaustedAt \in 0 .. MaxSeq
  /\ sent \in Seq(Notices)
  /\ taken \in 0 .. Len(sent) /\ Len(sent) - taken <= QueueCapacity
  /\ receiver \in {"open", "closed"}
  /\ stage \in {"streaming", "finishing", "finished"}

\* The notices sent, the marker of the limit and every uncharged backpressure
\* marker included, never weigh more than the aggregate budget (spec 7.2),
\* however large the events: a backpressure marker lives on the charge of an
\* event that was dropped after it had been charged.
WithinBudget == wireBytes <= MaxTotalBytes

\* Until the event that meets the aggregate limit, that one included, and while
\* the server listens, an event that was not sent is named: by a backpressure
\* marker exactly between its neighbours, or by the marker still owed, which
\* finish does not forget.
GapsMarked ==
  receiver = "open" =>
    \A k \in 1 .. seq :
      \/ \E i \in 1 .. Len(sent) : sent[i].n = k
      \/ exhaustedAt \in 1 .. k - 1
      \/ /\ owed /\ stage # "finished"
         /\ \A j \in 1 .. Len(sent) : sent[j].n < k
      \/ \E i \in 1 .. Len(sent) :
           /\ sent[i] = BackpressureMarker
           /\ \A j \in 1 .. Len(sent) \ {i} :
                sent[j].n # 0 => (j < i <=> sent[j].n < k)

\* spec 7.2, of aggregate_event_limit: "Emitted at most once; later events are
\* suppressed."
LimitSuppressesLaterEvents ==
  \A i, j \in 1 .. Len(sent) :
    sent[i].reason = "aggregate_event_limit" /\ i < j => sent[j].reason # "event"
=============================================================================
