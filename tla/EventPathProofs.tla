-------------------------- MODULE EventPathProofs --------------------------
(* That no event is lost in silence on its way through both bounded stages,  *)
(* and that neither sends more than the budget, for any number of events,    *)
(* any sizes and limits, and any capacity of the channel and of the output   *)
(* queue.  The first part is about EventForwarder, of the notices sent; the  *)
(* second about EventPath, where each notice that was handled hands on what  *)
(* it tells: its record, the forwarder's marker or a marker of the server's. *)
EXTENDS EventPath, SequenceTheorems, TLAPS
-----------------------------------------------------------------------------
(* The forwarder: its types, the aggregate budget, and that no event is lost *)
(* in silence.  The budget is not inductive: an event is charged before it   *)
(* is offered, a backpressure marker is never charged but lives on the       *)
(* charge of a dropped event, and the marker of the limit lives on the       *)
(* reserve every charge left free.  Nor are the gaps: between a drop and the *)
(* marker that tells of it, the numbers of the dropped events are only in    *)
(* the debt.                                                                 *)

\* Everything sent, and the marker still owed, was charged, except the marker
\* of the limit; and a charge always leaves room for that marker.
Covered ==
  /\ Weight <= forwardedBytes + (IF totalReported THEN Reserve ELSE 0)
  /\ forwardedBytes + Reserve <= MaxTotalBytes

IInv == TypeOK /\ Covered

\* A classified event is a well-formed notice charged at least the reserve.
LEMMA ClassifyType ==
  ASSUME NEW e \in UpstreamEvents, NEW n \in 0 .. MaxSeq
  PROVE  Classify(e, n) \in Notices /\ Classify(e, n).charge >= Reserve
<1>1. e \in [kind : EventKinds, raw : Nat, projected : Nat]
  BY ForwarderAssumption
<1>2. CASE e.raw + Reserve > MaxEventBytes
  BY <1>1, <1>2, ForwarderAssumption DEF Classify, Notice, Notices, Reasons
<1>3. CASE e.raw + Reserve <= MaxEventBytes /\ e.kind # "plain"
  BY <1>1, <1>3, ForwarderAssumption DEF Classify, Notice, Notices, Reasons
<1>4. CASE e.raw + Reserve <= MaxEventBytes /\ e.kind = "plain"
  <2>1. CASE e.projected + Reserve > MaxEventBytes
    BY <1>1, <1>4, <2>1, ForwarderAssumption DEF Classify, Notice, Notices, Reasons
  <2>2. CASE e.projected + Reserve <= MaxEventBytes
    BY <1>1, <1>4, <2>2, ForwarderAssumption DEF Classify, Notice, Notices, Reasons
  <2>. QED BY <1>1, <2>1, <2>2, ForwarderAssumption
<1>. QED BY <1>1, <1>2, <1>3, <1>4, ForwarderAssumption

\* The types and the cover that a try_send leaves behind: log is the channel
\* so far, and budget what the notice may add to the weight.
SentType(log) ==
  /\ log \in Seq(Notices)
  /\ taken \in 0 .. Len(log) /\ Len(log) - taken <= QueueCapacity

LEMMA TrySendType ==
  ASSUME TypeOK, NEW log, SentType(log),
         NEW notice \in Notices, notice.charge >= Reserve,
         TrySend(log, notice)
  PROVE  /\ SentType(sent') /\ owed' \in BOOLEAN /\ streamError' \in BOOLEAN
         /\ wireBytes' \in Nat /\ Weight' \in Nat /\ Weight' <= Weight + notice.charge
<1>1. /\ notice.charge \in Nat /\ wireBytes \in Nat /\ Reserve \in Nat
      /\ Weight \in Nat /\ Weight >= wireBytes
  BY ForwarderAssumption DEF TypeOK, Notices, Weight
<1>2. CASE receiver = "closed" /\ sent' = log /\ owed' = FALSE
           /\ streamError' = TRUE /\ UNCHANGED wireBytes
  <2>1. streamError' \in BOOLEAN /\ owed' \in BOOLEAN
    BY <1>2
  <2>2. SentType(sent')
    BY <1>2 DEF SentType
  <2>3. wireBytes' = wireBytes /\ Weight' = wireBytes
    BY <1>1, <1>2 DEF Weight
  <2>. QED BY <1>1, <2>1, <2>2, <2>3, SMT
<1>3. CASE receiver = "open" /\ Full(log) /\ sent' = log /\ owed' = TRUE
           /\ wireBytes' = Weight /\ UNCHANGED streamError
  <2>1. streamError' \in BOOLEAN /\ owed' \in BOOLEAN
    BY <1>3 DEF TypeOK
  <2>2. SentType(sent')
    BY <1>3 DEF SentType
  <2>3. wireBytes' = Weight /\ Weight' = Weight + Reserve
    BY <1>1, <1>3 DEF Weight
  <2>. QED BY <1>1, <2>1, <2>2, <2>3, SMT
<1>4. CASE receiver = "open" /\ ~Full(log) /\ sent' = Append(log, notice)
           /\ owed' = FALSE /\ wireBytes' = Weight + notice.charge
           /\ UNCHANGED streamError
  <2>1. streamError' \in BOOLEAN /\ owed' \in BOOLEAN
    BY <1>4 DEF TypeOK
  <2>2. SentType(sent')
    <3>1. sent' \in Seq(Notices)
      BY <1>4 DEF SentType
    <3>2. Len(sent') = Len(log) + 1 /\ Len(log) \in Nat
      BY <1>4 DEF SentType
    <3>3. Len(log) - taken < QueueCapacity
      BY <1>4, <3>2, ForwarderAssumption DEF Full, SentType
    <3>. QED BY <3>1, <3>2, <3>3, ForwarderAssumption DEF SentType
  <2>3. wireBytes' = Weight + notice.charge /\ Weight' = Weight + notice.charge
    BY <1>1, <1>4 DEF Weight
  <2>. QED BY <1>1, <2>1, <2>2, <2>3, SMT
<1>. QED BY <1>2, <1>3, <1>4 DEF TrySend

\* Charging a notice and offering it keeps types and cover.
LEMMA ChargeAndSendKeeps ==
  ASSUME IInv, NEW log, SentType(log),
         NEW notice \in Notices,
         notice.charge \in Nat, notice.charge >= Reserve,
         ChargeAndSend(log, notice)
  PROVE  /\ SentType(sent')
         /\ owed' \in BOOLEAN /\ streamError' \in BOOLEAN /\ totalReported' \in BOOLEAN
         /\ exhaustedAt' \in 0 .. MaxSeq
         /\ forwardedBytes' \in Nat /\ wireBytes' \in Nat
         /\ Covered'
<1>. /\ forwardedBytes \in Nat /\ wireBytes \in Nat /\ totalReported \in BOOLEAN
     /\ Reserve \in Nat /\ MaxTotalBytes \in Nat /\ MaxEventBytes \in Nat
     /\ Reserve <= MaxEventBytes /\ TypeOK /\ Weight \in Nat
  BY ForwarderAssumption DEF IInv, TypeOK, Weight
<1>1. CASE /\ ~ExceedsBudget(notice.charge)
           /\ forwardedBytes' = forwardedBytes + notice.charge
           /\ TrySend(log, notice)
           /\ UNCHANGED <<totalReported, exhaustedAt>>
  <2>1. /\ SentType(sent') /\ owed' \in BOOLEAN /\ streamError' \in BOOLEAN
        /\ wireBytes' \in Nat /\ Weight' \in Nat /\ Weight' <= Weight + notice.charge
    BY <1>1, TrySendType
  <2>2. totalReported' \in BOOLEAN /\ exhaustedAt' \in 0 .. MaxSeq
    BY <1>1 DEF TypeOK
  <2>3. forwardedBytes' \in Nat /\ forwardedBytes' + Reserve <= MaxTotalBytes
    BY <1>1 DEF ExceedsBudget
  <2>4. Weight' <= forwardedBytes' + (IF totalReported' THEN Reserve ELSE 0)
    <3>1. CASE totalReported
      BY <1>1, <2>1, <3>1 DEF IInv, Covered
    <3>2. CASE ~totalReported
      BY <1>1, <2>1, <3>2 DEF IInv, Covered
    <3>. QED BY <3>1, <3>2
  <2>. QED BY <2>1, <2>2, <2>3, <2>4 DEF Covered
<1>2. CASE /\ ExceedsBudget(notice.charge) /\ ~totalReported
           /\ totalReported' = TRUE /\ exhaustedAt' = notice.n
           /\ TrySend(log, Notice("aggregate_event_limit", notice.n, Reserve))
           /\ UNCHANGED forwardedBytes
  <2>. DEFINE marker == Notice("aggregate_event_limit", notice.n, Reserve)
  <2>1. /\ marker \in Notices
        /\ marker.charge = Reserve /\ marker.charge >= Reserve
    BY ForwarderAssumption DEF Notice, Notices, Reasons
  <2>2. /\ SentType(sent') /\ owed' \in BOOLEAN /\ streamError' \in BOOLEAN
        /\ wireBytes' \in Nat /\ Weight' \in Nat /\ Weight' <= Weight + marker.charge
    <3>. HIDE DEF marker
    <3>1. TrySend(log, marker)
      BY <1>2 DEF marker
    <3>. QED BY <2>1, <3>1, TrySendType
  <2>3. totalReported' \in BOOLEAN /\ exhaustedAt' \in 0 .. MaxSeq
    BY <1>2 DEF Notices
  <2>4. /\ Weight' <= forwardedBytes' + (IF totalReported' THEN Reserve ELSE 0)
        /\ forwardedBytes' + Reserve <= MaxTotalBytes /\ forwardedBytes' \in Nat
    BY <1>2, <2>1, <2>2 DEF IInv, Covered
  <2>. QED BY <2>2, <2>3, <2>4 DEF Covered
<1>3. CASE /\ ExceedsBudget(notice.charge) /\ totalReported
           /\ sent' = log /\ owed' = FALSE /\ wireBytes' = Weight
           /\ UNCHANGED <<forwardedBytes, totalReported, streamError,
                          exhaustedAt>>
  <2>1. /\ SentType(sent') /\ owed' \in BOOLEAN /\ streamError' \in BOOLEAN
        /\ totalReported' \in BOOLEAN /\ exhaustedAt' \in 0 .. MaxSeq
    BY <1>3 DEF TypeOK
  <2>2. forwardedBytes' \in Nat /\ wireBytes' \in Nat /\ Weight' = Weight
    BY <1>3 DEF Weight
  <2>3. Covered'
    BY <1>3, <2>2 DEF IInv, Covered
  <2>. QED BY <2>1, <2>2, <2>3
<1>. QED BY <1>1, <1>2, <1>3 DEF ChargeAndSend

LEMMA InitInvariant == Init => IInv
<1>. SUFFICES ASSUME Init PROVE IInv
  OBVIOUS
<1>1. TypeOK
  <2>1. totalReported \in BOOLEAN /\ owed \in BOOLEAN /\ streamError \in BOOLEAN
    BY DEF Init
  <2>2. sent \in Seq(Notices) /\ taken \in 0 .. Len(sent)
        /\ Len(sent) - taken <= QueueCapacity
    BY ForwarderAssumption DEF Init
  <2>3. /\ forwardedBytes = 0 /\ wireBytes = 0 /\ seq = 0 /\ exhaustedAt = 0
        /\ receiver = "open" /\ stage = "streaming"
    BY DEF Init
  <2>4. /\ seq \in 0 .. MaxSeq /\ exhaustedAt \in 0 .. MaxSeq
        /\ forwardedBytes \in Nat /\ wireBytes \in Nat
    BY <2>3, ForwarderAssumption
  <2>. QED BY <2>1, <2>2, <2>3, <2>4 DEF TypeOK
<1>2. Covered
  BY ForwarderAssumption DEF Init, Covered, Weight
<1>. QED BY <1>1, <1>2 DEF IInv

\* One upstream event, whichever way forward takes.
LEMMA ForwardInvariant ==
  ASSUME IInv, NEW terminal \in BOOLEAN,
         DropBehindMarker(terminal) \/ \E e \in UpstreamEvents : Forward(terminal, e)
  PROVE  IInv'
<1>1. seq' \in 0 .. MaxSeq /\ seq' = seq + 1
  BY ForwarderAssumption DEF DropBehindMarker, Forward, ReadEvent, IInv, TypeOK
<1>2. /\ stage' \in {"streaming", "finishing", "finished"}
      /\ receiver' \in {"open", "closed"} /\ UNCHANGED <<taken, receiver>>
  BY DEF DropBehindMarker, Forward, ReadEvent, IInv, TypeOK
<1>3. CASE DropBehindMarker(terminal)
  <2>1. totalReported' \in BOOLEAN /\ owed' \in BOOLEAN /\ streamError' \in BOOLEAN
    BY <1>3 DEF DropBehindMarker, IInv, TypeOK
  <2>2. TypeOK'
    BY <1>1, <1>2, <1>3, <2>1 DEF DropBehindMarker, IInv, TypeOK
  <2>3. Covered'
    BY <1>3 DEF DropBehindMarker, IInv, Covered, Weight
  <2>. QED BY <2>2, <2>3 DEF IInv
<1>4. ASSUME NEW e \in UpstreamEvents, Forward(terminal, e) PROVE IInv'
  <2>. DEFINE log == IF owed THEN Append(sent, BackpressureMarker) ELSE sent
              notice == Classify(e, seq + 1)
  <2>1. SentType(log)
    <3>1. CASE ~owed
      BY <3>1 DEF SentType, IInv, TypeOK
    <3>2. CASE owed
      <4>1. ~Full(sent)
        BY <1>4, <3>2 DEF Forward
      <4>2. BackpressureMarker \in Notices
        BY ForwarderAssumption DEF BackpressureMarker, Notice, Notices, Reasons
      <4>3. log \in Seq(Notices)
        BY <3>2, <4>2 DEF IInv, TypeOK
      <4>4. Len(log) = Len(sent) + 1 /\ Len(sent) \in Nat
        BY <3>2 DEF IInv, TypeOK
      <4>5. Len(sent) - taken < QueueCapacity /\ taken \in 0 .. Len(sent)
        BY <4>1, <4>4, ForwarderAssumption DEF Full, IInv, TypeOK
      <4>. HIDE DEF log
      <4>. QED BY <4>3, <4>4, <4>5, ForwarderAssumption DEF SentType
    <3>. QED BY <3>1, <3>2
  <2>2. /\ notice \in Notices
        /\ notice.charge \in Nat /\ notice.charge >= Reserve
    <3>1. seq + 1 \in 0 .. MaxSeq
      BY <1>1
    <3>2. notice \in Notices /\ notice.charge >= Reserve
      BY <3>1, ClassifyType
    <3>. HIDE DEF notice
    <3>. QED BY <3>2, ForwarderAssumption DEF Notices
  <2>3. ChargeAndSend(log, notice)
    BY <1>4 DEF Forward
  <2>4. /\ SentType(sent')
        /\ owed' \in BOOLEAN /\ streamError' \in BOOLEAN /\ totalReported' \in BOOLEAN
        /\ exhaustedAt' \in 0 .. MaxSeq
        /\ forwardedBytes' \in Nat /\ wireBytes' \in Nat
        /\ Covered'
    <3>. HIDE DEF log, notice
    <3>. QED BY <2>1, <2>2, <2>3, ChargeAndSendKeeps
  <2>5. TypeOK'
    BY <1>1, <1>2, <2>4 DEF TypeOK, SentType
  <2>. QED BY <2>4, <2>5 DEF IInv
<1>. QED BY <1>3, <1>4

LEMMA NextInvariant == IInv /\ [Next]_vars => IInv'
<1>. SUFFICES ASSUME IInv, [Next]_vars PROVE IInv'
  OBVIOUS
<1>1. CASE \E terminal \in BOOLEAN : \/ DropBehindMarker(terminal)
                                     \/ \E e \in UpstreamEvents : Forward(terminal, e)
  BY <1>1, ForwardInvariant
<1>2. CASE StreamCloses
  <2>1. owed' \in BOOLEAN /\ totalReported' \in BOOLEAN /\ streamError' \in BOOLEAN
    BY <1>2 DEF StreamCloses, IInv, TypeOK
  <2>2. TypeOK'
    BY <1>2, <2>1 DEF StreamCloses, IInv, TypeOK
  <2>. QED BY <1>2, <2>2 DEF StreamCloses, IInv, Covered, Weight
<1>3. CASE Finish
  <2>1. owed' \in BOOLEAN /\ totalReported' \in BOOLEAN /\ streamError' \in BOOLEAN
    BY <1>3 DEF Finish, IInv, TypeOK
  <2>2. /\ sent' \in Seq(Notices)
        /\ taken' \in 0 .. Len(sent') /\ Len(sent') - taken' <= QueueCapacity
    <3>1. CASE sent' = sent
      BY <1>3, <3>1 DEF Finish, IInv, TypeOK
    <3>2. CASE owed /\ ~Full(sent) /\ sent' = Append(sent, BackpressureMarker)
      <4>1. BackpressureMarker \in Notices
        BY ForwarderAssumption DEF BackpressureMarker, Notice, Notices, Reasons
      <4>2. sent' \in Seq(Notices)
        BY <3>2, <4>1 DEF IInv, TypeOK
      <4>3. Len(sent') = Len(sent) + 1 /\ Len(sent) \in Nat
        BY <3>2 DEF IInv, TypeOK
      <4>4. Len(sent) - taken < QueueCapacity /\ taken \in 0 .. Len(sent)
        BY <3>2, <4>3, ForwarderAssumption DEF Full, IInv, TypeOK
      <4>5. taken' = taken
        BY <1>3 DEF Finish
      <4>. QED BY <4>2, <4>3, <4>4, <4>5, ForwarderAssumption
    <3>. QED BY <1>3, <3>1, <3>2 DEF Finish
  <2>3. /\ wireBytes' \in Nat /\ Weight' = Weight
        /\ UNCHANGED <<forwardedBytes, totalReported, seq, receiver, exhaustedAt>>
    BY <1>3, ForwarderAssumption DEF Finish, IInv, TypeOK, Weight
  <2>4. TypeOK'
    BY <1>3, <2>1, <2>2, <2>3 DEF Finish, IInv, TypeOK
  <2>. QED BY <2>3, <2>4 DEF IInv, Covered
<1>4. CASE Take
  <2>1. owed' \in BOOLEAN /\ totalReported' \in BOOLEAN /\ streamError' \in BOOLEAN
    BY <1>4 DEF Take, IInv, TypeOK
  <2>2. TypeOK'
    BY <1>4, <2>1, ForwarderAssumption DEF Take, IInv, TypeOK
  <2>. QED BY <1>4, <2>2 DEF Take, IInv, Covered, Weight
<1>5. CASE CloseReceiver
  <2>1. owed' \in BOOLEAN /\ totalReported' \in BOOLEAN /\ streamError' \in BOOLEAN
    BY <1>5 DEF CloseReceiver, IInv, TypeOK
  <2>2. TypeOK'
    BY <1>5, <2>1 DEF CloseReceiver, IInv, TypeOK
  <2>. QED BY <1>5, <2>2 DEF CloseReceiver, IInv, Covered, Weight
<1>6. CASE UNCHANGED vars
  <2>1. owed' \in BOOLEAN /\ totalReported' \in BOOLEAN /\ streamError' \in BOOLEAN
    BY <1>6 DEF vars, IInv, TypeOK
  <2>2. TypeOK'
    BY <1>6, <2>1 DEF vars, IInv, TypeOK
  <2>. QED BY <1>6, <2>2 DEF vars, IInv, Covered, Weight
<1>. QED BY <1>1, <1>2, <1>3, <1>4, <1>5, <1>6 DEF Next

\* Every state keeps the types and the cover of the budget.
LEMMA InvariantHolds == Spec => []IInv
  BY InitInvariant, NextInvariant, PTL DEF Spec

\* The forwarder's variables keep their types and the notice channel never
\* holds more than its capacity, whatever the agent emits.
THEOREM ForwarderTypeCorrect == Spec => []TypeOK
<1>1. IInv => TypeOK
  BY DEF IInv
<1>. QED BY <1>1, InvariantHolds, PTL

\* The cover bounds what was sent.
LEMMA CoverBoundsWire ==
  ASSUME IInv PROVE wireBytes \in Nat /\ wireBytes <= MaxTotalBytes
<1>. /\ forwardedBytes \in Nat /\ wireBytes \in Nat
     /\ Reserve \in Nat /\ MaxTotalBytes \in Nat
     /\ Weight >= wireBytes /\ Weight \in Nat
  BY ForwarderAssumption DEF IInv, TypeOK, Weight
<1>1. CASE totalReported
  BY <1>1 DEF IInv, Covered
<1>2. CASE ~totalReported
  BY <1>2 DEF IInv, Covered
<1>. QED BY <1>1, <1>2

\* The notices sent, the uncharged markers included, never weigh more than
\* MAX_EVENT_TOTAL_BYTES, for every set of events and every limit.
THEOREM BudgetKept == Spec => []WithinBudget
<1>1. IInv => WithinBudget
  BY CoverBoundsWire DEF WithinBudget
<1>. QED BY <1>1, InvariantHolds, PTL
-----------------------------------------------------------------------------
\* The gaps.  Of the events 1 .. last each is named in log, or lies behind the
\* one that met the aggregate limit, or is covered by the marker still owed.

Named(log, k) ==
  \/ \E i \in 1 .. Len(log) : log[i].n = k
  \/ \E i \in 1 .. Len(log) :
       /\ log[i] = BackpressureMarker
       /\ \A j \in 1 .. Len(log) \ {i} :
            log[j].n # 0 => (j < i <=> log[j].n < k)

Gaps(log, last, limit, owing) ==
  /\ \A j \in 1 .. Len(log) : log[j].n <= last
  /\ \A k \in 1 .. last :
       \/ Named(log, k)
       \/ limit \in 1 .. k - 1
       \/ owing /\ \A j \in 1 .. Len(log) : log[j].n < k

\* The aggregate limit was met by an event that has been read; a forwarder that
\* has finished owes nothing to a server that still listens.
Settlement ==
  /\ IF totalReported THEN exhaustedAt \in 1 .. seq ELSE exhaustedAt = 0
  /\ stage = "finished" /\ receiver = "open" => ~owed

GInv ==
  /\ IInv /\ Settlement
  /\ receiver = "open" => Gaps(sent, seq, exhaustedAt, owed)

LEMMA NumbersAreNaturals ==
  ASSUME NEW log \in Seq(Notices)
  PROVE  Len(log) \in Nat /\ \A i \in 1 .. Len(log) : log[i].n \in Nat
<1>1. \A i \in 1 .. Len(log) : log[i] \in Notices
  OBVIOUS
<1>2. \A notice \in Notices : notice.n \in Nat
  BY ForwarderAssumption DEF Notices
<1>. QED BY <1>1, <1>2

\* The owed marker goes out: it stands behind all that was sent before the gap.
LEMMA MarkerNamesTheGap ==
  ASSUME NEW log \in Seq(Notices), NEW last \in Nat, NEW limit \in Nat,
         Gaps(log, last, limit, TRUE)
  PROVE  Gaps(Append(log, BackpressureMarker), last, limit, FALSE)
<1>. DEFINE new == Append(log, BackpressureMarker)
<1>1. /\ Len(log) \in Nat /\ Len(new) = Len(log) + 1
      /\ \A i \in 1 .. Len(log) : new[i] = log[i] /\ log[i].n \in Nat
      /\ new[Len(log) + 1] = BackpressureMarker
  BY NumbersAreNaturals
<1>2. BackpressureMarker.n = 0
  BY DEF BackpressureMarker, Notice
<1>. HIDE DEF new
<1>3. \A j \in 1 .. Len(new) : new[j].n <= last
  BY <1>1, <1>2 DEF Gaps
<1>4. ASSUME NEW k \in 1 .. last PROVE Named(new, k) \/ limit \in 1 .. k - 1
  <2>1. CASE \E i \in 1 .. Len(log) : log[i].n = k
    BY <1>1, <2>1 DEF Named
  <2>2. ASSUME NEW i \in 1 .. Len(log), log[i] = BackpressureMarker,
               \A j \in 1 .. Len(log) \ {i} : log[j].n # 0 => (j < i <=> log[j].n < k)
        PROVE  Named(new, k)
    <3>1. i \in 1 .. Len(new) /\ new[i] = BackpressureMarker BY <1>1, <2>2
    <3>2. ASSUME NEW j \in 1 .. Len(new) \ {i}, new[j].n # 0
          PROVE  j < i <=> new[j].n < k
      <4>1. j # Len(log) + 1 BY <1>1, <1>2, <3>2
      <4>2. j \in 1 .. Len(log) \ {i} /\ new[j] = log[j] BY <1>1, <4>1
      <4> QED BY <2>2, <3>2, <4>2
    <3> QED BY <3>1, <3>2 DEF Named
  <2>3. CASE \A j \in 1 .. Len(log) : log[j].n < k
    BY <1>1, <1>2, <2>3 DEF Named
  <2>. QED BY <2>1, <2>2, <2>3 DEF Gaps, Named
<1>. QED BY <1>3, <1>4 DEF Gaps, new

\* One more event is sent: behind every marker that was.
LEMMA EventKeepsGaps ==
  ASSUME NEW log \in Seq(Notices), NEW last \in Nat, NEW limit \in Nat,
         Gaps(log, last, limit, FALSE), NEW notice \in Notices, notice.n = last + 1
  PROVE  Gaps(Append(log, notice), last + 1, limit, FALSE)
<1>. DEFINE new == Append(log, notice)
<1>1. /\ Len(log) \in Nat /\ Len(new) = Len(log) + 1
      /\ \A i \in 1 .. Len(log) : new[i] = log[i] /\ log[i].n \in Nat
      /\ new[Len(log) + 1] = notice
  BY NumbersAreNaturals
<1>. HIDE DEF new
<1>2. \A j \in 1 .. Len(new) : new[j].n <= last + 1
  BY <1>1 DEF Gaps
<1>3. ASSUME NEW k \in 1 .. last PROVE Named(new, k) \/ limit \in 1 .. k - 1
  <2>1. CASE \E i \in 1 .. Len(log) : log[i].n = k
    BY <1>1, <2>1 DEF Named
  <2>2. ASSUME NEW i \in 1 .. Len(log), log[i] = BackpressureMarker,
               \A j \in 1 .. Len(log) \ {i} : log[j].n # 0 => (j < i <=> log[j].n < k)
        PROVE  Named(new, k)
    <3>1. \A j \in 1 .. Len(new) \ {i} : new[j].n # 0 => (j < i <=> new[j].n < k)
      BY <1>1, <2>2
    <3>. QED BY <1>1, <2>2, <3>1 DEF Named
  <2>. QED BY <2>1, <2>2 DEF Gaps, Named
<1>4. Named(new, last + 1)
  BY <1>1 DEF Named
<1>. QED BY <1>2, <1>3, <1>4 DEF Gaps, new

\* An event is dropped, and a marker is owed for it; or it lies behind the limit.
LEMMA DropKeepsGaps ==
  ASSUME NEW log \in Seq(Notices), NEW last \in Nat, NEW limit \in Nat,
         NEW owing \in BOOLEAN, Gaps(log, last, limit, owing)
  PROVE  /\ Gaps(log, last + 1, limit, TRUE)
         /\ ~owing /\ limit \in 1 .. last => Gaps(log, last + 1, limit, FALSE)
<1>1. \A i \in 1 .. Len(log) : log[i].n \in Nat
  BY NumbersAreNaturals
<1>2. \A j \in 1 .. Len(log) : log[j].n <= last /\ log[j].n < last + 1
  BY <1>1 DEF Gaps
<1>3. \A k \in 1 .. last + 1 : k \in 1 .. last \/ k = last + 1
  OBVIOUS
<1>. QED BY <1>1, <1>2, <1>3 DEF Gaps

\* The limit is met by the event that is offered: what was named stays named.
LEMMA LimitKeepsGaps ==
  ASSUME NEW log, NEW last \in Nat, NEW limit \in Nat, NEW owing,
         Gaps(log, last, 0, owing)
  PROVE  Gaps(log, last, limit, owing)
BY DEF Gaps

\* A notice that is offered is sent, or a marker is owed for its event.
LEMMA TrySendKeepsGaps ==
  ASSUME GInv, receiver = "open", NEW log \in Seq(Notices),
         NEW limit \in Nat, Gaps(log, seq, limit, FALSE),
         NEW notice \in Notices, notice.n = seq + 1, TrySend(log, notice)
  PROVE  Gaps(sent', seq + 1, limit, owed')
<1>. seq \in Nat
  BY ForwarderAssumption DEF GInv, IInv, TypeOK
<1>1. CASE sent' = log /\ owed' = TRUE
  <2>1. Gaps(log, seq + 1, limit, TRUE)
    BY DropKeepsGaps
  <2>. QED BY <1>1, <2>1
<1>2. CASE sent' = Append(log, notice) /\ owed' = FALSE
  <2>1. Gaps(Append(log, notice), seq + 1, limit, FALSE)
    BY EventKeepsGaps
  <2>. QED BY <1>2, <2>1
<1>. QED BY <1>1, <1>2 DEF TrySend

\* One upstream event, whichever way forward takes.
LEMMA ForwardKeepsGaps ==
  ASSUME GInv, NEW terminal \in BOOLEAN,
         DropBehindMarker(terminal) \/ \E e \in UpstreamEvents : Forward(terminal, e)
  PROVE  Settlement' /\ (receiver' = "open" => Gaps(sent', seq', exhaustedAt', owed'))
<1>. /\ seq \in Nat /\ exhaustedAt \in Nat /\ owed \in BOOLEAN
     /\ totalReported \in BOOLEAN /\ sent \in Seq(Notices)
  BY ForwarderAssumption DEF GInv, IInv, TypeOK
<1>1. /\ seq' = seq + 1 /\ seq' \in 0 .. MaxSeq
      /\ stage' # "finished" /\ receiver' = receiver
  BY ForwarderAssumption DEF DropBehindMarker, Forward, ReadEvent, GInv, IInv, TypeOK
<1>2. CASE DropBehindMarker(terminal)
  <2>1. owed /\ UNCHANGED <<totalReported, owed, sent, exhaustedAt>>
    BY <1>2 DEF DropBehindMarker
  <2>2. Settlement'
    BY <1>1, <2>1 DEF GInv, Settlement
  <2>3. ASSUME receiver = "open" PROVE Gaps(sent, seq + 1, exhaustedAt, TRUE)
    BY <2>1, <2>3, DropKeepsGaps DEF GInv
  <2>4. owed' = TRUE
    BY <2>1
  <2>. QED BY <1>1, <2>1, <2>2, <2>3, <2>4
<1>3. ASSUME NEW e \in UpstreamEvents, Forward(terminal, e)
      PROVE  Settlement' /\ (receiver' = "open" => Gaps(sent', seq', exhaustedAt', owed'))
  <2>. DEFINE log == IF owed THEN Append(sent, BackpressureMarker) ELSE sent
              notice == Classify(e, seq + 1)
              marker == Notice("aggregate_event_limit", notice.n, Reserve)
  <2>1. ChargeAndSend(log, notice)
    BY <1>3 DEF Forward
  <2>2. log \in Seq(Notices)
    <3>1. BackpressureMarker \in Notices
      BY ForwarderAssumption DEF BackpressureMarker, Notice, Notices, Reasons
    <3>. QED BY <3>1
  <2>3. notice \in Notices /\ notice.n = seq + 1
    <3>1. notice \in Notices
      BY <1>1, ClassifyType
    <3>2. e \in [kind : EventKinds, raw : Nat, projected : Nat]
      BY ForwarderAssumption
    <3>3. notice.n = seq + 1
      BY <3>2, ForwarderAssumption DEF Classify, Notice
    <3>. QED BY <3>1, <3>3
  <2>4. marker \in Notices /\ marker.n = seq + 1
    BY <1>1, <2>3, ForwarderAssumption DEF Notice, Notices, Reasons
  <2>5. ASSUME receiver = "open" PROVE Gaps(log, seq, exhaustedAt, FALSE)
    <3>1. CASE owed
      <4>1. Gaps(sent, seq, exhaustedAt, TRUE)
        BY <2>5, <3>1 DEF GInv
      <4>. QED BY <3>1, <4>1, MarkerNamesTheGap
    <3>2. CASE ~owed
      <4>1. owed = FALSE
        BY <3>2
      <4>. QED BY <2>5, <4>1 DEF GInv
    <3>. QED BY <3>1, <3>2
  <2>. HIDE DEF log, notice, marker
  <2>6. CASE TrySend(log, notice) /\ UNCHANGED <<totalReported, exhaustedAt>>
    <3>1. Settlement'
      BY <1>1, <2>6 DEF GInv, Settlement
    <3>2. ASSUME receiver = "open" PROVE Gaps(sent', seq + 1, exhaustedAt, owed')
      BY <2>2, <2>3, <2>5, <2>6, <3>2, TrySendKeepsGaps
    <3>. QED BY <1>1, <2>6, <3>1, <3>2
  <2>7. CASE /\ ~totalReported /\ totalReported' = TRUE /\ exhaustedAt' = seq + 1
             /\ TrySend(log, marker)
    <3>1. Settlement' /\ exhaustedAt = 0
      BY <1>1, <2>7 DEF GInv, Settlement
    <3>2. ASSUME receiver = "open" PROVE Gaps(sent', seq + 1, 0, owed')
      BY <2>2, <2>4, <2>5, <2>7, <3>1, <3>2, TrySendKeepsGaps
    <3>3. receiver = "open" => Gaps(sent', seq + 1, seq + 1, owed')
      BY <3>2, LimitKeepsGaps
    <3>. QED BY <1>1, <2>7, <3>1, <3>3
  <2>8. CASE totalReported /\ sent' = log /\ owed' = FALSE
             /\ UNCHANGED <<totalReported, exhaustedAt>>
    <3>1. Settlement' /\ exhaustedAt \in 1 .. seq
      BY <1>1, <2>8 DEF GInv, Settlement
    <3>2. ASSUME receiver = "open" PROVE Gaps(log, seq + 1, exhaustedAt, FALSE)
      BY <2>2, <2>5, <3>1, <3>2, DropKeepsGaps
    <3>. QED BY <1>1, <2>8, <3>1, <3>2
  <2>. QED BY <2>1, <2>3, <2>6, <2>7, <2>8 DEF ChargeAndSend, marker
<1>. QED BY <1>2, <1>3

LEMMA FinishKeepsGaps ==
  ASSUME GInv, Finish
  PROVE  Settlement' /\ (receiver' = "open" => Gaps(sent', seq', exhaustedAt', owed'))
<1>. /\ seq \in Nat /\ exhaustedAt \in Nat /\ owed \in BOOLEAN /\ sent \in Seq(Notices)
  BY ForwarderAssumption DEF GInv, IInv, TypeOK
<1>1. UNCHANGED <<totalReported, seq, receiver, exhaustedAt>>
  BY DEF Finish
<1>2. CASE ~owed /\ UNCHANGED <<sent, owed>>
  BY <1>1, <1>2 DEF GInv, Settlement
<1>3. CASE owed /\ receiver = "open" /\ sent' = Append(sent, BackpressureMarker)
           /\ owed' = FALSE
  <2>1. Gaps(sent, seq, exhaustedAt, TRUE)
    BY <1>3 DEF GInv
  <2>2. Gaps(sent', seq, exhaustedAt, FALSE)
    BY <1>3, <2>1, MarkerNamesTheGap
  <2>3. Settlement'
    BY <1>1, <1>3 DEF GInv, Settlement
  <2>. QED BY <1>1, <1>3, <2>2, <2>3
<1>4. CASE owed /\ receiver = "closed"
  BY <1>1, <1>4 DEF GInv, Settlement
<1>. QED BY <1>2, <1>3, <1>4 DEF Finish

LEMMA NextKeepsGaps == GInv /\ [Next]_vars => GInv'
<1>. SUFFICES ASSUME GInv, [Next]_vars PROVE GInv'
  OBVIOUS
<1>1. IInv'
  BY NextInvariant DEF GInv
<1>2. CASE \E terminal \in BOOLEAN : \/ DropBehindMarker(terminal)
                                     \/ \E e \in UpstreamEvents : Forward(terminal, e)
  BY <1>1, <1>2, ForwardKeepsGaps DEF GInv
<1>3. CASE Finish
  BY <1>1, <1>3, FinishKeepsGaps DEF GInv
<1>4. CASE StreamCloses \/ Take
  BY <1>1, <1>4 DEF GInv, Settlement, StreamCloses, Take
<1>5. CASE CloseReceiver
  BY <1>1, <1>5 DEF GInv, Settlement, CloseReceiver
<1>6. CASE UNCHANGED vars
  BY <1>1, <1>6 DEF GInv, Settlement, vars
<1>. QED BY <1>2, <1>3, <1>4, <1>5, <1>6 DEF Next

LEMMA InitGaps == Init => GInv
<1>. SUFFICES ASSUME Init PROVE GInv
  OBVIOUS
<1>1. Gaps(sent, seq, exhaustedAt, owed)
  BY DEF Init, Gaps
<1>. QED BY <1>1, InitInvariant DEF Init, GInv, Settlement

\* Every event the agent emits is sent, or named by a marker in its place, or
\* waits for the marker forward owes it (EventForwarder::forward, finish), for
\* any sizes and limits, until the one that meets the aggregate limit.
THEOREM EveryGapIsMarked == Spec => []GapsMarked
<1>1. GInv => GapsMarked
  <2>. SUFFICES ASSUME GInv, receiver = "open", NEW k \in 1 .. seq
                PROVE  \/ Named(sent, k)
                       \/ exhaustedAt \in 1 .. k - 1
                       \/ /\ owed /\ stage # "finished"
                          /\ \A j \in 1 .. Len(sent) : sent[j].n < k
    BY DEF GapsMarked, Named
  <2>. QED BY DEF GInv, Settlement, Gaps
<1>2. Spec => []GInv
  BY InitGaps, NextKeepsGaps, PTL DEF Spec
<1>. QED BY <1>1, <1>2, PTL
-----------------------------------------------------------------------------
(* Both stages: the inductive invariant.                                   *)

\* Event numbers grow along the notices sent.
InOrder(log, last) ==
  /\ \A i \in 1 .. Len(log) : log[i].n <= last
  /\ \A i, j \in 1 .. Len(log) :
       i < j /\ log[i].n # 0 /\ log[j].n # 0 => log[i].n < log[j].n
SentInOrder == InOrder(sent, seq)

Queued == Notices \cup {Terminal}
Handled == IF handling THEN taken - 1 ELSE taken

PathType ==
  /\ handling \in BOOLEAN /\ pending \in BOOLEAN
  /\ out \in Seq(Queued) /\ writer \in {"running", "failed"}
  /\ handling => taken > 0

\* The output carries only events that were sent and handled.
OnlyHandled ==
  \A j \in 1 .. Len(out) : out[j].n # 0 =>
    \E q \in 1 .. Handled : sent[q].n = out[j].n

\* The marker at i stands where event k was left out.
PlacedIn(log, i, k) ==
  \A j \in 1 .. Len(log) \ {i} : log[j].n # 0 => (j < i <=> log[j].n < k)

\* The output names event k, or the marker that is pending will.
Reported(log, owing, k) ==
  \/ Named(log, k)
  \/ owing /\ \A j \in 1 .. Len(log) : log[j].n < k

\* What a handled notice tells, its event or the events its marker stands for,
\* the output tells too, or will.
HandedOn ==
  writer = "running" =>
    \A q \in 1 .. Handled :
      /\ sent[q].n # 0 => Reported(out, pending, sent[q].n)
      /\ sent[q] = BackpressureMarker =>
           \A k \in Nat \ {0} : PlacedIn(sent, q, k) => Reported(out, pending, k)

\* The terminal is last: every notice was sent, taken and handled before it.
SettledLast ==
  Settled => /\ stage = "finished" /\ receiver = "open"
             /\ taken = Len(sent) /\ ~handling /\ ~pending

PathInv ==
  /\ GInv /\ SentInOrder /\ PathType /\ OnlyHandled /\ HandedOn /\ SettledLast
-----------------------------------------------------------------------------
(* The forwarder's side.                                                   *)

LEMMA PathStepIsForwarderStep ==
  ASSUME [PathNext]_pathVars
  PROVE  [Next]_vars
BY DEF PathNext, Forwarding, Receive, Handle, Settle, Write, WriteFails, pathVars, Next

\* The path has the forwarder in it as it is: everything shown above
\* of the forwarder holds of the path.
THEOREM PathImplementsForwarder == PathSpec => Spec
<1>1. PathInit => Init BY DEF PathInit
<1>2. [PathNext]_pathVars => [Next]_vars BY PathStepIsForwarderStep
<1> QED BY <1>1, <1>2, PTL DEF PathSpec, Spec

LEMMA MarkerIsNotice == BackpressureMarker \in Notices /\ BackpressureMarker.n = 0
BY ForwarderAssumption DEF BackpressureMarker, Notice, Notices, Reasons

LEMMA ClassifiedNumber ==
  ASSUME NEW e \in UpstreamEvents, NEW n \in 0 .. MaxSeq
  PROVE  Classify(e, n).n = n
<1>1. e \in [kind : EventKinds, raw : Nat, projected : Nat]
  BY ForwarderAssumption
<1> QED BY <1>1, ForwarderAssumption DEF Classify, Notice

\* What one step adds to the notices sent.
LEMMA SentMoves ==
  ASSUME IInv, [Next]_vars
  PROVE  \/ sent' = sent /\ seq' \in {seq, seq + 1}
         \/ sent' = Append(sent, BackpressureMarker) /\ seq' \in {seq, seq + 1}
         \/ /\ seq' = seq + 1
            /\ \E n \in Notices : /\ n.n = seq + 1
                                  /\ \/ sent' = Append(sent, n)
                                     \/ sent' = Append(Append(sent, BackpressureMarker), n)
<1>1. ASSUME NEW terminal \in BOOLEAN, DropBehindMarker(terminal)
      PROVE  sent' = sent /\ seq' = seq + 1
  BY <1>1 DEF DropBehindMarker, ReadEvent
<1>2. ASSUME NEW terminal \in BOOLEAN, NEW e \in UpstreamEvents, Forward(terminal, e)
      PROVE  /\ seq' = seq + 1
             /\ \/ sent' = IF owed THEN Append(sent, BackpressureMarker) ELSE sent
                \/ \E n \in Notices :
                     /\ n.n = seq + 1
                     /\ sent' = Append(IF owed THEN Append(sent, BackpressureMarker) ELSE sent, n)
  <2> DEFINE log == IF owed THEN Append(sent, BackpressureMarker) ELSE sent
             c == Classify(e, seq + 1)
             limit == Notice("aggregate_event_limit", c.n, Reserve)
  <2>1. seq' = seq + 1 /\ ChargeAndSend(log, c) /\ seq < MaxSeq
    BY <1>2 DEF Forward, ReadEvent
  <2>2. seq + 1 \in 0 .. MaxSeq BY <2>1, ForwarderAssumption DEF IInv, TypeOK
  <2>3. c \in Notices /\ c.n = seq + 1
    BY <2>2, ClassifyType, ClassifiedNumber
  <2>4. limit \in Notices /\ limit.n = seq + 1
    BY <2>2, <2>3, ForwarderAssumption DEF Notice, Notices, Reasons
  <2> HIDE DEF log, c, limit
  <2>5. \A n : TrySend(log, n) => sent' = log \/ sent' = Append(log, n)
    BY DEF TrySend
  <2>6. sent' = log \/ sent' = Append(log, c) \/ sent' = Append(log, limit)
    BY <2>1, <2>5 DEF ChargeAndSend, limit
  <2> QED BY <2>1, <2>3, <2>4, <2>6 DEF log
<1>3. CASE Finish
  BY <1>3 DEF Finish
<1>4. CASE StreamCloses \/ Take \/ CloseReceiver
  BY <1>4 DEF StreamCloses, Take, CloseReceiver
<1>5. CASE UNCHANGED vars BY <1>5 DEF vars
<1> QED BY <1>1, <1>2, <1>3, <1>4, <1>5 DEF Next

\* Appending a notice that is no event, or the next event, keeps the order.
LEMMA AppendInOrder ==
  ASSUME NEW log \in Seq(Notices), NEW last \in Nat, InOrder(log, last),
         NEW notice \in Notices, notice.n = 0 \/ notice.n = last + 1
  PROVE  /\ Append(log, notice) \in Seq(Notices)
         /\ InOrder(Append(log, notice), IF notice.n = 0 THEN last ELSE last + 1)
<1> DEFINE new == Append(log, notice)
<1>1. /\ new \in Seq(Notices) /\ Len(log) \in Nat /\ Len(new) = Len(log) + 1
      /\ \A i \in 1 .. Len(log) : new[i] = log[i] /\ log[i].n \in Nat
      /\ new[Len(log) + 1] = notice
  BY NumbersAreNaturals
<1> HIDE DEF new
<1>2. \A i \in 1 .. Len(new) : new[i].n <= IF notice.n = 0 THEN last ELSE last + 1
  BY <1>1 DEF InOrder
<1>3. ASSUME NEW i \in 1 .. Len(new), NEW j \in 1 .. Len(new), i < j,
             new[i].n # 0, new[j].n # 0
      PROVE  new[i].n < new[j].n
  <2>1. i \in 1 .. Len(log) BY <1>1, <1>3
  <2>2. CASE j \in 1 .. Len(log) BY <1>1, <1>3, <2>1, <2>2 DEF InOrder
  <2>3. CASE j = Len(log) + 1
    <3>1. notice.n = last + 1 /\ new[j].n = last + 1 BY <1>1, <1>3, <2>3
    <3>2. new[i].n <= last /\ new[i].n \in Nat BY <1>1, <2>1 DEF InOrder
    <3> QED BY <3>1, <3>2
  <2> QED BY <1>1, <2>2, <2>3
<1> QED BY <1>1, <1>2, <1>3 DEF InOrder, new

LEMMA OrderGrows ==
  ASSUME NEW log \in Seq(Notices), NEW last \in Nat, InOrder(log, last)
  PROVE  InOrder(log, last + 1)
<1>1. \A i \in 1 .. Len(log) : log[i].n \in Nat BY NumbersAreNaturals
<1> QED BY <1>1 DEF InOrder

LEMMA OrderStep ==
  ASSUME IInv, SentInOrder, [Next]_vars
  PROVE  SentInOrder'
<1>0. sent \in Seq(Notices) /\ seq \in Nat /\ InOrder(sent, seq)
  BY ForwarderAssumption DEF IInv, TypeOK, SentInOrder
<1>1. ASSUME NEW log \in Seq(Notices), InOrder(log, seq), sent' = log, seq' \in {seq, seq + 1}
      PROVE  SentInOrder'
  BY <1>0, <1>1, OrderGrows DEF SentInOrder
<1>2. /\ Append(sent, BackpressureMarker) \in Seq(Notices)
      /\ InOrder(Append(sent, BackpressureMarker), seq)
  BY <1>0, MarkerIsNotice, AppendInOrder
<1>3. ASSUME NEW log \in Seq(Notices), InOrder(log, seq), seq' = seq + 1,
             NEW n \in Notices, n.n = seq + 1, sent' = Append(log, n)
      PROVE  SentInOrder'
  BY <1>0, <1>3, AppendInOrder DEF SentInOrder
<1> QED BY <1>0, <1>1, <1>2, <1>3, SentMoves

Grows(log, longer) ==
  /\ Len(log) <= Len(longer)
  /\ \A i \in 1 .. Len(log) : longer[i] = log[i]

LEMMA AppendGrows ==
  ASSUME NEW S, NEW log \in Seq(S), NEW r \in S PROVE Grows(log, Append(log, r))
BY DEF Grows

LEMMA SentGrows ==
  ASSUME IInv, [Next]_vars PROVE Grows(sent, sent')
<1>0. sent \in Seq(Notices) BY DEF IInv, TypeOK
<1>1. Grows(sent, sent) BY <1>0 DEF Grows
<1> DEFINE log == Append(sent, BackpressureMarker)
<1>2. log \in Seq(Notices) /\ Grows(sent, log)
  BY <1>0, MarkerIsNotice, AppendGrows
<1> HIDE DEF log
<1>3. ASSUME NEW n \in Notices PROVE Grows(sent, Append(sent, n)) /\ Grows(sent, Append(log, n))
  <2>1. Grows(sent, Append(sent, n)) BY <1>0, AppendGrows
  <2>2. Grows(log, Append(log, n)) BY <1>2, AppendGrows
  <2>3. Len(sent) \in Nat /\ Len(log) \in Nat /\ Len(Append(log, n)) \in Nat
    BY <1>0, <1>2
  <2>4. Grows(sent, Append(log, n)) BY <1>2, <2>2, <2>3 DEF Grows
  <2> QED BY <2>1, <2>4
<1> QED BY <1>1, <1>2, <1>3, SentMoves DEF log
-----------------------------------------------------------------------------
(* The output queue.                                                       *)

LEMMA QueuedNumbers ==
  /\ Terminal \in Queued /\ BackpressureMarker \in Queued
  /\ \A r \in Queued : r.n \in Nat
  /\ \A r \in Notices : r # Terminal
BY MarkerIsNotice, ForwarderAssumption DEF Queued, Terminal, Notice, Notices, Reasons

LEMMA Appended ==
  ASSUME NEW log \in Seq(Queued), NEW r \in Queued
  PROVE  /\ Len(log) \in Nat /\ Append(log, r) \in Seq(Queued)
         /\ Len(Append(log, r)) = Len(log) + 1
         /\ \A i \in 1 .. Len(log) : Append(log, r)[i] = log[i] /\ log[i].n \in Nat
         /\ Append(log, r)[Len(log) + 1] = r
<1>1. \A i \in 1 .. Len(log) : log[i] \in Queued OBVIOUS
<1> QED BY <1>1, QueuedNumbers

\* What the output names stays named when a marker, the terminal, or an event
\* that is not before it goes out.
LEMMA NamedStays ==
  ASSUME NEW log \in Seq(Queued), NEW r \in Queued, NEW k \in Nat,
         Named(log, k), r.n = 0 \/ k <= r.n
  PROVE  Named(Append(log, r), k)
<1> DEFINE new == Append(log, r)
<1>1. /\ Len(log) \in Nat /\ Len(new) = Len(log) + 1 /\ r.n \in Nat
      /\ \A i \in 1 .. Len(log) : new[i] = log[i] /\ log[i].n \in Nat
      /\ new[Len(log) + 1] = r
  BY Appended, QueuedNumbers
<1> HIDE DEF new
<1>2. CASE \E i \in 1 .. Len(log) : log[i].n = k
  BY <1>1, <1>2 DEF Named, new
<1>3. ASSUME NEW i \in 1 .. Len(log), log[i] = BackpressureMarker,
             \A j \in 1 .. Len(log) \ {i} : log[j].n # 0 => (j < i <=> log[j].n < k)
      PROVE  Named(new, k)
  <2>1. \A j \in 1 .. Len(new) \ {i} : new[j].n # 0 => (j < i <=> new[j].n < k)
    BY <1>1, <1>3
  <2> QED BY <1>1, <1>3, <2>1 DEF Named
<1> QED BY <1>2, <1>3 DEF Named, new

\* A marker at the end stands for every event after those that are out.
LEMMA MarkerNames ==
  ASSUME NEW log \in Seq(Queued), NEW k \in Nat, \A j \in 1 .. Len(log) : log[j].n < k
  PROVE  Named(Append(log, BackpressureMarker), k)
<1> DEFINE new == Append(log, BackpressureMarker)
<1>1. /\ Len(log) \in Nat /\ Len(new) = Len(log) + 1
      /\ \A i \in 1 .. Len(log) : new[i] = log[i] /\ log[i].n \in Nat
      /\ new[Len(log) + 1] = BackpressureMarker
  BY Appended, QueuedNumbers
<1> HIDE DEF new
<1>2. \A j \in 1 .. Len(new) \ {Len(log) + 1} :
        new[j].n # 0 => (j < Len(log) + 1 <=> new[j].n < k)
  BY <1>1
<1> QED BY <1>1, <1>2 DEF Named, new
-----------------------------------------------------------------------------
(* Each conjunct, where a step only adds to what was sent and to the output. *)

LEMMA HandledIsSent ==
  ASSUME IInv, PathType
  PROVE  Handled \in Nat /\ Handled <= taken /\ taken \in Nat /\ Len(sent) \in Nat
         /\ taken <= Len(sent)
BY DEF IInv, TypeOK, PathType, Handled

LEMMA SentNumbers ==
  ASSUME IInv
  PROVE  /\ sent \in Seq(Notices)
         /\ \A q \in 1 .. Len(sent) : sent[q] \in Notices /\ sent[q].n \in Nat
<1>1. sent \in Seq(Notices) BY DEF IInv, TypeOK
<1> QED BY <1>1, NumbersAreNaturals

LEMMA PlacedEarlier ==
  ASSUME NEW log \in Seq(Notices), NEW longer, Grows(log, longer), Len(longer) \in Nat,
         NEW q \in 1 .. Len(log), NEW k \in Nat, PlacedIn(longer, q, k)
  PROVE  PlacedIn(log, q, k)
<1>1. Len(log) \in Nat OBVIOUS
<1>2. \A j \in 1 .. Len(log) \ {q} : j \in 1 .. Len(longer) \ {q} /\ longer[j] = log[j]
  BY <1>1 DEF Grows
<1> QED BY <1>2 DEF PlacedIn

LEMMA HandedStays ==
  ASSUME IInv, PathType, HandedOn, [Next]_vars, Handled' = Handled,
         writer' = "running" => writer = "running",
         \A k \in Nat : Reported(out, pending, k) => Reported(out', pending', k)
  PROVE  HandedOn'
<1>1. Grows(sent, sent') BY SentGrows
<1>2. sent' \in Seq(Notices) /\ Len(sent') \in Nat
  <2>1. IInv' BY NextInvariant
  <2> QED BY <2>1 DEF IInv, TypeOK
<1> SUFFICES ASSUME writer = "running", NEW q \in 1 .. Handled
             PROVE  /\ sent'[q].n # 0 => Reported(out', pending', sent'[q].n)
                    /\ sent'[q] = BackpressureMarker =>
                         \A k \in Nat \ {0} : PlacedIn(sent', q, k) => Reported(out', pending', k)
  BY DEF HandedOn
<1>3. q \in 1 .. Len(sent) /\ sent'[q] = sent[q] /\ sent[q].n \in Nat
  BY <1>1, HandledIsSent, SentNumbers DEF Grows
<1>4. sent[q].n # 0 => Reported(out', pending', sent[q].n)
  BY <1>3 DEF HandedOn
<1>5. ASSUME sent[q] = BackpressureMarker, NEW k \in Nat \ {0}, PlacedIn(sent', q, k)
      PROVE  Reported(out', pending', k)
  BY <1>1, <1>2, <1>3, <1>5, SentNumbers, PlacedEarlier DEF HandedOn
<1> QED BY <1>3, <1>4, <1>5

LEMMA OnlyHandledStays ==
  ASSUME IInv, PathType, OnlyHandled, [Next]_vars, Handled' = Handled,
         \/ out' = out
         \/ \E r \in Queued : r.n = 0 /\ out' = Append(out, r)
  PROVE  OnlyHandled'
<1>1. Grows(sent, sent') BY SentGrows
<1>2. \A q \in 1 .. Handled : q \in 1 .. Len(sent) /\ sent'[q] = sent[q]
  BY <1>1, HandledIsSent DEF Grows
<1> SUFFICES ASSUME NEW j \in 1 .. Len(out'), out'[j].n # 0
             PROVE  \E q \in 1 .. Handled : sent'[q].n = out'[j].n
  BY DEF OnlyHandled
<1>3. j \in 1 .. Len(out) /\ out'[j] = out[j]
  BY Appended DEF PathType
<1> QED BY <1>2, <1>3 DEF OnlyHandled
-----------------------------------------------------------------------------
(* The steps of the server.                                                *)

LEMMA FlushKeepsReports ==
  ASSUME PathType, FlushMarker
  PROVE  /\ out' = out \/ out' = Append(out, BackpressureMarker)
         /\ out' \in Seq(Queued) /\ pending' \in BOOLEAN
         /\ \A k \in Nat : Reported(out, pending, k) => Reported(out', pending', k)
<1>1. CASE pending /\ writer = "running" /\ SlotFree(out)
  <2>1. out' = Append(out, BackpressureMarker) /\ pending' = FALSE
    BY <1>1 DEF FlushMarker
  <2>2. out \in Seq(Queued) /\ BackpressureMarker \in Queued /\ BackpressureMarker.n = 0
    BY QueuedNumbers, MarkerIsNotice DEF PathType
  <2>3. ASSUME NEW k \in Nat, Reported(out, pending, k) PROVE Reported(out', pending', k)
    <3>1. Named(Append(out, BackpressureMarker), k)
      BY <2>2, <2>3, NamedStays, MarkerNames DEF Reported
    <3> QED BY <2>1, <3>1 DEF Reported
  <2>4. Append(out, BackpressureMarker) \in Seq(Queued) BY <2>2, Appended
  <2> QED BY <2>1, <2>3, <2>4
<1>2. CASE ~(pending /\ writer = "running" /\ SlotFree(out))
  <2>1. out' = out /\ pending' = pending BY <1>2 DEF FlushMarker
  <2> QED BY <2>1 DEF Reported, PathType
<1> QED BY <1>1, <1>2

\* Terminal is not sent, so nothing else makes the output look settled.
LEMMA NotSettledBy ==
  ASSUME PathType, ~Settled,
         \/ out' = out
         \/ \E r \in Notices : out' = Append(out, r)
  PROVE  ~Settled'
<1>1. CASE out' = out BY <1>1 DEF Settled
<1>2. ASSUME NEW r \in Notices, out' = Append(out, r) PROVE ~Settled'
  <2>1. out'[Len(out')] = r BY <1>2, Appended DEF PathType, Queued
  <2> QED BY <2>1, QueuedNumbers DEF Settled
<1> QED BY <1>1, <1>2

LEMMA ReceiveKeeps ==
  ASSUME PathInv, Receive
  PROVE  PathType' /\ OnlyHandled' /\ HandedOn' /\ SettledLast'
<1>1. /\ IInv /\ PathType /\ [Next]_vars
      /\ handling = FALSE /\ handling' = TRUE /\ taken' = taken + 1
      /\ taken < Len(sent) /\ writer' = writer
  BY DEF PathInv, GInv, Receive, Take, Next, PathType
<1>2. taken \in Nat /\ Handled' = Handled /\ taken' > 0
  BY <1>1, HandledIsSent DEF Handled
<1>3. /\ out' = out \/ out' = Append(out, BackpressureMarker)
      /\ out' \in Seq(Queued) /\ pending' \in BOOLEAN
      /\ \A k \in Nat : Reported(out, pending, k) => Reported(out', pending', k)
  BY <1>1, FlushKeepsReports DEF Receive
<1>4. PathType' BY <1>1, <1>2, <1>3 DEF PathType
<1>5. OnlyHandled'
  BY <1>1, <1>2, <1>3, OnlyHandledStays, MarkerIsNotice, QueuedNumbers DEF PathInv
<1>6. HandedOn' BY <1>1, <1>2, <1>3, HandedStays DEF PathInv
<1>7. ~Settled BY <1>1 DEF PathInv, SettledLast
<1>8. ~Settled' BY <1>1, <1>3, <1>7, NotSettledBy, MarkerIsNotice
<1> QED BY <1>4, <1>5, <1>6, <1>8 DEF SettledLast

\* The notice being handled is not before anything its predecessors told of.
LEMMA NextIsNotBefore ==
  ASSUME IInv, SentInOrder, NEW q \in 1 .. Len(sent), NEW p \in 1 .. Len(sent), q < p,
         sent[p].n # 0
  PROVE  /\ sent[q].n <= sent[p].n
         /\ \A k \in Nat : PlacedIn(sent, q, k) => k <= sent[p].n
<1>1. /\ Len(sent) \in Nat /\ sent[q].n \in Nat /\ sent[p].n \in Nat
  BY SentNumbers
<1>2. sent[q].n <= sent[p].n
  BY <1>1 DEF SentInOrder, InOrder
<1>3. ASSUME NEW k \in Nat, PlacedIn(sent, q, k) PROVE k <= sent[p].n
  <2>1. ~(p < q) /\ p \in 1 .. Len(sent) \ {q} BY <1>1
  <2>2. ~(sent[p].n < k) BY <1>3, <2>1 DEF PlacedIn
  <2> QED BY <1>1, <2>2
<1> QED BY <1>2, <1>3

\* The events that are out were sent before the notice being handled.
LEMMA OutIsBefore ==
  ASSUME IInv, PathType, SentInOrder, OnlyHandled, handling,
         NEW j \in 1 .. Len(out)
  PROVE  /\ sent[taken].n # 0 => out[j].n < sent[taken].n
         /\ \A k \in Nat \ {0} : PlacedIn(sent, taken, k) => out[j].n < k
<1>1. /\ taken \in 1 .. Len(sent) /\ Handled = taken - 1 /\ sent[taken].n \in Nat
      /\ out[j].n \in Nat
  BY HandledIsSent, SentNumbers, Appended, QueuedNumbers DEF PathType, Handled
<1>2. CASE out[j].n = 0
  BY <1>1, <1>2
<1>3. CASE out[j].n # 0
  <2>1. PICK q \in 1 .. Handled : sent[q].n = out[j].n
    BY <1>3 DEF OnlyHandled
  <2>2. q \in 1 .. Len(sent) \ {taken} /\ q < taken
    BY <1>1, <2>1, HandledIsSent
  <2>3. sent[taken].n # 0 => out[j].n < sent[taken].n
    BY <1>1, <1>3, <2>1, <2>2 DEF SentInOrder, InOrder
  <2>4. \A k \in Nat \ {0} : PlacedIn(sent, taken, k) => out[j].n < k
    BY <1>3, <2>1, <2>2 DEF PlacedIn
  <2> QED BY <2>3, <2>4
<1> QED BY <1>2, <1>3

LEMMA HandleKeepsOutput ==
  ASSUME PathInv, Handle
  PROVE  PathType' /\ OnlyHandled' /\ SettledLast'
<1>1. /\ IInv /\ PathType /\ handling = TRUE /\ handling' = FALSE
      /\ taken' = taken /\ sent' = sent /\ writer' = writer
      /\ out' = out \/ out' = Append(out, sent[taken])
      /\ pending' \in BOOLEAN
  BY DEF PathInv, GInv, Handle, PathType, vars, EnqueueEvent
<1>2. /\ taken \in 1 .. Len(sent) /\ Handled = taken - 1 /\ Handled' = taken
      /\ sent[taken] \in Notices /\ sent[taken] \in Queued
  BY <1>1, HandledIsSent, SentNumbers DEF PathType, Handled, Queued
<1>3. out' \in Seq(Queued) BY <1>1, <1>2, Appended DEF PathType
<1>4. PathType' BY <1>1, <1>3 DEF PathType
<1>5. ASSUME NEW j \in 1 .. Len(out'), out'[j].n # 0
      PROVE  \E q \in 1 .. taken : sent[q].n = out'[j].n
  <2>1. CASE j \in 1 .. Len(out) /\ out'[j] = out[j]
    BY <1>2, <1>5, <2>1 DEF PathInv, OnlyHandled
  <2>2. CASE out'[j] = sent[taken]
    BY <1>2, <2>2
  <2> QED BY <1>1, <1>2, <2>1, <2>2, Appended DEF PathType
<1>6. OnlyHandled' BY <1>1, <1>2, <1>5 DEF OnlyHandled
<1>7. ~Settled BY <1>1 DEF PathInv, SettledLast
<1>8. ~Settled' BY <1>1, <1>2, <1>7, NotSettledBy
<1> QED BY <1>4, <1>6, <1>8 DEF SettledLast

\* handle_notice's second half: the notice's record goes out behind all it does
\* not tell of, or a marker is pending that will stand in its place.
LEMMA HandleKeepsReports ==
  ASSUME PathInv, Handle
  PROVE  HandedOn'
<1>1. /\ IInv /\ PathType /\ SentInOrder /\ OnlyHandled /\ HandedOn
      /\ handling = TRUE /\ handling' = FALSE
      /\ taken' = taken /\ sent' = sent /\ writer' = writer
      /\ EnqueueEvent(sent[taken])
  BY DEF PathInv, GInv, Handle, PathType, vars
<1> DEFINE notice == sent[taken]
<1>2. /\ taken \in 1 .. Len(sent) /\ Handled = taken - 1 /\ Handled' = taken
      /\ notice \in Notices /\ notice \in Queued /\ notice.n \in Nat /\ out \in Seq(Queued)
  BY <1>1, HandledIsSent, SentNumbers DEF PathType, Handled, Queued
<1> SUFFICES ASSUME writer = "running", NEW q \in 1 .. taken
             PROVE  /\ sent[q].n # 0 => Reported(out', pending', sent[q].n)
                    /\ sent[q] = BackpressureMarker =>
                         \A k \in Nat \ {0} : PlacedIn(sent, q, k) => Reported(out', pending', k)
  BY <1>1, <1>2 DEF HandedOn
<1> HIDE DEF notice
<1>3. \/ pending /\ out' = out /\ pending' = pending
      \/ ~pending /\ out' = Append(out, notice) /\ pending' = pending
      \/ ~pending /\ out' = out /\ pending' = TRUE
  BY <1>1 DEF EnqueueEvent, notice
<1>4. ASSUME NEW k \in Nat, Reported(out, pending, k), notice.n = 0 \/ k <= notice.n
      PROVE  Reported(out', pending', k)
  BY <1>2, <1>3, <1>4, NamedStays DEF Reported
<1>5. CASE q < taken
  <2>1. q \in 1 .. Handled /\ q \in 1 .. Len(sent) /\ sent[q].n \in Nat
    BY <1>1, <1>2, <1>5, SentNumbers
  <2>2. /\ notice.n = 0 \/ sent[q].n <= notice.n
        /\ \A k \in Nat : PlacedIn(sent, q, k) => notice.n = 0 \/ k <= notice.n
    BY <1>1, <1>2, <1>5, <2>1, NextIsNotBefore DEF notice
  <2>3. /\ sent[q].n # 0 => Reported(out, pending, sent[q].n)
        /\ sent[q] = BackpressureMarker =>
             \A k \in Nat \ {0} : PlacedIn(sent, q, k) => Reported(out, pending, k)
    BY <1>1, <2>1 DEF HandedOn
  <2> QED BY <1>4, <2>1, <2>2, <2>3
<1>6. CASE q = taken
  <2>1. ASSUME notice.n # 0 PROVE Reported(out', pending', notice.n)
    <3>1. \A j \in 1 .. Len(out) : out[j].n < notice.n
      BY <1>1, <2>1, OutIsBefore DEF notice
    <3>2. CASE out' = out /\ pending' = TRUE
      BY <3>1, <3>2 DEF Reported
    <3>3. CASE out' = Append(out, notice)
      <4>1. Len(out) + 1 \in 1 .. Len(out') /\ out'[Len(out) + 1] = notice
        BY <1>2, <3>3, Appended
      <4> QED BY <4>1 DEF Reported, Named
    <3> QED BY <1>1, <1>3, <3>2, <3>3 DEF PathType
  <2>2. ASSUME notice = BackpressureMarker, NEW k \in Nat \ {0}, PlacedIn(sent, taken, k)
        PROVE  Reported(out', pending', k)
    <3>1. \A j \in 1 .. Len(out) : out[j].n < k
      BY <1>1, <2>2, OutIsBefore
    <3>2. CASE out' = out /\ pending' = TRUE
      BY <3>1, <3>2 DEF Reported
    <3>3. CASE out' = Append(out, notice)
      BY <1>2, <2>2, <3>1, <3>3, MarkerNames DEF Reported
    <3> QED BY <1>1, <1>3, <3>2, <3>3 DEF PathType
  <2> QED BY <1>6, <2>1, <2>2 DEF notice
<1> QED BY <1>2, <1>5, <1>6

\* The last marker and the terminal, as two records put out one by one.
LEMMA SettleAppends ==
  ASSUME PathType, Settle
  PROVE  out' = Append(IF pending THEN Append(out, BackpressureMarker) ELSE out, Terminal)
<1>1. out \in Seq(Queued) /\ BackpressureMarker \in Queued /\ Terminal \in Queued
  BY QueuedNumbers DEF PathType
<1>2. ASSUME NEW log \in Seq(Queued), NEW r \in Queued PROVE log \o <<r>> = Append(log, r)
  BY <1>2, AppendIsConcat
<1>3. CASE pending
  <2>1. Append(out, BackpressureMarker) \in Seq(Queued) BY <1>1, Appended
  <2>2. out' = (out \o <<BackpressureMarker>>) \o <<Terminal>> BY <1>3 DEF Settle
  <2> QED BY <1>1, <1>2, <1>3, <2>1, <2>2
<1>4. CASE ~pending
  <2>1. out' = (out \o <<>>) \o <<Terminal>> BY <1>4 DEF Settle
  <2>2. out \o <<>> = out BY <1>1, ConcatEmptySeq
  <2> QED BY <1>1, <1>2, <1>4, <2>1, <2>2
<1> QED BY <1>3, <1>4

LEMMA SettleKeeps ==
  ASSUME PathInv, Settle
  PROVE  PathType' /\ OnlyHandled' /\ HandedOn' /\ SettledLast'
<1> DEFINE log == IF pending THEN Append(out, BackpressureMarker) ELSE out
<1>1. /\ IInv /\ PathType /\ OnlyHandled /\ HandedOn /\ [Next]_vars
      /\ handling = FALSE /\ handling' = handling /\ pending' = FALSE
      /\ taken = Len(sent) /\ stage = "finished" /\ receiver = "open"
      /\ writer' = writer /\ UNCHANGED vars
  BY DEF PathInv, GInv, Settle, PathType
<1>2. /\ sent' = sent /\ taken' = taken /\ stage' = stage /\ receiver' = receiver
      /\ Handled' = Handled
  BY <1>1 DEF vars, Handled
<1>3. /\ out \in Seq(Queued) /\ BackpressureMarker \in Queued /\ Terminal \in Queued
      /\ BackpressureMarker.n = 0 /\ Terminal.n = 0
  <2>1. Terminal.n = 0 BY DEF Terminal, Notice
  <2>2. out \in Seq(Queued) BY <1>1 DEF PathType
  <2> QED BY <2>1, <2>2, QueuedNumbers, MarkerIsNotice
<1>4. log \in Seq(Queued) /\ out' = Append(log, Terminal) /\ out' \in Seq(Queued)
  BY <1>1, <1>3, Appended, SettleAppends
<1>5. ASSUME NEW k \in Nat, Reported(out, pending, k) PROVE Reported(out', pending', k)
  <2>1. Named(log, k) BY <1>3, <1>5, NamedStays, MarkerNames DEF Reported
  <2>2. Named(out', k)
    <3> HIDE DEF log
    <3> QED BY <1>3, <1>4, <2>1, NamedStays
  <2> QED BY <2>2 DEF Reported
<1>6. PathType' BY <1>1, <1>2, <1>4 DEF PathType
<1>7. OnlyHandled'
  <2> SUFFICES ASSUME NEW j \in 1 .. Len(out'), out'[j].n # 0
               PROVE  \E q \in 1 .. Handled : sent[q].n = out'[j].n
    BY <1>2 DEF OnlyHandled
  <2>1. j \in 1 .. Len(log) /\ out'[j] = log[j]
    <3> HIDE DEF log
    <3> QED BY <1>3, <1>4, Appended
  <2>2. j \in 1 .. Len(out) /\ log[j] = out[j]
    BY <1>3, <2>1, Appended
  <2> QED BY <1>1, <2>1, <2>2 DEF OnlyHandled
<1>8. HandedOn' BY <1>1, <1>2, <1>5, HandedStays
<1>9. SettledLast' BY <1>1, <1>2 DEF SettledLast
<1> QED BY <1>6, <1>7, <1>8, <1>9

LEMMA WriteKeeps ==
  ASSUME PathInv, Write \/ WriteFails \/ UNCHANGED pathVars
  PROVE  PathType' /\ OnlyHandled' /\ HandedOn' /\ SettledLast'
<1>1. /\ IInv /\ PathType /\ OnlyHandled /\ HandedOn /\ [Next]_vars
      /\ handling' = handling /\ pending' = pending /\ out' = out
      /\ writer' \in {writer, "failed"} /\ UNCHANGED vars
  BY DEF PathInv, GInv, Write, WriteFails, pathVars, serverVars
<1>2. /\ sent' = sent /\ taken' = taken /\ stage' = stage /\ receiver' = receiver
      /\ Handled' = Handled
  BY <1>1 DEF vars, Handled
<1>3. PathType' BY <1>1, <1>2 DEF PathType
<1>4. OnlyHandled' BY <1>1, <1>2, OnlyHandledStays
<1>5. HandedOn' BY <1>1, <1>2, HandedStays
<1>6. SettledLast' BY <1>1, <1>2 DEF PathInv, SettledLast, Settled
<1> QED BY <1>3, <1>4, <1>5, <1>6

\* The forwarder adds to what is sent; a settled turn has no forwarder left.
LEMMA ForwardingKeeps ==
  ASSUME PathInv, Forwarding
  PROVE  PathType' /\ OnlyHandled' /\ HandedOn' /\ SettledLast'
<1>1. /\ IInv /\ PathType /\ OnlyHandled /\ HandedOn /\ [Next]_vars
      /\ UNCHANGED serverVars
  BY DEF PathInv, GInv, Forwarding, Next
<1>2. handling' = handling /\ pending' = pending /\ out' = out /\ writer' = writer
  BY <1>1 DEF serverVars
<1>3. taken' = taken
  BY DEF Forwarding, DropBehindMarker, Forward, ReadEvent, StreamCloses, Finish, CloseReceiver
<1>4. Handled' = Handled BY <1>2, <1>3 DEF Handled
<1>5. PathType' BY <1>1, <1>2, <1>3 DEF PathType
<1>6. OnlyHandled' BY <1>1, <1>2, <1>4, OnlyHandledStays
<1>7. HandedOn' BY <1>1, <1>2, <1>4, HandedStays
<1>8. ~Settled
  BY DEF PathInv, SettledLast, Forwarding, DropBehindMarker, Forward, ReadEvent,
         StreamCloses, Finish
<1>9. SettledLast' BY <1>2, <1>8 DEF SettledLast, Settled
<1> QED BY <1>5, <1>6, <1>7, <1>9
-----------------------------------------------------------------------------
LEMMA PathInitInvariant == PathInit => PathInv
<1> SUFFICES ASSUME PathInit PROVE PathInv OBVIOUS
<1>1. GInv BY InitGaps DEF PathInit
<1>2. sent = <<>> /\ out = <<>> /\ taken = 0 /\ seq = 0 /\ ~handling /\ Handled = 0
  BY DEF PathInit, Init, Handled
<1>3. SentInOrder BY <1>2 DEF SentInOrder, InOrder
<1>4. PathType
  <2>1. out \in Seq(Queued) BY <1>2
  <2> QED BY <1>2, <2>1 DEF PathInit, PathType
<1>5. OnlyHandled /\ HandedOn BY <1>2 DEF OnlyHandled, HandedOn
<1>6. SettledLast BY <1>2 DEF SettledLast, Settled
<1> QED BY <1>1, <1>3, <1>4, <1>5, <1>6 DEF PathInv

LEMMA PathNextInvariant == PathInv /\ [PathNext]_pathVars => PathInv'
<1> SUFFICES ASSUME PathInv, [PathNext]_pathVars PROVE PathInv' OBVIOUS
<1>1. [Next]_vars BY PathStepIsForwarderStep
<1>2. GInv' BY <1>1, NextKeepsGaps DEF PathInv
<1>3. SentInOrder' BY <1>1, OrderStep DEF PathInv, GInv
<1> DEFINE Rest == PathType' /\ OnlyHandled' /\ HandedOn' /\ SettledLast'
<1>4. Forwarding => Rest BY ForwardingKeeps
<1>5. Receive => Rest BY ReceiveKeeps
<1>6. Handle => Rest BY HandleKeepsOutput, HandleKeepsReports
<1>7. Settle => Rest BY SettleKeeps
<1>8. Write \/ WriteFails \/ UNCHANGED pathVars => Rest BY WriteKeeps
<1>9. Rest
  <2> HIDE DEF Rest
  <2> QED BY <1>4, <1>5, <1>6, <1>7, <1>8 DEF PathNext
<1> QED BY <1>2, <1>3, <1>9 DEF PathInv

\* A client that reads the terminal of a turn whose stdout held knows of every
\* event the agent emitted before the aggregate limit: its record is out, or a
\* marker stands exactly in its place, whichever of EventForwarder and
\* handle_notice dropped it, and whatever became of that stage's own marker.
THEOREM GapsReachStdout == PathSpec => []StdoutNamesEveryGap
<1>1. PathInv => StdoutNamesEveryGap
  <2> SUFFICES ASSUME PathInv, Settled, writer = "running", NEW k \in 1 .. seq
               PROVE  Named(out, k) \/ exhaustedAt \in 1 .. k - 1
    BY DEF StdoutNamesEveryGap, Named
  <2>1. /\ stage = "finished" /\ receiver = "open" /\ taken = Len(sent)
        /\ ~handling /\ ~pending /\ seq \in Nat
    BY ForwarderAssumption DEF PathInv, SettledLast, GInv, IInv, TypeOK
  <2>2. Gaps(sent, seq, exhaustedAt, owed) /\ ~owed
    BY <2>1 DEF PathInv, GInv, Settlement
  <2>3. Named(sent, k) \/ exhaustedAt \in 1 .. k - 1
    BY <2>2 DEF Gaps
  <2>4. Handled = Len(sent) BY <2>1 DEF Handled
  <2>5. ASSUME Named(sent, k) PROVE Named(out, k)
    <3>1. k \in Nat \ {0} BY <2>1
    <3>2. Reported(out, pending, k)
      BY <2>4, <2>5, <3>1 DEF Named, PathInv, HandedOn, PlacedIn
    <3> QED BY <2>1, <3>2 DEF Reported
  <2> QED BY <2>3, <2>5
<1>2. PathSpec => []PathInv
  BY PathInitInvariant, PathNextInvariant, PTL DEF PathSpec
<1> QED BY <1>1, <1>2, PTL
-----------------------------------------------------------------------------
(* The budget on stdout.  Weighed is a recursive function: what is said of it *)
(* is said of every function that solves its equation, and of one that does,  *)
(* so that a step only ever has to extend a solution by one record or cut it. *)

Sums(f, log) ==
  f = [i \in 0 .. Len(log) |-> IF i = 0 THEN 0 ELSE f[i - 1] + RecordWeight(log[i])]

\* What was sent weighs bytes, f says how much up to each notice, and every
\* notice was charged at least what a marker in its place weighs.
SentPaid(f, log, bytes) ==
  /\ Sums(f, log) /\ f[Len(log)] = bytes
  /\ \A q \in 1 .. Len(log) : RecordWeight(log[q]) >= Reserve
  /\ \A q \in 0 .. Len(log) : f[q] \in Nat /\ f[q] <= f[Len(log)]

\* What is out, with the marker that is pending, weighs no more than paid.
OutPaid(log, owing, paid) ==
  /\ \E g : Sums(g, log)
  /\ \A g : Sums(g, log) =>
       /\ g[Len(log)] \in Nat
       /\ g[Len(log)] + (IF owing THEN Reserve ELSE 0) <= paid

\* The notices handled pay for what is out.
Paid ==
  \E f : SentPaid(f, sent, wireBytes) /\ OutPaid(out, pending, f[Handled])

BudgetInv == PathInv /\ Paid

LEMMA Weights ==
  /\ RecordWeight(BackpressureMarker) = Reserve /\ RecordWeight(Terminal) = 0
  /\ \A r \in Queued : RecordWeight(r) \in Nat
  /\ \A r \in Notices : r.charge >= Reserve => RecordWeight(r) >= Reserve
  /\ \A r \in Notices : r # BackpressureMarker => RecordWeight(r) = r.charge
<1>1. BackpressureMarker # Terminal /\ RecordWeight(BackpressureMarker) = Reserve
      /\ RecordWeight(Terminal) = 0
  BY MarkerIsNotice, QueuedNumbers DEF RecordWeight
<1>2. \A r \in Notices : r.charge \in Nat /\ r # Terminal
  BY ForwarderAssumption, QueuedNumbers DEF Notices
<1>3. ASSUME NEW r \in Notices, r # BackpressureMarker PROVE RecordWeight(r) = r.charge
  BY <1>2, <1>3 DEF RecordWeight
<1> QED BY <1>1, <1>2, <1>3, ForwarderAssumption DEF Queued

\* One record more is one sum more.
LEMMA SumsExtend ==
  ASSUME NEW S, NEW log \in Seq(S), NEW r \in S, NEW f, Sums(f, log)
  PROVE  \E g : /\ Sums(g, Append(log, r))
                /\ \A i \in 0 .. Len(log) : g[i] = f[i]
                /\ g[Len(log) + 1] = f[Len(log)] + RecordWeight(r)
<1> DEFINE new == Append(log, r)
           g == [i \in 0 .. Len(log) + 1 |->
                  IF i <= Len(log) THEN f[i] ELSE f[Len(log)] + RecordWeight(r)]
<1>1. /\ Len(log) \in Nat /\ Len(new) = Len(log) + 1
      /\ \A i \in 1 .. Len(log) : new[i] = log[i]
      /\ new[Len(log) + 1] = r
  OBVIOUS
<1> HIDE DEF new
<1>2. \A i \in 0 .. Len(log) : g[i] = f[i] BY <1>1
<1>3. g[Len(log) + 1] = f[Len(log)] + RecordWeight(r) BY <1>1
<1>4. \A i \in 0 .. Len(log) : f[i] = IF i = 0 THEN 0 ELSE f[i - 1] + RecordWeight(log[i])
  BY DEF Sums
<1>5. ASSUME NEW i \in 0 .. Len(new)
      PROVE  g[i] = IF i = 0 THEN 0 ELSE g[i - 1] + RecordWeight(new[i])
  <2>1. CASE i = 0 BY <1>1, <1>2, <1>4, <2>1
  <2>2. CASE i \in 1 .. Len(log)
    <3>1. i \in 0 .. Len(log) /\ i - 1 \in 0 .. Len(log) /\ i # 0 BY <1>1, <2>2
    <3> QED BY <1>1, <1>2, <1>4, <2>2, <3>1
  <2>3. CASE i = Len(log) + 1
    <3>1. i # 0 /\ i - 1 = Len(log) /\ Len(log) \in 0 .. Len(log) BY <1>1, <2>3
    <3> QED BY <1>1, <1>2, <1>3, <2>3, <3>1
  <2> QED BY <1>1, <2>1, <2>2, <2>3
<1>6. Sums(g, new) BY <1>1, <1>5 DEF Sums
<1> QED BY <1>2, <1>3, <1>6 DEF new

LEMMA SumsCut ==
  ASSUME NEW S, NEW log \in Seq(S), NEW r \in S, NEW g, Sums(g, Append(log, r))
  PROVE  \E f : /\ Sums(f, log) /\ f[Len(log)] = g[Len(log)]
                /\ g[Len(log) + 1] = f[Len(log)] + RecordWeight(r)
<1> DEFINE new == Append(log, r)
           f == [i \in 0 .. Len(log) |-> g[i]]
<1>1. /\ Len(log) \in Nat /\ Len(new) = Len(log) + 1
      /\ \A i \in 1 .. Len(log) : new[i] = log[i]
      /\ new[Len(log) + 1] = r
  OBVIOUS
<1> HIDE DEF new
<1>2. \A i \in 0 .. Len(new) : g[i] = IF i = 0 THEN 0 ELSE g[i - 1] + RecordWeight(new[i])
  BY DEF Sums, new
<1>3. ASSUME NEW i \in 0 .. Len(log)
      PROVE  f[i] = IF i = 0 THEN 0 ELSE f[i - 1] + RecordWeight(log[i])
  <2>1. f[i] = g[i] /\ i \in 0 .. Len(new) BY <1>1
  <2>2. CASE i = 0 BY <1>2, <2>1, <2>2
  <2>3. CASE i # 0
    <3>1. i - 1 \in 0 .. Len(log) /\ i \in 1 .. Len(log) BY <1>1, <2>3
    <3> QED BY <1>1, <1>2, <2>1, <2>3, <3>1
  <2> QED BY <2>2, <2>3
<1>4. Sums(f, log) BY <1>3 DEF Sums
<1>5. f[Len(log)] = g[Len(log)] BY <1>1
<1>6. g[Len(log) + 1] = g[Len(log)] + RecordWeight(r)
  <2>1. Len(log) + 1 \in 0 .. Len(new) /\ Len(log) + 1 # 0 /\ (Len(log) + 1) - 1 = Len(log)
    BY <1>1
  <2> QED BY <1>1, <1>2, <2>1
<1> QED BY <1>4, <1>5, <1>6

LEMMA PaidAppend ==
  ASSUME NEW log \in Seq(Notices), NEW bytes \in Nat, NEW f, SentPaid(f, log, bytes),
         NEW r \in Notices, RecordWeight(r) >= Reserve
  PROVE  \E g : /\ SentPaid(g, Append(log, r), bytes + RecordWeight(r))
                /\ \A i \in 0 .. Len(log) : g[i] = f[i]
<1> DEFINE new == Append(log, r)
<1>1. /\ Len(log) \in Nat /\ Len(new) = Len(log) + 1
      /\ \A i \in 1 .. Len(log) : new[i] = log[i]
      /\ new[Len(log) + 1] = r
  OBVIOUS
<1>2. RecordWeight(r) \in Nat BY Weights DEF Queued
<1>3. PICK g : /\ Sums(g, new)
               /\ \A i \in 0 .. Len(log) : g[i] = f[i]
               /\ g[Len(log) + 1] = f[Len(log)] + RecordWeight(r)
  BY SumsExtend DEF SentPaid
<1> HIDE DEF new
<1>4. g[Len(new)] = bytes + RecordWeight(r) BY <1>1, <1>3 DEF SentPaid
<1>5. \A q \in 1 .. Len(new) : RecordWeight(new[q]) >= Reserve
  BY <1>1 DEF SentPaid
<1>6. ASSUME NEW q \in 0 .. Len(new) PROVE g[q] \in Nat /\ g[q] <= g[Len(new)]
  <2>1. CASE q \in 0 .. Len(log)
    <3>1. g[q] = f[q] /\ f[q] \in Nat /\ f[q] <= bytes BY <1>3, <2>1 DEF SentPaid
    <3> QED BY <1>2, <1>4, <3>1
  <2>2. CASE q = Len(new) BY <1>2, <1>4, <2>2
  <2> QED BY <1>1, <2>1, <2>2
<1>7. SentPaid(g, new, bytes + RecordWeight(r)) BY <1>3, <1>4, <1>5, <1>6 DEF SentPaid
<1> QED BY <1>3, <1>7 DEF new

\* An offer: what is sent is paid for out of the charge of its event.
LEMMA TrySendPays ==
  ASSUME IInv, NEW log \in Seq(Notices), NEW f, SentPaid(f, log, Weight),
         NEW notice \in Notices, notice.n = seq + 1, notice.charge >= Reserve,
         TrySend(log, notice), receiver = "closed" => ~owed
  PROVE  \E g : /\ SentPaid(g, sent', wireBytes')
                /\ \A i \in 0 .. Len(log) : g[i] = f[i]
<1>1. /\ notice # BackpressureMarker /\ RecordWeight(notice) = notice.charge
      /\ RecordWeight(notice) >= Reserve
  <2>1. seq \in Nat BY ForwarderAssumption DEF IInv, TypeOK
  <2> QED BY <2>1, MarkerIsNotice, Weights
<1>2. Weight \in Nat /\ (~owed => Weight = wireBytes)
  BY ForwarderAssumption DEF Weight, IInv, TypeOK
<1>3. CASE sent' = log /\ wireBytes' = Weight BY <1>3
<1>4. CASE sent' = Append(log, notice) /\ wireBytes' = Weight + notice.charge
  BY <1>1, <1>2, <1>4, PaidAppend
<1> QED BY <1>2, <1>3, <1>4 DEF TrySend

\* The owed marker lives on the charge of the event that was dropped.
LEMMA MarkerPays ==
  ASSUME IInv, NEW f, SentPaid(f, sent, wireBytes)
  PROVE  LET log == IF owed THEN Append(sent, BackpressureMarker) ELSE sent IN
         /\ log \in Seq(Notices) /\ Len(sent) <= Len(log) /\ Len(log) \in Nat
         /\ \E g : SentPaid(g, log, Weight) /\ \A i \in 0 .. Len(sent) : g[i] = f[i]
<1>1. sent \in Seq(Notices) /\ wireBytes \in Nat /\ Reserve \in Nat
  BY ForwarderAssumption DEF IInv, TypeOK
<1>2. CASE owed
  <2>1. Weight = wireBytes + RecordWeight(BackpressureMarker)
    BY <1>1, <1>2, Weights DEF Weight
  <2>2. RecordWeight(BackpressureMarker) >= Reserve BY <1>1, Weights
  <2>3. \E g : /\ SentPaid(g, Append(sent, BackpressureMarker), Weight)
               /\ \A i \in 0 .. Len(sent) : g[i] = f[i]
    BY <1>1, <2>1, <2>2, MarkerIsNotice, PaidAppend
  <2> QED BY <1>1, <1>2, <2>3, MarkerIsNotice
<1>3. CASE ~owed
  <2>1. Weight = wireBytes BY <1>1, <1>3 DEF Weight
  <2> QED BY <1>1, <1>3, <2>1
<1> QED BY <1>2, <1>3

LEMMA SentStaysPaid ==
  ASSUME IInv, [Next]_vars, NEW f, SentPaid(f, sent, wireBytes)
  PROVE  \E g : /\ SentPaid(g, sent', wireBytes')
                /\ \A i \in 0 .. Len(sent) : g[i] = f[i]
<1> DEFINE log == IF owed THEN Append(sent, BackpressureMarker) ELSE sent
           Goal == \E g : /\ SentPaid(g, sent', wireBytes')
                          /\ \A i \in 0 .. Len(sent) : g[i] = f[i]
<1>1. /\ log \in Seq(Notices) /\ Len(sent) <= Len(log) /\ Len(log) \in Nat
      /\ \E g : SentPaid(g, log, Weight) /\ \A i \in 0 .. Len(sent) : g[i] = f[i]
  BY MarkerPays
<1>2. PICK h : SentPaid(h, log, Weight) /\ \A i \in 0 .. Len(sent) : h[i] = f[i]
  BY <1>1
<1>3. Len(sent) \in Nat /\ seq \in Nat /\ sent \in Seq(Notices)
  BY ForwarderAssumption DEF IInv, TypeOK
<1>4. ASSUME sent' = sent, wireBytes' = wireBytes PROVE Goal
  BY <1>4
<1>5. ASSUME NEW terminal \in BOOLEAN, NEW e \in UpstreamEvents, Forward(terminal, e)
      PROVE  Goal
  <2> DEFINE c == Classify(e, seq + 1)
             limit == Notice("aggregate_event_limit", c.n, Reserve)
  <2>1. /\ ChargeAndSend(log, c) /\ seq < MaxSeq /\ (receiver = "closed" => ~owed)
    BY <1>5 DEF Forward, ReadEvent
  <2>2. seq + 1 \in 0 .. MaxSeq BY <1>3, <2>1, ForwarderAssumption
  <2>3. c \in Notices /\ c.n = seq + 1 /\ c.charge >= Reserve
    BY <2>2, ClassifyType, ClassifiedNumber
  <2>4. limit \in Notices /\ limit.n = seq + 1 /\ limit.charge >= Reserve
    BY <2>2, <2>3, ForwarderAssumption DEF Notice, Notices, Reasons
  <2> HIDE DEF log, c, limit
  <2>5. ASSUME NEW n \in Notices, n.n = seq + 1, n.charge >= Reserve, TrySend(log, n)
        PROVE  Goal
    <3>1. PICK g : SentPaid(g, sent', wireBytes') /\ \A i \in 0 .. Len(log) : g[i] = h[i]
      BY <1>1, <1>2, <2>1, <2>5, TrySendPays
    <3>2. \A i \in 0 .. Len(sent) : i \in 0 .. Len(log) BY <1>1, <1>3
    <3> QED BY <1>2, <3>1, <3>2
  <2>6. CASE sent' = log /\ wireBytes' = Weight
    BY <1>2, <2>6
  <2> QED BY <2>1, <2>3, <2>4, <2>5, <2>6 DEF ChargeAndSend, limit
<1>6. ASSUME Finish PROVE Goal
  <2>1. CASE sent' = sent /\ wireBytes' = wireBytes BY <1>4, <2>1
  <2>2. CASE owed /\ sent' = Append(sent, BackpressureMarker) /\ wireBytes' = Weight
    BY <1>2, <2>2
  <2> QED BY <1>6, <2>1, <2>2 DEF Finish
<1>7. ASSUME NEW terminal \in BOOLEAN, DropBehindMarker(terminal) PROVE Goal
  BY <1>4, <1>7 DEF DropBehindMarker
<1>8. ASSUME StreamCloses \/ Take \/ CloseReceiver \/ UNCHANGED vars PROVE Goal
  BY <1>4, <1>8 DEF StreamCloses, Take, CloseReceiver, vars
<1> HIDE DEF Goal
<1>9. Goal
  BY <1>5, <1>6, <1>7, <1>8 DEF Next
<1> QED BY <1>9 DEF Goal

\* A record goes out: what it weighs was paid for, or was kept for it.
LEMMA OutAppend ==
  ASSUME NEW log \in Seq(Queued), NEW owing, NEW paid \in Nat, OutPaid(log, owing, paid),
         NEW r \in Queued, NEW owingThen, NEW paidThen \in Nat,
         paid + RecordWeight(r) + (IF owingThen THEN Reserve ELSE 0)
           <= paidThen + (IF owing THEN Reserve ELSE 0)
  PROVE  OutPaid(Append(log, r), owingThen, paidThen)
<1> DEFINE new == Append(log, r)
<1>1. Len(new) = Len(log) + 1 /\ Len(log) \in Nat OBVIOUS
<1>2. RecordWeight(r) \in Nat /\ Reserve \in Nat BY Weights, ForwarderAssumption
<1>3. \E g : Sums(g, new) BY SumsExtend DEF OutPaid
<1>4. ASSUME NEW g, Sums(g, new)
      PROVE  /\ g[Len(new)] \in Nat
             /\ g[Len(new)] + (IF owingThen THEN Reserve ELSE 0) <= paidThen
  <2>1. PICK f : /\ Sums(f, log) /\ g[Len(log) + 1] = f[Len(log)] + RecordWeight(r)
    BY <1>4, SumsCut
  <2>2. f[Len(log)] \in Nat /\ f[Len(log)] + (IF owing THEN Reserve ELSE 0) <= paid
    BY <2>1 DEF OutPaid
  <2> HIDE DEF new
  <2>3. g[Len(new)] = f[Len(log)] + RecordWeight(r) BY <1>1, <2>1
  <2> QED BY <1>2, <2>2, <2>3
<1> QED BY <1>3, <1>4 DEF OutPaid, new

LEMMA FlushPays ==
  ASSUME PathType, FlushMarker, NEW paid \in Nat, OutPaid(out, pending, paid)
  PROVE  OutPaid(out', pending', paid)
<1>1. CASE out' = out /\ pending' = pending BY <1>1
<1>2. CASE pending /\ out' = Append(out, BackpressureMarker) /\ pending' = FALSE
  <2>1. /\ out \in Seq(Queued) /\ BackpressureMarker \in Queued
        /\ RecordWeight(BackpressureMarker) = Reserve /\ Reserve \in Nat
    BY QueuedNumbers, Weights, ForwarderAssumption DEF PathType
  <2>2. paid + RecordWeight(BackpressureMarker) + (IF FALSE THEN Reserve ELSE 0)
          <= paid + (IF pending THEN Reserve ELSE 0)
    BY <1>2, <2>1
  <2>3. OutPaid(Append(out, BackpressureMarker), FALSE, paid)
    BY <2>1, <2>2, OutAppend
  <2> QED BY <1>2, <2>3
<1> QED BY <1>1, <1>2 DEF FlushMarker

\* The notice handled pays for its record, or for the marker in its place.
LEMMA HandlePays ==
  ASSUME PathInv, Handle, NEW f, SentPaid(f, sent, wireBytes),
         OutPaid(out, pending, f[taken - 1])
  PROVE  OutPaid(out', pending', f[taken])
<1> DEFINE notice == sent[taken]
<1>1. /\ IInv /\ PathType /\ taken > 0 /\ EnqueueEvent(notice)
  BY DEF PathInv, GInv, Handle, PathType
<1>2. /\ taken \in 1 .. Len(sent) /\ taken - 1 \in 0 .. Len(sent) /\ taken \in 0 .. Len(sent)
      /\ notice \in Notices /\ notice \in Queued
  BY <1>1, HandledIsSent, SentNumbers DEF Queued
<1>3. /\ RecordWeight(notice) \in Nat /\ RecordWeight(notice) >= Reserve /\ Reserve \in Nat
      /\ f[taken] = f[taken - 1] + RecordWeight(notice)
      /\ f[taken] \in Nat /\ f[taken - 1] \in Nat
  <2>1. \A i \in 0 .. Len(sent) : f[i] = IF i = 0 THEN 0 ELSE f[i - 1] + RecordWeight(sent[i])
    BY DEF SentPaid, Sums
  <2>2. f[taken] = f[taken - 1] + RecordWeight(notice) BY <1>2, <2>1
  <2>3. f[taken] \in Nat /\ f[taken - 1] \in Nat /\ RecordWeight(notice) >= Reserve
    BY <1>2 DEF SentPaid
  <2> QED BY <1>2, <2>2, <2>3, Weights, ForwarderAssumption
<1> HIDE DEF notice
<1>4. CASE out' = out /\ pending' = pending
  BY <1>3, <1>4 DEF OutPaid
<1>5. CASE ~pending /\ out' = Append(out, notice) /\ pending' = pending
  <2>1. OutPaid(Append(out, notice), pending, f[taken])
    BY <1>1, <1>2, <1>3, <1>5, OutAppend DEF PathType
  <2> QED BY <1>5, <2>1
<1>6. CASE ~pending /\ out' = out /\ pending' = TRUE
  BY <1>3, <1>6 DEF OutPaid
<1> QED BY <1>1, <1>4, <1>5, <1>6 DEF EnqueueEvent

LEMMA SettlePays ==
  ASSUME PathType, Settle, NEW paid \in Nat, OutPaid(out, pending, paid)
  PROVE  OutPaid(out', pending', paid)
<1> DEFINE log == IF pending THEN Append(out, BackpressureMarker) ELSE out
<1>1. /\ out \in Seq(Queued) /\ BackpressureMarker \in Queued /\ Terminal \in Queued
      /\ RecordWeight(BackpressureMarker) = Reserve /\ RecordWeight(Terminal) = 0
      /\ Reserve \in Nat
  BY QueuedNumbers, Weights, ForwarderAssumption DEF PathType
<1>2. log \in Seq(Queued) BY <1>1, Appended
<1>3. OutPaid(log, FALSE, paid)
  <2>1. CASE pending
    <3>1. paid + RecordWeight(BackpressureMarker) + (IF FALSE THEN Reserve ELSE 0)
            <= paid + (IF pending THEN Reserve ELSE 0)
      BY <1>1, <2>1
    <3>2. OutPaid(Append(out, BackpressureMarker), FALSE, paid)
      BY <1>1, <3>1, OutAppend
    <3> QED BY <2>1, <3>2
  <2>2. CASE ~pending BY <2>2 DEF OutPaid
  <2> QED BY <2>1, <2>2
<1>4. out' = Append(log, Terminal) /\ pending' = FALSE
  BY SettleAppends DEF Settle
<1> HIDE DEF log
<1>5. OutPaid(Append(log, Terminal), FALSE, paid)
  <2>1. paid + RecordWeight(Terminal) + (IF FALSE THEN Reserve ELSE 0)
          <= paid + (IF FALSE THEN Reserve ELSE 0)
    BY <1>1
  <2> QED BY <1>1, <1>2, <1>3, <2>1, OutAppend
<1> QED BY <1>4, <1>5

LEMMA PaidStep ==
  ASSUME PathInv, Paid, [PathNext]_pathVars
  PROVE  Paid'
<1>1. /\ IInv /\ PathType /\ [Next]_vars BY PathStepIsForwarderStep DEF PathInv, GInv
<1>2. PICK f : SentPaid(f, sent, wireBytes) /\ OutPaid(out, pending, f[Handled])
  BY DEF Paid
<1>3. PICK g : /\ SentPaid(g, sent', wireBytes')
               /\ \A i \in 0 .. Len(sent) : g[i] = f[i]
  BY <1>1, <1>2, SentStaysPaid
<1>4. /\ Handled \in 0 .. Len(sent) /\ taken \in 0 .. Len(sent) /\ f[Handled] \in Nat
  BY <1>1, <1>2, HandledIsSent DEF SentPaid
<1> SUFFICES OutPaid(out', pending', f[Handled']) /\ Handled' \in 0 .. Len(sent)
  BY <1>3 DEF Paid
<1> DEFINE Goal == OutPaid(out', pending', f[Handled']) /\ Handled' \in 0 .. Len(sent)
<1>5. ASSUME Handled' = Handled, out' = out, pending' = pending PROVE Goal
  BY <1>2, <1>4, <1>5
<1>6. ASSUME Forwarding \/ Write \/ WriteFails \/ UNCHANGED pathVars PROVE Goal
  <2>1. UNCHANGED <<handling, taken, out, pending>>
    BY <1>6 DEF Forwarding, Write, WriteFails, pathVars, serverVars, vars,
                DropBehindMarker, Forward, ReadEvent, StreamCloses, Finish, CloseReceiver
  <2> QED BY <1>5, <2>1 DEF Handled
<1>7. ASSUME Receive PROVE Goal
  <2>1. FlushMarker /\ handling = FALSE /\ handling' = TRUE /\ taken' = taken + 1
    BY <1>1, <1>7 DEF Receive, Take, PathType
  <2>2. Handled' = Handled BY <1>1, <2>1, HandledIsSent DEF Handled
  <2> QED BY <1>1, <1>2, <1>4, <2>1, <2>2, FlushPays
<1>8. ASSUME Handle PROVE Goal
  <2>1. handling = TRUE /\ handling' = FALSE /\ taken' = taken
    BY <1>1, <1>8 DEF Handle, PathType, vars
  <2>2. Handled = taken - 1 /\ Handled' = taken BY <2>1 DEF Handled
  <2> QED BY <1>2, <1>4, <1>8, <2>2, HandlePays
<1>9. ASSUME Settle PROVE Goal
  <2>1. handling' = handling /\ taken' = taken BY <1>9 DEF Settle, vars
  <2>2. Handled' = Handled BY <2>1 DEF Handled
  <2> QED BY <1>1, <1>2, <1>4, <1>9, <2>2, SettlePays
<1> HIDE DEF Goal
<1>10. Goal BY <1>6, <1>7, <1>8, <1>9 DEF PathNext
<1> QED BY <1>10 DEF Goal

LEMMA PaidInit == PathInit => Paid
<1> SUFFICES ASSUME PathInit PROVE Paid OBVIOUS
<1>1. sent = <<>> /\ out = <<>> /\ taken = 0 /\ wireBytes = 0 /\ ~handling /\ ~pending
      /\ Handled = 0
  BY DEF PathInit, Init, Handled
<1> DEFINE f == [i \in 0 .. 0 |-> 0]
<1>2. \A g : Sums(g, <<>>) <=> g = f
  <2>1. Len(<<>>) = 0 OBVIOUS
  <2>2. ASSUME NEW g, Sums(g, <<>>) PROVE g = f
    BY <2>1, <2>2 DEF Sums
  <2>3. Sums(f, <<>>) BY <2>1 DEF Sums
  <2> QED BY <2>2, <2>3
<1>3. f[0] = 0 OBVIOUS
<1> HIDE DEF f
<1>4. SentPaid(f, sent, wireBytes) BY <1>1, <1>2, <1>3 DEF SentPaid
<1>5. OutPaid(out, pending, f[Handled]) BY <1>1, <1>2, <1>3 DEF OutPaid
<1> QED BY <1>4, <1>5 DEF Paid

\* The event records of a turn on stdout, the markers of both stages included,
\* never weigh more than MAX_EVENT_TOTAL_BYTES, whatever the agent emits and
\* however stdout is read: a marker of handle_notice stands for a notice that
\* EventForwarder::forward charged at least the reserve for.
THEOREM BudgetReachesStdout == PathSpec => []StdoutWithinBudget
<1>1. BudgetInv => StdoutWithinBudget
  <2> SUFFICES ASSUME PathInv, Paid PROVE StdoutWithinBudget BY DEF BudgetInv
  <2>1. PICK f : SentPaid(f, sent, wireBytes) /\ OutPaid(out, pending, f[Handled])
    BY DEF Paid
  <2>2. IInv /\ PathType /\ Handled \in 0 .. Len(sent)
    BY HandledIsSent DEF PathInv, GInv
  <2>3. f[Handled] \in Nat /\ f[Handled] <= wireBytes
    BY <2>1, <2>2 DEF SentPaid
  <2> DEFINE w == CHOOSE h : h = [i \in 0 .. Len(out) |->
                     IF i = 0 THEN 0 ELSE h[i - 1] + RecordWeight(out[i])]
  <2>4. Weighed(out) = w[Len(out)] BY DEF Weighed
  <2>5. Sums(w, out) BY <2>1 DEF OutPaid, Sums
  <2> HIDE DEF w
  <2>6. w[Len(out)] \in Nat /\ w[Len(out)] <= f[Handled]
    BY <2>1, <2>3, <2>5, ForwarderAssumption DEF OutPaid
  <2>7. wireBytes <= MaxTotalBytes /\ wireBytes \in Nat
    BY <2>2, CoverBoundsWire
  <2> QED BY <2>3, <2>4, <2>6, <2>7, ForwarderAssumption DEF StdoutWithinBudget
<1>2. PathInit => BudgetInv
  BY PathInitInvariant, PaidInit DEF BudgetInv
<1>3. BudgetInv /\ [PathNext]_pathVars => BudgetInv'
  BY PathNextInvariant, PaidStep DEF BudgetInv
<1>4. PathSpec => []BudgetInv
  BY <1>2, <1>3, PTL DEF PathSpec
<1> QED BY <1>1, <1>4, PTL
=============================================================================
