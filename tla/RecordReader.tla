---------------------------- MODULE RecordReader ----------------------------
(***************************************************************************)
(* RecordReader::read_record (src/src/server.rs): JSON Lines framing of    *)
(* stdin.  Bytes arrive in chunks of any size, and the server's select!    *)
(* drops a read_record that is waiting whenever another branch is ready;   *)
(* the next call goes on with the partial record that was kept.            *)
(*                                                                         *)
(* A byte is "lf", "cr" or any other.  What the records are is stated      *)
(* apart, on the whole input at once (docs/spec.md, section 4.1).          *)
(***************************************************************************)
EXTENDS Integers, Sequences

CONSTANTS
  Bytes,        \* the bytes a run lets a client write
  Limit,        \* capabilities::MAX_INPUT_RECORD_BYTES
  MaxInput      \* bound: bytes a client writes

ASSUME ReaderAssumption ==
  /\ {"lf", "cr"} \subseteq Bytes /\ Limit \in Nat /\ MaxInput \in Nat

VARIABLES
  input,        \* everything the client writes before it closes its end
  arrived,      \* how many bytes BufReader has read
  consumed,     \* how many of them read_record has consumed
  record,       \* RecordReader::record
  returned,     \* every record returned, in order
  pc            \* "between" calls, "reading", "ended" (Ok(None)), "failed"

vars == <<input, arrived, consumed, record, returned, pc>>

Buffered == SubSeq(input, consumed + 1, arrived)
-----------------------------------------------------------------------------
Init ==
  /\ input \in UNION {[1 .. n -> Bytes] : n \in 0 .. MaxInput}
  /\ arrived = 0 /\ consumed = 0
  /\ record = <<>> /\ returned = <<>> /\ pc = "between"

Call ==
  /\ pc = "between" /\ pc' = "reading"
  /\ UNCHANGED <<input, arrived, consumed, record, returned>>

\* Mutant: the future keeps its partial record to itself.
DropFutureWithRecord ==
  /\ pc = "reading" /\ pc' = "between"
  /\ record' = <<>>
  /\ UNCHANGED <<input, arrived, consumed, returned>>

\* Another branch of select! was ready: the future is dropped at its await.
DropFuture ==
  /\ pc = "reading" /\ pc' = "between"
  /\ UNCHANGED <<input, arrived, consumed, record, returned>>

\* fill_buf reads a chunk once its buffer is used up.
FillBuffer ==
  /\ pc = "reading" /\ Buffered = <<>> /\ arrived < Len(input)
  /\ arrived' \in (arrived + 1) .. Len(input)
  /\ UNCHANGED <<input, consumed, record, returned, pc>>

Without(line) ==
  IF line # <<>> /\ line[Len(line)] = "cr" THEN SubSeq(line, 1, Len(line) - 1)
                                           ELSE line

\* Mutant: the limit is for a chunk, not for the record it belongs to.
TooLongChunk(taken) == Len(taken) > Limit

\* Mutant: the limit is met one byte early.
TooLongByOne(taken) == Len(record) + Len(taken) >= Limit

TooLong(taken) == Len(record) + Len(taken) > Limit

\* No line feed in the buffer: all of it belongs to the record.
TakeAll ==
  /\ pc = "reading" /\ Buffered # <<>>
  /\ \A i \in 1 .. Len(Buffered) : Buffered[i] # "lf"
  /\ IF TooLong(Buffered)
       THEN pc' = "failed" /\ UNCHANGED <<consumed, record>>
       ELSE consumed' = arrived /\ record' = record \o Buffered /\ UNCHANGED pc
  /\ UNCHANGED <<input, arrived, returned>>

\* A line feed: one carriage return before it is stripped, and a record that
\* is then empty is passed over.
TakeLine ==
  /\ pc = "reading"
  /\ \E i \in 1 .. Len(Buffered) :
       /\ Buffered[i] = "lf" /\ \A j \in 1 .. (i - 1) : Buffered[j] # "lf"
       /\ LET taken == SubSeq(Buffered, 1, i - 1)
              line  == Without(record \o taken)
          IN  IF TooLong(taken)
                THEN pc' = "failed" /\ UNCHANGED <<consumed, record, returned>>
                ELSE /\ consumed' = consumed + i
                     /\ record' = <<>>
                     /\ returned' = IF line = <<>> THEN returned
                                                   ELSE Append(returned, line)
                     /\ pc' = IF line = <<>> THEN "reading" ELSE "between"
  /\ UNCHANGED <<input, arrived>>

\* Mutant: the end of input is one only when a record is left.
TakeRestOfRecord ==
  /\ pc = "reading" /\ consumed = Len(input) /\ record # <<>>
  /\ pc' = "between" /\ returned' = Append(returned, record)
  /\ record' = <<>>
  /\ UNCHANGED <<input, arrived, consumed>>

\* End of input: what is left is a last record, with its carriage return.
TakeRest ==
  /\ pc = "reading" /\ consumed = Len(input)
  /\ pc' = IF record = <<>> THEN "ended" ELSE "between"
  /\ returned' = IF record = <<>> THEN returned ELSE Append(returned, record)
  /\ record' = <<>>
  /\ UNCHANGED <<input, arrived, consumed>>

Next == Call \/ DropFuture \/ FillBuffer \/ TakeAll \/ TakeLine \/ TakeRest

Spec == Init /\ [][Next]_vars

\* A call that is waiting is not dropped for ever: the server calls again, and
\* input that has arrived, or has ended, is looked at.
FairSpec ==
  /\ Spec /\ WF_vars(Call)
  /\ SF_vars(FillBuffer) /\ SF_vars(TakeAll \/ TakeLine) /\ SF_vars(TakeRest)
-----------------------------------------------------------------------------
(* The framing of section 4.1, on a whole input.                           *)

\* The bytes of s before position i that are on the line of i.
LineBegin(s, i) ==
  CHOOSE b \in 1 .. i : /\ b = 1 \/ s[b - 1] = "lf"
                        /\ \A j \in b .. i - 1 : s[j] # "lf"
LineTo(s, i) == SubSeq(s, LineBegin(s, i), i - 1)

\* The records that the first n bytes hold: the lines that end in a line feed,
\* without a carriage return at their end, unless they are empty then.
Framed(s, n) ==
  LET framed[i \in 0 .. Len(s)] ==
        IF i = 0 THEN <<>>
        ELSE IF s[i] = "lf" /\ Without(LineTo(s, i)) # <<>>
               THEN Append(framed[i - 1], Without(LineTo(s, i)))
               ELSE framed[i - 1]
  IN  framed[n]

\* What follows the last line feed is a record too, as it is.
LastLine(s) == LineTo(s, Len(s) + 1)
FramedAtEnd(s) ==
  IF LastLine(s) = <<>> THEN Framed(s, Len(s)) ELSE Append(Framed(s, Len(s)), LastLine(s))

Overlong(s) ==
  \E i \in 1 .. Len(s) + 1 : (i <= Len(s) => s[i] = "lf") /\ Len(LineTo(s, i)) > Limit
-----------------------------------------------------------------------------
\* Positions are ordered and a partial record never outgrows the limit.
TypeOK ==
  /\ input \in Seq(Bytes) /\ record \in Seq(Bytes) /\ returned \in Seq(Seq(Bytes))
  /\ consumed \in 0 .. arrived /\ arrived \in 0 .. Len(input)
  /\ Len(record) <= Limit
  /\ pc \in {"between", "reading", "ended", "failed"}

\* Whatever the chunks and however often a waiting call was dropped, the
\* records returned are the framing of what was consumed, and what is kept is
\* the line begun; at the end they are the framing of the whole input.
FramingIsExact ==
  \/ returned = Framed(input, consumed) /\ record = LineTo(input, consumed + 1)
  \/ /\ consumed = Len(input) /\ record = <<>>
     /\ returned = FramedAtEnd(input)

\* Input fails exactly when it holds a line over the limit, counted before its
\* line feed and with its carriage return; the lines before it are returned.
LimitIsExact ==
  /\ pc = "failed" => Overlong(input)
  /\ pc = "ended" => ~Overlong(input) /\ returned = FramedAtEnd(input)

\* A server that keeps calling reads the whole input.
InputIsRead == <>(pc \in {"ended", "failed"})
=============================================================================
