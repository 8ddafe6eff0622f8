------------------------- MODULE RecordReaderProofs -------------------------
(* That the chunks stdin arrives in, and the calls of read_record that are   *)
(* dropped at their await, leave no trace in the records: for any bytes, any *)
(* input and any limit.  What the records are is said of the whole input by  *)
(* a recursive function, about which facts are proved by the least position  *)
(* where they would fail.                                                    *)
EXTENDS RecordReader, SequenceTheorems, WellFoundedInduction, TLAPS
-----------------------------------------------------------------------------
(* Induction, over sets of natural numbers.                                  *)

LEMMA LeastNatural ==
  ASSUME NEW S, S \subseteq Nat, S # {}
  PROVE  \E n \in S : \A m \in S : n <= m
<1> DEFINE R == OpToRel(<, Nat)
<1>1. IsWellFoundedOn(R, Nat) BY NatLessThanWellFounded
<1>2. \A m, n \in Nat : m < n => <<m, n>> \in R BY DEF OpToRel
<1> HIDE DEF R
<1>3. PICK n \in S : \A m \in S : ~(<<m, n>> \in R) BY <1>1, WFMin
<1>4. ASSUME NEW m \in S PROVE n <= m
  <2>1. m \in Nat /\ n \in Nat /\ ~(m < n) BY <1>2, <1>3
  <2> QED BY <2>1
<1> QED BY <1>4

LEMMA SetInduction ==
  ASSUME NEW S, 0 \in S, \A n \in Nat : n \in S => n + 1 \in S
  PROVE  Nat \subseteq S
<1> SUFFICES ASSUME Nat \ S # {} PROVE FALSE OBVIOUS
<1>1. PICK n \in Nat \ S : \A m \in Nat \ S : n <= m BY LeastNatural
<1>2. n # 0 /\ n - 1 \in Nat BY <1>1
<1>3. n - 1 \notin Nat \ S BY <1>1, <1>2
<1> QED BY <1>1, <1>2, <1>3
-----------------------------------------------------------------------------
(* Lines.                                                                    *)

Begins(s, i, b) ==
  /\ b \in 1 .. i
  /\ b = 1 \/ s[b - 1] = "lf"
  /\ \A j \in b .. i - 1 : s[j] # "lf"

LEMMA LineHasBegin ==
  ASSUME NEW s, NEW i \in Nat \ {0} PROVE Begins(s, i, LineBegin(s, i))
<1> DEFINE D == {d \in Nat : d < i /\ (i - d = 1 \/ s[i - d - 1] = "lf")}
<1>1. i - 1 \in D BY SMT
<1>2. PICK d \in D : \A e \in D : d <= e
  <2>1. D \subseteq Nat /\ D # {} BY <1>1
  <2> HIDE DEF D
  <2> QED BY <2>1, LeastNatural
<1>3. ASSUME NEW j \in i - d .. i - 1, s[j] = "lf" PROVE FALSE
  <2> DEFINE e == i - j - 1
  <2>1. e \in Nat /\ e < d /\ e < i /\ i - e - 1 = j BY <1>2
  <2>2. e \in D BY <1>3, <2>1
  <2> QED BY <1>2, <2>1, <2>2
<1>4. Begins(s, i, i - d) BY <1>2, <1>3 DEF Begins
<1> QED BY <1>4 DEF Begins, LineBegin

LEMMA OneBegin ==
  ASSUME NEW s, NEW i \in Nat \ {0}, NEW b, Begins(s, i, b) PROVE LineBegin(s, i) = b
<1> DEFINE c == LineBegin(s, i)
<1>1. Begins(s, i, c) BY LineHasBegin
<1> HIDE DEF c
<1>2. b \in 1 .. i /\ c \in 1 .. i BY <1>1 DEF Begins
<1>3. CASE b < c
  <2>1. c - 1 \in b .. i - 1 /\ c # 1 BY <1>2, <1>3
  <2> QED BY <1>1, <2>1 DEF Begins
<1>4. CASE c < b
  <2>1. b - 1 \in c .. i - 1 /\ b # 1 BY <1>2, <1>4
  <2> QED BY <1>1, <2>1 DEF Begins
<1> QED BY <1>2, <1>3, <1>4 DEF c

LEMMA LineGoesOn ==
  ASSUME NEW s, NEW i \in Nat \ {0}, NEW k \in Nat, i <= k, \A j \in i .. k - 1 : s[j] # "lf"
  PROVE  LineBegin(s, k) = LineBegin(s, i)
<1>1. Begins(s, i, LineBegin(s, i)) BY LineHasBegin
<1>2. Begins(s, k, LineBegin(s, i)) BY <1>1 DEF Begins
<1> QED BY <1>2, OneBegin

LEMMA LineAfterFeed ==
  ASSUME NEW s, NEW i \in Nat \ {0}, s[i] = "lf" PROVE LineBegin(s, i + 1) = i + 1
<1>1. Begins(s, i + 1, i + 1) BY DEF Begins
<1> QED BY <1>1, OneBegin

LEMMA LineType ==
  ASSUME NEW s \in Seq(Bytes), NEW i \in 1 .. Len(s) + 1
  PROVE  /\ LineTo(s, i) \in Seq(Bytes) /\ LineBegin(s, i) \in 1 .. i
         /\ Len(LineTo(s, i)) = i - LineBegin(s, i)
<1>1. i \in Nat \ {0} /\ i - 1 \in Int /\ Len(s) \in Nat OBVIOUS
<1>2. LineBegin(s, i) \in 1 .. i BY <1>1, LineHasBegin DEF Begins
<1>3. \A j \in LineBegin(s, i) .. i - 1 : s[j] \in Bytes BY <1>1, <1>2
<1> DEFINE b == LineBegin(s, i)
<1>4. /\ SubSeq(s, b, i - 1) \in Seq(Bytes)
      /\ Len(SubSeq(s, b, i - 1)) = IF b <= i - 1 THEN i - 1 - b + 1 ELSE 0
  <2>1. b \in Int BY <1>2
  <2> QED BY <1>1, <1>3, <2>1, SubSeqProperties
<1> QED BY <1>2, <1>4 DEF LineTo

\* The bytes up to the next line feed go on with the line.
LEMMA LineExtends ==
  ASSUME NEW s \in Seq(Bytes), NEW i \in 1 .. Len(s) + 1, NEW k \in i .. Len(s) + 1,
         \A j \in i .. k - 1 : s[j] # "lf"
  PROVE  LineTo(s, k) = LineTo(s, i) \o SubSeq(s, i, k - 1)
<1>1. LineBegin(s, k) = LineBegin(s, i) BY LineGoesOn
<1>2. LineBegin(s, i) \in 1 .. i BY LineType
<1>3. LineBegin(s, i) \in 1 .. Len(s) + 1 /\ i - 1 \in LineBegin(s, i) - 1 .. Len(s)
      /\ k - 1 \in i - 1 .. Len(s) /\ (i - 1) + 1 = i
  BY <1>2
<1> QED BY <1>1, <1>3, ConcatAdjacentSubSeq DEF LineTo

LEMMA LineEmptyAfterFeed ==
  ASSUME NEW s \in Seq(Bytes), NEW i \in 1 .. Len(s), s[i] = "lf"
  PROVE  LineTo(s, i + 1) = <<>>
<1>1. LineBegin(s, i + 1) = i + 1 BY LineAfterFeed
<1> QED BY <1>1, SubSeqEmpty DEF LineTo

LEMMA WithoutType ==
  ASSUME NEW line \in Seq(Bytes) PROVE Without(line) \in Seq(Bytes)
<1>1. CASE line # <<>>
  <2>1. Len(line) \in Nat BY <1>1
  <2>2. \A i \in 1 .. Len(line) - 1 : line[i] \in Bytes BY <2>1
  <2>3. SubSeq(line, 1, Len(line) - 1) \in Seq(Bytes) BY <2>1, <2>2, SubSeqProperties
  <2> QED BY <2>3 DEF Without
<1> QED BY <1>1 DEF Without
-----------------------------------------------------------------------------
(* The records of a prefix.                                                  *)

IsRecord(s, i) == s[i] = "lf" /\ Without(LineTo(s, i)) # <<>>

Frames(f, s, n) ==
  f = [i \in 0 .. n |-> IF i = 0 THEN <<>>
                        ELSE IF s[i] = "lf" /\ Without(LineTo(s, i)) # <<>>
                               THEN Append(f[i - 1], Without(LineTo(s, i)))
                               ELSE f[i - 1]]

LEMMA FramesExist ==
  ASSUME NEW s PROVE \A n \in Nat : \E f : Frames(f, s, n)
<1> DEFINE S == {n \in Nat : \E f : Frames(f, s, n)}
<1>1. 0 \in S
  <2> DEFINE f == [i \in 0 .. 0 |-> <<>>]
  <2>1. \A i \in 0 .. 0 : i = 0 OBVIOUS
  <2>2. Frames(f, s, 0) BY <2>1 DEF Frames
  <2> QED BY <2>2
<1>2. ASSUME NEW n \in Nat, n \in S PROVE n + 1 \in S
  <2>1. PICK f : Frames(f, s, n) BY <1>2
  <2> DEFINE line == Without(LineTo(s, n + 1))
             g == [i \in 0 .. n + 1 |->
                    IF i <= n THEN f[i]
                    ELSE IF s[n + 1] = "lf" /\ line # <<>> THEN Append(f[n], line) ELSE f[n]]
  <2>2. \A i \in 0 .. n : f[i] = IF i = 0 THEN <<>>
                                 ELSE IF s[i] = "lf" /\ Without(LineTo(s, i)) # <<>>
                                        THEN Append(f[i - 1], Without(LineTo(s, i)))
                                        ELSE f[i - 1]
    BY <2>1 DEF Frames
  <2>3. \A i \in 0 .. n : g[i] = f[i] OBVIOUS
  <2>4. g[n + 1] = IF s[n + 1] = "lf" /\ line # <<>> THEN Append(f[n], line) ELSE f[n]
    OBVIOUS
  <2>5. g = [i \in 0 .. n + 1 |-> g[i]] OBVIOUS
  <2> HIDE DEF g
  <2>6. ASSUME NEW i \in 0 .. n + 1
        PROVE  g[i] = IF i = 0 THEN <<>>
                      ELSE IF s[i] = "lf" /\ Without(LineTo(s, i)) # <<>>
                             THEN Append(g[i - 1], Without(LineTo(s, i)))
                             ELSE g[i - 1]
    <3>1. CASE i = 0 BY <2>2, <2>3, <3>1
    <3>2. CASE i \in 1 .. n
      <4>1. i \in 0 .. n /\ i - 1 \in 0 .. n /\ i # 0 BY <3>2
      <4> QED BY <2>2, <2>3, <4>1
    <3>3. CASE i = n + 1
      <4>1. i - 1 = n /\ n \in 0 .. n /\ i # 0 BY <3>3
      <4> QED BY <2>3, <2>4, <3>3, <4>1
    <3> QED BY <3>1, <3>2, <3>3
  <2>7. Frames(g, s, n + 1) BY <2>5, <2>6 DEF Frames
  <2> QED BY <2>7
<1> HIDE DEF S
<1>3. Nat \subseteq S BY <1>1, <1>2, SetInduction
<1> QED BY <1>3 DEF S

LEMMA FramedSteps ==
  ASSUME NEW s \in Seq(Bytes)
  PROVE  /\ Framed(s, 0) = <<>>
         /\ \A i \in 1 .. Len(s) :
              /\ IsRecord(s, i) => Framed(s, i) = Append(Framed(s, i - 1), Without(LineTo(s, i)))
              /\ ~IsRecord(s, i) => Framed(s, i) = Framed(s, i - 1)
<1>1. Len(s) \in Nat OBVIOUS
<1>2. \E f : Frames(f, s, Len(s)) BY <1>1, FramesExist
<1> DEFINE w == CHOOSE f : f = [i \in 0 .. Len(s) |->
                     IF i = 0 THEN <<>>
                     ELSE IF s[i] = "lf" /\ Without(LineTo(s, i)) # <<>>
                            THEN Append(f[i - 1], Without(LineTo(s, i)))
                            ELSE f[i - 1]]
<1>3. \A i : Framed(s, i) = w[i] BY DEF Framed
<1>4. Frames(w, s, Len(s)) BY <1>2 DEF Frames
<1> HIDE DEF w
<1>5. \A i \in 0 .. Len(s) : w[i] = IF i = 0 THEN <<>>
                                    ELSE IF s[i] = "lf" /\ Without(LineTo(s, i)) # <<>>
                                           THEN Append(w[i - 1], Without(LineTo(s, i)))
                                           ELSE w[i - 1]
  BY <1>4 DEF Frames
<1>6. Framed(s, 0) = <<>> BY <1>1, <1>3, <1>5
<1>7. ASSUME NEW i \in 1 .. Len(s)
      PROVE  /\ IsRecord(s, i) => Framed(s, i) = Append(Framed(s, i - 1), Without(LineTo(s, i)))
             /\ ~IsRecord(s, i) => Framed(s, i) = Framed(s, i - 1)
  <2>1. i \in 0 .. Len(s) /\ i # 0 OBVIOUS
  <2> QED BY <1>3, <1>5, <2>1 DEF IsRecord
<1> QED BY <1>6, <1>7

LEMMA FramedType ==
  ASSUME NEW s \in Seq(Bytes)
  PROVE  \A n \in 0 .. Len(s) : Framed(s, n) \in Seq(Seq(Bytes))
<1> DEFINE S == {n \in Nat : n <= Len(s) => Framed(s, n) \in Seq(Seq(Bytes))}
<1>1. Len(s) \in Nat OBVIOUS
<1>2. 0 \in S
  <2>1. <<>> \in Seq(Seq(Bytes)) BY EmptySeq
  <2> QED BY <2>1, FramedSteps
<1>3. ASSUME NEW n \in Nat, n \in S, n + 1 <= Len(s)
      PROVE  Framed(s, n + 1) \in Seq(Seq(Bytes))
  <2>1. n + 1 \in 1 .. Len(s) /\ (n + 1) - 1 = n /\ n + 1 \in 1 .. Len(s) + 1 BY <1>1, <1>3
  <2>2. Framed(s, n) \in Seq(Seq(Bytes)) BY <1>1, <1>3
  <2>3. Without(LineTo(s, n + 1)) \in Seq(Bytes) BY <2>1, LineType, WithoutType
  <2>4. \/ Framed(s, n + 1) = Append(Framed(s, n), Without(LineTo(s, n + 1)))
        \/ Framed(s, n + 1) = Framed(s, n)
    BY <2>1, FramedSteps
  <2>5. Append(Framed(s, n), Without(LineTo(s, n + 1))) \in Seq(Seq(Bytes))
    BY <2>2, <2>3, AppendProperties
  <2> QED BY <2>2, <2>4, <2>5
<1>4. \A n \in Nat : n \in S => n + 1 \in S BY <1>3
<1> HIDE DEF S
<1>5. Nat \subseteq S BY <1>2, <1>4, SetInduction
<1> QED BY <1>1, <1>5 DEF S

\* Bytes that are no line feed add no record.
LEMMA FramedFlat ==
  ASSUME NEW s \in Seq(Bytes), NEW i \in 0 .. Len(s), NEW k \in i .. Len(s),
         \A j \in i + 1 .. k : s[j] # "lf"
  PROVE  Framed(s, k) = Framed(s, i)
<1> DEFINE S == {n \in Nat : i + n <= k => Framed(s, i + n) = Framed(s, i)}
<1>1. Len(s) \in Nat OBVIOUS
<1>2. 0 \in S BY <1>1
<1>3. ASSUME NEW n \in Nat, n \in S, i + (n + 1) <= k
      PROVE  Framed(s, i + (n + 1)) = Framed(s, i)
  <2>1. /\ i + (n + 1) \in 1 .. Len(s) /\ (i + (n + 1)) - 1 = i + n
        /\ i + (n + 1) \in i + 1 .. k
    BY <1>1, <1>3
  <2>2. Framed(s, i + n) = Framed(s, i) BY <1>1, <1>3
  <2>3. ~IsRecord(s, i + (n + 1)) BY <2>1 DEF IsRecord
  <2> QED BY <2>1, <2>2, <2>3, FramedSteps
<1>4. \A n \in Nat : n \in S => n + 1 \in S BY <1>3
<1>5. k - i \in Nat /\ i + (k - i) = k BY <1>1
<1> HIDE DEF S
<1>6. k - i \in S BY <1>2, <1>4, <1>5, SetInduction
<1> QED BY <1>5, <1>6 DEF S
-----------------------------------------------------------------------------
(* The invariant.                                                            *)

\* No line that was looked at is over the limit, the one begun included.
LinesFit ==
  \A i \in 1 .. consumed + 1 :
    i = consumed + 1 \/ input[i] = "lf" => Len(LineTo(input, i)) <= Limit

\* A reader that has ended has consumed everything and keeps nothing.
EndIsReached == pc = "ended" => consumed = Len(input) /\ record = <<>>

Failed == pc = "failed" => Overlong(input)

ReaderInv == TypeOK /\ FramingIsExact /\ LinesFit /\ EndIsReached /\ Failed

LEMMA ReaderInit == Init => ReaderInv
<1> SUFFICES ASSUME Init PROVE ReaderInv OBVIOUS
<1>1. input \in Seq(Bytes)
  <2>1. PICK n \in 0 .. MaxInput : input \in [1 .. n -> Bytes] BY DEF Init
  <2> QED BY <2>1, SeqDef, ReaderAssumption
<1>2. Len(input) \in Nat BY <1>1
<1>3. returned \in Seq(Seq(Bytes)) /\ record \in Seq(Bytes) /\ Len(record) = 0
  BY EmptySeq DEF Init
<1>4. TypeOK BY <1>1, <1>2, <1>3, ReaderAssumption DEF Init, TypeOK
<1>5. LineTo(input, 1) = <<>> /\ Len(LineTo(input, 1)) = 0
  <2>1. Begins(input, 1, 1) BY DEF Begins
  <2>2. LineBegin(input, 1) = 1 BY <2>1, OneBegin
  <2> QED BY <2>2, SubSeqEmpty DEF LineTo
<1>6. Framed(input, 0) = <<>> BY <1>1, FramedSteps
<1>7. FramingIsExact BY <1>5, <1>6 DEF Init, FramingIsExact
<1>8. LinesFit
  <2>1. \A i \in 1 .. 0 + 1 : i = 1 OBVIOUS
  <2> QED BY <1>5, <2>1, ReaderAssumption DEF Init, LinesFit
<1> QED BY <1>4, <1>7, <1>8 DEF Init, ReaderInv, EndIsReached, Failed

\* What is buffered, as positions of the input.
LEMMA BufferedBytes ==
  ASSUME TypeOK
  PROVE  /\ Buffered \in Seq(Bytes) /\ Len(Buffered) = arrived - consumed
         /\ \A i \in 1 .. arrived - consumed : Buffered[i] = input[consumed + i]
<1>1. /\ consumed \in Nat /\ arrived \in Nat /\ consumed <= arrived
      /\ input \in Seq(Bytes) /\ arrived <= Len(input)
  BY DEF TypeOK
<1>2. \A i \in consumed + 1 .. arrived : input[i] \in Bytes BY <1>1
<1>3. /\ Buffered \in Seq(Bytes)
      /\ Len(Buffered) = IF consumed + 1 <= arrived THEN arrived - (consumed + 1) + 1 ELSE 0
      /\ \A i \in 1 .. arrived - (consumed + 1) + 1 : Buffered[i] = input[consumed + 1 + i - 1]
  BY <1>1, <1>2, SubSeqProperties DEF Buffered
<1>4. \A i \in 1 .. arrived - consumed : consumed + 1 + i - 1 = consumed + i BY <1>1
<1>5. arrived - (consumed + 1) + 1 = arrived - consumed BY <1>1
<1> QED BY <1>1, <1>3, <1>4, <1>5

\* While bytes are left, the record kept is the line begun.
LEMMA LineIsKept ==
  ASSUME TypeOK, FramingIsExact, consumed < Len(input)
  PROVE  returned = Framed(input, consumed) /\ record = LineTo(input, consumed + 1)
<1>1. consumed \in Nat /\ Len(input) \in Nat BY DEF TypeOK
<1> QED BY <1>1 DEF FramingIsExact

\* A line that is over the limit already makes the input overlong, wherever it
\* ends.
LEMMA OverlongAlready ==
  ASSUME NEW s \in Seq(Bytes), NEW k \in 1 .. Len(s) + 1, Len(LineTo(s, k)) > Limit
  PROVE  Overlong(s)
<1> DEFINE E == {i \in k .. Len(s) + 1 : i <= Len(s) => s[i] = "lf"}
<1>1. Len(s) \in Nat /\ E \subseteq Nat /\ Len(s) + 1 \in E OBVIOUS
<1>2. PICK i \in E : \A j \in E : i <= j
  <2> HIDE DEF E
  <2> QED BY <1>1, LeastNatural
<1>3. ASSUME NEW j \in k .. i - 1 PROVE s[j] # "lf"
  <2>1. j \in k .. Len(s) + 1 /\ ~(i <= j) BY <1>1, <1>2
  <2> QED BY <1>2, <2>1
<1>4. LineBegin(s, i) = LineBegin(s, k) BY <1>1, <1>2, <1>3, LineGoesOn
<1>5. Len(LineTo(s, i)) >= Len(LineTo(s, k)) /\ Len(LineTo(s, i)) \in Nat
  <2>1. i \in 1 .. Len(s) + 1 /\ k <= i BY <1>1, <1>2
  <2>2. /\ Len(LineTo(s, i)) = i - LineBegin(s, i) /\ Len(LineTo(s, k)) = k - LineBegin(s, k)
        /\ LineBegin(s, k) \in 1 .. k
    BY <2>1, LineType
  <2> QED BY <1>4, <2>1, <2>2
<1>6. Len(LineTo(s, k)) \in Nat BY LineType
<1>7. Len(LineTo(s, i)) > Limit BY <1>5, <1>6, ReaderAssumption
<1> QED BY <1>1, <1>2, <1>7 DEF Overlong
-----------------------------------------------------------------------------
(* The steps.                                                                *)

LEMMA QuietStep ==
  ASSUME ReaderInv, Call \/ DropFuture \/ FillBuffer \/ UNCHANGED vars
  PROVE  ReaderInv'
<1>1. UNCHANGED <<input, consumed, record, returned>>
  BY DEF Call, DropFuture, FillBuffer, vars
<1>2. TypeOK'
  BY DEF ReaderInv, TypeOK, Call, DropFuture, FillBuffer, vars
<1>3. FramingIsExact' /\ LinesFit'
  BY <1>1 DEF ReaderInv, FramingIsExact, LinesFit
<1>4. pc' = pc \/ pc' \in {"reading", "between"}
  BY DEF Call, DropFuture, FillBuffer, vars
<1>5. EndIsReached' /\ Failed'
  BY <1>1, <1>4 DEF ReaderInv, EndIsReached, Failed
<1> QED BY <1>2, <1>3, <1>5 DEF ReaderInv

\* The next n bytes, none of them a line feed, go on with the record.
LEMMA TakenGoesOn ==
  ASSUME TypeOK, FramingIsExact, consumed < Len(input), NEW n \in 0 .. arrived - consumed,
         \A j \in 1 .. n : Buffered[j] # "lf"
  PROVE  LET taken == SubSeq(Buffered, 1, n) IN
         /\ LineTo(input, consumed + n + 1) = record \o taken
         /\ Len(record \o taken) = Len(record) + Len(taken)
         /\ record \o taken \in Seq(Bytes) /\ Len(record \o taken) \in Nat
         /\ Framed(input, consumed + n) = returned
<1> DEFINE taken == SubSeq(Buffered, 1, n)
           bytes == SubSeq(input, consumed + 1, consumed + n)
<1>1. /\ consumed \in Nat /\ arrived \in Nat /\ consumed <= arrived /\ n \in Nat
      /\ input \in Seq(Bytes) /\ arrived <= Len(input) /\ Len(input) \in Nat
      /\ record \in Seq(Bytes)
  BY DEF TypeOK
<1>2. /\ Len(Buffered) = arrived - consumed /\ Buffered \in Seq(Bytes)
      /\ \A i \in 1 .. n : Buffered[i] = input[consumed + i] /\ Buffered[i] \in Bytes
      /\ \A i \in consumed + 1 .. consumed + n : input[i] \in Bytes
  BY <1>1, BufferedBytes
<1>3. /\ taken \in Seq(Bytes) /\ Len(taken) = n
      /\ \A i \in 1 .. n : taken[i] = Buffered[i]
  <2>1. /\ taken \in Seq(Bytes) /\ Len(taken) = IF 1 <= n THEN n - 1 + 1 ELSE 0
        /\ \A i \in 1 .. n - 1 + 1 : taken[i] = Buffered[1 + i - 1]
    BY <1>1, <1>2, SubSeqProperties
  <2>2. \A i \in 1 .. n : 1 + i - 1 = i BY <1>1
  <2> HIDE DEF taken
  <2> QED BY <1>1, <2>1, <2>2
<1>4. /\ bytes \in Seq(Bytes) /\ Len(bytes) = n
      /\ \A i \in 1 .. n : bytes[i] = input[consumed + i]
  <2>1. /\ bytes \in Seq(Bytes)
        /\ Len(bytes) = IF consumed + 1 <= consumed + n THEN (consumed + n) - (consumed + 1) + 1 ELSE 0
        /\ \A i \in 1 .. (consumed + n) - (consumed + 1) + 1 : bytes[i] = input[consumed + 1 + i - 1]
    <3> DEFINE a == consumed + 1
               b == consumed + n
    <3>1. a \in Int /\ b \in Int /\ \A i \in a .. b : input[i] \in Bytes BY <1>1, <1>2
    <3> HIDE DEF a, b
    <3>2. /\ SubSeq(input, a, b) \in Seq(Bytes)
          /\ Len(SubSeq(input, a, b)) = IF a <= b THEN b - a + 1 ELSE 0
          /\ \A i \in 1 .. b - a + 1 : SubSeq(input, a, b)[i] = input[a + i - 1]
      BY <3>1, SubSeqProperties
    <3> QED BY <3>2 DEF a, b
  <2>2. \A i \in 1 .. n : consumed + 1 + i - 1 = consumed + i BY <1>1
  <2>3. (consumed + n) - (consumed + 1) + 1 = n BY <1>1
  <2> HIDE DEF bytes
  <2> QED BY <1>1, <2>1, <2>2, <2>3
<1> HIDE DEF taken, bytes
<1>5. bytes = taken BY <1>2, <1>3, <1>4, SeqEqual
<1>6. returned = Framed(input, consumed) /\ record = LineTo(input, consumed + 1)
  BY LineIsKept
<1>7. \A j \in consumed + 1 .. consumed + n : input[j] # "lf"
  <2>1. \A j \in consumed + 1 .. consumed + n : j - consumed \in 1 .. n /\ consumed + (j - consumed) = j
    BY <1>1
  <2> QED BY <1>2, <2>1
<1>8. LineTo(input, consumed + n + 1) = record \o taken
  <2>1. /\ consumed + 1 \in 1 .. Len(input) + 1
        /\ consumed + n + 1 \in consumed + 1 .. Len(input) + 1
        /\ (consumed + n + 1) - 1 = consumed + n
    BY <1>1
  <2>2. LineTo(input, consumed + n + 1) = LineTo(input, consumed + 1) \o bytes
    BY <1>1, <1>7, <2>1, LineExtends DEF bytes
  <2> QED BY <1>5, <1>6, <2>2
<1>9. Framed(input, consumed + n) = returned
  <2>1. consumed \in 0 .. Len(input) /\ consumed + n \in consumed .. Len(input) BY <1>1
  <2> QED BY <1>1, <1>6, <1>7, <2>1, FramedFlat
<1>10. /\ Len(record \o taken) = Len(record) + Len(taken)
       /\ record \o taken \in Seq(Bytes) /\ Len(record \o taken) \in Nat
  <2>1. Len(record \o taken) = Len(record) + Len(taken) /\ record \o taken \in Seq(Bytes)
    BY <1>1, <1>3, ConcatProperties
  <2>2. Len(record) \in Nat /\ Len(taken) \in Nat BY <1>1, <1>3
  <2> QED BY <2>1, <2>2
<1> QED BY <1>8, <1>9, <1>10 DEF taken

\* What is looked at next fits, when what was looked at before does.
LEMMA FitsOn ==
  ASSUME TypeOK, LinesFit, NEW n \in Nat, consumed + n <= Len(input),
         \A j \in consumed + 1 .. consumed + n - 1 : input[j] # "lf",
         n > 0 /\ input[consumed + n] = "lf" => Len(LineTo(input, consumed + n)) <= Limit,
         Len(LineTo(input, consumed + n + 1)) <= Limit, consumed' = consumed + n,
         input' = input
  PROVE  LinesFit'
<1>1. consumed \in Nat BY DEF TypeOK
<1> SUFFICES ASSUME NEW i \in 1 .. consumed + n + 1, i = consumed + n + 1 \/ input[i] = "lf"
             PROVE  Len(LineTo(input, i)) <= Limit
  BY DEF LinesFit
<1>2. CASE i = consumed + n + 1 BY <1>2
<1>3. CASE i # consumed + n + 1 /\ input[i] = "lf"
  <2>1. i \in 1 .. consumed \/ (i = consumed + n /\ n > 0) BY <1>1, <1>3
  <2>2. CASE i \in 1 .. consumed
    <3>1. i \in 1 .. consumed + 1 BY <1>1, <2>2
    <3> QED BY <1>3, <3>1 DEF LinesFit
  <2>3. CASE i = consumed + n /\ n > 0 BY <1>3, <2>3
  <2> QED BY <2>1, <2>2, <2>3
<1> QED BY <1>2, <1>3

LEMMA TakeAllStep ==
  ASSUME ReaderInv, TakeAll
  PROVE  ReaderInv'
<1> DEFINE n == arrived - consumed
<1>1. /\ TypeOK /\ FramingIsExact /\ LinesFit /\ pc = "reading"
      /\ consumed \in Nat /\ arrived \in Nat /\ consumed <= arrived
      /\ input \in Seq(Bytes) /\ arrived <= Len(input) /\ Len(input) \in Nat
      /\ record \in Seq(Bytes) /\ Len(record) \in Nat /\ Limit \in Nat
      /\ UNCHANGED <<input, arrived, returned>>
  BY ReaderAssumption DEF ReaderInv, TypeOK, TakeAll
<1>2. /\ Buffered \in Seq(Bytes) /\ Len(Buffered) = n /\ n \in Nat
      /\ \A i \in 1 .. n : Buffered[i] = input[consumed + i]
      /\ \A i \in 1 .. n : Buffered[i] # "lf"
      /\ SubSeq(Buffered, 1, n) = Buffered
  <2>1. /\ Buffered \in Seq(Bytes) /\ Len(Buffered) = n
        /\ \A i \in 1 .. n : Buffered[i] = input[consumed + i]
    BY <1>1, BufferedBytes
  <2> QED BY <1>1, <2>1, SubSeqFull DEF TakeAll
<1>3. consumed < Len(input) /\ n > 0
  <2>1. Len(Buffered) # 0 BY <1>2 DEF TakeAll
  <2> QED BY <1>1, <1>2, <2>1
<1>4. /\ LineTo(input, arrived + 1) = record \o Buffered
      /\ Len(record \o Buffered) = Len(record) + Len(Buffered)
      /\ record \o Buffered \in Seq(Bytes)
      /\ Framed(input, arrived) = returned
  <2>1. n \in 0 .. arrived - consumed /\ consumed + n = arrived BY <1>1, <1>2
  <2> HIDE DEF n
  <2> QED BY <1>1, <1>2, <1>3, <2>1, TakenGoesOn
<1>5. CASE TooLong(Buffered)
  <2>1. pc' = "failed" /\ UNCHANGED <<consumed, record>> BY <1>5 DEF TakeAll
  <2>2. arrived + 1 \in 1 .. Len(input) + 1 BY <1>1
  <2>3. Overlong(input)
    BY <1>1, <1>4, <1>5, <2>2, OverlongAlready DEF TooLong
  <2>4. TypeOK' BY <1>1, <2>1 DEF TypeOK
  <2>5. FramingIsExact' /\ LinesFit' BY <1>1, <2>1 DEF FramingIsExact, LinesFit
  <2>6. EndIsReached' /\ Failed' BY <1>1, <2>1, <2>3 DEF EndIsReached, Failed
  <2> QED BY <2>4, <2>5, <2>6 DEF ReaderInv
<1>6. CASE ~TooLong(Buffered)
  <2>1. consumed' = arrived /\ record' = record \o Buffered /\ pc' = pc
    BY <1>6 DEF TakeAll
  <2>2. Len(record') <= Limit BY <1>1, <1>2, <1>4, <1>6, <2>1 DEF TooLong
  <2>3. TypeOK' BY <1>1, <1>4, <2>1, <2>2 DEF TypeOK
  <2>4. FramingIsExact' BY <1>1, <1>4, <2>1 DEF FramingIsExact
  <2>5. LinesFit'
    <3>1. \A j \in consumed + 1 .. consumed + n : input[j] # "lf"
      <4>1. \A j \in consumed + 1 .. consumed + n :
              j - consumed \in 1 .. n /\ consumed + (j - consumed) = j
        BY <1>1, <1>2
      <4> QED BY <1>2, <4>1
    <3>2. /\ consumed + n = arrived /\ consumed' = consumed + n
          /\ consumed + n \in consumed + 1 .. consumed + n
          /\ \A j \in consumed + 1 .. consumed + n - 1 : j \in consumed + 1 .. consumed + n
      BY <1>1, <1>2, <1>3, <2>1
    <3>3. Len(LineTo(input, consumed + n + 1)) <= Limit BY <1>4, <2>1, <2>2, <3>2
    <3> HIDE DEF n
    <3> QED BY <1>1, <1>2, <3>1, <3>2, <3>3, FitsOn
  <2>6. EndIsReached' /\ Failed' BY <1>1, <2>1 DEF EndIsReached, Failed
  <2> QED BY <2>3, <2>4, <2>5, <2>6 DEF ReaderInv
<1> QED BY <1>5, <1>6

LEMMA TakeLineStep ==
  ASSUME ReaderInv, TakeLine
  PROVE  ReaderInv'
<1>1. /\ TypeOK /\ FramingIsExact /\ LinesFit /\ pc = "reading"
      /\ consumed \in Nat /\ arrived \in Nat /\ consumed <= arrived
      /\ input \in Seq(Bytes) /\ arrived <= Len(input) /\ Len(input) \in Nat
      /\ record \in Seq(Bytes) /\ Len(record) \in Nat /\ Limit \in Nat
      /\ returned \in Seq(Seq(Bytes)) /\ UNCHANGED <<input, arrived>>
  BY ReaderAssumption DEF ReaderInv, TypeOK, TakeLine
<1>2. /\ Buffered \in Seq(Bytes) /\ Len(Buffered) = arrived - consumed
      /\ \A i \in 1 .. arrived - consumed : Buffered[i] = input[consumed + i]
  BY <1>1, BufferedBytes
<1>3. PICK i \in 1 .. arrived - consumed :
        /\ Buffered[i] = "lf" /\ \A j \in 1 .. i - 1 : Buffered[j] # "lf"
        /\ LET taken == SubSeq(Buffered, 1, i - 1)
               line  == Without(record \o taken)
           IN  IF TooLong(taken)
                 THEN pc' = "failed" /\ UNCHANGED <<consumed, record, returned>>
                 ELSE /\ consumed' = consumed + i
                      /\ record' = <<>>
                      /\ returned' = IF line = <<>> THEN returned
                                                    ELSE Append(returned, line)
                      /\ pc' = IF line = <<>> THEN "reading" ELSE "between"
  BY <1>2 DEF TakeLine
<1> DEFINE n == i - 1
           taken == SubSeq(Buffered, 1, n)
           line == Without(record \o taken)
           p == consumed + i
<1>4. /\ n \in 0 .. arrived - consumed /\ n \in Nat /\ consumed + n + 1 = p /\ p - 1 = consumed + n
      /\ p \in 1 .. Len(input) /\ p \in Nat /\ i \in Nat /\ consumed < Len(input)
  BY <1>1
<1>5. /\ LineTo(input, p) = record \o taken
      /\ Len(record \o taken) = Len(record) + Len(taken)
      /\ record \o taken \in Seq(Bytes) /\ Len(record \o taken) \in Nat
      /\ Framed(input, p - 1) = returned
  <2> HIDE DEF p
  <2>1. \A j \in 1 .. n : Buffered[j] # "lf" BY <1>3
  <2> HIDE DEF n
  <2> QED BY <1>1, <1>4, <2>1, TakenGoesOn
<1>6. input[p] = "lf" /\ \A j \in consumed + 1 .. consumed + n : input[j] # "lf"
  <2>1. \A j \in consumed + 1 .. consumed + n :
          /\ j - consumed \in 1 .. i - 1 /\ consumed + (j - consumed) = j
          /\ j - consumed \in 1 .. arrived - consumed
    BY <1>1, <1>4
  <2> QED BY <1>2, <1>3, <2>1
<1>7. /\ IF TooLong(taken)
           THEN pc' = "failed" /\ UNCHANGED <<consumed, record, returned>>
           ELSE /\ consumed' = p /\ record' = <<>>
                /\ returned' = IF line = <<>> THEN returned ELSE Append(returned, line)
                /\ pc' = IF line = <<>> THEN "reading" ELSE "between"
  BY <1>3
<1> HIDE DEF p, n, taken
<1>8. CASE TooLong(taken)
  <2>1. pc' = "failed" /\ UNCHANGED <<consumed, record, returned>> BY <1>7, <1>8
  <2>2. p \in 1 .. Len(input) + 1 BY <1>1, <1>4
  <2>3. Overlong(input)
    BY <1>1, <1>5, <1>8, <2>2, OverlongAlready DEF TooLong
  <2>4. TypeOK' BY <1>1, <2>1 DEF TypeOK
  <2>5. FramingIsExact' /\ LinesFit' BY <1>1, <2>1 DEF FramingIsExact, LinesFit
  <2>6. EndIsReached' /\ Failed' BY <1>1, <2>1, <2>3 DEF EndIsReached, Failed
  <2> QED BY <2>4, <2>5, <2>6 DEF ReaderInv
<1>9. CASE ~TooLong(taken)
  <2>1. /\ consumed' = p /\ record' = <<>>
        /\ returned' = IF line = <<>> THEN returned ELSE Append(returned, line)
        /\ pc' \in {"reading", "between"}
    BY <1>7, <1>9
  <2>2. line \in Seq(Bytes) BY <1>5, WithoutType
  <2>3. returned' \in Seq(Seq(Bytes))
    <3>1. Append(returned, line) \in Seq(Seq(Bytes)) BY <1>1, <2>2, AppendProperties
    <3> QED BY <1>1, <2>1, <3>1
  <2>4. TypeOK'
    <3>1. record' \in Seq(Bytes) /\ Len(record') = 0 BY <2>1, EmptySeq
    <3>2. p \in 0 .. arrived BY <1>1, <1>4 DEF p
    <3> QED BY <1>1, <2>1, <2>3, <3>1, <3>2 DEF TypeOK
  <2>5. returned' = Framed(input, p)
    <3>1. IsRecord(input, p) <=> line # <<>> BY <1>5, <1>6 DEF IsRecord
    <3> QED BY <1>1, <1>4, <1>5, <2>1, <3>1, FramedSteps
  <2>6. LineTo(input, p + 1) = <<>> BY <1>1, <1>4, <1>6, LineEmptyAfterFeed
  <2>7. FramingIsExact' BY <1>1, <2>1, <2>5, <2>6 DEF FramingIsExact
  <2>8. LinesFit'
    <3>1. Len(LineTo(input, p)) <= Limit
      <4>1. ~(Len(record \o taken) > Limit) BY <1>5, <1>9 DEF TooLong
      <4> QED BY <1>1, <1>5, <4>1
    <3>2. Len(LineTo(input, p + 1)) <= Limit BY <1>1, <2>6
    <3>3. consumed + i <= Len(input) /\ consumed + i - 1 = consumed + n BY <1>1, <1>4 DEF p
    <3> QED BY <1>1, <1>4, <1>6, <2>1, <3>1, <3>2, <3>3, FitsOn DEF p
  <2>9. EndIsReached' /\ Failed' BY <2>1 DEF EndIsReached, Failed
  <2> QED BY <2>4, <2>7, <2>8, <2>9 DEF ReaderInv
<1> QED BY <1>8, <1>9

LEMMA TakeRestStep ==
  ASSUME ReaderInv, TakeRest
  PROVE  ReaderInv'
<1>1. /\ TypeOK /\ FramingIsExact /\ LinesFit /\ pc = "reading"
      /\ consumed = Len(input) /\ record' = <<>>
      /\ input \in Seq(Bytes) /\ record \in Seq(Bytes) /\ returned \in Seq(Seq(Bytes))
      /\ UNCHANGED <<input, arrived, consumed>>
      /\ pc' = IF record = <<>> THEN "ended" ELSE "between"
      /\ returned' = IF record = <<>> THEN returned ELSE Append(returned, record)
  BY DEF ReaderInv, TypeOK, TakeRest
<1>2. record' \in Seq(Bytes) /\ Len(record') = 0 BY <1>1, EmptySeq
<1>3. returned' \in Seq(Seq(Bytes))
  <2>1. Append(returned, record) \in Seq(Seq(Bytes)) BY <1>1, AppendProperties
  <2> QED BY <1>1, <2>1
<1>4. TypeOK' BY <1>1, <1>2, <1>3, ReaderAssumption DEF TypeOK
<1>5. returned' = FramedAtEnd(input)
  <2>1. CASE returned = Framed(input, consumed) /\ record = LineTo(input, consumed + 1)
    BY <1>1, <2>1 DEF FramedAtEnd, LastLine
  <2>2. CASE record = <<>> /\ returned = FramedAtEnd(input)
    BY <1>1, <2>2
  <2> QED BY <1>1, <2>1, <2>2 DEF FramingIsExact
<1>6. FramingIsExact' BY <1>1, <1>5 DEF FramingIsExact
<1>7. LinesFit' BY <1>1 DEF LinesFit
<1>8. EndIsReached' /\ Failed' BY <1>1 DEF EndIsReached, Failed
<1> QED BY <1>4, <1>6, <1>7, <1>8 DEF ReaderInv

LEMMA ReaderStep == ReaderInv /\ [Next]_vars => ReaderInv'
BY QuietStep, TakeAllStep, TakeLineStep, TakeRestStep DEF Next

LEMMA ReaderInvariant == Spec => []ReaderInv
BY ReaderInit, ReaderStep, PTL DEF Spec

\* Positions stay ordered, and the record that RecordReader keeps between calls
\* never outgrows MAX_INPUT_RECORD_BYTES.
THEOREM ReaderTypeCorrect == Spec => []TypeOK
<1>1. ReaderInv => TypeOK BY DEF ReaderInv
<1> QED BY <1>1, ReaderInvariant, PTL

\* Whatever the chunks of stdin and however often select! drops a waiting
\* read_record, the records returned are those of the bytes consumed.
THEOREM FramingKept == Spec => []FramingIsExact
<1>1. ReaderInv => FramingIsExact BY DEF ReaderInv
<1> QED BY <1>1, ReaderInvariant, PTL

\* read_record fails only for an input with a line over the limit, and ends
\* only when it has returned every record of one without.
THEOREM LimitKept == Spec => []LimitIsExact
<1>1. ReaderInv => LimitIsExact
  <2> SUFFICES ASSUME ReaderInv PROVE LimitIsExact OBVIOUS
  <2>1. input \in Seq(Bytes) /\ Len(input) \in Nat BY DEF ReaderInv, TypeOK
  <2>2. ASSUME pc = "ended" PROVE ~Overlong(input) /\ returned = FramedAtEnd(input)
    <3>1. consumed = Len(input) /\ record = <<>> BY <2>2 DEF ReaderInv, EndIsReached
    <3>2. ASSUME NEW i \in 1 .. Len(input) + 1, i <= Len(input) => input[i] = "lf"
          PROVE  ~(Len(LineTo(input, i)) > Limit)
      <4>1. i = Len(input) + 1 \/ input[i] = "lf" BY <2>1, <3>2
      <4>2. Len(LineTo(input, i)) <= Limit BY <3>1, <4>1 DEF ReaderInv, LinesFit
      <4>3. Len(LineTo(input, i)) \in Nat BY <2>1, LineType
      <4> QED BY <4>2, <4>3, ReaderAssumption
    <3>3. returned = FramedAtEnd(input)
      BY <3>1 DEF ReaderInv, FramingIsExact, FramedAtEnd, LastLine
    <3> QED BY <3>2, <3>3 DEF Overlong
  <2> QED BY <2>2 DEF ReaderInv, Failed, LimitIsExact
<1> QED BY <1>1, ReaderInvariant, PTL
=============================================================================
