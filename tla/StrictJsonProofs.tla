-------------------------- MODULE StrictJsonProofs --------------------------
(* That the streaming parser and validate_value draw the same line, and draw *)
(* it where the limits say, for any limits, keys and documents.  The parser  *)
(* sees only the open containers and counts; what it decides is about the    *)
(* whole document.  validate_value sees a stack of values to look at.        *)
EXTENDS StrictJson, SequenceTheorems, FiniteSetTheorems, TLAPS
-----------------------------------------------------------------------------
(* Induction, over sets of natural numbers.                                  *)

LEMMA LeastNatural ==
  ASSUME NEW S, S \subseteq Nat, S # {}
  PROVE  \E n \in S : \A m \in S : n <= m
<1> DEFINE R == OpToRel(<, Nat)
<1>1. IsWellFoundedOn(R, Nat) BY NatLessThanWellFounded
<1>2. \A m, n \in Nat : m < n => <<m, n>> \in R BY DEF OpToRel
<1> HIDE DEF R
<1>3. PICK n \in S : \A m \in S : ~(<<m, n>> \in R) BY <1>1, WFMin
<1>4. ASSUME NEW m \in S PROVE n <= m
  <2>1. m \in Nat /\ n \in Nat /\ ~(m < n) BY <1>2, <1>3
  <2> QED BY <2>1
<1> QED BY <1>4

LEMMA SetInduction ==
  ASSUME NEW S, 0 \in S, \A n \in Nat : n \in S => n + 1 \in S
  PROVE  Nat \subseteq S
<1> SUFFICES ASSUME Nat \ S # {} PROVE FALSE OBVIOUS
<1>1. PICK n \in Nat \ S : \A m \in Nat \ S : n <= m BY LeastNatural
<1>2. n # 0 /\ n - 1 \in Nat BY <1>1
<1>3. n - 1 \notin Nat \ S BY <1>1, <1>2
<1> QED BY <1>1, <1>2, <1>3
-----------------------------------------------------------------------------
(* Checks in order.                                                          *)

\* The first check that fails decides, and none does when none fails.
LEMMA FirstFailureDecides ==
  ASSUME NEW checks, NEW n \in Nat, DOMAIN checks = 1 .. n
  PROVE  \/ FirstFailure(checks) = "none" /\ \A i \in 1 .. n : ~checks[i][1]
         \/ \E i \in 1 .. n : /\ FirstFailure(checks) = checks[i][2] /\ checks[i][1]
                              /\ \A j \in 1 .. i - 1 : ~checks[j][1]
<1> DEFINE failing == {i \in DOMAIN checks : checks[i][1]}
           first == CHOOSE i \in failing : \A j \in failing : i <= j
<1>1. CASE failing = {} BY <1>1 DEF FirstFailure
<1>2. CASE failing # {}
  <2>1. failing \subseteq Nat OBVIOUS
  <2>2. \E i \in failing : \A j \in failing : i <= j
    <3> HIDE DEF failing
    <3> QED BY <1>2, <2>1, LeastNatural
  <2>3. first \in failing /\ \A j \in failing : first <= j BY <2>2
  <2>4. FirstFailure(checks) = checks[first][2] BY <1>2 DEF FirstFailure
  <2> HIDE DEF first
  <2>5. \A j \in 1 .. first - 1 : ~checks[j][1] BY <2>3
  <2> QED BY <2>3, <2>4, <2>5
<1> QED BY <1>1, <1>2

LEMMA SevenInARow ==
  ASSUME NEW a1, NEW a2, NEW a3, NEW a4, NEW a5, NEW a6, NEW a7, NEW c,
         c = <<a1, a2, a3>> \o <<a4>> \o <<a5, a6, a7>>
  PROVE  /\ DOMAIN c = 1 .. 7 /\ c[1] = a1 /\ c[2] = a2 /\ c[3] = a3 /\ c[4] = a4
         /\ c[5] = a5 /\ c[6] = a6 /\ c[7] = a7
<1> DEFINE S == {a1, a2, a3, a4, a5, a6, a7}
           x == <<a1, a2, a3>>
           y == <<a4>>
           z == <<a5, a6, a7>>
<1>1. /\ x \in Seq(S) /\ y \in Seq(S) /\ z \in Seq(S)
      /\ Len(x) = 3 /\ Len(y) = 1 /\ Len(z) = 3
      /\ x[1] = a1 /\ x[2] = a2 /\ x[3] = a3 /\ y[1] = a4
      /\ z[1] = a5 /\ z[2] = a6 /\ z[3] = a7
  OBVIOUS
<1>2. c = (x \o y) \o z OBVIOUS
<1> HIDE DEF x, y, z, S
<1>3. /\ x \o y \in Seq(S) /\ Len(x \o y) = 4
      /\ \A i \in 1 .. 4 : (x \o y)[i] = IF i <= 3 THEN x[i] ELSE y[i - 3]
  <2>1. /\ x \o y \in Seq(S) /\ Len(x \o y) = Len(x) + Len(y)
        /\ \A i \in 1 .. Len(x) + Len(y) :
             (x \o y)[i] = IF i <= Len(x) THEN x[i] ELSE y[i - Len(x)]
    BY <1>1, ConcatProperties
  <2>2. Len(x) + Len(y) = 4 /\ Len(x) = 3 BY <1>1
  <2> QED BY <2>1, <2>2
<1> DEFINE w == x \o y
<1>4. /\ c \in Seq(S) /\ Len(c) = 7
      /\ \A i \in 1 .. 7 : c[i] = IF i <= 4 THEN w[i] ELSE z[i - 4]
  <2>1. w \in Seq(S) /\ Len(w) = 4 /\ c = w \o z BY <1>2, <1>3
  <2> HIDE DEF w
  <2>2. /\ w \o z \in Seq(S) /\ Len(w \o z) = Len(w) + Len(z)
        /\ \A i \in 1 .. Len(w) + Len(z) :
             (w \o z)[i] = IF i <= Len(w) THEN w[i] ELSE z[i - Len(w)]
    BY <1>1, <2>1, ConcatProperties
  <2>3. Len(w) + Len(z) = 7 /\ Len(w) = 4 BY <1>1, <2>1
  <2> QED BY <2>1, <2>2, <2>3
<1>5. DOMAIN c = 1 .. 7 BY <1>4
<1>6. c[1] = a1 /\ c[2] = a2 /\ c[3] = a3 /\ c[4] = a4 BY <1>1, <1>3, <1>4
<1>7. c[5] = a5 /\ c[6] = a6 /\ c[7] = a7 BY <1>1, <1>4
<1> QED BY <1>5, <1>6, <1>7

NotRepeated(t) == ~(Within("object") /\ t.key \in Top.keys)

\* What the parser's verdict on a token says.
LEMMA RefusalMeans ==
  ASSUME NEW t
  PROVE  \/ /\ Refusal(t) = "none"
            /\ Within("object") => /\ ~(KeyBytes[t.key] > MaxKeyBytes) /\ t.key \notin Top.keys
                                   /\ ~(Top.count >= MaxObjectMembers)
            /\ Within("array") => Top.count # MaxArrayElements
            /\ ~(Len(stack) + 1 > MaxDepth) /\ ~(nodes >= MaxNodes)
            /\ t.kind = "string" => ~(t.size > MaxStringBytes)
         \/ Refusal(t) = "key" /\ Within("object") /\ KeyBytes[t.key] > MaxKeyBytes
         \/ Refusal(t) = "duplicate" /\ Within("object") /\ t.key \in Top.keys
         \/ /\ Refusal(t) = "members" /\ Within("object") /\ Top.count >= MaxObjectMembers
            /\ NotRepeated(t)
         \/ /\ Refusal(t) = "elements" /\ Within("array") /\ Top.count = MaxArrayElements
            /\ NotRepeated(t)
         \/ Refusal(t) = "depth" /\ Len(stack) + 1 > MaxDepth /\ NotRepeated(t)
         \/ Refusal(t) = "nodes" /\ nodes >= MaxNodes /\ NotRepeated(t)
         \/ /\ Refusal(t) = "string" /\ t.kind = "string" /\ t.size > MaxStringBytes
            /\ ~(nodes >= MaxNodes) /\ NotRepeated(t)
<1> DEFINE c == MemberChecks(t) \o ElementChecks(t) \o ValueChecks(t)
           one == Within("object") /\ KeyBytes[t.key] > MaxKeyBytes
           two == Within("object") /\ t.key \in Top.keys
           three == Within("object") /\ Top.count >= MaxObjectMembers
           four == Within("array") /\ Top.count = MaxArrayElements
           five == Len(stack) + 1 > MaxDepth
           six == nodes >= MaxNodes
           seven == t.kind = "string" /\ t.size > MaxStringBytes
<1>1. /\ MemberChecks(t) = <<<<one, "key">>, <<two, "duplicate">>, <<three, "members">>>>
      /\ ElementChecks(t) = <<<<four, "elements">>>>
      /\ ValueChecks(t) = <<<<five, "depth">>, <<six, "nodes">>, <<seven, "string">>>>
  BY DEF MemberChecks, ElementChecks, ValueChecks
<1> HIDE DEF one, two, three, four, five, six, seven
<1>3. Refusal(t) = FirstFailure(c) BY DEF Refusal
<1>4. DOMAIN c = 1 .. 7 /\ c[1] = <<one, "key">> /\ c[2] = <<two, "duplicate">>
      /\ c[3] = <<three, "members">> /\ c[4] = <<four, "elements">> /\ c[5] = <<five, "depth">>
      /\ c[6] = <<six, "nodes">> /\ c[7] = <<seven, "string">>
  BY <1>1, SevenInARow
<1> HIDE DEF c
<1>5. \/ FirstFailure(c) = "none" /\ \A i \in 1 .. 7 : ~c[i][1]
      \/ \E i \in 1 .. 7 : /\ FirstFailure(c) = c[i][2] /\ c[i][1]
                           /\ \A j \in 1 .. i - 1 : ~c[j][1]
  BY <1>4, FirstFailureDecides
<1>6. \/ Refusal(t) = "none" /\ ~one /\ ~two /\ ~three /\ ~four /\ ~five /\ ~six /\ ~seven
      \/ Refusal(t) = "key" /\ one
      \/ Refusal(t) = "duplicate" /\ two
      \/ Refusal(t) = "members" /\ three /\ ~two
      \/ Refusal(t) = "elements" /\ four /\ ~two
      \/ Refusal(t) = "depth" /\ five /\ ~two
      \/ Refusal(t) = "nodes" /\ six /\ ~two
      \/ Refusal(t) = "string" /\ seven /\ ~six /\ ~two
  <2>1. CASE FirstFailure(c) = "none" /\ \A i \in 1 .. 7 : ~c[i][1]
    BY <1>3, <1>4, <2>1
  <2>2. ASSUME NEW i \in 1 .. 7, FirstFailure(c) = c[i][2], c[i][1],
               \A j \in 1 .. i - 1 : ~c[j][1]
        PROVE  <1>6!:
    BY <1>3, <1>4, <2>2
  <2> QED BY <1>5, <2>1, <2>2
<1> QED BY <1>6 DEF one, two, three, four, five, six, seven, NotRepeated
-----------------------------------------------------------------------------
(* Documents.  Every value but the root is inside an earlier one, and has a  *)
(* key exactly in an object.                                                 *)

Rooted(d) ==
  /\ d \in Seq(Value)
  /\ \A i \in 1 .. Len(d) :
       /\ d[i].parent \in 0 .. i - 1
       /\ d[i].parent = 0 <=> i = 1
       /\ d[i].key # NoKey <=> i # 1 /\ d[d[i].parent].kind = "object"

SolvesDepths(f, d, n) == f = [i \in 0 .. n |-> IF i = 0 THEN 0 ELSE 1 + f[d[i].parent]]

LEMMA DepthsExist ==
  ASSUME NEW d, Rooted(d) PROVE \E f : SolvesDepths(f, d, Len(d))
<1> DEFINE S == {n \in Nat : n <= Len(d) => \E f : SolvesDepths(f, d, n)}
<1>1. Len(d) \in Nat BY DEF Rooted
<1>2. 0 \in S
  <2> DEFINE f == [i \in 0 .. 0 |-> 0]
  <2>1. \A i \in 0 .. 0 : i = 0 OBVIOUS
  <2>2. SolvesDepths(f, d, 0) BY <2>1 DEF SolvesDepths
  <2> QED BY <2>2
<1>3. ASSUME NEW n \in Nat, n \in S, n + 1 <= Len(d)
      PROVE  \E g : SolvesDepths(g, d, n + 1)
  <2>1. PICK f : SolvesDepths(f, d, n) BY <1>1, <1>3
  <2>2. n + 1 \in 1 .. Len(d) /\ d[n + 1].parent \in 0 .. n BY <1>1, <1>3 DEF Rooted
  <2> DEFINE g == [i \in 0 .. n + 1 |-> IF i <= n THEN f[i] ELSE 1 + f[d[n + 1].parent]]
  <2>3. \A i \in 0 .. n : f[i] = IF i = 0 THEN 0 ELSE 1 + f[d[i].parent]
    BY <2>1 DEF SolvesDepths
  <2>4. \A i \in 0 .. n : g[i] = f[i] OBVIOUS
  <2>5. g[n + 1] = 1 + f[d[n + 1].parent] OBVIOUS
  <2>6. g = [i \in 0 .. n + 1 |-> g[i]] OBVIOUS
  <2> HIDE DEF g
  <2>7. ASSUME NEW i \in 0 .. n + 1
        PROVE  g[i] = IF i = 0 THEN 0 ELSE 1 + g[d[i].parent]
    <3>1. CASE i = 0 BY <2>3, <2>4, <3>1
    <3>2. CASE i \in 1 .. n
      <4>1. i \in 0 .. n /\ i \in 1 .. Len(d) /\ d[i].parent \in 0 .. n
        BY <1>1, <1>3, <3>2 DEF Rooted
      <4> QED BY <2>3, <2>4, <3>2, <4>1
    <3>3. CASE i = n + 1 BY <2>2, <2>4, <2>5, <3>3
    <3> QED BY <3>1, <3>2, <3>3
  <2>8. SolvesDepths(g, d, n + 1) BY <2>6, <2>7 DEF SolvesDepths
  <2> QED BY <2>8
<1>4. \A n \in Nat : n \in S => n + 1 \in S BY <1>3
<1> HIDE DEF S
<1>5. Len(d) \in S BY <1>1, <1>2, <1>4, SetInduction
<1> QED BY <1>1, <1>5 DEF S

\* A value is one deeper than the one it is in.
LEMMA DepthsStep ==
  ASSUME NEW d, Rooted(d)
  PROVE  /\ Depths(d)[0] = 0
         /\ \A i \in 1 .. Len(d) : Depths(d)[i] = 1 + Depths(d)[d[i].parent]
<1>1. \E f : SolvesDepths(f, d, Len(d)) /\ Len(d) \in Nat BY DepthsExist DEF Rooted
<1> DEFINE w == CHOOSE f : f = [i \in 0 .. Len(d) |-> IF i = 0 THEN 0 ELSE 1 + f[d[i].parent]]
<1>2. Depths(d) = w BY DEF Depths
<1>3. SolvesDepths(w, d, Len(d)) BY <1>1 DEF SolvesDepths
<1> HIDE DEF w
<1>4. \A i \in 0 .. Len(d) : w[i] = IF i = 0 THEN 0 ELSE 1 + w[d[i].parent]
  BY <1>3 DEF SolvesDepths
<1> QED BY <1>1, <1>2, <1>4

LEMMA DepthsType ==
  ASSUME NEW d, Rooted(d) PROVE \A i \in 0 .. Len(d) : Depths(d)[i] \in Nat
<1> DEFINE S == {i \in 0 .. Len(d) : Depths(d)[i] \notin Nat}
<1>1. Len(d) \in Nat BY DEF Rooted
<1> SUFFICES ASSUME S # {} PROVE FALSE OBVIOUS
<1>2. PICK i \in S : \A j \in S : i <= j
  <2>1. S \subseteq Nat OBVIOUS
  <2> HIDE DEF S
  <2> QED BY <2>1, LeastNatural
<1>3. i # 0 BY <1>1, <1>2, DepthsStep
<1>4. i \in 1 .. Len(d) /\ d[i].parent \in 0 .. i - 1 BY <1>1, <1>3 DEF Rooted
<1>5. d[i].parent \in 0 .. Len(d) /\ ~(i <= d[i].parent) BY <1>1, <1>4
<1>6. Depths(d)[d[i].parent] \in Nat BY <1>2, <1>5
<1> QED BY <1>2, <1>4, <1>6, DepthsStep

LEMMA Appending ==
  ASSUME NEW d \in Seq(Value), NEW v \in Value
  PROVE  /\ Append(d, v) \in Seq(Value) /\ Len(Append(d, v)) = Len(d) + 1 /\ Len(d) \in Nat
         /\ \A i \in 1 .. Len(d) : Append(d, v)[i] = d[i]
         /\ Append(d, v)[Len(d) + 1] = v
         /\ DOMAIN d = 1 .. Len(d) /\ DOMAIN Append(d, v) = 1 .. Len(d) + 1
OBVIOUS

LEMMA FrontOfAppend ==
  ASSUME NEW d \in Seq(Value), NEW v \in Value PROVE Front(Append(d, v)) = d
<1> DEFINE e == Append(d, v)
           f == SubSeq(e, 1, Len(e) - 1)
<1>1. /\ e \in Seq(Value) /\ Len(e) - 1 = Len(d) /\ Len(d) \in Nat
      /\ \A i \in 1 .. Len(d) : e[i] = d[i] /\ e[i] \in Value
  OBVIOUS
<1>2. Front(e) = f BY DEF Front
<1>3. /\ f \in Seq(Value) /\ Len(f) = Len(d)
      /\ \A i \in 1 .. Len(d) : f[i] = d[i]
  <2> DEFINE n == Len(e) - 1
  <2>1. n = Len(d) /\ n \in Nat BY <1>1
  <2> HIDE DEF n, e
  <2>2. /\ SubSeq(e, 1, n) \in Seq(Value) /\ Len(SubSeq(e, 1, n)) = IF 1 <= n THEN n - 1 + 1 ELSE 0
        /\ \A i \in 1 .. n - 1 + 1 : SubSeq(e, 1, n)[i] = e[1 + i - 1]
    BY <1>1, <2>1, SubSeqProperties
  <2>3. \A i \in 1 .. n : 1 + i - 1 = i BY <2>1
  <2>4. Len(SubSeq(e, 1, n)) = n /\ \A i \in 1 .. n : SubSeq(e, 1, n)[i] = e[i]
    BY <2>1, <2>2, <2>3
  <2> QED BY <1>1, <2>1, <2>2, <2>4 DEF n
<1> HIDE DEF e, f
<1>4. f = d BY <1>3, SeqEqual
<1> QED BY <1>2, <1>4 DEF e

LEMMA DepthsGrow ==
  ASSUME NEW d, Rooted(d), NEW v \in Value, Rooted(Append(d, v))
  PROVE  \A i \in 0 .. Len(d) : Depths(Append(d, v))[i] = Depths(d)[i]
<1> DEFINE e == Append(d, v)
           S == {i \in 0 .. Len(d) : Depths(e)[i] # Depths(d)[i]}
<1>1. /\ Len(d) \in Nat /\ Len(e) = Len(d) + 1 /\ Rooted(e)
      /\ \A i \in 1 .. Len(d) : e[i] = d[i]
  BY Appending DEF Rooted
<1> SUFFICES ASSUME S # {} PROVE FALSE OBVIOUS
<1> HIDE DEF e
<1>2. PICK i \in S : \A j \in S : i <= j
  <2>1. S \subseteq Nat OBVIOUS
  <2> HIDE DEF S
  <2> QED BY <2>1, LeastNatural
<1>3. i # 0 BY <1>1, <1>2, DepthsStep
<1>4. i \in 1 .. Len(d) /\ d[i].parent \in 0 .. i - 1 BY <1>1, <1>3 DEF Rooted
<1>5. d[i].parent \in 0 .. Len(d) /\ ~(i <= d[i].parent) /\ i \in 1 .. Len(e) BY <1>1, <1>4
<1>6. Depths(e)[d[i].parent] = Depths(d)[d[i].parent] BY <1>2, <1>5
<1>7. Depths(e)[i] = 1 + Depths(e)[e[i].parent] /\ Depths(d)[i] = 1 + Depths(d)[d[i].parent]
  BY <1>1, <1>4, <1>5, DepthsStep
<1> QED BY <1>1, <1>2, <1>4, <1>6, <1>7

LEMMA MembersGrow ==
  ASSUME NEW d \in Seq(Value), NEW v \in Value, NEW p
  PROVE  /\ Members(Append(d, v), p) =
              IF v.parent = p THEN Members(d, p) \cup {Len(d) + 1} ELSE Members(d, p)
         /\ Members(d, p) \subseteq 1 .. Len(d) /\ IsFiniteSet(Members(d, p))
         /\ Cardinality(Members(d, p)) \in Nat
         /\ Cardinality(Members(Append(d, v), p)) =
              IF v.parent = p THEN Cardinality(Members(d, p)) + 1 ELSE Cardinality(Members(d, p))
<1> DEFINE e == Append(d, v)
           n == Len(d) + 1
           M == Members(d, p)
<1>1. /\ Len(d) \in Nat /\ DOMAIN d = 1 .. Len(d) /\ DOMAIN e = 1 .. n
      /\ \A i \in 1 .. Len(d) : e[i] = d[i]
      /\ e[n] = v
  BY Appending
<1>2. Members(e, p) = IF v.parent = p THEN M \cup {n} ELSE M
  <2> HIDE DEF e
  <2> QED BY <1>1 DEF Members
<1>3. M \subseteq 1 .. Len(d) /\ n \notin M BY <1>1 DEF Members
<1>4. IsFiniteSet(1 .. Len(d)) BY <1>1, FS_Interval
<1>5. IsFiniteSet(M) BY <1>3, <1>4, FS_Subset
<1>6. Cardinality(M) \in Nat /\ Cardinality(M \cup {n}) = Cardinality(M) + 1
  BY <1>3, <1>5, FS_CardinalityType, FS_AddElement
<1> QED BY <1>2, <1>3, <1>5, <1>6

LEMMA RootedGrow ==
  ASSUME NEW d, Rooted(d), NEW v \in Value, v.parent \in 0 .. Len(d),
         v.parent = 0 <=> Len(d) = 0,
         v.key # NoKey <=> Len(d) # 0 /\ d[v.parent].kind = "object"
  PROVE  Rooted(Append(d, v))
<1> DEFINE e == Append(d, v)
<1>1. /\ e \in Seq(Value) /\ Len(e) = Len(d) + 1 /\ Len(d) \in Nat
      /\ \A i \in 1 .. Len(d) : e[i] = d[i]
      /\ e[Len(d) + 1] = v
  BY Appending DEF Rooted
<1> HIDE DEF e
<1>2. ASSUME NEW i \in 1 .. Len(e)
      PROVE  /\ e[i].parent \in 0 .. i - 1
             /\ e[i].parent = 0 <=> i = 1
             /\ e[i].key # NoKey <=> i # 1 /\ e[e[i].parent].kind = "object"
  <2>1. CASE i \in 1 .. Len(d)
    <3>1. /\ e[i] = d[i] /\ d[i].parent \in 0 .. i - 1 /\ (d[i].parent = 0 <=> i = 1)
          /\ d[i].key # NoKey <=> i # 1 /\ d[d[i].parent].kind = "object"
      BY <1>1, <2>1 DEF Rooted
    <3>2. i # 1 => d[i].parent \in 1 .. Len(d) BY <1>1, <2>1, <3>1
    <3>3. i # 1 => e[d[i].parent] = d[d[i].parent] BY <1>1, <3>2
    <3> QED BY <3>1, <3>3
  <2>2. CASE i = Len(d) + 1
    <3>1. e[i] = v /\ (i = 1 <=> Len(d) = 0) BY <1>1, <2>2
    <3>2. Len(d) # 0 => e[v.parent] = d[v.parent] BY <1>1
    <3> QED BY <1>1, <2>2, <3>1, <3>2
  <2> QED BY <1>1, <2>1, <2>2
<1> QED BY <1>1, <1>2 DEF Rooted, e

FitsAt(d, i) ==
  /\ Depths(d)[i] <= MaxDepth
  /\ d[i].kind = "string" => d[i].size <= MaxStringBytes
  /\ d[i].kind = "array" => Cardinality(Members(d, i)) <= MaxArrayElements
  /\ d[i].kind = "object" => Cardinality(Members(d, i)) <= MaxObjectMembers
  /\ d[i].key # NoKey => KeyBytes[d[i].key] <= MaxKeyBytes

\* What one more value must not do to a document within the limits.
NextFits(d, v) ==
  /\ Len(d) + 1 <= MaxNodes
  /\ 1 + Depths(d)[v.parent] <= MaxDepth
  /\ v.kind = "string" => v.size <= MaxStringBytes
  /\ v.key # NoKey => KeyBytes[v.key] <= MaxKeyBytes
  /\ v.parent # 0 =>
       /\ d[v.parent].kind = "array" =>
            Cardinality(Members(d, v.parent)) + 1 <= MaxArrayElements
       /\ d[v.parent].kind = "object" =>
            Cardinality(Members(d, v.parent)) + 1 <= MaxObjectMembers

LEMMA FitsGrow ==
  ASSUME NEW d, Rooted(d), NEW v \in Value, Rooted(Append(d, v)), FitsLimits(d)
  PROVE  FitsLimits(Append(d, v)) <=> NextFits(d, v)
<1> DEFINE e == Append(d, v)
           n == Len(d) + 1
<1>1. /\ d \in Seq(Value) /\ Len(e) = n /\ Len(d) \in Nat /\ n \in Nat /\ n # 0
      /\ \A i \in 1 .. Len(d) : e[i] = d[i]
      /\ e[n] = v /\ DOMAIN d = 1 .. Len(d) /\ DOMAIN e = 1 .. n
  BY Appending DEF Rooted
<1>2. v.parent \in 0 .. Len(d) /\ v.parent # n
  BY <1>1 DEF Rooted
<1>3. \A i \in 0 .. Len(d) : Depths(e)[i] = Depths(d)[i] BY DepthsGrow
<1>4. Depths(e)[n] = 1 + Depths(d)[v.parent]
  <2>1. n \in 1 .. Len(e) BY <1>1
  <2> HIDE DEF e, n
  <2>2. Depths(e)[n] = 1 + Depths(e)[e[n].parent] BY <2>1, DepthsStep DEF e
  <2> QED BY <1>1, <1>2, <1>3, <2>2
<1>5. Cardinality(Members(e, n)) = 0
  <2>1. Members(e, n) = {}
    <3> HIDE DEF e, n
    <3>1. \A i \in 1 .. n : e[i].parent # n
      <4>1. \A i \in 1 .. n : e[i].parent \in 0 .. i - 1 BY <1>1 DEF Rooted, e
      <4> QED BY <1>1, <4>1
    <3> QED BY <1>1, <3>1 DEF Members
  <2> QED BY <2>1, FS_EmptySet
<1>6. \A p : Cardinality(Members(e, p)) =
               IF v.parent = p THEN Cardinality(Members(d, p)) + 1 ELSE Cardinality(Members(d, p))
  BY <1>1, MembersGrow
<1>7. \A p : Cardinality(Members(d, p)) \in Nat BY <1>1, MembersGrow
<1>8. \A i \in 1 .. Len(d) : FitsAt(d, i) BY <1>1 DEF FitsLimits, FitsAt
<1>9. FitsLimits(e) <=> n <= MaxNodes /\ \A i \in 1 .. n : FitsAt(e, i)
  <2> HIDE DEF e, n
  <2> QED BY <1>1 DEF FitsLimits, FitsAt
<1> HIDE DEF e
<1>10. FitsAt(e, n) <=> /\ 1 + Depths(d)[v.parent] <= MaxDepth
                        /\ v.kind = "string" => v.size <= MaxStringBytes
                        /\ v.key # NoKey => KeyBytes[v.key] <= MaxKeyBytes
  BY <1>1, <1>4, <1>5, LimitsAssumption DEF FitsAt
<1>11. ASSUME NEW i \in 1 .. Len(d), i # v.parent PROVE FitsAt(e, i)
  BY <1>1, <1>3, <1>6, <1>8, <1>11 DEF FitsAt
<1>12. v.parent # 0 =>
         (FitsAt(e, v.parent) <=>
            /\ d[v.parent].kind = "array" =>
                 Cardinality(Members(d, v.parent)) + 1 <= MaxArrayElements
            /\ d[v.parent].kind = "object" =>
                 Cardinality(Members(d, v.parent)) + 1 <= MaxObjectMembers)
  <2> SUFFICES ASSUME v.parent # 0
               PROVE  FitsAt(e, v.parent) <=>
                        /\ d[v.parent].kind = "array" =>
                             Cardinality(Members(d, v.parent)) + 1 <= MaxArrayElements
                        /\ d[v.parent].kind = "object" =>
                             Cardinality(Members(d, v.parent)) + 1 <= MaxObjectMembers
    OBVIOUS
  <2>1. v.parent \in 1 .. Len(d) BY <1>1, <1>2
  <2> QED BY <1>1, <1>3, <1>6, <1>8, <2>1 DEF FitsAt
<1>13. NextFits(d, v) <=>
         n <= MaxNodes /\ FitsAt(e, n) /\ (v.parent # 0 => FitsAt(e, v.parent))
  BY <1>10, <1>12 DEF NextFits
<1>14. (\A i \in 1 .. n : FitsAt(e, i)) <=> FitsAt(e, n) /\ (v.parent # 0 => FitsAt(e, v.parent))
  <2>1. \A i \in 1 .. n : i = n \/ i \in 1 .. Len(d) BY <1>1
  <2>2. v.parent # 0 => v.parent \in 1 .. n BY <1>1, <1>2
  <2>3. n \in 1 .. n BY <1>1
  <2> HIDE DEF n
  <2> QED BY <1>2, <1>11, <2>1, <2>2, <2>3
<1>15. FitsLimits(e) <=> NextFits(d, v) BY <1>9, <1>13, <1>14
<1> QED BY <1>15 DEF e

LEMMA UniqueGrow ==
  ASSUME NEW d \in Seq(Value), NEW v \in Value, KeysUnique(d)
  PROVE  KeysUnique(Append(d, v)) <=>
           \A j \in Members(d, v.parent) : v.key = NoKey \/ d[j].key # v.key
<1> DEFINE e == Append(d, v)
           n == Len(d) + 1
<1>1. /\ Len(d) \in Nat /\ n \notin 1 .. Len(d)
      /\ \A i \in 1 .. Len(d) : e[i] = d[i]
      /\ e[n] = v /\ DOMAIN d = 1 .. Len(d) /\ DOMAIN e = 1 .. Len(d) \cup {n}
  BY Appending
<1>2. \A i, j \in 1 .. Len(d) :
        i # j /\ d[i].parent = d[j].parent => d[i].key = NoKey \/ d[i].key # d[j].key
  BY <1>1 DEF KeysUnique
<1>3. Members(d, v.parent) = {i \in 1 .. Len(d) : d[i].parent = v.parent}
  BY <1>1 DEF Members
<1> HIDE DEF e, n
<1>4. KeysUnique(e) <=> \A j \in Members(d, v.parent) : v.key = NoKey \/ d[j].key # v.key
  <2>1. ASSUME KeysUnique(e), NEW j \in Members(d, v.parent)
        PROVE  v.key = NoKey \/ d[j].key # v.key
    BY <1>1, <1>3, <2>1 DEF KeysUnique
  <2>2. ASSUME \A j \in Members(d, v.parent) : v.key = NoKey \/ d[j].key # v.key
        PROVE  KeysUnique(e)
    BY <1>1, <1>2, <1>3, <2>2 DEF KeysUnique
  <2> QED BY <2>1, <2>2
<1> QED BY <1>4 DEF e
-----------------------------------------------------------------------------
(* The open containers.  A frame knows of its container what a check of the  *)
(* whole document would find out: its kind, its depth, its values, its keys. *)

FrameOf(d, f, i) ==
  /\ f \in Frames /\ f.node \in 1 .. Len(d)
  /\ d[f.node].kind = f.kind
  /\ Depths(d)[f.node] = i
  /\ f.count = Cardinality(Members(d, f.node))
  /\ f.keys = {d[j].key : j \in Members(d, f.node)} \ {NoKey}

LEMMA FrameStays ==
  ASSUME NEW d, Rooted(d), NEW v \in Value, Rooted(Append(d, v)),
         NEW f, NEW i, FrameOf(d, f, i), f.node # v.parent
  PROVE  FrameOf(Append(d, v), f, i)
<1> DEFINE e == Append(d, v)
<1>1. /\ d \in Seq(Value) /\ Len(e) = Len(d) + 1 /\ Len(d) \in Nat
      /\ \A j \in 1 .. Len(d) : e[j] = d[j]
  BY Appending DEF Rooted
<1>2. f.node \in 1 .. Len(d) BY DEF FrameOf
<1>3. Depths(e)[f.node] = Depths(d)[f.node] BY <1>1, <1>2, DepthsGrow
<1>4. Members(e, f.node) = Members(d, f.node) /\ Members(d, f.node) \subseteq 1 .. Len(d)
  BY <1>1, MembersGrow
<1> HIDE DEF e
<1>5. {e[j].key : j \in Members(d, f.node)} = {d[j].key : j \in Members(d, f.node)}
  BY <1>1, <1>4
<1>6. FrameOf(e, f, i) BY <1>1, <1>2, <1>3, <1>4, <1>5 DEF FrameOf
<1> QED BY <1>6 DEF e

LEMMA FrameCounts ==
  ASSUME NEW d, Rooted(d), NEW v \in Value, Rooted(Append(d, v)),
         NEW f, NEW i, FrameOf(d, f, i), f.node = v.parent
  PROVE  FrameOf(Append(d, v),
                 [f EXCEPT !.count = @ + 1, !.keys = @ \cup ({v.key} \ {NoKey})], i)
<1> DEFINE e == Append(d, v)
           n == Len(d) + 1
           g == [f EXCEPT !.count = @ + 1, !.keys = @ \cup ({v.key} \ {NoKey})]
<1>1. /\ d \in Seq(Value) /\ Len(e) = n /\ Len(d) \in Nat
      /\ \A j \in 1 .. Len(d) : e[j] = d[j]
      /\ e[n] = v
  BY Appending DEF Rooted
<1>2. f.node \in 1 .. Len(d) /\ f \in Frames BY DEF FrameOf
<1>3. /\ g \in Frames /\ g.node = f.node /\ g.kind = f.kind /\ g.count = f.count + 1
      /\ g.keys = f.keys \cup ({v.key} \ {NoKey})
  <2> DEFINE more == {v.key} \ {NoKey}
  <2>1. more \subseteq Keys BY DEF Value
  <2> HIDE DEF more
  <2>2. f.count \in Nat /\ f.keys \subseteq Keys BY <1>2 DEF Frames
  <2>3. /\ f \in [kind : {"array", "object"}, node : Nat, count : Nat, keys : SUBSET Keys]
    BY <1>2 DEF Frames
  <2>4. f.count + 1 \in Nat /\ f.keys \cup more \in SUBSET Keys BY <2>1, <2>2
  <2>5. g = [f EXCEPT !.count = f.count + 1, !.keys = f.keys \cup more] BY <2>3 DEF more
  <2> HIDE DEF g
  <2>6. /\ g \in Frames /\ g.node = f.node /\ g.kind = f.kind /\ g.count = f.count + 1
        /\ g.keys = f.keys \cup more
    BY <2>3, <2>4, <2>5 DEF Frames
  <2> QED BY <2>6 DEF more
<1>4. Depths(e)[f.node] = Depths(d)[f.node] BY <1>1, <1>2, DepthsGrow
<1> DEFINE M == Members(d, f.node)
<1>5. /\ Members(e, f.node) = M \cup {n} /\ M \subseteq 1 .. Len(d)
      /\ Cardinality(Members(e, f.node)) = Cardinality(M) + 1
  BY <1>1, MembersGrow
<1> HIDE DEF e, g
<1>6. {e[j].key : j \in M \cup {n}} = {d[j].key : j \in M} \cup {v.key}
  BY <1>1, <1>5
<1>7. g.keys = {e[j].key : j \in Members(e, f.node)} \ {NoKey}
  BY <1>3, <1>5, <1>6 DEF FrameOf
<1>8. g.count = Cardinality(Members(e, f.node)) BY <1>3, <1>5 DEF FrameOf
<1>9. g.node \in 1 .. Len(e) /\ e[g.node].kind = g.kind /\ Depths(e)[g.node] = i
  BY <1>1, <1>2, <1>3, <1>4 DEF FrameOf
<1>10. FrameOf(e, g, i) BY <1>3, <1>7, <1>8, <1>9 DEF FrameOf
<1> QED BY <1>10 DEF e, g

\* The value read last holds nothing yet.
LEMMA LastIsEmpty ==
  ASSUME NEW d, Rooted(d), NEW v \in Value, Rooted(Append(d, v))
  PROVE  /\ Members(Append(d, v), Len(d) + 1) = {}
         /\ Depths(Append(d, v))[Len(d) + 1] = 1 + Depths(d)[v.parent]
<1> DEFINE e == Append(d, v)
           n == Len(d) + 1
<1>1. /\ Len(d) \in Nat /\ Len(e) = n /\ n \in 1 .. Len(e) /\ e[n] = v /\ DOMAIN e = 1 .. n
      /\ Rooted(e)
  <2>1. d \in Seq(Value) BY DEF Rooted
  <2>2. Len(d) \in Nat /\ Len(e) = n /\ e[n] = v /\ DOMAIN e = 1 .. n BY <2>1, Appending
  <2> HIDE DEF e
  <2>3. n \in 1 .. Len(e) BY <2>2
  <2> QED BY <2>2, <2>3 DEF e
<1> HIDE DEF e
<1>2. \A i \in 1 .. n : e[i].parent \in 0 .. i - 1 BY <1>1 DEF Rooted
<1>3. \A i \in 1 .. n : e[i].parent # n BY <1>1, <1>2
<1>4. Members(e, n) = {}
  <2> HIDE DEF n
  <2> QED BY <1>1, <1>3 DEF Members
<1>5. Depths(e)[n] = 1 + Depths(e)[v.parent]
  <2> HIDE DEF n
  <2>1. Depths(e)[n] = 1 + Depths(e)[e[n].parent] BY <1>1, DepthsStep
  <2> QED BY <1>1, <2>1
<1>6. v.parent \in 0 .. Len(d) BY <1>1, <1>2
<1>7. Depths(e)[v.parent] = Depths(d)[v.parent] BY <1>6, DepthsGrow DEF e
<1> QED BY <1>4, <1>5, <1>7 DEF e

LEMMA FrameOpens ==
  ASSUME NEW d, Rooted(d), NEW v \in Value, Rooted(Append(d, v)), v.kind \in {"array", "object"}
  PROVE  FrameOf(Append(d, v), [kind |-> v.kind, node |-> Len(d) + 1, count |-> 0, keys |-> {}],
                 1 + Depths(d)[v.parent])
<1> DEFINE e == Append(d, v)
           n == Len(d) + 1
           g == [kind |-> v.kind, node |-> n, count |-> 0, keys |-> {}]
<1>1. Len(d) \in Nat /\ Len(e) = n /\ n \in 1 .. Len(e) /\ e[n] = v
  BY Appending DEF Rooted
<1>2. Members(e, n) = {} /\ Depths(e)[n] = 1 + Depths(d)[v.parent] BY LastIsEmpty
<1>3. /\ g \in Frames /\ g.node = n /\ g.kind = v.kind /\ g.count = 0 /\ g.keys = {}
  BY <1>1 DEF Frames
<1> HIDE DEF e, g
<1>4. Cardinality(Members(e, n)) = 0 BY <1>2, FS_EmptySet
<1>5. {e[j].key : j \in Members(e, n)} = {} BY <1>2
<1>6. FrameOf(e, g, 1 + Depths(d)[v.parent]) BY <1>1, <1>2, <1>3, <1>4, <1>5 DEF FrameOf
<1> QED BY <1>6 DEF e, g
-----------------------------------------------------------------------------
(* The parser.                                                               *)

ParserTypes ==
  /\ stack \in Seq(Frames) /\ Len(stack) <= MaxDepth
  /\ verdict \in {"parsing", "accepted", "syntax", "duplicate"} \cup Limits
  /\ nodes \in 0 .. MaxNodes
  /\ \A i \in DOMAIN stack :
       stack[i].count <= IF stack[i].kind = "array" THEN MaxArrayElements
                                                     ELSE MaxObjectMembers

ParserInv ==
  /\ ParserTypes /\ Rooted(doc) /\ RefusesExactly
  /\ verdict \in {"parsing", "accepted"} => nodes = Len(doc)
  /\ verdict = "parsing" => \A i \in 1 .. Len(stack) : FrameOf(doc, stack[i], i)
  /\ verdict \in {"accepted"} \cup Limits => doc # <<>>

ReadAs(t) == [parent |-> IF stack = <<>> THEN 0 ELSE Top.node,
              key |-> t.key, kind |-> t.kind, size |-> t.size]

LEMMA TokensAre ==
  ASSUME NEW inObject \in BOOLEAN, NEW t \in Tokens(inObject)
  PROVE  /\ t.key \in Keys \cup {NoKey} /\ t.kind \in Kinds /\ t.size \in Nat
         /\ t.key # NoKey <=> inObject
<1> DEFINE K == IF inObject THEN Keys ELSE {NoKey}
<1>1. /\ StringSizes \subseteq Nat /\ NoKey \notin Keys BY LimitsAssumption
<1>2. \A k \in K : k \in Keys \cup {NoKey} /\ (k # NoKey <=> inObject) BY <1>1
<1> HIDE DEF K
<1>3. CASE t \in [key : K, kind : Kinds \ {"string"}, size : {0}] BY <1>2, <1>3
<1>4. CASE t \in [key : K, kind : {"string"}, size : StringSizes]
  BY <1>1, <1>2, <1>4 DEF Kinds
<1> QED BY <1>3, <1>4 DEF Tokens, K

\* A value goes where the open containers say it does.
LEMMA ReadingPlaces ==
  ASSUME ParserInv, verdict = "parsing", doc = <<>> \/ stack # <<>>,
         NEW t \in Tokens(Within("object"))
  PROVE  /\ ReadAs(t) \in Value /\ Rooted(Append(doc, ReadAs(t)))
         /\ Depths(doc)[ReadAs(t).parent] = Len(stack)
         /\ stack = <<>> => ReadAs(t).parent = 0
         /\ stack # <<>> => /\ ReadAs(t).parent = Top.node /\ Top.node \in 1 .. Len(doc)
                            /\ FrameOf(doc, Top, Len(stack))
         /\ ReadAs(t).key # NoKey <=> Within("object")
<1> DEFINE v == ReadAs(t)
<1>1. /\ v.parent = IF stack = <<>> THEN 0 ELSE Top.node
      /\ v.key = t.key /\ v.kind = t.kind /\ v.size = t.size
      /\ v = [parent |-> v.parent, key |-> t.key, kind |-> t.kind, size |-> t.size]
  BY DEF ReadAs
<1>2. /\ t.key \in Keys \cup {NoKey} /\ t.kind \in Kinds /\ t.size \in Nat
      /\ t.key # NoKey <=> Within("object")
  <2>1. Within("object") \in BOOLEAN BY DEF Within
  <2> QED BY <2>1, TokensAre
<1> HIDE DEF v
<1>3. /\ Rooted(doc) /\ stack \in Seq(Frames) /\ Len(doc) \in Nat /\ Len(stack) \in Nat
      /\ stack = <<>> <=> Len(stack) = 0
  BY DEF ParserInv, ParserTypes, Rooted
<1>4. CASE stack = <<>>
  <2>1. doc = <<>> BY <1>4
  <2>2. Len(doc) = 0 /\ v.parent = 0 /\ v.parent \in Nat BY <1>1, <1>4, <2>1
  <2>3. v \in Value
    <3>1. [parent |-> v.parent, key |-> t.key, kind |-> t.kind, size |-> t.size] \in Value
      BY <1>2, <2>2 DEF Value
    <3> QED BY <1>1, <3>1
  <2>4. ~Within("object") BY <1>4 DEF Within
  <2>5. Rooted(Append(doc, v))
    <3>1. v.parent \in 0 .. Len(doc) BY <2>2
    <3> QED BY <1>1, <1>2, <1>3, <2>2, <2>3, <2>4, <3>1, RootedGrow
  <2>6. Depths(doc)[0] = 0 BY <1>3, DepthsStep
  <2> QED BY <1>1, <1>2, <1>3, <1>4, <2>2, <2>3, <2>4, <2>5, <2>6 DEF v
<1>5. CASE stack # <<>>
  <2>1. Len(stack) \in 1 .. Len(stack) BY <1>3, <1>5
  <2>2. FrameOf(doc, Top, Len(stack)) BY <2>1 DEF ParserInv, Top
  <2>3. /\ Top.node \in 1 .. Len(doc) /\ doc[Top.node].kind = Top.kind
        /\ Depths(doc)[Top.node] = Len(stack)
    BY <2>2 DEF FrameOf
  <2>4. v.parent = Top.node /\ v.parent \in Nat BY <1>1, <1>3, <1>5, <2>3
  <2>5. v \in Value
    <3>1. [parent |-> v.parent, key |-> t.key, kind |-> t.kind, size |-> t.size] \in Value
      BY <1>2, <2>4 DEF Value
    <3> QED BY <1>1, <3>1
  <2>6. Within("object") <=> doc[v.parent].kind = "object" BY <1>5, <2>3, <2>4 DEF Within
  <2>7. Rooted(Append(doc, v))
    <3>1. v.parent \in 0 .. Len(doc) /\ v.parent # 0 /\ Len(doc) # 0 BY <1>3, <2>3, <2>4
    <3> QED BY <1>1, <1>2, <1>3, <2>5, <2>6, <3>1, RootedGrow
  <2> QED BY <1>1, <1>2, <1>5, <2>2, <2>3, <2>4, <2>5, <2>7 DEF v
<1> QED BY <1>4, <1>5

\* What the parser looks at decides what a look at the whole document would.
VerdictHolds(t, e) ==
  /\ FitsLimits(doc) /\ KeysUnique(doc)
  /\ Refusal(t) = "none" =>
       /\ FitsLimits(e) /\ KeysUnique(e)
       /\ Len(stack) + 1 <= MaxDepth /\ nodes + 1 <= MaxNodes
       /\ Within("array") => Top.count + 1 <= MaxArrayElements
       /\ Within("object") => Top.count + 1 <= MaxObjectMembers
  /\ Refusal(t) \in {"none", "duplicate"} \cup Limits
  /\ Refusal(t) \in Limits => KeysUnique(e) /\ ~FitsLimits(e)
  /\ Refusal(t) = "duplicate" => ~KeysUnique(e)
  /\ Refusal(t) = "string" => nodes + 1 <= MaxNodes

LEMMA VerdictIsExact ==
  ASSUME ParserInv, verdict = "parsing", doc = <<>> \/ stack # <<>>,
         NEW t \in Tokens(Within("object"))
  PROVE  VerdictHolds(t, Append(doc, ReadAs(t)))
<1> DEFINE v == ReadAs(t)
           e == Append(doc, v)
<1>1. /\ v \in Value /\ Rooted(e) /\ Depths(doc)[v.parent] = Len(stack)
      /\ stack = <<>> => v.parent = 0
      /\ stack # <<>> => /\ v.parent = Top.node /\ Top.node \in 1 .. Len(doc)
                         /\ FrameOf(doc, Top, Len(stack))
      /\ v.key # NoKey <=> Within("object")
  BY ReadingPlaces
<1>2. v.key = t.key /\ v.kind = t.kind /\ v.size = t.size BY DEF ReadAs
<1>3. /\ Rooted(doc) /\ doc \in Seq(Value) /\ stack \in Seq(Frames) /\ Len(doc) \in Nat
      /\ Len(stack) \in Nat /\ nodes = Len(doc) /\ FitsLimits(doc) /\ KeysUnique(doc)
      /\ stack # <<>> => Len(stack) \in DOMAIN stack
  BY DEF ParserInv, ParserTypes, Rooted, RefusesExactly
<1> HIDE DEF v, e
<1>4. FitsLimits(e) <=> NextFits(doc, v) BY <1>1, <1>3, FitsGrow DEF e
<1>5. KeysUnique(e) <=> \A j \in Members(doc, v.parent) : v.key = NoKey \/ doc[j].key # v.key
  BY <1>1, <1>3, UniqueGrow DEF e
<1>6. stack # <<>> =>
        /\ doc[v.parent].kind = Top.kind /\ v.parent # 0
        /\ Top.count = Cardinality(Members(doc, v.parent)) /\ Top.count \in Nat
        /\ Top.keys = {doc[j].key : j \in Members(doc, v.parent)} \ {NoKey}
        /\ Top.kind = "array" => Top.count <= MaxArrayElements
        /\ Top.kind # "array" => Top.count <= MaxObjectMembers
  <2> SUFFICES ASSUME stack # <<>> PROVE <1>6!2 OBVIOUS
  <2>1. FrameOf(doc, Top, Len(stack)) /\ v.parent = Top.node /\ v.parent \in 1 .. Len(doc)
    BY <1>1
  <2>2. Top \in Frames BY <2>1 DEF FrameOf
  <2>3. Top.count <= IF Top.kind = "array" THEN MaxArrayElements ELSE MaxObjectMembers
    BY <1>3 DEF ParserInv, ParserTypes, Top
  <2>4. Top.count \in Nat BY <2>2 DEF Frames
  <2> QED BY <2>1, <2>3, <2>4 DEF FrameOf
<1>7. /\ MaxDepth \in Nat /\ MaxNodes \in Nat /\ MaxObjectMembers \in Nat
      /\ MaxArrayElements \in Nat /\ MaxStringBytes \in Nat /\ MaxKeyBytes \in Nat
      /\ v.size \in Nat /\ (v.key # NoKey => KeyBytes[v.key] \in Nat)
  BY <1>1, LimitsAssumption DEF Value
<1>8. ASSUME Refusal(t) = "none" PROVE VerdictHolds(t, e)
  <2>1. /\ Within("object") => /\ ~(KeyBytes[t.key] > MaxKeyBytes) /\ t.key \notin Top.keys
                               /\ ~(Top.count >= MaxObjectMembers)
        /\ Within("array") => Top.count # MaxArrayElements
        /\ ~(Len(stack) + 1 > MaxDepth) /\ ~(nodes >= MaxNodes)
        /\ t.kind = "string" => ~(t.size > MaxStringBytes)
    BY <1>8, RefusalMeans
  <2>2. /\ Within("array") => Top.count + 1 <= MaxArrayElements
        /\ Within("object") => Top.count + 1 <= MaxObjectMembers
    BY <1>6, <1>7, <2>1 DEF Within
  <2>3. Len(stack) + 1 <= MaxDepth /\ nodes + 1 <= MaxNodes BY <1>3, <1>7, <2>1
  <2>4. NextFits(doc, v)
    <3>1. v.kind = "string" => v.size <= MaxStringBytes BY <1>2, <1>7, <2>1
    <3>2. v.key # NoKey => KeyBytes[v.key] <= MaxKeyBytes BY <1>1, <1>2, <1>7, <2>1
    <3>3. v.parent # 0 => stack # <<>> BY <1>1
    <3>4. Len(doc) + 1 <= MaxNodes /\ 1 + Depths(doc)[v.parent] <= MaxDepth
      BY <1>1, <1>3, <2>3
    <3> QED BY <1>6, <2>2, <3>1, <3>2, <3>3, <3>4 DEF NextFits, Within
  <2>5. \A j \in Members(doc, v.parent) : v.key = NoKey \/ doc[j].key # v.key
    <3> SUFFICES ASSUME v.key # NoKey, NEW j \in Members(doc, v.parent)
                 PROVE  doc[j].key # v.key
      OBVIOUS
    <3>1. Within("object") /\ stack # <<>> BY <1>1 DEF Within
    <3>2. v.key \notin Top.keys BY <1>2, <2>1, <3>1
    <3> QED BY <1>6, <3>1, <3>2
  <2> QED BY <1>3, <1>4, <1>5, <1>8, <2>2, <2>3, <2>4, <2>5 DEF Limits, VerdictHolds
<1>9. ASSUME Refusal(t) = "duplicate" PROVE VerdictHolds(t, e)
  <2>1. Within("object") /\ t.key \in Top.keys BY <1>9, RefusalMeans
  <2>2. v.key # NoKey /\ v.key \in {doc[j].key : j \in Members(doc, v.parent)}
    BY <1>1, <1>2, <1>6, <2>1 DEF Within
  <2>3. ~KeysUnique(e) BY <1>5, <2>2
  <2> QED BY <1>3, <1>9, <2>3 DEF Limits, VerdictHolds
<1>fresh. ASSUME NotRepeated(t) PROVE KeysUnique(e)
  <2> SUFFICES ASSUME v.key # NoKey, NEW j \in Members(doc, v.parent) PROVE doc[j].key # v.key
    BY <1>5
  <2>1. Within("object") /\ stack # <<>> BY <1>1 DEF Within
  <2> QED BY <1>2, <1>6, <1>fresh, <2>1 DEF NotRepeated
<1>10. ASSUME Refusal(t) \in Limits, ~NextFits(doc, v), KeysUnique(e),
              Refusal(t) = "string" => nodes + 1 <= MaxNodes
       PROVE  VerdictHolds(t, e)
  <2>1. ~FitsLimits(e) BY <1>4, <1>10
  <2> QED BY <1>3, <1>10, <2>1 DEF Limits, VerdictHolds
<1>11. ASSUME Refusal(t) = "key" PROVE VerdictHolds(t, e)
  <2>1. Within("object") /\ KeyBytes[t.key] > MaxKeyBytes BY <1>11, RefusalMeans
  <2>2. ~NextFits(doc, v) BY <1>1, <1>2, <1>7, <2>1 DEF NextFits
  <2>3. ASSUME NEW j \in Members(doc, v.parent) PROVE doc[j].key # v.key
    <3>1. j \in DOMAIN doc BY DEF Members
    <3>2. doc[j].key # NoKey => KeyBytes[doc[j].key] <= MaxKeyBytes
      BY <1>3, <3>1 DEF FitsLimits
    <3>3. v.key # NoKey /\ ~(KeyBytes[v.key] <= MaxKeyBytes) BY <1>1, <1>2, <1>7, <2>1
    <3> QED BY <3>2, <3>3
  <2>4. KeysUnique(e) BY <1>5, <2>3
  <2> QED BY <1>10, <1>11, <2>2, <2>4 DEF Limits
<1>12. ASSUME Refusal(t) = "members" PROVE VerdictHolds(t, e)
  <2>1. Within("object") /\ Top.count >= MaxObjectMembers /\ NotRepeated(t) BY <1>12, RefusalMeans
  <2>2. ~NextFits(doc, v) BY <1>6, <1>7, <2>1 DEF NextFits, Within
  <2> QED BY <1>10, <1>12, <1>fresh, <2>1, <2>2 DEF Limits
<1>13. ASSUME Refusal(t) = "elements" PROVE VerdictHolds(t, e)
  <2>1. Within("array") /\ Top.count = MaxArrayElements /\ NotRepeated(t) BY <1>13, RefusalMeans
  <2>2. ~NextFits(doc, v) BY <1>6, <1>7, <2>1 DEF NextFits, Within
  <2> QED BY <1>10, <1>13, <1>fresh, <2>1, <2>2 DEF Limits
<1>14. ASSUME Refusal(t) = "depth" PROVE VerdictHolds(t, e)
  <2>1. Len(stack) + 1 > MaxDepth /\ NotRepeated(t) BY <1>14, RefusalMeans
  <2>2. ~NextFits(doc, v) BY <1>1, <1>3, <1>7, <2>1 DEF NextFits
  <2> QED BY <1>10, <1>14, <1>fresh, <2>1, <2>2 DEF Limits
<1>15. ASSUME Refusal(t) = "nodes" PROVE VerdictHolds(t, e)
  <2>1. nodes >= MaxNodes /\ NotRepeated(t) BY <1>15, RefusalMeans
  <2>2. ~NextFits(doc, v) BY <1>3, <1>7, <2>1 DEF NextFits
  <2> QED BY <1>10, <1>15, <1>fresh, <2>1, <2>2 DEF Limits
<1>16. ASSUME Refusal(t) = "string" PROVE VerdictHolds(t, e)
  <2>1. t.kind = "string" /\ t.size > MaxStringBytes /\ ~(nodes >= MaxNodes) /\ NotRepeated(t)
    BY <1>16, RefusalMeans
  <2>2. ~NextFits(doc, v) BY <1>2, <1>7, <2>1 DEF NextFits
  <2>3. nodes + 1 <= MaxNodes BY <1>3, <1>7, <2>1
  <2> QED BY <1>10, <1>16, <1>fresh, <2>1, <2>2, <2>3 DEF Limits
<1>17. VerdictHolds(t, e)
  BY <1>8, <1>9, <1>11, <1>12, <1>13, <1>14, <1>15, <1>16, RefusalMeans
<1> QED BY <1>17 DEF v, e

LEMMA Pushing ==
  ASSUME NEW u \in Seq(Frames), NEW f \in Frames
  PROVE  /\ u \o <<f>> \in Seq(Frames) /\ Len(u \o <<f>>) = Len(u) + 1 /\ Len(u) \in Nat
         /\ \A i \in 1 .. Len(u) : (u \o <<f>>)[i] = u[i]
         /\ (u \o <<f>>)[Len(u) + 1] = f
<1> DEFINE o == <<f>>
<1>1. o \in Seq(Frames) /\ Len(o) = 1 /\ o[1] = f OBVIOUS
<1>2. Len(u) \in Nat OBVIOUS
<1> HIDE DEF o
<1>3. /\ u \o o \in Seq(Frames) /\ Len(u \o o) = Len(u) + Len(o)
      /\ \A i \in 1 .. Len(u) + Len(o) :
           (u \o o)[i] = IF i <= Len(u) THEN u[i] ELSE o[i - Len(u)]
  BY <1>1, ConcatProperties
<1>4. Len(u) + Len(o) = Len(u) + 1 BY <1>1
<1>5. (u \o o)[Len(u) + 1] = f BY <1>1, <1>2, <1>3, <1>4
<1>6. \A i \in 1 .. Len(u) : (u \o o)[i] = u[i] BY <1>2, <1>3, <1>4
<1> QED BY <1>2, <1>3, <1>4, <1>5, <1>6 DEF o

LEMMA CountedIs ==
  ASSUME NEW t, stack \in Seq(Frames)
  PROVE  /\ Counted(t) = [i \in 1 .. Len(stack) |-> Counted(t)[i]]
         /\ \A i \in 1 .. Len(stack) :
              Counted(t)[i] =
                IF i < Len(stack) THEN stack[i]
                ELSE [stack[i] EXCEPT !.count = @ + 1, !.keys = @ \cup ({t.key} \ {NoKey})]
<1> DEFINE F(i) == IF i < Len(stack) THEN stack[i]
                   ELSE [stack[i] EXCEPT !.count = @ + 1, !.keys = @ \cup ({t.key} \ {NoKey})]
<1>1. DOMAIN stack = 1 .. Len(stack) OBVIOUS
<1>2. Counted(t) = [i \in DOMAIN stack |-> F(i)] BY DEF Counted
<1> HIDE DEF F
<1>3. Counted(t) = [i \in 1 .. Len(stack) |-> F(i)] BY <1>1, <1>2
<1>4. /\ Counted(t) = [i \in 1 .. Len(stack) |-> Counted(t)[i]]
      /\ \A i \in 1 .. Len(stack) : Counted(t)[i] = F(i)
  BY <1>3
<1> QED BY <1>4 DEF F

\* After a value that is not refused, the frames are again what the document says.
LEMMA FramesKept ==
  ASSUME ParserInv, verdict = "parsing", doc = <<>> \/ stack # <<>>,
         NEW t \in Tokens(Within("object")), Refusal(t) = "none",
         NEW s, s = Counted(t) \o Opened(t, Len(doc) + 1)
  PROVE  /\ s \in Seq(Frames) /\ Len(s) <= MaxDepth
         /\ \A i \in DOMAIN s :
              s[i].count <= IF s[i].kind = "array" THEN MaxArrayElements
                                                    ELSE MaxObjectMembers
         /\ \A i \in 1 .. Len(s) : FrameOf(Append(doc, ReadAs(t)), s[i], i)
<1> DEFINE v == ReadAs(t)
           e == Append(doc, v)
           u == Counted(t)
           o == Opened(t, Len(doc) + 1)
           Within0(f) == f.count <= IF f.kind = "array" THEN MaxArrayElements
                                                        ELSE MaxObjectMembers
<1>1. /\ v \in Value /\ Rooted(e) /\ Depths(doc)[v.parent] = Len(stack)
      /\ stack # <<>> => v.parent = Top.node
  BY ReadingPlaces
<1>2. v.key = t.key /\ v.kind = t.kind /\ v.size = t.size BY DEF ReadAs
<1>3. /\ Rooted(doc) /\ stack \in Seq(Frames) /\ Len(stack) \in Nat /\ Len(stack) <= MaxDepth
      /\ DOMAIN stack = 1 .. Len(stack) /\ Len(doc) \in Nat
      /\ \A i \in 1 .. Len(stack) : Within0(stack[i]) /\ FrameOf(doc, stack[i], i)
      /\ stack # <<>> <=> Len(stack) # 0
  BY DEF ParserInv, ParserTypes, Rooted
<1>4. /\ Len(stack) + 1 <= MaxDepth
      /\ Within("array") => Top.count + 1 <= MaxArrayElements
      /\ Within("object") => Top.count + 1 <= MaxObjectMembers
  BY VerdictIsExact DEF VerdictHolds
<1> HIDE DEF v, e
<1>5. /\ u = [i \in 1 .. Len(stack) |-> u[i]]
      /\ \A i \in 1 .. Len(stack) :
           u[i] = IF i < Len(stack) THEN stack[i]
                  ELSE [stack[i] EXCEPT !.count = @ + 1, !.keys = @ \cup ({t.key} \ {NoKey})]
  BY <1>3, CountedIs
<1> HIDE DEF u, o
<1>6. ASSUME NEW i \in 1 .. Len(stack)
      PROVE  FrameOf(e, u[i], i) /\ Within0(u[i])
  <2>1. CASE i < Len(stack)
    <3>1. u[i] = stack[i] BY <1>5, <2>1
    <3>2. stack[i].node # v.parent
      <4>1. Depths(doc)[stack[i].node] = i BY <1>3 DEF FrameOf
      <4> QED BY <1>1, <1>3, <2>1, <4>1
    <3>3. FrameOf(e, stack[i], i) BY <1>1, <1>3, <3>2, FrameStays DEF e
    <3> QED BY <1>3, <3>1, <3>3
  <2>2. CASE i = Len(stack)
    <3>1. u[i] = [stack[i] EXCEPT !.count = @ + 1, !.keys = @ \cup ({v.key} \ {NoKey})]
      <4>1. ~(i < Len(stack)) BY <1>3, <2>2
      <4> QED BY <1>2, <1>5, <4>1
    <3>2. stack[i].node = v.parent /\ stack[i] = Top /\ stack # <<>>
      BY <1>1, <1>3, <2>2 DEF Top
    <3>3. FrameOf(e, u[i], i)
      <4>1. FrameOf(doc, stack[i], i) BY <1>3
      <4>2. FrameOf(e, [stack[i] EXCEPT !.count = @ + 1, !.keys = @ \cup ({v.key} \ {NoKey})], i)
        BY <1>1, <1>3, <3>2, <4>1, FrameCounts DEF e
      <4> QED BY <3>1, <4>2
    <3>4. stack[i] \in [kind : {"array", "object"}, node : Nat, count : Nat, keys : SUBSET Keys]
      <4>1. stack[i] \in Frames BY <1>3 DEF FrameOf
      <4> QED BY <4>1 DEF Frames
    <3>5. u[i].count = Top.count + 1 /\ u[i].kind = Top.kind /\ Top.kind \in {"array", "object"}
      BY <3>1, <3>2, <3>4
    <3>6. Within0(u[i]) BY <1>4, <3>2, <3>5 DEF Within
    <3> QED BY <3>3, <3>6
  <2>3. i < Len(stack) \/ i = Len(stack)
    <3>1. Len(stack) \in Nat BY <1>3
    <3> QED BY <3>1
  <2> QED BY <2>1, <2>2, <2>3
<1>7. u \in Seq(Frames) /\ Len(u) = Len(stack)
  <2>1. \A i \in 1 .. Len(stack) : u[i] \in Frames BY <1>6 DEF FrameOf
  <2>2. [i \in 1 .. Len(stack) |-> u[i]] \in Seq(Frames)
        /\ Len([i \in 1 .. Len(stack) |-> u[i]]) = Len(stack)
    BY <1>3, <2>1
  <2> QED BY <1>5, <2>2
<1>8. s = u \o o BY DEF u, o
<1>9. CASE o = <<>>
  <2>1. s = u BY <1>7, <1>8, <1>9
  <2>2. s \in Seq(Frames) /\ Len(s) = Len(stack) /\ DOMAIN s = 1 .. Len(s)
    <3>1. DOMAIN u = 1 .. Len(u) BY <1>7
    <3> QED BY <1>7, <2>1, <3>1, Zenon
  <2>3. \A i \in 1 .. Len(s) : FrameOf(e, s[i], i) /\ Within0(s[i]) BY <1>6, <2>1, <2>2
  <2>4. Len(s) <= MaxDepth BY <1>3, <2>2
  <2> QED BY <2>2, <2>3, <2>4 DEF e, v
<1>10. CASE o # <<>>
  <2> DEFINE f == [kind |-> t.kind, node |-> Len(doc) + 1, count |-> 0, keys |-> {}]
  <2>1. v.kind \in {"array", "object"} /\ o = <<f>> BY <1>2, <1>10 DEF Opened, o
  <2>2. FrameOf(e, f, 1 + Depths(doc)[v.parent]) BY <1>1, <1>2, <1>3, <2>1, FrameOpens DEF e
  <2>3. f.count = 0 OBVIOUS
  <2>4. f \in Frames BY <2>2 DEF FrameOf
  <2> HIDE DEF f
  <2>5. FrameOf(e, f, Len(stack) + 1) BY <1>1, <1>3, <2>2
  <2>6. Within0(f) BY <2>3, LimitsAssumption
  <2>7. /\ s \in Seq(Frames) /\ Len(s) = Len(stack) + 1
        /\ \A i \in 1 .. Len(stack) : s[i] = u[i]
        /\ s[Len(stack) + 1] = f
    <3>1. s = u \o <<f>> BY <1>8, <2>1
    <3>2. /\ u \o <<f>> \in Seq(Frames) /\ Len(u \o <<f>>) = Len(u) + 1
          /\ \A i \in 1 .. Len(u) : (u \o <<f>>)[i] = u[i]
          /\ (u \o <<f>>)[Len(u) + 1] = f
      BY <1>7, <2>4, Pushing
    <3> QED BY <1>7, <3>1, <3>2
  <2>8. ASSUME NEW i \in 1 .. Len(s) PROVE FrameOf(e, s[i], i) /\ Within0(s[i])
    <3>1. i \in 1 .. Len(stack) \/ i = Len(stack) + 1 BY <1>3, <2>7
    <3> QED BY <1>6, <2>5, <2>6, <2>7, <3>1
  <2>9. Len(s) <= MaxDepth /\ DOMAIN s = 1 .. Len(s) BY <1>4, <2>7
  <2> QED BY <2>7, <2>8, <2>9 DEF e, v
<1> QED BY <1>9, <1>10

LEMMA ParserInvInit == Init => ParserInv
<1> SUFFICES ASSUME Init PROVE ParserInv OBVIOUS
<1>1. doc = <<>> /\ stack = <<>> /\ nodes = 0 /\ verdict = "parsing" BY DEF Init
<1>2. Len(doc) = 0 /\ Len(stack) = 0 /\ DOMAIN stack = {} /\ DOMAIN doc = {} /\ doc \in Seq(Value)
      /\ stack \in Seq(Frames)
  BY <1>1
<1>3. ParserTypes BY <1>1, <1>2, LimitsAssumption DEF ParserTypes
<1>4. Rooted(doc) BY <1>2 DEF Rooted
<1>5. FitsLimits(doc) /\ KeysUnique(doc) BY <1>2, LimitsAssumption DEF FitsLimits, KeysUnique
<1>6. RefusesExactly BY <1>1, <1>5 DEF RefusesExactly, Limits
<1> QED BY <1>1, <1>2, <1>3, <1>4, <1>6 DEF ParserInv, Limits

LEMMA ParserInvReadValue ==
  ASSUME ParserInv, ReadValue PROVE ParserInv'
<1>1. verdict = "parsing" /\ (doc = <<>> \/ stack # <<>>) BY DEF ReadValue
<1>2. PICK t \in Tokens(Within("object")) :
        /\ doc' = Append(doc, ReadAs(t))
        /\ \/ /\ Refusal(t) = "none"
              /\ nodes' = nodes + 1
              /\ stack' = Counted(t) \o Opened(t, Len(doc) + 1)
              /\ UNCHANGED verdict
           \/ /\ Refusal(t) # "none"
              /\ verdict' = Refusal(t)
              /\ nodes' = IF Refusal(t) = "string" THEN nodes + 1 ELSE nodes
              /\ UNCHANGED stack
  BY DEF ReadValue, ReadAs
<1> DEFINE v == ReadAs(t)
           e == Append(doc, v)
<1>3. v \in Value /\ Rooted(e) BY <1>1, ReadingPlaces
<1>4. VerdictHolds(t, e) BY <1>1, VerdictIsExact
<1> HIDE DEF v
<1>5. /\ Rooted(doc) /\ nodes = Len(doc) /\ nodes \in 0 .. MaxNodes /\ Len(doc) \in Nat
      /\ doc \in Seq(Value)
  BY <1>1 DEF ParserInv, ParserTypes, Rooted
<1>6. Len(e) = Len(doc) + 1 /\ e # <<>> /\ Front(e) = doc
  <2>1. Len(e) = Len(doc) + 1 BY <1>3, <1>5, Appending
  <2>2. e # <<>> BY <1>5, <2>1
  <2> QED BY <1>3, <1>5, <2>1, <2>2, FrontOfAppend
<1>7. doc' = e BY <1>2 DEF v
<1> HIDE DEF e
<1>8. Rooted(doc') /\ doc' # <<>> /\ Front(doc') = doc /\ Len(doc') = Len(doc) + 1
  BY <1>3, <1>6, <1>7
<1>9. CASE Refusal(t) = "none"
  <2>1. nodes' = nodes + 1 /\ stack' = Counted(t) \o Opened(t, Len(doc) + 1) /\ verdict' = "parsing"
    BY <1>1, <1>2, <1>9
  <2>2. /\ stack' \in Seq(Frames) /\ Len(stack') <= MaxDepth
        /\ \A i \in DOMAIN stack' :
             stack'[i].count <= IF stack'[i].kind = "array" THEN MaxArrayElements
                                                             ELSE MaxObjectMembers
        /\ \A i \in 1 .. Len(stack') : FrameOf(doc', stack'[i], i)
    BY <1>1, <1>7, <1>9, <2>1, FramesKept DEF v, e
  <2>3. FitsLimits(doc') /\ KeysUnique(doc') /\ nodes + 1 <= MaxNodes
    BY <1>4, <1>7, <1>9 DEF VerdictHolds
  <2>4. nodes' \in 0 .. MaxNodes /\ nodes' = Len(doc') BY <1>5, <1>8, <2>1, <2>3
  <2>5. ParserTypes' BY <2>1, <2>2, <2>4 DEF ParserTypes
  <2>6. RefusesExactly' BY <2>1, <2>3 DEF RefusesExactly, Limits
  <2> QED BY <1>8, <2>1, <2>2, <2>4, <2>5, <2>6 DEF ParserInv, Limits
<1>10. CASE Refusal(t) # "none"
  <2>1. /\ verdict' = Refusal(t) /\ stack' = stack
        /\ nodes' = IF Refusal(t) = "string" THEN nodes + 1 ELSE nodes
    BY <1>2, <1>10
  <2>2. verdict' \in {"duplicate"} \cup Limits BY <1>4, <1>10, <2>1 DEF VerdictHolds
  <2>3. nodes' \in 0 .. MaxNodes
    <3>1. Refusal(t) = "string" => nodes + 1 <= MaxNodes BY <1>4 DEF VerdictHolds
    <3> QED BY <1>5, <2>1, <3>1
  <2>4. ParserTypes' BY <2>1, <2>2, <2>3 DEF ParserInv, ParserTypes
  <2>5. verdict' \notin {"parsing", "accepted"} BY <2>2 DEF Limits
  <2>6. /\ verdict' \in Limits => KeysUnique(doc') /\ ~FitsLimits(doc')
        /\ verdict' = "duplicate" => ~KeysUnique(doc')
        /\ FitsLimits(doc) /\ KeysUnique(doc)
    BY <1>4, <1>7, <2>1 DEF VerdictHolds
  <2>7. FitsLimits(Front(doc')) /\ KeysUnique(Front(doc')) BY <1>8, <2>6
  <2>8. RefusesExactly' BY <2>5, <2>6, <2>7 DEF RefusesExactly
  <2> QED BY <1>8, <2>4, <2>5, <2>8 DEF ParserInv
<1> QED BY <1>9, <1>10

LEMMA ParserInvClose ==
  ASSUME ParserInv, CloseContainer PROVE ParserInv'
<1>1. /\ verdict = "parsing" /\ stack # <<>> /\ stack' = SubSeq(stack, 1, Len(stack) - 1)
      /\ doc' = doc /\ nodes' = nodes /\ verdict' = verdict
  BY DEF CloseContainer
<1>2. stack \in Seq(Frames) /\ Len(stack) \in Nat /\ DOMAIN stack = 1 .. Len(stack)
      /\ Len(stack) # 0 /\ Len(stack) <= MaxDepth
  BY <1>1 DEF ParserInv, ParserTypes
<1> DEFINE n == Len(stack) - 1
           u == SubSeq(stack, 1, n)
<1>3. n \in Nat /\ n < Len(stack) BY <1>2
<1> HIDE DEF n
<1>4. /\ u \in Seq(Frames) /\ Len(u) = n /\ \A i \in 1 .. n : u[i] = stack[i]
  <2>1. /\ u \in Seq(Frames) /\ Len(u) = IF 1 <= n THEN n - 1 + 1 ELSE 0
        /\ \A i \in 1 .. n - 1 + 1 : u[i] = stack[1 + i - 1]
    BY <1>2, <1>3, SubSeqProperties
  <2>2. \A i \in 1 .. n : 1 + i - 1 = i BY <1>3
  <2> HIDE DEF u
  <2> QED BY <1>3, <2>1, <2>2
<1>5. stack' = u BY <1>1 DEF n
<1> HIDE DEF u
<1>6. /\ stack' \in Seq(Frames) /\ Len(stack') = n /\ DOMAIN stack' = 1 .. n
      /\ \A i \in 1 .. n : stack'[i] = stack[i] /\ i \in 1 .. Len(stack)
  BY <1>2, <1>3, <1>4, <1>5
<1>7. Len(stack') <= MaxDepth BY <1>2, <1>3, <1>6, LimitsAssumption
<1>8. ParserTypes' BY <1>1, <1>2, <1>6, <1>7 DEF ParserInv, ParserTypes
<1>9. \A i \in 1 .. Len(stack') : FrameOf(doc', stack'[i], i)
  BY <1>1, <1>6 DEF ParserInv
<1>10. RefusesExactly' BY <1>1 DEF ParserInv, RefusesExactly
<1> QED BY <1>1, <1>8, <1>9, <1>10 DEF ParserInv

LEMMA ParserInvEnds ==
  ASSUME ParserInv, EndOfRecord \/ SyntaxError PROVE ParserInv'
<1>1. /\ verdict = "parsing" /\ doc' = doc /\ nodes' = nodes /\ stack' = stack
      /\ (verdict' = "accepted" /\ doc # <<>>) \/ verdict' = "syntax"
  BY DEF EndOfRecord, SyntaxError
<1>2. ParserTypes' BY <1>1 DEF ParserInv, ParserTypes
<1>3. FitsLimits(doc) /\ KeysUnique(doc) /\ verdict' \notin {"duplicate"} \cup Limits
  BY <1>1 DEF ParserInv, RefusesExactly, Limits
<1>4. FitsLimits(doc') /\ KeysUnique(doc') BY <1>1, <1>3
<1>5. RefusesExactly' BY <1>3, <1>4 DEF RefusesExactly
<1> QED BY <1>1, <1>2, <1>5 DEF ParserInv, Limits

LEMMA ParserInvKept ==
  ASSUME ParserInv, [Next]_vars PROVE ParserInv'
<1>1. CASE ValidatorStep \/ UNCHANGED vars
  <2>1. doc' = doc /\ stack' = stack /\ nodes' = nodes /\ verdict' = verdict
    BY <1>1 DEF ValidatorStep, StartValidation, ValidateNext, ValidationEnds, vars, parserVars
  <2> QED BY <2>1 DEF ParserInv, ParserTypes, RefusesExactly
<1>2. CASE ParserStep
  BY <1>2, ParserInvReadValue, ParserInvClose, ParserInvEnds DEF ParserStep
<1> QED BY <1>1, <1>2 DEF Next
-----------------------------------------------------------------------------
(* The children of a value, last first: each of them, once.                  *)

Above(K, i) == {j \in K : j > i}

Lists(kids, M) ==
  /\ DOMAIN kids = 1 .. Cardinality(M)
  /\ \A n \in 1 .. Cardinality(M) : kids[n] \in M
  /\ \A m, n \in 1 .. Cardinality(M) : kids[m] = kids[n] => m = n
  /\ \A i \in M : \E n \in 1 .. Cardinality(M) : kids[n] = i

LEMMA Ranks ==
  ASSUME NEW L \in Nat, NEW K, K \subseteq 1 .. L
  PROVE  /\ Cardinality(K) \in Nat
         /\ \A i \in K : /\ Cardinality(Above(K, i)) \in Nat
                        /\ Cardinality(Above(K, i)) + 1 \in 1 .. Cardinality(K)
         /\ \A i, k \in K : Cardinality(Above(K, i)) = Cardinality(Above(K, k)) => i = k
         /\ \A n \in 1 .. Cardinality(K) : \E i \in K : Cardinality(Above(K, i)) = n - 1
<1> DEFINE c == Cardinality(K)
           rank(i) == Cardinality(Above(K, i))
<1>1. IsFiniteSet(K) /\ c \in Nat
  <2>1. IsFiniteSet(1 .. L) BY FS_Interval
  <2>2. IsFiniteSet(K) BY <2>1, FS_Subset
  <2> QED BY <2>2, FS_CardinalityType
<1>2. ASSUME NEW i \in K PROVE IsFiniteSet(Above(K, i)) /\ rank(i) \in Nat /\ rank(i) + 1 <= c
  <2>1. Above(K, i) \subseteq K /\ i \notin Above(K, i) /\ i \in 1 .. L BY DEF Above
  <2>2. IsFiniteSet(Above(K, i)) BY <1>1, <2>1, FS_Subset
  <2>3. Above(K, i) \cup {i} \in SUBSET K BY <2>1
  <2>4. Cardinality(Above(K, i) \cup {i}) <= c BY <1>1, <2>3, FS_Subset
  <2>5. Cardinality(Above(K, i) \cup {i}) = rank(i) + 1 BY <2>1, <2>2, FS_AddElement
  <2>6. rank(i) \in Nat BY <2>2, FS_CardinalityType
  <2> QED BY <2>2, <2>4, <2>5, <2>6
<1>3. ASSUME NEW i \in K, NEW k \in K, i < k PROVE rank(k) < rank(i)
  <2>1. Above(K, k) \cup {k} \in SUBSET Above(K, i) /\ k \notin Above(K, k)
    <3>1. \A j \in K : j > k => j > i BY <1>3
    <3>2. k > i /\ ~(k > k) BY <1>3
    <3> QED BY <3>1, <3>2 DEF Above
  <2>2. Cardinality(Above(K, k) \cup {k}) <= rank(i) BY <1>2, <2>1, FS_Subset
  <2>3. Cardinality(Above(K, k) \cup {k}) = rank(k) + 1 BY <1>2, <2>1, FS_AddElement
  <2> QED BY <1>2, <2>2, <2>3
<1> HIDE DEF rank, c
<1>4. ASSUME NEW i \in K, NEW k \in K, rank(i) = rank(k) PROVE i = k
  <2>1. i \in Nat /\ k \in Nat /\ rank(i) \in Nat BY <1>2
  <2>2. ~(i < k) BY <1>2, <1>3, <1>4
  <2>3. ~(k < i) BY <1>2, <1>3, <1>4
  <2> QED BY <2>1, <2>2, <2>3
<1>5. \A i \in K : rank(i) \in Nat /\ rank(i) + 1 \in 1 .. c
  <2> SUFFICES ASSUME NEW i \in K PROVE rank(i) \in Nat /\ rank(i) + 1 \in 1 .. c OBVIOUS
  <2>1. rank(i) \in Nat /\ rank(i) + 1 <= c BY <1>2
  <2> QED BY <1>1, <2>1
<1> DEFINE f == [i \in K |-> rank(i) + 1]
<1>6. f \in Injection(K, 1 .. c)
  <2>2. f \in [K -> 1 .. c] BY <1>5
  <2>3. \A i, k \in K : f[i] = f[k] => i = k
    <3> SUFFICES ASSUME NEW i \in K, NEW k \in K, f[i] = f[k] PROVE i = k OBVIOUS
    <3>1. rank(i) \in Nat /\ rank(k) \in Nat /\ rank(i) + 1 = rank(k) + 1 BY <1>2
    <3>2. rank(i) = rank(k) BY <3>1
    <3> QED BY <1>4, <3>2
  <2> HIDE DEF f
  <2> QED BY <2>2, <2>3 DEF Injection, IsInjective
<1>7. f \in Surjection(K, 1 .. c)
  <2>1. IsFiniteSet(1 .. c) /\ Cardinality(1 .. c) = c BY <1>1, FS_Interval
  <2>2. Cardinality(K) = Cardinality(1 .. c) BY <2>1 DEF c
  <2> HIDE DEF f, c
  <2> QED BY <1>6, <2>1, <2>2, FS_Injection
<1>8. \A n \in 1 .. c : \E i \in K : f[i] = n
  <2> HIDE DEF f, c
  <2> QED BY <1>7 DEF Surjection
<1>9. ASSUME NEW n \in 1 .. c PROVE \E i \in K : rank(i) = n - 1
  <2>1. PICK i \in K : f[i] = n BY <1>8
  <2>2. rank(i) + 1 = n /\ rank(i) \in Nat BY <1>2, <2>1
  <2> QED BY <1>1, <2>2
<1>10. \A i, k \in K : rank(i) = rank(k) => i = k BY <1>4
<1> QED BY <1>1, <1>5, <1>9, <1>10 DEF rank, c

LEMMA ChildrenInOrder ==
  ASSUME doc \in Seq(Value), NEW p, NEW M, M = Members(doc, p),
         NEW kids, kids = ChildrenReversed(p)
  PROVE  /\ Children(p) = M /\ M \subseteq 1 .. Len(doc) /\ Cardinality(M) \in Nat
         /\ Lists(kids, M)
<1>1. M \subseteq 1 .. Len(doc) /\ Len(doc) \in Nat /\ Children(p) = M
  BY DEF Members, Children
<1> DEFINE c == Cardinality(M)
           F(n) == CHOOSE i \in M : Cardinality(Above(M, i)) = n - 1
<1>2. /\ c \in Nat
      /\ \A i \in M : Cardinality(Above(M, i)) \in Nat /\ Cardinality(Above(M, i)) + 1 \in 1 .. c
      /\ \A i, k \in M : Cardinality(Above(M, i)) = Cardinality(Above(M, k)) => i = k
      /\ \A n \in 1 .. c : \E i \in M : Cardinality(Above(M, i)) = n - 1
  BY <1>1, Ranks
<1>3. kids = [n \in 1 .. c |-> F(n)] BY <1>1 DEF ChildrenReversed, Above
<1>4. \A n \in 1 .. c : F(n) \in M /\ Cardinality(Above(M, F(n))) = n - 1
  BY <1>2
<1> HIDE DEF F
<1>5. /\ DOMAIN kids = 1 .. c
      /\ \A n \in 1 .. c : kids[n] \in M /\ Cardinality(Above(M, kids[n])) = n - 1
  BY <1>3, <1>4
<1> HIDE DEF c
<1>6. ASSUME NEW m \in 1 .. c, NEW n \in 1 .. c, kids[m] = kids[n] PROVE m = n
  <2>1. m - 1 = n - 1 BY <1>5, <1>6
  <2> QED BY <1>2, <2>1
<1>7. ASSUME NEW i \in M PROVE \E n \in 1 .. c : kids[n] = i
  <2> DEFINE n == Cardinality(Above(M, i)) + 1
  <2>1. n \in 1 .. c /\ Cardinality(Above(M, i)) = n - 1 BY <1>2
  <2> HIDE DEF n
  <2>2. kids[n] = i BY <1>2, <1>5, <2>1
  <2> QED BY <2>1, <2>2
<1> QED BY <1>1, <1>2, <1>5, <1>6, <1>7 DEF c, Lists
-----------------------------------------------------------------------------
(* validate_value.  What it has looked at and what it has on its stack are a *)
(* piece of the document that grows from the root: a value is in it exactly  *)
(* when it is the root or inside a value that was looked at.                 *)

Places(q) == {q[m].node : m \in 1 .. Len(q)}

Pushed(q) == q \in Seq([node : Nat, depth : Nat])

Passed(d, i) ==
  /\ Depths(d)[i] <= MaxDepth
  /\ d[i].kind = "string" => d[i].size <= MaxStringBytes
  /\ d[i].kind = "array" => Cardinality(Members(d, i)) <= MaxArrayElements
  /\ d[i].kind = "object" => /\ Cardinality(Members(d, i)) <= MaxObjectMembers
                             /\ \A j \in Members(d, i) : KeyBytes[d[j].key] <= MaxKeyBytes

Seen(d, q, c, seen) ==
  /\ seen \subseteq 1 .. Len(d) /\ Cardinality(seen) = c
  /\ \A m \in 1 .. Len(q) : /\ q[m].node \in (1 .. Len(d)) \ seen
                            /\ q[m].depth = Depths(d)[q[m].node]
  /\ \A m, n \in 1 .. Len(q) : q[m].node = q[n].node => m = n
  /\ \A i \in 1 .. Len(d) : i \in seen \cup Places(q) <=> i = 1 \/ d[i].parent \in seen
  /\ \A i \in seen : Passed(d, i)

\* The stack after the last value: the others, and above them its children.
StackOf(q, w, kids, k) ==
  /\ Pushed(w) /\ Len(w) = Len(q) - 1 + k
  /\ \A m \in 1 .. Len(q) - 1 : w[m] = q[m]
  /\ \A n \in 1 .. k : w[Len(q) - 1 + n] = [node |-> kids[n], depth |-> q[Len(q)].depth + 1]

LEMMA StackReplaced ==
  ASSUME NEW q, Pushed(q), q # <<>>, NEW k \in Nat, NEW kids,
         \A n \in 1 .. k : kids[n] \in Nat
  PROVE  StackOf(q, SubSeq(q, 1, Len(q) - 1)
                      \o [n \in 1 .. k |-> [node |-> kids[n], depth |-> q[Len(q)].depth + 1]],
                 kids, k)
<1> DEFINE T == [node : Nat, depth : Nat]
           b == Len(q) - 1
           below == SubSeq(q, 1, b)
           depth == q[Len(q)].depth + 1
           F(n) == [node |-> kids[n], depth |-> depth]
           new == [n \in 1 .. k |-> F(n)]
<1>1. q \in Seq(T) /\ Len(q) \in Nat /\ Len(q) # 0 BY DEF Pushed
<1>2. b \in Nat /\ b < Len(q) /\ Len(q) = b + 1 BY <1>1
<1>3. depth \in Nat
  <2> HIDE DEF T
  <2>1. Len(q) \in 1 .. Len(q) BY <1>1
  <2>2. q[Len(q)] \in T BY <1>1, <2>1
  <2>3. q[Len(q)] \in [node : Nat, depth : Nat] BY <2>2 DEF T
  <2> QED BY <2>3
<1> HIDE DEF b, depth
<1>4. \A n \in 1 .. k : F(n) \in T BY <1>3
<1> HIDE DEF T, F
<1>5. /\ new \in Seq(T) /\ Len(new) = k /\ \A n \in 1 .. k : new[n] = F(n)
  BY <1>4
<1>6. /\ below \in Seq(T) /\ Len(below) = b /\ \A m \in 1 .. b : below[m] = q[m]
  <2>1. /\ below \in Seq(T) /\ Len(below) = IF 1 <= b THEN b - 1 + 1 ELSE 0
        /\ \A i \in 1 .. b - 1 + 1 : below[i] = q[1 + i - 1]
    BY <1>1, <1>2, SubSeqProperties
  <2>2. \A i \in 1 .. b : 1 + i - 1 = i BY <1>2
  <2> HIDE DEF below
  <2> QED BY <1>2, <2>1, <2>2
<1> DEFINE w == below \o new
<1> HIDE DEF below, new
<1>7. /\ w \in Seq(T) /\ Len(w) = Len(below) + Len(new)
      /\ \A i \in 1 .. Len(below) + Len(new) :
           w[i] = IF i <= Len(below) THEN below[i] ELSE new[i - Len(below)]
  BY <1>5, <1>6, ConcatProperties
<1> HIDE DEF w
<1>8. w \in Seq(T) /\ Len(w) = b + k BY <1>5, <1>6, <1>7
<1>9. \A m \in 1 .. b : w[m] = q[m] BY <1>2, <1>5, <1>6, <1>7
<1>10. ASSUME NEW n \in 1 .. k PROVE w[b + n] = F(n)
  <2>1. b + n \in 1 .. b + k /\ ~(b + n <= b) /\ (b + n) - b = n BY <1>2
  <2> QED BY <1>5, <1>6, <1>7, <2>1
<1>11. StackOf(q, w, kids, k)
  BY <1>8, <1>9, <1>10 DEF StackOf, Pushed, T, b, F, depth
<1> QED BY <1>11 DEF w, below, new, F, depth, b

\* Looking at the value on top keeps the invariant, when the value passes.
LEMMA SeenGrows ==
  ASSUME NEW d, Rooted(d), NEW q, Pushed(q), q # <<>>, NEW c \in Nat, NEW seen, Seen(d, q, c, seen),
         NEW p, p = q[Len(q)].node, Passed(d, p),
         NEW kids, NEW M, M = Members(d, p), Lists(kids, M), NEW k, k = Cardinality(M), k \in Nat,
         NEW w, StackOf(q, w, kids, k)
  PROVE  Seen(d, w, c + 1, seen \cup {p})
<1>0. /\ \A n \in 1 .. k : kids[n] \in M
      /\ \A m, n \in 1 .. k : kids[m] = kids[n] => m = n
      /\ \A i \in M : \E n \in 1 .. k : kids[n] = i
  BY DEF Lists
<1> DEFINE b == Len(q) - 1
           more == seen \cup {p}
<1>1. Len(q) \in Nat /\ b \in Nat /\ Len(q) = b + 1
  <2>1. q \in Seq([node : Nat, depth : Nat]) BY DEF Pushed
  <2> QED BY <2>1
<1> HIDE DEF b
<1>2. /\ Len(w) = b + k /\ \A m \in 1 .. b : w[m] = q[m]
      /\ \A n \in 1 .. k : w[b + n].node = kids[n] /\ w[b + n].depth = q[Len(q)].depth + 1
  <2>1. /\ Len(w) = b + k /\ \A m \in 1 .. b : w[m] = q[m]
        /\ \A n \in 1 .. k : w[b + n] = [node |-> kids[n], depth |-> q[Len(q)].depth + 1]
    BY DEF StackOf, b
  <2>2. ASSUME NEW n \in 1 .. k
        PROVE  w[b + n].node = kids[n] /\ w[b + n].depth = q[Len(q)].depth + 1
    <3> DEFINE r == [node |-> kids[n], depth |-> q[Len(q)].depth + 1]
    <3>1. r.node = kids[n] /\ r.depth = q[Len(q)].depth + 1 OBVIOUS
    <3>2. w[b + n] = r BY <2>1
    <3> HIDE DEF r
    <3> QED BY <3>1, <3>2
  <2> QED BY <2>1, <2>2
<1>3. \A m \in 1 .. Len(w) : m \in 1 .. b \/ \E n \in 1 .. k : m = b + n
  <2> SUFFICES ASSUME NEW m \in 1 .. Len(w), m \notin 1 .. b PROVE \E n \in 1 .. k : m = b + n
    OBVIOUS
  <2>1. m - b \in 1 .. k /\ m = b + (m - b) BY <1>1, <1>2
  <2> QED BY <2>1
<1>4. /\ seen \subseteq 1 .. Len(d) /\ Cardinality(seen) = c
      /\ \A m \in 1 .. Len(q) : /\ q[m].node \in (1 .. Len(d)) \ seen
                                /\ q[m].depth = Depths(d)[q[m].node]
      /\ \A m, n \in 1 .. Len(q) : q[m].node = q[n].node => m = n
      /\ \A i \in 1 .. Len(d) : i \in seen \cup Places(q) <=> i = 1 \/ d[i].parent \in seen
      /\ \A i \in seen : Passed(d, i)
  BY DEF Seen
<1>5. Len(q) \in 1 .. Len(q) /\ \A m \in 1 .. b : m \in 1 .. Len(q) /\ m # Len(q) BY <1>1
<1>6. p \in 1 .. Len(d) /\ p \notin seen /\ p \in Places(q) /\ q[Len(q)].depth = Depths(d)[p]
  BY <1>4, <1>5 DEF Places
<1>7. Len(d) \in Nat BY DEF Rooted
<1>8. \A i \in M : i \in 1 .. Len(d) /\ d[i].parent = p /\ i # 1 /\ i # p
  <2> SUFFICES ASSUME NEW i \in M PROVE i \in 1 .. Len(d) /\ d[i].parent = p /\ i # 1 /\ i # p
    OBVIOUS
  <2>1. i \in 1 .. Len(d) /\ d[i].parent = p BY DEF Members, Rooted
  <2>2. d[i].parent \in 0 .. i - 1 /\ (d[i].parent = 0 <=> i = 1) BY <2>1 DEF Rooted
  <2> QED BY <1>6, <1>7, <2>1, <2>2
<1>9. \A i \in 1 .. Len(d) : d[i].parent = p => i \in M BY DEF Members, Rooted
<1>10. \A i \in M : i \notin seen \cup Places(q) BY <1>4, <1>6, <1>8
<1>11. more \subseteq 1 .. Len(d) /\ Cardinality(more) = c + 1
  <2>1. IsFiniteSet(1 .. Len(d)) BY <1>7, FS_Interval
  <2>2. IsFiniteSet(seen) BY <1>4, <2>1, FS_Subset
  <2>3. Cardinality(seen \cup {p}) = Cardinality(seen) + 1 BY <1>6, <2>2, FS_AddElement
  <2>4. seen \cup {p} \subseteq 1 .. Len(d) BY <1>4, <1>6
  <2> QED BY <1>4, <2>3, <2>4
<1>12. \A m \in 1 .. b : q[m].node # p /\ q[m].node \in Places(q)
  BY <1>4, <1>5 DEF Places
<1>13. \A m \in 1 .. Len(w) : /\ w[m].node \in (1 .. Len(d)) \ more
                              /\ w[m].depth = Depths(d)[w[m].node]
  <2> SUFFICES ASSUME NEW m \in 1 .. Len(w)
               PROVE  w[m].node \in (1 .. Len(d)) \ more /\ w[m].depth = Depths(d)[w[m].node]
    OBVIOUS
  <2>1. CASE m \in 1 .. b BY <1>2, <1>4, <1>5, <1>12, <2>1
  <2>2. ASSUME NEW n \in 1 .. k, m = b + n
        PROVE  w[m].node \in (1 .. Len(d)) \ more /\ w[m].depth = Depths(d)[w[m].node]
    <3>1. w[m].node = kids[n] /\ kids[n] \in M /\ w[m].depth = Depths(d)[p] + 1
      BY <1>0, <1>2, <1>6, <2>2
    <3>2. kids[n] \in (1 .. Len(d)) \ more BY <1>8, <1>10, <3>1
    <3>3. Depths(d)[kids[n]] = 1 + Depths(d)[p]
      <4> DEFINE i == kids[n]
      <4>1. i \in 1 .. Len(d) /\ d[i].parent = p BY <1>8, <3>1
      <4> HIDE DEF i
      <4>2. \A j \in 1 .. Len(d) : Depths(d)[j] = 1 + Depths(d)[d[j].parent] BY DepthsStep
      <4>3. Depths(d)[i] = 1 + Depths(d)[p] BY <4>1, <4>2
      <4> QED BY <4>3 DEF i
    <3>4. Depths(d)[p] \in Nat
      <4>1. p \in 0 .. Len(d) BY <1>6, <1>7
      <4> QED BY <4>1, DepthsType
    <3> QED BY <3>1, <3>2, <3>3, <3>4
  <2> QED BY <1>3, <2>1, <2>2
<1>14. \A m, n \in 1 .. Len(w) : w[m].node = w[n].node => m = n
  <2> SUFFICES ASSUME NEW m \in 1 .. Len(w), NEW n \in 1 .. Len(w), w[m].node = w[n].node
               PROVE  m = n
    OBVIOUS
  <2>1. CASE m \in 1 .. b /\ n \in 1 .. b BY <1>2, <1>4, <1>5, <2>1
  <2>2. \A j \in 1 .. b : w[j].node \in Places(q) BY <1>2, <1>12
  <2>3. \A j \in 1 .. k : w[b + j].node \in M /\ w[b + j].node = kids[j] BY <1>0, <1>2
  <2>4. ASSUME NEW i \in 1 .. k, NEW j \in 1 .. k, m = b + i, n = b + j PROVE m = n
    BY <1>0, <2>3, <2>4
  <2>5. ASSUME NEW j \in 1 .. k, m \in 1 .. b, n = b + j PROVE FALSE
    BY <1>10, <2>2, <2>3, <2>5
  <2>6. ASSUME NEW j \in 1 .. k, n \in 1 .. b, m = b + j PROVE FALSE
    BY <1>10, <2>2, <2>3, <2>6
  <2> QED BY <1>3, <2>1, <2>4, <2>5, <2>6
<1>15. \A i : i \in more \cup Places(w) <=> i \in seen \cup Places(q) \cup M
  <2>1. ASSUME NEW i \in Places(w) PROVE i \in Places(q) \cup M
    <3>1. PICK m \in 1 .. Len(w) : i = w[m].node BY DEF Places
    <3>2. CASE m \in 1 .. b BY <1>2, <1>12, <3>1, <3>2
    <3>3. ASSUME NEW n \in 1 .. k, m = b + n PROVE i \in M BY <1>0, <1>2, <3>1, <3>3
    <3> QED BY <1>3, <3>2, <3>3
  <2>2. ASSUME NEW i \in Places(q), i # p PROVE i \in Places(w)
    <3>1. PICK m \in 1 .. Len(q) : i = q[m].node BY DEF Places
    <3>2. m \in 1 .. b BY <1>1, <2>2, <3>1
    <3>3. m \in 1 .. Len(w) BY <1>1, <1>2, <3>2
    <3> QED BY <1>2, <3>1, <3>2, <3>3 DEF Places
  <2>3. ASSUME NEW i \in M PROVE i \in Places(w)
    <3>1. PICK n \in 1 .. k : kids[n] = i BY <1>0
    <3>2. b + n \in 1 .. Len(w) BY <1>1, <1>2
    <3>3. w[b + n].node = i BY <1>2, <3>1
    <3> QED BY <3>2, <3>3 DEF Places
  <2> QED BY <1>6, <2>1, <2>2, <2>3
<1>16. \A i \in 1 .. Len(d) : i \in more \cup Places(w) <=> i = 1 \/ d[i].parent \in more
  BY <1>4, <1>8, <1>9, <1>15
<1>17. \A i \in more : Passed(d, i) BY <1>4
<1> HIDE DEF more
<1>18. Seen(d, w, c + 1, more) BY <1>11, <1>13, <1>14, <1>16, <1>17 DEF Seen
<1> QED BY <1>18 DEF more

\* With nothing left on the stack the whole document was looked at.
LEMMA SeenAll ==
  ASSUME NEW d, Rooted(d), NEW c, NEW seen, Seen(d, <<>>, c, seen), c <= MaxNodes
  PROVE  FitsLimits(d)
<1>1. Len(d) \in Nat /\ DOMAIN d = 1 .. Len(d) BY DEF Rooted
<1>2. /\ seen \subseteq 1 .. Len(d) /\ Cardinality(seen) = c /\ \A i \in seen : Passed(d, i)
      /\ \A i \in 1 .. Len(d) : i \in seen <=> i = 1 \/ d[i].parent \in seen
  <2>1. Places(<<>>) = {} BY DEF Places
  <2> QED BY <2>1 DEF Seen
<1>3. seen = 1 .. Len(d)
  <2> DEFINE S == (1 .. Len(d)) \ seen
  <2> SUFFICES ASSUME S # {} PROVE FALSE BY <1>2
  <2>1. PICK i \in S : \A j \in S : i <= j
    <3>1. S \subseteq Nat OBVIOUS
    <3> HIDE DEF S
    <3> QED BY <3>1, LeastNatural
  <2>2. i \in 1 .. Len(d) /\ i # 1 /\ d[i].parent \notin seen BY <1>2, <2>1
  <2>3. d[i].parent \in 0 .. i - 1 /\ d[i].parent # 0 BY <2>2 DEF Rooted
  <2>4. d[i].parent \in S /\ ~(i <= d[i].parent) BY <1>1, <2>2, <2>3
  <2> QED BY <2>1, <2>4
<1>4. Len(d) <= MaxNodes
  <2>1. Cardinality(1 .. Len(d)) = Len(d) BY <1>1, FS_Interval
  <2> QED BY <1>2, <1>3, <2>1
<1>5. ASSUME NEW i \in 1 .. Len(d), d[i].key # NoKey PROVE KeyBytes[d[i].key] <= MaxKeyBytes
  <2>1. i # 1 /\ d[d[i].parent].kind = "object" /\ d[i].parent \in seen
    BY <1>2, <1>3, <1>5 DEF Rooted
  <2>2. i \in Members(d, d[i].parent) BY <1>1 DEF Members
  <2> QED BY <1>2, <2>1, <2>2 DEF Passed
<1> QED BY <1>1, <1>2, <1>3, <1>4, <1>5 DEF FitsLimits, Passed

LEMMA SixInARow ==
  ASSUME NEW a1, NEW a2, NEW a3, NEW a4, NEW a5, NEW a6, NEW c,
         c = <<a1, a2, a3, a4, a5, a6>>
  PROVE  /\ DOMAIN c = 1 .. 6 /\ c[1] = a1 /\ c[2] = a2 /\ c[3] = a3 /\ c[4] = a4
         /\ c[5] = a5 /\ c[6] = a6
OBVIOUS

\* What the checks of validate_value say of the value on top.
LEMMA FailureMeans ==
  ASSUME NEW v, NEW depth, NEW kids
  PROVE  LET failure == FirstFailure(ValidatorChecks(v, depth, kids))
         IN  \/ /\ failure = "none"
                /\ ~(depth > MaxDepth) /\ checked # MaxNodes
                /\ v.kind = "string" => ~(v.size > MaxStringBytes)
                /\ v.kind = "array" => ~(Cardinality(kids) > MaxArrayElements)
                /\ v.kind = "object" => /\ ~(Cardinality(kids) > MaxObjectMembers)
                                        /\ \A i \in kids : ~(KeyBytes[doc[i].key] > MaxKeyBytes)
             \/ failure = "depth" /\ depth > MaxDepth
             \/ failure = "nodes" /\ checked = MaxNodes
             \/ failure = "string" /\ v.kind = "string" /\ v.size > MaxStringBytes
             \/ failure = "elements" /\ v.kind = "array" /\ Cardinality(kids) > MaxArrayElements
             \/ failure = "members" /\ v.kind = "object" /\ Cardinality(kids) > MaxObjectMembers
             \/ /\ failure = "key" /\ v.kind = "object"
                /\ \E i \in kids : KeyBytes[doc[i].key] > MaxKeyBytes
<1> DEFINE one == depth > MaxDepth
           two == checked = MaxNodes
           three == v.kind = "string" /\ v.size > MaxStringBytes
           four == v.kind = "array" /\ Cardinality(kids) > MaxArrayElements
           five == v.kind = "object" /\ Cardinality(kids) > MaxObjectMembers
           six == v.kind = "object" /\ \E i \in kids : KeyBytes[doc[i].key] > MaxKeyBytes
           c == ValidatorChecks(v, depth, kids)
           failure == FirstFailure(c)
<1>1. c = <<<<one, "depth">>, <<two, "nodes">>, <<three, "string">>, <<four, "elements">>,
            <<five, "members">>, <<six, "key">>>>
  BY DEF ValidatorChecks
<1> HIDE DEF one, two, three, four, five, six, c
<1>2. /\ DOMAIN c = 1 .. 6 /\ c[1] = <<one, "depth">> /\ c[2] = <<two, "nodes">>
      /\ c[3] = <<three, "string">> /\ c[4] = <<four, "elements">>
      /\ c[5] = <<five, "members">> /\ c[6] = <<six, "key">>
  BY <1>1, SixInARow
<1>3. \/ failure = "none" /\ \A i \in 1 .. 6 : ~c[i][1]
      \/ \E i \in 1 .. 6 : failure = c[i][2] /\ c[i][1]
  BY <1>2, FirstFailureDecides
<1> HIDE DEF failure
<1>4. \/ failure = "none" /\ ~one /\ ~two /\ ~three /\ ~four /\ ~five /\ ~six
      \/ failure = "depth" /\ one
      \/ failure = "nodes" /\ two
      \/ failure = "string" /\ three
      \/ failure = "elements" /\ four
      \/ failure = "members" /\ five
      \/ failure = "key" /\ six
  BY <1>2, <1>3
<1> QED BY <1>4 DEF one, two, three, four, five, six, failure, c

\* A value of a document within the limits passes, and the count is within them.
LEMMA NoFalseAlarm ==
  ASSUME Rooted(doc), FitsLimits(doc), NEW q, q # <<>>, Pushed(q), NEW seen,
         Seen(doc, q, checked, seen), NEW p, p = q[Len(q)].node
  PROVE  FirstFailure(ValidatorChecks(doc[p], q[Len(q)].depth, Members(doc, p))) = "none"
<1> DEFINE depth == q[Len(q)].depth
           M == Members(doc, p)
<1>1. Len(doc) \in Nat /\ DOMAIN doc = 1 .. Len(doc) /\ doc \in Seq(Value) BY DEF Rooted
<1>2. Len(q) \in 1 .. Len(q)
  <2>1. q \in Seq([node : Nat, depth : Nat]) BY DEF Pushed
  <2> QED BY <2>1
<1>3. /\ p \in (1 .. Len(doc)) \ seen /\ depth = Depths(doc)[p] /\ seen \subseteq 1 .. Len(doc)
      /\ Cardinality(seen) = checked
  BY <1>2 DEF Seen
<1>4. /\ MaxDepth \in Nat /\ MaxNodes \in Nat /\ MaxObjectMembers \in Nat
      /\ MaxArrayElements \in Nat /\ MaxStringBytes \in Nat /\ MaxKeyBytes \in Nat
      /\ KeyBytes \in [Keys -> Nat]
  BY LimitsAssumption
<1>5. FitsAt(doc, p) /\ Len(doc) <= MaxNodes BY <1>1, <1>3 DEF FitsLimits, FitsAt
<1>6. depth \in Nat
  <2>1. p \in 0 .. Len(doc) BY <1>1, <1>3
  <2> QED BY <1>3, <2>1, DepthsType
<1>7. Cardinality(M) \in Nat /\ M \subseteq 1 .. Len(doc)
  BY <1>1, Ranks DEF Members
<1>8. doc[p].size \in Nat
  <2>1. doc[p] \in Value BY <1>1, <1>3
  <2> QED BY <2>1 DEF Value
<1> HIDE DEF depth
<1>9. ~(depth > MaxDepth) BY <1>3, <1>4, <1>5, <1>6 DEF FitsAt
<1>10. checked # MaxNodes
  <2>1. IsFiniteSet(1 .. Len(doc)) /\ Cardinality(1 .. Len(doc)) = Len(doc)
    <3> DEFINE n == Len(doc)
    <3>1. n \in Nat /\ n \in Int /\ 1 \in Int BY <1>1
    <3> HIDE DEF n
    <3>2. IsFiniteSet(1 .. n) /\ Cardinality(1 .. n) = IF 1 > n THEN 0 ELSE n - 1 + 1
      BY <3>1, FS_Interval
    <3>3. (IF 1 > n THEN 0 ELSE n - 1 + 1) = n BY <3>1
    <3> QED BY <3>2, <3>3 DEF n
  <2>2. IsFiniteSet(seen) BY <1>3, <2>1, FS_Subset
  <2>3. Cardinality(seen \cup {p}) = Cardinality(seen) + 1 BY <1>3, <2>2, FS_AddElement
  <2>4. seen \cup {p} \in SUBSET (1 .. Len(doc)) BY <1>3
  <2>5. Cardinality(seen \cup {p}) <= Len(doc) BY <2>1, <2>4, FS_Subset
  <2>6. Cardinality(seen) \in Nat BY <2>2, FS_CardinalityType
  <2> QED BY <1>1, <1>3, <1>4, <1>5, <2>3, <2>5, <2>6
<1>11. doc[p].kind = "string" => ~(doc[p].size > MaxStringBytes) BY <1>4, <1>5, <1>8 DEF FitsAt
<1>12. doc[p].kind = "array" => ~(Cardinality(M) > MaxArrayElements)
  BY <1>4, <1>5, <1>7 DEF FitsAt
<1>13. doc[p].kind = "object" => ~(Cardinality(M) > MaxObjectMembers)
  BY <1>4, <1>5, <1>7 DEF FitsAt
<1>14. ASSUME doc[p].kind = "object", NEW i \in M PROVE ~(KeyBytes[doc[i].key] > MaxKeyBytes)
  <2>1. i \in 1 .. Len(doc) /\ doc[i].parent = p BY <1>1 DEF Members
  <2>2. i # 1
    <3>1. doc[i].parent = 0 <=> i = 1 BY <2>1 DEF Rooted
    <3> QED BY <1>3, <2>1, <3>1
  <2>3. doc[i].key # NoKey BY <1>14, <2>1, <2>2 DEF Rooted
  <2>4. KeyBytes[doc[i].key] <= MaxKeyBytes BY <1>1, <2>1, <2>3 DEF FitsLimits
  <2>5. KeyBytes[doc[i].key] \in Nat
    <3>1. doc[i] \in Value BY <1>1, <2>1
    <3>2. doc[i].key \in Keys BY <2>3, <3>1 DEF Value
    <3> QED BY <1>4, <3>2
  <2> QED BY <1>4, <2>4, <2>5
<1> HIDE DEF M
<1>15. FirstFailure(ValidatorChecks(doc[p], depth, M)) = "none"
  BY <1>9, <1>10, <1>11, <1>12, <1>13, <1>14, FailureMeans
<1> QED BY <1>15 DEF depth, M
-----------------------------------------------------------------------------
(* Both together.                                                            *)

ValidatorInv ==
  /\ Pushed(pending) /\ checked \in 0 .. MaxNodes
  /\ ruling \in {"idle", "checking", "accepted"} \cup Limits
  /\ ruling = "idle" => checked = 0
  /\ ruling # "idle" => verdict \in {"accepted"} \cup Limits
  /\ ruling = "checking" => \E seen : Seen(doc, pending, checked, seen)
  /\ ValidatorAgrees

JsonInv == ParserInv /\ ValidatorInv

LEMMA ValidatorInvInit == Init => ValidatorInv
<1> SUFFICES ASSUME Init PROVE ValidatorInv OBVIOUS
<1>1. pending = <<>> /\ checked = 0 /\ ruling = "idle" BY DEF Init
<1>2. Pushed(pending) BY <1>1 DEF Pushed
<1>3. checked \in 0 .. MaxNodes BY <1>1, LimitsAssumption
<1> QED BY <1>1, <1>2, <1>3 DEF ValidatorInv, ValidatorAgrees

LEMMA ValidatorInvStart ==
  ASSUME ParserInv, ValidatorInv, StartValidation PROVE ValidatorInv'
<1>1. /\ ruling = "idle" /\ verdict \in {"accepted"} \cup Limits
      /\ pending' = <<[node |-> 1, depth |-> 1]>> /\ ruling' = "checking"
      /\ doc' = doc /\ verdict' = verdict /\ checked' = checked
  BY DEF StartValidation, parserVars
<1>2. Rooted(doc) /\ doc # <<>> /\ Len(doc) \in Nat /\ 1 \in 1 .. Len(doc)
  <2>1. Rooted(doc) /\ doc # <<>> BY <1>1 DEF ParserInv
  <2>2. doc \in Seq(Value) BY <2>1 DEF Rooted
  <2>3. Len(doc) \in Nat /\ Len(doc) # 0 BY <2>1, <2>2
  <2> QED BY <2>1, <2>3
<1> DEFINE q == <<[node |-> 1, depth |-> 1]>>
<1>3. Pushed(q) BY DEF Pushed
<1>4. Len(q) = 1 /\ q[1].node = 1 /\ q[1].depth = 1 OBVIOUS
<1> HIDE DEF q
<1>5. doc[1].parent = 0 /\ \A i \in 1 .. Len(doc) : i = 1 \/ doc[i].parent # 0
  BY <1>2 DEF Rooted
<1>6. Depths(doc)[1] = 1
  <2>1. Depths(doc)[0] = 0 /\ Depths(doc)[1] = 1 + Depths(doc)[doc[1].parent]
    BY <1>2, DepthsStep
  <2> QED BY <1>5, <2>1
<1>7. \A m \in 1 .. Len(q) : m = 1 BY <1>4
<1>8. Places(q) = {1} BY <1>4, <1>7 DEF Places
<1>9. Seen(doc, q, 0, {})
  <2>1. Cardinality({}) = 0 BY FS_EmptySet
  <2>2. \A m \in 1 .. Len(q) : q[m].node \in (1 .. Len(doc)) \ {} /\ q[m].depth = Depths(doc)[q[m].node]
    BY <1>2, <1>4, <1>6, <1>7
  <2>3. \A m, n \in 1 .. Len(q) : q[m].node = q[n].node => m = n BY <1>7
  <2> QED BY <1>8, <2>1, <2>2, <2>3 DEF Seen
<1>10. pending' = q /\ checked = 0 /\ checked \in 0 .. MaxNodes
  BY <1>1 DEF q, ValidatorInv
<1>11. Seen(doc', pending', checked', {}) BY <1>1, <1>9, <1>10
<1> QED BY <1>1, <1>3, <1>10, <1>11 DEF ValidatorInv, ValidatorAgrees

LEMMA ValidatorInvNext ==
  ASSUME ParserInv, ValidatorInv, ValidateNext PROVE ValidatorInv'
<1> DEFINE top == pending[Len(pending)]
           p == top.node
           M == Members(doc, p)
           kids == ChildrenReversed(p)
           failure == FirstFailure(ValidatorChecks(doc[p], top.depth, Children(p)))
           below == SubSeq(pending, 1, Len(pending) - 1)
           pushed == [n \in DOMAIN kids |-> [node |-> kids[n], depth |-> top.depth + 1]]
<1>1. /\ ruling = "checking" /\ pending # <<>> /\ doc' = doc /\ verdict' = verdict
      /\ \/ /\ failure = "none" /\ pending' = below \o pushed
            /\ checked' = checked + 1 /\ ruling' = ruling
         \/ /\ failure # "none" /\ ruling' = failure /\ pending' = pending /\ checked' = checked
  BY DEF ValidateNext, parserVars
<1>2. Rooted(doc) /\ doc \in Seq(Value) BY DEF ParserInv, Rooted
<1>3. Pushed(pending) /\ checked \in 0 .. MaxNodes /\ verdict \in {"accepted"} \cup Limits
  BY <1>1 DEF ValidatorInv
<1>4. PICK seen : Seen(doc, pending, checked, seen) BY <1>1 DEF ValidatorInv
<1>5. /\ Children(p) = M /\ M \subseteq 1 .. Len(doc) /\ Cardinality(M) \in Nat
      /\ Lists(kids, M)
  BY <1>2, ChildrenInOrder
<1> DEFINE k == Cardinality(M)
<1>6. pushed = [n \in 1 .. k |-> [node |-> kids[n], depth |-> top.depth + 1]]
  BY <1>5 DEF Lists
<1>7. Len(pending) \in 1 .. Len(pending)
  <2>1. pending \in Seq([node : Nat, depth : Nat]) BY <1>3 DEF Pushed
  <2> QED BY <1>1, <2>1
<1>8. p \in 1 .. Len(doc) /\ top.depth = Depths(doc)[p] BY <1>4, <1>7 DEF Seen
<1>9. Len(doc) \in Nat BY <1>2
<1> HIDE DEF kids, failure, below, pushed
<1>10. CASE failure = "none"
  <2>1. /\ ~(top.depth > MaxDepth) /\ checked # MaxNodes
        /\ doc[p].kind = "string" => ~(doc[p].size > MaxStringBytes)
        /\ doc[p].kind = "array" => ~(k > MaxArrayElements)
        /\ doc[p].kind = "object" => /\ ~(k > MaxObjectMembers)
                                     /\ \A i \in M : ~(KeyBytes[doc[i].key] > MaxKeyBytes)
    <3> HIDE DEF p, M, k, top
    <3>1. failure = FirstFailure(ValidatorChecks(doc[p], top.depth, M)) BY <1>5 DEF failure
    <3> QED BY <1>10, <3>1, FailureMeans DEF k
  <2>2. Passed(doc, p)
    <3>1. /\ MaxDepth \in Nat /\ MaxNodes \in Nat /\ MaxObjectMembers \in Nat
          /\ MaxArrayElements \in Nat /\ MaxStringBytes \in Nat /\ MaxKeyBytes \in Nat
          /\ KeyBytes \in [Keys -> Nat]
      BY LimitsAssumption
    <3>2. Depths(doc)[p] <= MaxDepth
      <4>1. p \in 0 .. Len(doc) BY <1>8, <1>9
      <4>2. Depths(doc)[p] \in Nat BY <1>2, <4>1, DepthsType
      <4> QED BY <1>8, <2>1, <3>1, <4>2
    <3>3. doc[p] \in Value BY <1>2, <1>8
    <3>4. doc[p].size \in Nat BY <3>3 DEF Value
    <3>5. doc[p].kind = "string" => doc[p].size <= MaxStringBytes BY <2>1, <3>1, <3>4
    <3>6. doc[p].kind = "array" => k <= MaxArrayElements BY <1>5, <2>1, <3>1
    <3>7. doc[p].kind = "object" => k <= MaxObjectMembers BY <1>5, <2>1, <3>1
    <3>8. ASSUME doc[p].kind = "object", NEW i \in M PROVE KeyBytes[doc[i].key] <= MaxKeyBytes
      <4>1. i \in 1 .. Len(doc) /\ doc[i].parent = p BY <1>5 DEF Members
      <4>2. i # 1
        <5>1. doc[i].parent = 0 <=> i = 1 BY <1>2, <4>1 DEF Rooted
        <5>2. p # 0 BY <1>8
        <5> QED BY <4>1, <5>1, <5>2
      <4>3. doc[i].key # NoKey BY <1>2, <3>8, <4>1, <4>2 DEF Rooted
      <4>4. doc[i] \in Value BY <1>2, <4>1
      <4>5. doc[i].key \in Keys BY <4>3, <4>4 DEF Value
      <4>6. ~(KeyBytes[doc[i].key] > MaxKeyBytes) BY <2>1, <3>8
      <4> QED BY <3>1, <4>5, <4>6
    <3> HIDE DEF p
    <3> QED BY <3>2, <3>5, <3>6, <3>7, <3>8 DEF Passed
  <2>3. /\ pending' = below \o pushed /\ checked' = checked + 1 /\ ruling' = "checking"
    BY <1>1, <1>10
  <2>4. \A n \in 1 .. k : kids[n] \in Nat BY <1>5 DEF Lists
  <2>5. StackOf(pending, below \o pushed, kids, k)
    <3>1. StackOf(pending, SubSeq(pending, 1, Len(pending) - 1)
                    \o [n \in 1 .. k |-> [node |-> kids[n], depth |-> pending[Len(pending)].depth + 1]],
                  kids, k)
      <4> HIDE DEF k, top
      <4>1. k \in Nat BY <1>5 DEF k
      <4> QED BY <1>1, <1>3, <2>4, <4>1, StackReplaced
    <3> QED BY <1>6, <3>1 DEF below
  <2>6. checked \in Nat /\ checked + 1 \in 0 .. MaxNodes
    BY <1>3, <2>1, LimitsAssumption
  <2> DEFINE w == below \o pushed
  <2>7. Seen(doc, w, checked + 1, seen \cup {p})
    <3> HIDE DEF w
    <3>1. /\ k \in Nat /\ k = Cardinality(M) /\ M = Members(doc, p)
          /\ p = pending[Len(pending)].node
      BY <1>5
    <3> HIDE DEF M, k, p
    <3>2. Lists(kids, M) BY <1>5 DEF M, p
    <3>3. StackOf(pending, w, kids, k) BY <2>5 DEF w
    <3> QED BY <1>1, <1>2, <1>3, <1>4, <2>2, <2>6, <3>1, <3>2, <3>3, SeenGrows
  <2>8. Pushed(w) BY <2>5 DEF StackOf
  <2>9. pending' = w BY <2>3
  <2> HIDE DEF w
  <2>10. Pushed(pending)' BY <2>8, <2>9 DEF Pushed
  <2>11. Seen(doc', pending', checked', seen \cup {p}) BY <1>1, <2>3, <2>7, <2>9
  <2> QED BY <1>1, <1>3, <2>3, <2>6, <2>10, <2>11 DEF ValidatorInv, ValidatorAgrees
<1>11. CASE failure # "none"
  <2>1. ruling' = failure /\ pending' = pending /\ checked' = checked BY <1>1, <1>11
  <2>2. failure \in Limits
    <3> HIDE DEF p, M, k, top
    <3>1. failure = FirstFailure(ValidatorChecks(doc[p], top.depth, M)) BY <1>5 DEF failure
    <3> QED BY <1>11, <3>1, FailureMeans DEF Limits
  <2>3. verdict # "accepted"
    <3> SUFFICES ASSUME verdict = "accepted" PROVE FALSE OBVIOUS
    <3>1. FitsLimits(doc) BY DEF ParserInv, RefusesExactly
    <3>2. FirstFailure(ValidatorChecks(doc[p], top.depth, M)) = "none"
      BY <1>1, <1>2, <1>3, <1>4, <3>1, NoFalseAlarm
    <3> HIDE DEF p, M, top
    <3> QED BY <1>5, <1>11, <3>2 DEF failure
  <2>4. Pushed(pending)' /\ checked' \in 0 .. MaxNodes BY <1>3, <2>1 DEF Pushed
  <2>5. /\ ruling' \in {"idle", "checking", "accepted"} \cup Limits /\ ruling' # "idle"
        /\ ruling' # "checking" /\ ruling' # "accepted"
    BY <2>1, <2>2 DEF Limits
  <2>6. ValidatorAgrees' BY <1>1, <2>3, <2>5 DEF ValidatorAgrees
  <2> QED BY <1>1, <1>3, <2>4, <2>5, <2>6 DEF ValidatorInv
<1> QED BY <1>10, <1>11

LEMMA ValidatorInvEnds ==
  ASSUME ParserInv, ValidatorInv, ValidationEnds PROVE ValidatorInv'
<1>1. /\ ruling = "checking" /\ pending = <<>> /\ ruling' = "accepted" /\ pending' = pending
      /\ checked' = checked /\ doc' = doc /\ verdict' = verdict
  BY DEF ValidationEnds, parserVars
<1>2. /\ Pushed(pending) /\ checked \in 0 .. MaxNodes /\ verdict \in {"accepted"} \cup Limits
      /\ \E seen : Seen(doc, pending, checked, seen)
  BY <1>1 DEF ValidatorInv
<1>3. Rooted(doc) BY DEF ParserInv
<1>4. checked <= MaxNodes BY <1>2, LimitsAssumption
<1>5. FitsLimits(doc) BY <1>1, <1>2, <1>3, <1>4, SeenAll
<1>6. verdict = "accepted" BY <1>2, <1>5 DEF ParserInv, RefusesExactly
<1>7. ValidatorAgrees' BY <1>1, <1>6 DEF ValidatorAgrees
<1>8. Pushed(pending)' BY <1>1, <1>2 DEF Pushed
<1> QED BY <1>1, <1>2, <1>7, <1>8 DEF ValidatorInv

LEMMA JsonInvKept == JsonInv /\ [Next]_vars => JsonInv'
<1> SUFFICES ASSUME ParserInv, ValidatorInv, [Next]_vars PROVE ParserInv' /\ ValidatorInv'
  BY DEF JsonInv
<1>1. ParserInv' BY ParserInvKept
<1>2. ASSUME ValidatorStep PROVE ValidatorInv'
  BY <1>2, ValidatorInvStart, ValidatorInvNext, ValidatorInvEnds DEF ValidatorStep
<1>3. ASSUME ParserStep PROVE ValidatorInv'
  <2>1. verdict = "parsing" /\ pending' = pending /\ checked' = checked /\ ruling' = ruling
    BY <1>3 DEF ParserStep, ReadValue, CloseContainer, EndOfRecord, SyntaxError, validatorVars
  <2>2. ruling = "idle" BY <2>1 DEF ValidatorInv, Limits
  <2>3. Pushed(pending)' BY <2>1 DEF ValidatorInv, Pushed
  <2> QED BY <1>1, <2>1, <2>2, <2>3 DEF ValidatorInv, ValidatorAgrees
<1>4. ASSUME UNCHANGED vars PROVE ValidatorInv'
  BY <1>4 DEF ValidatorInv, ValidatorAgrees, Pushed, vars, parserVars, validatorVars
<1>5. ValidatorInv' BY <1>2, <1>3, <1>4 DEF Next
<1> QED BY <1>1, <1>5

(* What the frames and the stack of the validator know of the document holds *)
(* in every state.                                                           *)
LEMMA JsonInvariant == Spec => []JsonInv
<1>1. Init => JsonInv BY ParserInvInit, ValidatorInvInit DEF JsonInv
<1> QED BY <1>1, JsonInvKept, PTL DEF Spec

(* While a record is read, however long it is, the parser holds no more than *)
(* the limits allow: ResourceBudget::nodes, the nesting of the visitors, the *)
(* elements and members of each, and the count of validate_value.            *)
THEOREM JsonTypeCorrect == Spec => []TypeOK
<1>1. JsonInv => TypeOK
  BY DEF JsonInv, ParserInv, ParserTypes, Rooted, ValidatorInv, Pushed, TypeOK
<1> QED BY <1>1, JsonInvariant, PTL

(* The parser refuses a document at the first value that breaks a limit or   *)
(* repeats a key, from what the open containers tell it, for any limits.     *)
THEOREM RefusalIsExact == Spec => []RefusesExactly
<1>1. JsonInv => RefusesExactly BY DEF JsonInv, ParserInv
<1> QED BY <1>1, JsonInvariant, PTL

(* validate_value, with its stack and its own count, accepts exactly the     *)
(* documents the streaming parser accepts.                                   *)
THEOREM ValidatorsAgree == Spec => []ValidatorAgrees
<1>1. JsonInv => ValidatorAgrees BY DEF JsonInv, ValidatorInv
<1> QED BY <1>1, JsonInvariant, PTL
=============================================================================
