----------------------------- MODULE StrictJson -----------------------------
(***************************************************************************)
(* Strict JSON (src/src/strict_json.rs): the streaming parser of client    *)
(* records, which stops at the first value that takes the record over a    *)
(* structural limit or repeats a key, and validate_value, which applies    *)
(* the same limits to a value that is decoded already (the envelope of a   *)
(* snapshot) with an explicit stack instead of recursion.                  *)
(*                                                                         *)
(* The client decides token by token what comes next; nothing bounds the   *)
(* record but the parser.  A document is the sequence of its values in     *)
(* document order, each with its parent (0 for the root), its key in an    *)
(* object, its kind and, for a string, its length; "leaf" is null, a       *)
(* Boolean or a number.  Closing brackets are steps, not values.           *)
(***************************************************************************)
EXTENDS Integers, Sequences, FiniteSets

CONSTANTS
  Keys, NoKey,
  KeyBytes,        \* length of each key
  StringSizes,     \* lengths of strings in a run
  MaxDepth, MaxNodes, MaxObjectMembers, MaxArrayElements, MaxStringBytes,
  MaxKeyBytes      \* ResourceLimits

ASSUME LimitsAssumption ==
  /\ MaxDepth \in Nat \ {0} /\ MaxNodes \in Nat \ {0}
  /\ MaxObjectMembers \in Nat /\ MaxArrayElements \in Nat
  /\ MaxStringBytes \in Nat /\ MaxKeyBytes \in Nat
  /\ StringSizes \subseteq Nat /\ KeyBytes \in [Keys -> Nat]
  /\ NoKey \notin Keys

VARIABLES
  doc,       \* the values read so far, the refused one included
  stack,     \* open containers: the visitors on the call stack
  nodes,     \* ResourceBudget::nodes
  verdict,   \* of the parser
  pending,   \* validate_value: values to look at
  checked,   \* validate_value: nodes
  ruling     \* of validate_value

parserVars == <<doc, stack, nodes, verdict>>
validatorVars == <<pending, checked, ruling>>
vars == <<parserVars, validatorVars>>

Kinds == {"leaf", "string", "array", "object"}
Value == [parent : Nat, key : Keys \cup {NoKey}, kind : Kinds, size : Nat]
Limits == {"depth", "nodes", "members", "elements", "string", "key"}

\* What the client may write next: any value, with a key exactly in an object.
Tokens(inObject) ==
  [key : IF inObject THEN Keys ELSE {NoKey}, kind : Kinds \ {"string"}, size : {0}]
    \cup [key : IF inObject THEN Keys ELSE {NoKey}, kind : {"string"},
          size : StringSizes]

\* The first check that fails decides: <<failed, its name>> in the code's order.
FirstFailure(checks) ==
  LET failing == {i \in DOMAIN checks : checks[i][1]}
  IN  IF failing = {} THEN "none"
      ELSE checks[CHOOSE i \in failing : \A j \in failing : i <= j][2]

Init ==
  /\ doc = <<>> /\ stack = <<>> /\ nodes = 0 /\ verdict = "parsing"
  /\ pending = <<>> /\ checked = 0 /\ ruling = "idle"
-----------------------------------------------------------------------------
(* The parser.  A frame is a visitor that has not returned: its container, *)
(* the values it holds and, in an object, their keys.                      *)

Top == stack[Len(stack)]
Within(kind) == stack # <<>> /\ Top.kind = kind

\* Mutant: a repeated key replaces the member, as in serde_json itself.
MemberChecksLastWins(t) ==
  <<<<Within("object") /\ KeyBytes[t.key] > MaxKeyBytes, "key">>,
    <<Within("object") /\ Top.count >= MaxObjectMembers, "members">>>>

\* visit_map: the bounded key, then the repeated key, then the member count.
MemberChecks(t) ==
  <<<<Within("object") /\ KeyBytes[t.key] > MaxKeyBytes, "key">>,
    <<Within("object") /\ t.key \in Top.keys, "duplicate">>,
    <<Within("object") /\ Top.count >= MaxObjectMembers, "members">>>>

\* visit_seq: at the limit any further element is refused unread.
ElementChecks(t) ==
  <<<<Within("array") /\ Top.count = MaxArrayElements, "elements">>>>

\* Mutant: one node too many is claimed.
ValueChecksOffByOne(t) ==
  <<<<Len(stack) + 1 > MaxDepth, "depth">>,
    <<nodes > MaxNodes, "nodes">>,
    <<t.kind = "string" /\ t.size > MaxStringBytes, "string">>>>

\* StrictValue::deserialize: depth, then the node budget, then the visitor.
ValueChecks(t) ==
  <<<<Len(stack) + 1 > MaxDepth, "depth">>,
    <<nodes >= MaxNodes, "nodes">>,
    <<t.kind = "string" /\ t.size > MaxStringBytes, "string">>>>

Refusal(t) == FirstFailure(MemberChecks(t) \o ElementChecks(t) \o ValueChecks(t))

\* The top frame holds one more value, under this key.
Counted(t) ==
  [i \in DOMAIN stack |->
     IF i < Len(stack) THEN stack[i]
     ELSE [stack[i] EXCEPT !.count = @ + 1, !.keys = @ \cup ({t.key} \ {NoKey})]]

Opened(t, index) ==
  IF t.kind \in {"array", "object"}
  THEN <<[kind |-> t.kind, node |-> index, count |-> 0, keys |-> {}]>> ELSE <<>>

ReadValue ==
  /\ verdict = "parsing" /\ (doc = <<>> \/ stack # <<>>)
  /\ \E t \in Tokens(Within("object")) :
       /\ doc' = Append(doc, [parent |-> IF stack = <<>> THEN 0 ELSE Top.node,
                              key |-> t.key, kind |-> t.kind, size |-> t.size])
       /\ \/ /\ Refusal(t) = "none"
             /\ nodes' = nodes + 1
             /\ stack' = Counted(t) \o Opened(t, Len(doc) + 1)
             /\ UNCHANGED verdict
          \/ /\ Refusal(t) # "none"
             /\ verdict' = Refusal(t)
             /\ nodes' = IF Refusal(t) = "string" THEN nodes + 1 ELSE nodes
             /\ UNCHANGED stack
  /\ UNCHANGED validatorVars

\* The closing bracket: the visitor returns its container.
CloseContainer ==
  /\ verdict = "parsing" /\ stack # <<>>
  /\ stack' = SubSeq(stack, 1, Len(stack) - 1)
  /\ UNCHANGED <<doc, nodes, verdict, validatorVars>>

\* The root is complete and nothing follows it.
EndOfRecord ==
  /\ verdict = "parsing" /\ doc # <<>> /\ stack = <<>>
  /\ verdict' = "accepted"
  /\ UNCHANGED <<doc, stack, nodes, validatorVars>>

\* Anything else: no value, a cut one, trailing data, no JSON at all.
SyntaxError ==
  /\ verdict = "parsing"
  /\ verdict' = "syntax"
  /\ UNCHANGED <<doc, stack, nodes, validatorVars>>
-----------------------------------------------------------------------------
(* validate_value, on the value of the document just read: a document with *)
(* a repeated key or a syntax error is no value.  A refused document is    *)
(* taken as ending, all brackets closed, with the refused value.           *)

Children(parent) == {i \in DOMAIN doc : doc[i].parent = parent}

\* The children of a value, last first: the stack is looked at from its end.
ChildrenReversed(parent) ==
  LET kids == Children(parent)
  IN  [n \in 1 .. Cardinality(kids) |->
         CHOOSE i \in kids : Cardinality({j \in kids : j > i}) = n - 1]

StartValidation ==
  /\ ruling = "idle" /\ verdict \in {"accepted"} \cup Limits
  /\ pending' = <<[node |-> 1, depth |-> 1]>>
  /\ ruling' = "checking"
  /\ UNCHANGED <<parserVars, checked>>

\* Mutant: the keys of members are not looked at.
ValidatorChecksNoKeys(v, depth, kids) ==
  <<<<depth > MaxDepth, "depth">>,
    <<checked = MaxNodes, "nodes">>,
    <<v.kind = "string" /\ v.size > MaxStringBytes, "string">>,
    <<v.kind = "array" /\ Cardinality(kids) > MaxArrayElements, "elements">>,
    <<v.kind = "object" /\ Cardinality(kids) > MaxObjectMembers, "members">>>>

ValidatorChecks(v, depth, kids) ==
  <<<<depth > MaxDepth, "depth">>,
    <<checked = MaxNodes, "nodes">>,
    <<v.kind = "string" /\ v.size > MaxStringBytes, "string">>,
    <<v.kind = "array" /\ Cardinality(kids) > MaxArrayElements, "elements">>,
    <<v.kind = "object" /\ Cardinality(kids) > MaxObjectMembers, "members">>,
    <<v.kind = "object" /\ \E i \in kids : KeyBytes[doc[i].key] > MaxKeyBytes, "key">>>>

\* The last value is taken off the stack, its children are put on it.
ValidateNext ==
  /\ ruling = "checking" /\ pending # <<>>
  /\ LET top     == pending[Len(pending)]
         below   == SubSeq(pending, 1, Len(pending) - 1)
         kids    == ChildrenReversed(top.node)
         failure == FirstFailure(
                      ValidatorChecks(doc[top.node], top.depth, Children(top.node)))
     IN  \/ /\ failure = "none"
            /\ pending' = below \o [n \in DOMAIN kids |->
                                      [node |-> kids[n], depth |-> top.depth + 1]]
            /\ checked' = checked + 1 /\ UNCHANGED ruling
         \/ /\ failure # "none"
            /\ ruling' = failure /\ UNCHANGED <<pending, checked>>
  /\ UNCHANGED parserVars

ValidationEnds ==
  /\ ruling = "checking" /\ pending = <<>>
  /\ ruling' = "accepted"
  /\ UNCHANGED <<parserVars, pending, checked>>
-----------------------------------------------------------------------------
ParserStep == ReadValue \/ CloseContainer \/ EndOfRecord \/ SyntaxError
ValidatorStep == StartValidation \/ ValidateNext \/ ValidationEnds

Next == ParserStep \/ ValidatorStep

Spec == Init /\ [][Next]_vars
-----------------------------------------------------------------------------
(* What the limits mean, of a whole document (docs/spec.md 4.2).           *)

Depths(d) ==
  LET depth[i \in 0 .. Len(d)] == IF i = 0 THEN 0 ELSE 1 + depth[d[i].parent]
  IN  depth

Members(d, parent) == {i \in DOMAIN d : d[i].parent = parent}

FitsLimits(d) ==
  /\ Len(d) <= MaxNodes
  /\ \A i \in DOMAIN d :
       /\ Depths(d)[i] <= MaxDepth
       /\ d[i].kind = "string" => d[i].size <= MaxStringBytes
       /\ d[i].kind = "array" => Cardinality(Members(d, i)) <= MaxArrayElements
       /\ d[i].kind = "object" => Cardinality(Members(d, i)) <= MaxObjectMembers
       /\ d[i].key # NoKey => KeyBytes[d[i].key] <= MaxKeyBytes

KeysUnique(d) ==
  \A i, j \in DOMAIN d :
    i # j /\ d[i].parent = d[j].parent => d[i].key = NoKey \/ d[i].key # d[j].key

Front(d) == SubSeq(d, 1, Len(d) - 1)
-----------------------------------------------------------------------------
(* Properties.                                                             *)

Frames ==
  [kind : {"array", "object"}, node : Nat, count : Nat, keys : SUBSET Keys]

\* The variables keep their types and, while a record is parsed, however long it
\* is, the parser never holds more than the limits allow: values, nested
\* visitors, elements, members.  validate_value counts no further either.
TypeOK ==
  /\ doc \in Seq(Value) /\ stack \in Seq(Frames)
  /\ verdict \in {"parsing", "accepted", "syntax", "duplicate"} \cup Limits
  /\ pending \in Seq([node : Nat, depth : Nat])
  /\ ruling \in {"idle", "checking", "accepted"} \cup Limits
  /\ nodes \in 0 .. MaxNodes /\ checked \in 0 .. MaxNodes
  /\ Len(stack) <= MaxDepth
  /\ \A i \in DOMAIN stack :
       stack[i].count <= IF stack[i].kind = "array" THEN MaxArrayElements
                                                     ELSE MaxObjectMembers

\* The parser refuses a document at the first value that takes it over a limit
\* or repeats a key, never earlier and never later; it accepts no other.
RefusesExactly ==
  /\ verdict \in {"parsing", "accepted"} => FitsLimits(doc) /\ KeysUnique(doc)
  /\ verdict \in Limits =>
       FitsLimits(Front(doc)) /\ KeysUnique(doc) /\ ~FitsLimits(doc)
  /\ verdict = "duplicate" => KeysUnique(Front(doc)) /\ ~KeysUnique(doc)

\* validate_value accepts exactly what the parser would accept: a snapshot that
\* passes it is one a fresh process can parse, and no other is refused.
ValidatorAgrees ==
  ruling \notin {"idle", "checking"} => (ruling = "accepted" <=> verdict = "accepted")
=============================================================================
