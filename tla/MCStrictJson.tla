----------------------------- MODULE MCStrictJson ----------------------------
(* Keys and strings on both sides of their limits.                         *)
EXTENDS StrictJson

CONSTANTS ka, kb, kLong

ThreeKeys == {ka, kb, kLong}
BytesOfKey == [k \in ThreeKeys |-> IF k = kLong THEN MaxKeyBytes + 1 ELSE MaxKeyBytes]
AroundTheLimit == {MaxStringBytes, MaxStringBytes + 1}
=============================================================================
