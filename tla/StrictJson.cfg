SPECIFICATION Spec
CONSTANTS
  ka = ka
  kb = kb
  kLong = kLong
  NoKey = NoKey
  Keys <- ThreeKeys
  KeyBytes <- BytesOfKey
  StringSizes <- AroundTheLimit
  MaxDepth = 3
  MaxNodes = 5
  MaxObjectMembers = 2
  MaxArrayElements = 2
  MaxStringBytes = 2
  MaxKeyBytes = 2
CHECK_DEADLOCK FALSE
INVARIANTS
  TypeOK
  RefusesExactly
  ValidatorAgrees
