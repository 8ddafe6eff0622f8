SPECIFICATION FairSpec
CONSTANTS
  Bytes <- AnyByte
  Limit = 2
  MaxInput = 5
CHECK_DEADLOCK FALSE
INVARIANTS
  TypeOK
  FramingIsExact
  LimitIsExact
PROPERTY InputIsRead
