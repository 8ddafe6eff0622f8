SPECIFICATION FairPathSpec
CONSTANTS
  UpstreamEvents <- MCEvents
  MaxEventBytes = 4
  MaxTotalBytes = 9
  Reserve = 1
  QueueCapacity = 2
  OutputSlots = 1
  MaxSeq = 4
CHECK_DEADLOCK FALSE
INVARIANTS
  TypeOK
  WithinBudget
  GapsMarked
  StdoutNamesEveryGap
  StdoutWithinBudget
PROPERTY TurnEndsDespiteBlockedStdout
