SPECIFICATION Spec
CONSTANTS
  UpstreamEvents <- MCEvents
  MaxEventBytes = 4
  MaxTotalBytes = 9
  Reserve = 1
  QueueCapacity = 2
  MaxSeq = 5
CHECK_DEADLOCK FALSE
INVARIANT LimitSuppressesLaterEvents
