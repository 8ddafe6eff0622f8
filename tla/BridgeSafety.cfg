SPECIFICATION BridgeSpec
CONSTANTS
  c1 = c1
  c2 = c2
  s1 = s1
  NoSession = NoSession
  NoCommand = NoCommand
  NoCause = NoCause
  NoError = NoError
  NoOutcome = NoOutcome
  NoExit = NoExit
  CommandIds <- TwoCommands
  SessionIds <- OneSession
  Writable <- Cancels
  PossibleOutcomes <- BridgeOutcomes
  MaxCommandRecords = 2
  MaxClientRecords = 2
  MaxUnread = 1
  NoticeCapacity = 1
  EventSlots = 1
  MaxEvents = 3
  HangingCalls = {"exact", "fallback"}
INVARIANTS
  TurnTypeOK
  CompletionIsRecognized
  UncausedCancellationExplained
  ControlCalledOnce
