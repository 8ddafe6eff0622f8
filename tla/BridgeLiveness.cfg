SPECIFICATION FairBridgeSpec
CONSTANTS
  c1 = c1
  c2 = c2
  s1 = s1
  NoSession = NoSession
  NoCommand = NoCommand
  NoCause = NoCause
  NoError = NoError
  NoOutcome = NoOutcome
  NoExit = NoExit
  CommandIds <- TwoCommands
  SessionIds <- OneSession
  Writable <- CancelsAndMalformed
  PossibleOutcomes <- TwoOutcomes
  MaxCommandRecords = 2
  MaxClientRecords = 2
  MaxUnread = 1
  NoticeCapacity = 1
  EventSlots = 1
  MaxEvents = 1
  HangingCalls = {"exact"}
PROPERTIES
  CancelledTurnSettles
  StoppedProcessEnds
  ExactCancelAnswered
