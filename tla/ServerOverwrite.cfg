SPECIFICATION Spec
CONSTANTS
  c1 = c1
  c2 = c2
  c3 = c3
  s1 = s1
  s2 = s2
  NoSession = NoSession
  NoCommand = NoCommand
  NoCause = NoCause
  NoError = NoError
  NoOutcome = NoOutcome
  NoExit = NoExit
  CommandIds <- TwoCommands
  SessionIds <- OneSession
  Writable <- CancelsAndErrors
  PossibleOutcomes <- MainOutcomes
  MaxCommandRecords = 3
  MaxClientRecords = 3
  MaxUnread = 1
  NoticeCapacity = 1
  EventSlots = 1
  MaxEvents = 0
INVARIANT CancellationFailureDecides
