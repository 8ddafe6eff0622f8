SPECIFICATION Spec
CONSTANTS
  c1 = c1
  c2 = c2
  c3 = c3
  s1 = s1
  s2 = s2
  NoSession = NoSession
  NoCommand = NoCommand
  NoCause = NoCause
  NoError = NoError
  NoOutcome = NoOutcome
  NoExit = NoExit
  CommandIds <- TwoCommands
  SessionIds <- TwoSessions
  Writable <- CancelsAndErrors
  PossibleOutcomes <- EveryWayOut
  MaxCommandRecords = 1
  MaxClientRecords = 2
  MaxUnread = 1
  NoticeCapacity = 1
  EventSlots = 2
  MaxEvents = 4
INVARIANTS
  TypeOK
  ExitAgreesWithOutput
  NoSilentGap
PROPERTIES
  RefinesTurnProtocol
