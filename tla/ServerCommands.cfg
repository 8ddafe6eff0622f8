SPECIFICATION Spec
CONSTANTS
  c1 = c1
  c2 = c2
  c3 = c3
  s1 = s1
  s2 = s2
  NoSession = NoSession
  NoCommand = NoCommand
  NoCause = NoCause
  NoError = NoError
  NoOutcome = NoOutcome
  NoExit = NoExit
  CommandIds <- ThreeCommands
  SessionIds <- OneSession
  Writable <- AnyRecord
  PossibleOutcomes <- MainOutcomes
  MaxCommandRecords = 3
  MaxClientRecords = 4
  MaxUnread = 1
  NoticeCapacity = 1
  EventSlots = 1
  MaxEvents = 0
SYMMETRY AnyOrder
INVARIANTS
  EveryCommandAnswered
  OneVerdictPerCommand
  CancelReasonAcknowledged
  FatalErrorDecides
