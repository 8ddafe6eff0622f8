SPECIFICATION FairSpec
CONSTANTS
  MaxAttempts = 3
  Contents = {1, 2, 3}
  Unreadable = Unreadable
INVARIANTS
  TypeOK
  HandleMatchesStaged
  AnswerIsCurrent
  ExternalWinsTheCheck
PROPERTIES
  OperationAdvances
  OperationEnds
