SPECIFICATION Spec
CONSTANTS
  work = work
  alias = alias
  raw = raw
  sol = sol
  luna = luna
  Names <- ThreeNames
  Relative = Relative
  NotUtf8 <- OnlyRaw
  WorkspaceBytes <- Widths
  Models <- TwoModels
  DefaultModel = sol
  NoModel = NoModel
  Texts = {0, 3}
  NoText = NoText
  Produced <- AroundTheLimits
  NoCheckpoint = NoCheckpoint
  FrameBytes = 1
  FrameNodes = 5
  FrameDepth = 3
  ModelBytes = 1
  ResultBytes = 1
  MaxInputBytes = 12
  MaxOutputBytes = 19
  MaxPromptBytes = 3
  MaxSnapshotBytes = 6
  MaxNodes = 8
  MaxDepth = 6
INVARIANTS
  TypeOK
  PublishedIsResumable
  ExplicitModelRuns
  ResultNeverReplaced
PROPERTIES
  ResumedPathIsReal
  SessionKeepsModelAndPlace
