SPECIFICATION Spec
CONSTANTS
  MaxLost = 1
  FramesPerChunk = 2
  MaxLen = 9
  MaxAsyncSteps = 3
  ResponseLen = 1
  ToolOutcomes = {"answered", "refused"}
INVARIANTS
  EndedStreamReleased
CHECK_DEADLOCK FALSE
