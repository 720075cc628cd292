SPECIFICATION FairSpec
CONSTANTS
  MaxLost = 2
  FramesPerChunk = 2
  MaxLen = 9
  MaxAsyncSteps = 4
  ResponseLen = 2
  ToolOutcomes = {"answered", "refused", "raised"}
INVARIANTS
  TypeOK
  OneWriter
  NoLeftoverResponse
  TimelineAligned
  HeldWhileNeeded
PROPERTIES
  InterruptedResponseDropped
  CallSpec
  CallWindsDown
  FcEnds
  CallExecuted
CHECK_DEADLOCK FALSE
