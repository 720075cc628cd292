SPECIFICATION Spec
CONSTANTS
  PromptLen = 1
  MaxAudioFrames = 4
  MaxFcTokens = 2
  SamplesPerFrame = 2
  StallAfterEotc = FALSE
  ForceEotr = FALSE
  TickSizes <- MCTicksPlain
  ResponseLens <- MCResponses
  MaxBuffered = 4
INVARIANT FcBudget
