SPECIFICATION Spec
CONSTANTS
  PromptLen = 1
  MaxAudioFrames = 4
  MaxFcTokens = 2
  SamplesPerFrame = 1
  StallAfterEotc = FALSE
  ForceEotr = TRUE
  TickSizes <- MCTicks
  ResponseLens <- MCResponses
  MaxBuffered = 4
INVARIANT CallsAccounted
PROPERTY ResponseBeforeAudio
