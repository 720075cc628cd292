SPECIFICATION FairSpec
CONSTANTS
  PromptLen = 1
  MaxAudioFrames = 3
  MaxFcTokens = 2
  SamplesPerFrame = 2
  StallAfterEotc = TRUE
  ForceEotr = FALSE
  TickSizes <- MCTicks
  ResponseLens <- MCResponses
  MaxBuffered = 4
INVARIANT TypeOK
INVARIANT TwoClocks
INVARIANT AudioConserved
INVARIANT TurnEndReported
INVARIANT FcBudget
PROPERTY ProtocolSpec
PROPERTY CallReachesAnswer
PROPERTY ResponseInjected
