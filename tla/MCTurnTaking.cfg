SPECIFICATION Spec
CONSTANTS
  Threshold = 2
  PadWindow = 2
  PadWindowFirst = 1
  Eou = 2
  EouFirst = 1
  Bou = 2
  MinSpeech = 2
  MinSpeechFirst = 1
  MinSpeechLow = 2
  NoiseReset = 1
  Fallback = 2
  Ratio = 1
  MinTokens = 1
  Redirect <- MCRedirect
  Options <- MCOptions
  Cap = 2
INVARIANT TypeOK
INVARIANT DriverNotAhead
INVARIANT AnswerDue
INVARIANT MaxResponseKept
PROPERTY BargeInHeard
PROPERTY OneForcedTurnPerPause
PROPERTY EouOpensIdleTurn
