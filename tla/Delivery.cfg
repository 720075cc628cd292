SPECIFICATION Spec
CONSTANTS
  Words = {"w"}
  ClearBlanks = 2
  DrainMax = 1
  MaxPieces = 4
  MaxTokens = 2
INVARIANTS
  TypeOK
  AudioOnce
  TextOnce
  ShowsTranscript
  TranscriptComplete
  EndedStreamForgotten
CHECK_DEADLOCK FALSE
