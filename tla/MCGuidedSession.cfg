SPECIFICATION FairSpec
CONSTANTS
  None = None
  Transcriber = TRUE
  Speaker = TRUE
  MaxQuestions = 1
  MaxChunks = 0
INVARIANTS TapIsForThePrompt SameEvidence NothingRefused FramesAreWhole
CHECK_DEADLOCK FALSE
PROPERTY RunEnds
