SPECIFICATION FairSpec
CONSTANTS
  None = None
  Transcriber = TRUE
  Speaker = TRUE
  MaxChunks = 1
INVARIANTS NothingRefused ShownWordsAreUsed NoSurprise
PROPERTIES CallReturns
CHECK_DEADLOCK FALSE
