SPECIFICATION FairSpec
CONSTANTS
  Ids = {i1, i2, i3}
  Requests = {r1, r2}
  None = None
  Transcriber = TRUE
  Speaker = TRUE
  MaxQuestions = 1
  MaxChunks = 1
  Wait = 1
INVARIANTS RequestIsFrozen CancelIsLast StreamContiguous AnsweredOnce CompleteHasEvidence
PROPERTIES QuestionSettled SlotIsFreed
CHECK_DEADLOCK FALSE
