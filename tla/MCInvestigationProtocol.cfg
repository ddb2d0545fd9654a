SPECIFICATION FairSpec
CONSTANTS
  Ids = {i1, i2, i3, i4}
  None = None
  Session = mine
  Sessions = {mine, other}
  Instants <- MCInstants
  MaxQuestions = 1
  ConnectWait = 1
  UploadWait = 1
  ReplyWait = 1
INVARIANTS DeadlineArmed EvidenceOrdered OfferedTranscriptIsCurrent
PROPERTIES QuestionSettled TerminalIsFinal NoLateAdvance WaitsEnd
CHECK_DEADLOCK FALSE
