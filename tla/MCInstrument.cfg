SPECIFICATION FairScreenSpec
INVARIANTS ReaderNeverMeetsWriter
PROPERTIES HomeIsDeaf
