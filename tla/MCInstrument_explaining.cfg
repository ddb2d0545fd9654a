SPECIFICATION ScreenSpec
INVARIANTS ExplainingIsTheAgent
