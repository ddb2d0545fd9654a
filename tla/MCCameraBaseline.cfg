SPECIFICATION CameraFairSpec
CONSTANTS
  Capacity = 3
  BufferCount = 4
  Encodes = 2
  Settle = 1
  Frames = 6
INVARIANTS NoTornFrame NeverStarved EveryFrameAccounted FrameIsOwned PassAccountsForAll
PROPERTIES ShowsLatest BaselineEnds
CHECK_DEADLOCK FALSE
