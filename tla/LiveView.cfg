CONSTANTS
  MaxFrames = 2
  MaxPumps = 2
  MaxFailures = 1
  TransferTime = 1
  Hasty = FALSE
SPECIFICATION FairSpec
INVARIANTS TypeOK CameraIsRelieved
PROPERTIES FreshWhileStreaming ViewerKeepsStream ViewMoves ShowsInOrder
