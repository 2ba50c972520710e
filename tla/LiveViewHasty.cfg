CONSTANTS
  MaxFrames = 2
  MaxPumps = 2
  MaxFailures = 0
  TransferTime = 1
  Hasty = TRUE
SPECIFICATION FairSpec
PROPERTY ViewMoves
