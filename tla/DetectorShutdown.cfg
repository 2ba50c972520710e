CONSTANTS
  MaxFrames = 1
  ForeignFrames <- NoneForeign
SPECIFICATION FairSpec
PROPERTY ShutdownCompletes
