CONSTANTS
  MaxFrames = 4
  ForeignFrames <- SecondIsForeign
SPECIFICATION FairSpec
INVARIANTS TypeOK NoLostWakeup ResultsMatchHeader NoUseUnowned
PROPERTIES SamplesStream FrameIsTaken
