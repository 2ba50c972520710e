CONSTANTS
  StallRestartSec = 2
  MaxRebuilds = 2
  WarmupFrames = 2
  CallSeconds = 2
  OutageSeconds = 3
  MaxCrashes = 0
  Faults <- StallOnly
SPECIFICATION FairSpec
PROPERTY PublishesOrExit
