CONSTANTS
  StallRestartSec = 5
  MaxRebuilds = 10
  WarmupFrames = 2
  CallSeconds = 2
  OutageSeconds = 79
  MaxCrashes = 1
  Faults <- OutageFaults
SPECIFICATION Spec
INVARIANT RidesOutOutage
