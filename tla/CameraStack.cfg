CONSTANTS
  CloseReclaim = 2
  DeadReclaim = 15
  LaunchSeconds = 2
  MaxFaults = 3
SPECIFICATION FairSpec
INVARIANT NeverOutruns
PROPERTY Recovers
