CONSTANTS
  StallRestartSec = 2
  MaxRebuilds = 2
  WarmupFrames = 2
  CallSeconds = 2
  OutageSeconds = 3
  MaxCrashes = 2
  Faults <- AllFaults
SPECIFICATION FairSpec
INVARIANTS TypeOK OneThreadOnPipeline ForcedOnlyIfWedged GivesUpUnlessRefused
PROPERTIES ImplementsLife NoWarmupPublished ShutdownTerminates SamplesOrExitUnlessWedged
