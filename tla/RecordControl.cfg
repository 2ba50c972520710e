CONSTANTS
  Clients = {b1, b2}
  Main = main
  MaxRecorders = 2
  DiskSize = 1
SPECIFICATION FairSpec
INVARIANTS OneOwner SerialRequestsAreSafe
PROPERTY StopIsAnswered
CHECK_DEADLOCK FALSE
