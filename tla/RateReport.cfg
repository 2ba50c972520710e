CONSTANTS
  Interval = 2
  MaxDark = 1
  StepSizes <- BothWays
  MaxMishaps = 2
  Horizon = 8
SPECIFICATION FairSpec
PROPERTIES NeverOverstates RateConverges
