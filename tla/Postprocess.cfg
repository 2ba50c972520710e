CONSTANTS
  InputSize = 6
  Images <- SquareAndWide
  Anchors = 3
  Boxes <- Chain
  Classes = 2
  Scores = {0, 1, 2}
  Threshold = 0
  IouPercent = 45
SPECIFICATION Spec
INVARIANTS TypeOK NoDuplicates NothingLost NothingInBorder
CHECK_DEADLOCK FALSE
