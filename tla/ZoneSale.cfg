SPECIFICATION ZoneSpec
CONSTANTS
  Blocks = {1}
  Geometry <- RowOfSeven
  Unit = 60
  Callers = {c1, c2}
  Quantities = {1, 3}
  Threshold = 2
  MaxAttempts = 2
  TopK = 2
INVARIANT ZoneIsSound
PROPERTY DrawIsAmongBest
PROPERTY StrictLeavesNoOrphan
SYMMETRY ClientSymmetry
