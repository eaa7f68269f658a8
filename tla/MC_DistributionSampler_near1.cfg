CONSTANTS
  Grid = 5
  MaxSize = 4
  LastProbs = {4, 5}
  None = None

SPECIFICATION Spec

INVARIANT SampledSizeDeclared
