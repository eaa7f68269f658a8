CONSTANTS
  Grid = 5
  MaxSize = 4
  LastProbs = {5}
  None = None

SPECIFICATION Spec

INVARIANT SampleIsInverseCDF
INVARIANT MeanIsSizeAvg
