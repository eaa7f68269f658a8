CONSTANTS
  Steps <- MCSteps
  Grid <- MCGrid
  DistMatrix <- MCDistMatrix
  MaxPoisson <- MCMaxPoissonZero
  FixedDelay <- MCFixedDelay
  MaxSlot <- MCMaxSlot
  None = None

SPECIFICATION Spec

INVARIANT IdealNeverWorse




\* run() returns and the analysis ends the process
CHECK_DEADLOCK FALSE
