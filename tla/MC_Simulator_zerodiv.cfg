CONSTANTS
  Steps <- MCSteps
  Grid <- MCGrid
  DistMatrix <- MCDistMatrix
  MaxPoisson <- MCMaxPoisson
  FixedDelay <- MCFixedDelay
  MaxSlot <- MCMaxSlot
  None = None

SPECIFICATION Spec

INVARIANT NoZeroDivision



