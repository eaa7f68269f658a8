CONSTANTS
  Steps <- MCSteps
  Grid <- MCGrid
  DistMatrix <- MCDistMatrix
  MaxPoisson <- MCMaxPoisson
  FixedDelay <- MCFixedDelay
  MaxSlot <- MCMaxSlot
  None = None

SPECIFICATION Spec

PROPERTY TransportRefinement

\* run() returns and the analysis ends the process
CHECK_DEADLOCK FALSE
