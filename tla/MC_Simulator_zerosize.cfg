CONSTANTS
  Steps <- MCStepsZero
  Grid <- MCGrid
  DistMatrix <- MCDistMatrixZero
  MaxPoisson <- MCMaxPoisson
  FixedDelay <- MCFixedDelay
  MaxSlot <- MCMaxSlotZero
  None = None

SPECIFICATION Spec

PROPERTY Termination

\* run() returns and the analysis ends the process
CHECK_DEADLOCK FALSE
