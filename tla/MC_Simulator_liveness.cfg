CONSTANTS
  Steps <- MCStepsLive
  Grid <- MCGrid
  DistMatrix <- MCDistMatrix
  MaxPoisson <- MCMaxPoisson
  FixedDelay <- MCFixedDelay
  MaxSlot <- MCMaxSlotLive
  None = None

SPECIFICATION Spec


PROPERTY Termination

\* run() returns and the analysis ends the process
CHECK_DEADLOCK FALSE
