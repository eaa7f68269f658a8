CONSTANTS
  Steps <- MCStepsLong
  Grid <- MCGrid
  DistMatrix <- MCDistMatrixLong
  MaxPoisson <- MCMaxPoissonZero
  FixedDelay <- MCFixedDelay
  MaxSlot <- MCMaxSlotLong
  None = None

SPECIFICATION Spec

INVARIANT MassConservation
INVARIANT TxQueueSrptFifo
INVARIANT RxFifo
INVARIANT DepartureLowerBound


\* run() returns and the analysis ends the process
CHECK_DEADLOCK FALSE
