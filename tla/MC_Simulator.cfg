CONSTANTS
  Steps <- MCSteps
  Grid <- MCGrid
  DistMatrix <- MCDistMatrix
  MaxPoisson <- MCMaxPoisson
  FixedDelay <- MCFixedDelay
  MaxSlot <- MCMaxSlot
  None = None

SPECIFICATION Spec

INVARIANT TypeOK
INVARIANT MassConservation
INVARIANT TxQueueSrptFifo
INVARIANT RxFifo
INVARIANT DepartureLowerBound
INVARIANT AllDelivered

PROPERTY WorkPerSlot

\* run() returns and the analysis ends the process
CHECK_DEADLOCK FALSE
