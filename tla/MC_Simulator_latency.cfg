CONSTANTS
  Steps <- MCSteps
  Grid <- MCGrid
  DistMatrix <- MCDistMatrix
  MaxPoisson <- MCMaxPoisson
  FixedDelay <- MCFixedDelayZero
  MaxSlot <- MCMaxSlot
  None = None

SPECIFICATION Spec

INVARIANT MinOneSlotLatency



