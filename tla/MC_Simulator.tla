---------------------------- MODULE MC_Simulator ----------------------------
(***************************************************************************)
(* Simulator instantiated for TLC: four slots of arrivals, a table of      *)
(* size-1 and size-3 messages (half each), fixedDelay = 1 as in            *)
(* Simulator.py and Poisson draws 0..MaxPoisson.  Sizes 1 and 3 are the    *)
(* smallest pair for which a decremented message can tie or pass another.  *)
(***************************************************************************)
EXTENDS Simulator

MCSteps == 4
MCGrid == 4
MCDistMatrix == << <<2, 1>>, <<4, 3>> >>    \* rows 0.5 1 and 1.0 3
MCMaxPoisson == 1
MCFixedDelay == 1
MCFixedDelayZero == 0

(* At most Steps messages of size 3 are sent one packet per slot, each     *)
(* packet is delayed at most FixedDelay + MaxPoisson and leaves rxQueue at *)
(* one per slot: MaxSlot is a bound the drain loops never reach.           *)
MCMaxSlot == 3 * MCSteps * 3 + MCFixedDelay + MCMaxPoisson

(* The liveness run: three slots of arrivals keep the graph small enough   *)
(* for the fairness check.                                                 *)
MCStepsLive == 3
MCMaxSlotLive == 3 * MCStepsLive * 3 + MCFixedDelay + MCMaxPoisson


(* A table with a zero-size row (rows 0.5 0 and 1.0 1): two slots of       *)
(* arrivals are enough for a size-0 message to enter txQueue.              *)
MCDistMatrixZero == << <<2, 0>>, <<4, 1>> >>
MCStepsZero == 2
MCMaxSlotZero == 3 * MCStepsZero * 3 + MCFixedDelay + MCMaxPoisson


(* Fixed delays (no Poisson part): both runs see the same network delay.  *)
MCMaxPoissonZero == 0

(* The larger instance: seven slots of arrivals with sizes 1, 2 and 3      *)
(* (a quarter, a quarter, a half) and fixed delays, so that up to seven    *)
(* messages overlap and three sizes are decremented past each other.       *)
MCStepsLong == 7
MCDistMatrixLong == << <<1, 1>>, <<2, 2>>, <<4, 3>> >>
MCMaxSlotLong == 3 * MCStepsLong * 3 + MCFixedDelay + MCMaxPoissonZero

=============================================================================
