------------------------ MODULE MC_DistributionSampler ------------------------
(***************************************************************************)
(* generateMsgSize checked over every size table with probabilities in     *)
(* 1/Grid steps: one state per table and draw.  Each step is a fresh call  *)
(* of generateMsgSize on the same table (the arrival loop of run() calls   *)
(* it once per arrival).                                                   *)
(***************************************************************************)
EXTENDS DistributionSampler, FiniteSets

CONSTANTS
  MaxSize,      \* sizes are 1..MaxSize, ascending along the table
  LastProbs     \* cumulative probabilities the last row may carry

VARIABLES table, draw, size

(* Rows <<cumulativeProbability, size>>, both strictly increasing *)
Tables ==
  UNION { { t \in [1 .. n -> (1 .. Grid) \X (1 .. MaxSize)] :
              /\ \A i \in 1 .. n - 1 : t[i][1] < t[i + 1][1] /\ t[i][2] < t[i + 1][2]
              /\ t[n][1] \in LastProbs } :
          n \in 1 .. MaxSize }

Init ==
  /\ table \in Tables
  /\ draw \in Draws
  /\ size = GenerateMsgSize(table, draw)

Sample ==
  /\ \E r \in Draws :
       /\ draw' = r
       /\ size' = GenerateMsgSize(table, r)
  /\ UNCHANGED table

Spec == Init /\ [][Sample]_<<table, draw, size>>

(* The declared sizes of the table *)
DeclaredSizes == {table[i][2] : i \in DOMAIN table}

(***************************************************************************)
(* Reference: the inverse of the cumulative distribution.  The draw falls  *)
(* in [cum(i-1), cum(i)) for exactly one row i of a table ending at 1.0,   *)
(* and that row's size is the sample.                                      *)
(***************************************************************************)
PrevProb(i) == IF i = 1 THEN 0 ELSE table[i - 1][1]

InverseCDF ==
  table[CHOOSE i \in DOMAIN table : PrevProb(i) <= draw /\ draw < table[i][1]][2]

(***************************************************************************)
(* generateMsgSize returns the inverse-CDF sample: the size of the row     *)
(* whose probability interval holds the draw, never a neighbouring row.    *)
(***************************************************************************)
SampleIsInverseCDF == size = InverseCDF

(***************************************************************************)
(* spec 4.1 / 8: the sample is one of the table's declared sizes.  A table *)
(* the input format accepts ("ending near 1.0") may end below 1.0, and     *)
(* nothing in Simulator.py checks that it does not.                        *)
(***************************************************************************)
SampledSizeDeclared == size \in DeclaredSizes


(***************************************************************************)
(* The arrival rate is calibrated to the sampler: sizeAvg, computed from   *)
(* the table in run(), is the mean of what generateMsgSize returns over a  *)
(* uniform draw, so probPerSlot = rho / sizeAvg offers load rho.  It       *)
(* relates the loop over the rows in run() to the strict > of             *)
(* generateMsgSize: a draw on a row boundary must count for the next row.  *)
(***************************************************************************)
MeanIsSizeAvg ==
  SumFunction([r \in Draws |-> GenerateMsgSize(table, r)]) = SizeAvg(table)

=============================================================================
