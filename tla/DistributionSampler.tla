------------------------- MODULE DistributionSampler -------------------------
(***************************************************************************)
(* generateMsgSize(distMatrix) of Simulator.py.  distMatrix is the         *)
(* sequence of rows <<cumulativeProbability, size>> read from the size     *)
(* distribution file.  Probabilities are kept in units of 1/Grid and the   *)
(* uniform draw random.random() in [0, 1) as the integer r in 0..Grid-1    *)
(* with r/Grid <= draw < (r+1)/Grid: for a table whose probabilities are   *)
(* multiples of 1/Grid, row[0] > draw holds exactly when row[0] > r, so    *)
(* the discretisation loses nothing.                                       *)
(***************************************************************************)
EXTENDS Integers, Sequences, SequencesExt

CONSTANTS
  Grid,   \* resolution of the probabilities in the table
  None    \* what a Python function returns when it falls off its end

(* the draw random.random() *)
Draws == 0 .. Grid - 1

(* Mutant: row[0] is returned instead of row[1]. *)
GenerateMsgProb(distMatrix, r) ==
  LET i == SelectInSeq(distMatrix, LAMBDA row : row[1] > r)
  IN  IF i = 0 THEN None ELSE distMatrix[i][1]

(* Mutant: row[0] >= randomNumber instead of row[0] > randomNumber. *)
GenerateMsgSizeGE(distMatrix, r) ==
  LET i == SelectInSeq(distMatrix, LAMBDA row : row[1] >= r)
  IN  IF i = 0 THEN None ELSE distMatrix[i][2]

(***************************************************************************)
(* The size of the first row whose cumulative probability exceeds the      *)
(* draw; None when no row does (the for loop ends without a return).       *)
(***************************************************************************)
GenerateMsgSize(distMatrix, r) ==
  LET i == SelectInSeq(distMatrix, LAMBDA row : row[1] > r)
  IN  IF i = 0 THEN None ELSE distMatrix[i][2]


(***************************************************************************)
(* sizeAvg of run(): the mean message size of the table, the sum of size  *)
(* times (cumulativeProbability - prevProb) over the rows.  In units of    *)
(* 1/Grid, i.e. Grid * sizeAvg.  probPerSlot = rho / sizeAvg is the        *)
(* arrival probability that makes the offered load rho.                   *)
(***************************************************************************)
PrevProbOf(distMatrix, i) == IF i = 1 THEN 0 ELSE distMatrix[i - 1][1]

(* Mutant: prevProb is never updated, so every row is weighted by its      *)
(* cumulative probability.                                                 *)
SizeAvgNoPrev(distMatrix) ==
  SumFunction([i \in DOMAIN distMatrix |-> distMatrix[i][2] * distMatrix[i][1]])

SizeAvg(distMatrix) ==
  SumFunction([i \in DOMAIN distMatrix |->
                 distMatrix[i][2] * (distMatrix[i][1] - PrevProbOf(distMatrix, i))])


(***************************************************************************)
(* Reading the size distribution file in __main__.  A line is a record:    *)
(* its first character (line[0]) and its whitespace-separated tokens       *)
(* (line.split()), each token given by the number float() makes of it.    *)
(* A line is kept unless it starts with '#' or is the bare newline, and a  *)
(* kept line becomes the row of its tokens.                                *)
(***************************************************************************)
IsKept(line) == line.first # "#" /\ line.first # "\n"

ReadDistFile(lines) ==
  [i \in 1 .. Len(SelectSeq(lines, IsKept)) |-> SelectSeq(lines, IsKept)[i].fields]

=============================================================================
