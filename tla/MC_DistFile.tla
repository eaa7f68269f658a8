----------------------------- MODULE MC_DistFile -----------------------------
(***************************************************************************)
(* The distribution file read by __main__, over every file of up to        *)
(* MaxLines lines drawn from a comment, an empty line, a line of blanks    *)
(* and two data rows.  Each step appends one more line.                    *)
(***************************************************************************)
EXTENDS DistributionSampler

CONSTANT MaxLines

VARIABLE file

Comment  == [first |-> "#", fields |-> <<>>]
EmptyLn  == [first |-> "\n", fields |-> <<>>]
BlankLn  == [first |-> " ", fields |-> <<>>]   \* "  \n", or "\r\n"
Row(p, s) == [first |-> "0", fields |-> <<p, s>>]

Lines == {Comment, EmptyLn, BlankLn, Row(2, 1), Row(4, 3)}

Init == file = <<>>

AddLine ==
  /\ Len(file) < MaxLines
  /\ \E l \in Lines : file' = Append(file, l)

Spec == Init /\ [][AddLine]_file

(***************************************************************************)
(* Every row read is a (cumulativeProbability, size) pair: run() reads     *)
(* row[0] and row[1] of each, and spec section 6 says blank lines of the   *)
(* file are ignored.                                                       *)
(***************************************************************************)
RowsArePairs == \A i \in DOMAIN ReadDistFile(file) : Len(ReadDistFile(file)[i]) = 2

=============================================================================
