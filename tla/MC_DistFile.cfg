CONSTANTS
  Grid = 4
  None = None
  MaxLines = 3

SPECIFICATION Spec

INVARIANT RowsArePairs

\* the file has been read to its end
CHECK_DEADLOCK FALSE
