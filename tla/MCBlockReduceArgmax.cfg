SPECIFICATION Spec
CONSTANTS
  WarpSize = 2
  Launches <- MCArgmax
  Inputs <- MCFour
  Lowest <- MCLowest
  Highest <- MCHighest
  Exp <- MCExp
CHECK_DEADLOCK FALSE
INVARIANTS
  ArgmaxOfInput
