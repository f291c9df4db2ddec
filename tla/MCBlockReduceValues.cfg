SPECIFICATION Spec
CONSTANTS
  WarpSize = 2
  Launches <- MCWhole
  Inputs <- MCTwoFour
  Lowest <- MCLowest
  Highest <- MCHighest
  Exp <- MCExp
CHECK_DEADLOCK FALSE
INVARIANTS
  ValuesAsDocumented
