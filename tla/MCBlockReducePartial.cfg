SPECIFICATION Spec
CONSTANTS
  WarpSize = 2
  Launches <- MCPartial
  Inputs <- MCThree
  Lowest <- MCLowest
  Highest <- MCHighest
  Exp <- MCExp
CHECK_DEADLOCK FALSE
INVARIANTS
  PartialWarpsCount
