SPECIFICATION FairSpec
CONSTANTS
  WarpSize = 2
  Launches <- MCLaunches
  Inputs <- MCInputs
  Lowest <- MCLowest
  Highest <- MCHighest
  Exp <- MCExp
CHECK_DEADLOCK FALSE
INVARIANTS
  TypeOK
  RacesInSoftmaxOnly
  SumCorrect
  MeanClose
  ExtremeCorrect
  ArgmaxOfBlock
  Normalised
  AsDocumented
PROPERTIES
  Termination
