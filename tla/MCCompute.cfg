SPECIFICATION Spec
CONSTANTS
  Bits32 = 4
  Bits64 = 8
  Limits <- MCLimits
  Devices = {0, 1}
  Ids = {0, 1, 2}
  NotMeasured = NotMeasured
  e1 = e1
  e2 = e2
  e3 = e3
  e4 = e4
  e5 = e5
  e6 = e6
  Calls <- MCCalls
  NoCall = NoCall
  Unwritten = Unwritten
CHECK_DEADLOCK FALSE
INVARIANTS
  TypeOK
  InBounds
  WrittenOnce
  ResultCorrect
  SeedsDiffer
  WalkFindsElement
  PrintRoundTrip
  RowsInPlace
PROPERTIES
  FailsOnlyIf
  PartsOnFailureOnly
