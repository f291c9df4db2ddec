SPECIFICATION Spec
CONSTANTS
  o1 = o1
  o2 = o2
  o3 = o3
  c1 = c1
  c2 = c2
  c3 = c3
  c4 = c4
  h1 = h1
  h2 = h2
  h3 = h3
  Objects <- MCObjects
  Cells <- MCCells
  Handles <- MCHandles
  Null = Null
  NoCell = NoCell
SYMMETRY Symmetry
INVARIANTS
  TypeOK
  HeldIsLive
  NoLeak
  SingleOwner
PROPERTIES
  DestroyedOnLastRelease
  Refinement
