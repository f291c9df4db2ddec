SPECIFICATION Spec
CONSTANTS
  a1 = a1
  a2 = a2
  a3 = a3
  b1 = b1
  b2 = b2
  b3 = b3
  s1 = s1
  s2 = s2
  s3 = s3
  v1 = v1
  Arrays <- MCArrays3
  Views <- MCViews
  Buffers <- MCBuffers3
  Streams <- MCStreams3
  Sizes = {1}
  Values <- MCValues2
  Undef = Undef
  None = None
  Combine <- MCCombine
  Client <- Synchronous
  QueueBound = 1
SYMMETRY Symmetry
INVARIANTS
  TypeOK
  NothingDangles
  NothingLeaks
  FreedOnce
  RaceFree
  NoUseAfterFree
  Coherent
  HostReadsProgramOrder
PROPERTIES
  Refinement
