SPECIFICATION FairSpec
CONSTANTS
  a1 = a1
  a2 = a2
  a3 = a3
  b1 = b1
  b2 = b2
  b3 = b3
  s1 = s1
  s2 = s2
  s3 = s3
  v1 = v1
  Arrays <- MCArrays2
  Views <- NoViews
  Buffers <- MCBuffers3
  Streams <- MCStreams3
  Sizes = {1}
  Values <- MCValues1
  Undef = Undef
  None = None
  Combine <- MCCombine
  Client <- Synchronous
  QueueBound = 1
PROPERTIES
  MemoryReturns
  CallsReturn
