SPECIFICATION Spec
CONSTANTS
  p1 = p1
  p2 = p2
  Producers = {p1, p2}
  MaxSend = 3
  Null = Null
  Segments = {s1, s2, s3}
  SegmentSize = 2
INVARIANT EnqueuedIsReachable
CHECK_DEADLOCK FALSE
