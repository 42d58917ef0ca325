CONSTANTS
  s1 = s1
  worker = worker
  None = None
  Senders = {s1}
  Worker = worker
  PortOf <- MCPortOf
  Destinations = {0}
  Scopes = {"local","external"}
  Lengths = {1}
  FrameKinds <- AllFrames
  SIZE = 1
  MaxSends = 1
  MaxFrames = 2
SPECIFICATION FairSpec
INVARIANT NothingLeaks
CHECK_DEADLOCK FALSE
PROPERTIES
  SendReturns
  BuffersComeBack
  QueuesDrain
  FramesDrain
  UsesPool
