CONSTANTS
  s1 = s1
  worker = worker
  None = None
  Senders = {s1}
  Worker = worker
  PortOf <- MCPortOf
  Destinations = {0, 3}
  Scopes = {"local"}
  Lengths = {1}
  FrameKinds <- PassFrames
  SIZE = 2
  MaxSends = 2
  MaxFrames = 1
SPECIFICATION Spec
CHECK_DEADLOCK FALSE
INVARIANTS
  TypeOK
  QueuedIntact
  UpdatedNeverNull
  OnlyRivalsConfused
PROPERTIES
  FifoPerProducer
