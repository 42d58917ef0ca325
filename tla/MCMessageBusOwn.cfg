CONSTANTS
  s1 = s1
  worker = worker
  None = None
  Senders = {s1}
  Worker = worker
  PortOf <- MCPortOf
  Destinations = {0}
  Scopes = {"local"}
  Lengths = {1}
  FrameKinds <- PassFrames
  SIZE = 2
  MaxSends = 1
  MaxFrames = 1
SPECIFICATION Spec
CHECK_DEADLOCK FALSE
INVARIANT OwnDataIsOwn
