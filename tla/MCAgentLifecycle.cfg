CONSTANTS
  Main = main
  Worker = worker
  None = None
  NumComponents = 2
  Interests <- MCInterests
  Asking = {}
  Answering = {2}
  FrameTypes = {"external"}
  SIZE = 2
  MaxSends <- MCMaxSends
  MaxFrames = 1
SPECIFICATION FairSpec
CHECK_DEADLOCK FALSE
INVARIANTS
  TypeOK
  ClaimsAddUp
  LateOnce
  OnlyStarvationBlocks
PROPERTIES
  StopsUnlessStarved
  NicStops
