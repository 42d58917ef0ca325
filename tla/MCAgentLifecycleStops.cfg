CONSTANTS
  Main = main
  Worker = worker
  None = None
  NumComponents = 2
  Interests <- MCInterests
  Asking = {}
  Answering = {2}
  FrameTypes = {"response"}
  SIZE = 2
  MaxSends <- MCMaxSends
  MaxFrames = 1
SPECIFICATION FairSpec
CHECK_DEADLOCK FALSE
PROPERTY AgentStops
