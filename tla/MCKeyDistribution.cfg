CONSTANTS
  v1 = v1
  v2 = v2
  None = None
  Garbage = Garbage
  NUM_RSU = 4
  Rsus = {1}
  Vehicles = {v1, v2}
  OwnFrames = FALSE
  MaxMoves = 2
  MaxQueue = 1
SPECIFICATION FairSpec
INVARIANTS
  TypeOK
  AnswersOnlyJoins
  KeysCoverOneMove
PROPERTY EveryVehicleIsMet
