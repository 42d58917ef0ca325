CONSTANTS
  me = me
  other1 = other1
  other2 = other2
  c1 = c1
  c2 = c2
  o1 = o1
  o2 = o2
  None = None
  Requesters = {c1, c2, o1, o2}
  AgentOf <- MCAgentOf
  Me = me
  Periods = {20, 50}
  MinPeriod = 12
  DefaultRuntime = 40
  TaskPeriod = 10
  TaskRuntime = 4
  InterestPeriod = 50
  InterestRuntime = 2
  HasExternal = FALSE
  MaxInterests = 2
SPECIFICATION FairSpec
CHECK_DEADLOCK FALSE
INVARIANTS
  TypeOK
  PeriodIsGcd
  NothingLeftBehind
PROPERTIES
  UpdatesTakeEffect
  StopReturns
