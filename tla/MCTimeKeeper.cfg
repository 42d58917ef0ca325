CONSTANTS
  s1 = s1
  None = None
  Senders = {s1}
  Skew = 1
  MaxDelay = 2
  Timeout = 1
  Uninitialized = {0, 9}
  MaxTime = 4
  MaxQueue = 2
SPECIFICATION Spec
INVARIANTS
  TypeOK
  StampsAreClose
  ClaimIsFresh
  AlarmIsDue
