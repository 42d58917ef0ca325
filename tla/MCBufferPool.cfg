CONSTANTS
  t1 = t1
  t2 = t2
  t3 = t3
  Threads <- MCThreads
  SIZE = 3
  MaxRefs = 3
  MaxStops = 2
SPECIFICATION Spec
SYMMETRY Symmetry
INVARIANTS
  TypeOK
  ExactReferences
  Conservation
  NullOnlyByStop
