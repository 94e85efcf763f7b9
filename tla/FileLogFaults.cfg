SPECIFICATION Spec
CONSTANTS
  Caller = {c1, c2}
  Body = {b1, b2}
  Time = {1}
  MaxRecords = 3
  Faults <- All
SYMMETRY Symmetry
INVARIANTS
  Inv
  AckedDurable
  NoFork
  DurableExtends
  RealTimeOrder
PROPERTIES
  KeepsPromise
