SPECIFICATION Spec
CONSTANTS
  Caller = {c1}
  Body = {b1}
  Time = {1, 2}
  MaxRecords = 3
  MaxEntries = {1}
  SegFaults = {"kill"}
  Reader = {}
  BeyondHead = TRUE
INVARIANTS
  NoFork
