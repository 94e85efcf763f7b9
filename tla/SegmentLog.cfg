SPECIFICATION Spec
CONSTANTS
  Caller = {c1}
  Body = {b1}
  Time = {1, 2}
  MaxRecords = 3
  MaxEntries = {1, 2}
  SegFaults = {"kill", "write_fail", "prune_fail"}
  Reader = {"cli"}
  BeyondHead = FALSE
INVARIANTS
  
  Covering
  TypeOK
  AckedKept
  NoFork
  
  OnlyBoundaryAnchors
  ReadContiguous
  ReadCurrent
PROPERTIES
  OnlyOldRemoved
