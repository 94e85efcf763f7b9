SPECIFICATION Spec
CONSTANTS
  Caller = {c1, c2}
  Body = {b1}
  Time = {1}
  MaxRecords = 2
  Faults = {"sync_fail"}
INVARIANTS
  LogVerifies
