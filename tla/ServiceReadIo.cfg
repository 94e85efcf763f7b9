SPECIFICATION SvcSpec
CONSTANTS
  Caller = {w1, w2}
  Body = {1, 2, 3}
  Time = {1}
  MaxRecords = 3
  Faults = {}
  Requests <- Mixed
  write_token = "w"
  read_token = "r"
INVARIANTS
  ReadsFull
