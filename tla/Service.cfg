SPECIFICATION FairSvcSpec
CONSTANTS
  Caller = {w1, w2}
  Body = {1, 2, 3}
  Time = {1}
  MaxRecords = 3
  Faults = {"kill", "panic", "seal_fail", "write_fail", "read_fail"}
  Requests <- Mixed
  write_token = "w"
  read_token = "r"
INVARIANTS
  CleanInv
  SvcInv
  LogVerifies
  AckedReadable
  HeadsOnChain
  AnsweredDurable
  AppendOnce
  NeverBehind
  ReadsStay
  NoFalseAlarm
  CheckpointPins
PROPERTIES
  CallsEnd
