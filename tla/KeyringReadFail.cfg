SPECIFICATION Spec
CONSTANTS
  KeyId = {k1}
  Thread = {t1, t2}
  MaxKeys = 2
  KeyFaults = {"kill", "read_fail"}
INVARIANTS
  SealedRecoverable
