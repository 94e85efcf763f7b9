SPECIFICATION SpecPower
CONSTANTS
  KeyId = {k1}
  Thread = {t1}
  MaxKeys = 2
  KeyFaults = {}
INVARIANTS
  ErasureHolds
