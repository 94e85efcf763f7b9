SPECIFICATION Spec
CONSTANTS
  KeyId = {k1, k2}
  Thread = {t1, t2}
  MaxKeys = 3
  KeyFaults = {"kill", "write_fail", "remove_fail", "cli_shred"}
SYMMETRY Symmetry
INVARIANTS
  KeyInv
  RecoverInv
  ErasureHolds
  ErasedOnDisk
  SealedRecoverable
  FreshAfterShred
