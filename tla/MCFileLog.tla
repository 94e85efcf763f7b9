----------------------------- MODULE MCFileLog ------------------------------
(* FileLog on small instances.                                             *)
EXTENDS FileLog, TLC

All == {"kill", "kill_write", "power", "panic", "seal_fail", "write_fail", "short_write", "sync_fail"}

Symmetry == Permutations(Caller) \cup Permutations(Body)
=============================================================================
