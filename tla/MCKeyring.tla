----------------------------- MODULE MCKeyring ------------------------------
(* Keyring on small instances.                                             *)
EXTENDS Keyring, TLC

Symmetry == Permutations(Thread) \cup Permutations(KeyId)
=============================================================================
