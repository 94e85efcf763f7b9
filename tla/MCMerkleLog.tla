---------------------------- MODULE MCMerkleLog -----------------------------
(* MerkleLog on small instances.                                           *)
EXTENDS MerkleLog

TwoLeaves == { << "a" >>, << "b" >> }
=============================================================================
