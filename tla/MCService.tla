----------------------------- MODULE MCService ------------------------------
(* Service on small instances.                                             *)
EXTENDS Service

Mixed == { << "append", "w" >>, << "append", "r" >>, << "verify", "none" >>, << "read", "r" >>,
           << "head", "r" >>, << "verify", "r" >>, << "checkpoint", "r" >> }
=============================================================================
