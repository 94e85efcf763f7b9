----------------------------- MODULE Signature ------------------------------
(***************************************************************************)
(* Ed25519 as the code uses it (checkpoint.rs: sign_bytes,                 *)
(* verify_signature), taken as ideal: a signature is the key that made it  *)
(* and the message, so it verifies for that pair and nothing else.  The    *)
(* messages are length-prefixed field lists that begin with a tag of their *)
(* own, hence tuples here.                                                 *)
(***************************************************************************)
sign_bytes(k, msg) == [key |-> k, msg |-> msg]

verify_signature(k, msg, sig) == sig = [key |-> k, msg |-> msg]
=============================================================================
