----------------------------- MODULE Checkpoint -----------------------------
(***************************************************************************)
(* Signed checkpoints (checkpoint.rs) and the two uses chainlog verify     *)
(* makes of them: --checkpoint pins the head of a log, --anchor is the     *)
(* point a pruned log continues from.                                      *)
(***************************************************************************)
EXTENDS Verify, Signature

message(s, h, t) == << "chainlog-checkpoint-v1", s, h, t >>

sign(k, s, h, t) ==
  [seq |-> s, head_hash |-> h, timestamp |-> t, public_key |-> k,
   signature |-> sign_bytes(k, message(s, h, t))]

\* Against a pinned key, and against the key the checkpoint carries.
verify_checkpoint_with(cp, k) ==
  /\ cp.public_key = k
  /\ verify_signature(k, message(cp.seq, cp.head_hash, cp.timestamp), cp.signature)

verify_checkpoint(cp) == verify_checkpoint_with(cp, cp.public_key)

\* Mutant of HeadMatches: a checkpoint of the right length is enough.
HeadMatches_SeqOnly(report, cp) == report.head # << >> /\ report.head[1] = cp.seq

\* The report's head is the checkpoint's; an empty log has none.
HeadMatches(report, cp) == report.head = << cp.seq, cp.head_hash >>

\* chainlog verify LOG --checkpoint CP exits with success.
VerifyWithCheckpoint(es, cp) ==
  /\ is_valid(verify_entries(es))
  /\ verify_checkpoint(cp)
  /\ HeadMatches(verify_entries(es), cp)

\* chainlog verify LOG --anchor CP exits with success.
VerifyWithAnchor(es, cp) ==
  /\ verify_checkpoint(cp)
  /\ is_valid(verify_entries_from(SomeAnchor(cp.seq, cp.head_hash), es))

\* chainlog checkpoint LOG: the head of the entries read, signed.
CheckpointOf(k, es, t) ==
  IF es = << >> THEN sign(k, 0, GENESIS_PREV_HASH, t)
                ELSE sign(k, es[Len(es)].seq, es[Len(es)].entry_hash, t)
=============================================================================
