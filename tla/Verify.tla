------------------------------- MODULE Verify -------------------------------
(***************************************************************************)
(* Key-free chain verification (verify.rs).                                *)
(*                                                                         *)
(* A report's violations are a set of [seq, kind]: the wording and the     *)
(* order in which they are pushed are left out.                            *)
(***************************************************************************)
EXTENDS ChainEntry

\* None, or the trusted starting point of a pruned log.
NoAnchor == [some |-> FALSE]
SomeAnchor(s, h) == [some |-> TRUE, seq |-> s, hash |-> h]

ContentViolations(e) ==
  IF recompute_hash(e) # e.entry_hash THEN {"bad_hash"} ELSE {}

\* Mutant of FirstViolations: the anchor is taken for the first entry kept.
FirstViolations_AnchorKept(a, e) ==
  IF a.some
  THEN (IF e.prev_hash # a.hash THEN {"broken_link"} ELSE {})
       \cup (IF e.seq # a.seq THEN {"sequence_gap"} ELSE {})
  ELSE (IF e.prev_hash # GENESIS_PREV_HASH THEN {"bad_genesis"} ELSE {})
       \cup (IF e.seq # 1 THEN {"sequence_gap"} ELSE {})

\* The checks on the first entry, against the anchor or against genesis.
FirstViolations(a, e) ==
  IF a.some
  THEN (IF e.prev_hash # a.hash THEN {"broken_link"} ELSE {})
       \cup (IF e.seq # a.seq + 1 THEN {"sequence_gap"} ELSE {})
  ELSE (IF e.prev_hash # GENESIS_PREV_HASH THEN {"bad_genesis"} ELSE {})
       \cup (IF e.seq # 1 THEN {"sequence_gap"} ELSE {})

\* The checks on an entry against the one before it.
LinkViolations(p, e) ==
  (IF e.prev_hash # p.entry_hash THEN {"broken_link"} ELSE {})
  \cup (IF e.seq # p.seq + 1 THEN {"sequence_gap"} ELSE {})

ViolationsAt(a, es, i) ==
  ContentViolations(es[i])
  \cup IF i = 1 THEN FirstViolations(a, es[1]) ELSE LinkViolations(es[i - 1], es[i])

verify_entries_from(a, es) ==
  [entries_checked |-> Len(es),
   violations |-> UNION { { [seq |-> es[i].seq, kind |-> k] : k \in ViolationsAt(a, es, i) }
                          : i \in DOMAIN es },
   head |-> IF es = << >> THEN << >> ELSE << es[Len(es)].seq, es[Len(es)].entry_hash >>]

verify_entries(es) == verify_entries_from(NoAnchor, es)

is_valid(report) == report.violations = {}
=============================================================================
