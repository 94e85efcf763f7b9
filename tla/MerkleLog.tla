------------------------------ MODULE MerkleLog -----------------------------
(***************************************************************************)
(* A log that grows while its operator publishes Merkle anchors and hands  *)
(* out inclusion proofs (merkle.rs; the server's merkle_anchor and         *)
(* merkle_proof_handler; chainlog merkle-anchor, merkle-proof and          *)
(* merkle-verify).                                                         *)
(*                                                                         *)
(* A leaf is an entry hash.  Proofs are taken over the whole log as it is  *)
(* when they are asked for, and so are anchors; a retention prune may have *)
(* cut off its beginning.                                                  *)
(***************************************************************************)
EXTENDS Merkle, Signature

CONSTANT MaxLeaves   \* bound: entries ever appended

ASSUME MaxLeavesAssumption == MaxLeaves \in Nat

VARIABLES log,      \* the leaves: entry_hash of every entry kept
          pruned,   \* entries cut off: log[i] has sequence number pruned + i
          anchor,   \* the last anchor published
          batch,    \* history: the leaves it was computed from
          bundle,   \* the last proof bundle handed out
          proved    \* history: the leaves it was computed from

vars == << log, pruned, anchor, batch, bundle, proved >>

None == [some |-> FALSE]

Init == /\ log = << >> /\ pruned = 0
        /\ anchor = None /\ batch = << >>
        /\ bundle = None /\ proved = << >>

Append1(leaf) ==
  /\ pruned + Len(log) < MaxLeaves
  /\ log' = Append(log, leaf)
  /\ UNCHANGED << pruned, anchor, batch, bundle, proved >>

\* A prune keeps the current segment, so at least one entry.
Prune1 ==
  /\ Len(log) > 1
  /\ log' = Tail(log)
  /\ pruned' = pruned + 1
  /\ UNCHANGED << anchor, batch, bundle, proved >>

\* Mutant of anchor_message: the range is not covered.
anchor_message_NoRange(from_seq, to_seq, count, root) == << "chainlog-merkle-v1", count, root >>

\* The time is left out: nothing checks it.
anchor_message(from_seq, to_seq, count, root) ==
  << "chainlog-merkle-v1", from_seq, to_seq, count, root >>

\* Mutant of SignedAnchor: the last entry is left out of the root.
SignedAnchor_DropsLast(leaves) ==
  LET from == IF leaves = << >> THEN 0 ELSE pruned + 1
      to   == IF leaves = << >> THEN 0 ELSE pruned + Len(leaves)
      root == mth[SubSeq(leaves, 1, Len(leaves) - 1)]
  IN [some |-> TRUE, from_seq |-> from, to_seq |-> to, count |-> Len(leaves), root |-> root,
      public_key |-> "server",
      signature |-> sign_bytes("server", anchor_message(from, to, Len(leaves), root))]

\* build_merkle_anchor: from_seq and to_seq are 0 for an empty log.
SignedAnchor(leaves) ==
  LET from == IF leaves = << >> THEN 0 ELSE pruned + 1
      to   == IF leaves = << >> THEN 0 ELSE pruned + Len(leaves)
  IN [some |-> TRUE, from_seq |-> from, to_seq |-> to, count |-> Len(leaves), root |-> mth[leaves],
      public_key |-> "server",
      signature |-> sign_bytes("server", anchor_message(from, to, Len(leaves), mth[leaves]))]

\* What the server's read_log returns: the log, or nothing after an I/O error.
ReadLog == {log, << >>}

\* GET /v1/merkle-anchor, chainlog merkle-anchor: over every entry read.
PublishAnchor ==
  /\ \E es \in ReadLog : anchor' = SignedAnchor(es) /\ batch' = es
  /\ UNCHANGED << log, pruned, bundle, proved >>

verify_merkle_anchor(a) ==
  verify_signature(a.public_key, anchor_message(a.from_seq, a.to_seq, a.count, a.root), a.signature)

\* The proof for an entry of the log, none for a number that is not in it.
merkle_proof_for_seq(seq) ==
  IF seq - pruned \in DOMAIN log THEN { merkle_proof(log, seq - pruned - 1) } ELSE {}

\* GET /v1/merkle-proof, chainlog merkle-proof: the bundle around it.  (For
\* an entry that was not read there is none.)
MakeProof(seq) ==
  /\ \E p \in merkle_proof_for_seq(seq) :
       bundle' = [some |-> TRUE, seq |-> seq, leaf |-> log[seq - pruned], root |-> mth[log], proof |-> p]
  /\ proved' = log
  /\ UNCHANGED << log, pruned, anchor, batch >>

Next == \/ \E leaf \in Leaf : Append1(leaf)
        \/ Prune1
        \/ PublishAnchor
        \/ \E seq \in 1..MaxLeaves : MakeProof(seq)

Spec == Init /\ [][Next]_vars

\* chainlog merkle-verify with --anchor.
MerkleVerify == /\ verify_merkle_proof(bundle.leaf, bundle.proof, bundle.root)
                /\ verify_merkle_anchor(anchor)
                /\ anchor.root = bundle.root

-----------------------------------------------------------------------------
(* Properties                                                              *)

\* Every bundle handed out proves its leaf under the root it carries, with a
\* path no longer than the depth of the tree ("a compact O(log n) inclusion
\* proof").
BundleVerifies ==
  bundle.some =>
    /\ verify_merkle_proof(bundle.leaf, bundle.proof, bundle.root)
    /\ LET d == Len(bundle.proof.path) IN d > 0 => k_after[d - 1] < bundle.proof.leaf_count
    /\ bundle.proof.leaf_count > 1 => bundle.proof.path # << >>

\* The hashes of all nodes of a tree, each on the way up from some leaf, and
\* the bytes they are hashes of.
Nodes(leaves) ==
  UNION { { Climb(leaves[i], SubSeq(path[leaves][i - 1], 1, n)) : n \in 0..Len(path[leaves][i - 1]) }
          : i \in DOMAIN leaves }

Inner(leaves) == { h[2] : h \in Nodes(leaves) }

\* A proof and what becomes of it when a part is cut off at either end or a
\* side is swapped.
Variants(p) ==
  { [p EXCEPT !.path = SubSeq(p.path, a, b)] : a \in 1..(Len(p.path) + 1), b \in 0..Len(p.path) }
  \cup { [p EXCEPT !.path = [p.path EXCEPT ![i].right = ~@]] : i \in DOMAIN p.path }

\* Nothing but the leaves of the published batch has a proof under its root:
\* not a leaf appended since, nor the bytes of an inner node passed off as a
\* leaf, with the proof handed out or one derived from it (merkle.rs header:
\* domain separation "blocks second-preimage attacks").
OnlyMembersProved ==
  anchor.some /\ bundle.some =>
    \A d \in Leaf \cup Inner(batch), p \in Variants(bundle.proof) :
      verify_merkle_proof(d, p, anchor.root) => \E i \in DOMAIN batch : batch[i] = d

Batches == UNION { [1..n -> Leaf] : n \in 0..MaxLeaves }

\* The root determines the batch, its order and length included: no other log
\* has it ("blocks ... the duplicate-leaf ambiguity of naive Merkle trees").
RootDetermines == anchor.some => \A s \in Batches : mth[s] = anchor.root <=> s = batch

\* A proof goes with an anchor exactly when both were taken over the same
\* entries, whichever came first (README: "checks proof + signed root").  Once the
\* log has grown or was pruned they do not: a proof is always of the whole log.
ProofMatchesAnchor ==
  anchor.some /\ bundle.some => (MerkleVerify <=> proved = batch)

\* Copies of the anchor with another range, count or root.
Edited ==
  { [anchor EXCEPT !.from_seq = n] : n \in 0..MaxLeaves }
  \cup { [anchor EXCEPT !.to_seq = n] : n \in 0..MaxLeaves }
  \cup { [anchor EXCEPT !.count = n] : n \in 0..MaxLeaves }
  \cup { [anchor EXCEPT !.root = mth[log]] }

\* A published anchor verifies, and no copy of it with another range, count or
\* root does: the signature covers them all.
AnchorBinds ==
  anchor.some => \A a \in Edited \cup {anchor} : verify_merkle_anchor(a) <=> a = anchor
=============================================================================
