------------------------------- MODULE Merkle -------------------------------
(***************************************************************************)
(* RFC 6962 Merkle trees (merkle.rs): root, inclusion proof, verification. *)
(*                                                                         *)
(* BLAKE3 is an ideal hash: the hash of some bytes is the bytes themselves *)
(* under a mark.  The domain prefix 0x00 or 0x01 is part of the bytes.     *)
(***************************************************************************)
EXTENDS Naturals, Sequences

CONSTANT Leaf   \* leaves: entry hashes

blake3(prefix, data) == << prefix, data >>

leaf_hash(data) == blake3("0x00", data)

\* The bytes of a node: its two children's hashes side by side.
NodeBytes(left, right) == << left, right >>

\* Mutant of node_hash: no domain separation.
node_hash_SamePrefix(left, right) == blake3("0x00", NodeBytes(left, right))

node_hash(left, right) == blake3("0x01", NodeBytes(left, right))

\* k after i turns of the loop in split_point.
k_after[i \in Nat] == IF i = 0 THEN 1 ELSE 2 * k_after[i - 1]

\* The loop ends before its first turn with k << 1 >= n.
split_point(n) ==
  k_after[CHOOSE i \in 0..n : /\ ~(2 * k_after[i] < n)
                              /\ \A j \in 0..(i - 1) : 2 * k_after[j] < n]

Left(leaves)  == SubSeq(leaves, 1, split_point(Len(leaves)))

\* Mutant of Right: an odd batch is padded by repeating its last leaf.
Right_Padded(leaves) ==
  LET r == SubSeq(leaves, split_point(Len(leaves)) + 1, Len(leaves))
  IN  IF Len(leaves) % 2 = 1 THEN Append(r, leaves[Len(leaves)]) ELSE r

Right(leaves) == SubSeq(leaves, split_point(Len(leaves)) + 1, Len(leaves))

mth[leaves \in Seq(Leaf)] ==
  CASE Len(leaves) = 0 -> << "empty" >>
    [] Len(leaves) = 1 -> leaf_hash(leaves[1])
    [] OTHER           -> node_hash(mth[Left(leaves)], mth[Right(leaves)])

\* The audit path of each leaf m (counted from 0), nearest sibling first.
path[leaves \in Seq(Leaf)] ==
  [m \in 0..(Len(leaves) - 1) |->
     LET k == split_point(Len(leaves)) IN
     CASE Len(leaves) <= 1 -> << >>
       [] Len(leaves) > 1 /\ m < k ->
            Append(path[Left(leaves)][m], [hash |-> mth[Right(leaves)], right |-> TRUE])
       [] OTHER ->
            Append(path[Right(leaves)][m - k], [hash |-> mth[Left(leaves)], right |-> FALSE])]

\* merkle_proof and merkle_proof_for_seq; index counts from 0.
merkle_proof(leaves, index) ==
  [leaf_index |-> index, leaf_count |-> Len(leaves), path |-> path[leaves][index]]

Parent(node, step) == IF step.right THEN node_hash(node, step.hash)
                                    ELSE node_hash(step.hash, node)

\* The loop of verify_merkle_proof: node after all steps of a path.
Climb(leaf, steps) ==
  LET node[i \in 0..Len(steps)] == IF i = 0 THEN leaf_hash(leaf)
                                            ELSE Parent(node[i - 1], steps[i])
  IN  node[Len(steps)]

\* Mutant of verify_merkle_proof: the last step is not climbed.
verify_merkle_proof_Short(leaf, proof, root) ==
  Climb(leaf, SubSeq(proof.path, 1, Len(proof.path) - 1)) = root

verify_merkle_proof(leaf, proof, root) == Climb(leaf, proof.path) = root
=============================================================================
