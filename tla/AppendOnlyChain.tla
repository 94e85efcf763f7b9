-------------------------- MODULE AppendOnlyChain ---------------------------
(***************************************************************************)
(* What the audit log promises its callers, whatever fails underneath:     *)
(* there is one durable chain, it only ever grows, and every acknowledged  *)
(* entry is on it when it is acknowledged, and so from then on.            *)
(*                                                                         *)
(* A chain is identified by the hash of its last entry, and one chain      *)
(* extends another when that hash goes through the other's.                *)
(***************************************************************************)
EXTENDS Sequences, SequencesExt

VARIABLES chain,  \* hash of the last durable entry
          acks    \* hashes of the entries acknowledged so far

Init == chain = << >> /\ acks = {}

\* The chain gains entries; no entry is lost or replaced.
Extend == IsStrictPrefix(chain, chain') /\ UNCHANGED acks

\* One more entry of the chain is acknowledged.
Acknowledge ==
  /\ \E h \in acks' \ acks : IsPrefix(h, chain) /\ acks' = acks \cup {h}
  /\ UNCHANGED chain

Next == Extend \/ Acknowledge

Spec == Init /\ [][Next]_<< chain, acks >>
=============================================================================
