----------------------------- MODULE ChainEntry -----------------------------
(***************************************************************************)
(* The sealed entry and its hash (entry.rs, hash.rs).                      *)
(*                                                                         *)
(* BLAKE3 is taken as an ideal, collision-free hash.  `entry_hash` is a    *)
(* function of the hashed fields and of `prev_hash`, injective in both and *)
(* never equal to the genesis value.  Append is exactly such a function on *)
(* sequences, so a hash is the sequence of the fields of every entry it    *)
(* commits to and the genesis hash is the empty sequence.  "h1 is a prefix *)
(* of h2" then reads "the chain ending in h2 goes through h1".             *)
(*                                                                         *)
(* A body stands for event_type, outcome, actor, instruction_id and        *)
(* payload (clear data and sealed PII); nothing modelled here looks inside *)
(* it.                                                                     *)
(***************************************************************************)
EXTENDS Naturals, Sequences

CONSTANTS Body,   \* contents of a record, after sealing
          Time    \* values now_ms() may return, not necessarily increasing

\* The fields canonical_bytes covers besides prev_hash.
Fields == [seq : Nat, timestamp : Time, body : Body]

Hash == Seq(Fields)

GENESIS_PREV_HASH == << >>

AuditEntry == [seq : Nat, timestamp : Time, body : Body,
               prev_hash : Hash, entry_hash : Hash]

Receipt == [seq : Nat, timestamp : Time, entry_hash : Hash, prev_hash : Hash]

canonical(e) == [seq |-> e.seq, timestamp |-> e.timestamp, body |-> e.body]

\* hash::entry_hash, and AuditEntry::recompute_hash: entry_hash itself is
\* not among the hashed fields.
recompute_hash(e) == Append(e.prev_hash, canonical(e))

\* The entry process() builds, hash included.
Sealed(s, t, b, prev) ==
  [seq |-> s, timestamp |-> t, body |-> b, prev_hash |-> prev,
   entry_hash |-> Append(prev, [seq |-> s, timestamp |-> t, body |-> b])]

ReceiptOf(e) == [seq |-> e.seq, timestamp |-> e.timestamp,
                 entry_hash |-> e.entry_hash, prev_hash |-> e.prev_hash]
=============================================================================
