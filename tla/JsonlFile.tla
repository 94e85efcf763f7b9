----------------------------- MODULE JsonlFile ------------------------------
(***************************************************************************)
(* The bytes of a JSONL file, at the grain its reader tells apart          *)
(* (store.rs: FileStore::append, read_all).                                *)
(*                                                                         *)
(* A file is a sequence of chunks: the complete JSON text of an entry, a   *)
(* newline, or a torn chunk, the beginning of an entry's JSON text cut     *)
(* before its last byte.  An append writes the text and the newline; a     *)
(* write that stops early leaves a prefix of them.                         *)
(***************************************************************************)
EXTENDS ChainEntry, FiniteSets

Json(e) == [kind |-> "json", entry |-> e]
NewLine == [kind |-> "newline"]
Torn    == [kind |-> "torn"]

Chunk == [kind : {"json"}, entry : AuditEntry] \cup [kind : {"newline", "torn"}]

IsJson(c) == c.kind = "json"

\* serde_json::to_vec(entry) followed by push(b'\n').
Line(e) == << Json(e), NewLine >>

\* What a write of Line(e) that failed half way can leave behind: a cut
\* inside the JSON text, or just before the newline.
PartialLines(e) == { << Torn >>, << Json(e) >> }

\* read_all succeeds: every line is blank or parses as one entry.  A torn
\* text never parses, and neither does a line holding two texts.  The last
\* line needs no newline.
Readable(f) ==
  \A i \in DOMAIN f :
    /\ f[i].kind # "torn"
    /\ IsJson(f[i]) /\ i + 1 \in DOMAIN f => f[i + 1].kind = "newline"

\* The positions of the entries in f, and the n-th of them.
JsonAt(f) == { i \in DOMAIN f : IsJson(f[i]) }
Nth(f, n) == CHOOSE p \in JsonAt(f) : Cardinality({ q \in JsonAt(f) : q <= p }) = n

\* What read_all then returns: the entries in file order.
read_all(f) == [n \in 1..Cardinality(JsonAt(f)) |-> f[Nth(f, n)].entry]

\* The position of the last entry in f (empty for a file without entries).
LastEntry(f) ==
  { i \in DOMAIN f : IsJson(f[i]) /\ \A j \in DOMAIN f : j > i => ~IsJson(f[j]) }

HasEntry(f) == \E i \in DOMAIN f : IsJson(f[i])
=============================================================================
