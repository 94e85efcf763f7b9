----------------------------- MODULE SegmentLog -----------------------------
(***************************************************************************)
(* The audit log over a SegmentedStore, while another process prunes the   *)
(* directory (chainlog prune: prune_before, prune_before_timestamp) and    *)
(* another reads it (chainlog verify, or the server's read_log).           *)
(***************************************************************************)
EXTENDS AuditLog, SegmentedStore, Checkpoint

CONSTANTS SegFaults,   \* subset of {"kill", "write_fail", "prune_fail"}
          Reader,      \* subset of {"cli", "server"}
          BeyondHead   \* may --before-seq name a sequence number above the head?

ASSUME SegAssumption == /\ SegFaults \subseteq {"kill", "write_fail", "prune_fail"}
                        /\ Reader \subseteq {"cli", "server"}
                        /\ BeyondHead \in BOOLEAN
                        /\ Time \subseteq Nat

VARIABLES pruner,       \* the pruning process: "idle" or "deleting"
          plist,        \* segments of its listing it has not deleted
          boundary,     \* prune_before's boundary_seq
          cutoff,       \* cutoff_ms, for prune_before_timestamp
          deleted_any,
          anchor,       \* the last anchor a prune returned
          removed,      \* history: entries in the segments deleted
          unanchored,   \* history: a prune deleted and died, and none has
                        \* returned an anchor since
          rd,           \* the reading process
          rlist,        \* segments of its listing it has not read
          rout,         \* entries read so far, or the result
          rfloor        \* history: largest acked seq when the read began

pruneVars == << pruner, plist, boundary, cutoff, deleted_any, anchor, removed, unanchored >>
readVars  == << rd, rlist, rout, rfloor >>
vars      == << engineVars, segVars, pruneVars, readVars >>

\* No cutoff: the prune is by sequence number.
NoCutoff == 0

\* Types; among them that no segment grows beyond the largest max_entries.
TypeOK ==
  /\ EngineTypeOK /\ SegTypeOK
  /\ pruner \in {"idle", "deleting"}
  /\ plist \subseteq Nat /\ boundary \in Nat /\ cutoff \in Nat
  /\ deleted_any \in BOOLEAN
  /\ anchor \in {NoAnchor} \cup [some : {TRUE}, seq : Nat, hash : Hash]
  /\ removed \subseteq AuditEntry
  /\ unanchored \in BOOLEAN
  /\ rd \in {"idle", "ok", "err"} \cup Reader
  /\ rlist \subseteq Nat /\ rout \in Seq(AuditEntry) /\ rfloor \in Nat

Init ==
  /\ EngineInit /\ SegInit
  /\ pruner = "idle" /\ plist = {} /\ boundary = 0 /\ cutoff = NoCutoff
  /\ deleted_any = FALSE /\ anchor = NoAnchor /\ removed = {} /\ unanchored = FALSE
  /\ rd = "idle" /\ rlist = {} /\ rout = << >> /\ rfloor = 0

-----------------------------------------------------------------------------
(* The log's own process                                                   *)

Others == UNCHANGED << pruneVars, readVars >>

CallRecord(c, b) == Record(c, b) /\ UNCHANGED segVars /\ Others
CallReturn(c)    == Return(c) /\ UNCHANGED segVars /\ Others
StartAppend      == (\E t \in Time : BeginAppend(t)) /\ UNCHANGED segVars /\ Others
Rotate           == Appending /\ rotate_to(entry.seq) /\ UNCHANGED engineVars /\ Others
StoreAppend      == AppendOk /\ WriteEntry(entry) /\ Others
AppendError      == "write_fail" \in SegFaults /\ AppendErr /\ AppendFails /\ Others

Open  == (\E t \in SegTail : OpenDir(t) /\ Build(t.seq, t.hash)) /\ Others
Close == Drop /\ CloseDir /\ Others
Crash == "kill" \in SegFaults /\ Kill /\ CloseDir /\ Others

-----------------------------------------------------------------------------
(* chainlog prune                                                          *)

\* The largest boundary an operator who has looked at the log can ask for.
LogHead == LET es == read_all_segmented IN IF es = << >> THEN 0 ELSE es[Len(es)].seq

\* list_segments in prune_before; with one segment it returns at once.
PruneList(b, c) ==
  /\ pruner = "idle"
  /\ Cardinality(list_segments) > 1
  /\ pruner' = "deleting"
  /\ plist' = list_segments
  /\ boundary' = b
  /\ cutoff' = c
  /\ deleted_any' = FALSE
  /\ UNCHANGED << anchor, removed, unanchored >>

\* prune_before(dir, b).
prune_before(b) ==
  /\ PruneList(b, NoCutoff)
  /\ b <= IF BeyondHead THEN LogHead + 1 ELSE LogHead

\* prune_before_timestamp(dir, c): the boundary is the first entry not older
\* than the cutoff.  Entries are only added at the end meanwhile, so what the
\* scan collects is the whole log as it was at one moment.  If every entry is
\* older, nothing happens.
FirstNotOlder(i, es, c) ==
  /\ i \in DOMAIN es /\ es[i].timestamp >= c
  /\ \A j \in 1..(i - 1) : es[j].timestamp < c

prune_before_timestamp(c) ==
  LET es == read_all_segmented IN
  \E i \in DOMAIN es : FirstNotOlder(i, es, c) /\ PruneList(es[i].seq, c)

\* Mutant of Deletable: the last segment of the listing goes too.
Deletable_LastToo(k) == IsFirst(k, plist) /\ k <= boundary

\* Mutant of Deletable: a segment's own first entry is compared.
Deletable_OwnFirst(k) ==
  IsFirst(k, plist) /\ Cardinality(plist) > 1 /\ k < boundary

\* One turn of the loop: segment k goes when the next one starts at or
\* below the boundary.
Deletable(k) ==
  /\ IsFirst(k, plist)
  /\ \E n \in plist : IsFirst(n, plist \ {k}) /\ n <= boundary

PruneDelete ==
  /\ pruner = "deleting"
  /\ \E k \in plist :
       /\ Deletable(k)
       /\ segs' = [j \in DOMAIN segs \ {k} |-> segs[j]]
       /\ removed' = removed \cup Range(segs[k])
       /\ plist' = plist \ {k}
  /\ deleted_any' = TRUE
  /\ UNCHANGED << pruner, boundary, cutoff, anchor, unanchored, max_entries, cur_first, cur_count >>

\* Mutant of NewAnchor: the hash of the first retained entry instead of the
\* one before it.
NewAnchor_OwnHash(k) ==
  IF deleted_any /\ segs[k] # << >> /\ segs[k][1].seq > 1
  THEN SomeAnchor(segs[k][1].seq - 1, segs[k][1].entry_hash)
  ELSE NoAnchor

\* The loop ends.  If anything was deleted the directory is listed again and
\* the anchor taken from the first entry of its first segment.
NewAnchor(k) ==
  IF deleted_any /\ segs[k] # << >> /\ segs[k][1].seq > 1
  THEN SomeAnchor(segs[k][1].seq - 1, segs[k][1].prev_hash)
  ELSE NoAnchor

PruneDone ==
  /\ pruner = "deleting"
  /\ \A k \in plist : ~Deletable(k)
  /\ \E k \in DOMAIN segs :
       /\ IsFirst(k, DOMAIN segs)
       /\ anchor' = IF NewAnchor(k).some THEN NewAnchor(k) ELSE anchor
       /\ unanchored' = (unanchored /\ ~NewAnchor(k).some)
  /\ pruner' = "idle" /\ plist' = {} /\ boundary' = 0 /\ cutoff' = NoCutoff
  /\ deleted_any' = FALSE
  /\ UNCHANGED removed

\* remove_file fails or the process is killed: no anchor is returned.
PruneFails ==
  /\ "prune_fail" \in SegFaults
  /\ pruner = "deleting"
  /\ unanchored' = (unanchored \/ deleted_any)
  /\ pruner' = "idle" /\ plist' = {} /\ boundary' = 0 /\ cutoff' = NoCutoff
  /\ deleted_any' = FALSE
  /\ UNCHANGED << anchor, removed >>

PruneStep ==
  /\ \/ (\E b \in 1..(MaxRecords + 1) : prune_before(b)) /\ UNCHANGED segVars
     \/ (\E c \in Time : prune_before_timestamp(c)) /\ UNCHANGED segVars
     \/ PruneDelete
     \/ PruneDone /\ UNCHANGED segVars
     \/ PruneFails /\ UNCHANGED segVars
  /\ UNCHANGED << engineVars, readVars >>

-----------------------------------------------------------------------------
(* Readers: read_all_segmented, one file at a time                         *)

ReadList(who) ==
  /\ rd \in {"idle", "ok", "err"}
  /\ rd' = who
  /\ rlist' = list_segments
  /\ rout' = << >>
  /\ \E n \in AckedSeqs \cup {0} : MaxAcked(n) /\ rfloor' = n

\* Mutant of ReadNext: a file that is gone is skipped.
ReadNext_SkipsMissing ==
  /\ rd \in Reader
  /\ \E k \in rlist :
       /\ IsFirst(k, rlist)
       /\ rout' = IF k \in DOMAIN segs THEN rout \o segs[k] ELSE rout
       /\ rlist' = rlist \ {k}
  /\ UNCHANGED << rd, rfloor >>

\* The next file of the listing; File::open fails when it is gone.  The CLI
\* reports the error, the server's read_log answers with an empty log.
ReadNext ==
  /\ rd \in Reader
  /\ \E k \in rlist :
       /\ IsFirst(k, rlist)
       /\ \/ /\ k \in DOMAIN segs
             /\ rout' = rout \o segs[k]
             /\ rlist' = rlist \ {k}
             /\ UNCHANGED rd
          \/ /\ k \notin DOMAIN segs
             /\ rout' = << >>
             /\ rlist' = {}
             /\ rd' = IF rd = "server" THEN "ok" ELSE "err"
  /\ UNCHANGED rfloor

ReadDone ==
  /\ rd \in Reader /\ rlist = {}
  /\ rd' = "ok"
  /\ UNCHANGED << rlist, rout, rfloor >>

ReadStep ==
  /\ (\E who \in Reader : ReadList(who)) \/ ReadNext \/ ReadDone
  /\ UNCHANGED << engineVars, segVars, pruneVars >>

-----------------------------------------------------------------------------
Next ==
  \/ \E c \in Caller, b \in Body : CallRecord(c, b)
  \/ \E c \in Caller : CallReturn(c)
  \/ StartAppend \/ Rotate \/ StoreAppend \/ AppendError
  \/ Open \/ Close \/ Crash
  \/ PruneStep \/ ReadStep

Spec == Init /\ [][Next]_vars

-----------------------------------------------------------------------------
(* Properties                                                              *)

\* An acknowledged entry is in the directory until a prune deletes it: the
\* writer never appends to a segment that was deleted under it.
AckedKept ==
  \A r \in acked :
    \/ \E k \in DOMAIN segs : \E e \in Range(segs[k]) : ReceiptOf(e) = r
    \/ \E e \in removed : ReceiptOf(e) = r

\* Once a prune has returned, the surviving log verifies from the anchor it
\* returned (segment.rs header: "The remaining chain then still verifies from
\* that anchor"), and keeps doing so as the log grows.  A prune that died
\* after deleting returned none; the next one that deletes makes up for it.
AnchorVerifies ==
  pruner = "idle" /\ ~unanchored => is_valid(verify_entries_from(anchor, read_all_segmented))

\* Every head the log has had, as the checkpoint the server would have signed.
Checkpoints ==
  { sign("server", 0, GENESIS_PREV_HASH, 0) }
  \cup { sign("server", e.seq, e.entry_hash, e.timestamp) : e \in removed \cup Range(read_all_segmented) }

\* Of all those checkpoints, chainlog verify --anchor accepts the pruned log
\* with the one taken exactly at the cut and with no other (README: "a signed
\* checkpoint taken at that boundary"); the server's verify, which knows no
\* anchor, accepts it only while nothing was cut off.
OnlyBoundaryAnchors ==
  LET es == read_all_segmented IN
  es # << >> =>
    /\ \A cp \in Checkpoints : VerifyWithAnchor(es, cp) <=> cp.seq + 1 = es[1].seq
    /\ is_valid(verify_entries(es)) <=> es[1].seq = 1

\* A deleted segment holds nothing the prune was asked to keep: no entry at
\* or above the boundary, and none as recent as the cutoff, even when the
\* clock ran backwards.
OnlyOldRemoved ==
  [][\A e \in removed' \ removed : /\ e.seq < boundary
                                   /\ cutoff # NoCutoff => e.timestamp < cutoff]_vars

\* A reading of the directory that races with rotations and prunes yields
\* consecutive, correctly linked entries or an error.
ReadContiguous ==
  rd = "ok" => \A i \in 2..Len(rout) : LinkViolations(rout[i - 1], rout[i]) = {}

\* It also has everything that was acknowledged when it began.
ReadCurrent ==
  rd = "ok" /\ rfloor > 0 => rout # << >> /\ rout[Len(rout)].seq >= rfloor


-----------------------------------------------------------------------------
(* The inductive invariant of a directory whose prunes name a boundary the *)
(* log has reached                                                         *)

\* The entries in the directory, and with the pruned ones.
Held     == UNION { Range(segs[k]) : k \in DOMAIN segs }
Recorded == Held \cup removed

\* Within a file the numbers run on from its name.
Numbered ==
  \A k \in DOMAIN segs : k >= 1 /\ \A i \in DOMAIN segs[k] : segs[k][i].seq = k + i - 1

\* Files do not overlap, and each but the first continues another one.  A
\* first file with nothing in it is the one a fresh log begins with.
Adjoining ==
  \A k \in DOMAIN segs :
    /\ \A n \in DOMAIN segs : k < n => k + Len(segs[k]) <= n
    /\ \/ \E e \in Held : e.seq = k - 1
       \/ IsFirst(k, DOMAIN segs) /\ (k = 1 \/ segs[k] # << >>)

\* Everything ever appended is on one chain, the pruned part below the rest.
OneChain ==
  /\ \A e \in Recorded : e.entry_hash = recompute_hash(e) /\ Len(e.entry_hash) = e.seq
  /\ \A e, f \in Recorded : e.seq <= f.seq => IsPrefix(e.entry_hash, f.entry_hash)
  /\ \A e \in removed : \A k \in DOMAIN segs : e.seq < k

\* The writer has the last file open and stands behind the chain's last entry.
AtTail ==
  /\ up => /\ IsLast(cur_first, DOMAIN segs) /\ cur_count = Len(segs[cur_first])
           /\ max_entries \in MaxEntries
           /\ seq + 1 = cur_first + cur_count /\ Len(prev_hash) = seq
           /\ \A e \in Recorded : IsPrefix(e.entry_hash, prev_hash)
  /\ writer = "append" => up /\ \E t \in Time, b \in Body : entry = Sealed(seq + 1, t, b, prev_hash)

\* Receipts, returned or waiting in a reply channel, describe what was appended.
Receipts ==
  /\ \A r \in acked : \E e \in Recorded : ReceiptOf(e) = r
  /\ \A c \in Caller : reply[c].kind = "ok" => \E e \in Recorded : ReceiptOf(e) = reply[c].receipt

\* A prune's listing is the oldest part of the directory, its boundary is not
\* beyond the head, and what lies below the boundary is older than the cutoff.
Pruning ==
  pruner = "deleting" =>
    /\ plist \subseteq DOMAIN segs
    /\ \A k \in DOMAIN segs \ plist : \A j \in plist : j < k
    /\ \E e \in Held : boundary <= e.seq
    /\ cutoff # NoCutoff => \A e \in Held : e.seq < boundary => e.timestamp < cutoff

\* The anchor is where the first file continues from, unless entries were
\* deleted since a prune last returned.
AnchorAt(k) ==
  IF k = 1 THEN anchor = NoAnchor ELSE anchor = SomeAnchor(k - 1, segs[k][1].prev_hash)

Anchored ==
  /\ deleted_any => pruner = "deleting" /\ \A k \in DOMAIN segs : k > 1
  /\ ~unanchored /\ ~deleted_any => \A k \in DOMAIN segs : IsFirst(k, DOMAIN segs) => AnchorAt(k)

\* Before the log was first opened there is nothing.
Fresh == DOMAIN segs = {} => removed = {} /\ anchor = NoAnchor /\ rlist = {}

\* What a reader has is a stretch of the chain, which the next file of its
\* listing continues; files of the listing that are gone are below all others.
Reading ==
  /\ rd = "ok" => rlist = {}
  /\ rd \in Reader \cup {"ok"} =>
       /\ \A i \in DOMAIN rout : rout[i] \in Recorded
       /\ \A i \in 2..Len(rout) : rout[i].seq = rout[i - 1].seq + 1
  /\ rd \in Reader =>
       /\ rout # << >> => \A k \in rlist : IsFirst(k, rlist) => k = rout[Len(rout)].seq + 1
       /\ \A j \in rlist : j \in DOMAIN segs \/ \A k \in DOMAIN segs : j < k
       /\ \A j, k \in rlist : \A n \in DOMAIN segs : j < n /\ n < k => n \in rlist

\* The files, the chain, the writer, the receipts, the pruner, the anchor and
\* the reader agree with each other at every step: append, rotate_to, open,
\* each deletion of a prune and each file of a reading.
SegInv ==
  /\ Numbered /\ Adjoining /\ OneChain /\ AtTail /\ Receipts
  /\ Pruning /\ Anchored /\ Fresh /\ Reading

\* The last file of a reader's listing, if it is still there when its turn
\* comes, brings what was acknowledged when the reading began.
Covering ==
  rd \in Reader \cup {"ok"} /\ rfloor > 0 =>
    /\ rlist = {} => rout # << >> /\ rout[Len(rout)].seq >= rfloor
    /\ \A m \in rlist : IsLast(m, rlist) /\ m \in DOMAIN segs =>
         /\ m + Len(segs[m]) > rfloor
         /\ segs[m] # << >> \/ rout # << >> \/ \E p \in rlist : p < m
=============================================================================
