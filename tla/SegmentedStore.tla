--------------------------- MODULE SegmentedStore ---------------------------
(***************************************************************************)
(* The rotating store (segment.rs) on a directory it shares with a pruner  *)
(* and with readers in other processes.                                    *)
(*                                                                         *)
(* Every file holds whole lines here: what a cut or duplicated line does   *)
(* to a JSONL file is the subject of FileStore, whose append this one      *)
(* repeats.  The writer's open file may have been unlinked; what it then   *)
(* writes is in no file anyone can open.                                   *)
(***************************************************************************)
EXTENDS Verify, FiniteSets, SequencesExt

CONSTANT MaxEntries  \* the values CHAINLOG_SEGMENT_MAX_ENTRIES may have

\* open() refuses zero.
ASSUME MaxEntriesAssumption == MaxEntries \subseteq Nat \ {0}

VARIABLES segs,         \* the directory: first_seq in the name -> entries
          max_entries,  \* entries per segment, as the running store was opened
          cur_first,    \* the segment the writer has open
          cur_count     \* entries the writer counts in it

segVars == << segs, max_entries, cur_first, cur_count >>

SegTypeOK ==
  /\ segs \in [DOMAIN segs -> Seq(AuditEntry)]
  /\ DOMAIN segs \subseteq Nat /\ IsFiniteSet(DOMAIN segs)
  /\ \A k \in DOMAIN segs : \E m \in MaxEntries : Len(segs[k]) <= m
  /\ max_entries \in MaxEntries \cup {0}
  /\ cur_first \in Nat
  /\ cur_count \in Nat

\* An empty directory.
SegInit == segs = << >> /\ max_entries = 0 /\ cur_first = 0 /\ cur_count = 0

\* list_segments: the files present; the sort by first_seq is in IsFirst and
\* IsLast.
list_segments == DOMAIN segs

IsFirst(k, S) == k \in S /\ \A j \in S : k <= j
IsLast(k, S)  == k \in S /\ \A j \in S : j <= k

\* read_all_segmented: the files one after the other.  Its n-th entry is the
\* one with n - 1 before it, in an earlier file or earlier in the same one.
Places      == UNION { {k} \X DOMAIN segs[k] : k \in DOMAIN segs }
Earlier(p)  == { q \in Places : q[1] < p[1] \/ (q[1] = p[1] /\ q[2] < p[2]) }
NthPlace(n) == CHOOSE p \in Places : Cardinality(Earlier(p)) = n - 1

read_all_segmented ==
  [n \in 1..Cardinality(Places) |-> segs[NthPlace(n)[1]][NthPlace(n)[2]]]

\* OpenOptions::create(true).append(true): an existing file is kept.
CreateFile(k) == [j \in DOMAIN segs \cup {k} |-> IF j \in DOMAIN segs THEN segs[j] ELSE << >>]

\* Mutant of Full: one entry too many.
Full_OffByOne == cur_count > max_entries

\* The segment is full: append() calls rotate_to(entry.seq).
Full == cur_count >= max_entries

rotate_to(first_seq) ==
  /\ Full
  /\ segs' = CreateFile(first_seq)
  /\ cur_first' = first_seq
  /\ cur_count' = 0
  /\ UNCHANGED max_entries

\* append(): the line is written to the open file and fsynced.
WriteEntry(e) ==
  /\ ~Full
  /\ segs' = IF cur_first \in DOMAIN segs
             THEN [segs EXCEPT ![cur_first] = Append(@, e)]
             ELSE segs
  /\ cur_count' = cur_count + 1
  /\ UNCHANGED << max_entries, cur_first >>

\* append() fails, opening the next segment or writing nothing.
AppendFails == UNCHANGED segVars

\* The last entry of the last segment that has one.
LastNonEmpty(k) == IsLast(k, { j \in DOMAIN segs : segs[j] # << >> })

\* Mutant of SegTail: only the last segment is looked at.
SegTail_LastOnly ==
  { IF segs[k] = << >> THEN [seq |-> 0, hash |-> GENESIS_PREV_HASH]
    ELSE [seq |-> segs[k][Len(segs[k])].seq, hash |-> segs[k][Len(segs[k])].entry_hash] :
      k \in { j \in DOMAIN segs : IsLast(j, DOMAIN segs) } }
  \cup IF DOMAIN segs = {} THEN { [seq |-> 0, hash |-> GENESIS_PREV_HASH] } ELSE {}

SegTail ==
  IF \A j \in DOMAIN segs : segs[j] = << >>
  THEN { [seq |-> 0, hash |-> GENESIS_PREV_HASH] }
  ELSE { [seq |-> segs[k][Len(segs[k])].seq, hash |-> segs[k][Len(segs[k])].entry_hash] :
           k \in { j \in DOMAIN segs : LastNonEmpty(j) } }

\* SegmentedStore::open, which finds the tail t: continue the last segment,
\* which may hold more entries than this run of the server allows, or create
\* the first one.
OpenDir(t) ==
  /\ t \in SegTail
  /\ max_entries' \in MaxEntries
  /\ \E k \in DOMAIN segs \cup {1} :
       /\ IF DOMAIN segs = {} THEN k = 1 ELSE IsLast(k, DOMAIN segs)
       /\ segs' = CreateFile(k)
       /\ cur_first' = k
       /\ cur_count' = Len(segs'[k])

\* The process is gone.
CloseDir == max_entries' = 0 /\ cur_first' = 0 /\ cur_count' = 0 /\ UNCHANGED segs
=============================================================================
