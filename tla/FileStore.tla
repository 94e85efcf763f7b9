----------------------------- MODULE FileStore ------------------------------
(***************************************************************************)
(* The single-file store (store.rs: FileStore) over an operating system    *)
(* that keeps written data in a page cache until fsync.                    *)
(*                                                                         *)
(* A process crash leaves the cache alone.  A power loss keeps everything  *)
(* up to the last successful fsync and some prefix of the rest, possibly   *)
(* cut inside a line.  Assumed of the file system: bytes reach the disk in *)
(* file order, the first fsync of a new file also makes its name durable,  *)
(* and pages a failed fsync could not write stay in the cache.             *)
(***************************************************************************)
EXTENDS JsonlFile

VARIABLES file,    \* the log file as a reader sees it
          synced,  \* number of leading chunks known to be on disk
          dirty    \* append() is between write_all and sync_all

storeVars == << file, synced, dirty >>

StoreTypeOK ==
  /\ file \in Seq(Chunk)
  /\ synced \in 0..Len(file)
  /\ dirty \in BOOLEAN

StoreInit == file = << >> /\ synced = 0 /\ dirty = FALSE

\* append: write_all succeeds (flush does nothing on a File).
WriteLine(e) ==
  /\ ~dirty
  /\ file' = file \o Line(e)
  /\ dirty' = TRUE
  /\ UNCHANGED synced

\* append: write_all fails and has written nothing.
WriteFails ==
  /\ ~dirty
  /\ UNCHANGED storeVars

\* append: write_all ends after a part of the line was written, with an error
\* or because the process is killed.
WriteFailsShort(e) ==
  /\ ~dirty
  /\ \E part \in PartialLines(e) : file' = file \o part
  /\ UNCHANGED << synced, dirty >>

\* Mutant of Fsync: append stops after flush.
Fsync_FlushOnly ==
  /\ dirty
  /\ dirty' = FALSE
  /\ UNCHANGED << file, synced >>

\* append: sync_all succeeds and append returns Ok.
Fsync ==
  /\ dirty
  /\ synced' = Len(file)
  /\ dirty' = FALSE
  /\ UNCHANGED file

\* append: sync_all fails; the line is in the file but append returns Err.
FsyncFails ==
  /\ dirty
  /\ dirty' = FALSE
  /\ UNCHANGED << file, synced >>

\* Mutant of read_tail: the first entry instead of the last.
read_tail_First ==
  IF HasEntry(file)
  THEN { [seq |-> file[i].entry.seq, hash |-> file[i].entry.entry_hash] :
           i \in { j \in DOMAIN file : IsJson(file[j]) /\ \A k \in 1..(j - 1) : ~IsJson(file[k]) } }
  ELSE { [seq |-> 0, hash |-> GENESIS_PREV_HASH] }

\* read_tail: the number and hash of the last entry, as a set of one value.
read_tail ==
  IF HasEntry(file)
  THEN { [seq |-> file[i].entry.seq, hash |-> file[i].entry.entry_hash] : i \in LastEntry(file) }
  ELSE { [seq |-> 0, hash |-> GENESIS_PREV_HASH] }

\* Mutant of open: the file is opened for truncation instead of appending.
open_Truncates(t) ==
  /\ Readable(file)
  /\ t \in read_tail
  /\ file' = << >> /\ synced' = 0
  /\ UNCHANGED dirty

\* FileStore::open: the whole file is read, and must parse.
open(t) ==
  /\ Readable(file)
  /\ t \in read_tail
  /\ UNCHANGED storeVars

\* The process is gone, outside write_all; the page cache is not.
StoreKill == dirty' = FALSE /\ UNCHANGED << file, synced >>

\* What a power loss may leave of the file.
Surviving ==
  { SubSeq(file, 1, k) : k \in synced..Len(file) }
  \cup { Append(SubSeq(file, 1, k), Torn) :
           k \in { j \in synced..(Len(file) - 1) : file[j + 1].kind # "newline" } }

PowerLoss ==
  /\ file' \in Surviving
  /\ synced' = Len(file')
  /\ dirty' = FALSE
=============================================================================
