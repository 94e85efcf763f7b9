------------------------------ MODULE FileLog -------------------------------
(***************************************************************************)
(* The audit log over a FileStore: the engine of log.rs driving the store  *)
(* of store.rs, with process crashes, power losses, failing writes and     *)
(* fsyncs, and a writer thread that panics.                                *)
(***************************************************************************)
EXTENDS AuditLog, FileStore, Verify, SequencesExt

CONSTANT Faults  \* the faults that may occur

ASSUME FaultsAssumption ==
  Faults \subseteq {"kill", "kill_write", "power", "panic", "seal_fail",
                    "write_fail", "short_write", "sync_fail", "read_fail"}

vars == << engineVars, storeVars >>

Init == EngineInit /\ StoreInit

-----------------------------------------------------------------------------
(* Callers: the store is not involved.                                     *)

CallRecord(c, b) == Record(c, b) /\ UNCHANGED storeVars
CallHead(c)      == HeadCall(c) /\ UNCHANGED storeVars
CallReturn(c)    == Return(c) /\ UNCHANGED storeVars

(* The writer thread: process() with the two system calls of append().     *)

AnswerHead  == WriterHead /\ UNCHANGED storeVars
RefuseSeal  == "seal_fail" \in Faults /\ SealErr /\ UNCHANGED storeVars
Panic       == "panic" \in Faults /\ WriterPanics /\ UNCHANGED storeVars
StartAppend == \E t \in Time : BeginAppend(t) /\ UNCHANGED storeVars
StoreWrite  == Appending /\ WriteLine(entry) /\ UNCHANGED engineVars
StoreSync   == AppendOk /\ Fsync

WriteError      == "write_fail" \in Faults /\ AppendErr /\ WriteFails
ShortWriteError == "short_write" \in Faults /\ AppendErr /\ WriteFailsShort(entry)
SyncError       == "sync_fail" \in Faults /\ AppendErr /\ FsyncFails

WriterStep == \/ AnswerHead \/ RefuseSeal \/ Panic \/ StartAppend \/ StoreWrite \/ StoreSync
              \/ WriteError \/ ShortWriteError \/ SyncError

(* The process.                                                            *)

\* FileStore::open, then Builder::build on the tail it found.
Open == \E t \in read_tail : open(t) /\ Build(t.seq, t.hash)

Close == Drop /\ StoreKill
Crash == "kill" \in Faults /\ Kill /\ StoreKill
Power == "power" \in Faults /\ Forget /\ PowerLoss

\* Killed inside write_all: a part of the line is in the file.
CrashInWrite == "kill_write" \in Faults /\ Appending /\ Kill /\ WriteFailsShort(entry)

Dies == Crash \/ CrashInWrite \/ Power

Next ==
  \/ \E c \in Caller, b \in Body : CallRecord(c, b)
  \/ \E c \in Caller : CallHead(c)
  \/ \E c \in Caller : CallReturn(c)
  \/ WriterStep
  \/ Open \/ Close \/ Dies

Spec == Init /\ [][Next]_vars

-----------------------------------------------------------------------------
(* Properties                                                              *)

\* Types; among them that the writer holds an entry and a caller exactly
\* while it is in append().
TypeOK == EngineTypeOK /\ StoreTypeOK

\* Positions of the file holding the entry a receipt describes.
At(r) == { i \in DOMAIN file : IsJson(file[i]) /\ ReceiptOf(file[i].entry) = r }

\* Every entry record() acknowledged is in the part of the file that
\* survives any crash (log.rs, record: "Blocks until the entry is durably
\* written"), whatever write, fsync or process failed before or since.
AckedDurable == \A r \in acked : \E i \in At(r) : i <= synced

\* A call that starts after another returned a receipt is ordered after it:
\* record() gets a larger sequence number, head() shows at least that one.
RealTimeOrder ==
  \A c \in Caller :
    /\ reply[c].kind = "ok" => reply[c].receipt.seq > floor[c]
    /\ reply[c].kind = "head" => reply[c].head.seq >= floor[c]

\* What a reader of the file gets.
Log == read_all(file)

\* The log file, apart from a line that is just being written, can be read at
\* any moment and the chain in it verifies from genesis (log.rs header: "a
\* gap-free, totally-ordered, unforgeable chain").
LogVerifies == Readable(file) /\ is_valid(verify_entries(Log))

\* Once an entry is acknowledged, reading the log succeeds and returns it.
AckedReadable ==
  \A r \in acked : /\ Readable(file)
                   /\ \E e \in Range(Log) : ReceiptOf(e) = r

\* A head that head() returned (and a checkpoint may have signed) is genesis
\* or an entry of the log.
HeadsOnChain ==
  \A h \in heads : \/ h = [seq |-> 0, hash |-> GENESIS_PREV_HASH]
                   \/ \E i \in DOMAIN file : /\ IsJson(file[i])
                                             /\ file[i].entry.seq = h.seq
                                             /\ file[i].entry.entry_hash = h.hash

\* A log that is not open can be opened.
Reopens == ~up => Readable(file)

\* The promise of AppendOnlyChain: the durable chain is the one ending in the
\* last entry that fsync has made safe.
Durable == SubSeq(file, 1, synced)

LastHash(f) ==
  IF HasEntry(f)
  THEN f[CHOOSE i \in LastEntry(f) : TRUE].entry.entry_hash
  ELSE GENESIS_PREV_HASH

DurableHash == LastHash(Durable)

Promise == INSTANCE AppendOnlyChain WITH chain <- DurableHash,
                                         acks <- { r.entry_hash : r \in acked }

\* The log over a file implements AppendOnlyChain under every fault.
KeepsPromise == Promise!Spec

-----------------------------------------------------------------------------
(* The inductive invariant behind AckedDurable, NoFork and RealTimeOrder   *)

\* Receipts issued so far: returned, or waiting in a reply channel.
Issued == acked \cup { reply[c].receipt : c \in { d \in Caller : reply[d].kind = "ok" } }

\* An entry's number is the length of the chain its hash commits to, and the
\* writer's state and the entry it is appending continue one chain.
Chained ==
  /\ \A i \in DOMAIN file : IsJson(file[i]) => file[i].entry.seq = Len(file[i].entry.entry_hash)
  /\ seq = Len(prev_hash)
  /\ writer = "append" => /\ up
                          /\ entry.seq = seq + 1
                          /\ entry.entry_hash = Append(prev_hash, canonical(entry))

\* Between write_all and sync_all the line in question is the last one.
DirtyLine ==
  dirty => /\ Appending
           /\ Len(file) >= 2
           /\ file[Len(file) - 1] = Json(entry)
           /\ file[Len(file)] = NewLine

\* From position p on, every entry of the file continues the one r describes.
AllExtend(p, r) ==
  \A q \in DOMAIN file : q >= p /\ IsJson(file[q]) => IsPrefix(r.entry_hash, file[q].entry.entry_hash)

\* Every receipt's entry is durable, and nothing behind it leaves its branch.
IssuedAnchored ==
  \A r \in Issued : \E p \in At(r) : p <= synced /\ AllExtend(p, r)

\* The writer continues the branch of every receipt.
WriterExtends == up => \A r \in Issued : IsPrefix(r.entry_hash, prev_hash)

\* A caller is waiting in the channel, being served, answered, or idle: one
\* of the four.
Waiting(c) == call[c] # "idle" /\ reply[c] = NoReply

OnePlace ==
  /\ \A c \in Caller : call[c] = "idle" => reply[c] = NoReply
  /\ \A i \in DOMAIN chan : Waiting(chan[i].caller)
  /\ \A i, j \in DOMAIN chan : chan[i].caller = chan[j].caller => i = j
  /\ writer = "append" => Waiting(cur) /\ \A i \in DOMAIN chan : chan[i].caller # cur

\* What a call saw acknowledged when it began is still acknowledged.
FloorAcked == \A c \in Caller : floor[c] = 0 \/ \E r \in acked : r.seq = floor[c]

\* The part about the file and the writer, and the part about the calls.
ChainInv == Chained /\ DirtyLine /\ IssuedAnchored /\ WriterExtends
CallInv  == OnePlace /\ FloorAcked /\ RealTimeOrder

\* One chain, from the durable file through the writer's state to the entry
\* being appended, carries every receipt, and every call is in one place.
Inv == TypeOK /\ ChainInv /\ CallInv

\* Behind the durable chain's last entry the file, and the writer, only
\* continue it.
DurableExtends ==
  /\ \A q \in DOMAIN file : q > synced /\ IsJson(file[q]) =>
       IsStrictPrefix(DurableHash, file[q].entry.entry_hash)
  /\ up => IsPrefix(DurableHash, prev_hash)

-----------------------------------------------------------------------------
(* The inductive invariant of a log that meets no power loss, no write cut *)
(* short and no failing fsync: behind LogVerifies, AckedReadable and       *)
(* HeadsOnChain                                                            *)

\* The file that holds the lines of es and nothing else.
Written(es) ==
  [i \in 1..(2 * Len(es)) |-> IF i % 2 = 1 THEN Json(es[(i + 1) \div 2]) ELSE NewLine]

\* The entries are numbered from 1 and chained from genesis.
Linked(es) ==
  \A i \in DOMAIN es : /\ es[i].seq = i
                       /\ es[i].entry_hash = recompute_hash(es[i])
                       /\ es[i].prev_hash = IF i = 1 THEN GENESIS_PREV_HASH ELSE es[i - 1].entry_hash

HeadOf(es) == [seq |-> Len(es), hash |-> IF es = << >> THEN GENESIS_PREV_HASH ELSE es[Len(es)].entry_hash]

CleanFile == Log \in Seq(AuditEntry) /\ file = Written(Log) /\ Linked(Log)

\* The writer is at the end of the file, or one entry before it while that
\* entry waits for its fsync.
CleanWriter ==
  /\ up /\ ~dirty => [seq |-> seq, hash |-> prev_hash] = HeadOf(Log)
  /\ dirty => Log # << >> /\ Log[Len(Log)] = entry
  /\ writer = "append" => entry.prev_hash = prev_hash

\* Heads returned, or waiting in a reply channel, are heads the log has had.
HeadKnown(h) ==
  \/ h = [seq |-> 0, hash |-> GENESIS_PREV_HASH]
  \/ \E i \in DOMAIN Log : h = [seq |-> Log[i].seq, hash |-> Log[i].entry_hash]

CleanHeads ==
  /\ \A h \in heads : HeadKnown(h)
  /\ \A c \in Caller : reply[c].kind = "head" => HeadKnown(reply[c].head)

\* Without the faults that damage the file, the whole of it, the writer's
\* state and every head handed out by head() agree on one chain.
CleanInv == CleanFile /\ CleanWriter /\ CleanHeads
=============================================================================
