# A TLA+ model of chainlog

chainlog is an append-only, hash-chained audit log: a library (`crates/core`), an
HTTP server around it, a command line tool for auditors and operators, and an
HTTP client. This directory models the parts of it that keep state or compute
something others rely on, checks them with TLC, and proves with TLAPS the safety
properties of the log over a file and over segments, of the service around it, of the keyring and of
Merkle anchors and proofs.

## 1. Inventory

| Component | State | Operations | Modelled in |
|---|---|---|---|
| entry, hash (`entry.rs`, `hash.rs`) | none | canonical encoding, `entry_hash`, `recompute_hash` | `ChainEntry` |
| engine (`log.rs`) | command channel, reply channels, `WriterState.seq`, `prev_hash` | `record`, `head`, writer loop, `build`, drop | `AuditLog` |
| file store (`store.rs`) | one JSONL file, page cache | `open`, `read_tail`, `append` (write, fsync), `read_all` | `JsonlFile`, `FileStore`, `FileLog` |
| segmented store (`segment.rs`) | a directory of files, the open segment and its count | `open`, rotation, `append`, `read_all_segmented`, `prune_before`, `prune_before_timestamp` | `SegmentedStore`, `SegmentLog` |
| verification (`verify.rs`) | none | `verify_entries`, `verify_entries_from` | `Verify` |
| keyring (`keyring.rs`) and sealing (`crypto.rs`) | cache under an `RwLock`, key files | `open`, `ensure`, `get`, `wrap_dek`, `shred`, `seal`, `open` | `Keyring` |
| Merkle anchoring (`merkle.rs`) | none; anchors and proofs live with their holders | root, path, proof verification, anchor | `Merkle`, `MerkleLog` |
| checkpoints (`checkpoint.rs`) | none; checkpoints live with their holders | `sign`, `verify_checkpoint`, `verify_checkpoint_with`, `sign_bytes`, `verify_signature` | `Signature`, `Checkpoint` |
| server | the handles above, tokens, worker threads | handlers of `/v1/records`, `head`, `verify`, `checkpoint`; shutdown | `Service`; key, Merkle and segment handlers in `Keyring`, `MerkleLog`, `SegmentLog` |
| command line | none | `verify`, `checkpoint`, `prune`, `shred`, `merkle-*`, `head`, `inspect` | `Checkpoint`, `SegmentLog`, `Keyring`, `MerkleLog` |
| client | tokens | one request per call, no retry, no timeout | `Service` |
| `MemoryStore`, `LocalKeyProvider` | a vector; a constant key | | no |

**Interactions.** Callers (threads, or the server's handlers) send commands over one
unbounded channel to the writer thread and block on a one-slot reply channel. The
writer seals PII through the key provider, chains and hashes the entry and calls the
store. Readers do not go through the writer: they open the same files, in the same or
in another process. A client's request starts a handler on a worker of the server; the
handler runs to its end there, blocked in `record` or `head`, even if the connection
breaks. `chainlog prune` deletes segment files, and `chainlog shred`
key files, under a server that may be running.

**What is hard.** The order of write, fsync, state change and answer; what is left when
one of them fails or the process or the machine dies between two, or inside a write; a writer
thread that panics under callers that wait for it; resuming from a file
that holds entries nobody acknowledged; deletion of segments under a writer and under
readers; the check-then-act sequences of the keyring around its lock; keys that exist in
two places (cache and file); trees whose size is no power of two; answers that are lost
while what they answer goes on; reads of a file that is being written, and reads that fail; heads and
checkpoints compared with a log that has grown, shrunk or been pruned since. The list, with
the line where each one bites, is `hazards` in `PROJECT.json`.

**What makes each part correct.** Engine and stores: acknowledged entries are durable and
readable, form one chain that verifies, in real-time order; calls return. Pruning:
only what may go goes, the rest verifies from the anchor returned. Readers: a contiguous,
current log or an error. Service: a call appends at most once, what a client was told
stays true in every later answer, verification raises no false alarm, every call ends.
Checkpoints: they fit the log they were taken of and no other. Keyring: shredded keys are gone, all other keys are not, new
data is not sealed under a shredded key. Merkle: exactly the members of a batch have
proofs.

## 2. Modules

    ChainEntry ── JsonlFile ── FileStore ──┐
        │                                  ├── FileLog ── MCFileLog
        ├── AuditLog ──────────────────────┤      └────── Service ── MCService
        │        └───────────────┐         │                 │
        └── Verify ──────────────┼─────────┘                 │
           │    └ Checkpoint ────┼───────────────────────────┘
           └ SegmentedStore ─────┴── SegmentLog ── MCSegmentLog
    Signature ── Checkpoint, MerkleLog     (AppendOnlyChain: what FileLog promises)
    Keyring ── MCKeyring                   Merkle ── MerkleLog ── MCMerkleLog

Proofs: `ChainLemmas`, then `FileLogProofs`, `FileLogClean` about `FileLog`; `ServiceProofs` and
`ServiceAnswers` about `Service`; `SegmentProofs` about `SegmentLog`; `KeyringProofs` about `Keyring`;
`MerkleProofs` about `Merkle` and `MerkleLog`.
`SegmentLog` also extends `Checkpoint`.

* **ChainEntry.** BLAKE3 is an ideal hash. An entry's hash is a function of its fields and
  of `prev_hash` that is injective and never the genesis value; appending the fields to
  a sequence is such a function. A hash is thus the sequence of fields of all entries it
  commits to, and "`h1` is a prefix of `h2`" says that the chain ending in `h2` goes
  through `h1`. Everything about a record that is not looked at is one `Body`.
* **AuditLog.** The engine's half of each step: `Record`, `HeadCall`, `Return` for callers;
  `WriterHead`, `SealErr`, `BeginAppend`, `AppendOk`, `AppendErr`, `WriterPanics` for the writer;
  `Build`, `Drop`, `Kill`. The reply sender travels with the command: once no command of a caller is in the
  channel or with the writer and no reply has come (`Dropped`), `recv` fails and the call returns `WriterGone`;
  what is sent to a writer that is gone goes nowhere (`SendCmd`). `process()` is cut where `store.append` is called: between
  `BeginAppend` and `AppendOk`/`AppendErr` other threads run and the process may die.
  `acked`, `heads` and `floor` are history: receipts and heads returned, and the largest
  acknowledged number when a call began.
* **JsonlFile, FileStore.** A file is a sequence of chunks (the JSON text of an entry, a
  newline, or a torn text). `append` is two steps, `WriteLine` and `Fsync`, each of
  which may fail: writing nothing, a part of the line, or everything but the fsync.
  `synced` counts the chunks on disk; `PowerLoss` keeps those and any prefix of the rest,
  possibly cut inside a line. `open` reads and parses the whole file.
* **FileLog** composes the two; `Faults` says which failures may happen: `"kill"` (anywhere but in `write_all`),
  `"kill_write"` (in `write_all`, leaving a part of the line), `"power"`, `"panic"`, `"seal_fail"`, `"write_fail"`
  (nothing written), `"short_write"`, `"sync_fail"` and, for the server's reads, `"read_fail"`.
* **AppendOnlyChain** is the promise: one durable chain that only grows, and
  acknowledgements of entries on it.
* **Service** puts `FileLog` behind HTTP. The engine's callers are the server's workers.
  A client call (`rpc`) is sent, picked up by a worker (`Handle...`), answered and received;
  `Break` ends it for the client at any point, `SendRefused` and `SendNothing` before it
  starts. `HandlerReturns` answers what `record` or `head` returned, or drops it when nobody
  waits. `HandleRead` reads the file in one step with one of the results of `Readings`: its entries; a parse error or
  an I/O error if it sees the beginning of the line that is being written (cut between two characters, or inside
  one); an I/O error if the read itself fails. `ReadAnswer` is `read_log`: an I/O error is an empty log, a parse
  error a 500. `Shutdown` waits for handlers, `ServerDies` does not.
  A call's number is the body of its record, which the program does not have: it is how the
  properties tell whose entry is whose. `rpc[i].floor` is history.
* **Signature, Checkpoint.** A signature is its key and its message, so nobody can make one
  for another message. `VerifyWithCheckpoint` and `VerifyWithAnchor` are `chainlog verify` with
  `--checkpoint` and `--anchor`, `CheckpointOf` is `chainlog checkpoint`.
* **SegmentedStore, SegmentLog.** The directory maps `first_seq` to the entries of the
  file. `max_entries` is chosen anew from `MaxEntries` at each start. Rotation (`Rotate`) and the write (`StoreAppend`) are separate steps. The pruner
  lists, deletes one file per step, lists again and takes the anchor; a reader lists and
  reads one file per step. `Reader` selects the command line's reader, which reports a
  missing file, or the server's, which answers with an empty log. `BeyondHead` allows
  `--before-seq` above the head of the log. `removed`, `unanchored` and `rfloor` are history.
* **Verify.** The checks of `verify_entries_from` on each entry; the report's violations
  are a set, their wording is left out.
* **Keyring.** One step per critical section, and two for those that change a file: the
  lock is held between them (`lock`). `Start`..`Wrap` is `seal` with `wrap_dek`, or
  `create_key`; `Shred`, `Unlink` is `shred`; `CliShred` is another process. `condemned`
  and `destroyed` are history: keys a shred was asked to destroy, and keys a shred that
  returned has destroyed (`cli_destroyed`: by `chainlog shred`). `SpecPower` adds a machine
  that loses power: `durable` is what of the directory has reached the disk.
* **Merkle, MerkleLog.** The recursive functions of `merkle.rs` with an ideal hash, and a
  log that grows and is pruned, from which signed anchors and proof bundles are taken at any time.
  The loops are recursive functions too: `k_after` is `k` after some turns of `split_point`, `Climb` the
  loop of `verify_merkle_proof`. `batch` and `proved` are history: the leaves that the anchor and the bundle were
  computed from.

Names of definitions are those of the code where TLA+ allows it. The definitions called
`X_Y` directly before a definition `X` are mutants: what a plausible mistake would make of
`X`. Each property has one that it catches (`mutants` in `PROJECT.json`).

## 3. Runs

Runs that pass:

| Run | Shows |
|---|---|
| `FileLogFaults` | all faults, kills inside `write_all`, power loss, panics, short writes and failing fsyncs included: `AckedDurable`, `NoFork`, `RealTimeOrder`, the inductive invariant `Inv` with `DurableExtends`, and the refinement `KeepsPromise` |
| `Service` | three client calls of any kind, two workers, broken connections, wrong and missing tokens, refused seals, clean write failures, reads that fail or meet a line under way, a writer that panics, shutdowns and kills. The log: it verifies from genesis at every moment (`LogVerifies`), returns every acknowledged entry (`AckedReadable`), contains every head given out (`HeadsOnChain`). The clients: receipts are of durable entries (`AnsweredDurable`), a call appends at most once and not at all if it ended with a status (`AppendOnce`), no answer goes behind what a client was told before, unless it is a read or report without any entry (`NeverBehind`), entries once read stay (`ReadsStay`), `/v1/verify` raises no false alarm (`NoFalseAlarm`), a checkpoint fits exactly the log it was taken of, also against one rewritten and hashed again (`CheckpointPins`), every call and every handler ends (`CallsEnd`). The inductive invariants `CleanInv` and `SvcInv` |
| `SegmentLog` | rotation with a `max_entries` that changes between restarts, crashes, failing writes, a concurrent pruner that may die half way, the CLI's reader: `AckedKept`, `NoFork`, `OnlyOldRemoved`, `AnchorVerifies`, `OnlyBoundaryAnchors`, `ReadContiguous`, `ReadCurrent`, and the inductive invariants `SegInv` and `Covering` |
| `Keyring` | two threads, two subjects, crashes, file errors, and `chainlog shred` on the same directory: `ErasureHolds`, `ErasedOnDisk`, `SealedRecoverable`, `FreshAfterShred`, and the inductive invariants `KeyInv` and `RecoverInv` |
| `MerkleLog` | all logs of up to five entries, pruned at any time: `BundleVerifies`, `OnlyMembersProved`, `RootDetermines`, `ProofMatchesAnchor`, `AnchorBinds` |

Runs that find what the code does against what it says (`findings` quotes the lines):

| Run | Shows |
|---|---|
| `FileLogShortWrite` | a failed partial write is not undone; the next acknowledged entry is on the same line and the log cannot be read |
| `FileLogSyncError` | after a failed fsync the line stays and its number is given out again: the log no longer verifies |
| `FileLogTorn` | a last line cut by a kill inside `write_all`, or by a power loss, makes `open` fail |
| `SegmentBeyond` | an empty last segment and a prune before head + 1 leave no entry; the chain restarts at 1 |
| `ServiceReadIo` | without any fault, the server answers a read that meets a line cut inside a character with an empty log (`ReadsFull`) |
| `KeyringPower` | the removal of a key file is not synced; a power loss undoes a shred that was reported |
| `KeyringReadFail` | a key file that cannot be read at start-up is overwritten |

The two kinds belong together. `FileLogFaults` shows that the `FileLog` findings do
not reach what was acknowledged: those entries are still on disk, on one chain, in
order; what suffers is reading, verifying, reopening, and heads. `Service` shows how far `ServiceReadIo` goes: an
answer to a read is complete or empty, never something in between, and an empty report is still a valid one.

Where a passing run leaves a fault out, it is because the property fails with it. Besides
the runs above:

* `HeadsOnChain` needs that power is not lost: a process killed between write and fsync leaves an entry
  from which the next one resumes, and which `head()` shows, although it was never fsynced
  (`log.rs:194`). Checking it on `FileLog` with the faults `"kill"` and `"power"` shows it.
* `AckedReadable` fails after a kill inside `write_all` as it does after a short write: the log that `FileLogTorn`
  finds closed for good may hold acknowledged entries.
* `ReadCurrent` is about the command line's reader. With `Reader` = {"server"}, a segment that is pruned between
  listing and opening is answered with an empty log, by the same line of the code as in `ServiceReadIo`.
* `AnchorVerifies` does not speak of the time after a prune that failed half way (`unanchored`): `remove_file(..)?`
  (`segment.rs:167`) returns without an anchor, and a second prune that deletes nothing returns none either. The next
  prune that deletes something returns one that fits. `OnlyBoundaryAnchors` holds throughout.
* `ErasureHolds` is about the server's own `shred`. A key that `chainlog shred` removes stays in the cache of a
  running server, which goes on using it; only `ErasedOnDisk` holds for it.
* `ProofMatchesAnchor` says exactly when a proof can be checked against an anchor: not once the log has grown or
  was pruned, since proofs are always of the whole log.

What a reader of the code may not expect, and the properties are stated to allow:

* An append that ended with a transport error may be in the log, and may still get there after the client has the
  error: the handler goes on. Nothing identifies the request, so sending it again appends it again. The mutant
  `Break_Retries` is a client that does.
* A read may be ahead of `head()`: it shows a line that is written and not yet fsynced or acknowledged (`ReadsStay`
  says it is not taken back, unless power is lost).
* `chainlog verify --checkpoint` compares with the current head only: a log that has grown since the checkpoint
  fails, and a checkpoint of the empty log fits no log (`cli/src/main.rs:228`).
* After a prune the server's `/v1/verify`, which knows no anchor, reports violations for good (`OnlyBoundaryAnchors`).
  `--anchor` takes a signed checkpoint; the anchor that `chainlog prune` prints is not signed, and no command signs
  it, so the checkpoint has to have been taken when the head was at the cut.
* A prune by age deletes nothing when every entry is older than the cutoff (`segment.rs:205`).

**Bounds.** `MaxRecords` = 3 calls of `record`, from two callers over the file and one over
segments: enough for an acknowledged entry, a failed one and a later one, with a restart
between any two, and for three segments, so that a prune deletes two, one, or none. `head`
calls are not bounded over the file: a caller has one call at a time, and the history of
heads is a set. `Service` has three client calls in all, the least that puts a third party between two calls that
overlap or follow each other, and two workers, so that handlers overlap; workers are interchangeable,
so which free one takes a request is fixed. `Mixed` lists what a call may be: each operation with its token, an
append with the read token, and a call without a token. `MaxEntries` = {1, 2} makes a reopened segment be over, at or
under the new limit. `Time` = {1, 2} (clock forwards, backwards, or standing
still) where timestamps are looked at, otherwise {1}. `MaxKeys` = 3 keys: one to use, one to shred and
one to replace it. Five leaves give all shapes of tree up to depth three. `Body` has two values
over the file, so that a fork shows even where the clock stands still; over segments timestamps tell entries apart.
Symmetry is used for sets of model values (callers, bodies, threads, subjects), in runs without liveness.

**Deadlock** is checked except in `FileLogShortWrite`, where a closed log that
cannot be read any more can do nothing.

**Fairness** (`FairSvcSpec`, in `Service`): weak fairness of `Progress`, the disjunction of the writer's steps, of
handlers starting and returning, and of answers arriving. That is: while something in a live server can run,
something does. The writer is a thread that loops over `recv`, workers are threads of the runtime, handlers block
only on a channel that gets its message or loses its last sender, file operations return with success or with an error, and an answer that
is sent arrives unless its connection breaks. No single thread is promised its turn; because the calls are
finitely many, each of them still ends. (A panic is one of the writer's steps, but fairness never calls for it: where it is
possible, so is the append.) Nothing is assumed of clients' first steps, of crashes, breaks, or restarts.
`CallsEnd` asks for more than an answer: again and again no call and no worker is busy, so a handler
whose client has gone, or whose writer has, ends too. The mutant `Dropped_Never` is a `record` that keeps a sender
of its own reply channel: after a panic it waits for ever. Short writes and failing fsyncs, which this run leaves out,
are answered by the same `AppendErr` as the failing writes it has.

**Assumed of the system underneath.** Bytes reach the disk in file order; the first fsync
of a file makes its name durable; pages that a failed fsync could not write stay in the
cache; a rename or removal takes effect at once for all processes; a removed file that is
open can still be written. A new segment's name is durable once its first entry is
fsynced. `read_all` of one file is one step.

## 4. Proofs

The theorems hold for any sets of callers, records, timestamps, threads and subjects, any
`MaxRecords`, `MaxEntries`, `MaxKeys` and `MaxLeaves`, any leaves, requests and tokens, and any faults except where the table
names a restriction. The assumptions are those of the modules: the bounds are natural numbers (`MaxEntries`
positive, as `open` insists), the sets of faults contain only known faults, timestamps are natural numbers, and
in `Service` bodies are the call numbers. Hash and signature are ideal.

| Module | Theorem | Statement | Only if |
|---|---|---|---|
| `ChainLemmas` | `HeadDetermines` | two logs, of any origin, that verify from one anchor and end in the same hash are equal | |
| | `CheckpointPinsLog` | `VerifyWithCheckpoint(es, cp)` and `VerifyWithCheckpoint(fs, cp)` imply `es = fs` | |
| `FileLogProofs` | `TypeCorrect`, `ChainInvariant`, `Invariant` | `Spec => []TypeOK`, `[](TypeOK /\ ChainInv)`, `[]Inv` | |
| | `AckedIsDurable`, `NeverForks`, `RealTimeOrdered` | `Spec => []AckedDurable`, `[]NoFork`, `[]RealTimeOrder` | |
| | `DurableContinued` | `Spec => []DurableExtends` | |
| | `PromiseKept` | `Spec => KeepsPromise` (the refinement of `AppendOnlyChain`) | |
| `FileLogClean` | `CleanInvariant` | `CleanSpec => [](TypeOK /\ ChainInv /\ CleanInv)` | |
| | `CleanLogVerifies`, `CleanAckedReadable`, `CleanHeadsStay` | `Spec => []LogVerifies`, `[]AckedReadable`, `[]HeadsOnChain` | `NoDamage`: no power loss, short write, failing fsync or kill inside `write_all` |
| | `CleanLogGrows` | `Spec => [][IsPrefix(Log, Log')]_vars` | the same |
| `ServiceProofs` | `ServiceImplementsLog` | `SvcSpec => Spec` | |
| | `ServiceNeverForks`, `ReceiptsAreDurable` | `SvcSpec => []NoFork`, `[]AnsweredDurable` | |
| | `ServiceLogVerifies`, `ServiceAckedReadable`, `ServiceHeadsStay` | `SvcSpec => []LogVerifies`, `[]AckedReadable`, `[]HeadsOnChain` | `NoDamage` |
| `ServiceAnswers` | `ServiceInvariant` | `SvcSpec => [](Inv /\ CleanInv /\ SvcInv)` | `NoDamage` |
| | `AppendsOnce`, `ClientsNeverBehind`, `ReadsNeverTakenBack`, `VerifyNeverAlarms`, `CheckpointsPin` | `SvcSpec => []AppendOnce`, `[]NeverBehind`, `[]ReadsStay`, `[]NoFalseAlarm`, `[]CheckpointPins` | `NoDamage` |
| `SegmentProofs` | `SegmentInvariant`, `SegmentTypes` | `Spec => [](TypeOK /\ SegInv)`, `[]TypeOK` | `BeyondHead = FALSE` |
| | `SegmentKeepsAcked`, `SegmentNeverForks` | `Spec => []AckedKept`, `[]NoFork` | the same |
| | `PruneOnlyOld` | `Spec => OnlyOldRemoved` | the same |
| | `PrunedLogVerifies`, `BoundaryAnchorOnly`, `RacingReadLinks` | `Spec => []AnchorVerifies`, `[]OnlyBoundaryAnchors`, `[]ReadContiguous` | the same |
| | `ListingsCover`, `RacingReadCurrent` | `Spec => []Covering`, `[]ReadCurrent` | also no server's reader |
| `KeyringProofs` | `KeyringInvariant`, `TypeCorrect` | `Spec => []KeyInv`, `[]TypeOK` | |
| | `ShredErases`, `CliShredErases`, `SealsFresh` | `Spec => []ErasureHolds`, `[]ErasedOnDisk`, `[]FreshAfterShred` | |
| | `KeysStayOnDisk`, `SealedStaysRecoverable` | `Spec => []RecoverInv`, `[]SealedRecoverable` | key files can be read at start-up |
| `MerkleProofs` | `SplitPoint` | `split_point(n)` is the largest power of two below `n` | `n >= 2`, as the code says |
| | `PathsLead` | the audit path of every leaf climbs to the root, in no more steps than the tree is deep | |
| | `RootInjective` | `mth[s] = mth[t]` implies `s = t` | |
| | `OnlyMembers` | `Climb(d, p) = mth[s]` implies that `d` is a leaf of `s`, for any `d` and any path `p` | |
| | `BundlesVerify`, `RootsDetermine`, `OnlyMembersAreProved` | `Spec => []BundleVerifies`, `[]RootDetermines`, `[]OnlyMembersProved` | |
| | `ProofsMatchAnchors`, `AnchorsBind` | `Spec => []ProofMatchesAnchor`, `[]AnchorBinds` | |
| | `AnchorPinsLog` | two logs, of any origin, that verify and have the same Merkle root are equal | leaves include the entry hashes |
| | `ProofPinsEntry` | an entry with a right hash and a path to the root of a log that verifies is an entry of that log | the same |

Each restriction is the one a run of section 3 shows to be needed: `FileLogShortWrite`, `FileLogSyncError`,
`FileLogTorn`, `SegmentBeyond`, `ServiceReadIo`, `KeyringReadFail`. `NoDamage` allows
kills outside `write_all`, panics, failing seals, failing writes that write nothing, and failing reads. `ChainLemmas` holds what all of them
use: the least and the greatest element of a set of numbers, which stand in for induction, and prefixes
as an order.

**The log under all faults.** None of the three properties is inductive. `AckedDurable` needs that the
entry whose fsync succeeds is the line just written (`DirtyLine`) and that receipts still
in a reply channel count too (`Issued`). After a power loss the log resumes from
whatever entry is last in the file, which may be one of several left by failed fsyncs,
so `NoFork` needs a fact about *every* entry behind an acknowledged one, acknowledged or not:
each of them continues the acknowledged entry's chain (`IssuedAnchored`). It is preserved
because the writer always continues the chain of every receipt (`WriterExtends`), and a failed append leaves it
there. Numbers follow from hashes: an entry's number is the length of the chain its
hash commits to (`Chained`), so that of two entries on one chain the one with the larger number extends the
other. `RealTimeOrder` adds where a call can be: in the channel, with the writer, answered
or idle, and only one of these (`OnePlace`), and that `floor` is 0 or acknowledged (`FloorAcked`).
`Inv` is the conjunction, `ChainInv` the part that needs no `CallInv`. TLC checks it in
`FileLogFaults`. The proof has one lemma per action and conjunct that the action can
disturb.

**The promise.** `KeepsPromise` maps the abstract chain to the hash of the last entry that is durable (`DurableHash`).
That hash only grows because whatever follows in the file, and the writer, continue the chain of the last
durable entry (`DurableExtends`); what is acknowledged is on it by `IssuedAnchored`. That no entry is acknowledged to two
calls is not part of the promise; for the service `AppendOnce` says it, since each receipt is of the call's own entry.

**The undamaged log.** `CleanInv` says what the file then is: the lines of one chain from genesis, nothing cut or
doubled (`CleanFile`), the writer behind the last of them or one entry before it while that waits for its fsync
(`CleanWriter`), and every head given out among them (`CleanHeads`). Resuming from an entry that was never
acknowledged is harmless here, since nothing takes it back. `CleanSpec` is the part of the next-state relation
without the damaging faults; under `NoDamage` both `Spec` and `SvcSpec` imply it. To reason about
`read_all` for files of any length it is stated by rank: the n-th entry read is the JSON text with n - 1 others before it.

**The service.** Every step of `Service` either leaves the engine and the file alone or is one of
`FileLog`'s (`ServiceStep`), so the service refines the log and inherits its theorems, under every fault. `AnsweredDurable` is
about what clients hold, so it needs `AnswersAcked`: a receipt in an answer, sent or received, is one that
`record` has returned. The other five follow from `SvcInv`: a handler runs exactly while its engine call does
(`Jobs`); a body is in the channel, with the writer or in the log, in one of these and once (`Bodies`);
what the engine replied and what was answered fits the log (`ReplyFits`, `AnswerFits`). A call that gets no
reply must have left no entry, since `WriterGone` is answered with a 500: as long as there is no reply the body is
not in the log, unless it waits for its fsync, and then a reply comes (`DirtyStays`). What a read or a report shows is
a beginning of the log that covers the call's `floor`, or empty. The numbers in
answers need an upper bound that crashes do not lower and the next append still exceeds (`Known`): an
entry that waits for its fsync can be read, so it is in the log, but nobody may be told a number beyond the writer's.
`CheckpointPins` compares the log with its beginnings and with every log that has one entry's body replaced and the rest hashed
again; it rests on an entry's hash listing all entries up to it (`ChainHash`).

**Any log.** `ChainLemmas` also proves two facts about logs that need not come from this program. A log that verifies is
determined by its anchor and its last hash (`HeadDetermines`): the numbers fix its length, and equal hashes mean equal
entries with equal `prev_hash`, from the last entry down. So a checkpoint is accepted with one log at most
(`CheckpointPinsLog`).

**Segments.** `SegInv` describes a directory in use by three processes. Files are numbered from their name and adjoin (`Numbered`,
`Adjoining`): only the last may be empty, which is how a crash after `rotate_to` leaves it. Everything recorded,
deleted or not, is on one chain, and deleted entries are below all files (`OneChain`). The writer has the last file open (`AtTail`), which no
prune deletes, because the pruner's listing is the oldest part of the directory and its boundary is not beyond
an entry that exists (`Pruning`). `Anchored` says that the anchor is where the first file continues from
unless something was deleted since a prune returned. A reader holds a stretch of the chain that the next file
of its listing continues; files of the listing that are gone are below all others (`Reading`), so the first
one missing ends the reading before it can skip anything. `Covering`, separate because the server's reader
breaks it, adds that the last file of the listing brings everything acknowledged when the
reading began. `read_all_segmented` is stated by rank like `read_all`; that it yields the numbers without a gap (`ReadAll`) is proved by counting places.

**The keyring.** `KeyInv`: the lock is held by whoever is inside a critical section (`Locking`), threads hold
what their place says (`Holding`), a key in use anywhere was minted, for one subject (`OneSubject`), and destroyed
keys are in no place a new operation or a restart can take them from (`Unreachable`). A thread that took its
key before the shred may still wrap with it; `seen` keeps what was destroyed before it began, hence
`FreshAfterShred`. `RecoverInv` adds that a key that nobody condemned is in its file from the moment it can be used (`KeysKept`).

**Merkle trees.** TLAPS takes a recursive function `f[x \in S] == e` as some `f` that satisfies the equation, if there is
one. That there is one is proved for each of the four (`k_after`, `mth`, `path`, the hashes of `Climb`), in the same way: for
every size there is a function that satisfies the equation on inputs up to that size, two of these agree where both are
defined, and their values together form the function. The induction behind this, and behind everything about trees, is over the
size of the batch or the length of the path: a set of numbers that contains `n` whenever it contains all smaller ones is `Nat`
(`Induct`, from the least number principle). The library's induction theorems take an operator, which the
provers cannot instantiate; a set defined by the statement to prove serves instead.
What is special to the tree: both parts of a batch are smaller than the batch and the left one is no smaller than the
right one (`SplitPoint`), so a path has one step more than that of its part and the powers of two bound its length; and the prefixes
`0x00` and `0x01` tell which case a hash comes from (`RootShape`). From the latter follow
`RootInjective`, from the top down, and `OnlyMembers`, along the path: the last step of any path that ends in a root
gives the root of one of the two parts to the path without it. `OnlyMembers` is wider than `OnlyMembersProved`, which
tries the paths derived from a bundle. The properties of `MerkleLog` follow with the invariant that anchor and bundle are those of `batch` and
`proved` (`MerkleInv`). `AnchorPinsLog` and `ProofPinsEntry` connect the tree with the chain: with `HashDetermines` of `ChainLemmas` a leaf
stands for all fields of its entry, and for all entries before it.

TLC checks each of the invariants in the run of its component, except `MerkleInv`, whose conjuncts are types and the definitions of
the two history variables.

**Only model-checked:** liveness (`CallsEnd`), which TLAPS does not handle. `SpecPower` of the keyring has no theorem: its
property fails.

## 5. Not modelled

`MemoryStore` (a vector, for tests) and `LocalKeyProvider` (a constant). Ciphers, signatures and
BLAKE3 themselves: they are ideal. Canonical encoding down to bytes: it is injective by its
length prefixes. Of the server: the `from`/`to` filter and `decrypt` of a read (pure functions of what was
read), requests that do not parse, a server without a signing key or keyring (501 before anything
happens), an empty configured token beyond `require`. Of the client: the key and Merkle calls, which go through the same `send`
and whose server side is in `Keyring` and `MerkleLog`. Of the command line: `keygen`, `gen-sign-key`,
`inspect`, argument parsing, output.
The timestamp of a Merkle anchor, which no check looks at beyond its signature. A writer that panics over segments: it
panics before the store is called, as over the file. Key ids that are not valid file names (refused before anything changes). Two
processes that append to one log: nothing in the code prevents it, and the documentation excludes it.
`Service` runs over a `FileStore`; over segments, reads are in `SegmentLog`.

## 6. Plan

Done: all modules of section 2; the proofs of section 4, which leave no safety property of the passing runs unproved.

Next:

1. `Keyring` with power loss: what does hold (a key is gone once its removal is durable).
2. The server over segments: `Service` on top of `SegmentLog`, with its reader.
