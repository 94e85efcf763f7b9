------------------------------ MODULE Keyring -------------------------------
(***************************************************************************)
(* The per-subject keyring (keyring.rs) and the part of sealing that uses  *)
(* it (crypto.rs: seal, open): a server whose threads share a cache of     *)
(* keys under one RwLock and a directory of key files, which chainlog      *)
(* shred may change from another process.                                  *)
(*                                                                         *)
(* Keys are numbers in the order they are minted; 0 stands for no key.  A  *)
(* sealed PII bundle is the key_id it names and the key its data key is    *)
(* wrapped with: authenticated encryption makes it open under that key and *)
(* no other.                                                               *)
(*                                                                         *)
(* What is in the directory outlives a crash of the process.  No change to *)
(* it is ever fsynced, so a power loss (SpecPower) undoes those the        *)
(* operating system has not written back by itself.                        *)
(***************************************************************************)
EXTENDS Naturals, FiniteSets

CONSTANTS KeyId,      \* subjects
          Thread,     \* threads of the server that use the keyring
          MaxKeys,    \* bound: keys minted in one behaviour
          KeyFaults   \* the faults, and the other process, that may occur

ASSUME KeyringAssumption ==
  /\ MaxKeys \in Nat
  /\ KeyFaults \subseteq {"kill", "write_fail", "remove_fail", "read_fail", "cli_shred"}

VARIABLES up,         \* is the server running?
          cache,      \* KeyringProvider.cache
          disk,       \* the key files
          durable,    \* what a power loss would leave of them
          lock,       \* the thread holding the write lock, or NoThread
          pc,         \* where each thread is
          op,         \* op[t]: its operation, "seal" or "create"
          id,         \* id[t]: the key_id its operation is about
          key,        \* key[t]: the key it minted or copied out of the cache
          seen,       \* history: seen[t], keys destroyed when its operation began
          minted,     \* keys minted so far
          sealed,     \* the PII bundles in the log
          condemned,  \* history: keys a shred was asked to destroy
          destroyed,  \* history: keys a completed shred of the server has destroyed
          cli_destroyed  \* history: keys chainlog shred has destroyed

volatile == << up, cache, lock, pc, op, id, key, seen >>
vars     == << volatile, disk, durable, minted, sealed, condemned, destroyed, cli_destroyed >>

NoKey    == 0
TornFile == MaxKeys + 1   \* a key file cut short: read_key_file fails on it
Keys     == 1..MaxKeys
File     == 0..(MaxKeys + 1)
NoThread == << "none" >>
NoId     == << "none" >>

ASSUME NoThreadAssumption == NoThread \notin Thread

Bundle == [id : KeyId, key : Keys]

\* Types; among them that only whole keys are ever cached, never a file cut
\* short, and that a shred destroys nothing it was not asked to.
TypeOK ==
  /\ up \in BOOLEAN
  /\ cache \in [KeyId -> Keys \cup {NoKey}]
  /\ disk \in [KeyId -> File] /\ durable \in [KeyId -> File]
  /\ lock \in Thread \cup {NoThread}
  /\ pc \in [Thread -> {"idle", "ensure", "mint", "write", "insert", "get", "wrap", "unlink"}]
  /\ op \in [Thread -> {"seal", "create"}]
  /\ id \in [Thread -> KeyId \cup {NoId}]
  /\ key \in [Thread -> Keys \cup {NoKey}]
  /\ seen \in [Thread -> SUBSET Keys]
  /\ minted \in 0..MaxKeys
  /\ sealed \subseteq Bundle
  /\ condemned \subseteq Keys
  /\ destroyed \subseteq condemned /\ cli_destroyed \subseteq condemned

NothingCached == [k \in KeyId |-> NoKey]

Init ==
  /\ up = FALSE /\ cache = NothingCached
  /\ disk = [k \in KeyId |-> NoKey] /\ durable = disk
  /\ lock = NoThread
  /\ pc = [t \in Thread |-> "idle"]
  /\ op = [t \in Thread |-> "seal"]
  /\ id = [t \in Thread |-> NoId]
  /\ key = [t \in Thread |-> NoKey]
  /\ seen = [t \in Thread |-> {}]
  /\ minted = 0 /\ sealed = {} /\ condemned = {} /\ destroyed = {} /\ cli_destroyed = {}

Unlocked == up /\ lock = NoThread
Goto(t, l) == pc' = [pc EXCEPT ![t] = l]

\* A thread's operation is over.
Finish(t) ==
  /\ pc' = [pc EXCEPT ![t] = "idle"]
  /\ op' = [op EXCEPT ![t] = "seal"]
  /\ id' = [id EXCEPT ![t] = NoId]
  /\ key' = [key EXCEPT ![t] = NoKey]
  /\ seen' = [seen EXCEPT ![t] = {}]

-----------------------------------------------------------------------------
(* wrap_dek with auto_create, as the server opens the keyring              *)

\* record() with PII under key_id k (seal calls wrap_dek, which calls ensure),
\* or the server's create_key, which is ensure alone.
Start(t, o, k) ==
  /\ up /\ pc[t] = "idle"
  /\ Goto(t, "ensure")
  /\ op' = [op EXCEPT ![t] = o]
  /\ id' = [id EXCEPT ![t] = k]
  /\ seen' = [seen EXCEPT ![t] = destroyed]
  /\ UNCHANGED << up, cache, lock, key, disk, minted, sealed, condemned, destroyed, cli_destroyed, durable >>

\* ensure: the look under the read lock.
EnsureLook(t) ==
  /\ Unlocked /\ pc[t] = "ensure"
  /\ Goto(t, IF cache[id[t]] # NoKey THEN "get" ELSE "mint")
  /\ UNCHANGED << up, cache, lock, op, id, key, seen, disk, minted, sealed, condemned, destroyed, cli_destroyed, durable >>

\* ensure: the second look under the write lock; the key is there after all.
EnsureRaced(t) ==
  /\ Unlocked /\ pc[t] = "mint"
  /\ cache[id[t]] # NoKey
  /\ Goto(t, "get")
  /\ UNCHANGED << up, cache, lock, op, id, key, seen, disk, minted, sealed, condemned, destroyed, cli_destroyed, durable >>

\* Mutant of EnsureMint: the key enters the cache, and the lock is released,
\* before its file is written.
EnsureMint_CacheFirst(t) ==
  /\ Unlocked /\ pc[t] = "mint"
  /\ cache[id[t]] = NoKey
  /\ minted < MaxKeys
  /\ minted' = minted + 1
  /\ cache' = [cache EXCEPT ![id[t]] = minted + 1]
  /\ key' = [key EXCEPT ![t] = minted + 1]
  /\ disk' = [disk EXCEPT ![id[t]] = TornFile]
  /\ Goto(t, "write")
  /\ UNCHANGED << up, lock, op, id, seen, sealed, condemned, destroyed, cli_destroyed, durable >>

\* ensure: a key is minted and fs::write creates or truncates its file.
EnsureMint(t) ==
  /\ Unlocked /\ pc[t] = "mint"
  /\ cache[id[t]] = NoKey
  /\ minted < MaxKeys
  /\ minted' = minted + 1
  /\ lock' = t
  /\ key' = [key EXCEPT ![t] = minted + 1]
  /\ disk' = [disk EXCEPT ![id[t]] = TornFile]
  /\ Goto(t, "write")
  /\ UNCHANGED << up, cache, op, id, seen, sealed, condemned, destroyed, cli_destroyed, durable >>

\* Mutant of EnsureWrite: the key is written by name, to a file that is
\* created anew if need be.
EnsureWrite_ByName(t) ==
  /\ up /\ pc[t] = "write"
  /\ disk' = [disk EXCEPT ![id[t]] = key[t]]
  /\ Goto(t, "insert")
  /\ UNCHANGED << up, cache, lock, op, id, key, seen, minted, sealed, condemned, destroyed, cli_destroyed, durable >>

\* ensure: fs::write has written the key, to a file that chainlog shred may
\* have unlinked since it was created.
EnsureWrite(t) ==
  /\ up /\ pc[t] = "write"
  /\ disk' = [disk EXCEPT ![id[t]] = IF @ = NoKey THEN NoKey ELSE key[t]]
  /\ Goto(t, "insert")
  /\ UNCHANGED << up, cache, lock, op, id, key, seen, minted, sealed, condemned, destroyed, cli_destroyed, durable >>

\* ensure: no random bytes, or fs::write cannot open the file; it stays as it
\* was.
EnsureOpenFails(t) ==
  /\ "write_fail" \in KeyFaults
  /\ Unlocked /\ pc[t] = "mint"
  /\ cache[id[t]] = NoKey
  /\ Finish(t)
  /\ UNCHANGED << up, cache, lock, disk, minted, sealed, condemned, destroyed, cli_destroyed, durable >>

\* ensure: fs::write fails on the open file; it stays truncated.
EnsureWriteFails(t) ==
  /\ "write_fail" \in KeyFaults
  /\ up /\ pc[t] = "write"
  /\ lock' = NoThread
  /\ Finish(t)
  /\ UNCHANGED << up, cache, disk, minted, sealed, condemned, destroyed, cli_destroyed, durable >>

\* ensure: the key enters the cache and the lock is released.
EnsureInsert(t) ==
  /\ up /\ pc[t] = "insert"
  /\ cache' = [cache EXCEPT ![id[t]] = key[t]]
  /\ lock' = NoThread
  /\ key' = [key EXCEPT ![t] = NoKey]
  /\ Goto(t, "get")
  /\ UNCHANGED << up, op, id, seen, disk, minted, sealed, condemned, destroyed, cli_destroyed, durable >>

\* create_key: ensure has returned.
CreateDone(t) ==
  /\ up /\ pc[t] = "get" /\ op[t] = "create"
  /\ Finish(t)
  /\ UNCHANGED << up, cache, lock, disk, minted, sealed, condemned, destroyed, cli_destroyed, durable >>

\* get: copy the key, or fail when it has been shredded since.
Get(t) ==
  /\ Unlocked /\ pc[t] = "get" /\ op[t] = "seal"
  /\ cache[id[t]] # NoKey
  /\ key' = [key EXCEPT ![t] = cache[id[t]]]
  /\ Goto(t, "wrap")
  /\ UNCHANGED << up, cache, lock, op, id, seen, disk, minted, sealed, condemned, destroyed, cli_destroyed, durable >>

GetFails(t) ==
  /\ Unlocked /\ pc[t] = "get" /\ op[t] = "seal"
  /\ cache[id[t]] = NoKey
  /\ Finish(t)
  /\ UNCHANGED << up, cache, lock, disk, minted, sealed, condemned, destroyed, cli_destroyed, durable >>

\* wrap_with_key, and the bundle goes into the log with its entry.
Wrap(t) ==
  /\ up /\ pc[t] = "wrap"
  /\ sealed' = sealed \cup { [id |-> id[t], key |-> key[t]] }
  /\ Finish(t)
  /\ UNCHANGED << up, cache, lock, disk, minted, condemned, destroyed, cli_destroyed, durable >>

\* open (decrypt=true, chainlog inspect): unwrap_dek looks the named key up in
\* the cache; only the key the bundle was sealed under opens it.
Opens(b) == cache[b.id] = b.key

-----------------------------------------------------------------------------
(* shred                                                                   *)

\* The keys a shred of k answers for: those in use for k so far, in its file,
\* or about to be written to it.
KeysOf(k) == { b.key : b \in { s \in sealed : s.id = k } } \cup ({disk[k]} \cap Keys)
             \cup { key[t] : t \in { u \in Thread : pc[u] = "write" /\ id[u] = k } }

\* Mutant of Shred: the cached key stays.
Shred_KeepsCache(t, k) ==
  /\ Unlocked /\ pc[t] = "idle"
  /\ lock' = t
  /\ id' = [id EXCEPT ![t] = k]
  /\ condemned' = condemned \cup KeysOf(k)
  /\ Goto(t, "unlink")
  /\ UNCHANGED << up, cache, op, key, seen, disk, minted, sealed, destroyed, cli_destroyed, durable >>

\* The server's shred takes the write lock and drops the key from the cache.
Shred(t, k) ==
  /\ Unlocked /\ pc[t] = "idle"
  /\ lock' = t
  /\ cache' = [cache EXCEPT ![k] = NoKey]
  /\ id' = [id EXCEPT ![t] = k]
  /\ condemned' = condemned \cup KeysOf(k)
  /\ Goto(t, "unlink")
  /\ UNCHANGED << up, op, key, seen, disk, minted, sealed, destroyed, cli_destroyed, durable >>

\* Mutant of Unlink: the file stays.
Unlink_CacheOnly(t) ==
  /\ up /\ pc[t] = "unlink"
  /\ condemned' = condemned \cup KeysOf(id[t])
  /\ destroyed' = destroyed \cup KeysOf(id[t])
  /\ lock' = NoThread
  /\ Finish(t)
  /\ UNCHANGED << up, cache, disk, minted, sealed, cli_destroyed, durable >>

\* The file is removed, the lock released, and the caller told.
Unlink(t) ==
  /\ up /\ pc[t] = "unlink"
  /\ disk' = [disk EXCEPT ![id[t]] = NoKey]
  /\ condemned' = condemned \cup KeysOf(id[t])
  /\ destroyed' = destroyed \cup KeysOf(id[t])
  /\ lock' = NoThread
  /\ Finish(t)
  /\ UNCHANGED << up, cache, minted, sealed, cli_destroyed, durable >>

\* remove_file fails: the caller gets the error.
UnlinkFails(t) ==
  /\ "remove_fail" \in KeyFaults
  /\ up /\ pc[t] = "unlink"
  /\ disk[id[t]] # NoKey
  /\ lock' = NoThread
  /\ Finish(t)
  /\ UNCHANGED << up, cache, disk, minted, sealed, condemned, destroyed, cli_destroyed, durable >>

\* chainlog shred: another process opens the directory and removes the file.
CliShred(k) ==
  /\ "cli_shred" \in KeyFaults
  /\ disk[k] # NoKey
  /\ disk' = [disk EXCEPT ![k] = NoKey]
  /\ condemned' = condemned \cup KeysOf(k)
  /\ cli_destroyed' = cli_destroyed \cup KeysOf(k)
  /\ UNCHANGED << volatile, minted, sealed, destroyed, durable >>

-----------------------------------------------------------------------------
(* The server process and the system                                       *)

\* Mutant of Loaded: a cut file is taken for a key.
Loaded_TakesTorn(c) == \A k \in KeyId : c[k] = disk[k]

\* KeyringProvider::open: files that cannot be read as a key are skipped.
\* read_fail: so are files whose reading fails.
Loaded(c) ==
  \A k \in KeyId :
    \/ c[k] = disk[k] /\ disk[k] \in Keys
    \/ c[k] = NoKey /\ (disk[k] \notin Keys \/ "read_fail" \in KeyFaults)

Open ==
  /\ ~up
  /\ up' = TRUE
  /\ cache' \in [KeyId -> File]
  /\ Loaded(cache')
  /\ UNCHANGED << lock, pc, op, id, key, seen, disk, minted, sealed, condemned, destroyed, cli_destroyed, durable >>

Forget ==
  /\ up' = FALSE /\ cache' = NothingCached
  /\ lock' = NoThread
  /\ pc' = [t \in Thread |-> "idle"]
  /\ op' = [t \in Thread |-> "seal"]
  /\ id' = [t \in Thread |-> NoId]
  /\ key' = [t \in Thread |-> NoKey]
  /\ seen' = [t \in Thread |-> {}]

Kill ==
  /\ "kill" \in KeyFaults
  /\ up
  /\ Forget
  /\ UNCHANGED << disk, minted, sealed, condemned, destroyed, cli_destroyed, durable >>

Next ==
  \/ \E t \in Thread, k \in KeyId : Shred(t, k) \/ \E o \in {"seal", "create"} : Start(t, o, k)
  \/ \E t \in Thread :
       \/ EnsureLook(t) \/ EnsureRaced(t) \/ EnsureMint(t) \/ EnsureWrite(t)
       \/ EnsureOpenFails(t) \/ EnsureWriteFails(t) \/ EnsureInsert(t)
       \/ Get(t) \/ GetFails(t) \/ Wrap(t) \/ CreateDone(t)
       \/ Unlink(t) \/ UnlinkFails(t)
  \/ \E k \in KeyId : CliShred(k)
  \/ Open \/ Kill

Spec == Init /\ [][Next]_vars

\* The operating system writes a changed file, or its removal, to the disk.
WriteBack(k) ==
  /\ durable[k] # disk[k]
  /\ durable' = [durable EXCEPT ![k] = disk[k]]
  /\ UNCHANGED << volatile, disk, minted, sealed, condemned, destroyed, cli_destroyed >>

\* The log's entries were fsynced, the key files were not.
PowerLoss ==
  /\ Forget
  /\ disk' = durable
  /\ UNCHANGED << durable, minted, sealed, condemned, destroyed, cli_destroyed >>

\* The keyring on a machine that may lose power.
SpecPower == Init /\ [][Next \/ PowerLoss \/ \E k \in KeyId : WriteBack(k)]_vars

-----------------------------------------------------------------------------
(* Properties                                                              *)

\* Once the server's shred has returned, no bundle sealed under the keys it
\* destroyed can be opened again, now or after a restart, whatever other
\* threads and chainlog shred are doing (keyring.rs, shred: "PII
\* sealed under key_id is permanently unrecoverable").
ErasureHolds ==
  \A b \in sealed : b.key \in destroyed => ~Opens(b) /\ disk[b.id] # b.key

\* A key chainlog shred destroyed is gone from the directory for good (cli:
\* "its PII is now unrecoverable"): a server that holds it in its cache, or was
\* about to write it, does not bring it back.
ErasedOnDisk ==
  \A b \in sealed : b.key \in cli_destroyed => disk[b.id] # b.key

\* A bundle in the log whose key nobody asked to shred can be opened after a
\* restart: its key is in its file.
SealedRecoverable ==
  \A b \in sealed : b.key \notin condemned => disk[b.id] = b.key

\* PII whose sealing begins after a shred returned is not sealed under a key
\* that shred destroyed: the subject's new data is not lost with the old.
FreshAfterShred ==
  \A t \in Thread : pc[t] = "wrap" => key[t] \notin seen[t]

-----------------------------------------------------------------------------
(* The inductive invariant behind them                                     *)

\* Only the holder of the write lock is between taking and releasing it, and
\* a process that is gone holds nothing.
Locking ==
  /\ \A t \in Thread : pc[t] \in {"write", "insert", "unlink"} => lock = t
  /\ ~up => /\ cache = NothingCached /\ lock = NoThread
            /\ \A t \in Thread : pc[t] = "idle"

\* What a thread holds at each place of its operation.
Holding ==
  \A t \in Thread :
    /\ pc[t] # "idle" => id[t] \in KeyId
    /\ pc[t] \in {"write", "insert", "wrap"} => key[t] \in Keys
    /\ pc[t] = "write" => disk[id[t]] \in {NoKey, TornFile}
    /\ pc[t] = "unlink" => cache[id[t]] = NoKey

\* Key n is in use for subject k.
InUse(n, k) ==
  \/ cache[k] = n \/ disk[k] = n \/ [id |-> k, key |-> n] \in sealed
  \/ \E t \in Thread : pc[t] \in {"write", "insert", "wrap"} /\ id[t] = k /\ key[t] = n

\* Every key in use has been minted, for one subject; no key is condemned
\* before it is minted.
OneSubject ==
  /\ \A n \in Keys, k \in KeyId : InUse(n, k) => n <= minted
  /\ \A n \in Keys, j, k \in KeyId : InUse(n, j) /\ InUse(n, k) => j = k
  /\ condemned \subseteq 1..minted

\* A key the server destroyed can be reached by no new operation, and one
\* chainlog shred destroyed by no restart.
Unreachable ==
  /\ \A k \in KeyId : /\ cache[k] \notin destroyed
                      /\ disk[k] \notin destroyed \cup cli_destroyed
  /\ \A t \in Thread :
       /\ pc[t] \in {"write", "insert"} => key[t] \notin destroyed
       /\ pc[t] = "write" /\ disk[id[t]] # NoKey => key[t] \notin cli_destroyed
       /\ seen[t] \subseteq destroyed

\* Lock, cache, key files, threads and sealed data agree on which keys exist,
\* whose they are and which are gone, in every critical section of ensure,
\* get, wrap_dek and shred and after every restart.
KeyInv == TypeOK /\ Locking /\ Holding /\ OneSubject /\ Unreachable /\ FreshAfterShred

\* A key nobody asked to destroy is in its file from the moment a thread can
\* use it, and no key is minted over it.
KeysKept ==
  /\ \A k \in KeyId :
       /\ cache[k] # NoKey /\ cache[k] \notin condemned => disk[k] = cache[k]
       /\ up /\ cache[k] = NoKey /\ disk[k] \in Keys =>
            \/ disk[k] \in condemned
            \/ \E t \in Thread : pc[t] = "insert" /\ id[t] = k /\ key[t] = disk[k]
  /\ \A t \in Thread :
       /\ pc[t] = "write" /\ key[t] \notin condemned => disk[id[t]] = TornFile
       /\ pc[t] \in {"insert", "wrap"} /\ key[t] \notin condemned => disk[id[t]] = key[t]

\* KeysKept with SealedRecoverable is inductive when files that exist are read.
RecoverInv == KeysKept /\ SealedRecoverable
=============================================================================
