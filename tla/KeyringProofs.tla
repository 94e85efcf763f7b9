--------------------------- MODULE KeyringProofs ----------------------------
(***************************************************************************)
(* Proofs about Keyring, for any subjects, threads, number of keys and set *)
(* of faults.                                                              *)
(***************************************************************************)
EXTENDS Keyring, TLAPS

\* A whole key is neither the absence of one nor a file cut short.
LEMMA KeyNumbers ==
  /\ NoKey \notin Keys /\ TornFile \notin Keys /\ NoKey # TornFile
  /\ Keys \subseteq Nat /\ File = Keys \cup {NoKey, TornFile}
BY KeyringAssumption DEF NoKey, Keys, TornFile, File

\* The keys a shred answers for are keys, in use for its subject.
LEMMA KeysOfInUse ==
  ASSUME TypeOK, Holding, NEW k \in KeyId, NEW n \in KeysOf(k)
  PROVE  n \in Keys /\ InUse(n, k)
<1>1. CASE n \in { b.key : b \in { s \in sealed : s.id = k } }
  <2>1. PICK b \in sealed : b.id = k /\ b.key = n
    BY <1>1
  <2>2. b = [id |-> k, key |-> n] /\ n \in Keys
    BY <2>1 DEF TypeOK, Bundle
  <2> QED
    BY <2>1, <2>2 DEF InUse
<1>2. CASE n \in {disk[k]} \cap Keys
  BY <1>2 DEF InUse
<1>3. CASE n \in { key[t] : t \in { u \in Thread : pc[u] = "write" /\ id[u] = k } }
  BY <1>3 DEF InUse, Holding
<1> QED
  BY <1>1, <1>2, <1>3 DEF KeysOf

\* No step takes a variable out of its type.
LEMMA TypeStep == TypeOK /\ Holding /\ [Next]_vars => TypeOK'
<1> SUFFICES ASSUME TypeOK, Holding, [Next]_vars PROVE TypeOK'
  OBVIOUS
<1> USE DEF TypeOK, Goto
<1>0. NoKey \in File /\ TornFile \in File /\ Keys \subseteq File
  BY KeyNumbers
<1>1. ASSUME NEW t \in Thread, NEW k \in KeyId, Shred(t, k) PROVE TypeOK'
  <2>1. KeysOf(k) \subseteq Keys
    BY KeysOfInUse
  <2> QED
    BY <1>1, <2>1 DEF Shred
<1>2. ASSUME NEW t \in Thread, NEW k \in KeyId, NEW o \in {"seal", "create"}, Start(t, o, k)
      PROVE  TypeOK'
  BY <1>2 DEF Start
<1>3. ASSUME NEW t \in Thread, Finish(t)
      PROVE  /\ pc' \in [Thread -> {"idle", "ensure", "mint", "write", "insert", "get", "wrap", "unlink"}]
             /\ op' \in [Thread -> {"seal", "create"}]
             /\ id' \in [Thread -> KeyId \cup {NoId}]
             /\ key' \in [Thread -> Keys \cup {NoKey}]
             /\ seen' \in [Thread -> SUBSET Keys]
  BY <1>3 DEF Finish
<1>4. ASSUME NEW t \in Thread, EnsureLook(t) \/ EnsureRaced(t) \/ Get(t) PROVE TypeOK'
  BY <1>4 DEF EnsureLook, EnsureRaced, Get, Holding
<1>5. ASSUME NEW t \in Thread, EnsureMint(t) PROVE TypeOK'
  <2>1. minted + 1 \in Keys /\ minted + 1 \in 0..MaxKeys
    BY <1>5, KeyringAssumption DEF EnsureMint, Keys
  <2> QED
    BY <1>0, <1>5, <2>1 DEF EnsureMint
<1>6. ASSUME NEW t \in Thread, EnsureWrite(t) PROVE TypeOK'
  BY <1>0, <1>6 DEF EnsureWrite, Holding
<1>7. ASSUME NEW t \in Thread, EnsureInsert(t) PROVE TypeOK'
  BY <1>7 DEF EnsureInsert
<1>8. ASSUME NEW t \in Thread,
             EnsureWriteFails(t) \/ CreateDone(t) \/ GetFails(t) \/ EnsureOpenFails(t) \/ UnlinkFails(t)
      PROVE  TypeOK'
  BY <1>3, <1>8 DEF EnsureWriteFails, CreateDone, GetFails, EnsureOpenFails, UnlinkFails
<1>9. ASSUME NEW t \in Thread, Wrap(t) PROVE TypeOK'
  BY <1>3, <1>9 DEF Wrap, Bundle, Holding
<1>10. ASSUME NEW t \in Thread, Unlink(t) PROVE TypeOK'
  <2>1. KeysOf(id[t]) \subseteq Keys
    BY <1>10, KeysOfInUse DEF Unlink, Holding
  <2> QED
    BY <1>0, <1>3, <1>10, <2>1 DEF Unlink
<1>11. ASSUME NEW k \in KeyId, CliShred(k) PROVE TypeOK'
  <2>1. KeysOf(k) \subseteq Keys
    BY KeysOfInUse
  <2> QED
    BY <1>0, <1>11, <2>1 DEF CliShred, volatile
<1>12. CASE Open
  <2>1. \A k \in KeyId : cache'[k] \in Keys \cup {NoKey}
    BY <1>12 DEF Open, Loaded
  <2> QED
    BY <1>12, <2>1 DEF Open
<1>13. CASE Kill
  BY <1>13 DEF Kill, Forget, NothingCached
<1>14. CASE UNCHANGED vars
  BY <1>14 DEF vars, volatile
<1> QED
  BY <1>1, <1>2, <1>4, <1>5, <1>6, <1>7, <1>8, <1>9, <1>10, <1>11, <1>12, <1>13, <1>14 DEF Next

\* The write lock has one holder, and a dead process none.
LEMMA LockingStep == TypeOK /\ Locking /\ [Next]_vars => Locking'
<1> SUFFICES ASSUME TypeOK, Locking, [Next]_vars PROVE Locking'
  OBVIOUS
<1> USE NoThreadAssumption DEF TypeOK, Locking, Goto, Finish, Unlocked
<1>1. ASSUME NEW t \in Thread, NEW k \in KeyId, Shred(t, k) PROVE Locking'
  BY <1>1 DEF Shred
<1>2. ASSUME NEW t \in Thread, NEW k \in KeyId, NEW o \in {"seal", "create"}, Start(t, o, k)
      PROVE  Locking'
  BY <1>2 DEF Start
<1>3. ASSUME NEW t \in Thread,
             \/ EnsureLook(t) \/ EnsureRaced(t) \/ EnsureWrite(t)
             \/ CreateDone(t) \/ Get(t) \/ GetFails(t) \/ EnsureOpenFails(t) \/ Wrap(t)
      PROVE  Locking'
  BY <1>3 DEF EnsureLook, EnsureRaced, EnsureWrite, CreateDone, Get, GetFails, EnsureOpenFails, Wrap
<1>4. ASSUME NEW t \in Thread, EnsureMint(t) PROVE Locking'
  BY <1>4 DEF EnsureMint
<1>5. ASSUME NEW t \in Thread, EnsureWriteFails(t) \/ EnsureInsert(t) \/ Unlink(t) \/ UnlinkFails(t)
      PROVE  Locking'
  BY <1>5 DEF EnsureWriteFails, EnsureInsert, Unlink, UnlinkFails
<1>6. ASSUME NEW k \in KeyId, CliShred(k) PROVE Locking'
  BY <1>6 DEF CliShred, volatile
<1>7. CASE Open
  BY <1>7 DEF Open
<1>8. CASE Kill
  BY <1>8 DEF Kill, Forget
<1>9. CASE UNCHANGED vars
  BY <1>9 DEF vars, volatile
<1> QED
  BY <1>1, <1>2, <1>3, <1>4, <1>5, <1>6, <1>7, <1>8, <1>9 DEF Next

\* A thread still holds what its place in the operation needs.
LEMMA HoldingStep == TypeOK /\ TypeOK' /\ Locking /\ Holding /\ [Next]_vars => Holding'
<1> SUFFICES ASSUME TypeOK, TypeOK', Locking, Holding, [Next]_vars PROVE Holding'
  OBVIOUS
<1> USE NoThreadAssumption, KeyNumbers DEF TypeOK, Locking, Holding, Goto, Finish, Unlocked
<1>1. ASSUME NEW t \in Thread, NEW k \in KeyId, Shred(t, k) PROVE Holding'
  BY <1>1 DEF Shred
<1>2. ASSUME NEW t \in Thread, NEW k \in KeyId, NEW o \in {"seal", "create"}, Start(t, o, k)
      PROVE  Holding'
  BY <1>2 DEF Start
<1>3. ASSUME NEW t \in Thread, EnsureLook(t) \/ EnsureRaced(t) \/ Get(t) PROVE  Holding'
  BY <1>3 DEF EnsureLook, EnsureRaced, Get
<1>4. ASSUME NEW t \in Thread, EnsureMint(t) PROVE Holding'
  <2>1. minted + 1 \in Keys
    BY <1>4, KeyringAssumption DEF EnsureMint, Keys
  <2> QED
    BY <1>4, <2>1 DEF EnsureMint
<1>5. ASSUME NEW t \in Thread, EnsureWrite(t) PROVE Holding'
  BY <1>5 DEF EnsureWrite
<1>6. ASSUME NEW t \in Thread, EnsureInsert(t) PROVE Holding'
  BY <1>6 DEF EnsureInsert
<1>7. ASSUME NEW t \in Thread,
             \/ EnsureWriteFails(t) \/ CreateDone(t) \/ GetFails(t)
             \/ EnsureOpenFails(t) \/ Wrap(t) \/ UnlinkFails(t)
      PROVE  Holding'
  BY <1>7 DEF EnsureWriteFails, CreateDone, GetFails, EnsureOpenFails, Wrap, UnlinkFails
<1>8. ASSUME NEW t \in Thread, Unlink(t) PROVE Holding'
  BY <1>8 DEF Unlink
<1>9. ASSUME NEW k \in KeyId, CliShred(k) PROVE Holding'
  BY <1>9 DEF CliShred, volatile
<1>10. CASE Open \/ Kill
  BY <1>10 DEF Open, Kill, Forget
<1>11. CASE UNCHANGED vars
  BY <1>11 DEF vars, volatile
<1> QED
  BY <1>1, <1>2, <1>3, <1>4, <1>5, <1>6, <1>7, <1>8, <1>9, <1>10, <1>11 DEF Next

\* Only EnsureMint brings a key into use, a new one; every other step uses a
\* key for a subject only where it was in use before.
LEMMA UseStep ==
  ASSUME TypeOK, TypeOK', Locking, Holding, Next, NEW n \in Keys, NEW k \in KeyId, InUse(n, k)'
  PROVE  \/ InUse(n, k)
         \/ /\ n = minted + 1 /\ minted' = minted + 1
            /\ \E t \in Thread : EnsureMint(t) /\ k = id[t]
<1> USE KeyNumbers DEF TypeOK, Locking, Holding, InUse, Goto, Finish
<1>1. ASSUME NEW t \in Thread, NEW j \in KeyId, Shred(t, j) PROVE InUse(n, k)
  BY <1>1 DEF Shred
<1>2. ASSUME NEW t \in Thread, NEW j \in KeyId, NEW o \in {"seal", "create"}, Start(t, o, j)
      PROVE  InUse(n, k)
  BY <1>2 DEF Start
<1>3. ASSUME NEW t \in Thread, EnsureLook(t) \/ EnsureRaced(t) PROVE InUse(n, k)
  BY <1>3 DEF EnsureLook, EnsureRaced
<1>4. ASSUME NEW t \in Thread, EnsureMint(t)
      PROVE  InUse(n, k) \/ (n = minted + 1 /\ minted' = minted + 1 /\ k = id[t])
  BY <1>4 DEF EnsureMint
<1>5. ASSUME NEW t \in Thread, EnsureWrite(t) PROVE InUse(n, k)
  BY <1>5 DEF EnsureWrite
<1>6. ASSUME NEW t \in Thread, EnsureInsert(t) PROVE InUse(n, k)
  BY <1>6 DEF EnsureInsert
<1>7. ASSUME NEW t \in Thread,
             \/ EnsureWriteFails(t) \/ CreateDone(t) \/ GetFails(t)
             \/ EnsureOpenFails(t) \/ UnlinkFails(t)
      PROVE  InUse(n, k)
  BY <1>7 DEF EnsureWriteFails, CreateDone, GetFails, EnsureOpenFails, UnlinkFails
<1>8. ASSUME NEW t \in Thread, Get(t) PROVE InUse(n, k)
  BY <1>8 DEF Get
<1>9. ASSUME NEW t \in Thread, Wrap(t) PROVE InUse(n, k)
  BY <1>9 DEF Wrap
<1>10. ASSUME NEW t \in Thread, Unlink(t) PROVE InUse(n, k)
  BY <1>10 DEF Unlink
<1>11. ASSUME NEW j \in KeyId, CliShred(j) PROVE InUse(n, k)
  BY <1>11 DEF CliShred, volatile
<1>12. CASE Open
  BY <1>12 DEF Open, Loaded
<1>13. CASE Kill
  BY <1>13 DEF Kill, Forget, NothingCached
<1> QED
  BY <1>1, <1>2, <1>3, <1>4, <1>5, <1>6, <1>7, <1>8, <1>9, <1>10, <1>11, <1>12, <1>13 DEF Next

\* The count of minted keys never goes back, and only keys in use are
\* condemned.
LEMMA CondemnStep ==
  ASSUME TypeOK, Holding, Next
  PROVE  /\ minted <= minted'
         /\ \A n \in condemned' : n \in condemned \/ (n \in Keys /\ \E k \in KeyId : InUse(n, k))
<1> USE DEF TypeOK
<1>1. ASSUME NEW t \in Thread, NEW k \in KeyId, Shred(t, k)
      PROVE  minted' = minted /\ condemned' = condemned \cup KeysOf(k)
  BY <1>1 DEF Shred
<1>2. ASSUME NEW t \in Thread, Unlink(t)
      PROVE  minted' = minted /\ condemned' = condemned \cup KeysOf(id[t]) /\ id[t] \in KeyId
  BY <1>2 DEF Unlink, Holding
<1>3. ASSUME NEW k \in KeyId, CliShred(k)
      PROVE  minted' = minted /\ condemned' = condemned \cup KeysOf(k)
  BY <1>3 DEF CliShred
<1>4. ASSUME NEW t \in Thread, EnsureMint(t) PROVE minted' = minted + 1 /\ condemned' = condemned
  BY <1>4 DEF EnsureMint
<1>5. ASSUME NEW t \in Thread, NEW k \in KeyId, NEW o \in {"seal", "create"}, Start(t, o, k)
      PROVE  minted' = minted /\ condemned' = condemned
  BY <1>5 DEF Start
<1>6. ASSUME NEW t \in Thread,
             \/ EnsureLook(t) \/ EnsureRaced(t) \/ EnsureWrite(t) \/ EnsureWriteFails(t)
             \/ EnsureInsert(t) \/ Get(t) \/ GetFails(t) \/ EnsureOpenFails(t)
             \/ Wrap(t) \/ CreateDone(t) \/ UnlinkFails(t)
      PROVE  minted' = minted /\ condemned' = condemned
  BY <1>6 DEF EnsureLook, EnsureRaced, EnsureWrite, EnsureWriteFails, EnsureInsert, Get,
              GetFails, EnsureOpenFails, Wrap, CreateDone, UnlinkFails
<1>7. CASE Open \/ Kill
  BY <1>7 DEF Open, Kill
<1>8. minted \in Nat /\ minted <= minted + 1 /\ minted <= minted
  BY KeyringAssumption
<1>9. \A k \in KeyId : \A n \in KeysOf(k) : n \in Keys /\ InUse(n, k)
  BY KeysOfInUse
<1> QED
  BY <1>1, <1>2, <1>3, <1>4, <1>5, <1>6, <1>7, <1>8, <1>9 DEF Next

\* Keys are still minted for one subject each.
LEMMA SubjectStep ==
  TypeOK /\ TypeOK' /\ Locking /\ Holding /\ OneSubject /\ [Next]_vars => OneSubject'
<1> SUFFICES ASSUME TypeOK, TypeOK', Locking, Holding, OneSubject, [Next]_vars PROVE OneSubject'
  OBVIOUS
<1>1. CASE UNCHANGED vars
  BY <1>1 DEF vars, volatile, OneSubject, InUse
<1>2. CASE Next
  <2>0. minted \in Nat /\ minted' \in Nat /\ Keys \subseteq Nat
    BY KeyNumbers, KeyringAssumption DEF TypeOK
  <2>1. minted <= minted' /\ \A n \in condemned' : n \in condemned \/ (n \in Keys /\ \E k \in KeyId : InUse(n, k))
    BY <1>2, CondemnStep
  <2>2. \A n \in Keys, k \in KeyId : InUse(n, k) => n <= minted
    BY DEF OneSubject
  <2>3. ASSUME NEW n \in Keys, NEW k \in KeyId, InUse(n, k)' PROVE n <= minted'
    BY <1>2, <2>0, <2>1, <2>2, <2>3, UseStep
  <2>4. ASSUME NEW n \in Keys, NEW j \in KeyId, NEW k \in KeyId, InUse(n, j)', InUse(n, k)' PROVE j = k
    <3>1. CASE n <= minted
      <4>1. n # minted + 1
        BY <2>0, <3>1
      <4>2. InUse(n, j) /\ InUse(n, k)
        BY <1>2, <2>4, <4>1, UseStep
      <4> QED
        BY <4>2 DEF OneSubject
    <3>2. CASE ~(n <= minted)
      <4>1. ~InUse(n, j) /\ ~InUse(n, k)
        BY <2>2, <3>2
      <4>2. PICK t \in Thread : EnsureMint(t) /\ j = id[t]
        BY <1>2, <2>4, <4>1, UseStep
      <4>3. PICK u \in Thread : EnsureMint(u) /\ k = id[u]
        BY <1>2, <2>4, <4>1, UseStep
      <4>4. t = u
        BY <4>2, <4>3 DEF EnsureMint
      <4> QED
        BY <4>2, <4>3, <4>4
    <3> QED
      BY <3>1, <3>2
  <2>5. condemned' \subseteq 1..minted'
    <3> SUFFICES ASSUME NEW n \in condemned' PROVE n \in 1..minted'
      OBVIOUS
    <3>1. CASE n \in condemned
      BY <2>0, <2>1, <3>1 DEF OneSubject
    <3>2. CASE n \notin condemned
      BY <2>0, <2>1, <2>2, <3>2 DEF Keys
    <3> QED
      BY <3>1, <3>2
  <2> QED
    BY <2>3, <2>4, <2>5 DEF OneSubject
<1> QED
  BY <1>1, <1>2

\* The keys a shred destroys are those of its subject alone: no other
\* subject's cached key or key file is among them.
LEMMA ShredsOwn ==
  ASSUME TypeOK, Holding, OneSubject, NEW k \in KeyId, NEW j \in KeyId, j # k
  PROVE  cache[j] \notin KeysOf(k) /\ disk[j] \notin KeysOf(k)
<1>1. \A n \in KeysOf(k) : n \in Keys /\ InUse(n, k)
  BY KeysOfInUse
<1>2. InUse(cache[j], j) /\ InUse(disk[j], j)
  BY DEF InUse
<1> QED
  BY <1>1, <1>2 DEF OneSubject

\* A destroyed key stays out of reach.
LEMMA UnreachableStep == KeyInv /\ TypeOK' /\ [Next]_vars => Unreachable'
<1> SUFFICES ASSUME KeyInv, TypeOK', [Next]_vars PROVE Unreachable'
  OBVIOUS
<1>0. TypeOK /\ Locking /\ Holding /\ OneSubject /\ Unreachable
  BY DEF KeyInv
<1>a. /\ NoKey \notin destroyed \cup cli_destroyed /\ TornFile \notin destroyed \cup cli_destroyed
      /\ NoKey \notin destroyed' \cup cli_destroyed'
  BY <1>0, KeyNumbers DEF TypeOK
<1> USE <1>0, NoThreadAssumption, KeyNumbers
        DEF TypeOK, Locking, Holding, Unreachable, Goto, Finish, Unlocked
<1>1. ASSUME NEW t \in Thread, NEW k \in KeyId, Shred(t, k) PROVE Unreachable'
  BY <1>1 DEF Shred
<1>2. ASSUME NEW t \in Thread, NEW k \in KeyId, NEW o \in {"seal", "create"}, Start(t, o, k)
      PROVE  Unreachable'
  BY <1>2 DEF Start
<1>3. ASSUME NEW t \in Thread, EnsureLook(t) \/ EnsureRaced(t) \/ Get(t) PROVE Unreachable'
  BY <1>3 DEF EnsureLook, EnsureRaced, Get
<1>4. ASSUME NEW t \in Thread, EnsureMint(t) PROVE Unreachable'
  <2>1. minted + 1 \notin condemned
    BY KeyringAssumption DEF OneSubject
  <2>2. minted + 1 \notin destroyed /\ minted + 1 \notin cli_destroyed
    BY <2>1
  <2> QED
    BY <1>4, <1>a, <2>2 DEF EnsureMint
<1>5. ASSUME NEW t \in Thread, EnsureWrite(t) PROVE Unreachable'
  BY <1>5 DEF EnsureWrite
<1>6. ASSUME NEW t \in Thread, EnsureInsert(t) PROVE Unreachable'
  BY <1>6 DEF EnsureInsert
<1>7. ASSUME NEW t \in Thread,
             \/ EnsureWriteFails(t) \/ CreateDone(t) \/ GetFails(t)
             \/ EnsureOpenFails(t) \/ Wrap(t) \/ UnlinkFails(t)
      PROVE  Unreachable'
  BY <1>7 DEF EnsureWriteFails, CreateDone, GetFails, EnsureOpenFails, Wrap, UnlinkFails
<1>8. ASSUME NEW t \in Thread, Unlink(t) PROVE Unreachable'
  <2>1. id[t] \in KeyId /\ cache[id[t]] = NoKey
    BY <1>8 DEF Unlink
  <2>2. \A j \in KeyId : j # id[t] => cache[j] \notin KeysOf(id[t]) /\ disk[j] \notin KeysOf(id[t])
    BY <2>1, ShredsOwn
  <2>3. \A u \in Thread : pc'[u] \notin {"write", "insert"}
    BY <1>8 DEF Unlink
  <2>4. ASSUME NEW j \in KeyId
        PROVE  cache'[j] \notin destroyed' /\ disk'[j] \notin destroyed' \cup cli_destroyed'
    BY <1>8, <1>a, <2>1, <2>2 DEF Unlink
  <2>5. \A u \in Thread : seen'[u] \subseteq destroyed'
    BY <1>8 DEF Unlink
  <2> QED
    BY <2>3, <2>4, <2>5
<1>9. ASSUME NEW k \in KeyId, CliShred(k) PROVE Unreachable'
  <2>1. \A j \in KeyId : j # k => disk[j] \notin KeysOf(k)
    BY ShredsOwn
  <2>2. UNCHANGED << cache, pc, id, key, seen, destroyed >>
    BY <1>9 DEF CliShred, volatile
  <2>3. disk' = [disk EXCEPT ![k] = NoKey] /\ cli_destroyed' = cli_destroyed \cup KeysOf(k)
    BY <1>9 DEF CliShred
  <2>4. \A j \in KeyId : disk'[j] \notin destroyed' \cup cli_destroyed'
    BY <1>a, <2>1, <2>2, <2>3
  <2>5. ASSUME NEW t \in Thread, pc[t] = "write", disk'[id[t]] # NoKey
        PROVE  key[t] \notin cli_destroyed'
    <3>1. id[t] # k /\ id[t] \in KeyId /\ key[t] \in Keys /\ key[t] \notin cli_destroyed
      BY <2>3, <2>5
    <3>2. InUse(key[t], id[t])
      BY <2>5 DEF InUse
    <3>3. key[t] \notin KeysOf(k)
      BY <3>1, <3>2, KeysOfInUse DEF OneSubject
    <3> QED
      BY <2>3, <3>1, <3>3
  <2> QED
    BY <2>2, <2>4, <2>5
<1>10. CASE Open
  BY <1>10, <1>a DEF Open, Loaded
<1>11. CASE Kill
  BY <1>11, <1>a DEF Kill, Forget, NothingCached
<1>12. CASE UNCHANGED vars
  BY <1>12 DEF vars, volatile
<1> QED
  BY <1>1, <1>2, <1>3, <1>4, <1>5, <1>6, <1>7, <1>8, <1>9, <1>10, <1>11, <1>12 DEF Next

\* A key on its way into a bundle was not destroyed when the sealing began.
LEMMA FreshStep == KeyInv /\ [Next]_vars => FreshAfterShred'
<1> SUFFICES ASSUME KeyInv, [Next]_vars PROVE FreshAfterShred'
  OBVIOUS
<1>0. TypeOK /\ Holding /\ Unreachable /\ FreshAfterShred
  BY DEF KeyInv
<1> USE <1>0 DEF TypeOK, FreshAfterShred, Goto, Finish
<1>1. ASSUME NEW t \in Thread, NEW k \in KeyId,
             Shred(t, k) \/ \E o \in {"seal", "create"} : Start(t, o, k)
      PROVE  FreshAfterShred'
  BY <1>1 DEF Shred, Start
<1>2. ASSUME NEW t \in Thread,
             \/ EnsureLook(t) \/ EnsureRaced(t) \/ EnsureMint(t) \/ EnsureWrite(t) \/ EnsureInsert(t)
      PROVE  FreshAfterShred'
  BY <1>2 DEF EnsureLook, EnsureRaced, EnsureMint, EnsureWrite, EnsureInsert
<1>3. ASSUME NEW t \in Thread, Get(t) PROVE FreshAfterShred'
  BY <1>3 DEF Get, Unreachable, Holding
<1>4. ASSUME NEW t \in Thread,
             \/ EnsureWriteFails(t) \/ CreateDone(t) \/ GetFails(t) \/ EnsureOpenFails(t) \/ Wrap(t)
             \/ Unlink(t) \/ UnlinkFails(t)
      PROVE  FreshAfterShred'
  BY <1>4 DEF EnsureWriteFails, CreateDone, GetFails, EnsureOpenFails, Wrap, Unlink, UnlinkFails
<1>5. CASE Open \/ Kill \/ UNCHANGED vars \/ \E k \in KeyId : CliShred(k)
  BY <1>5 DEF Open, Kill, Forget, CliShred, vars, volatile
<1> QED
  BY <1>1, <1>2, <1>3, <1>4, <1>5 DEF Next

\* An empty keyring satisfies the invariant.
LEMMA KeyInit == Init => KeyInv
<1> SUFFICES ASSUME Init PROVE KeyInv
  OBVIOUS
<1>0. 0 \in 0..MaxKeys
  BY KeyringAssumption
<1> USE KeyNumbers DEF Init
<1>1. TypeOK
  <2>1. NoKey \in File
    OBVIOUS
  <2> QED
    BY <1>0, <2>1 DEF TypeOK, NothingCached
<1>2. Locking /\ Holding /\ FreshAfterShred
  BY DEF Locking, Holding, FreshAfterShred
<1>3. OneSubject
  <2>1. \A n \in Keys, k \in KeyId : ~InUse(n, k)
    BY DEF InUse, NothingCached
  <2> QED
    BY <2>1 DEF OneSubject
<1>4. Unreachable
  BY DEF Unreachable
<1> QED
  BY <1>1, <1>2, <1>3, <1>4 DEF KeyInv

\* The keyring's inductive invariant: one holder of the write lock, one
\* subject per key, and no way from the cache, the directory or a thread that
\* has yet to publish its key back to a destroyed one.
THEOREM KeyringInvariant == Spec => []KeyInv
<1>1. KeyInv /\ [Next]_vars => KeyInv'
  BY TypeStep, LockingStep, HoldingStep, SubjectStep, UnreachableStep, FreshStep DEF KeyInv
<1> QED
  BY <1>1, KeyInit, PTL DEF Spec

\* Type correctness: only whole keys are cached, only bundles that can be
\* named are sealed, and a shred destroys nothing it was not asked to.
THEOREM TypeCorrect == Spec => []TypeOK
<1>1. KeyInv => TypeOK
  BY DEF KeyInv
<1> QED
  BY <1>1, KeyringInvariant, PTL

\* Crypto-shredding holds (keyring.rs, shred): once the server's shred has
\* returned, no bundle under a key it destroyed opens again, whatever threads,
\* restarts, failing system calls and chainlog shred do.
THEOREM ShredErases == Spec => []ErasureHolds
<1>1. KeyInv => ErasureHolds
  BY DEF KeyInv, TypeOK, Bundle, Unreachable, ErasureHolds, Opens
<1> QED
  BY <1>1, KeyringInvariant, PTL

\* A key chainlog shred destroyed never comes back to the directory, although
\* a server that shares it neither sees the removal nor takes part in it.
THEOREM CliShredErases == Spec => []ErasedOnDisk
<1>1. KeyInv => ErasedOnDisk
  BY DEF KeyInv, TypeOK, Bundle, Unreachable, ErasedOnDisk
<1> QED
  BY <1>1, KeyringInvariant, PTL

\* Data whose sealing begins after a shred returned is sealed under a key that
\* shred did not destroy.
THEOREM SealsFresh == Spec => []FreshAfterShred
<1>1. KeyInv => FreshAfterShred
  BY DEF KeyInv
<1> QED
  BY <1>1, KeyringInvariant, PTL

-----------------------------------------------------------------------------
(* Nothing is lost that nobody asked to destroy.                           *)

\* Removing a key file leaves no key behind that was in it, or on its way
\* into it, and was not condemned.
LEMMA CondemnsAll ==
  ASSUME TypeOK, Holding, RecoverInv, NEW k \in KeyId
  PROVE  /\ cache[k] # NoKey => cache[k] \in condemned \cup KeysOf(k)
         /\ disk[k] \in Keys => disk[k] \in KeysOf(k)
         /\ \A b \in sealed : b.id = k => b.key \in KeysOf(k)
         /\ \A t \in Thread : pc[t] \in {"write", "insert", "wrap"} /\ id[t] = k =>
                                key[t] \in condemned \cup KeysOf(k)
<1>1. disk[k] \in Keys => disk[k] \in KeysOf(k)
  BY DEF KeysOf
<1>2. \A b \in sealed : b.id = k => b.key \in KeysOf(k)
  BY DEF KeysOf
<1>3. \A t \in Thread : pc[t] = "write" /\ id[t] = k => key[t] \in KeysOf(k)
  BY DEF KeysOf
<1>4. cache[k] # NoKey => cache[k] \in condemned \cup KeysOf(k)
  BY <1>1 DEF RecoverInv, KeysKept, TypeOK
<1>5. \A t \in Thread : pc[t] \in {"insert", "wrap"} /\ id[t] = k => key[t] \in condemned \cup KeysOf(k)
  BY <1>1 DEF RecoverInv, KeysKept, Holding
<1> QED
  BY <1>1, <1>2, <1>3, <1>4, <1>5

\* A step keeps every key nobody asked to destroy, when a key file that
\* exists can be read.
LEMMA RecoverStep ==
  ASSUME "read_fail" \notin KeyFaults
  PROVE  KeyInv /\ RecoverInv /\ [Next]_vars => RecoverInv'
<1> SUFFICES ASSUME KeyInv, RecoverInv, [Next]_vars PROVE RecoverInv'
  OBVIOUS
<1>0. TypeOK /\ Locking /\ Holding /\ KeysKept /\ SealedRecoverable
  BY DEF KeyInv, RecoverInv
<1> USE <1>0, NoThreadAssumption, KeyNumbers
        DEF TypeOK, Locking, Holding, RecoverInv, KeysKept, SealedRecoverable, Bundle,
            Goto, Finish, Unlocked
<1>1. ASSUME NEW t \in Thread, NEW k \in KeyId, Shred(t, k) PROVE RecoverInv'
  <2>1. disk[k] \in Keys => disk[k] \in condemned'
    BY <1>1, CondemnsAll DEF Shred
  <2> QED
    BY <1>1, <2>1 DEF Shred
<1>2. ASSUME NEW t \in Thread, NEW k \in KeyId, NEW o \in {"seal", "create"}, Start(t, o, k)
      PROVE  RecoverInv'
  BY <1>2 DEF Start
<1>3. ASSUME NEW t \in Thread, EnsureLook(t) \/ EnsureRaced(t) PROVE RecoverInv'
  BY <1>3 DEF EnsureLook, EnsureRaced
<1>4. ASSUME NEW t \in Thread, EnsureMint(t) PROVE RecoverInv'
  <2>1. disk[id[t]] \in Keys => disk[id[t]] \in condemned
    BY <1>4 DEF EnsureMint
  <2>2. SealedRecoverable'
    BY <1>4, <2>1 DEF EnsureMint
  <2>3. KeysKept'
    BY <1>4, <2>1 DEF EnsureMint
  <2> QED
    BY <2>2, <2>3
<1>5. ASSUME NEW t \in Thread, EnsureWrite(t) PROVE RecoverInv'
  <2>1. SealedRecoverable'
    BY <1>5 DEF EnsureWrite
  <2>2. KeysKept'
    BY <1>5 DEF EnsureWrite
  <2> QED
    BY <2>1, <2>2
<1>6. ASSUME NEW t \in Thread, EnsureInsert(t) PROVE RecoverInv'
  BY <1>6 DEF EnsureInsert
<1>7. ASSUME NEW t \in Thread,
             \/ EnsureWriteFails(t) \/ CreateDone(t) \/ GetFails(t)
             \/ EnsureOpenFails(t) \/ UnlinkFails(t)
      PROVE  RecoverInv'
  BY <1>7 DEF EnsureWriteFails, CreateDone, GetFails, EnsureOpenFails, UnlinkFails
<1>8. ASSUME NEW t \in Thread, Get(t) PROVE RecoverInv'
  BY <1>8 DEF Get
<1>9. ASSUME NEW t \in Thread, Wrap(t) PROVE RecoverInv'
  BY <1>9 DEF Wrap
<1>10. ASSUME NEW t \in Thread, Unlink(t) PROVE RecoverInv'
  <2>1. id[t] \in KeyId /\ cache[id[t]] = NoKey
    BY <1>10 DEF Unlink
  <2>2. /\ \A b \in sealed : b.id = id[t] => b.key \in condemned'
        /\ \A u \in Thread : pc[u] \in {"write", "insert", "wrap"} /\ id[u] = id[t] => key[u] \in condemned'
    BY <1>10, <2>1, CondemnsAll DEF Unlink
  <2> QED
    BY <1>10, <2>1, <2>2 DEF Unlink
<1>11. ASSUME NEW k \in KeyId, CliShred(k) PROVE RecoverInv'
  <2>1. /\ cache[k] # NoKey => cache[k] \in condemned'
        /\ \A b \in sealed : b.id = k => b.key \in condemned'
        /\ \A t \in Thread : pc[t] \in {"write", "insert", "wrap"} /\ id[t] = k => key[t] \in condemned'
    BY <1>11, CondemnsAll DEF CliShred
  <2> QED
    BY <1>11, <2>1 DEF CliShred, volatile
<1>12. CASE Open
  BY <1>12 DEF Open, Loaded
<1>13. CASE Kill
  BY <1>13 DEF Kill, Forget, NothingCached
<1>14. CASE UNCHANGED vars
  BY <1>14 DEF vars, volatile
<1> QED
  BY <1>1, <1>2, <1>3, <1>4, <1>5, <1>6, <1>7, <1>8, <1>9, <1>10, <1>11, <1>12, <1>13, <1>14 DEF Next

\* A key that nobody condemned is in its file from the moment it can be used:
\* RecoverInv holds unless a key file that exists fails to be read when the
\* server starts.
THEOREM KeysStayOnDisk ==
  ASSUME "read_fail" \notin KeyFaults
  PROVE  Spec => []RecoverInv
<1>1. Init => RecoverInv
  BY KeyNumbers DEF Init, RecoverInv, KeysKept, SealedRecoverable, NothingCached
<1> QED
  BY <1>1, KeyringInvariant, RecoverStep, PTL DEF Spec

\* PII stays recoverable: under the same condition every bundle whose key
\* nobody asked to shred has its key on disk, across crashes, failing writes
\* and removals, and races of any number of sealing and shredding threads and
\* chainlog shred.
THEOREM SealedStaysRecoverable ==
  ASSUME "read_fail" \notin KeyFaults
  PROVE  Spec => []SealedRecoverable
<1>1. RecoverInv => SealedRecoverable
  BY DEF RecoverInv
<1> QED
  BY <1>1, KeysStayOnDisk, PTL
=============================================================================
