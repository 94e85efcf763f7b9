--------------------------- MODULE FileLogProofs ----------------------------
(***************************************************************************)
(* Proofs about FileLog, for any callers, bodies, clock values, number of  *)
(* records and set of faults.                                              *)
(***************************************************************************)
EXTENDS FileLog, ChainLemmas

-----------------------------------------------------------------------------
(* Type correctness.                                                       *)

\* What a power loss leaves is a file.
LEMMA SurvivingType ==
  ASSUME StoreTypeOK, NEW f \in Surviving
  PROVE  f \in Seq(Chunk)
<1>1. Torn \in Chunk
  BY DEF Torn, Chunk
<1>2. \A k \in synced..Len(file) : SubSeq(file, 1, k) \in Seq(Chunk)
  BY DEF StoreTypeOK
<1>3. \A k \in synced..(Len(file) - 1) : Append(SubSeq(file, 1, k), Torn) \in Seq(Chunk)
  BY <1>1, <1>2 DEF StoreTypeOK
<1> QED
  BY <1>2, <1>3 DEF Surviving, StoreTypeOK

\* A write cut short leaves one chunk behind the file: a torn text, or the
\* entry without its newline.
LEMMA ShortWritten ==
  ASSUME EngineTypeOK, StoreTypeOK, Appending, WriteFailsShort(entry)
  PROVE  /\ file' \in Seq(Chunk) /\ synced' = synced /\ ~dirty /\ dirty' = dirty
         /\ Len(file') = Len(file) + 1 /\ DOMAIN file' = 1..(Len(file) + 1)
         /\ \A q \in 1..Len(file) : file'[q] = file[q]
         /\ \A q \in DOMAIN file' : IsJson(file'[q]) =>
              (q \in DOMAIN file /\ file'[q] = file[q]) \/ file'[q].entry = entry
<1>1. PICK part \in PartialLines(entry) : file' = file \o part
  BY DEF WriteFailsShort
<1>2. PICK x \in Chunk : part = << x >> /\ (x = Torn \/ x = Json(entry))
  BY DEF Appending, EngineTypeOK, PartialLines, Json, Torn, Chunk
<1>3. file \in Seq(Chunk) /\ DOMAIN file = 1..Len(file) /\ Len(file) \in Nat
  BY DEF StoreTypeOK
<1>4. /\ file' \in Seq(Chunk)
      /\ Len(file') = Len(file) + 1 /\ DOMAIN file' = 1..(Len(file) + 1)
      /\ \A q \in 1..Len(file) : file'[q] = file[q]
      /\ file'[Len(file) + 1] = x
  BY <1>1, <1>2, <1>3
<1>5. \A q \in DOMAIN file' : IsJson(file'[q]) =>
        (q \in DOMAIN file /\ file'[q] = file[q]) \/ file'[q].entry = entry
  BY <1>2, <1>3, <1>4 DEF IsJson, Json, Torn
<1> QED
  BY <1>4, <1>5 DEF WriteFailsShort

\* Nothing the code does, and no fault, takes a variable out of its type.
LEMMA TypeStep == TypeOK /\ [Next]_vars => TypeOK'
<1> SUFFICES ASSUME TypeOK, [Next]_vars PROVE TypeOK'
  OBVIOUS
<1> USE DEF TypeOK, EngineTypeOK
<1>1. ASSUME NEW c \in Caller, NEW b \in Body, CallRecord(c, b) PROVE TypeOK'
  <2>1. [op |-> "write", caller |-> c, body |-> b] \in Cmd
    BY DEF Cmd
  <2>2. \A n \in AckedSeqs : n \in Nat
    BY DEF AckedSeqs, Receipt
  <2>3. floor' \in [Caller -> Nat]
    BY <1>1, <2>2 DEF CallRecord, Record
  <2>4. chan' \in Seq(Cmd) /\ issued' \in 0..MaxRecords
    BY <1>1, <2>1, MaxRecordsAssumption DEF CallRecord, Record, SendCmd
  <2> QED
    BY <1>1, <2>3, <2>4 DEF CallRecord, Record, storeVars, StoreTypeOK
<1>2. ASSUME NEW c \in Caller, CallHead(c) PROVE TypeOK'
  <2>1. [op |-> "head", caller |-> c] \in Cmd
    BY DEF Cmd
  <2>2. \A n \in AckedSeqs : n \in Nat
    BY DEF AckedSeqs, Receipt
  <2>3. floor' \in [Caller -> Nat]
    BY <1>2, <2>2 DEF CallHead, HeadCall
  <2>4. chan' \in Seq(Cmd)
    BY <1>2, <2>1 DEF CallHead, HeadCall, SendCmd
  <2> QED
    BY <1>2, <2>3, <2>4 DEF CallHead, HeadCall, storeVars, StoreTypeOK
<1>3. ASSUME NEW c \in Caller, CallReturn(c) PROVE TypeOK'
  <2>1. reply[c].kind = "ok" => reply[c].receipt \in Receipt
    BY DEF Reply
  <2>2. reply[c].kind = "head" => reply[c].head \in HeadPair
    BY DEF Reply
  <2>3. NoReply \in Reply
    BY DEF NoReply, Reply
  <2> QED
    BY <1>3, <2>1, <2>2, <2>3 DEF CallReturn, Return, storeVars, StoreTypeOK
<1>4. CASE AnswerHead
  <2>1. HeadReply(seq, prev_hash) \in Reply
    BY DEF HeadReply, Reply, HeadPair
  <2>2. Tail(chan) \in Seq(Cmd)
    BY <1>4 DEF AnswerHead, WriterHead, Receiving
  <2> QED
    BY <1>4, <2>1, <2>2 DEF AnswerHead, WriterHead, storeVars, StoreTypeOK
<1>5. ErrReply \in Reply
  BY DEF ErrReply, Reply
<1>6. CASE RefuseSeal
  <2>1. Tail(chan) \in Seq(Cmd)
    BY <1>6 DEF RefuseSeal, SealErr, Receiving
  <2> QED
    BY <1>5, <1>6, <2>1 DEF RefuseSeal, SealErr, storeVars, StoreTypeOK
<1>20. CASE Panic
  <2>1. << >> \in Seq(Cmd)
    OBVIOUS
  <2> QED
    BY <1>20, <2>1 DEF Panic, WriterPanics, Receiving, storeVars, StoreTypeOK
<1>7. CASE StartAppend
  <2> PICK t \in Time : BeginAppend(t) /\ UNCHANGED storeVars
    BY <1>7 DEF StartAppend
  <2>1. Head(chan) \in Cmd /\ Head(chan).op = "write" /\ Tail(chan) \in Seq(Cmd)
    BY DEF BeginAppend, Receiving
  <2>2. Head(chan).caller \in Caller /\ Head(chan).body \in Body
    BY <2>1 DEF Cmd
  <2>3. Sealed(seq + 1, t, Head(chan).body, prev_hash) \in AuditEntry
    BY <2>2, SealedType
  <2> QED
    BY <2>1, <2>2, <2>3 DEF BeginAppend, storeVars, StoreTypeOK
<1>8. CASE StoreWrite
  <2>1. Line(entry) \in Seq(Chunk)
    BY <1>8 DEF StoreWrite, Appending, Line, Json, NewLine, Chunk
  <2>2. StoreTypeOK'
    BY <1>8, <2>1 DEF StoreWrite, WriteLine, StoreTypeOK
  <2> QED
    BY <1>8, <2>2 DEF StoreWrite, engineVars
<1>9. CASE StoreSync
  <2>1. OkReply(ReceiptOf(entry)) \in Reply
    BY <1>9 DEF StoreSync, AppendOk, Appending, OkReply, Reply, ReceiptOf, Receipt, AuditEntry
  <2>2. StoreTypeOK'
    <3>1. file' = file /\ synced' = Len(file) /\ dirty' = FALSE
      BY <1>9 DEF StoreSync, Fsync
    <3>2. Len(file) \in 0..Len(file)
      BY DEF StoreTypeOK
    <3> QED
      BY <3>1, <3>2 DEF StoreTypeOK
  <2>3. seq' \in Nat /\ prev_hash' \in Hash
    BY <1>9 DEF StoreSync, AppendOk, Appending, AuditEntry
  <2> QED
    BY <1>9, <2>1, <2>2, <2>3 DEF StoreSync, AppendOk
<1>10. ASSUME AppendErr, StoreTypeOK' PROVE TypeOK'
  BY <1>5, <1>10 DEF AppendErr
<1>11. CASE WriteError
  BY <1>10, <1>11 DEF WriteError, WriteFails, storeVars, StoreTypeOK
<1>21. ASSUME Appending, WriteFailsShort(entry) PROVE StoreTypeOK'
  BY <1>21, ShortWritten DEF StoreTypeOK
<1>12. CASE ShortWriteError
  BY <1>10, <1>12, <1>21 DEF ShortWriteError, AppendErr
<1>13. CASE SyncError
  BY <1>10, <1>13 DEF SyncError, FsyncFails, StoreTypeOK
<1>14. CASE Open
  <2> PICK t \in read_tail : open(t) /\ Build(t.seq, t.hash)
    BY <1>14 DEF Open
  <2>1. ASSUME NEW i \in DOMAIN file, IsJson(file[i])
        PROVE  file[i].entry.seq \in Nat /\ file[i].entry.entry_hash \in Hash
    BY <2>1 DEF StoreTypeOK, Chunk, IsJson, AuditEntry
  <2>2. t.seq \in Nat /\ t.hash \in Hash
    <3>1. \A i \in LastEntry(file) : i \in DOMAIN file /\ IsJson(file[i])
      BY DEF LastEntry
    <3> QED
      BY <2>1, <3>1, GenesisType DEF read_tail
  <2> QED
    BY <2>2 DEF open, Build, storeVars, StoreTypeOK
<1>15. ASSUME Forget, StoreTypeOK' PROVE TypeOK'
  <2>1. NoReply \in Reply /\ << >> \in Seq(Cmd)
    BY DEF NoReply, Reply
  <2> QED
    BY <1>15, <2>1, GenesisType DEF Forget
<1>16. CASE Close
  BY <1>15, <1>16 DEF Close, Drop, StoreKill, StoreTypeOK
<1>17. CASE Crash
  BY <1>15, <1>17 DEF Crash, Kill, StoreKill, StoreTypeOK
<1>22. CASE CrashInWrite
  BY <1>15, <1>21, <1>22 DEF CrashInWrite, Kill
<1>18. CASE Power
  <2>1. file' \in Seq(Chunk)
    BY <1>18, SurvivingType DEF Power, PowerLoss
  <2>2. synced' = Len(file') /\ dirty' = FALSE
    BY <1>18 DEF Power, PowerLoss
  <2>3. Len(file') \in 0..Len(file')
    BY <2>1
  <2>4. StoreTypeOK'
    BY <2>1, <2>2, <2>3 DEF StoreTypeOK
  <2> QED
    BY <1>15, <1>18, <2>4 DEF Power
<1>19. CASE UNCHANGED vars
  BY <1>19 DEF vars, engineVars, storeVars, StoreTypeOK
<1> QED
  BY <1>1, <1>2, <1>3, <1>4, <1>6, <1>7, <1>8, <1>9, <1>11, <1>12, <1>13,
     <1>14, <1>16, <1>17, <1>18, <1>19, <1>20, <1>22 DEF Next, WriterStep, Dies

\* A fresh log has the right types.
LEMMA TypeInit == Init => TypeOK
<1> SUFFICES ASSUME Init PROVE TypeOK
  OBVIOUS
<1>1. NoReply \in Reply /\ << >> \in Seq(Cmd)
  BY DEF NoReply, Reply
<1>2. EngineTypeOK
  <2>1. 0 \in Nat /\ 0 \in 0..MaxRecords
    BY MaxRecordsAssumption
  <2>2. writer # "append"
    BY DEF Init, EngineInit
  <2> QED
    BY <1>1, <2>1, <2>2, GenesisType DEF Init, EngineInit, EngineTypeOK
<1>3. << >> \in Seq(Chunk) /\ 0 \in 0..Len(<< >>)
  OBVIOUS
<1>4. StoreTypeOK
  BY <1>3 DEF Init, StoreInit, StoreTypeOK
<1> QED
  BY <1>2, <1>4 DEF TypeOK

\* Every state of the log, under every fault, is well typed.
THEOREM TypeCorrect == Spec => []TypeOK
BY TypeInit, TypeStep, PTL DEF Spec

-----------------------------------------------------------------------------
(* The chain: what is in the file, what was acknowledged, where the writer *)
(* is.                                                                     *)

\* Every receipt has a hash, in the reply channels as in the history.
LEMMA IssuedType ==
  ASSUME TypeOK
  PROVE  \A r \in Issued : r \in Receipt /\ r.entry_hash \in Hash
<1>1. \A c \in Caller : reply[c].kind = "ok" => reply[c].receipt \in Receipt
  BY DEF TypeOK, EngineTypeOK, Reply
<1>2. acked \subseteq Receipt
  BY DEF TypeOK, EngineTypeOK
<1> QED
  BY <1>1, <1>2 DEF Issued, Receipt

\* Every entry of the file has a hash.
LEMMA EntryType ==
  ASSUME StoreTypeOK, NEW i \in DOMAIN file, IsJson(file[i])
  PROVE  /\ file[i].entry \in AuditEntry
         /\ file[i].entry.entry_hash \in Hash
         /\ ReceiptOf(file[i].entry).entry_hash = file[i].entry.entry_hash
BY DEF StoreTypeOK, Chunk, IsJson, AuditEntry, ReceiptOf

\* Receipts stay anchored when the durable part of the file stays, and
\* whatever is new behind it continues every receipt's branch.
LEMMA AnchoredKept ==
  ASSUME TypeOK, TypeOK', IssuedAnchored, Issued' \subseteq Issued,
         synced <= synced',
         \A q \in 1..synced : file'[q] = file[q],
         \A q \in DOMAIN file' : IsJson(file'[q]) =>
           \/ q \in DOMAIN file /\ file'[q] = file[q]
           \/ \A r \in Issued : IsPrefix(r.entry_hash, file'[q].entry.entry_hash)
  PROVE  IssuedAnchored'
<1> SUFFICES ASSUME NEW r \in Issued
             PROVE  \E p \in At(r)' : p <= synced' /\ AllExtend(p, r)'
  BY DEF IssuedAnchored
<1>1. PICK p \in At(r) : p <= synced /\ AllExtend(p, r)
  BY DEF IssuedAnchored
<1>2. p \in DOMAIN file /\ IsJson(file[p]) /\ ReceiptOf(file[p].entry) = r
  BY DEF At
<1>3. /\ DOMAIN file = 1..Len(file) /\ Len(file) \in Nat
      /\ DOMAIN file' = 1..Len(file') /\ Len(file') \in Nat
      /\ synced \in 0..Len(file) /\ synced' \in 0..Len(file')
  BY DEF TypeOK, StoreTypeOK
<1>4. p \in 1..synced /\ p \in DOMAIN file' /\ p <= synced'
  BY <1>1, <1>2, <1>3
<1>5. p \in At(r)'
  BY <1>2, <1>4 DEF At
<1>6. ASSUME NEW q \in DOMAIN file', q >= p, IsJson(file'[q])
      PROVE  IsPrefix(r.entry_hash, file'[q].entry.entry_hash)
  BY <1>1, <1>6 DEF AllExtend
<1>7. AllExtend(p, r)'
  BY <1>6 DEF AllExtend
<1> QED
  BY <1>4, <1>5, <1>7

\* A step that touches neither the file nor the writer's chain state, and
\* issues no receipt, keeps the chain part of the invariant.
LEMMA ChainFrame ==
  ASSUME TypeOK, TypeOK', ChainInv, Issued' \subseteq Issued,
         UNCHANGED << file, synced, dirty, up, writer, entry, seq, prev_hash >>
  PROVE  ChainInv'
<1>1. Chained' /\ DirtyLine'
  BY DEF ChainInv, Chained, DirtyLine, Appending
<1>2. synced <= synced'
  BY DEF TypeOK, StoreTypeOK
<1>3. IssuedAnchored'
  BY <1>2, AnchoredKept DEF ChainInv
<1>4. WriterExtends'
  BY DEF ChainInv, WriterExtends
<1> QED
  BY <1>1, <1>3, <1>4 DEF ChainInv

\* The entry being appended continues every receipt's branch.
LEMMA EntryExtends ==
  ASSUME TypeOK, ChainInv, Appending
  PROVE  /\ entry \in AuditEntry
         /\ entry.entry_hash \in Hash
         /\ entry.seq = Len(entry.entry_hash)
         /\ \A r \in Issued : IsPrefix(r.entry_hash, entry.entry_hash)
<1>1. entry \in AuditEntry /\ entry.entry_hash \in Hash
  BY DEF TypeOK, EngineTypeOK, Appending, AuditEntry
<1>2. prev_hash \in Seq(Fields) /\ canonical(entry) \in Fields
  BY <1>1 DEF TypeOK, EngineTypeOK, Hash, canonical, Fields, AuditEntry
<1>3. entry.entry_hash = Append(prev_hash, canonical(entry))
  BY DEF ChainInv, Chained, Appending
<1>4. entry.seq = Len(prev_hash) + 1
  BY DEF ChainInv, Chained, Appending
<1>5. entry.seq = Len(entry.entry_hash)
  BY <1>2, <1>3, <1>4
<1>6. ASSUME NEW r \in Issued PROVE IsPrefix(r.entry_hash, entry.entry_hash)
  <2>1. r.entry_hash \in Seq(Fields)
    BY IssuedType DEF Hash
  <2>2. IsPrefix(r.entry_hash, prev_hash)
    BY DEF ChainInv, WriterExtends, Appending
  <2> QED
    BY <1>2, <1>3, <2>1, <2>2, PrefixAppend
<1> QED
  BY <1>1, <1>5, <1>6

\* A step that ends the process, leaving at least the durable part of the
\* file and nothing new but a torn text or the entry being appended, keeps the
\* chain part.
LEMMA ChainForget ==
  ASSUME TypeOK, TypeOK', ChainInv, Forget, dirty' = FALSE,
         synced <= synced',
         \A q \in 1..synced : file'[q] = file[q],
         \A q \in DOMAIN file' : IsJson(file'[q]) =>
           \/ q \in DOMAIN file /\ file'[q] = file[q]
           \/ Appending /\ file'[q].entry = entry
  PROVE  ChainInv'
<1>1. Issued' \subseteq Issued
  BY DEF Issued, Forget, NoReply
<1>2. IssuedAnchored'
  BY <1>1, AnchoredKept, EntryExtends DEF ChainInv
<1>3. seq' = 0 /\ prev_hash' = << >> /\ Len(<< >>) = 0 /\ writer' # "append" /\ ~up'
  BY DEF Forget, GENESIS_PREV_HASH
<1>4. Chained'
  BY <1>3, EntryExtends DEF Chained, ChainInv
<1>5. DirtyLine' /\ WriterExtends'
  BY <1>3 DEF DirtyLine, WriterExtends
<1> QED
  BY <1>2, <1>4, <1>5 DEF ChainInv

\* A failed append that left the file as it was, or added chunks holding no
\* entry but the one being appended, keeps the chain part.
LEMMA ChainAppendErr ==
  ASSUME TypeOK, TypeOK', ChainInv, AppendErr, dirty' = FALSE, synced' = synced,
         \A q \in 1..Len(file) : file'[q] = file[q],
         \A q \in DOMAIN file' : IsJson(file'[q]) => q \in DOMAIN file \/ file'[q].entry = entry
  PROVE  ChainInv'
<1>1. Issued' \subseteq Issued
  BY DEF Issued, AppendErr, ErrReply, TypeOK, EngineTypeOK
<1>2. Appending
  BY DEF AppendErr
<1>3. /\ DOMAIN file = 1..Len(file) /\ Len(file) \in Nat
      /\ synced \in 0..Len(file)
  BY DEF TypeOK, StoreTypeOK
<1>4. \A q \in 1..synced : file'[q] = file[q]
  BY <1>3
<1>5. \A q \in DOMAIN file' : IsJson(file'[q]) =>
        \/ q \in DOMAIN file /\ file'[q] = file[q]
        \/ file'[q].entry = entry
  BY <1>3
<1>6. synced <= synced'
  BY <1>3
<1>7. IssuedAnchored'
  BY <1>1, <1>2, <1>4, <1>5, <1>6, AnchoredKept, EntryExtends DEF ChainInv
<1>8. seq' = seq /\ prev_hash' = prev_hash /\ writer' # "append" /\ up' = up
  BY DEF AppendErr
<1>9. Chained'
  BY <1>2, <1>5, <1>8, EntryExtends DEF Chained, ChainInv
<1>10. DirtyLine' /\ WriterExtends'
  BY <1>1, <1>8 DEF DirtyLine, WriterExtends, ChainInv
<1> QED
  BY <1>7, <1>9, <1>10 DEF ChainInv

\* What a power loss leaves agrees with the file, but for a torn end.
LEMMA SurvivingAgrees ==
  ASSUME StoreTypeOK, NEW f \in Surviving
  PROVE  /\ synced <= Len(f)
         /\ \A q \in 1..synced : f[q] = file[q]
         /\ \A q \in DOMAIN f : IsJson(f[q]) => q \in DOMAIN file /\ f[q] = file[q]
<1>0. DOMAIN file = 1..Len(file) /\ Len(file) \in Nat /\ synced \in 0..Len(file)
  BY DEF StoreTypeOK
<1>1. ASSUME NEW k \in synced..Len(file)
      PROVE  /\ SubSeq(file, 1, k) \in Seq(Chunk)
             /\ Len(SubSeq(file, 1, k)) = k
             /\ \A q \in 1..k : SubSeq(file, 1, k)[q] = file[q]
  BY <1>0 DEF StoreTypeOK
<1>2. CASE \E k \in synced..Len(file) : f = SubSeq(file, 1, k)
  BY <1>0, <1>1, <1>2
<1>3. CASE \E k \in synced..(Len(file) - 1) : f = Append(SubSeq(file, 1, k), Torn)
  <2>1. PICK k \in synced..(Len(file) - 1) : f = Append(SubSeq(file, 1, k), Torn)
    BY <1>3
  <2>2. k \in synced..Len(file)
    BY <1>0
  <2>3. DOMAIN f = 1..(k + 1) /\ Len(f) = k + 1 /\ f[k + 1] = Torn
    BY <1>0, <1>1, <2>1, <2>2
  <2>4. \A q \in 1..k : f[q] = file[q]
    BY <1>0, <1>1, <2>1, <2>2
  <2>5. ~IsJson(Torn)
    BY DEF IsJson, Torn
  <2> QED
    BY <1>0, <2>2, <2>3, <2>4, <2>5
<1> QED
  BY <1>2, <1>3 DEF Surviving

\* Every step keeps the chain part of the invariant.
LEMMA ChainStep == TypeOK /\ TypeOK' /\ ChainInv /\ [Next]_vars => ChainInv'
<1> SUFFICES ASSUME TypeOK, TypeOK', ChainInv, [Next]_vars PROVE ChainInv'
  OBVIOUS
<1>0. /\ DOMAIN file = 1..Len(file) /\ Len(file) \in Nat
      /\ synced \in 0..Len(file)
      /\ file \in Seq(Chunk)
  BY DEF TypeOK, StoreTypeOK
<1>1. ASSUME NEW c \in Caller, NEW b \in Body, CallRecord(c, b) PROVE ChainInv'
  <2>1. Issued' \subseteq Issued
    BY <1>1 DEF CallRecord, Record, Issued
  <2> QED
    BY <1>1, <2>1, ChainFrame DEF CallRecord, Record, storeVars
<1>2. ASSUME NEW c \in Caller, CallHead(c) PROVE ChainInv'
  <2>1. Issued' \subseteq Issued
    BY <1>2 DEF CallHead, HeadCall, Issued
  <2> QED
    BY <1>2, <2>1, ChainFrame DEF CallHead, HeadCall, storeVars
<1>3. ASSUME NEW c \in Caller, CallReturn(c) PROVE ChainInv'
  <2>1. Issued' \subseteq Issued
    BY <1>3 DEF CallReturn, Return, Issued, NoReply, TypeOK, EngineTypeOK
  <2> QED
    BY <1>3, <2>1, ChainFrame DEF CallReturn, Return, storeVars
<1>4. CASE AnswerHead
  <2>1. Issued' \subseteq Issued
    BY <1>4 DEF AnswerHead, WriterHead, Issued, HeadReply, TypeOK, EngineTypeOK
  <2> QED
    BY <1>4, <2>1, ChainFrame DEF AnswerHead, WriterHead, storeVars
<1>5. CASE RefuseSeal
  <2>1. Issued' \subseteq Issued
    BY <1>5 DEF RefuseSeal, SealErr, Issued, ErrReply, TypeOK, EngineTypeOK
  <2> QED
    BY <1>5, <2>1, ChainFrame DEF RefuseSeal, SealErr, storeVars
<1>17. CASE Panic
  <2>1. Issued' = Issued /\ UNCHANGED << file, synced, dirty, up, entry, seq, prev_hash >>
    BY <1>17 DEF Panic, WriterPanics, Issued, storeVars
  <2>2. writer = "recv" /\ writer' = "gone"
    BY <1>17 DEF Panic, WriterPanics, Receiving
  <2>3. Chained' /\ DirtyLine'
    BY <2>1, <2>2 DEF ChainInv, Chained, DirtyLine, Appending
  <2>4. IssuedAnchored'
    BY <1>0, <2>1, AnchoredKept DEF ChainInv
  <2>5. WriterExtends'
    BY <2>1 DEF ChainInv, WriterExtends
  <2> QED
    BY <2>3, <2>4, <2>5 DEF ChainInv
<1>6. CASE StartAppend
  <2>1. PICK t \in Time : BeginAppend(t) /\ UNCHANGED storeVars
    BY <1>6 DEF StartAppend
  <2>2. Issued' = Issued /\ UNCHANGED << file, synced, dirty, up, seq, prev_hash >>
    BY <2>1 DEF BeginAppend, storeVars, Issued
  <2>3. up /\ writer = "recv" /\ entry' = Sealed(seq + 1, t, Head(chan).body, prev_hash)
    BY <2>1 DEF BeginAppend, Receiving
  <2>4. Chained'
    BY <2>2, <2>3 DEF ChainInv, Chained, Sealed, canonical
  <2>5. DirtyLine'
    BY <2>2, <2>3 DEF ChainInv, DirtyLine, Appending
  <2>6. IssuedAnchored'
    BY <1>0, <2>2, AnchoredKept DEF ChainInv
  <2>7. WriterExtends'
    BY <2>2 DEF ChainInv, WriterExtends
  <2> QED
    BY <2>4, <2>5, <2>6, <2>7 DEF ChainInv
<1>7. CASE StoreWrite
  <2>1. /\ Appending /\ file' = file \o Line(entry) /\ synced' = synced
        /\ UNCHANGED engineVars
    BY <1>7 DEF StoreWrite, WriteLine
  <2>2. Issued' = Issued /\ UNCHANGED << up, writer, entry, seq, prev_hash >>
    BY <2>1 DEF engineVars, Issued
  <2>3. Line(entry) = << Json(entry), NewLine >>
    BY DEF Line
  <2>4. /\ Len(file') = Len(file) + 2
        /\ DOMAIN file' = 1..(Len(file) + 2)
        /\ \A q \in 1..Len(file) : file'[q] = file[q]
        /\ file'[Len(file) + 1] = Json(entry)
        /\ file'[Len(file) + 2] = NewLine
    <3>1. Line(entry) \in Seq(Chunk)
      BY <2>1 DEF Appending, TypeOK, EngineTypeOK, Line, Json, NewLine, Chunk
    <3> QED
      BY <1>0, <2>1, <2>3, <3>1
  <2>5. \A q \in DOMAIN file' : IsJson(file'[q]) =>
          (q \in DOMAIN file /\ file'[q] = file[q]) \/ file'[q].entry = entry
    BY <1>0, <2>4 DEF IsJson, Json, NewLine
  <2>6. Chained'
    BY <2>1, <2>2, <2>5, EntryExtends DEF ChainInv, Chained
  <2>7. DirtyLine'
    BY <1>0, <2>1, <2>2, <2>4 DEF DirtyLine, Appending
  <2>8. IssuedAnchored'
    <3>1. synced <= synced' /\ \A q \in 1..synced : file'[q] = file[q]
      BY <1>0, <2>1, <2>4
    <3>2. \A q \in DOMAIN file' : IsJson(file'[q]) =>
            \/ q \in DOMAIN file /\ file'[q] = file[q]
            \/ \A r \in Issued : IsPrefix(r.entry_hash, file'[q].entry.entry_hash)
      BY <2>1, <2>5, EntryExtends
    <3> QED
      BY <2>2, <3>1, <3>2, AnchoredKept DEF ChainInv
  <2>9. WriterExtends'
    BY <2>2 DEF ChainInv, WriterExtends
  <2> QED
    BY <2>6, <2>7, <2>8, <2>9 DEF ChainInv
<1>8. CASE StoreSync
  <2>1. /\ Appending /\ dirty /\ file' = file /\ synced' = Len(file) /\ dirty' = FALSE
        /\ seq' = entry.seq /\ prev_hash' = entry.entry_hash
        /\ writer' = "recv" /\ up' = up
    BY <1>8 DEF StoreSync, AppendOk, Fsync
  <2>2. Issued' \subseteq Issued \cup {ReceiptOf(entry)}
    BY <1>8 DEF StoreSync, AppendOk, Issued, OkReply, TypeOK, EngineTypeOK
  <2>3. /\ Len(file) - 1 \in DOMAIN file /\ Len(file) >= 2
        /\ file[Len(file) - 1] = Json(entry) /\ file[Len(file)] = NewLine
    BY <1>0, <2>1 DEF ChainInv, DirtyLine
  <2>4. ReceiptOf(entry).entry_hash = entry.entry_hash
    BY DEF ReceiptOf
  <2>5. IsPrefix(entry.entry_hash, entry.entry_hash)
    BY <2>1, EntryExtends, PrefixReflexive DEF Hash
  <2>6. Chained'
    BY <2>1, EntryExtends DEF ChainInv, Chained
  <2>7. DirtyLine'
    BY <2>1 DEF DirtyLine
  <2>8. WriterExtends'
    BY <2>1, <2>2, <2>4, <2>5, EntryExtends DEF ChainInv, WriterExtends, Appending
  <2>9. ASSUME NEW r \in Issued' PROVE \E p \in At(r)' : p <= synced' /\ AllExtend(p, r)'
    <3>1. CASE r \in Issued
      <4>1. PICK p \in At(r) : p <= synced /\ AllExtend(p, r)
        BY <3>1 DEF ChainInv, IssuedAnchored
      <4>2. p \in At(r)' /\ AllExtend(p, r)'
        BY <2>1, <4>1 DEF At, AllExtend
      <4>3. p <= synced'
        BY <1>0, <2>1, <4>1 DEF At
      <4> QED
        BY <4>2, <4>3
    <3>2. CASE r = ReceiptOf(entry)
      <4>0. PICK p \in DOMAIN file : p = Len(file) - 1
        BY <2>3
      <4>1. p \in At(r)'
        BY <2>1, <2>3, <3>2, <4>0 DEF At, IsJson, Json
      <4>2. p <= synced'
        BY <1>0, <2>1, <4>0
      <4>3. ASSUME NEW q \in DOMAIN file, q >= p, IsJson(file[q]) PROVE q = p
        BY <1>0, <2>3, <4>0, <4>3 DEF IsJson, NewLine
      <4>4. AllExtend(p, r)'
        BY <2>1, <2>3, <2>4, <2>5, <3>2, <4>0, <4>3 DEF AllExtend, Json
      <4> QED
        BY <4>1, <4>2, <4>4
    <3> QED
      BY <2>2, <3>1, <3>2
  <2>10. IssuedAnchored'
    BY <2>9 DEF IssuedAnchored
  <2> QED
    BY <2>6, <2>7, <2>8, <2>10 DEF ChainInv
<1>9. CASE WriteError
  BY <1>0, <1>9, ChainAppendErr DEF WriteError, WriteFails, storeVars, TypeOK, StoreTypeOK
<1>10. CASE ShortWriteError
  <2>1. AppendErr /\ Appending /\ WriteFailsShort(entry)
    BY <1>10 DEF ShortWriteError, AppendErr
  <2>2. dirty' = FALSE /\ synced' = synced
    BY <2>1, ShortWritten DEF TypeOK, StoreTypeOK
  <2> QED
    BY <2>1, <2>2, ShortWritten, ChainAppendErr DEF TypeOK
<1>11. CASE SyncError
  BY <1>0, <1>11, ChainAppendErr DEF SyncError, FsyncFails
<1>12. CASE Open
  <2>1. PICK t \in read_tail : open(t) /\ Build(t.seq, t.hash)
    BY <1>12 DEF Open
  <2>2. /\ UNCHANGED << file, synced, dirty, writer, entry >> /\ Issued' = Issued
        /\ seq' = t.seq /\ prev_hash' = t.hash /\ up' /\ ~up
    BY <2>1 DEF open, Build, storeVars, Issued
  <2>3. writer # "append" /\ ~dirty
    BY <2>2 DEF ChainInv, Chained, DirtyLine, Appending
  <2>5. DirtyLine' /\ IssuedAnchored'
    <3>1. DirtyLine'
      BY <2>2, <2>3 DEF DirtyLine
    <3>2. IssuedAnchored'
      BY <1>0, <2>2, AnchoredKept DEF ChainInv
    <3> QED
      BY <3>1, <3>2
  <2>4. CASE HasEntry(file)
    <3>1. PICK i \in LastEntry(file) : t.seq = file[i].entry.seq /\ t.hash = file[i].entry.entry_hash
      BY <2>1, <2>4 DEF read_tail
    <3>2. i \in DOMAIN file /\ IsJson(file[i]) /\ \A j \in DOMAIN file : j > i => ~IsJson(file[j])
      BY DEF LastEntry
    <3>3. t.seq = Len(t.hash)
      BY <3>1, <3>2 DEF ChainInv, Chained
    <3>4. ASSUME NEW r \in Issued PROVE IsPrefix(r.entry_hash, t.hash)
      <4>1. PICK p \in At(r) : p <= synced /\ AllExtend(p, r)
        BY DEF ChainInv, IssuedAnchored
      <4>2. i >= p
        BY <1>0, <3>2 DEF At
      <4> QED
        BY <3>1, <3>2, <4>1, <4>2 DEF AllExtend
    <3>5. Chained'
      BY <2>2, <2>3, <3>3 DEF ChainInv, Chained
    <3>6. WriterExtends'
      BY <2>2, <3>4 DEF WriterExtends
    <3> QED
      BY <2>5, <3>5, <3>6 DEF ChainInv
  <2>6. CASE ~HasEntry(file)
    <3>1. t.seq = 0 /\ t.hash = << >>
      BY <2>1, <2>6 DEF read_tail, GENESIS_PREV_HASH
    <3>2. Issued = {}
      BY <2>6 DEF ChainInv, IssuedAnchored, At, HasEntry
    <3>3. Len(<< >>) = 0
      OBVIOUS
    <3>4. Chained'
      BY <2>2, <2>3, <3>1, <3>3 DEF ChainInv, Chained
    <3>5. WriterExtends'
      BY <2>2, <3>2 DEF WriterExtends
    <3> QED
      BY <2>5, <3>4, <3>5 DEF ChainInv
  <2> QED
    BY <2>4, <2>6
<1>13. ASSUME Forget, StoreKill PROVE ChainInv'
  <2>1. dirty' = FALSE /\ file' = file /\ synced' = synced
    BY <1>13 DEF StoreKill
  <2>2. synced <= synced'
    BY <1>0, <2>1
  <2> QED
    BY <1>13, <2>1, <2>2, ChainForget
<1>14. CASE Close \/ Crash
  BY <1>13, <1>14 DEF Close, Drop, Crash, Kill
<1>18. CASE CrashInWrite
  <2>1. Appending /\ WriteFailsShort(entry) /\ Forget
    BY <1>18 DEF CrashInWrite, Kill
  <2>2. dirty' = FALSE /\ synced <= synced' /\ \A q \in 1..synced : file'[q] = file[q]
    BY <1>0, <2>1, ShortWritten DEF TypeOK, StoreTypeOK
  <2> QED
    BY <2>1, <2>2, ShortWritten, ChainForget DEF TypeOK
<1>15. CASE Power
  BY <1>15, SurvivingAgrees, ChainForget DEF Power, PowerLoss, TypeOK
<1>16. CASE UNCHANGED vars
  <2>1. Issued' \subseteq Issued
    BY <1>16 DEF vars, engineVars, Issued
  <2> QED
    BY <1>16, <2>1, ChainFrame DEF vars, engineVars, storeVars
<1> QED
  BY <1>1, <1>2, <1>3, <1>4, <1>5, <1>6, <1>7, <1>8, <1>9, <1>10, <1>11,
     <1>12, <1>13, <1>14, <1>15, <1>16, <1>17, <1>18 DEF Next, WriterStep, Dies

\* The chain part holds of a fresh log.
LEMMA ChainInit == Init => ChainInv
<1> SUFFICES ASSUME Init PROVE ChainInv
  OBVIOUS
<1>1. Issued = {}
  BY DEF Init, EngineInit, Issued, NoReply
<1>2. file = << >> /\ ~dirty /\ seq = 0 /\ prev_hash = << >> /\ writer = "recv"
  BY DEF Init, EngineInit, StoreInit, GENESIS_PREV_HASH
<1>3. DOMAIN << >> = {} /\ Len(<< >>) = 0
  OBVIOUS
<1> QED
  BY <1>1, <1>2, <1>3 DEF ChainInv, Chained, DirtyLine, IssuedAnchored, WriterExtends

\* The chain part is an invariant of the log under every fault.
THEOREM ChainInvariant == Spec => [](TypeOK /\ ChainInv)
<1>1. TypeOK /\ ChainInv /\ [Next]_vars => (TypeOK /\ ChainInv)'
  BY TypeStep, ChainStep
<1> QED
  BY <1>1, TypeInit, ChainInit, PTL DEF Spec

\* Every acknowledged entry is in the part of the file that survives any
\* crash: AckedDurable holds under every fault.
THEOREM AckedIsDurable == Spec => []AckedDurable
<1>1. ChainInv => AckedDurable
  BY DEF ChainInv, IssuedAnchored, Issued, AckedDurable
<1> QED
  BY <1>1, ChainInvariant, PTL

\* Acknowledged entries are on one branch: NoFork holds under every fault.
THEOREM NeverForks == Spec => []NoFork
<1>1. TypeOK /\ ChainInv => NoFork
  <2> SUFFICES ASSUME TypeOK, ChainInv, NEW r \in acked, NEW q \in acked, r.seq <= q.seq
               PROVE  IsPrefix(r.entry_hash, q.entry_hash)
    BY DEF NoFork
  <2>1. PICK i \in At(r) : AllExtend(i, r)
    BY DEF ChainInv, IssuedAnchored, Issued
  <2>2. PICK j \in At(q) : AllExtend(j, q)
    BY DEF ChainInv, IssuedAnchored, Issued
  <2>3. /\ i \in DOMAIN file /\ IsJson(file[i])
        /\ r.entry_hash = file[i].entry.entry_hash /\ r.seq = file[i].entry.seq
    BY DEF At, ReceiptOf
  <2>4. /\ j \in DOMAIN file /\ IsJson(file[j])
        /\ q.entry_hash = file[j].entry.entry_hash /\ q.seq = file[j].entry.seq
    BY DEF At, ReceiptOf
  <2>5. DOMAIN file \subseteq Nat
    BY DEF TypeOK, StoreTypeOK
  <2>6. CASE i <= j
    BY <2>1, <2>3, <2>4, <2>5, <2>6 DEF AllExtend
  <2>7. CASE j <= i
    <3>1. IsPrefix(q.entry_hash, r.entry_hash)
      BY <2>2, <2>3, <2>5, <2>7 DEF AllExtend
    <3>2. r.seq = Len(r.entry_hash) /\ q.seq = Len(q.entry_hash)
      BY <2>3, <2>4 DEF ChainInv, Chained
    <3>3. r.entry_hash \in Seq(Fields) /\ q.entry_hash \in Seq(Fields)
      BY DEF TypeOK, EngineTypeOK, Receipt, Hash
    <3>4. q.entry_hash = r.entry_hash
      BY <3>1, <3>2, <3>3, PrefixLen
    <3> QED
      BY <3>1, <3>4
  <2> QED
    BY <2>5, <2>6, <2>7, <2>3, <2>4
<1> QED
  BY <1>1, ChainInvariant, PTL

-----------------------------------------------------------------------------
(* The calls: real-time order.                                             *)

\* Whatever a call saw acknowledged, the writer is at least that far.
LEMMA FloorBelow ==
  ASSUME TypeOK, ChainInv, FloorAcked, up, NEW c \in Caller
  PROVE  floor[c] \in Nat /\ floor[c] <= seq
<1>1. floor[c] \in Nat /\ seq \in Nat /\ seq = Len(prev_hash) /\ prev_hash \in Seq(Fields)
  BY DEF TypeOK, EngineTypeOK, ChainInv, Chained, Hash
<1>2. ASSUME NEW r \in acked PROVE r.seq <= seq
  <2>1. r \in Issued
    BY DEF Issued
  <2>2. PICK p \in At(r) : TRUE
    BY <2>1 DEF ChainInv, IssuedAnchored
  <2>3. r.seq = Len(r.entry_hash)
    BY <2>2 DEF At, ReceiptOf, ChainInv, Chained
  <2>4. r.entry_hash \in Seq(Fields)
    BY <2>1, IssuedType DEF Hash
  <2>5. IsPrefix(r.entry_hash, prev_hash)
    BY <2>1 DEF ChainInv, WriterExtends
  <2> QED
    BY <1>1, <2>3, <2>4, <2>5, PrefixLen
<1> QED
  BY <1>1, <1>2 DEF FloorAcked

\* Taking a command off the channel.
LEMMA ChanTail ==
  ASSUME TypeOK, chan # << >>
  PROVE  /\ 1 \in DOMAIN chan /\ Head(chan) = chan[1]
         /\ \A i \in DOMAIN Tail(chan) : i + 1 \in DOMAIN chan /\ i + 1 # 1 /\ Tail(chan)[i] = chan[i + 1]
         /\ \A i, j \in DOMAIN Tail(chan) : i + 1 = j + 1 => i = j
         /\ \A i \in DOMAIN chan : chan[i].caller \in Caller
<1>1. chan \in Seq(Cmd)
  BY DEF TypeOK, EngineTypeOK
<1>2. \A i \in DOMAIN chan : chan[i] \in Cmd
  BY <1>1
<1>3. \A i \in DOMAIN chan : chan[i].caller \in Caller
  BY <1>2 DEF Cmd
<1>4. 1 \in DOMAIN chan /\ Head(chan) = chan[1]
  BY <1>1
<1>5. DOMAIN chan = 1..Len(chan) /\ Len(chan) \in Nat \ {0} /\ DOMAIN Tail(chan) = 1..(Len(chan) - 1)
  BY <1>1
<1>6. \A i \in DOMAIN Tail(chan) : Tail(chan)[i] = chan[i + 1]
  BY <1>1
<1> QED
  BY <1>3, <1>4, <1>5, <1>6

\* A caller asking for something it has not asked for yet.
LEMMA CallStarts ==
  ASSUME TypeOK, TypeOK', OnePlace, FloorAcked, RealTimeOrder,
         NEW c \in Caller, NEW m \in Cmd, NEW op \in {"write", "head"}, NEW n \in AckedSeqs \cup {0},
         m.caller = c, call[c] = "idle", call' = [call EXCEPT ![c] = op],
         SendCmd(m), floor' = [floor EXCEPT ![c] = n],
         UNCHANGED << reply, writer, cur, acked >>
  PROVE  CallInv'
<1>1. chan \in Seq(Cmd) /\ floor \in [Caller -> Nat] /\ call \in [Caller -> {"idle", "write", "head"}]
  BY DEF TypeOK, EngineTypeOK
<1>2. /\ DOMAIN chan = 1..Len(chan) /\ Len(chan) \in Nat
      /\ \A i \in DOMAIN chan' : (i \in DOMAIN chan /\ chan'[i] = chan[i])
                                \/ (i = Len(chan) + 1 /\ chan'[i] = m)
  BY <1>1 DEF SendCmd
<1>3. reply[c] = NoReply
  BY DEF OnePlace
<1>4. \A i \in DOMAIN chan : chan[i].caller # c
  BY DEF OnePlace, Waiting
<1>5. writer = "append" => cur # c /\ cur \in Caller
  BY DEF OnePlace, Waiting, TypeOK, EngineTypeOK
<1>6. \A d \in Caller : d # c => call'[d] = call[d] /\ floor'[d] = floor[d]
  BY <1>1
<1>7. call'[c] # "idle" /\ floor'[c] = n
  BY <1>1
<1>8. \A i \in DOMAIN chan : chan[i].caller \in Caller
  BY <1>1 DEF Cmd
<1>9. OnePlace'
  <2>1. \A d \in Caller : call'[d] = "idle" => reply'[d] = NoReply
    BY <1>6, <1>7 DEF OnePlace
  <2>2. \A i \in DOMAIN chan' : Waiting(chan[i].caller)'
    BY <1>2, <1>3, <1>4, <1>6, <1>7, <1>8 DEF OnePlace, Waiting
  <2>3. \A i, j \in DOMAIN chan' : chan'[i].caller = chan'[j].caller => i = j
    BY <1>2, <1>4 DEF OnePlace
  <2>4. writer' = "append" => Waiting(cur)' /\ \A i \in DOMAIN chan' : chan'[i].caller # cur'
    BY <1>2, <1>5, <1>6 DEF OnePlace, Waiting
  <2> QED
    BY <2>1, <2>2, <2>3, <2>4 DEF OnePlace
<1>10. FloorAcked'
  BY <1>6, <1>7 DEF FloorAcked, AckedSeqs
<1>11. RealTimeOrder'
  BY <1>3, <1>6, <1>7 DEF RealTimeOrder, NoReply
<1> QED
  BY <1>9, <1>10, <1>11 DEF CallInv

\* The writer answering the caller it is serving, whose command is off the
\* channel.
LEMMA CallAnswered ==
  ASSUME TypeOK, TypeOK', OnePlace, FloorAcked, RealTimeOrder,
         NEW c \in Caller, NEW a \in Reply,
         a.kind = "ok" => a.receipt.seq > floor[c],
         a.kind = "head" => a.head.seq >= floor[c],
         call[c] # "idle", reply' = [reply EXCEPT ![c] = a],
         \A i \in DOMAIN chan' : Waiting(chan'[i].caller) /\ chan'[i].caller # c /\ chan'[i].caller \in Caller,
         \A i, j \in DOMAIN chan' : chan'[i].caller = chan'[j].caller => i = j,
         writer' # "append", UNCHANGED << call, floor, acked >>
  PROVE  CallInv'
<1>1. reply \in [Caller -> Reply]
  BY DEF TypeOK, EngineTypeOK
<1>2. reply'[c] = a /\ \A d \in Caller : d # c => reply'[d] = reply[d]
  BY <1>1
<1>3. OnePlace'
  BY <1>2 DEF OnePlace, Waiting
<1>4. RealTimeOrder'
  BY <1>2 DEF RealTimeOrder
<1> QED
  BY <1>3, <1>4 DEF CallInv, FloorAcked

\* Every step keeps the part of the invariant about the calls.
LEMMA CallStep == Inv /\ TypeOK' /\ [Next]_vars => CallInv'
<1> SUFFICES ASSUME TypeOK, ChainInv, OnePlace, FloorAcked, RealTimeOrder, TypeOK', [Next]_vars
             PROVE  CallInv'
  BY DEF Inv, CallInv
<1>1. ASSUME NEW c \in Caller, NEW b \in Body, CallRecord(c, b) PROVE CallInv'
  <2>1. PICK n \in AckedSeqs \cup {0} : floor' = [floor EXCEPT ![c] = n]
    BY <1>1 DEF CallRecord, Record
  <2>2. [op |-> "write", caller |-> c, body |-> b] \in Cmd
    BY DEF Cmd
  <2> QED
    BY <1>1, <2>1, <2>2, CallStarts DEF CallRecord, Record, Idle
<1>2. ASSUME NEW c \in Caller, CallHead(c) PROVE CallInv'
  <2>1. PICK n \in AckedSeqs \cup {0} : floor' = [floor EXCEPT ![c] = n]
    BY <1>2 DEF CallHead, HeadCall
  <2>2. [op |-> "head", caller |-> c] \in Cmd
    BY DEF Cmd
  <2> QED
    BY <1>2, <2>1, <2>2, CallStarts DEF CallHead, HeadCall, Idle
<1>3. ASSUME NEW c \in Caller, CallReturn(c) PROVE CallInv'
  <2>1. /\ reply[c] # NoReply \/ Dropped(c)
        /\ call' = [call EXCEPT ![c] = "idle"] /\ reply' = [reply EXCEPT ![c] = NoReply]
        /\ acked \subseteq acked' /\ UNCHANGED << chan, writer, cur, floor >>
    BY <1>3 DEF CallReturn, Return, NoReply
  <2>2. call \in [Caller -> {"idle", "write", "head"}] /\ reply \in [Caller -> Reply]
    BY DEF TypeOK, EngineTypeOK
  <2>3. reply'[c] = NoReply /\ \A d \in Caller : d # c => call'[d] = call[d] /\ reply'[d] = reply[d]
    BY <2>1, <2>2
  <2>4. \A i \in DOMAIN chan : chan[i].caller # c /\ chan[i].caller \in Caller
    <3>1. \A i \in DOMAIN chan : chan[i] \in Cmd
      BY DEF TypeOK, EngineTypeOK
    <3> QED
      BY <2>1, <3>1 DEF OnePlace, Waiting, Cmd, Dropped
  <2>5. writer = "append" => cur # c /\ cur \in Caller
    BY <2>1 DEF OnePlace, Waiting, TypeOK, EngineTypeOK, Dropped
  <2>6. OnePlace'
    BY <2>1, <2>3, <2>4, <2>5 DEF OnePlace, Waiting
  <2>7. FloorAcked'
    BY <2>1 DEF FloorAcked
  <2>8. RealTimeOrder'
    BY <2>1, <2>3 DEF RealTimeOrder, NoReply
  <2> QED
    BY <2>6, <2>7, <2>8 DEF CallInv
<1>4. ASSUME chan # << >>, writer = "recv"
      PROVE  /\ Head(chan).caller \in Caller /\ call[Head(chan).caller] # "idle"
             /\ Waiting(Head(chan).caller)
             /\ \A i \in DOMAIN Tail(chan) : /\ Waiting(Tail(chan)[i].caller)
                                             /\ Tail(chan)[i].caller # Head(chan).caller
                                             /\ Tail(chan)[i].caller \in Caller
             /\ \A i, j \in DOMAIN Tail(chan) : Tail(chan)[i].caller = Tail(chan)[j].caller => i = j
  BY <1>4, ChanTail DEF OnePlace, Waiting
<1>5. CASE AnswerHead
  <2>1. /\ up /\ writer = "recv" /\ chan # << >> /\ chan' = Tail(chan)
        /\ reply' = [reply EXCEPT ![Head(chan).caller] = HeadReply(seq, prev_hash)]
        /\ writer' # "append" /\ UNCHANGED << call, floor, acked >>
    BY <1>5 DEF AnswerHead, WriterHead, Receiving
  <2>2. HeadReply(seq, prev_hash) \in Reply
    BY DEF HeadReply, Reply, HeadPair, TypeOK, EngineTypeOK
  <2>3. HeadReply(seq, prev_hash).kind = "head" /\ HeadReply(seq, prev_hash).head.seq = seq
    BY DEF HeadReply
  <2>4. floor[Head(chan).caller] <= seq
    BY <1>4, <2>1, FloorBelow
  <2>5. seq >= floor[Head(chan).caller]
    BY <1>4, <2>1, <2>4, FloorBelow DEF TypeOK, EngineTypeOK
  <2> QED
    BY <1>4, <2>1, <2>2, <2>3, <2>5, CallAnswered
<1>6. ErrReply \in Reply /\ ErrReply.kind = "err"
  BY DEF ErrReply, Reply
<1>7. CASE RefuseSeal
  <2>1. /\ writer = "recv" /\ chan # << >> /\ chan' = Tail(chan)
        /\ reply' = [reply EXCEPT ![Head(chan).caller] = ErrReply]
        /\ writer' # "append" /\ UNCHANGED << call, floor, acked >>
    BY <1>7 DEF RefuseSeal, SealErr, Receiving
  <2> QED
    BY <1>4, <1>6, <2>1, CallAnswered
<1>8. CASE StartAppend
  <2>1. PICK t \in Time : BeginAppend(t)
    BY <1>8 DEF StartAppend
  <2>2. /\ writer = "recv" /\ chan # << >> /\ chan' = Tail(chan) /\ cur' = Head(chan).caller
        /\ UNCHANGED << call, reply, floor, acked >>
    BY <2>1 DEF BeginAppend, Receiving
  <2>3. OnePlace'
    BY <1>4, <2>2 DEF OnePlace, Waiting
  <2>4. FloorAcked' /\ RealTimeOrder'
    BY <2>2 DEF FloorAcked, RealTimeOrder
  <2> QED
    BY <2>3, <2>4 DEF CallInv
<1>9. ASSUME UNCHANGED << call, chan, reply, writer, cur, floor, acked >> PROVE CallInv'
  BY <1>9 DEF CallInv, OnePlace, Waiting, FloorAcked, RealTimeOrder
<1>10. ASSUME writer = "append"
       PROVE  /\ cur \in Caller /\ call[cur] # "idle"
              /\ \A i \in DOMAIN chan : /\ Waiting(chan[i].caller) /\ chan[i].caller # cur
                                        /\ chan[i].caller \in Caller
              /\ \A i, j \in DOMAIN chan : chan[i].caller = chan[j].caller => i = j
  <2>1. \A i \in DOMAIN chan : chan[i] \in Cmd
    BY DEF TypeOK, EngineTypeOK
  <2> QED
    BY <1>10, <2>1 DEF OnePlace, Waiting, Cmd, TypeOK, EngineTypeOK
<1>11. CASE StoreSync
  <2>1. /\ Appending /\ chan' = chan /\ writer' # "append" /\ UNCHANGED << call, floor, acked >>
        /\ reply' = [reply EXCEPT ![cur] = OkReply(ReceiptOf(entry))]
    BY <1>11 DEF StoreSync, AppendOk
  <2>2. up /\ writer = "append" /\ entry \in AuditEntry /\ entry.seq = seq + 1
    BY <2>1 DEF Appending, TypeOK, EngineTypeOK, ChainInv, Chained
  <2>3. OkReply(ReceiptOf(entry)) \in Reply
    BY <2>2 DEF OkReply, Reply, ReceiptOf, Receipt, AuditEntry
  <2>4. OkReply(ReceiptOf(entry)).kind = "ok" /\ OkReply(ReceiptOf(entry)).receipt.seq = seq + 1
    BY <2>2 DEF OkReply, ReceiptOf
  <2>5. seq + 1 > floor[cur]
    BY <1>10, <2>2, FloorBelow DEF TypeOK, EngineTypeOK
  <2> QED
    BY <1>10, <2>1, <2>2, <2>3, <2>4, <2>5, CallAnswered
<1>12. ASSUME AppendErr PROVE CallInv'
  <2>1. /\ writer = "append" /\ chan' = chan /\ writer' # "append" /\ UNCHANGED << call, floor, acked >>
        /\ reply' = [reply EXCEPT ![cur] = ErrReply]
    BY <1>12 DEF AppendErr, Appending
  <2> QED
    BY <1>6, <1>10, <2>1, CallAnswered
<1>13. ASSUME Forget PROVE CallInv'
  <2>1. /\ chan' = << >> /\ writer' # "append" /\ UNCHANGED << floor, acked >>
        /\ \A c \in Caller : reply'[c] = NoReply
    BY <1>13 DEF Forget
  <2>2. DOMAIN chan' = {}
    BY <2>1
  <2>3. OnePlace'
    BY <2>1, <2>2 DEF OnePlace
  <2>4. FloorAcked' /\ RealTimeOrder'
    BY <2>1 DEF FloorAcked, RealTimeOrder, NoReply
  <2> QED
    BY <2>3, <2>4 DEF CallInv
<1>17. CASE Panic
  <2>1. /\ chan' = << >> /\ writer' # "append"
        /\ UNCHANGED << call, reply, floor, acked >>
    BY <1>17 DEF Panic, WriterPanics
  <2>2. DOMAIN chan' = {}
    BY <2>1
  <2>3. OnePlace'
    BY <2>1, <2>2 DEF OnePlace
  <2>4. FloorAcked' /\ RealTimeOrder'
    BY <2>1 DEF FloorAcked, RealTimeOrder
  <2> QED
    BY <2>3, <2>4 DEF CallInv
<1>14. CASE StoreWrite \/ Open \/ UNCHANGED vars
  BY <1>9, <1>14 DEF StoreWrite, Open, Build, vars, engineVars
<1>15. CASE WriteError \/ ShortWriteError \/ SyncError
  BY <1>12, <1>15 DEF WriteError, ShortWriteError, SyncError
<1>16. CASE Close \/ Dies
  BY <1>13, <1>16 DEF Close, Drop, Dies, Crash, CrashInWrite, Kill, Power
<1> QED
  BY <1>1, <1>2, <1>3, <1>5, <1>7, <1>8, <1>11, <1>14, <1>15, <1>16, <1>17 DEF Next, WriterStep

\* The part about the calls holds of a fresh log.
LEMMA CallInit == Init => CallInv
<1> SUFFICES ASSUME Init PROVE CallInv
  OBVIOUS
<1>1. DOMAIN << >> = {}
  OBVIOUS
<1> QED
  BY <1>1 DEF Init, EngineInit, CallInv, OnePlace, FloorAcked, RealTimeOrder, NoReply

\* Inv is an invariant of the log under every fault.
THEOREM Invariant == Spec => []Inv
<1>1. Inv /\ [Next]_vars => Inv'
  BY TypeStep, ChainStep, CallStep DEF Inv
<1>2. Init => Inv
  BY TypeInit, ChainInit, CallInit DEF Inv
<1> QED
  BY <1>1, <1>2, PTL DEF Spec

\* A call is ordered after everything acknowledged before it began:
\* RealTimeOrder holds under every fault.
THEOREM RealTimeOrdered == Spec => []RealTimeOrder
<1>1. Inv => RealTimeOrder
  BY DEF Inv, CallInv
<1> QED
  BY <1>1, Invariant, PTL

-----------------------------------------------------------------------------
(* The log over a file implements AppendOnlyChain, under every fault: one  *)
(* durable chain that only grows, and receipts only for what is on it.     *)

\* LastHash is the hash of the last entry of a file, or the genesis hash.
LEMMA LastHashIs ==
  ASSUME NEW f \in Seq(Chunk)
  PROVE  \/ /\ \A q \in DOMAIN f : ~IsJson(f[q])
            /\ LastHash(f) = GENESIS_PREV_HASH
         \/ \E l \in DOMAIN f : /\ IsJson(f[l])
                                /\ \A q \in DOMAIN f : q > l => ~IsJson(f[q])
                                /\ LastHash(f) = f[l].entry.entry_hash
<1>1. CASE ~HasEntry(f)
  BY <1>1 DEF HasEntry, LastHash
<1>2. CASE HasEntry(f)
  <2> DEFINE S == { i \in DOMAIN f : IsJson(f[i]) }
  <2>1. Len(f) \in Nat /\ S \subseteq 1..Len(f) /\ S # {}
    BY <1>2 DEF HasEntry
  <2>2. PICK m \in S : \A j \in S : j <= m
    <3> HIDE DEF S
    <3> QED
      BY <2>1, Greatest
  <2>3. m \in LastEntry(f)
    BY <2>1, <2>2 DEF LastEntry
  <2> DEFINE l == CHOOSE i \in LastEntry(f) : TRUE
  <2>4. l \in LastEntry(f)
    BY <2>3
  <2>5. LastHash(f) = f[l].entry.entry_hash
    BY <1>2 DEF LastHash
  <2> HIDE DEF l
  <2> QED
    BY <2>4, <2>5 DEF LastEntry
<1> QED
  BY <1>1, <1>2

\* The last entry of a file is the only one with no entry behind it.
LEMMA LastHashAt ==
  ASSUME NEW f \in Seq(Chunk), NEW l \in DOMAIN f, IsJson(f[l]),
         \A q \in DOMAIN f : q > l => ~IsJson(f[q])
  PROVE  LastHash(f) = f[l].entry.entry_hash
<1>1. PICK m \in DOMAIN f : /\ IsJson(f[m])
                            /\ \A q \in DOMAIN f : q > m => ~IsJson(f[q])
                            /\ LastHash(f) = f[m].entry.entry_hash
  BY LastHashIs
<1>2. l = m
  BY <1>1
<1> QED
  BY <1>1, <1>2

\* The durable hash is that of the last entry fsync has made safe.
LEMMA DurableIs ==
  ASSUME StoreTypeOK
  PROVE  /\ DurableHash \in Hash
         /\ \/ /\ \A q \in 1..synced : ~IsJson(file[q])
               /\ DurableHash = GENESIS_PREV_HASH
            \/ \E l \in 1..synced : /\ IsJson(file[l])
                                    /\ \A q \in 1..synced : q > l => ~IsJson(file[q])
                                    /\ DurableHash = file[l].entry.entry_hash
<1>1. /\ Durable \in Seq(Chunk) /\ DOMAIN Durable = 1..synced
      /\ \A q \in 1..synced : Durable[q] = file[q]
  BY DEF StoreTypeOK, Durable
<1>2. \/ /\ \A q \in 1..synced : ~IsJson(file[q])
         /\ DurableHash = GENESIS_PREV_HASH
      \/ \E l \in 1..synced : /\ IsJson(file[l])
                              /\ \A q \in 1..synced : q > l => ~IsJson(file[q])
                              /\ DurableHash = file[l].entry.entry_hash
  <2>1. \/ /\ \A q \in DOMAIN Durable : ~IsJson(Durable[q])
           /\ LastHash(Durable) = GENESIS_PREV_HASH
        \/ \E l \in DOMAIN Durable : /\ IsJson(Durable[l])
                                     /\ \A q \in DOMAIN Durable : q > l => ~IsJson(Durable[q])
                                     /\ LastHash(Durable) = Durable[l].entry.entry_hash
    BY <1>1, LastHashIs
  <2>2. CASE \A q \in DOMAIN Durable : ~IsJson(Durable[q])
    BY <1>1, <2>1, <2>2 DEF DurableHash
  <2>3. ASSUME NEW l \in DOMAIN Durable, IsJson(Durable[l]),
               \A q \in DOMAIN Durable : q > l => ~IsJson(Durable[q]),
               LastHash(Durable) = Durable[l].entry.entry_hash
        PROVE  /\ l \in 1..synced /\ IsJson(file[l])
               /\ \A q \in 1..synced : q > l => ~IsJson(file[q])
               /\ DurableHash = file[l].entry.entry_hash
    BY <1>1, <2>3 DEF DurableHash
  <2> QED
    BY <2>1, <2>2, <2>3
<1>3. 1..synced \subseteq DOMAIN file
  BY DEF StoreTypeOK
<1> QED
  BY <1>2, <1>3, EntryType, GenesisType

\* Every receipt's entry is on the durable chain.
LEMMA IssuedOnDurable ==
  ASSUME TypeOK, IssuedAnchored, NEW r \in Issued
  PROVE  IsPrefix(r.entry_hash, DurableHash)
<1>0. synced \in 0..Len(file) /\ DOMAIN file = 1..Len(file) /\ StoreTypeOK
  BY DEF TypeOK, StoreTypeOK
<1>1. PICK p \in At(r) : p <= synced /\ AllExtend(p, r)
  BY DEF IssuedAnchored
<1>2. p \in 1..synced /\ IsJson(file[p])
  BY <1>0, <1>1 DEF At
<1>3. PICK l \in 1..synced : /\ IsJson(file[l])
                             /\ \A q \in 1..synced : q > l => ~IsJson(file[q])
                             /\ DurableHash = file[l].entry.entry_hash
  BY <1>0, <1>2, DurableIs
<1>4. l \in DOMAIN file /\ l >= p
  BY <1>0, <1>2, <1>3
<1> QED
  BY <1>1, <1>3, <1>4 DEF AllExtend

\* The durable chain stays while the durable part of the file stays.
LEMMA DurableKept ==
  ASSUME StoreTypeOK, StoreTypeOK', synced' = synced, \A q \in 1..synced : file'[q] = file[q]
  PROVE  DurableHash' = DurableHash
<1>1. /\ Durable \in Seq(Chunk) /\ Len(Durable) = synced
      /\ \A q \in 1..synced : Durable[q] = file[q]
  BY DEF StoreTypeOK, Durable
<1>2. /\ Durable' \in Seq(Chunk) /\ Len(Durable') = synced
      /\ \A q \in 1..synced : Durable'[q] = file'[q]
  BY DEF StoreTypeOK, Durable
<1>3. Durable' = Durable
  BY <1>1, <1>2, SeqEqual
<1> QED
  BY <1>3 DEF DurableHash

\* The entry being appended strictly continues the durable chain.
LEMMA EntryBeyond ==
  ASSUME TypeOK, ChainInv, DurableExtends, Appending
  PROVE  IsStrictPrefix(DurableHash, entry.entry_hash)
<1>1. DurableHash \in Seq(Fields)
  BY DurableIs DEF TypeOK, Hash
<1>2. prev_hash \in Seq(Fields) /\ canonical(entry) \in Fields
  BY EntryExtends DEF TypeOK, EngineTypeOK, Hash, canonical, Fields, AuditEntry
<1>3. entry.entry_hash = Append(prev_hash, canonical(entry)) /\ IsPrefix(DurableHash, prev_hash)
  BY DEF ChainInv, Chained, Appending, DurableExtends
<1>4. IsPrefix(DurableHash, entry.entry_hash)
  BY <1>1, <1>2, <1>3, PrefixAppend
<1>5. Len(DurableHash) <= Len(prev_hash) /\ Len(entry.entry_hash) = Len(prev_hash) + 1
  BY <1>1, <1>2, <1>3, PrefixLen
<1>6. DurableHash # entry.entry_hash
  BY <1>1, <1>2, <1>5
<1> QED
  BY <1>4, <1>6 DEF IsStrictPrefix

\* A step that leaves the durable part of the file, adds nothing to the file
\* but the entry being appended, and at most forgets the writer's state.
LEMMA DurableFrame ==
  ASSUME TypeOK, TypeOK', ChainInv, DurableExtends,
         synced' = synced, \A q \in 1..synced : file'[q] = file[q],
         \A q \in DOMAIN file' : IsJson(file'[q]) =>
           \/ q \in DOMAIN file /\ file'[q] = file[q]
           \/ Appending /\ file'[q].entry = entry,
         up' => up /\ prev_hash' = prev_hash
  PROVE  DurableExtends' /\ DurableHash' = DurableHash
<1>1. DurableHash' = DurableHash
  BY DurableKept DEF TypeOK
<1>2. ASSUME NEW q \in DOMAIN file', q > synced', IsJson(file'[q])
      PROVE  IsStrictPrefix(DurableHash, file'[q].entry.entry_hash)
  BY <1>2, EntryBeyond DEF DurableExtends
<1> QED
  BY <1>1, <1>2 DEF DurableExtends

\* What the log promises of a step.
Promised == [Promise!Next]_<< DurableHash, { r.entry_hash : r \in acked } >>

\* A step that leaves the durable chain and the receipts alone is a stutter.
LEMMA Stutters ==
  ASSUME DurableHash' = DurableHash, acked' = acked
  PROVE  Promised
BY DEF Promised

\* A step that makes the durable chain longer extends it.
LEMMA Extends ==
  ASSUME IsStrictPrefix(DurableHash, DurableHash') \/ DurableHash' = DurableHash, acked' = acked
  PROVE  Promised
BY DEF Promised, Promise!Next, Promise!Extend, Promise!IsStrictPrefix, Promise!IsPrefix,
       IsStrictPrefix, IsPrefix

\* Every step keeps DurableExtends and the promise.
LEMMA PromiseStep ==
  TypeOK /\ TypeOK' /\ ChainInv /\ DurableExtends /\ [Next]_vars => DurableExtends' /\ Promised
<1> SUFFICES ASSUME TypeOK, TypeOK', ChainInv, DurableExtends, [Next]_vars
             PROVE  DurableExtends' /\ Promised
  OBVIOUS
<1>0. /\ DOMAIN file = 1..Len(file) /\ Len(file) \in Nat
      /\ synced \in 0..Len(file)
      /\ file \in Seq(Chunk) /\ StoreTypeOK
  BY DEF TypeOK, StoreTypeOK
<1>1. ASSUME UNCHANGED storeVars, up' => up /\ prev_hash' = prev_hash
      PROVE  DurableExtends' /\ DurableHash' = DurableHash
  BY <1>0, <1>1, DurableFrame DEF storeVars
<1>2. CASE \/ \E c \in Caller, b \in Body : CallRecord(c, b)
           \/ \E c \in Caller : CallHead(c)
           \/ AnswerHead \/ RefuseSeal \/ Panic \/ StartAppend \/ WriteError \/ UNCHANGED vars
  <2>1. UNCHANGED storeVars /\ acked' = acked /\ up' = up /\ prev_hash' = prev_hash
    BY <1>2 DEF CallRecord, Record, CallHead, HeadCall, AnswerHead, WriterHead, RefuseSeal, SealErr,
                Panic, WriterPanics, StartAppend, BeginAppend, WriteError, AppendErr, WriteFails,
                vars, engineVars
  <2> QED
    BY <1>1, <2>1, Stutters
<1>3. ASSUME NEW c \in Caller, CallReturn(c) PROVE DurableExtends' /\ Promised
  <2>1. DurableExtends' /\ DurableHash' = DurableHash
    BY <1>1, <1>3 DEF CallReturn, Return
  <2>2. CASE reply[c].kind # "ok"
    BY <1>3, <2>1, <2>2, Stutters DEF CallReturn, Return
  <2>3. CASE reply[c].kind = "ok"
    <3> DEFINE h == reply[c].receipt.entry_hash
    <3>1. acked' = acked \cup {reply[c].receipt}
      BY <1>3, <2>3 DEF CallReturn, Return
    <3>2. { r.entry_hash : r \in acked' } = { r.entry_hash : r \in acked } \cup {h}
      BY <3>1
    <3>3. IsPrefix(h, DurableHash)
      BY <2>3, IssuedOnDurable DEF Issued, ChainInv
    <3> HIDE DEF h
    <3>4. CASE h \in { r.entry_hash : r \in acked }
      BY <2>1, <3>2, <3>4 DEF Promised
    <3>5. CASE h \notin { r.entry_hash : r \in acked }
      <4>1. Promise!Acknowledge
        BY <2>1, <3>2, <3>3, <3>5 DEF Promise!Acknowledge, Promise!IsPrefix, IsPrefix
      <4> QED
        BY <2>1, <4>1 DEF Promised, Promise!Next
    <3> QED
      BY <2>1, <3>4, <3>5
  <2> QED
    BY <2>2, <2>3
<1>4. CASE StoreWrite
  <2>1. Appending /\ file' = file \o Line(entry) /\ synced' = synced /\ UNCHANGED engineVars
    BY <1>4 DEF StoreWrite, WriteLine
  <2>2. Line(entry) \in Seq(Chunk) /\ Line(entry) = << Json(entry), NewLine >>
    BY <2>1 DEF Appending, TypeOK, EngineTypeOK, Line, Json, NewLine, Chunk
  <2>3. /\ DOMAIN file' = 1..(Len(file) + 2)
        /\ \A q \in 1..Len(file) : file'[q] = file[q]
        /\ file'[Len(file) + 1] = Json(entry)
        /\ file'[Len(file) + 2] = NewLine
    BY <1>0, <2>1, <2>2
  <2>4. \A q \in DOMAIN file' : IsJson(file'[q]) =>
          (q \in DOMAIN file /\ file'[q] = file[q]) \/ file'[q].entry = entry
    BY <1>0, <2>3 DEF IsJson, Json, NewLine
  <2>5. \A q \in 1..synced : file'[q] = file[q]
    BY <1>0, <2>3
  <2>6. DurableExtends' /\ DurableHash' = DurableHash
    BY <2>1, <2>4, <2>5, DurableFrame DEF engineVars
  <2> QED
    BY <2>1, <2>6, Stutters DEF engineVars
<1>5. CASE StoreSync
  <2>1. /\ Appending /\ dirty /\ file' = file /\ synced' = Len(file)
        /\ prev_hash' = entry.entry_hash /\ acked' = acked
    BY <1>5 DEF StoreSync, AppendOk, Fsync
  <2>2. /\ Len(file) - 1 \in DOMAIN file
        /\ file[Len(file) - 1] = Json(entry) /\ file[Len(file)] = NewLine
    BY <1>0, <2>1 DEF ChainInv, DirtyLine
  <2>3. Durable' = file
    BY <1>0, <2>1 DEF Durable
  <2>4. PICK l \in DOMAIN file : l = Len(file) - 1
    BY <2>2
  <2>5. IsJson(file[l]) /\ \A q \in DOMAIN file : q > l => ~IsJson(file[q])
    BY <1>0, <2>2, <2>4 DEF IsJson, Json, NewLine
  <2>6. DurableHash' = entry.entry_hash
    BY <1>0, <2>2, <2>3, <2>4, <2>5, LastHashAt DEF DurableHash, Json
  <2>7. IsPrefix(entry.entry_hash, entry.entry_hash)
    BY <2>1, EntryExtends, PrefixReflexive DEF Hash
  <2>8. DurableExtends'
    BY <1>0, <2>1, <2>6, <2>7 DEF DurableExtends
  <2> QED
    BY <2>1, <2>6, <2>8, EntryBeyond, Extends
<1>6. CASE ShortWriteError \/ CrashInWrite
  <2>1. /\ Appending /\ WriteFailsShort(entry) /\ acked' = acked
        /\ (up' => up /\ prev_hash' = prev_hash)
    BY <1>6 DEF ShortWriteError, AppendErr, CrashInWrite, Kill, Forget
  <2>2. synced' = synced /\ \A q \in 1..synced : file'[q] = file[q]
    BY <1>0, <2>1, ShortWritten DEF TypeOK
  <2>3. DurableExtends' /\ DurableHash' = DurableHash
    BY <2>1, <2>2, ShortWritten, DurableFrame DEF TypeOK
  <2> QED
    BY <2>1, <2>3, Stutters
<1>7. CASE SyncError \/ Close \/ Crash
  <2>1. /\ UNCHANGED << file, synced, acked >> /\ (up' => up /\ prev_hash' = prev_hash)
    BY <1>7 DEF SyncError, AppendErr, FsyncFails, Close, Drop, Crash, Kill, Forget, StoreKill
  <2>2. DurableExtends' /\ DurableHash' = DurableHash
    BY <1>0, <2>1, DurableFrame
  <2> QED
    BY <2>1, <2>2, Stutters
<1>8. CASE Open
  <2>1. PICK t \in read_tail : open(t) /\ Build(t.seq, t.hash)
    BY <1>8 DEF Open
  <2>2. UNCHANGED << file, synced, acked >> /\ prev_hash' = t.hash
    BY <2>1 DEF open, Build, storeVars
  <2>3. DurableHash' = DurableHash
    BY <1>0, <2>2, DurableKept DEF TypeOK
  <2>4. IsPrefix(DurableHash, t.hash)
    <3>1. CASE HasEntry(file)
      <4>1. PICK i \in LastEntry(file) : t.hash = file[i].entry.entry_hash
        BY <2>1, <3>1 DEF read_tail
      <4>2. i \in DOMAIN file /\ IsJson(file[i]) /\ \A j \in DOMAIN file : j > i => ~IsJson(file[j])
        BY DEF LastEntry
      <4>3. CASE i > synced
        BY <4>1, <4>2, <4>3 DEF DurableExtends, IsStrictPrefix
      <4>4. CASE i <= synced
        <5>1. PICK l \in 1..synced : IsJson(file[l]) /\ DurableHash = file[l].entry.entry_hash
                                     /\ \A q \in 1..synced : q > l => ~IsJson(file[q])
          BY <1>0, <4>2, <4>4, DurableIs
        <5>2. l = i
          BY <1>0, <4>2, <4>4, <5>1
        <5> QED
          BY <1>0, <4>1, <4>2, <5>1, <5>2, EntryType, PrefixReflexive DEF Hash
      <4> QED
        BY <1>0, <4>2, <4>3, <4>4
    <3>2. CASE ~HasEntry(file)
      <4>1. t.hash = GENESIS_PREV_HASH
        BY <2>1, <3>2 DEF read_tail
      <4>2. \A q \in 1..synced : ~IsJson(file[q])
        BY <1>0, <3>2 DEF HasEntry
      <4>3. DurableHash = GENESIS_PREV_HASH
        BY <1>0, <4>2, DurableIs
      <4> QED
        BY <4>1, <4>3, GenesisType, PrefixReflexive DEF Hash
    <3> QED
      BY <3>1, <3>2
  <2>5. DurableExtends'
    BY <2>2, <2>3, <2>4 DEF DurableExtends
  <2> QED
    BY <2>2, <2>3, <2>5, Stutters
<1>9. CASE Power
  <2>1. file' \in Surviving /\ synced' = Len(file') /\ ~up' /\ acked' = acked
    BY <1>9 DEF Power, PowerLoss, Forget
  <2>2. /\ synced <= Len(file') /\ \A q \in 1..synced : file'[q] = file[q]
        /\ \A q \in DOMAIN file' : IsJson(file'[q]) => q \in DOMAIN file /\ file'[q] = file[q]
    BY <1>0, <2>1, SurvivingAgrees
  <2>3. file' \in Seq(Chunk) /\ DOMAIN file' = 1..Len(file') /\ Len(file') \in Nat
    BY DEF TypeOK, StoreTypeOK
  <2>4. Durable' = file'
    BY <2>1, <2>3 DEF Durable
  <2>5. DurableExtends'
    BY <2>1, <2>3 DEF DurableExtends
  <2>6. IsStrictPrefix(DurableHash, DurableHash') \/ DurableHash' = DurableHash
    <3>1. CASE \E l \in DOMAIN file' : IsJson(file'[l]) /\ l > synced
      <4>1. PICK l \in DOMAIN file' : IsJson(file'[l]) /\ DurableHash' = file'[l].entry.entry_hash
                                      /\ \A q \in DOMAIN file' : q > l => ~IsJson(file'[q])
        BY <2>3, <2>4, <3>1, LastHashIs DEF DurableHash
      <4>2. l > synced
        BY <1>0, <2>3, <3>1, <4>1
      <4> QED
        BY <2>2, <4>1, <4>2 DEF DurableExtends
    <3>2. CASE \A l \in DOMAIN file' : IsJson(file'[l]) => ~(l > synced)
      <4>1. CASE \A q \in 1..synced : ~IsJson(file[q])
        <5>1. \A q \in DOMAIN file' : ~IsJson(file'[q])
          BY <1>0, <2>2, <2>3, <3>2, <4>1
        <5> QED
          BY <1>0, <2>3, <2>4, <4>1, <5>1, LastHashIs, DurableIs DEF DurableHash
      <4>2. CASE ~\A q \in 1..synced : ~IsJson(file[q])
        <5>1. PICK l \in 1..synced : IsJson(file[l]) /\ DurableHash = file[l].entry.entry_hash
                                     /\ \A q \in 1..synced : q > l => ~IsJson(file[q])
          BY <1>0, <4>2, DurableIs
        <5>2. l \in DOMAIN file' /\ file'[l] = file[l]
          BY <1>0, <2>2, <2>3
        <5>3. \A q \in DOMAIN file' : q > l => ~IsJson(file'[q])
          BY <1>0, <2>2, <2>3, <3>2, <5>1
        <5> QED
          BY <2>3, <2>4, <5>1, <5>2, <5>3, LastHashAt DEF DurableHash
      <4> QED
        BY <4>1, <4>2
    <3> QED
      BY <3>1, <3>2
  <2> QED
    BY <2>1, <2>5, <2>6, Extends
<1> QED
  BY <1>2, <1>3, <1>4, <1>5, <1>6, <1>7, <1>8, <1>9 DEF Next, WriterStep, Dies

\* A fresh log keeps the promise.
LEMMA PromiseInit == Init => DurableExtends /\ Promise!Init
<1> SUFFICES ASSUME Init PROVE DurableExtends /\ Promise!Init
  OBVIOUS
<1>1. file = << >> /\ synced = 0 /\ ~up /\ acked = {}
  BY DEF Init, EngineInit, StoreInit
<1>2. StoreTypeOK
  BY TypeInit DEF TypeOK
<1>3. DOMAIN file = {} /\ \A q \in 1..synced : q \in DOMAIN file
  BY <1>1
<1>4. DurableHash = GENESIS_PREV_HASH
  BY <1>2, <1>3, DurableIs
<1>5. DurableExtends
  BY <1>1, <1>3 DEF DurableExtends
<1> QED
  BY <1>1, <1>4, <1>5 DEF Promise!Init, GENESIS_PREV_HASH

\* Behind the last durable entry the file and the writer only continue its
\* chain, whatever was left there by failed writes and fsyncs:
\* DurableExtends holds under every fault.
THEOREM DurableContinued == Spec => []DurableExtends
<1>1. Inv => TypeOK /\ ChainInv
  BY DEF Inv
<1> QED
  BY <1>1, PromiseInit, PromiseStep, Invariant, PTL DEF Spec

\* The log over a file implements AppendOnlyChain: whatever crashes, power
\* losses and failing writes and fsyncs do, the durable chain only grows and
\* every acknowledgement is of an entry on it (log.rs, record: "Blocks until the
\* entry is durably written").
THEOREM PromiseKept == Spec => KeepsPromise
<1>1. Inv => TypeOK /\ ChainInv
  BY DEF Inv
<1>2. Promised <=> [Promise!Next]_<< DurableHash, { r.entry_hash : r \in acked } >>
  BY DEF Promised
<1> QED
  BY <1>1, <1>2, PromiseInit, PromiseStep, Invariant, PTL DEF Spec, KeepsPromise, Promise!Spec
=============================================================================
