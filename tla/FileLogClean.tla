--------------------------- MODULE FileLogClean -----------------------------
(***************************************************************************)
(* Proofs about a log that is killed between two system calls, whose       *)
(* writer may panic, whose PII may fail to seal and whose writes may fail, *)
(* but that meets no power loss, no write cut short by an error or a kill  *)
(* and no failing fsync: it can always be read, and what is read verifies. *)
(***************************************************************************)
EXTENDS FileLogProofs, FiniteSetTheorems, FunctionTheorems

-----------------------------------------------------------------------------
(* Reading back what was written.                                          *)

\* The lines of es, position by position.
LEMMA WrittenIs ==
  ASSUME NEW es \in Seq(AuditEntry)
  PROVE  /\ Written(es) \in Seq(Chunk)
         /\ Len(Written(es)) = 2 * Len(es)
         /\ DOMAIN Written(es) = 1..(2 * Len(es))
         /\ \A n \in 1..Len(es) : /\ 2 * n - 1 \in DOMAIN Written(es) /\ 2 * n \in DOMAIN Written(es)
                                  /\ Written(es)[2 * n - 1] = Json(es[n])
                                  /\ Written(es)[2 * n] = NewLine
         /\ \A i \in DOMAIN Written(es) : \E n \in 1..Len(es) : i = 2 * n - 1 \/ i = 2 * n
<1> DEFINE N == Len(es)
           w(i) == IF i % 2 = 1 THEN Json(es[(i + 1) \div 2]) ELSE NewLine
<1>0. N \in Nat /\ DOMAIN es = 1..N
  OBVIOUS
<1>1. ASSUME NEW n \in 1..N
      PROVE  /\ (2 * n - 1) % 2 = 1 /\ ((2 * n - 1) + 1) \div 2 = n /\ (2 * n) % 2 = 0
             /\ 2 * n - 1 \in 1..(2 * N) /\ 2 * n \in 1..(2 * N)
  BY <1>0
<1>2. ASSUME NEW i \in 1..(2 * N) PROVE \E n \in 1..N : i = 2 * n - 1 \/ i = 2 * n
  <2>1. (i + 1) \div 2 \in 1..N /\ (i = 2 * ((i + 1) \div 2) - 1 \/ i = 2 * ((i + 1) \div 2))
    BY <1>0
  <2> QED
    BY <2>1
<1>3. ASSUME NEW n \in 1..N PROVE w(2 * n - 1) = Json(es[n]) /\ w(2 * n) = NewLine
  BY <1>1
<1>4. \A n \in 1..N : Json(es[n]) \in Chunk
  BY <1>0 DEF Json, Chunk
<1>5. NewLine \in Chunk
  BY DEF NewLine, Chunk
<1>6. ASSUME NEW i \in 1..(2 * N) PROVE w(i) \in Chunk
  BY <1>2, <1>3, <1>4, <1>5
<1>7. Written(es) = [i \in 1..(2 * N) |-> w(i)]
  BY DEF Written
<1> HIDE DEF w
<1>8. Written(es) \in [1..(2 * N) -> Chunk] /\ 2 * N \in Nat
  BY <1>0, <1>6, <1>7
<1>9. Written(es) \in Seq(Chunk) /\ Len(Written(es)) = 2 * N
  BY <1>8, IsASeq
<1> QED
  BY <1>1, <1>2, <1>3, <1>7, <1>8, <1>9

\* One more line.
LEMMA WrittenAppend ==
  ASSUME NEW es \in Seq(AuditEntry), NEW e \in AuditEntry
  PROVE  Written(Append(es, e)) = Written(es) \o Line(e)
<1> DEFINE N == Len(es)
           ne == Append(es, e)
           L == Written(es) \o Line(e)
<1>0. /\ N \in Nat /\ ne \in Seq(AuditEntry) /\ Len(ne) = N + 1
      /\ ne[N + 1] = e /\ \A n \in 1..N : ne[n] = es[n]
  OBVIOUS
<1> HIDE DEF ne
<1>1. Line(e) \in Seq(Chunk) /\ Line(e) = << Json(e), NewLine >>
  BY DEF Line, Json, NewLine, Chunk
<1>2. Written(es) \in Seq(Chunk) /\ Len(Written(es)) = 2 * N
  BY WrittenIs
<1>3. /\ L \in Seq(Chunk) /\ Len(L) = 2 * N + 2
      /\ \A i \in 1..(2 * N) : L[i] = Written(es)[i]
      /\ L[2 * N + 1] = Json(e) /\ L[2 * N + 2] = NewLine
  BY <1>0, <1>1, <1>2
<1>4. /\ Written(ne) \in Seq(Chunk) /\ Len(Written(ne)) = 2 * N + 2
      /\ DOMAIN Written(ne) = 1..(2 * N + 2)
  <2>1. /\ Written(ne) \in Seq(Chunk) /\ Len(Written(ne)) = 2 * Len(ne)
        /\ DOMAIN Written(ne) = 1..(2 * Len(ne))
    BY <1>0, WrittenIs
  <2>2. 2 * Len(ne) = 2 * N + 2
    BY <1>0
  <2> QED
    BY <2>1, <2>2
<1>5. ASSUME NEW i \in 1..(2 * N + 2) PROVE Written(ne)[i] = L[i]
  <2>1. PICK n \in 1..(N + 1) : i = 2 * n - 1 \/ i = 2 * n
    <3>1. i \in DOMAIN Written(ne) /\ 1..Len(ne) = 1..(N + 1)
      BY <1>0, <1>4
    <3>2. \E n \in 1..Len(ne) : i = 2 * n - 1 \/ i = 2 * n
      BY <1>0, <3>1, WrittenIs
    <3> QED
      BY <3>1, <3>2
  <2>2. Written(ne)[2 * n - 1] = Json(ne[n]) /\ Written(ne)[2 * n] = NewLine
    BY <1>0, WrittenIs
  <2>3. CASE n = N + 1
    <3>1. 2 * n - 1 = 2 * N + 1 /\ 2 * n = 2 * N + 2
      BY <1>0, <2>3
    <3> QED
      BY <1>0, <1>3, <2>1, <2>2, <2>3, <3>1
  <2>4. CASE n # N + 1
    <3>1. n \in 1..N /\ 2 * n - 1 \in 1..(2 * N) /\ 2 * n \in 1..(2 * N)
      BY <1>0, <2>4
    <3>2. Written(es)[2 * n - 1] = Json(es[n]) /\ Written(es)[2 * n] = NewLine
      BY <3>1, WrittenIs
    <3> QED
      BY <1>0, <1>3, <2>1, <2>2, <3>1, <3>2
  <2> QED
    BY <2>3, <2>4
<1> HIDE DEF L
<1> QED
  BY <1>3, <1>4, <1>5, SeqEqual DEF L, ne

\* read_all accepts such a file, and its last entry is the last written.
LEMMA WrittenReadable ==
  ASSUME NEW es \in Seq(AuditEntry)
  PROVE  /\ Readable(Written(es))
         /\ HasEntry(Written(es)) <=> es # << >>
         /\ \A i \in LastEntry(Written(es)) : i = 2 * Len(es) - 1
<1> DEFINE f == Written(es)
           N == Len(es)
<1>0. N \in Nat
  OBVIOUS
<1>1. /\ DOMAIN f = 1..(2 * N)
      /\ \A n \in 1..N : /\ 2 * n - 1 \in DOMAIN f /\ 2 * n \in DOMAIN f
                         /\ f[2 * n - 1] = Json(es[n]) /\ f[2 * n] = NewLine
      /\ \A i \in DOMAIN f : \E n \in 1..N : i = 2 * n - 1 \/ i = 2 * n
  BY WrittenIs
<1> HIDE DEF f
<1>2. \A e : Json(e).kind = "json" /\ IsJson(Json(e))
  BY DEF Json, IsJson
<1>3. NewLine.kind = "newline" /\ ~IsJson(NewLine)
  BY DEF NewLine, IsJson
<1>4. Readable(f)
  <2> SUFFICES ASSUME NEW i \in DOMAIN f
               PROVE  /\ f[i].kind # "torn"
                      /\ IsJson(f[i]) /\ i + 1 \in DOMAIN f => f[i + 1].kind = "newline"
    BY DEF Readable
  <2>1. PICK n \in 1..N : i = 2 * n - 1 \/ i = 2 * n
    BY <1>1
  <2>2. CASE i = 2 * n - 1
    <3>1. i + 1 = 2 * n
      BY <1>0, <2>2
    <3> QED
      BY <1>1, <1>2, <1>3, <2>2, <3>1
  <2>3. CASE i = 2 * n
    BY <1>1, <1>3, <2>3
  <2> QED
    BY <2>1, <2>2, <2>3
<1>5. CASE es = << >>
  <2>1. N = 0
    BY <1>5
  <2>2. DOMAIN f = {}
    BY <1>1, <2>1
  <2> QED
    BY <1>4, <1>5, <2>2 DEF HasEntry, LastEntry, f
<1>6. CASE es # << >>
  <2>1. N \in 1..N /\ N > 0
    BY <1>0, <1>6
  <2>2. 2 * N - 1 \in DOMAIN f /\ IsJson(f[2 * N - 1])
    BY <1>1, <1>2, <2>1
  <2>3. ASSUME NEW i \in LastEntry(f) PROVE i = 2 * N - 1
    <3>1. i \in DOMAIN f /\ IsJson(f[i]) /\ ~(2 * N - 1 > i)
      BY <2>2 DEF LastEntry
    <3>2. PICK n \in 1..N : i = 2 * n - 1 \/ i = 2 * n
      BY <1>1, <3>1
    <3>3. i = 2 * n - 1
      BY <1>1, <1>3, <3>1, <3>2
    <3> QED
      BY <1>0, <3>1, <3>3
  <2> QED
    BY <1>4, <1>6, <2>2, <2>3 DEF HasEntry, f
<1> QED
  BY <1>5, <1>6

\* There are m odd numbers below 2m.
LEMMA OddCount ==
  ASSUME NEW m \in Nat, NEW S, S = { 2 * n - 1 : n \in 1..m }
  PROVE  Cardinality(S) = m
<1> DEFINE F == [n \in 1..m |-> 2 * n - 1]
<1>1. F \in [1..m -> S]
  OBVIOUS
<1>2. \A a, b \in 1..m : F[a] = F[b] => a = b
  OBVIOUS
<1>3. \A t \in S : \E s \in 1..m : F[s] = t
  OBVIOUS
<1> HIDE DEF F
<1>4. F \in Bijection(1..m, S)
  BY <1>1, <1>2, <1>3, Fun_IsBij
<1> QED
  BY <1>4, FS_CountingElements DEF ExistsBijection

\* What is read is what was written.
LEMMA WrittenRead ==
  ASSUME NEW es \in Seq(AuditEntry)
  PROVE  read_all(Written(es)) = es
<1> DEFINE f == Written(es)
           N == Len(es)
<1>0. N \in Nat /\ DOMAIN es = 1..N
  OBVIOUS
<1>1. /\ DOMAIN f = 1..(2 * N)
      /\ \A n \in 1..N : /\ 2 * n - 1 \in DOMAIN f /\ 2 * n \in DOMAIN f
                         /\ f[2 * n - 1] = Json(es[n]) /\ f[2 * n] = NewLine
      /\ \A i \in DOMAIN f : \E n \in 1..N : i = 2 * n - 1 \/ i = 2 * n
  BY WrittenIs
<1> HIDE DEF f
<1>2. JsonAt(f) = { 2 * n - 1 : n \in 1..N }
  <2>1. \A e : IsJson(Json(e)) /\ Json(e).entry = e
    BY DEF Json, IsJson
  <2>2. ~IsJson(NewLine)
    BY DEF NewLine, IsJson
  <2>3. ASSUME NEW i \in JsonAt(f) PROVE i \in { 2 * n - 1 : n \in 1..N }
    BY <1>1, <2>2 DEF JsonAt
  <2>4. ASSUME NEW n \in 1..N PROVE 2 * n - 1 \in JsonAt(f)
    BY <1>1, <2>1 DEF JsonAt
  <2> QED
    BY <2>3, <2>4
<1>3. Cardinality(JsonAt(f)) = N
  BY <1>0, <1>2, OddCount
<1>4. ASSUME NEW m \in 1..N PROVE Cardinality({ q \in JsonAt(f) : q <= 2 * m - 1 }) = m
  <2>1. { q \in JsonAt(f) : q <= 2 * m - 1 } = { 2 * n - 1 : n \in 1..m }
    BY <1>0, <1>2
  <2> QED
    BY <1>0, <2>1, OddCount
<1>5. ASSUME NEW n \in 1..N PROVE Nth(f, n) = 2 * n - 1
  <2>1. 2 * n - 1 \in JsonAt(f) /\ Cardinality({ q \in JsonAt(f) : q <= 2 * n - 1 }) = n
    BY <1>2, <1>4
  <2>2. ASSUME NEW p \in JsonAt(f), Cardinality({ q \in JsonAt(f) : q <= p }) = n PROVE p = 2 * n - 1
    <3>1. PICK m \in 1..N : p = 2 * m - 1
      BY <1>2
    <3>2. m = n
      BY <1>4, <2>2, <3>1
    <3> QED
      BY <3>1, <3>2
  <2> QED
    BY <2>1, <2>2 DEF Nth
<1>6. ASSUME NEW n \in 1..N PROVE f[Nth(f, n)].entry = es[n]
  <2>1. f[Nth(f, n)] = Json(es[n])
    BY <1>1, <1>5
  <2> QED
    BY <2>1 DEF Json
<1>7. read_all(f) = [n \in 1..N |-> f[Nth(f, n)].entry]
  BY <1>3 DEF read_all
<1>8. read_all(f) = [n \in 1..N |-> es[n]]
  BY <1>6, <1>7
<1>9. es = [n \in 1..N |-> es[n]]
  BY <1>0
<1> QED
  BY <1>8, <1>9 DEF f

-----------------------------------------------------------------------------
(* Verification.                                                           *)

\* A chain numbered and linked from genesis passes verification.
LEMMA LinkedValid ==
  ASSUME NEW es \in Seq(AuditEntry), Linked(es)
  PROVE  is_valid(verify_entries(es))
<1>1. ASSUME NEW i \in DOMAIN es PROVE ViolationsAt(NoAnchor, es, i) = {}
  <2>0. /\ es[i].seq = i /\ es[i].entry_hash = recompute_hash(es[i])
        /\ es[i].prev_hash = IF i = 1 THEN GENESIS_PREV_HASH ELSE es[i - 1].entry_hash
    BY DEF Linked
  <2>1. ContentViolations(es[i]) = {}
    BY <2>0 DEF ContentViolations
  <2>2. CASE i = 1
    <3>1. FirstViolations(NoAnchor, es[1]) = {}
      BY <2>0, <2>2 DEF FirstViolations, NoAnchor
    <3> QED
      BY <2>1, <2>2, <3>1 DEF ViolationsAt
  <2>3. CASE i # 1
    <3>1. i - 1 \in DOMAIN es /\ i = (i - 1) + 1
      BY <2>3
    <3>2. es[i - 1].seq = i - 1
      BY <3>1 DEF Linked
    <3>3. LinkViolations(es[i - 1], es[i]) = {}
      BY <2>0, <2>3, <3>1, <3>2 DEF LinkViolations
    <3> QED
      BY <2>1, <2>3, <3>3 DEF ViolationsAt
  <2> QED
    BY <2>2, <2>3
<1>2. verify_entries(es).violations =
        UNION { { [seq |-> es[i].seq, kind |-> k] : k \in ViolationsAt(NoAnchor, es, i) } : i \in DOMAIN es }
  BY DEF verify_entries, verify_entries_from
<1>3. verify_entries(es).violations = {}
  BY <1>1, <1>2
<1> QED
  BY <1>3 DEF is_valid

\* An entry sealed on the head of a chain continues it.
LEMMA LinkedAppend ==
  ASSUME NEW es \in Seq(AuditEntry), Linked(es), NEW e \in AuditEntry,
         e.seq = Len(es) + 1, e.prev_hash = HeadOf(es).hash, e.entry_hash = recompute_hash(e)
  PROVE  Linked(Append(es, e))
<1> DEFINE ne == Append(es, e)
           N == Len(es)
<1>1. /\ N \in Nat /\ DOMAIN es = 1..N /\ DOMAIN ne = 1..(N + 1)
      /\ ne[N + 1] = e /\ \A n \in 1..N : ne[n] = es[n]
  OBVIOUS
<1>2. e.prev_hash = IF N + 1 = 1 THEN GENESIS_PREV_HASH ELSE es[N].entry_hash
  <2>1. es = << >> <=> N = 0
    BY <1>1
  <2> QED
    BY <1>1, <2>1 DEF HeadOf
<1> HIDE DEF ne
<1>3. ASSUME NEW i \in DOMAIN ne
      PROVE  /\ ne[i].seq = i /\ ne[i].entry_hash = recompute_hash(ne[i])
             /\ ne[i].prev_hash = IF i = 1 THEN GENESIS_PREV_HASH ELSE ne[i - 1].entry_hash
  <2>1. CASE i = N + 1
    <3>1. i # 1 => i - 1 \in 1..N /\ i - 1 = N
      BY <1>1, <2>1
    <3> QED
      BY <1>1, <1>2, <2>1, <3>1
  <2>2. CASE i # N + 1
    <3>1. i \in DOMAIN es /\ ne[i] = es[i]
      BY <1>1, <2>2
    <3>2. i # 1 => ne[i - 1] = es[i - 1]
      BY <1>1, <3>1
    <3> QED
      BY <3>1, <3>2 DEF Linked
  <2> QED
    BY <2>1, <2>2
<1> QED
  BY <1>3 DEF Linked, ne

-----------------------------------------------------------------------------
(* The steps of such a log.                                                *)

\* The faults that leave something in the file the writer does not know of do
\* not occur.
NoDamage == Faults \cap {"power", "short_write", "kill_write", "sync_fail"} = {}

\* Next without PowerLoss, WriteFailsShort and FsyncFails.
CleanWriterStep ==
  \/ AnswerHead \/ RefuseSeal \/ Panic \/ StartAppend \/ StoreWrite \/ StoreSync \/ WriteError

CleanNext ==
  \/ \E c \in Caller, b \in Body : CallRecord(c, b)
  \/ \E c \in Caller : CallHead(c)
  \/ \E c \in Caller : CallReturn(c)
  \/ CleanWriterStep
  \/ Open \/ Close \/ Crash

\* Those are the writer's steps, and the deaths, of a log that meets no such
\* fault.
LEMMA UndamagedSteps ==
  ASSUME NoDamage
  PROVE  (WriterStep => CleanWriterStep) /\ (Dies => Crash)
BY DEF NoDamage, WriterStep, CleanWriterStep, Dies, CrashInWrite, Power, ShortWriteError, SyncError

\* A log that is read the same, and answers no head, still knows its heads.
LEMMA HeadsKept ==
  ASSUME CleanHeads, TypeOK,
         \A i \in DOMAIN Log : i \in DOMAIN Log' /\ Log'[i] = Log[i],
         \A h \in heads' : h \in heads \/ \E c \in Caller : reply[c].kind = "head" /\ h = reply[c].head,
         \A c \in Caller : reply'[c].kind = "head" =>
           \/ reply'[c] = reply[c]
           \/ \E i \in DOMAIN Log' : reply'[c].head = [seq |-> Log'[i].seq, hash |-> Log'[i].entry_hash]
           \/ reply'[c].head = [seq |-> 0, hash |-> GENESIS_PREV_HASH]
  PROVE  CleanHeads'
<1> DEFINE Known(h) == \/ h = [seq |-> 0, hash |-> GENESIS_PREV_HASH]
                       \/ \E i \in DOMAIN Log' : h = [seq |-> Log'[i].seq, hash |-> Log'[i].entry_hash]
<1>1. ASSUME NEW h, HeadKnown(h) PROVE Known(h)
  BY <1>1 DEF HeadKnown
<1>2. ASSUME NEW h \in heads' PROVE Known(h)
  BY <1>1, <1>2 DEF CleanHeads
<1>3. ASSUME NEW c \in Caller, reply'[c].kind = "head" PROVE Known(reply'[c].head)
  <2>1. CASE reply'[c] = reply[c]
    <3>1. HeadKnown(reply[c].head) /\ reply'[c].head = reply[c].head
      BY <1>3, <2>1 DEF CleanHeads
    <3>2. Known(reply[c].head)
      BY <3>1, <1>1
    <3> QED
      BY <3>1, <3>2
  <2>2. CASE \E i \in DOMAIN Log' : reply'[c].head = [seq |-> Log'[i].seq, hash |-> Log'[i].entry_hash]
    BY <2>2
  <2>3. CASE reply'[c].head = [seq |-> 0, hash |-> GENESIS_PREV_HASH]
    BY <2>3
  <2> QED
    BY <1>3, <2>1, <2>2, <2>3
<1> QED
  BY <1>2, <1>3 DEF CleanHeads, HeadKnown

\* The step keeps CleanInv, and the log that is read only grows.
LEMMA CleanStep ==
  TypeOK /\ TypeOK' /\ ChainInv /\ CleanInv /\ [CleanNext]_vars => CleanInv' /\ IsPrefix(Log, Log')
<1> SUFFICES ASSUME TypeOK, TypeOK', ChainInv, CleanInv, [CleanNext]_vars
             PROVE  CleanInv' /\ IsPrefix(Log, Log')
  OBVIOUS
<1>0. /\ Log \in Seq(AuditEntry) /\ Linked(Log) /\ file = Written(Log)
      /\ Len(Log) \in Nat /\ DOMAIN Log = 1..Len(Log)
  BY DEF CleanInv, CleanFile
<1>1. IsPrefix(Log, Log)
  BY <1>0, PrefixReflexive
<1>2. ASSUME file' = file PROVE Log' = Log /\ CleanFile' /\ IsPrefix(Log, Log')
  <2>1. Log' = Log
    BY <1>2 DEF Log
  <2> QED
    BY <1>1, <1>2, <2>1 DEF CleanInv, CleanFile
<1>3. ASSUME file' = file, heads' = heads, \A c \in Caller : reply'[c].kind = "head" => reply'[c] = reply[c]
      PROVE  CleanHeads'
  BY <1>2, <1>3, HeadsKept DEF CleanInv
<1>4. CASE \/ \E c \in Caller, b \in Body : CallRecord(c, b)
           \/ \E c \in Caller : CallHead(c)
           \/ UNCHANGED vars
  <2>1. UNCHANGED << file, dirty, up, writer, entry, seq, prev_hash, reply, heads >>
    BY <1>4 DEF CallRecord, Record, CallHead, HeadCall, vars, engineVars, storeVars
  <2> QED
    BY <1>2, <1>3, <2>1 DEF CleanInv, CleanWriter
<1>5. ASSUME NEW c \in Caller, CallReturn(c) PROVE CleanInv' /\ IsPrefix(Log, Log')
  <2>1. /\ UNCHANGED << file, dirty, up, writer, entry, seq, prev_hash >>
        /\ reply' = [reply EXCEPT ![c] = NoReply]
        /\ heads' = IF reply[c].kind = "head" THEN heads \cup {reply[c].head} ELSE heads
    BY <1>5 DEF CallReturn, Return, storeVars
  <2>2. NoReply.kind # "head"
    BY DEF NoReply
  <2>3. \A d \in Caller : reply'[d].kind = "head" => reply'[d] = reply[d]
    BY <2>1, <2>2 DEF TypeOK, EngineTypeOK
  <2>4. CleanHeads'
    BY <1>2, <2>1, <2>3, HeadsKept DEF CleanInv
  <2> QED
    BY <1>2, <2>1, <2>4 DEF CleanInv, CleanWriter
<1>6. CASE AnswerHead
  <2>1. /\ UNCHANGED << file, dirty, up, writer, entry, seq, prev_hash, heads >>
        /\ up /\ writer = "recv"
        /\ reply' = [reply EXCEPT ![Head(chan).caller] = HeadReply(seq, prev_hash)]
    BY <1>6 DEF AnswerHead, WriterHead, Receiving, storeVars
  <2>2. ~dirty
    BY <2>1 DEF ChainInv, DirtyLine, Appending, TypeOK, StoreTypeOK
  <2>3. HeadReply(seq, prev_hash).head = HeadOf(Log)
    BY <2>1, <2>2 DEF CleanInv, CleanWriter, HeadReply
  <2>4. \/ HeadOf(Log) = [seq |-> 0, hash |-> GENESIS_PREV_HASH]
        \/ \E i \in DOMAIN Log : HeadOf(Log) = [seq |-> Log[i].seq, hash |-> Log[i].entry_hash]
    <3>1. CASE Log = << >>
      BY <3>1 DEF HeadOf
    <3>2. CASE Log # << >>
      <4>1. Len(Log) \in DOMAIN Log
        BY <1>0, <3>2
      <4>2. HeadOf(Log) = [seq |-> Log[Len(Log)].seq, hash |-> Log[Len(Log)].entry_hash]
        BY <1>0, <3>2, <4>1 DEF HeadOf, Linked
      <4> QED
        BY <4>1, <4>2
    <3> QED
      BY <3>1, <3>2
  <2>5. \A d \in Caller : reply'[d] = reply[d] \/ reply'[d].head = HeadOf(Log)
    BY <2>1, <2>3 DEF TypeOK, EngineTypeOK
  <2>6. CleanHeads'
    BY <1>2, <2>1, <2>4, <2>5, HeadsKept DEF CleanInv
  <2> QED
    BY <1>2, <2>1, <2>6 DEF CleanInv, CleanWriter
<1>7. ErrReply.kind # "head"
  BY DEF ErrReply
<1>8. CASE RefuseSeal
  <2>1. /\ UNCHANGED << file, dirty, up, writer, entry, seq, prev_hash, heads >>
        /\ reply' = [reply EXCEPT ![Head(chan).caller] = ErrReply]
    BY <1>8 DEF RefuseSeal, SealErr, storeVars
  <2>2. \A d \in Caller : reply'[d].kind = "head" => reply'[d] = reply[d]
    BY <1>7, <2>1 DEF TypeOK, EngineTypeOK
  <2> QED
    BY <1>2, <1>3, <2>1, <2>2 DEF CleanInv, CleanWriter
<1>15. CASE Panic
  <2>1. /\ UNCHANGED << file, dirty, up, entry, seq, prev_hash, reply, heads >>
        /\ writer' = "gone"
    BY <1>15 DEF Panic, WriterPanics, storeVars
  <2> QED
    BY <1>2, <1>3, <2>1 DEF CleanInv, CleanWriter
<1>9. CASE StartAppend
  <2>1. PICK t \in Time : BeginAppend(t) /\ UNCHANGED storeVars
    BY <1>9 DEF StartAppend
  <2>2. /\ UNCHANGED << file, dirty, up, seq, prev_hash, reply, heads >>
        /\ writer = "recv" /\ entry' = Sealed(seq + 1, t, Head(chan).body, prev_hash)
    BY <2>1 DEF BeginAppend, Receiving, storeVars
  <2>3. ~dirty
    BY <2>2 DEF ChainInv, DirtyLine, Appending, TypeOK, StoreTypeOK
  <2>4. entry'.prev_hash = prev_hash
    BY <2>2 DEF Sealed
  <2> QED
    BY <1>2, <1>3, <2>2, <2>3, <2>4 DEF CleanInv, CleanWriter
<1>10. CASE StoreWrite
  <2>1. /\ Appending /\ ~dirty /\ file' = file \o Line(entry) /\ dirty'
        /\ UNCHANGED << up, writer, entry, seq, prev_hash, reply, heads >>
    BY <1>10 DEF StoreWrite, WriteLine, engineVars
  <2>2. /\ entry \in AuditEntry /\ up /\ entry.seq = seq + 1 /\ entry.prev_hash = prev_hash
        /\ entry.entry_hash = recompute_hash(entry)
    BY <2>1 DEF Appending, TypeOK, EngineTypeOK, ChainInv, Chained, CleanInv, CleanWriter, recompute_hash
  <2>3. seq = Len(Log) /\ prev_hash = HeadOf(Log).hash
    <3>1. [seq |-> seq, hash |-> prev_hash] = HeadOf(Log)
      BY <2>1, <2>2 DEF CleanInv, CleanWriter
    <3> QED
      BY <3>1 DEF HeadOf
  <2>4. Append(Log, entry) \in Seq(AuditEntry) /\ Linked(Append(Log, entry))
    BY <1>0, <2>2, <2>3, LinkedAppend
  <2>5. file' = Written(Append(Log, entry))
    BY <1>0, <2>1, <2>2, WrittenAppend
  <2>6. Log' = Append(Log, entry)
    BY <2>4, <2>5, WrittenRead DEF Log
  <2>7. CleanFile'
    BY <2>4, <2>5, <2>6 DEF CleanFile
  <2>8. IsPrefix(Log, Log')
    BY <1>0, <1>1, <2>2, <2>6, PrefixAppend
  <2>9. CleanWriter'
    <3>1. Log' # << >> /\ Log'[Len(Log')] = entry
      BY <1>0, <2>2, <2>6
    <3> QED
      BY <2>1, <2>2, <3>1 DEF CleanWriter
  <2>10. CleanHeads'
    <3>1. \A i \in DOMAIN Log : i \in DOMAIN Log' /\ Log'[i] = Log[i]
      BY <1>0, <2>2, <2>6
    <3> QED
      BY <2>1, <3>1, HeadsKept DEF CleanInv
  <2> QED
    BY <2>7, <2>8, <2>9, <2>10 DEF CleanInv
<1>11. CASE StoreSync
  <2>1. /\ Appending /\ dirty /\ file' = file /\ ~dirty' /\ heads' = heads
        /\ seq' = entry.seq /\ prev_hash' = entry.entry_hash /\ writer' # "append"
        /\ reply' = [reply EXCEPT ![cur] = OkReply(ReceiptOf(entry))]
    BY <1>11 DEF StoreSync, AppendOk, Fsync
  <2>2. OkReply(ReceiptOf(entry)).kind # "head"
    BY DEF OkReply
  <2>3. \A d \in Caller : reply'[d].kind = "head" => reply'[d] = reply[d]
    BY <2>1, <2>2 DEF TypeOK, EngineTypeOK
  <2>4. Log # << >> /\ Log[Len(Log)] = entry
    BY <2>1 DEF CleanInv, CleanWriter
  <2>5. entry.seq = Len(Log)
    BY <1>0, <2>4 DEF Linked
  <2>6. HeadOf(Log) = [seq |-> entry.seq, hash |-> entry.entry_hash]
    BY <2>4, <2>5 DEF HeadOf
  <2> QED
    BY <1>2, <1>3, <2>1, <2>3, <2>6 DEF CleanInv, CleanWriter
<1>12. CASE WriteError
  <2>1. /\ UNCHANGED << file, dirty, up, seq, prev_hash, heads >> /\ ~dirty /\ writer' # "append"
        /\ reply' = [reply EXCEPT ![cur] = ErrReply]
    BY <1>12 DEF WriteError, AppendErr, WriteFails, storeVars
  <2>2. \A d \in Caller : reply'[d].kind = "head" => reply'[d] = reply[d]
    BY <1>7, <2>1 DEF TypeOK, EngineTypeOK
  <2> QED
    BY <1>2, <1>3, <2>1, <2>2 DEF CleanInv, CleanWriter
<1>13. CASE Open
  <2>1. PICK t \in read_tail : open(t) /\ Build(t.seq, t.hash)
    BY <1>13 DEF Open
  <2>2. /\ UNCHANGED << file, dirty, writer, entry, reply, heads >> /\ ~up
        /\ seq' = t.seq /\ prev_hash' = t.hash
    BY <2>1 DEF open, Build, storeVars
  <2>3. writer # "append" /\ ~dirty
    BY <2>2 DEF ChainInv, Chained, DirtyLine, Appending, TypeOK, StoreTypeOK
  <2>4. t = HeadOf(Log)
    <3>1. CASE Log = << >>
      BY <1>0, <2>1, <3>1, WrittenReadable DEF read_tail, HeadOf
    <3>2. CASE Log # << >>
      <4>1. PICK i \in LastEntry(file) : t = [seq |-> file[i].entry.seq, hash |-> file[i].entry.entry_hash]
        BY <1>0, <2>1, <3>2, WrittenReadable DEF read_tail
      <4>2. i = 2 * Len(Log) - 1 /\ Len(Log) \in 1..Len(Log)
        BY <1>0, <3>2, WrittenReadable
      <4>3. file[i] = Json(Log[Len(Log)])
        BY <1>0, <4>2, WrittenIs
      <4>4. file[i].entry = Log[Len(Log)] /\ Log[Len(Log)].seq = Len(Log)
        BY <1>0, <4>2, <4>3 DEF Json, Linked
      <4> QED
        BY <3>2, <4>1, <4>4 DEF HeadOf
    <3> QED
      BY <3>1, <3>2
  <2>5. [seq |-> seq', hash |-> prev_hash'] = HeadOf(Log)
    BY <2>2, <2>4 DEF HeadOf
  <2> QED
    BY <1>2, <1>3, <2>2, <2>3, <2>5 DEF CleanInv, CleanWriter
<1>14. CASE Close \/ Crash
  <2>1. /\ UNCHANGED << file, heads >> /\ ~up' /\ ~dirty' /\ writer' # "append"
        /\ \A d \in Caller : reply'[d] = NoReply
    BY <1>14 DEF Close, Drop, Crash, Kill, Forget, StoreKill
  <2>2. NoReply.kind # "head"
    BY DEF NoReply
  <2> QED
    BY <1>2, <1>3, <2>1, <2>2 DEF CleanInv, CleanWriter
<1> QED
  BY <1>4, <1>5, <1>6, <1>8, <1>9, <1>10, <1>11, <1>12, <1>13, <1>14, <1>15
     DEF CleanNext, CleanWriterStep

\* An empty file is a clean one.
LEMMA CleanInit == Init => CleanInv
<1> SUFFICES ASSUME Init PROVE CleanInv
  OBVIOUS
<1>1. << >> \in Seq(AuditEntry) /\ Len(<< >>) = 0
  OBVIOUS
<1>2. Written(<< >>) = << >>
  <2>1. Written(<< >>) \in Seq(Chunk) /\ Len(Written(<< >>)) = 2 * 0
    BY <1>1, WrittenIs
  <2>2. << >> \in Seq(Chunk) /\ 2 * 0 = 0
    OBVIOUS
  <2> QED
    BY <1>1, <2>1, <2>2, SeqEqual
<1>3. Log = << >>
  BY <1>1, <1>2, WrittenRead DEF Init, StoreInit, Log
<1>4. CleanFile
  BY <1>1, <1>2, <1>3 DEF CleanFile, Linked, Init, StoreInit
<1>5. NoReply.kind # "head"
  BY DEF NoReply
<1> QED
  BY <1>4, <1>5 DEF CleanInv, CleanWriter, CleanHeads, Init, StoreInit, EngineInit

\* Those are steps of the log.
LEMMA CleanIsStep == [CleanNext]_vars => [Next]_vars
BY DEF CleanNext, CleanWriterStep, Next, WriterStep, Dies

\* The log without power losses, writes cut short and failing fsyncs.
CleanSpec == Init /\ [][CleanNext]_vars

\* It is one of the log's behaviours.
LEMMA CleanImplements == CleanSpec => Spec
BY CleanIsStep, PTL DEF CleanSpec, Spec

\* Such a log's file holds the lines of one chain from genesis, to whose end
\* the writer adds (log.rs: the chain state advances exactly when an append
\* succeeded; store.rs: read_tail finds the last line).
THEOREM CleanInvariant == CleanSpec => [](TypeOK /\ ChainInv /\ CleanInv)
<1>1. TypeOK /\ ChainInv /\ CleanInv /\ TypeOK' /\ [CleanNext]_vars => CleanInv'
  BY CleanStep
<1> QED
  BY <1>1, CleanInit, CleanImplements, ChainInvariant, PTL DEF CleanSpec

-----------------------------------------------------------------------------
(* What follows for those who read the log.                                *)

\* A clean log verifies.
LEMMA CleanVerifies == CleanInv => LogVerifies
BY WrittenReadable, LinkedValid DEF CleanInv, CleanFile, LogVerifies

\* What is durable can be read.
LEMMA CleanReads == CleanInv /\ AckedDurable => AckedReadable
<1> SUFFICES ASSUME CleanInv, AckedDurable, NEW r \in acked
             PROVE  Readable(file) /\ \E e \in Range(Log) : ReceiptOf(e) = r
  BY DEF AckedReadable
<1>1. Log \in Seq(AuditEntry) /\ file = Written(Log)
  BY DEF CleanInv, CleanFile
<1>2. PICK i \in DOMAIN file : IsJson(file[i]) /\ ReceiptOf(file[i].entry) = r
  BY DEF AckedDurable, At
<1>3. PICK n \in 1..Len(Log) : i = 2 * n - 1 \/ i = 2 * n
  BY <1>1, <1>2, WrittenIs
<1>4. file[2 * n - 1] = Json(Log[n]) /\ file[2 * n] = NewLine
  BY <1>1, WrittenIs
<1>5. i = 2 * n - 1
  BY <1>2, <1>3, <1>4 DEF NewLine, IsJson
<1>6. file[i].entry = Log[n] /\ n \in DOMAIN Log
  BY <1>1, <1>4, <1>5 DEF Json
<1>7. Log[n] \in Range(Log)
  BY <1>6 DEF Range
<1> QED
  BY <1>1, <1>2, <1>6, <1>7, WrittenReadable

\* A head that was returned is in the file.
LEMMA CleanHeadsOnChain == CleanInv => HeadsOnChain
<1> SUFFICES ASSUME CleanInv, NEW h \in heads, h # [seq |-> 0, hash |-> GENESIS_PREV_HASH]
             PROVE  \E i \in DOMAIN file : /\ IsJson(file[i])
                                           /\ file[i].entry.seq = h.seq
                                           /\ file[i].entry.entry_hash = h.hash
  BY DEF HeadsOnChain
<1>1. Log \in Seq(AuditEntry) /\ file = Written(Log)
  BY DEF CleanInv, CleanFile
<1>2. PICK n \in DOMAIN Log : h = [seq |-> Log[n].seq, hash |-> Log[n].entry_hash]
  BY DEF CleanInv, CleanHeads, HeadKnown
<1>3. n \in 1..Len(Log)
  BY <1>1
<1>4. 2 * n - 1 \in DOMAIN file /\ file[2 * n - 1] = Json(Log[n])
  BY <1>1, <1>3, WrittenIs
<1>5. IsJson(file[2 * n - 1]) /\ file[2 * n - 1].entry = Log[n]
  BY <1>4 DEF Json, IsJson
<1> QED
  BY <1>2, <1>4, <1>5

\* Without those faults the log's steps are the steps above.
LEMMA CleanFaults ==
  ASSUME NoDamage
  PROVE  Spec => CleanSpec
<1>1. [Next]_vars => [CleanNext]_vars
  BY UndamagedSteps DEF Next, CleanNext
<1> QED
  BY <1>1, PTL DEF CleanSpec, Spec

\* Kills outside write_all, panics, failed writes and failed seals never keep
\* the file, apart from a line that is just being written, from being read and
\* verified from genesis.
THEOREM CleanLogVerifies ==
  ASSUME NoDamage
  PROVE  Spec => []LogVerifies
BY CleanFaults, CleanInvariant, CleanVerifies, PTL

\* Nor from returning every entry record() has acknowledged.
THEOREM CleanAckedReadable ==
  ASSUME NoDamage
  PROVE  Spec => []AckedReadable
BY CleanFaults, CleanInvariant, AckedIsDurable, CleanReads, PTL

\* Every head that head() returned stays an entry of the log.
THEOREM CleanHeadsStay ==
  ASSUME NoDamage
  PROVE  Spec => []HeadsOnChain
BY CleanFaults, CleanInvariant, CleanHeadsOnChain, PTL

\* Nothing that could be read is ever taken back: the log that is read only
\* grows at its end.
THEOREM CleanLogGrows ==
  ASSUME NoDamage
  PROVE  Spec => [][IsPrefix(Log, Log')]_vars
<1>1. TypeOK /\ ChainInv /\ CleanInv /\ TypeOK' /\ [CleanNext]_vars => [IsPrefix(Log, Log')]_vars
  BY CleanStep
<1> QED
  BY <1>1, CleanFaults, CleanInvariant, PTL DEF CleanSpec
=============================================================================
