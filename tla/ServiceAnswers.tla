--------------------------- MODULE ServiceAnswers ---------------------------
(***************************************************************************)
(* Proofs about what clients of the HTTP service are told: the inductive   *)
(* invariant SvcInv, and the properties of the answers that follow.        *)
(*                                                                         *)
(* They hold under NoDamage: kills outside write_all, panics, failed       *)
(* seals, failed writes and failed reads are allowed, but no power loss,   *)
(* short write, failing fsync or kill inside write_all.  Reads come back   *)
(* complete or, after an I/O error, empty: SvcInv covers both.             *)
(***************************************************************************)
EXTENDS ServiceProofs

-----------------------------------------------------------------------------
(* The requests.                                                           *)

\* A request that was sent stays what it is, and is not sent again.
Moves(i) ==
  /\ DOMAIN rpc'[i] = DOMAIN rpc[i]
  /\ rpc[i].st # "new" => /\ rpc'[i].op = rpc[i].op
                          /\ rpc'[i].tok = rpc[i].tok
                          /\ rpc'[i].floor = rpc[i].floor
  /\ rpc'[i].st \in {"new", "sent"} => rpc[i].st \in {"new", "sent"}

\* A call whose state and answer change.
LEMMA ToMoves ==
  ASSUME Jobs, NEW i \in Call, NEW st, NEW a, st \notin {"new", "sent"}, To(i, st, a)
  PROVE  /\ DOMAIN rpc' = Call
         /\ \A k \in Call : Moves(k)
         /\ \A k \in Call : k # i => rpc'[k] = rpc[k]
         /\ rpc'[i].st = st /\ rpc'[i].ans = a /\ rpc'[i].floor = rpc[i].floor
         /\ rpc'[i].op = rpc[i].op /\ rpc'[i].tok = rpc[i].tok
<1>1. DOMAIN rpc = Call /\ DOMAIN rpc[i] = {"st", "op", "tok", "floor", "ans"}
  BY DEF Jobs
<1>2. rpc' = [rpc EXCEPT ![i] = [rpc[i] EXCEPT !.st = st, !.ans = a]]
  BY <1>1 DEF To
<1>3. rpc'[i] = [rpc[i] EXCEPT !.st = st, !.ans = a]
  BY <1>1, <1>2
<1>4. /\ DOMAIN rpc'[i] = DOMAIN rpc[i]
      /\ rpc'[i].st = st /\ rpc'[i].ans = a /\ rpc'[i].floor = rpc[i].floor
      /\ rpc'[i].op = rpc[i].op /\ rpc'[i].tok = rpc[i].tok
  BY <1>1, <1>3
<1>5. \A k \in Call : k # i => rpc'[k] = rpc[k]
  BY <1>1, <1>2
<1> QED
  BY <1>1, <1>2, <1>4, <1>5 DEF Moves

\* A call that begins.
LEMMA BeginMoves ==
  ASSUME Jobs, NEW i \in Call, NEW op, NEW tok, NEW st, NEW a, Begin(i, op, tok, st, a)
  PROVE  /\ DOMAIN rpc' = Call
         /\ \A k \in Call : Moves(k)
         /\ \A k \in Call : k # i => rpc'[k] = rpc[k]
         /\ rpc[i].st = "new"
         /\ rpc'[i] = [st |-> st, op |-> op, tok |-> tok, floor |-> Floor, ans |-> a]
<1>1. DOMAIN rpc = Call /\ DOMAIN rpc[i] = {"st", "op", "tok", "floor", "ans"}
  BY DEF Jobs
<1>2. /\ rpc' = [rpc EXCEPT ![i] = [st |-> st, op |-> op, tok |-> tok, floor |-> Floor, ans |-> a]]
      /\ rpc[i].st = "new"
  BY DEF Begin
<1>3. rpc'[i] = [st |-> st, op |-> op, tok |-> tok, floor |-> Floor, ans |-> a]
  BY <1>1, <1>2
<1>4. DOMAIN rpc'[i] = DOMAIN rpc[i]
  BY <1>1, <1>3
<1>5. \A k \in Call : k # i => rpc'[k] = rpc[k]
  BY <1>1, <1>2
<1> QED
  BY <1>1, <1>2, <1>3, <1>4, <1>5 DEF Moves

\* Calls whose connection is cut.
LEMMA CutOffMoves ==
  ASSUME Jobs, NEW states, CutOff(states)
  PROVE  /\ DOMAIN rpc' = Call
         /\ \A k \in Call : Moves(k)
         /\ \A k \in Call : rpc'[k] # rpc[k] => rpc'[k].ans = HttpError /\ rpc'[k].st = "done"
<1>1. DOMAIN rpc' = Call
  BY DEF CutOff
<1>2. ASSUME NEW k \in Call
      PROVE  Moves(k) /\ (rpc'[k] # rpc[k] => rpc'[k].ans = HttpError /\ rpc'[k].st = "done")
  <2>1. CASE rpc[k].st \notin states
    BY <2>1 DEF CutOff, Moves
  <2>2. CASE rpc[k].st \in states
    <3>1. rpc'[k] = [rpc[k] EXCEPT !.st = "done", !.ans = HttpError]
      BY <2>2 DEF CutOff
    <3>2. DOMAIN rpc[k] = {"st", "op", "tok", "floor", "ans"}
      BY DEF Jobs
    <3>3. /\ DOMAIN rpc'[k] = DOMAIN rpc[k]
          /\ rpc'[k].st = "done" /\ rpc'[k].ans = HttpError /\ rpc'[k].floor = rpc[k].floor
          /\ rpc'[k].op = rpc[k].op /\ rpc'[k].tok = rpc[k].tok
      BY <3>1, <3>2
    <3> QED
      BY <3>3 DEF Moves
  <2> QED
    BY <2>1, <2>2
<1> QED
  BY <1>1, <1>2

\* No step takes a request back.
LEMMA RequestsMove ==
  ASSUME Jobs, [SvcNext]_allVars
  PROVE  DOMAIN rpc' = Call /\ \A k \in Call : Moves(k)
<1>1. CASE rpc' = rpc
  BY <1>1 DEF Jobs, Moves
<1>2. ASSUME NEW i \in Call, ClientStep(i) PROVE DOMAIN rpc' = Call /\ \A k \in Call : Moves(k)
  <2>1. CASE Break(i) \/ Receive(i)
    BY <2>1, ToMoves DEF Break, Receive
  <2>2. ASSUME NEW op, NEW tok, Send(i, op, tok) \/ SendRefused(i, op, tok) \/ SendNothing(i, op, tok)
        PROVE  DOMAIN rpc' = Call /\ \A k \in Call : Moves(k)
    BY <2>2, BeginMoves DEF Send, SendRefused, SendNothing
  <2> QED
    BY <1>2, <2>1, <2>2 DEF ClientStep
<1>3. ASSUME NEW w \in Caller, NEW i \in Call, Handle(w, i)
      PROVE  DOMAIN rpc' = Call /\ \A k \in Call : Moves(k)
  <2>1. PICK st, a : To(i, st, a) /\ st \notin {"new", "sent"}
    BY <1>3 DEF Handle, HandleUnauthorized, HandleAppend, HandleHead, HandleRead, Starts
  <2> QED
    BY <2>1, ToMoves
<1>4. ASSUME NEW w \in Caller, HandlerReturns(w) PROVE DOMAIN rpc' = Call /\ \A k \in Call : Moves(k)
  <2>1. job[w] \in Call
    BY <1>4 DEF HandlerReturns, Jobs
  <2> QED
    BY <1>1, <1>4, <2>1, ToMoves DEF HandlerReturns
<1>5. CASE Shutdown \/ ServerDies
  BY <1>5, CutOffMoves DEF Shutdown, ServerDies
<1> QED
  BY <1>1, <1>2, <1>3, <1>4, <1>5 DEF SvcNext, LogStep, ServerStart, allVars, svcVars

-----------------------------------------------------------------------------
(* Handlers.                                                               *)

\* Jobs are kept when each worker's job stays, ends, or is one that was not
\* begun before.
LEMMA JobsKept ==
  ASSUME Jobs, DOMAIN rpc' = Call, \A k \in Call : Moves(k),
         job' = job, call' = call
  PROVE  Jobs'
<1>1. \A i \in Call : DOMAIN rpc'[i] = {"st", "op", "tok", "floor", "ans"}
  BY DEF Jobs, Moves
<1>2. ASSUME NEW w \in Caller, job[w] # Nobody PROVE rpc'[job[w]].st \notin {"new", "sent"}
  <2>1. job[w] \in Call /\ rpc[job[w]].st \notin {"new", "sent"}
    BY <1>2 DEF Jobs
  <2> QED
    BY <2>1 DEF Moves
<1> QED
  BY <1>1, <1>2 DEF Jobs

\* A handler starts.
LEMMA JobStarts ==
  ASSUME Jobs, NEW w \in Caller, NEW i \in Call, Starts(w, i), NEW k,
         k # "idle", call[w] = "idle", call \in [Caller -> {"idle", "write", "head"}],
         call' = [call EXCEPT ![w] = k]
  PROVE  Jobs'
<1>1. /\ rpc[i].st = "sent" /\ job' = [job EXCEPT ![w] = i] /\ To(i, "running", NoAnswer)
  BY DEF Starts, Polled
<1>2. /\ DOMAIN rpc' = Call /\ \A j \in Call : Moves(j)
      /\ rpc'[i].st = "running"
  BY <1>1, ToMoves
<1>3. \A j \in Call : DOMAIN rpc'[j] = {"st", "op", "tok", "floor", "ans"}
  BY <1>2 DEF Jobs, Moves
<1>4. i # Nobody
  BY MaxRecordsAssumption DEF Call, Nobody
<1>5. \A v \in Caller : job[v] # i
  BY <1>1, <1>4 DEF Jobs
<1>6. /\ job'[w] = i /\ call'[w] # "idle"
      /\ \A v \in Caller : v # w => job'[v] = job[v] /\ call'[v] = call[v]
      /\ job' \in [Caller -> Call \cup {Nobody}]
  BY <1>1 DEF Jobs
<1>7. ASSUME NEW v \in Caller, job'[v] # Nobody PROVE rpc'[job'[v]].st \notin {"new", "sent"}
  <2>1. CASE v = w
    BY <1>2, <1>6, <2>1
  <2>2. CASE v # w
    <3>1. job'[v] = job[v] /\ job[v] \in Call /\ rpc[job[v]].st \notin {"new", "sent"}
      BY <1>6, <1>7, <2>2 DEF Jobs
    <3> QED
      BY <1>2, <3>1 DEF Moves
  <2> QED
    BY <2>1, <2>2
<1>8. \A v \in Caller : job'[v] = Nobody <=> call'[v] = "idle"
  BY <1>4, <1>6 DEF Jobs
<1>9. \A u, v \in Caller : job'[u] = job'[v] /\ job'[v] # Nobody => u = v
  BY <1>5, <1>6 DEF Jobs
<1> QED
  BY <1>2, <1>3, <1>6, <1>7, <1>8, <1>9 DEF Jobs

\* A handler returns.
LEMMA JobEnds ==
  ASSUME Jobs, DOMAIN rpc' = Call, \A k \in Call : Moves(k), NEW w \in Caller,
         call \in [Caller -> {"idle", "write", "head"}],
         job' = [job EXCEPT ![w] = Nobody], call' = [call EXCEPT ![w] = "idle"]
  PROVE  Jobs'
<1>1. \A j \in Call : DOMAIN rpc'[j] = {"st", "op", "tok", "floor", "ans"}
  BY DEF Jobs, Moves
<1>2. /\ job'[w] = Nobody /\ call'[w] = "idle"
      /\ \A v \in Caller : v # w => job'[v] = job[v] /\ call'[v] = call[v]
      /\ job' \in [Caller -> Call \cup {Nobody}]
  BY DEF Jobs
<1>3. ASSUME NEW v \in Caller, job'[v] # Nobody PROVE rpc'[job'[v]].st \notin {"new", "sent"}
  <2>1. job'[v] = job[v] /\ job[v] \in Call /\ rpc[job[v]].st \notin {"new", "sent"}
    BY <1>2, <1>3 DEF Jobs
  <2> QED
    BY <2>1 DEF Moves
<1>4. \A v \in Caller : job'[v] = Nobody <=> call'[v] = "idle"
  BY <1>2 DEF Jobs
<1>5. \A u, v \in Caller : job'[u] = job'[v] /\ job'[v] # Nobody => u = v
  BY <1>2 DEF Jobs
<1> QED
  BY <1>1, <1>2, <1>3, <1>4, <1>5 DEF Jobs

\* Every step of the service keeps one handler per call.
LEMMA JobsStep ==
  ASSUME TypeOK, Jobs, [SvcNext]_allVars
  PROVE  Jobs'
<1>0. /\ DOMAIN rpc' = Call /\ \A k \in Call : Moves(k)
      /\ call \in [Caller -> {"idle", "write", "head"}]
  BY RequestsMove DEF TypeOK, EngineTypeOK
<1>1. CASE UNCHANGED << call, job >>
  BY <1>0, <1>1, JobsKept
<1>2. ASSUME NEW w \in Caller, NEW i \in Call, HandleAppend(w, i) \/ HandleHead(w, i) PROVE Jobs'
  <2>1. Starts(w, i)
    BY <1>2 DEF HandleAppend, HandleHead
  <2>2. PICK k \in {"write", "head"} : call' = [call EXCEPT ![w] = k] /\ call[w] = "idle"
    BY <1>2 DEF HandleAppend, HandleHead, CallRecord, CallHead, Record, HeadCall, Idle
  <2> QED
    BY <1>0, <2>1, <2>2, JobStarts
<1>3. ASSUME NEW w \in Caller, HandlerReturns(w) PROVE Jobs'
  <2>1. job' = [job EXCEPT ![w] = Nobody] /\ call' = [call EXCEPT ![w] = "idle"]
    BY <1>3 DEF HandlerReturns, CallReturn, Return
  <2> QED
    BY <1>0, <2>1, JobEnds
<1>4. CASE Shutdown
  <2>1. \A c \in Caller : call[c] = "idle" /\ call' = [d \in Caller |-> "idle"] /\ job' = job
    BY <1>4 DEF Shutdown, Close, Drop, Forget
  <2>2. call' = call
    BY <1>0, <2>1, <1>4 DEF Shutdown, Close, Drop, Forget
  <2> QED
    BY <1>1, <1>4, <2>2 DEF Shutdown
<1>5. CASE ServerDies
  <2>1. call' = [c \in Caller |-> "idle"] /\ job' = [c \in Caller |-> Nobody]
    BY <1>5 DEF ServerDies, Dies, Crash, CrashInWrite, Power, Kill, Forget
  <2>2. \A j \in Call : DOMAIN rpc'[j] = {"st", "op", "tok", "floor", "ans"}
    BY <1>0 DEF Jobs, Moves
  <2> QED
    BY <1>0, <2>1, <2>2 DEF Jobs
<1>6. ASSUME NEW i \in Call, ClientStep(i) PROVE UNCHANGED << call, job >>
  BY <1>6 DEF ClientStep, Send, SendRefused, SendNothing, Begin, Break, Receive, vars, engineVars
<1>7. ASSUME NEW w \in Caller, NEW i \in Call, HandleUnauthorized(w, i) \/ HandleRead(w, i)
      PROVE  UNCHANGED << call, job >>
  BY <1>7 DEF HandleUnauthorized, HandleRead, vars, engineVars
<1>8. CASE LogStep \/ ServerStart \/ UNCHANGED allVars
  <2>1. UNCHANGED << call, job >>
    BY <1>8 DEF LogStep, WriterStep, AnswerHead, RefuseSeal, Panic, StartAppend, StoreWrite, StoreSync,
                WriteError, ShortWriteError, SyncError, WriterHead, SealErr, WriterPanics, BeginAppend,
                AppendOk, AppendErr, ServerStart, Open, Build, allVars, vars, engineVars, svcVars
  <2> QED
    BY <1>1, <2>1
<1> QED
  BY <1>1, <1>2, <1>3, <1>4, <1>5, <1>6, <1>7, <1>8 DEF SvcNext, Handle

-----------------------------------------------------------------------------
(* The log behind the service.                                             *)

\* Entries are numbered by their place and hold the bodies of calls.
LEMMA LogFacts ==
  ASSUME CleanInv
  PROVE  /\ Log \in Seq(AuditEntry) /\ Len(Log) \in Nat /\ DOMAIN Log = 1..Len(Log)
         /\ \A j \in DOMAIN Log : Log[j].seq = j /\ Log[j].body \in Call
<1>1. Log \in Seq(AuditEntry) /\ Linked(Log)
  BY DEF CleanInv, CleanFile
<1>2. \A j \in DOMAIN Log : Log[j] \in AuditEntry
  BY <1>1
<1>3. \A j \in DOMAIN Log : Log[j].body \in Body
  BY <1>2 DEF AuditEntry
<1> QED
  BY <1>1, <1>3, ServiceAssumption DEF Linked, Call

\* What the log holds it keeps.
LEMMA LogKept ==
  ASSUME CleanInv, CleanInv', IsPrefix(Log, Log')
  PROVE  /\ Len(Log) <= Len(Log')
         /\ \A j \in DOMAIN Log : j \in DOMAIN Log' /\ Log'[j] = Log[j]
<1>1. Log \in Seq(AuditEntry) /\ Log' \in Seq(AuditEntry)
  BY DEF CleanInv, CleanFile
<1> QED
  BY <1>1, PrefixPointwise

\* The bound on what was told is at most the log's length.
LEMMA KnownFacts ==
  ASSUME TypeOK, ChainInv, CleanInv
  PROVE  Known \in Nat /\ Known <= Len(Log)
<1>0. Log \in Seq(AuditEntry) /\ Len(Log) \in Nat /\ seq \in Nat
  BY LogFacts DEF TypeOK, EngineTypeOK
<1>1. CASE ~up
  BY <1>0, <1>1 DEF Known
<1>2. CASE up /\ ~dirty
  BY <1>0, <1>2 DEF Known, CleanInv, CleanWriter, HeadOf
<1>3. CASE up /\ dirty
  <2>1. Log # << >> /\ Log[Len(Log)] = entry /\ entry.seq = seq + 1
    BY <1>3 DEF CleanInv, CleanWriter, ChainInv, Chained, DirtyLine, Appending
  <2>2. Len(Log) = seq + 1
    BY <1>0, <2>1, LogFacts
  <2> QED
    BY <1>0, <1>3, <2>2 DEF Known
<1> QED
  BY <1>1, <1>2, <1>3

\* StoreWrite adds the writer's entry.
LEMMA LogWritten ==
  ASSUME TypeOK, CleanInv, StoreWrite
  PROVE  entry \in AuditEntry /\ Log' = Append(Log, entry)
<1>1. file' = file \o Line(entry) /\ entry \in AuditEntry
  BY DEF StoreWrite, WriteLine, Appending, TypeOK, EngineTypeOK
<1>2. Log \in Seq(AuditEntry) /\ file = Written(Log)
  BY DEF CleanInv, CleanFile
<1>3. file' = Written(Append(Log, entry))
  BY <1>1, <1>2, WrittenAppend
<1>4. Append(Log, entry) \in Seq(AuditEntry)
  BY <1>1, <1>2
<1> QED
  BY <1>1, <1>3, <1>4, WrittenRead DEF Log

\* No other step touches the log.
LEMMA LogStepKinds ==
  ASSUME [CleanNext]_vars, ~StoreWrite
  PROVE  Log' = Log
<1>1. CASE file' = file
  BY <1>1 DEF Log
<1>2. CASE (\E c \in Caller : CallReturn(c) \/ CallHead(c) \/ \E b \in Body : CallRecord(c, b))
           \/ AnswerHead \/ RefuseSeal \/ Panic \/ StartAppend \/ StoreSync \/ WriteError
           \/ Open \/ Close \/ Crash \/ UNCHANGED vars
  <2>1. file' = file
    BY <1>2 DEF CallReturn, CallHead, CallRecord, AnswerHead, RefuseSeal, Panic, StartAppend, StoreSync,
                WriteError, Open, Close, Crash, open, Fsync, WriteFails, StoreKill, vars, storeVars
  <2> QED
    BY <1>1, <2>1
<1> QED
  BY <1>2 DEF CleanNext, CleanWriterStep

\* The bound only rises.
LEMMA KnownGrows ==
  ASSUME TypeOK, ChainInv, CleanInv, TypeOK', ChainInv', CleanInv', [CleanNext]_vars
  PROVE  Known <= Known'
<1>0. /\ Known \in Nat /\ Known <= Len(Log) /\ Known' \in Nat /\ Known' <= Len(Log')
      /\ seq \in Nat /\ seq' \in Nat /\ Len(Log) \in Nat /\ Len(Log') \in Nat
  <2>1. Known \in Nat /\ Known <= Len(Log) /\ seq \in Nat /\ Len(Log) \in Nat
    BY KnownFacts, LogFacts DEF TypeOK, EngineTypeOK
  <2>2. (Known \in Nat /\ Known <= Len(Log) /\ seq \in Nat /\ Len(Log) \in Nat)'
    BY KnownFacts, LogFacts, PTL DEF TypeOK, EngineTypeOK
  <2> QED
    BY <2>1, <2>2
<1>1. Len(Log) <= Len(Log')
  BY CleanStep, LogKept
<1>2. CASE up' = up /\ seq' = seq
  BY <1>0, <1>1, <1>2 DEF Known
<1>3. CASE StoreSync
  <2>1. up /\ up' /\ seq' = seq + 1
    BY <1>3 DEF StoreSync, AppendOk, Appending, ChainInv, Chained
  <2> QED
    BY <1>0, <2>1 DEF Known
<1>4. CASE Open
  <2>1. ~up /\ up' /\ UNCHANGED << file, dirty >>
    BY <1>4 DEF Open, open, Build, storeVars
  <2>2. ~dirty
    BY <2>1 DEF ChainInv, DirtyLine, Appending
  <2>3. [seq |-> seq', hash |-> prev_hash'] = HeadOf(Log')
    BY <2>1, <2>2 DEF CleanInv, CleanWriter
  <2>4. seq' = Len(Log')
    BY <2>3 DEF HeadOf
  <2> QED
    BY <1>0, <1>1, <2>1, <2>4 DEF Known
<1>5. CASE Close \/ Crash
  <2>1. ~up'
    BY <1>5 DEF Close, Crash, Drop, Kill, Forget
  <2> QED
    BY <1>0, <1>1, <2>1 DEF Known
<1>6. CASE (\E c \in Caller : CallReturn(c) \/ CallHead(c) \/ \E b \in Body : CallRecord(c, b))
           \/ AnswerHead \/ RefuseSeal \/ Panic \/ StartAppend \/ StoreWrite \/ WriteError
           \/ UNCHANGED vars
  <2>1. up' = up /\ seq' = seq
    BY <1>6 DEF CallReturn, CallHead, CallRecord, AnswerHead, RefuseSeal, StartAppend, StoreWrite,
                Panic, WriteError, Return, HeadCall, Record, WriterHead, SealErr, WriterPanics,
                BeginAppend, AppendErr, vars, engineVars
  <2> QED
    BY <1>2, <2>1
<1> QED
  BY <1>3, <1>4, <1>5, <1>6 DEF CleanNext, CleanWriterStep

-----------------------------------------------------------------------------
(* Bodies.                                                                 *)

\* A log that is the same holds the same bodies.
LEMMA InLogSame ==
  ASSUME Log' = Log
  PROVE  \A b : (InLog(b)' <=> InLog(b)) /\ EntriesOf(b)' = EntriesOf(b)
<1>1. ASSUME NEW b PROVE EntriesOf(b)' = EntriesOf(b)
  BY DEF EntriesOf
<1> QED
  BY <1>1 DEF InLog

\* A log one longer holds one body more.
LEMMA InLogMore ==
  ASSUME CleanInv, entry \in AuditEntry, Log' = Append(Log, entry)
  PROVE  /\ \A b : InLog(b)' => InLog(b) \/ b = entry.body
         /\ DOMAIN Log' = 1..(Len(Log) + 1)
         /\ Log'[Len(Log) + 1] = entry
         /\ \A j \in DOMAIN Log : Log'[j] = Log[j]
<1>1. Log \in Seq(AuditEntry) /\ Len(Log) \in Nat /\ DOMAIN Log = 1..Len(Log)
  BY LogFacts
<1>2. /\ DOMAIN Log' = 1..(Len(Log) + 1) /\ Log'[Len(Log) + 1] = entry
      /\ \A j \in DOMAIN Log : Log'[j] = Log[j]
  BY <1>1
<1>3. ASSUME NEW b, InLog(b)' PROVE InLog(b) \/ b = entry.body
  <2>1. PICK j \in DOMAIN Log' : Log'[j].body = b
    BY <1>3 DEF InLog, EntriesOf
  <2>2. j = Len(Log) + 1 \/ j \in DOMAIN Log
    BY <1>1, <1>2, <2>1
  <2> QED
    BY <1>2, <2>1, <2>2 DEF InLog, EntriesOf
<1> QED
  BY <1>2, <1>3

\* A request with the write token keeps it.
LEMMA AuthorisedKept ==
  ASSUME NEW b, Moves(b), rpc[b].st # "new", Authorised(b)
  PROVE  Authorised(b)'
BY DEF Moves, Authorised

\* The part of Bodies that is about the log alone.
LogBodies ==
  /\ \A i \in Call : rpc[i].st \in {"new", "sent"} => ~InLog(i)
  /\ \A j, k \in DOMAIN Log : Log[j].body = Log[k].body => j = k
  /\ \A j \in DOMAIN Log : Authorised(Log[j].body)

\* The commands and the entry whose bodies are on their way.
Queued(c, b) == job[c] = b /\ Authorised(b) /\ ~InLog(b)

QueueBodies ==
  /\ \A k \in DOMAIN chan : chan[k].op = "write" => Queued(chan[k].caller, chan[k].body)
  /\ writer = "append" => /\ job[cur] = entry.body
                          /\ Authorised(entry.body)
                          /\ ~dirty => ~InLog(entry.body)

\* Where bodies can be: what the log says and what is still on its way to it.
LEMMA BodiesParts == Bodies <=> LogBodies /\ QueueBodies
BY DEF Bodies, LogBodies, QueueBodies, Queued

\* The log's part while the log stays.
LEMMA LogBodiesSame ==
  ASSUME CleanInv, LogBodies, \A k \in Call : Moves(k), Log' = Log
  PROVE  LogBodies'
<1>1. \A b : InLog(b)' <=> InLog(b)
  BY InLogSame
<1>2. ASSUME NEW i \in Call, rpc'[i].st \in {"new", "sent"} PROVE ~InLog(i)'
  BY <1>1, <1>2 DEF Moves, LogBodies
<1>3. ASSUME NEW j \in DOMAIN Log PROVE Authorised(Log[j].body)'
  <2>1. Log[j].body \in Call /\ InLog(Log[j].body)
    BY LogFacts DEF InLog, EntriesOf
  <2>2. rpc[Log[j].body].st # "new" /\ Authorised(Log[j].body)
    BY <2>1 DEF LogBodies
  <2> QED
    BY <2>1, <2>2 DEF Moves, Authorised
<1>4. \A j \in DOMAIN Log' : rpc'[Log'[j].body].op = "append" /\ rpc'[Log'[j].body].tok = write_token
  BY <1>3 DEF Authorised
<1> QED
  BY <1>2, <1>4 DEF LogBodies, Authorised

\* A body on its way stays so while its handler runs and the log stays.
LEMMA QueuedKept ==
  ASSUME Jobs, \A k \in Call : Moves(k), Log' = Log, NEW c \in Caller, NEW b \in Call,
         Queued(c, b), job'[c] = job[c]
  PROVE  job'[c] = b /\ rpc'[b].op = "append" /\ rpc'[b].tok = write_token /\ ~InLog(b)'
<1>1. b # Nobody
  BY MaxRecordsAssumption DEF Call, Nobody
<1>2. rpc[b].st # "new"
  BY <1>1 DEF Jobs, Queued
<1>3. ~InLog(b)'
  BY InLogSame DEF Queued
<1> QED
  BY <1>2, <1>3 DEF Moves, Queued, Authorised

\* Commands and the entry being appended are those of workers and calls.
LEMMA QueueTypes ==
  ASSUME TypeOK
  PROVE  /\ \A k \in DOMAIN chan : /\ chan[k].caller \in Caller
                                   /\ chan[k].op = "write" => chan[k].body \in Call
         /\ writer = "append" => cur \in Caller /\ entry \in AuditEntry /\ entry.body \in Call
<1>1. \A k \in DOMAIN chan : chan[k] \in Cmd
  BY DEF TypeOK, EngineTypeOK
<1>2. \A x \in Cmd : x.caller \in Caller /\ (x.op = "write" => x.body \in Body)
  BY DEF Cmd
<1>3. writer = "append" => cur \in Caller /\ entry \in AuditEntry
  BY DEF TypeOK, EngineTypeOK
<1>4. \A e \in AuditEntry : e.body \in Body
  BY DEF AuditEntry
<1> QED
  BY <1>1, <1>2, <1>3, <1>4, ServiceAssumption DEF Call

\* The queue's part while commands only leave the channel.
LEMMA QueueKept ==
  ASSUME TypeOK, Jobs, \A k \in Call : Moves(k), Log' = Log, QueueBodies,
         \A k \in DOMAIN chan' : chan'[k].op = "write" =>
           \E l \in DOMAIN chan : chan'[k] = chan[l] /\ job'[chan[l].caller] = job[chan[l].caller],
         writer' = "append" => /\ writer = "append" /\ job'[cur] = job[cur]
                               /\ UNCHANGED << cur, entry, dirty >>
  PROVE  QueueBodies'
<1>1. ASSUME NEW k \in DOMAIN chan', chan'[k].op = "write"
      PROVE  /\ job'[chan'[k].caller] = chan'[k].body
             /\ rpc'[chan'[k].body].op = "append" /\ rpc'[chan'[k].body].tok = write_token
             /\ ~InLog(chan[k].body)'
  <2>1. PICK l \in DOMAIN chan : chan'[k] = chan[l] /\ job'[chan[l].caller] = job[chan[l].caller]
    BY <1>1
  <2>2. PICK c \in Caller, b \in Call : c = chan[l].caller /\ b = chan[l].body
    BY <1>1, <2>1, QueueTypes
  <2>3. Queued(c, b) /\ job'[c] = job[c]
    BY <1>1, <2>1, <2>2 DEF QueueBodies
  <2>4. job'[c] = b /\ rpc'[b].op = "append" /\ rpc'[b].tok = write_token /\ ~InLog(b)'
    BY <2>3, QueuedKept
  <2>5. chan'[k].caller = c /\ chan'[k].body = b
    BY <2>1, <2>2
  <2> QED
    BY <2>4, <2>5
<1>2. ASSUME writer' = "append"
      PROVE  /\ job'[cur'] = entry'.body
             /\ rpc'[entry'.body].op = "append" /\ rpc'[entry'.body].tok = write_token
             /\ ~dirty' => ~InLog(entry.body)'
  <2>1. /\ job[cur] = entry.body /\ Authorised(entry.body) /\ (~dirty => ~InLog(entry.body))
        /\ cur \in Caller /\ entry.body \in Call
    BY <1>2, QueueTypes DEF QueueBodies
  <2>2. rpc[entry.body].st # "new"
    <3>1. entry.body # Nobody
      BY <2>1, MaxRecordsAssumption DEF Call, Nobody
    <3> QED
      BY <2>1, <3>1 DEF Jobs
  <2>3. \A b : InLog(b)' <=> InLog(b)
    BY <1>2, InLogSame
  <2> QED
    BY <1>2, <2>1, <2>2, <2>3, InLogSame DEF Moves, Authorised
<1> QED
  BY <1>1, <1>2 DEF QueueBodies, Queued, Authorised

\* A handler calls record(): its body joins the queue.
LEMMA BodiesAppend ==
  ASSUME Inv, CleanInv, Jobs, QueueBodies, LogBodies, \A k \in Call : Moves(k), Log' = Log,
         NEW w \in Caller, NEW i \in Call, HandleAppend(w, i)
  PROVE  QueueBodies'
<1>1. /\ rpc[i].st = "sent" /\ rpc[i].op = "append" /\ rpc[i].tok = write_token
      /\ job' = [job EXCEPT ![w] = i]
      /\ call[w] = "idle" /\ SendCmd([op |-> "write", caller |-> w, body |-> i])
      /\ UNCHANGED << writer, cur, entry, dirty >>
  BY DEF HandleAppend, Starts, Polled, Allowed, require, CallRecord, Record, Idle, storeVars
<1>2. /\ job'[w] = i /\ \A v \in Caller : v # w => job'[v] = job[v]
  BY <1>1 DEF Jobs
<1>3. chan \in Seq(Cmd) /\ TypeOK
  BY DEF Inv, TypeOK, EngineTypeOK
<1> DEFINE m == [op |-> "write", caller |-> w, body |-> i]
<1>4. m.op = "write" /\ m.caller = w /\ m.body = i
  OBVIOUS
<1>5. chan' = Append(chan, m) \/ chan' = chan
  BY <1>1 DEF SendCmd
<1> HIDE DEF m
<1>6. \A k \in DOMAIN chan' : chan'[k] = m \/ (k \in DOMAIN chan /\ chan'[k] = chan[k])
  BY <1>3, <1>5
<1>7. /\ \A k \in DOMAIN chan : chan[k].caller \in Caller /\ chan[k].caller # w
      /\ writer = "append" => cur \in Caller /\ cur # w
  BY <1>1, <1>3, QueueTypes DEF Inv, CallInv, OnePlace, Waiting
<1>8. rpc'[i].op = "append" /\ rpc'[i].tok = write_token /\ ~InLog(i)'
  BY <1>1, InLogSame DEF LogBodies, Moves
<1>9. ASSUME NEW k \in DOMAIN chan', chan'[k].op = "write"
      PROVE  /\ job'[chan'[k].caller] = chan'[k].body
             /\ rpc'[chan'[k].body].op = "append" /\ rpc'[chan'[k].body].tok = write_token
             /\ ~InLog(chan[k].body)'
  <2>1. CASE chan'[k] = m
    BY <1>2, <1>4, <1>8, <2>1
  <2>2. CASE k \in DOMAIN chan /\ chan'[k] = chan[k]
    <3>1. PICK c \in Caller, b \in Call : c = chan[k].caller /\ b = chan[k].body
      BY <1>3, <1>9, <2>2, QueueTypes
    <3>2. Queued(c, b) /\ job'[c] = job[c]
      BY <1>2, <1>7, <1>9, <2>2, <3>1 DEF QueueBodies
    <3>3. job'[c] = b /\ rpc'[b].op = "append" /\ rpc'[b].tok = write_token /\ ~InLog(b)'
      BY <3>2, QueuedKept
    <3> QED
      BY <2>2, <3>1, <3>3
  <2> QED
    BY <1>6, <2>1, <2>2
<1>10. ASSUME writer' = "append"
       PROVE  /\ job'[cur'] = entry'.body
              /\ rpc'[entry'.body].op = "append" /\ rpc'[entry'.body].tok = write_token
              /\ ~dirty' => ~InLog(entry.body)'
  <2>1. /\ job[cur] = entry.body /\ Authorised(entry.body) /\ (~dirty => ~InLog(entry.body))
        /\ cur \in Caller /\ cur # w /\ entry.body \in Call
    BY <1>1, <1>3, <1>7, <1>10, QueueTypes DEF QueueBodies
  <2>2. rpc[entry.body].st # "new"
    <3>1. entry.body # Nobody
      BY <2>1, MaxRecordsAssumption DEF Call, Nobody
    <3> QED
      BY <2>1, <3>1 DEF Jobs
  <2>3. \A b : InLog(b)' <=> InLog(b)
    BY InLogSame
  <2> QED
    BY <1>1, <1>2, <2>1, <2>2, <2>3 DEF Moves, Authorised
<1> QED
  BY <1>9, <1>10 DEF QueueBodies, Queued, Authorised

\* The writer takes a command: its body goes from the channel to the entry.
LEMMA BodiesTaken ==
  ASSUME Inv, Jobs, QueueBodies, StartAppend, UNCHANGED svcVars, Log' = Log
  PROVE  QueueBodies'
<1>0. TypeOK
  BY DEF Inv
<1>1. PICK t \in Time : BeginAppend(t) /\ UNCHANGED storeVars
  BY DEF StartAppend
<1>2. /\ chan # << >> /\ Head(chan).op = "write" /\ chan' = Tail(chan) /\ cur' = Head(chan).caller
      /\ entry' = Sealed(seq + 1, t, Head(chan).body, prev_hash) /\ rpc' = rpc /\ job' = job
  BY <1>1 DEF BeginAppend, Receiving, svcVars
<1>3. 1 \in DOMAIN chan /\ Head(chan) = chan[1]
  BY <1>0, <1>2, ChanTail
<1>4. entry'.body = chan[1].body /\ cur' = chan[1].caller
  BY <1>2, <1>3 DEF Sealed
<1>5. Queued(chan[1].caller, chan[1].body)
  BY <1>2, <1>3 DEF QueueBodies
<1>6. \A b : InLog(b)' <=> InLog(b)
  BY InLogSame
<1>7. /\ job'[cur'] = entry'.body
      /\ rpc'[entry'.body].op = "append" /\ rpc'[entry'.body].tok = write_token
      /\ ~InLog(entry.body)'
  BY <1>2, <1>4, <1>5, <1>6 DEF Queued, Authorised
<1>8. ASSUME NEW k \in DOMAIN chan', chan'[k].op = "write"
      PROVE  /\ job'[chan'[k].caller] = chan'[k].body
             /\ rpc'[chan'[k].body].op = "append" /\ rpc'[chan'[k].body].tok = write_token
             /\ ~InLog(chan[k].body)'
  <2>1. k + 1 \in DOMAIN chan /\ chan'[k] = chan[k + 1]
    BY <1>0, <1>2, ChanTail
  <2>2. Queued(chan[k + 1].caller, chan[k + 1].body)
    BY <1>8, <2>1 DEF QueueBodies
  <2> QED
    BY <1>2, <1>6, <2>1, <2>2 DEF Queued, Authorised
<1> QED
  BY <1>7, <1>8 DEF QueueBodies, Queued, Authorised

\* The writer writes: the entry's body goes to the log.
LEMMA BodiesWritten ==
  ASSUME Inv, CleanInv, Jobs, Bodies, StoreWrite, UNCHANGED svcVars,
         Log' = Append(Log, entry), entry \in AuditEntry
  PROVE  Bodies'
<1>0. TypeOK /\ LogBodies /\ QueueBodies
  BY BodiesParts DEF Inv
<1>1. /\ writer = "append" /\ ~dirty /\ dirty' /\ UNCHANGED << chan, writer, cur, entry, rpc, job >>
  BY DEF StoreWrite, WriteLine, Appending, engineVars, svcVars
<1>2. /\ job[cur] = entry.body /\ Authorised(entry.body) /\ ~InLog(entry.body)
      /\ cur \in Caller /\ entry.body \in Call
  BY <1>0, <1>1, QueueTypes DEF QueueBodies
<1>3. rpc[entry.body].st \notin {"new", "sent"} /\ entry.body # Nobody
  <2>1. entry.body # Nobody
    BY <1>2, MaxRecordsAssumption DEF Call, Nobody
  <2> QED
    BY <1>2, <2>1 DEF Jobs
<1>4. /\ \A b : InLog(b)' => InLog(b) \/ b = entry.body
      /\ DOMAIN Log' = 1..(Len(Log) + 1) /\ DOMAIN Log = 1..Len(Log) /\ Len(Log) \in Nat
      /\ Log'[Len(Log) + 1] = entry
      /\ \A j \in DOMAIN Log : Log'[j] = Log[j]
  BY InLogMore, LogFacts
<1>5. \A i \in Call : rpc'[i].st \in {"new", "sent"} => ~InLog(i)'
  BY <1>0, <1>1, <1>3, <1>4 DEF LogBodies
<1>6. \A j \in DOMAIN Log' : j = Len(Log) + 1 \/ j \in DOMAIN Log
  BY <1>4
<1>7. \A j \in DOMAIN Log : Log[j].body # entry.body
  BY <1>2 DEF InLog, EntriesOf
<1>8. \A j, k \in DOMAIN Log' : Log'[j].body = Log'[k].body => j = k
  BY <1>0, <1>4, <1>6, <1>7 DEF LogBodies
<1>9. \A j \in DOMAIN Log' : rpc'[Log'[j].body].op = "append" /\ rpc'[Log'[j].body].tok = write_token
  BY <1>0, <1>1, <1>2, <1>4, <1>6 DEF LogBodies, Authorised
<1>10. ASSUME NEW k \in DOMAIN chan', chan'[k].op = "write"
       PROVE  /\ job'[chan'[k].caller] = chan'[k].body
              /\ rpc'[chan'[k].body].op = "append" /\ rpc'[chan'[k].body].tok = write_token
              /\ ~InLog(chan[k].body)'
  <2>1. /\ k \in DOMAIN chan /\ chan'[k] = chan[k] /\ Queued(chan[k].caller, chan[k].body)
        /\ chan[k].caller \in Caller /\ chan[k].caller # cur
    BY <1>0, <1>1, <1>10, QueueTypes DEF QueueBodies, Inv, CallInv, OnePlace
  <2>2. chan[k].body # entry.body
    BY <1>2, <1>3, <2>1 DEF Queued, Jobs
  <2> QED
    BY <1>1, <1>4, <2>1, <2>2 DEF Queued, Authorised
<1>11. LogBodies'
  BY <1>5, <1>8, <1>9 DEF LogBodies, Authorised
<1>12. QueueBodies'
  BY <1>1, <1>2, <1>10 DEF QueueBodies, Queued, Authorised
<1> QED
  BY <1>11, <1>12 DEF Bodies, LogBodies, QueueBodies, Queued

\* Every step keeps a body in one place.
LEMMA BodiesStep ==
  ASSUME Inv, CleanInv, Jobs, Bodies, NoDamage, [SvcNext]_allVars
  PROVE  Bodies'
<1>0. /\ TypeOK /\ ChainInv /\ LogBodies /\ QueueBodies /\ \A k \in Call : Moves(k)
      /\ [CleanNext]_vars
  BY BodiesParts, RequestsMove, CleanServiceStep DEF Inv
<1>1. ASSUME StoreWrite, Log' = Append(Log, entry), entry \in AuditEntry, UNCHANGED svcVars PROVE Bodies'
  BY <1>1, BodiesWritten
<1>2. ASSUME Log' = Log, QueueBodies' PROVE Bodies'
  <2>1. LogBodies'
    BY <1>0, <1>2, LogBodiesSame
  <2> QED
    BY <1>2, <2>1 DEF Bodies, LogBodies, QueueBodies, Queued
<1>3. ASSUME Log' = Log, UNCHANGED << chan, writer, cur, entry, dirty, job >> PROVE Bodies'
  <2>1. QueueBodies'
    BY <1>0, <1>3, QueueKept
  <2> QED
    BY <1>2, <1>3, <2>1
<1>4. ASSUME UNCHANGED << vars, job >> PROVE Bodies'
  <2>1. Log' = Log
    BY <1>4 DEF vars, storeVars, Log
  <2> QED
    BY <1>3, <1>4, <2>1 DEF vars, engineVars, storeVars
<1>5. ASSUME NEW w \in Caller, NEW i \in Call, HandleAppend(w, i) PROVE Bodies'
  <2>1. Log' = Log
    BY <1>5 DEF HandleAppend, CallRecord, storeVars, Log
  <2> QED
    BY <1>0, <1>2, <1>5, <2>1, BodiesAppend
<1>6. ASSUME NEW w \in Caller, NEW i \in Call, HandleHead(w, i) PROVE Bodies'
  <2>1. /\ job' = [job EXCEPT ![w] = i] /\ call[w] = "idle"
        /\ SendCmd([op |-> "head", caller |-> w])
        /\ UNCHANGED << file, writer, cur, entry, dirty >>
    BY <1>6 DEF HandleHead, Starts, CallHead, HeadCall, Idle, storeVars
  <2>2. \A v \in Caller : v # w => job'[v] = job[v]
    BY <2>1 DEF Jobs
  <2> DEFINE m == [op |-> "head", caller |-> w]
  <2>3. m.op # "write"
    OBVIOUS
  <2>4. (chan' = Append(chan, m) \/ chan' = chan) /\ chan \in Seq(Cmd)
    BY <1>0, <2>1 DEF SendCmd, TypeOK, EngineTypeOK
  <2> HIDE DEF m
  <2>5. \A k \in DOMAIN chan' : chan'[k] = m \/ (k \in DOMAIN chan /\ chan'[k] = chan[k])
    BY <2>4
  <2>6. /\ \A k \in DOMAIN chan : chan[k].caller \in Caller /\ chan[k].caller # w
        /\ writer = "append" => cur \in Caller /\ cur # w
    BY <1>0, <2>1, QueueTypes DEF Inv, CallInv, OnePlace, Waiting
  <2>7. Log' = Log
    BY <2>1 DEF Log
  <2>8. QueueBodies'
    BY <1>0, <2>1, <2>2, <2>3, <2>5, <2>6, <2>7, QueueKept
  <2> QED
    BY <1>2, <2>7, <2>8
<1>7. ASSUME NEW w \in Caller, HandlerReturns(w) PROVE Bodies'
  <2>1. /\ job' = [job EXCEPT ![w] = Nobody] /\ (reply[w].kind # "none" \/ Dropped(w))
        /\ UNCHANGED << file, chan, writer, cur, entry, dirty >>
    BY <1>7 DEF HandlerReturns, CallReturn, Return, storeVars
  <2>2. \A v \in Caller : v # w => job'[v] = job[v]
    BY <2>1 DEF Jobs
  <2>3. reply[w] # NoReply \/ Dropped(w)
    BY <2>1 DEF NoReply
  <2>4. /\ \A k \in DOMAIN chan : chan[k].caller \in Caller /\ chan[k].caller # w
        /\ writer = "append" => cur \in Caller /\ cur # w
    BY <1>0, <2>3, QueueTypes DEF Inv, CallInv, OnePlace, Waiting, Dropped
  <2>5. Log' = Log
    BY <2>1 DEF Log
  <2>6. QueueBodies'
    BY <1>0, <2>1, <2>2, <2>4, <2>5, QueueKept
  <2> QED
    BY <1>2, <2>5, <2>6
<1>8. CASE (AnswerHead \/ RefuseSeal) /\ UNCHANGED svcVars
  <2>1. chan # << >> /\ chan' = Tail(chan) /\ UNCHANGED << file, writer, cur, entry, dirty, job >>
    BY <1>8 DEF AnswerHead, RefuseSeal, WriterHead, SealErr, Receiving, storeVars, svcVars
  <2>2. \A k \in DOMAIN chan' : k + 1 \in DOMAIN chan /\ chan'[k] = chan[k + 1]
    BY <1>0, <2>1, ChanTail
  <2>3. Log' = Log
    BY <2>1 DEF Log
  <2>4. QueueBodies'
    BY <1>0, <2>1, <2>2, <2>3, QueueKept
  <2> QED
    BY <1>2, <2>3, <2>4
<1>17. CASE Panic /\ UNCHANGED svcVars
  <2>1. chan' = << >> /\ writer' # "append" /\ UNCHANGED << file, job >>
    BY <1>17 DEF Panic, WriterPanics, storeVars, svcVars
  <2>2. Log' = Log
    BY <2>1 DEF Log
  <2>3. DOMAIN chan' = {}
    BY <2>1
  <2>4. QueueBodies'
    BY <2>1, <2>3 DEF QueueBodies
  <2> QED
    BY <1>2, <2>2, <2>4
<1>9. CASE StartAppend /\ UNCHANGED svcVars
  <2>1. Log' = Log
    BY <1>9 DEF StartAppend, storeVars, Log
  <2> QED
    BY <1>0, <1>2, <1>9, <2>1, BodiesTaken
<1>10. CASE StoreWrite /\ UNCHANGED svcVars
  BY <1>0, <1>1, <1>10, LogWritten
<1>11. CASE (StoreSync \/ WriteError) /\ UNCHANGED svcVars
  <2>1. writer' # "append" /\ UNCHANGED << file, chan, job >>
    BY <1>11 DEF StoreSync, WriteError, AppendOk, AppendErr, Fsync, WriteFails, storeVars, svcVars
  <2>2. Log' = Log
    BY <2>1 DEF Log
  <2>3. QueueBodies'
    BY <1>0, <2>1, <2>2, QueueKept
  <2> QED
    BY <1>2, <2>2, <2>3
<1>12. CASE ServerStart
  <2>1. UNCHANGED << file, chan, writer, cur, entry, dirty, job >>
    BY <1>12 DEF ServerStart, Open, open, Build, storeVars, svcVars
  <2>2. Log' = Log
    BY <2>1 DEF Log
  <2> QED
    BY <1>3, <2>1, <2>2
<1>13. CASE Shutdown \/ ServerDies
  <2>1. writer' # "append" /\ chan' = << >> /\ UNCHANGED file
    BY <1>13, UndamagedSteps DEF Shutdown, ServerDies, Close, Crash, Drop, Kill, Forget, StoreKill
  <2>2. Log' = Log
    BY <2>1 DEF Log
  <2>3. DOMAIN chan' = {}
    BY <2>1
  <2>4. QueueBodies'
    BY <2>1, <2>3 DEF QueueBodies
  <2> QED
    BY <1>2, <2>2, <2>4
<1>14. ASSUME NEW i \in Call, ClientStep(i) PROVE UNCHANGED << vars, job >>
  BY <1>14 DEF ClientStep, Send, SendRefused, SendNothing, Begin, Break, Receive
<1>15. ASSUME NEW w \in Caller, NEW i \in Call, HandleUnauthorized(w, i) \/ HandleRead(w, i)
       PROVE  UNCHANGED << vars, job >>
  BY <1>15 DEF HandleUnauthorized, HandleRead
<1>16. CASE UNCHANGED allVars
  BY <1>4, <1>16 DEF allVars, svcVars
<1> QED
  BY <1>4, <1>5, <1>6, <1>7, <1>8, <1>9, <1>10, <1>11, <1>12, <1>13, <1>14, <1>15, <1>16,
     <1>17, UndamagedSteps
     DEF SvcNext, Handle, LogStep, CleanWriterStep

-----------------------------------------------------------------------------
(* What the engine answers to the handlers.                                *)

\* Entries of a call stay where they are.
LEMMA EntriesStay ==
  ASSUME \A j \in DOMAIN Log : j \in DOMAIN Log' /\ Log'[j] = Log[j],
         NEW b, NEW r, \E j \in EntriesOf(b) : ReceiptOf(Log[j]) = r
  PROVE  \E j \in EntriesOf(b)' : ReceiptOf(Log'[j]) = r
BY DEF EntriesOf

\* A reply that waits still fits.
LEMMA ReplyKept ==
  ASSUME NEW w \in Caller, NEW i, job[w] = i, job'[w] = i, Moves(i), rpc[i].st # "new",
         reply[w] \in Reply, reply'[w] = reply[w], ReplyFits(w),
         Known \in Nat, Known' \in Nat, Known <= Known',
         \A j \in DOMAIN Log : j \in DOMAIN Log' /\ Log'[j] = Log[j],
         reply[w].kind = "err" => ~InLog(i)',
         reply[w].kind = "none" /\ ~(dirty' /\ cur' = w) => ~InLog(i)'
  PROVE  ReplyFits(w)'
<1>1. rpc'[job'[w]].floor = rpc[job[w]].floor
  BY DEF Moves
<1>2. CASE reply[w].kind = "ok"
  <2>1. /\ reply[w].receipt.seq \in Nat
        /\ rpc[job[w]].floor < reply[w].receipt.seq /\ reply[w].receipt.seq <= Known
        /\ \E j \in EntriesOf(i) : ReceiptOf(Log[j]) = reply[w].receipt
    BY <1>2 DEF ReplyFits
  <2>2. PICK r : r = reply[w].receipt
    OBVIOUS
  <2>3. \E j \in EntriesOf(i)' : ReceiptOf(Log'[j]) = r
    BY <2>1, <2>2, EntriesStay
  <2>4. reply'[w].receipt.seq <= Known'
    BY <2>1
  <2> QED
    BY <1>1, <1>2, <2>1, <2>2, <2>3, <2>4 DEF ReplyFits
<1>3. CASE reply[w].kind = "head"
  <2>1. /\ rpc[job[w]].floor <= reply[w].head.seq /\ reply[w].head.seq <= Known
        /\ reply[w].head.seq \in Nat
    BY <1>3 DEF ReplyFits, Reply, HeadPair
  <2>2. reply'[w].head.seq <= Known'
    BY <2>1
  <2> QED
    BY <1>1, <1>3, <2>1, <2>2 DEF ReplyFits
<1>4. CASE reply[w].kind = "err"
  BY <1>4 DEF ReplyFits
<1>5. CASE reply[w].kind = "none"
  BY <1>5 DEF ReplyFits
<1> QED
  BY <1>2, <1>3, <1>4, <1>5 DEF Reply

\* A worker without a reply whose call, if it has one, is not in the log.
LEMMA NoReplyFits ==
  ASSUME NEW w, NEW i, reply'[w] = NoReply, job'[w] = i, i # Nobody => ~InLog(i)'
  PROVE  ReplyFits(w)'
BY DEF ReplyFits, NoReply

\* An entry waits for its fsync until its caller is answered or the server
\* dies.
LEMMA DirtyStays ==
  ASSUME Inv, Jobs, NoDamage, [SvcNext]_allVars, dirty,
         NEW w \in Caller, w = cur, reply'[w] = reply[w], job'[w] = job[w]
  PROVE  dirty' /\ cur' = w
<1>1. Appending /\ writer = "append" /\ dirty \in BOOLEAN /\ reply \in [Caller -> Reply]
  BY DEF Inv, ChainInv, DirtyLine, Appending, TypeOK, EngineTypeOK, StoreTypeOK
<1>2. call[w] # "idle" /\ reply[w] = NoReply /\ job[w] # Nobody
  BY <1>1 DEF Inv, CallInv, OnePlace, Waiting, Jobs
<1>3. [CleanNext]_vars
  BY CleanServiceStep
<1>4. ~StoreSync
  <2>1. StoreSync => reply'[w].kind = "ok"
    BY <1>1 DEF StoreSync, AppendOk, OkReply
  <2> QED
    BY <1>2, <2>1 DEF NoReply
<1>5. ~Close
  BY <1>2 DEF Close, Drop
<1>6. ~Crash
  <2>1. CASE Crash /\ ServerDies
    BY <1>2, <2>1 DEF ServerDies
  <2>2. CASE Crash /\ ~ServerDies
    <3>1. up /\ ~up'
      BY <1>1, <2>2 DEF Crash, Kill, Forget, Appending
    <3>2. \A i \in Call : ~ClientStep(i)
      BY <3>1, ClientFrame DEF vars, engineVars
    <3>3. \A v \in Caller, i \in Call : ~Handle(v, i)
      BY <3>1 DEF Handle, HandleUnauthorized, HandleRead, HandleAppend, HandleHead, CallRecord, CallHead,
                  Record, HeadCall, vars, engineVars
    <3>4. \A v \in Caller : ~HandlerReturns(v)
      BY <3>1 DEF HandlerReturns, CallReturn, Return
    <3>5. ~LogStep
      BY <3>1, UndamagedSteps
         DEF LogStep, CleanWriterStep, AnswerHead, RefuseSeal, Panic, StartAppend, StoreWrite, StoreSync,
             WriteError, WriterHead, SealErr, WriterPanics, BeginAppend, AppendOk, AppendErr, engineVars
    <3>6. ~ServerStart /\ ~Shutdown /\ ~UNCHANGED allVars
      BY <1>5, <3>1 DEF ServerStart, Open, Build, Shutdown, allVars, vars, engineVars
    <3> QED
      BY <2>2, <3>2, <3>3, <3>4, <3>5, <3>6 DEF SvcNext
  <2> QED
    BY <2>1, <2>2
<1>7. ~AnswerHead /\ ~RefuseSeal /\ ~Panic /\ ~StartAppend /\ ~StoreWrite /\ ~WriteError /\ ~Open
  BY <1>1 DEF AnswerHead, RefuseSeal, Panic, StartAppend, StoreWrite, WriteError, Open, WriterHead, SealErr,
              WriterPanics, BeginAppend, Receiving, WriteLine, WriteFails, Build, Appending
<1>8. CASE (\E c \in Caller : CallReturn(c) \/ CallHead(c) \/ \E b \in Body : CallRecord(c, b))
           \/ UNCHANGED vars
  BY <1>8 DEF CallReturn, CallHead, CallRecord, Return, HeadCall, Record, storeVars, vars, engineVars
<1> QED
  BY <1>3, <1>4, <1>5, <1>6, <1>7, <1>8 DEF CleanNext, CleanWriterStep

\* A worker with a reply has a job, and is neither in the channel nor served.
LEMMA ReplyHasJob ==
  ASSUME Inv, Jobs, NEW w \in Caller, reply[w] # NoReply
  PROVE  /\ job[w] \in Call /\ job[w] # Nobody /\ rpc[job[w]].st \notin {"new", "sent"}
         /\ writer = "append" => cur # w
BY DEF Inv, CallInv, OnePlace, Waiting, Jobs

\* What every step of the service gives.
LEMMA SvcGrowth ==
  ASSUME Inv, CleanInv, Inv', CleanInv', NoDamage, [SvcNext]_allVars
  PROVE  /\ Known \in Nat /\ Known' \in Nat /\ Known <= Known'
         /\ Known <= Len(Log) /\ Len(Log) \in Nat /\ Len(Log') \in Nat /\ Len(Log) <= Len(Log')
         /\ Log \in Seq(AuditEntry) /\ Log' \in Seq(AuditEntry) /\ IsPrefix(Log, Log')
         /\ \A j \in DOMAIN Log : j \in DOMAIN Log' /\ Log'[j] = Log[j]
<1>1. [CleanNext]_vars
  BY CleanServiceStep
<1>2. TypeOK /\ ChainInv /\ TypeOK' /\ ChainInv'
  BY DEF Inv
<1>3. Known \in Nat /\ Known <= Len(Log) /\ Len(Log) \in Nat /\ Log \in Seq(AuditEntry)
  BY <1>2, KnownFacts, LogFacts
<1>4. (Known \in Nat /\ Known <= Len(Log) /\ Len(Log) \in Nat /\ Log \in Seq(AuditEntry))'
  BY <1>2, KnownFacts, LogFacts, PTL
<1>5. IsPrefix(Log, Log')
  BY <1>1, <1>2, CleanStep
<1>6. Known <= Known'
  BY <1>1, <1>2, KnownGrows
<1> QED
  BY <1>3, <1>4, <1>5, <1>6, LogKept

\* A worker whose reply waits on.
LEMMA ReplyWaits ==
  ASSUME Inv, CleanInv, Inv', CleanInv', Jobs, Bodies, NoDamage, [SvcNext]_allVars,
         NEW w \in Caller, ReplyFits(w), reply'[w] = reply[w], job'[w] = job[w]
  PROVE  ReplyFits(w)'
<1>0. /\ Known \in Nat /\ Known' \in Nat /\ Known <= Known'
      /\ \A j \in DOMAIN Log : j \in DOMAIN Log' /\ Log'[j] = Log[j]
  BY SvcGrowth
<1>1. reply[w] \in Reply /\ TypeOK
  BY DEF Inv, TypeOK, EngineTypeOK
<1>2. CASE job[w] = Nobody
  <2>1. reply[w] = NoReply
    BY <1>2 DEF Jobs, Inv, CallInv, OnePlace
  <2> QED
    BY <1>2, <2>1, NoReplyFits
<1>3. CASE job[w] # Nobody
  <2>1. PICK i \in Call : job[w] = i
    BY <1>3 DEF Jobs
  <2>2. rpc[i].st # "new" /\ Moves(i)
    BY <1>3, <2>1, RequestsMove DEF Jobs
  <2>3. ASSUME ~InLog(i), StoreWrite => cur # w PROVE ~InLog(i)'
    <3>1. CASE ~StoreWrite
      <4>1. Log' = Log
        BY <3>1, CleanServiceStep, LogStepKinds
      <4> QED
        BY <2>3, <4>1, InLogSame
    <3>2. CASE StoreWrite
      <4>1. entry \in AuditEntry /\ Log' = Append(Log, entry) /\ writer = "append"
        BY <1>1, <3>2, LogWritten DEF StoreWrite, Appending
      <4>2. job[cur] = entry.body /\ cur \in Caller /\ cur # w
        BY <1>1, <2>3, <3>2, <4>1, QueueTypes DEF Bodies
      <4>3. entry.body # i
        BY <1>3, <2>1, <4>2 DEF Jobs
      <4> QED
        BY <2>3, <4>1, <4>3, InLogMore
    <3> QED
      BY <3>1, <3>2
  <2>4. ASSUME reply[w].kind = "err" PROVE ~InLog(i)'
    <3>1. reply[w] # NoReply
      BY <2>4 DEF NoReply
    <3>2. ~InLog(i)
      BY <2>1, <2>4 DEF ReplyFits
    <3>3. StoreWrite => cur # w
      BY <3>1, ReplyHasJob DEF StoreWrite, Appending
    <3> QED
      BY <2>3, <3>2, <3>3
  <2>5. ASSUME reply[w].kind = "none", ~(dirty' /\ cur' = w) PROVE ~InLog(i)'
    <3>1. ~(dirty /\ cur = w)
      BY <2>5, DirtyStays
    <3>2. ~InLog(i)
      BY <1>3, <2>1, <2>5, <3>1 DEF ReplyFits
    <3>3. StoreWrite => cur # w
      BY <2>5 DEF StoreWrite, WriteLine, engineVars
    <3> QED
      BY <2>3, <3>2, <3>3
  <2> QED
    BY <1>0, <1>1, <2>1, <2>2, <2>4, <2>5, ReplyKept
<1> QED
  BY <1>2, <1>3

\* The writer answers the command it takes off the channel.
LEMMA CommandAnswered ==
  ASSUME Inv, CleanInv, Inv', CleanInv', Jobs, Bodies, NoDamage, [SvcNext]_allVars,
         \A i \in Call : AnswerFits(i),
         AnswerHead \/ RefuseSeal, UNCHANGED svcVars, NEW w \in Caller, w = Head(chan).caller
  PROVE  ReplyFits(w)'
<1>0. TypeOK /\ reply \in [Caller -> Reply]
  BY DEF Inv, TypeOK, EngineTypeOK
<1>1. /\ chan # << >> /\ up /\ UNCHANGED << file, up, seq, rpc, job >>
  BY DEF AnswerHead, RefuseSeal, WriterHead, SealErr, Receiving, storeVars, svcVars
<1>2. 1 \in DOMAIN chan /\ w = chan[1].caller /\ Head(chan) = chan[1]
  BY <1>0, <1>1, ChanTail
<1>3. call[w] # "idle"
  BY <1>2 DEF Inv, CallInv, OnePlace, Waiting
<1>4. job[w] \in Call
  BY <1>3 DEF Jobs
<1>5. Log' = Log
  BY <1>1 DEF Log
<1>6. CASE AnswerHead
  <2>1. reply'[w] = HeadReply(seq, prev_hash)
    BY <1>0, <1>6 DEF AnswerHead, WriterHead
  <2>2. reply'[w].kind = "head" /\ reply'[w].head.seq = seq
    BY <2>1 DEF HeadReply
  <2>3. rpc[job[w]].floor \in Nat /\ rpc[job[w]].floor <= seq /\ Known' = seq /\ seq \in Nat
    BY <1>0, <1>1, <1>4 DEF AnswerFits, Fits, Known, TypeOK, EngineTypeOK
  <2> QED
    BY <1>1, <2>2, <2>3 DEF ReplyFits
<1>7. CASE RefuseSeal
  <2>1. reply'[w] = ErrReply /\ Head(chan).op = "write"
    BY <1>0, <1>7 DEF RefuseSeal, SealErr, Receiving
  <2>2. reply'[w].kind = "err"
    BY <2>1 DEF ErrReply
  <2>3. PICK b : b = job[w]
    OBVIOUS
  <2>4. ~InLog(b)
    BY <1>2, <2>1, <2>3 DEF Bodies
  <2>5. ~InLog(b)'
    BY <1>5, <2>4, InLogSame
  <2> QED
    BY <1>1, <2>2, <2>3, <2>5 DEF ReplyFits
<1> QED
  BY <1>6, <1>7

\* The writer answers the caller whose entry it was appending.
LEMMA AppendAnswered ==
  ASSUME Inv, CleanInv, Inv', CleanInv', Jobs, Bodies, NoDamage, [SvcNext]_allVars,
         \A i \in Call : AnswerFits(i),
         StoreSync \/ WriteError, UNCHANGED svcVars, NEW w \in Caller, w = cur
  PROVE  ReplyFits(w)'
<1>0. TypeOK /\ reply \in [Caller -> Reply] /\ seq \in Nat
  BY DEF Inv, TypeOK, EngineTypeOK
<1>1. /\ writer = "append" /\ up /\ UNCHANGED << file, up, rpc, job >>
  BY DEF StoreSync, WriteError, AppendOk, AppendErr, Appending, Fsync, WriteFails, storeVars, svcVars
<1>2. Log' = Log
  BY <1>1 DEF Log
<1>3. /\ job[w] = entry.body /\ job[w] \in Call
      /\ ~dirty => ~InLog(entry.body)
  BY <1>0, <1>1, QueueTypes DEF Bodies
<1>4. PICK b : b = job[w]
  OBVIOUS
<1>5. CASE WriteError
  <2>1. reply'[w] = ErrReply /\ ~dirty
    BY <1>0, <1>5 DEF WriteError, AppendErr, WriteFails
  <2>2. reply'[w].kind = "err"
    BY <2>1 DEF ErrReply
  <2>3. ~InLog(b)'
    BY <1>2, <1>3, <1>4, <2>1, InLogSame
  <2> QED
    BY <1>1, <1>4, <2>2, <2>3 DEF ReplyFits
<1>6. CASE StoreSync
  <2>1. reply'[w] = OkReply(ReceiptOf(entry)) /\ dirty /\ seq' = entry.seq
    BY <1>0, <1>6 DEF StoreSync, AppendOk, Fsync
  <2>2. reply'[w].kind = "ok" /\ reply'[w].receipt = ReceiptOf(entry) /\ reply'[w].receipt.seq = entry.seq
    BY <2>1 DEF OkReply, ReceiptOf
  <2>3. entry.seq = seq + 1
    BY <1>1 DEF Inv, ChainInv, Chained
  <2>4. rpc[job[w]].floor \in Nat /\ rpc[job[w]].floor <= seq /\ Known' = seq + 1
    BY <1>1, <1>3, <2>1, <2>3 DEF AnswerFits, Fits, Known
  <2>5. Log # << >> /\ Log[Len(Log)] = entry /\ Log \in Seq(AuditEntry)
    BY <2>1, LogFacts DEF CleanInv, CleanWriter
  <2>6. Len(Log) \in DOMAIN Log
    BY <2>5
  <2>7. Len(Log) \in EntriesOf(b)' /\ ReceiptOf(Log'[Len(Log)]) = ReceiptOf(entry)
    BY <1>2, <1>3, <1>4, <2>5, <2>6 DEF EntriesOf
  <2> QED
    BY <1>0, <1>1, <1>4, <2>2, <2>3, <2>4, <2>7 DEF ReplyFits
<1> QED
  BY <1>5, <1>6

\* Every step leaves replies that fit.
LEMMA RepliesStep ==
  ASSUME Inv, CleanInv, Inv', CleanInv', Jobs, Bodies, NoDamage, [SvcNext]_allVars,
         \A w \in Caller : ReplyFits(w), \A i \in Call : AnswerFits(i), NEW w \in Caller
  PROVE  ReplyFits(w)'
<1>0. reply \in [Caller -> Reply]
  BY DEF Inv, TypeOK, EngineTypeOK
<1>1. CASE reply'[w] = reply[w] /\ job'[w] = job[w]
  BY <1>1, ReplyWaits
<1>2. ASSUME reply'[w] = NoReply, job'[w] = Nobody PROVE ReplyFits(w)'
  BY <1>2, NoReplyFits
<1>3. ASSUME NEW v \in Caller, NEW i \in Call, HandleAppend(v, i) \/ HandleHead(v, i) PROVE ReplyFits(w)'
  <2>1. /\ reply' = reply /\ call[v] = "idle" /\ job' = [job EXCEPT ![v] = i]
        /\ rpc[i].st = "sent" /\ UNCHANGED file
    BY <1>3 DEF HandleAppend, HandleHead, Starts, Polled, CallRecord, Record, CallHead, HeadCall, Idle,
                storeVars
  <2>2. CASE w = v
    <3>1. reply'[w] = NoReply /\ job'[w] = i
      BY <2>1, <2>2 DEF Inv, CallInv, OnePlace, Jobs
    <3>2. ~InLog(i) /\ Log' = Log
      BY <2>1 DEF Bodies, Log
    <3>3. ~InLog(i)'
      BY <3>2, InLogSame
    <3> QED
      BY <3>1, <3>3, NoReplyFits
  <2>3. CASE w # v
    BY <1>1, <2>1, <2>3 DEF Jobs
  <2> QED
    BY <2>2, <2>3
<1>4. ASSUME NEW v \in Caller, HandlerReturns(v) PROVE ReplyFits(w)'
  <2>1. reply' = [reply EXCEPT ![v] = NoReply] /\ job' = [job EXCEPT ![v] = Nobody]
    BY <1>4 DEF HandlerReturns, CallReturn, Return
  <2> QED
    BY <1>0, <1>1, <1>2, <2>1 DEF Jobs
<1>5. CASE (AnswerHead \/ RefuseSeal) /\ UNCHANGED svcVars
  <2>1. CASE w = Head(chan).caller
    BY <1>5, <2>1, CommandAnswered
  <2>2. CASE w # Head(chan).caller
    <3>1. reply'[w] = reply[w] /\ job'[w] = job[w]
      BY <1>0, <1>5, <2>2 DEF AnswerHead, RefuseSeal, WriterHead, SealErr, svcVars
    <3> QED
      BY <1>1, <3>1
  <2> QED
    BY <2>1, <2>2
<1>6. CASE (StoreSync \/ WriteError) /\ UNCHANGED svcVars
  <2>1. CASE w = cur
    BY <1>6, <2>1, AppendAnswered
  <2>2. CASE w # cur
    <3>1. reply'[w] = reply[w] /\ job'[w] = job[w]
      BY <1>0, <1>6, <2>2 DEF StoreSync, WriteError, AppendOk, AppendErr, svcVars
    <3> QED
      BY <1>1, <3>1
  <2> QED
    BY <2>1, <2>2
<1>7. CASE Shutdown \/ ServerDies
  <2>1. reply' = [c \in Caller |-> NoReply]
    BY <1>7, UndamagedSteps DEF Shutdown, ServerDies, Close, Crash, Drop, Kill, Forget
  <2>2. CASE Shutdown
    <3>1. call[w] = "idle" /\ job' = job
      BY <2>2 DEF Shutdown, Close, Drop
    <3> QED
      BY <1>2, <2>1, <3>1 DEF Jobs
  <2>3. CASE ServerDies
    BY <1>2, <2>1, <2>3 DEF ServerDies
  <2> QED
    BY <1>7, <2>2, <2>3
<1>8. CASE ((Panic \/ StartAppend \/ StoreWrite) /\ UNCHANGED svcVars) \/ ServerStart \/ UNCHANGED allVars
  <2>1. reply' = reply /\ job' = job
    BY <1>8 DEF Panic, WriterPanics, StartAppend, BeginAppend, StoreWrite, ServerStart, Open, Build,
                allVars, vars, engineVars, svcVars
  <2> QED
    BY <1>1, <2>1
<1>9. ASSUME NEW i \in Call, ClientStep(i) PROVE reply' = reply /\ job' = job
  BY <1>9 DEF ClientStep, Send, SendRefused, SendNothing, Begin, Break, Receive, vars, engineVars
<1>10. ASSUME NEW v \in Caller, NEW i \in Call, HandleUnauthorized(v, i) \/ HandleRead(v, i)
       PROVE  reply' = reply /\ job' = job
  BY <1>10 DEF HandleUnauthorized, HandleRead, vars, engineVars
<1> QED
  BY <1>1, <1>3, <1>4, <1>5, <1>6, <1>7, <1>8, <1>9, <1>10, UndamagedSteps
     DEF SvcNext, Handle, LogStep, CleanWriterStep

-----------------------------------------------------------------------------
(* What the handlers answer to the clients.                                *)

\* A call that nothing was done for, and no handler was started for.
LEMMA UntouchedKept ==
  ASSUME Inv, CleanInv, Jobs, Bodies, NoDamage, [SvcNext]_allVars, NEW i \in Call, Untouched(i),
         rpc[i].st = "sent" => rpc'[i].st # "running"
  PROVE  Untouched(i)'
<1>1. ~InLog(i)'
  <2>1. CASE ~StoreWrite
    BY <2>1, CleanServiceStep, LogStepKinds, InLogSame DEF Untouched
  <2>2. CASE StoreWrite
    <3>1. entry \in AuditEntry /\ Log' = Append(Log, entry) /\ writer = "append"
      BY <2>2, LogWritten DEF Inv, StoreWrite, Appending
    <3>2. job[cur] = entry.body /\ cur \in Caller
      BY <3>1, QueueTypes DEF Bodies, Inv
    <3> QED
      BY <3>1, <3>2, InLogMore DEF Untouched
  <2> QED
    BY <2>1, <2>2
<1>2. ASSUME NEW w \in Caller PROVE job'[w] # i
  <2>0. i # Nobody /\ job[w] # i
    BY MaxRecordsAssumption DEF Call, Nobody, Untouched
  <2>1. CASE job'[w] = job[w] \/ job'[w] = Nobody
    BY <2>0, <2>1
  <2>2. ASSUME NEW v \in Caller, NEW k \in Call, HandleAppend(v, k) \/ HandleHead(v, k) PROVE job'[w] # i
    <3>1. job' = [job EXCEPT ![v] = k] /\ rpc[k].st = "sent" /\ To(k, "running", NoAnswer)
      BY <2>2 DEF HandleAppend, HandleHead, Starts, Polled
    <3>2. rpc'[k].st = "running"
      BY <3>1, ToMoves
    <3> QED
      BY <2>0, <3>1, <3>2 DEF Jobs
  <2>3. ASSUME NEW v \in Caller, HandlerReturns(v) PROVE job'[w] # i
    BY <2>0, <2>3 DEF HandlerReturns, Jobs
  <2>4. CASE ServerDies
    BY <2>1, <2>4 DEF ServerDies
  <2>5. ASSUME NEW k \in Call, ClientStep(k) PROVE job' = job
    BY <2>5 DEF ClientStep, Send, SendRefused, SendNothing, Begin, Break, Receive
  <2>6. ASSUME NEW v \in Caller, NEW k \in Call, HandleUnauthorized(v, k) \/ HandleRead(v, k) PROVE job' = job
    BY <2>6 DEF HandleUnauthorized, HandleRead
  <2>7. CASE LogStep \/ ServerStart \/ Shutdown \/ UNCHANGED allVars
    BY <2>0, <2>7 DEF LogStep, ServerStart, Shutdown, allVars, svcVars
  <2> QED
    BY <2>1, <2>2, <2>3, <2>4, <2>5, <2>6, <2>7 DEF SvcNext, Handle
<1> QED
  BY <1>1, <1>2 DEF Untouched

\* A checkpoint of the log is one of the longer log.
LEMMA SignsStays ==
  ASSUME \A j \in DOMAIN Log : j \in DOMAIN Log' /\ Log'[j] = Log[j], NEW cp, Signs(cp)
  PROVE  Signs(cp)'
BY DEF Signs, HeadKnown

\* A beginning of the log is one of the longer log.
LEMMA BeginningStays ==
  ASSUME NEW S, NEW s \in Seq(S), NEW t \in Seq(S), IsPrefix(s, t), NEW n \in 0..Len(s)
  PROVE  SubSeq(t, 1, n) = SubSeq(s, 1, n)
<1>1. Len(s) <= Len(t) /\ \A j \in 1..Len(s) : s[j] = t[j]
  BY PrefixPointwise
<1>2. /\ SubSeq(s, 1, n) \in Seq(S) /\ Len(SubSeq(s, 1, n)) = n
      /\ \A j \in 1..n : SubSeq(s, 1, n)[j] = s[j]
  OBVIOUS
<1>3. /\ SubSeq(t, 1, n) \in Seq(S) /\ Len(SubSeq(t, 1, n)) = n
      /\ \A j \in 1..n : SubSeq(t, 1, n)[j] = t[j]
  BY <1>1
<1> QED
  BY <1>1, <1>2, <1>3, SeqEqual

\* An answer that fitted still does.
LEMMA FitsStays ==
  ASSUME Inv, CleanInv, Inv', CleanInv', NoDamage, [SvcNext]_allVars, NEW i \in Call, NEW q, Fits(i, q),
         q.ans.kind \in {"error", "status", "missing"} => Untouched(i)'
  PROVE  Fits(i, q)'
<1> DEFINE a == q.ans
<1>0. /\ Known \in Nat /\ Known' \in Nat /\ Known <= Known'
      /\ Len(Log) \in Nat /\ Len(Log') \in Nat /\ Len(Log) <= Len(Log')
      /\ Log \in Seq(AuditEntry) /\ Log' \in Seq(AuditEntry) /\ IsPrefix(Log, Log')
      /\ \A j \in DOMAIN Log : j \in DOMAIN Log' /\ Log'[j] = Log[j]
  BY SvcGrowth
<1>1. q.floor \in Nat /\ q.floor <= Known
  BY DEF Fits
<1>2. q.floor <= Known'
  BY <1>0, <1>1
<1>3. ASSUME a.kind = "receipt"
      PROVE  q.floor < a.val.seq /\ \E j \in EntriesOf(i)' : ReceiptOf(Log'[j]) = a.val
  <2>1. q.floor < a.val.seq /\ \E j \in EntriesOf(i) : ReceiptOf(Log[j]) = a.val
    BY <1>3 DEF Fits
  <2>2. PICK r : r = a.val
    OBVIOUS
  <2>3. \E j \in EntriesOf(i)' : ReceiptOf(Log'[j]) = r
    BY <1>0, <2>1, <2>2, EntriesStay
  <2> QED
    BY <2>1, <2>2, <2>3
<1>4. a.kind \in {"receipt", "head", "checkpoint"} =>
        a.val.seq \in Nat /\ q.floor <= a.val.seq /\ a.val.seq <= Known'
  <2>1. a.kind \in {"receipt", "head", "checkpoint"} =>
          a.val.seq \in Nat /\ q.floor <= a.val.seq /\ a.val.seq <= Known
    BY DEF Fits
  <2> QED
    BY <1>0, <2>1
<1>5. a.kind = "checkpoint" => Signs(a.val)'
  BY <1>0, SignsStays DEF Fits
<1>6. a.kind = "entries" => /\ a.val \in Seq(AuditEntry) /\ IsPrefix(a.val, Log')
                            /\ a.val # << >> => q.floor <= Len(a.val)
  BY <1>0, PrefixTransitive DEF Fits
<1>7. ASSUME a.kind = "report"
      PROVE  \E n \in {0} \cup q.floor..Len(Log') : a.val = verify_entries(SubSeq(Log', 1, n))
  <2>1. PICK n \in {0} \cup q.floor..Len(Log) : a.val = verify_entries(SubSeq(Log, 1, n))
    BY <1>7 DEF Fits
  <2>2. n \in 0..Len(Log) /\ n \in {0} \cup q.floor..Len(Log')
    BY <1>0, <1>1
  <2>3. SubSeq(Log', 1, n) = SubSeq(Log, 1, n)
    BY <1>0, <2>2, BeginningStays
  <2> QED
    BY <2>1, <2>2, <2>3
<1>8. q.st = "answered" => \/ a.code \in 200..299 \/ a.kind = "error"
                           \/ q.op = "verify" /\ a.code = 409
  BY DEF Fits
<1> QED
  BY <1>1, <1>2, <1>3, <1>4, <1>5, <1>6, <1>7, <1>8 DEF Fits

\* The largest number told is one that was told, or zero.
LEMMA FloorKnown ==
  ASSUME Known \in Nat, \A i \in Call : AnswerFits(i)
  PROVE  Floor \in Nat /\ Floor <= Known
<1> DEFINE S == Told \cup {0}
<1>1. S \subseteq 0..Known
  <2>1. ASSUME NEW i \in Call, Done(i, {"receipt", "head", "checkpoint"})
        PROVE  rpc[i].ans.val.seq \in 0..Known
    BY <2>1 DEF Done, AnswerFits, Fits
  <2> QED
    BY <2>1 DEF Told
<1>2. 0 \in S
  OBVIOUS
<1> HIDE DEF S
<1>3. \E x \in S : \A y \in S : x >= y
  <2>1. CASE S \ {0} = {}
    BY <1>1, <1>2, <2>1
  <2>2. CASE S \ {0} # {}
    <3>1. S \ {0} \subseteq 1..Known
      BY <1>1
    <3>2. PICK m \in S \ {0} : \A j \in S \ {0} : j <= m
      BY <2>2, <3>1, Greatest
    <3>3. m \in 1..Known
      BY <3>1
    <3>4. \A y \in S : m >= y
      BY <1>1, <3>2, <3>3
    <3> QED
      BY <3>4
  <2> QED
    BY <2>1, <2>2
<1>4. Max(S) \in S
  BY <1>3 DEF Max
<1>5. Floor \in S
  BY <1>4 DEF Floor, S
<1>6. Floor \in 0..Known
  BY <1>1, <1>5
<1> QED
  BY <1>6

\* A call no handler was started for.
LEMMA SentUntouched ==
  ASSUME Jobs, Bodies, NEW i \in Call, rpc[i].st \in {"new", "sent"}
  PROVE  Untouched(i)
<1>1. i # Nobody
  BY MaxRecordsAssumption DEF Call, Nobody
<1> QED
  BY <1>1 DEF Jobs, Bodies, Untouched

\* An answer that says nothing of the log.
LEMMA PlainFits ==
  ASSUME NEW i, rpc'[i].floor \in Nat, rpc'[i].floor <= Known', rpc'[i].ans.kind \in {"none", "http"},
         rpc'[i].st # "answered"
  PROVE  AnswerFits(i)'
BY DEF AnswerFits, Fits

\* An answer that says the call has done nothing.
LEMMA ErrorFits ==
  ASSUME NEW i, rpc'[i].floor \in Nat, rpc'[i].floor <= Known',
         rpc'[i].ans.kind \in {"error", "status", "missing"}, Untouched(i)',
         rpc'[i].st = "answered" => rpc'[i].ans.kind = "error"
  PROVE  AnswerFits(i)'
BY DEF AnswerFits, Fits

\* A client begins a call.
LEMMA BeginFits ==
  ASSUME Inv, CleanInv, Inv', CleanInv', SvcInv, NoDamage, [SvcNext]_allVars, NEW i \in Call,
         NEW op, NEW tok, Send(i, op, tok) \/ SendRefused(i, op, tok) \/ SendNothing(i, op, tok)
  PROVE  AnswerFits(i)'
<1>0. Known \in Nat /\ Known' \in Nat /\ Known <= Known' /\ Jobs /\ Bodies
  BY SvcGrowth DEF SvcInv
<1>1. Floor \in Nat /\ Floor <= Known'
  <2>1. Floor \in Nat /\ Floor <= Known
    BY <1>0, FloorKnown DEF SvcInv
  <2> QED
    BY <1>0, <2>1
<1>2. PICK st \in {"sent", "done"}, a \in {NoAnswer, HttpError, MissingToken} : Begin(i, op, tok, st, a)
  BY DEF Send, SendRefused, SendNothing
<1>3. rpc'[i] = [st |-> st, op |-> op, tok |-> tok, floor |-> Floor, ans |-> a] /\ rpc[i].st = "new"
  BY <1>0, <1>2, BeginMoves
<1>4. rpc'[i].st \in {"sent", "done"} /\ rpc'[i].floor = Floor /\ rpc'[i].ans = a
  BY <1>3
<1>5. Untouched(i)'
  BY <1>0, <1>3, SentUntouched, UntouchedKept
<1>6. a.kind \in {"none", "http", "missing"}
  BY <1>2 DEF NoAnswer, HttpError, MissingToken, Answer
<1> QED
  BY <1>1, <1>4, <1>5, <1>6, PlainFits, ErrorFits

\* A client gets the answer.
LEMMA ReceiveFits ==
  ASSUME Inv, CleanInv, Inv', CleanInv', SvcInv, NoDamage, [SvcNext]_allVars, NEW i \in Call, Receive(i)
  PROVE  AnswerFits(i)'
<1>0. Known \in Nat /\ Known' \in Nat /\ Known <= Known' /\ Jobs /\ Bodies
  BY SvcGrowth DEF SvcInv
<1>1. PICK q : q = rpc[i]
  OBVIOUS
<1>2. Fits(i, q) /\ q.st = "answered"
  BY <1>1 DEF SvcInv, AnswerFits, Receive
<1>3. PICK a : a = ClientResult(q.op, q.ans)
  OBVIOUS
<1>4. /\ rpc'[i].st = "done" /\ rpc'[i].ans = a /\ rpc'[i].floor = q.floor
      /\ rpc'[i].op = q.op /\ rpc'[i].tok = q.tok
  BY <1>0, <1>1, <1>3, ToMoves DEF Receive
<1>5. q.floor \in Nat /\ q.floor <= Known'
  BY <1>0, <1>2 DEF Fits
<1>6. Untouched(i) => Untouched(i)'
  BY <1>0, <1>1, <1>2, UntouchedKept
<1>7. CASE a = q.ans
  <2>1. Fits(i, q)'
    BY <1>2, <1>6, FitsStays DEF Fits
  <2> QED
    BY <1>4, <1>7, <2>1 DEF AnswerFits, Fits
<1>8. CASE a # q.ans
  <2>1. a.kind = "status" /\ ~(q.ans.code \in 200..299 \/ (q.op = "verify" /\ q.ans.code = 409))
    BY <1>3, <1>8 DEF ClientResult, Answer
  <2>2. q.ans.kind = "error"
    BY <1>2, <2>1 DEF Fits
  <2>3. Untouched(i)
    BY <1>2, <2>2 DEF Fits
  <2> QED
    BY <1>4, <1>5, <1>6, <2>1, <2>3, ErrorFits
<1> QED
  BY <1>7, <1>8

\* A handler reads the file, between writes or while one is under way.
LEMMA ReadFits ==
  ASSUME Inv, CleanInv, Inv', CleanInv', SvcInv, NoDamage, [SvcNext]_allVars, NEW w \in Caller, NEW i \in Call,
         HandleRead(w, i)
  PROVE  AnswerFits(i)'
<1>0. /\ Known \in Nat /\ Known' \in Nat /\ Known <= Known' /\ Jobs /\ Bodies
      /\ Log \in Seq(AuditEntry) /\ Len(Log) \in Nat /\ Known <= Len(Log)
  BY SvcGrowth DEF SvcInv
<1>1. /\ rpc[i].st = "sent" /\ UNCHANGED vars /\ rpc[i].op \in {"read", "verify"}
  BY DEF HandleRead, Polled
<1>2. PICK r \in Readings : To(i, "answered", ReadAnswer(rpc[i].op, r))
  BY DEF HandleRead
<1>3. PICK q, a : q = rpc[i] /\ a = ReadAnswer(q.op, r)
  OBVIOUS
<1>4. /\ rpc'[i].st = "answered" /\ rpc'[i].ans = a /\ rpc'[i].floor = q.floor /\ rpc'[i].op = q.op
  BY <1>0, <1>2, <1>3, ToMoves
<1>5. q.floor \in Nat /\ q.floor <= Known /\ q.floor <= Known' /\ q.floor <= Len(Log)
  <2>1. q.floor \in Nat /\ q.floor <= Known
    BY <1>3 DEF SvcInv, AnswerFits, Fits
  <2> QED
    BY <1>0, <2>1
<1>6. Untouched(i)'
  BY <1>0, <1>1, <1>4, SentUntouched, UntouchedKept
<1>7. Log' = Log
  BY <1>1 DEF vars, storeVars, Log
<1>8. CASE a.kind = "error"
  BY <1>4, <1>5, <1>6, <1>8, ErrorFits
<1>9. ASSUME NEW es \in Seq(AuditEntry), IsPrefix(es, Log), a = EntriesAnswer(q.op, es),
             NEW n \in {0} \cup q.floor..Len(Log), es = SubSeq(Log, 1, n), Len(es) = n
      PROVE  AnswerFits(i)'
  <2>1. CASE q.op = "read"
    <3>1. a.kind = "entries" /\ a.val = es /\ a.code = 200
      BY <1>9, <2>1 DEF EntriesAnswer, Answer
    <3>2. a.val # << >> => q.floor <= Len(a.val)
      BY <1>5, <1>9, <3>1
    <3>3. a.val \in Seq(AuditEntry) /\ IsPrefix(a.val, Log')
      BY <1>7, <1>9, <3>1
    <3> QED
      BY <1>4, <1>5, <3>1, <3>2, <3>3 DEF AnswerFits, Fits
  <2>2. CASE q.op # "read"
    <3>1. q.op = "verify" /\ \E c \in {200, 409} : a = Answer(c, "report", verify_entries(es))
      BY <1>1, <1>3, <1>9, <2>2 DEF EntriesAnswer
    <3>2. a.kind = "report" /\ a.val = verify_entries(es) /\ a.code \in {200, 409}
      BY <3>1 DEF Answer
    <3>3. \E m \in {0} \cup q.floor..Len(Log') : a.val = verify_entries(SubSeq(Log', 1, m))
      BY <1>7, <1>9, <3>2
    <3> QED
      BY <1>4, <1>5, <3>1, <3>2, <3>3 DEF AnswerFits, Fits
  <2> QED
    BY <2>1, <2>2
<1>10. CASE r = ReadOk(Log)
  <2>1. a = EntriesAnswer(q.op, Log)
    BY <1>3, <1>10 DEF ReadAnswer, ReadOk
  <2>2. IsPrefix(Log, Log) /\ Log = SubSeq(Log, 1, Len(Log)) /\ Len(Log) \in q.floor..Len(Log)
    BY <1>0, <1>5, PrefixReflexive
  <2> QED
    BY <1>0, <1>9, <2>1, <2>2
<1>11. CASE r = IoError
  <2>1. a = EntriesAnswer(q.op, << >>)
    BY <1>3, <1>11 DEF ReadAnswer, IoError
  <2>2. << >> \in Seq(AuditEntry) /\ << >> = SubSeq(Log, 1, 0) /\ Len(<< >>) = 0
    BY <1>0
  <2>3. IsPrefix(<< >>, Log)
    BY <1>0, <2>2 DEF IsPrefix
  <2> QED
    BY <1>9, <2>1, <2>2, <2>3
<1>12. CASE r = JsonError
  <2>1. a.kind = "error"
    BY <1>3, <1>12 DEF ReadAnswer, JsonError, Failed, Answer
  <2> QED
    BY <1>8, <2>1
<1> QED
  BY <1>10, <1>11, <1>12 DEF Readings

\* A handler returns what the engine answered.
LEMMA ReturnFits ==
  ASSUME Inv, CleanInv, Inv', CleanInv', SvcInv, NoDamage, [SvcNext]_allVars, NEW w \in Caller, NEW i \in Call,
         HandlerReturns(w), i = job[w], rpc[i].st = "running"
  PROVE  AnswerFits(i)'
<1>0. /\ Known \in Nat /\ Known' \in Nat /\ Known <= Known' /\ Jobs /\ Bodies
      /\ \A j \in DOMAIN Log : j \in DOMAIN Log' /\ Log'[j] = Log[j]
      /\ reply[w] \in Reply
  BY SvcGrowth DEF SvcInv, Inv, TypeOK, EngineTypeOK
<1>1. PICK t : To(i, "answered", HandlerAnswer(rpc[i].op, reply[w], t))
  BY DEF HandlerReturns
<1>2. PICK q, r, a : q = rpc[i] /\ r = reply[w] /\ a = HandlerAnswer(q.op, r, t)
  OBVIOUS
<1>3. /\ rpc'[i].st = "answered" /\ rpc'[i].ans = a /\ rpc'[i].floor = q.floor /\ rpc'[i].op = q.op
  BY <1>0, <1>1, <1>2, ToMoves
<1>4. q.floor \in Nat /\ q.floor <= Known'
  <2>1. q.floor \in Nat /\ q.floor <= Known
    BY <1>2 DEF SvcInv, AnswerFits, Fits
  <2> QED
    BY <1>0, <2>1
<1>5. ReplyFits(w) /\ r \in Reply /\ (r.kind # "none" \/ Dropped(w)) /\ job[w] # Nobody
  BY <1>0, <1>2 DEF SvcInv, HandlerReturns, CallReturn, Return
<1>6. CASE r.kind = "ok"
  <2>1. a.kind = "receipt" /\ a.val = r.receipt /\ a.code = 201
    BY <1>2, <1>6 DEF HandlerAnswer, Answer
  <2>2. /\ r.receipt.seq \in Nat /\ q.floor < r.receipt.seq /\ r.receipt.seq <= Known
        /\ \E j \in EntriesOf(i) : ReceiptOf(Log[j]) = r.receipt
    BY <1>2, <1>5, <1>6 DEF ReplyFits
  <2>3. \E j \in EntriesOf(i)' : ReceiptOf(Log'[j]) = r.receipt
    BY <1>0, <2>2, EntriesStay
  <2>4. r.receipt.seq <= Known' /\ q.floor <= r.receipt.seq
    BY <1>0, <1>4, <2>2
  <2> QED
    BY <1>3, <1>4, <2>1, <2>2, <2>3, <2>4 DEF AnswerFits, Fits
<1>7. CASE r.kind = "head"
  <2>1. r.head \in HeadPair /\ r.head.seq \in Nat /\ r.head = [seq |-> r.head.seq, hash |-> r.head.hash]
    BY <1>5, <1>7 DEF Reply, HeadPair
  <2>2. q.floor <= r.head.seq /\ r.head.seq <= Known
    BY <1>2, <1>5, <1>7 DEF ReplyFits
  <2>3. r.head.seq <= Known'
    BY <1>0, <2>1, <2>2
  <2>4. HeadKnown(r.head)
    BY <1>2, <1>7 DEF CleanInv, CleanHeads
  <2>5. CASE q.op = "head"
    <3>1. a.kind = "head" /\ a.val = r.head /\ a.code = 200
      BY <1>2, <1>7, <2>5 DEF HandlerAnswer, Answer
    <3> QED
      BY <1>3, <1>4, <2>1, <2>2, <2>3, <3>1 DEF AnswerFits, Fits
  <2>6. CASE q.op # "head"
    <3>1. PICK cp : cp = sign("server", r.head.seq, r.head.hash, t)
      OBVIOUS
    <3>2. a.kind = "checkpoint" /\ a.val = cp /\ a.code = 200
      BY <1>2, <1>7, <2>6, <3>1 DEF HandlerAnswer, Answer
    <3>3. cp.seq = r.head.seq /\ cp.head_hash = r.head.hash /\ cp.timestamp = t /\ cp.public_key = "server"
      BY <3>1 DEF sign
    <3>4. Signs(cp)
      BY <2>1, <2>4, <3>1, <3>3 DEF Signs
    <3>5. Signs(cp)'
      BY <1>0, <3>4, SignsStays
    <3> QED
      BY <1>3, <1>4, <2>1, <2>2, <2>3, <3>2, <3>3, <3>5 DEF AnswerFits, Fits
  <2> QED
    BY <2>5, <2>6
<1>8. CASE r.kind \in {"err", "none"}
  <2>0. r.kind = "none" => ~(dirty /\ cur = w)
    BY <1>5 DEF Dropped, Inv, ChainInv, DirtyLine, Appending
  <2>1. a.kind = "error"
    BY <1>2, <1>8 DEF HandlerAnswer, Failed, Answer
  <2>2. file' = file /\ job' = [job EXCEPT ![w] = Nobody]
    BY DEF HandlerReturns, CallReturn, storeVars
  <2>3. ~InLog(i)'
    <3>1. ~InLog(i) /\ Log' = Log
      BY <1>2, <1>5, <1>8, <2>0, <2>2 DEF ReplyFits, Log
    <3> QED
      BY <3>1, InLogSame
  <2>4. i # Nobody
    BY MaxRecordsAssumption DEF Call, Nobody
  <2>5. \A v \in Caller : job'[v] # i
    BY <1>0, <2>2, <2>4 DEF Jobs
  <2>6. Untouched(i)'
    BY <2>3, <2>5 DEF Untouched
  <2> QED
    BY <1>3, <1>4, <2>1, <2>6, ErrorFits
<1> QED
  BY <1>5, <1>6, <1>7, <1>8 DEF Reply

\* Every step leaves answers that fit.
LEMMA FitsStep ==
  ASSUME Inv, CleanInv, Inv', CleanInv', SvcInv, NoDamage, [SvcNext]_allVars, NEW i \in Call
  PROVE  AnswerFits(i)'
<1>0. Known \in Nat /\ Known' \in Nat /\ Known <= Known' /\ Jobs /\ Bodies
  BY SvcGrowth DEF SvcInv
<1>1. CASE rpc'[i] = rpc[i]
  <2>1. PICK q : q = rpc[i]
    OBVIOUS
  <2>2. Fits(i, q)
    BY <2>1 DEF SvcInv, AnswerFits
  <2>3. Untouched(i) => Untouched(i)'
    BY <1>0, <1>1, UntouchedKept
  <2>4. Fits(i, q)'
    BY <2>2, <2>3, FitsStays DEF Fits
  <2> QED
    BY <1>1, <2>1, <2>4 DEF AnswerFits, Fits
<1>2. ASSUME rpc'[i].floor = rpc[i].floor, rpc'[i].ans.kind \in {"none", "http"}, rpc'[i].st # "answered"
      PROVE  AnswerFits(i)'
  <2>1. rpc[i].floor \in Nat /\ rpc[i].floor <= Known
    BY DEF SvcInv, AnswerFits, Fits
  <2>2. rpc[i].floor <= Known'
    BY <1>0, <2>1
  <2> QED
    BY <1>2, <2>1, <2>2, PlainFits
<1>3. NoAnswer.kind = "none" /\ HttpError.kind = "http" /\ Unauthorized.kind = "error"
  BY DEF NoAnswer, HttpError, Unauthorized, Answer
<1>4. ASSUME NEW k \in Call, NEW st, NEW a, st \notin {"new", "sent"}, To(k, st, a), k # i
      PROVE  AnswerFits(i)'
  BY <1>0, <1>1, <1>4, ToMoves
<1>5. ASSUME NEW k \in Call, ClientStep(k) PROVE AnswerFits(i)'
  <2>1. CASE Break(k)
    <3>1. To(k, "done", HttpError)
      BY <2>1 DEF Break
    <3> QED
      BY <1>0, <1>2, <1>3, <1>4, <3>1, ToMoves
  <2>2. CASE Receive(k)
    <3>1. PICK a : To(k, "done", a)
      BY <2>2 DEF Receive
    <3> QED
      BY <1>4, <2>2, <3>1, ReceiveFits
  <2>3. ASSUME NEW op, NEW tok, Send(k, op, tok) \/ SendRefused(k, op, tok) \/ SendNothing(k, op, tok)
        PROVE  AnswerFits(i)'
    <3>1. CASE k = i
      BY <2>3, <3>1, BeginFits
    <3>2. CASE k # i
      <4>1. PICK st, a : Begin(k, op, tok, st, a)
        BY <2>3 DEF Send, SendRefused, SendNothing
      <4> QED
        BY <1>0, <1>1, <3>2, <4>1, BeginMoves
    <3> QED
      BY <3>1, <3>2
  <2> QED
    BY <1>5, <2>1, <2>2, <2>3 DEF ClientStep
<1>6. ASSUME NEW w \in Caller, NEW k \in Call, Handle(w, k) PROVE AnswerFits(i)'
  <2>1. CASE HandleUnauthorized(w, k)
    <3>1. To(k, "answered", Unauthorized) /\ rpc[k].st = "sent"
      BY <2>1 DEF HandleUnauthorized, Polled
    <3>2. CASE k = i
      <4>1. rpc'[i].st = "answered" /\ rpc'[i].ans = Unauthorized /\ rpc'[i].floor = rpc[i].floor
        BY <1>0, <3>1, <3>2, ToMoves
      <4>2. Untouched(i)'
        BY <1>0, <3>1, <3>2, <4>1, SentUntouched, UntouchedKept
      <4>3. rpc[i].floor \in Nat /\ rpc[i].floor <= Known
        BY DEF SvcInv, AnswerFits, Fits
      <4>4. rpc[i].floor <= Known'
        BY <1>0, <4>3
      <4> QED
        BY <1>3, <4>1, <4>2, <4>3, <4>4, ErrorFits
    <3> QED
      BY <1>4, <3>1, <3>2
  <2>2. CASE HandleAppend(w, k) \/ HandleHead(w, k)
    <3>1. To(k, "running", NoAnswer)
      BY <2>2 DEF HandleAppend, HandleHead, Starts
    <3> QED
      BY <1>0, <1>2, <1>3, <1>4, <3>1, ToMoves
  <2>3. CASE HandleRead(w, k)
    <3>1. PICK a : To(k, "answered", a)
      BY <2>3 DEF HandleRead
    <3> QED
      BY <1>4, <2>3, <3>1, ReadFits
  <2> QED
    BY <1>6, <2>1, <2>2, <2>3 DEF Handle
<1>7. ASSUME NEW w \in Caller, HandlerReturns(w) PROVE AnswerFits(i)'
  <2>1. job[w] \in Call
    BY <1>0, <1>7 DEF HandlerReturns, Jobs
  <2>2. CASE rpc' = rpc
    BY <1>1, <2>2
  <2>3. CASE rpc' # rpc
    <3>1. PICK a : To(job[w], "answered", a) /\ rpc[job[w]].st = "running"
      BY <1>7, <2>3 DEF HandlerReturns
    <3> QED
      BY <1>4, <1>7, <2>1, <3>1, ReturnFits
  <2> QED
    BY <2>2, <2>3
<1>8. CASE Shutdown \/ ServerDies
  <2>1. PICK states : CutOff(states)
    BY <1>8 DEF Shutdown, ServerDies
  <2>2. rpc'[i] # rpc[i] => rpc'[i].ans = HttpError /\ rpc'[i].st = "done"
    BY <1>0, <2>1, CutOffMoves
  <2>3. rpc'[i].floor = rpc[i].floor
    BY <1>0, <2>1 DEF CutOff, Jobs
  <2> QED
    BY <1>1, <1>2, <1>3, <2>2, <2>3
<1>9. CASE LogStep \/ ServerStart \/ UNCHANGED allVars
  <2>1. rpc' = rpc
    BY <1>9 DEF LogStep, ServerStart, allVars, svcVars
  <2> QED
    BY <1>1, <2>1
<1> QED
  BY <1>5, <1>6, <1>7, <1>8, <1>9 DEF SvcNext

\* Nothing was asked yet.
LEMMA SvcInvInit == Init /\ SvcInit => SvcInv
<1> SUFFICES ASSUME Init, SvcInit PROVE SvcInv
  OBVIOUS
<1>0. /\ rpc = [i \in Call |-> NewCall] /\ job = [w \in Caller |-> Nobody]
      /\ \A w \in Caller : call[w] = "idle" /\ reply[w] = NoReply
      /\ ~up /\ chan = << >> /\ writer = "recv"
  BY DEF Init, SvcInit, EngineInit
<1>1. NewCall.floor = 0 /\ NewCall.st = "new" /\ NewCall.ans = NoAnswer /\ NoAnswer.kind = "none"
      /\ DOMAIN NewCall = {"st", "op", "tok", "floor", "ans"}
  BY DEF NewCall, NoAnswer, Answer
<1>2. DOMAIN Log = {} /\ Known \in Nat
  <2>1. CleanInv /\ TypeOK /\ ChainInv
    BY CleanInit, TypeInit, ChainInit
  <2>2. << >> \in Seq(AuditEntry) /\ Len(<< >>) = 0 /\ Len(Log) \in Nat /\ DOMAIN Log = 1..Len(Log)
    BY <2>1, LogFacts
  <2>3. Log \in Seq(AuditEntry) /\ file = Written(Log) /\ Len(file) = 0
    BY <2>1 DEF CleanInv, CleanFile, Init, StoreInit
  <2>4. Len(file) = 2 * Len(Log)
    BY <2>3, WrittenIs
  <2>5. Len(Log) = 0
    <3>1. 2 * Len(Log) = 0 /\ Len(Log) \in Nat
      BY <2>2, <2>3, <2>4
    <3> QED
      BY <3>1
  <2> QED
    BY <2>1, <2>2, <2>5, KnownFacts
<1>3. Jobs
  BY <1>0, <1>1 DEF Jobs
<1>4. \A b : ~InLog(b)
  BY <1>2 DEF InLog, EntriesOf
<1>5. Bodies
  <2>1. DOMAIN chan = {}
    BY <1>0
  <2> QED
    BY <1>0, <1>2, <1>4, <2>1 DEF Bodies
<1>6. \A w \in Caller : ReplyFits(w)
  BY <1>0, <1>4 DEF ReplyFits, NoReply
<1>7. ASSUME NEW i \in Call PROVE AnswerFits(i)
  <2>1. rpc[i].floor = 0 /\ rpc[i].st = "new" /\ rpc[i].ans.kind = "none" /\ 0 <= Known
    BY <1>0, <1>1, <1>2
  <2> QED
    BY <2>1 DEF AnswerFits, Fits
<1> QED
  BY <1>3, <1>5, <1>6, <1>7 DEF SvcInv

\* Calls, handlers, replies and answers fit the log at every moment of the
\* service's life, for any number of workers, calls and tokens, as long as no
\* fault damages the file.  What a read shows is a beginning of the log that
\* holds all the client was told, or nothing (read_log's empty log for any I/O
\* error).
THEOREM ServiceInvariant ==
  ASSUME NoDamage
  PROVE  SvcSpec => [](Inv /\ CleanInv /\ SvcInv)
<1>1. SvcSpec => [](Inv /\ CleanInv)
  BY ServiceImplementsLog, Invariant, ServiceIsClean, CleanInvariant, PTL
<1>2. Inv /\ CleanInv /\ Inv' /\ CleanInv' /\ SvcInv /\ [SvcNext]_allVars => SvcInv'
  <2> SUFFICES ASSUME Inv, CleanInv, Inv', CleanInv', SvcInv, [SvcNext]_allVars PROVE SvcInv'
    OBVIOUS
  <2>1. Jobs'
    BY JobsStep DEF SvcInv, Inv
  <2>2. Bodies'
    BY BodiesStep DEF SvcInv
  <2>3. \A w \in Caller : ReplyFits(w)'
    BY RepliesStep DEF SvcInv
  <2>4. \A i \in Call : AnswerFits(i)'
    BY FitsStep
  <2> QED
    BY <2>1, <2>2, <2>3, <2>4 DEF SvcInv
<1> QED
  BY <1>1, <1>2, SvcInvInit, PTL DEF SvcSpec

-----------------------------------------------------------------------------
(* What follows for the clients.                                           *)

\* A beginning of a chain is a chain, and verifies.
LEMMA BeginningLinked ==
  ASSUME NEW es \in Seq(AuditEntry), Linked(es), NEW n \in 0..Len(es)
  PROVE  /\ SubSeq(es, 1, n) \in Seq(AuditEntry) /\ Len(SubSeq(es, 1, n)) = n
         /\ DOMAIN SubSeq(es, 1, n) = 1..n
         /\ \A j \in 1..n : SubSeq(es, 1, n)[j] = es[j]
         /\ is_valid(verify_entries(SubSeq(es, 1, n)))
<1> DEFINE s == SubSeq(es, 1, n)
<1>1. /\ s \in Seq(AuditEntry) /\ Len(s) = n /\ DOMAIN s = 1..n
      /\ \A j \in 1..n : s[j] = es[j] /\ j \in DOMAIN es
  OBVIOUS
<1> HIDE DEF s
<1>2. ASSUME NEW j \in DOMAIN s
      PROVE  /\ s[j].seq = j /\ s[j].entry_hash = recompute_hash(s[j])
             /\ s[j].prev_hash = IF j = 1 THEN GENESIS_PREV_HASH ELSE s[j - 1].entry_hash
  <2>1. s[j] = es[j] /\ (j # 1 => j - 1 \in 1..n)
    BY <1>1
  <2>2. j # 1 => s[j - 1] = es[j - 1]
    BY <1>1, <2>1
  <2> QED
    BY <1>1, <2>1, <2>2 DEF Linked
<1>3. Linked(s)
  BY <1>2 DEF Linked
<1>4. is_valid(verify_entries(s))
  BY <1>1, <1>3, LinkedValid
<1> QED
  BY <1>1, <1>4 DEF s

\* What a report on the first n entries says.
LEMMA BeginningReport ==
  ASSUME NEW es \in Seq(AuditEntry), Linked(es), NEW n \in 0..Len(es)
  PROVE  /\ verify_entries(SubSeq(es, 1, n)).entries_checked = n
         /\ verify_entries(SubSeq(es, 1, n)).head = IF n = 0 THEN << >> ELSE << es[n].seq, es[n].entry_hash >>
<1> DEFINE s == SubSeq(es, 1, n)
<1>1. s \in Seq(AuditEntry) /\ Len(s) = n /\ \A j \in 1..n : s[j] = es[j]
  BY BeginningLinked
<1> HIDE DEF s
<1>2. s = << >> <=> n = 0
  BY <1>1
<1>3. n # 0 => s[Len(s)] = es[n]
  BY <1>1
<1>4. verify_entries(s).entries_checked = Len(s)
  BY DEF verify_entries, verify_entries_from
<1>5. verify_entries(s).head = IF s = << >> THEN << >> ELSE << s[Len(s)].seq, s[Len(s)].entry_hash >>
  BY DEF verify_entries, verify_entries_from
<1> QED
  BY <1>1, <1>2, <1>3, <1>4, <1>5 DEF s

\* Entries a client has read stay in the log, in the same places: GET
\* /v1/records never shows an entry that a failed write or the death of the
\* server takes back.
THEOREM ReadsNeverTakenBack ==
  ASSUME NoDamage
  PROVE  SvcSpec => []ReadsStay
<1>1. SvcInv => ReadsStay
  BY DEF SvcInv, AnswerFits, Fits, ReadsStay, Done
<1> QED
  BY <1>1, ServiceInvariant, PTL

\* GET /v1/verify raises no false alarm, whatever failed or raced with it.
THEOREM VerifyNeverAlarms ==
  ASSUME NoDamage
  PROVE  SvcSpec => []NoFalseAlarm
<1>1. CleanInv /\ SvcInv => NoFalseAlarm
  <2> SUFFICES ASSUME CleanInv, SvcInv, NEW i \in Call, Done(i, {"report"})
               PROVE  LET report == rpc[i].ans.val
                          n == report.entries_checked
                      IN /\ is_valid(report)
                         /\ n \in 0..Len(Log)
                         /\ n > 0 => report.head = << Log[n].seq, Log[n].entry_hash >>
    BY DEF NoFalseAlarm
  <2>1. Log \in Seq(AuditEntry) /\ Linked(Log) /\ rpc[i].floor \in Nat
    BY DEF CleanInv, CleanFile, SvcInv, AnswerFits, Fits
  <2>2. PICK n \in {0} \cup rpc[i].floor..Len(Log) : rpc[i].ans.val = verify_entries(SubSeq(Log, 1, n))
    BY DEF SvcInv, AnswerFits, Fits, Done
  <2>3. n \in 0..Len(Log)
    BY <2>1
  <2>4. /\ is_valid(rpc[i].ans.val) /\ rpc[i].ans.val.entries_checked = n
        /\ rpc[i].ans.val.head = IF n = 0 THEN << >> ELSE << Log[n].seq, Log[n].entry_hash >>
    BY <2>1, <2>2, <2>3, BeginningLinked, BeginningReport
  <2> QED
    BY <2>3, <2>4
<1> QED
  BY <1>1, ServiceInvariant, PTL

\* A call that begins after another has returned a receipt, head or checkpoint
\* never goes back behind it, across restarts of the server too, as long as no
\* fault damages the file; only a read or report that shows no entry at all
\* may (read_log answers an I/O error with an empty log, see ReadsFull).
THEOREM ClientsNeverBehind ==
  ASSUME NoDamage
  PROVE  SvcSpec => []NeverBehind
<1>1. CleanInv /\ SvcInv => NeverBehind
  <2> SUFFICES ASSUME CleanInv, SvcInv, NEW i \in Call
               PROVE  /\ Done(i, {"receipt"}) => rpc[i].ans.val.seq > rpc[i].floor
                      /\ Done(i, {"head", "checkpoint"}) => rpc[i].ans.val.seq >= rpc[i].floor
                      /\ Done(i, {"entries"}) /\ rpc[i].ans.val # << >> =>
                           Len(rpc[i].ans.val) >= rpc[i].floor
                      /\ Done(i, {"report"}) /\ rpc[i].ans.val.entries_checked # 0 =>
                           rpc[i].ans.val.entries_checked >= rpc[i].floor
    BY DEF NeverBehind
  <2>0. Log \in Seq(AuditEntry) /\ Linked(Log) /\ rpc[i].floor \in Nat
    BY DEF CleanInv, CleanFile, SvcInv, AnswerFits, Fits
  <2>1. Done(i, {"receipt"}) => rpc[i].ans.val.seq > rpc[i].floor
    BY <2>0 DEF SvcInv, AnswerFits, Fits, Done
  <2>2. Done(i, {"head", "checkpoint"}) => rpc[i].ans.val.seq >= rpc[i].floor
    BY <2>0 DEF SvcInv, AnswerFits, Fits, Done
  <2>3. Done(i, {"entries"}) /\ rpc[i].ans.val # << >> => Len(rpc[i].ans.val) >= rpc[i].floor
    <3>1. Done(i, {"entries"}) /\ rpc[i].ans.val # << >> =>
            rpc[i].ans.val \in Seq(AuditEntry) /\ rpc[i].floor <= Len(rpc[i].ans.val)
      BY DEF SvcInv, AnswerFits, Fits, Done
    <3> QED
      BY <2>0, <3>1
  <2>4. ASSUME Done(i, {"report"}), rpc[i].ans.val.entries_checked # 0
        PROVE  rpc[i].ans.val.entries_checked >= rpc[i].floor
    <3>1. PICK n \in {0} \cup rpc[i].floor..Len(Log) : rpc[i].ans.val = verify_entries(SubSeq(Log, 1, n))
      BY <2>4 DEF SvcInv, AnswerFits, Fits, Done
    <3>2. n \in 0..Len(Log) /\ (n = 0 \/ n >= rpc[i].floor)
      BY <2>0
    <3> QED
      BY <2>0, <2>4, <3>1, <3>2, BeginningReport
  <2> QED
    BY <2>1, <2>2, <2>3, <2>4
<1> QED
  BY <1>1, ServiceInvariant, PTL

\* A call of append puts at most one entry in the log, only with the write
\* token; its receipt is that of its own entry, and a call that ended with a
\* status or without a token has left none, then or later.
THEOREM AppendsOnce ==
  ASSUME NoDamage
  PROVE  SvcSpec => []AppendOnce
<1>1. CleanInv /\ SvcInv => AppendOnce
  <2> SUFFICES ASSUME CleanInv, SvcInv, NEW i \in Call
               PROVE  /\ Cardinality(EntriesOf(i)) <= 1
                      /\ EntriesOf(i) # {} => rpc[i].op = "append" /\ rpc[i].tok = write_token
                      /\ Done(i, {"receipt"}) => \E j \in EntriesOf(i) : ReceiptOf(Log[j]) = rpc[i].ans.val
                      /\ Done(i, {"status", "missing"}) => EntriesOf(i) = {}
    BY DEF AppendOnce
  <2>1. \A j, k \in EntriesOf(i) : j = k
    BY DEF EntriesOf, SvcInv, Bodies
  <2>2. Cardinality(EntriesOf(i)) <= 1
    <3>1. CASE EntriesOf(i) = {}
      BY <3>1, FS_EmptySet
    <3>2. CASE EntriesOf(i) # {}
      <4>0. PICK j : j \in EntriesOf(i)
        BY <3>2
      <4>1. EntriesOf(i) = {j}
        BY <2>1, <4>0
      <4>2. Cardinality({j}) = 1
        BY FS_Singleton, Zenon
      <4> QED
        BY <4>1, <4>2
    <3> QED
      BY <3>1, <3>2
  <2>3. EntriesOf(i) # {} => rpc[i].op = "append" /\ rpc[i].tok = write_token
    BY DEF EntriesOf, SvcInv, Bodies, Authorised
  <2>4. Done(i, {"receipt"}) => \E j \in EntriesOf(i) : ReceiptOf(Log[j]) = rpc[i].ans.val
    BY DEF SvcInv, AnswerFits, Fits, Done
  <2>5. Done(i, {"status", "missing"}) => EntriesOf(i) = {}
    BY DEF SvcInv, AnswerFits, Fits, Done, Untouched, InLog
  <2> QED
    BY <2>2, <2>3, <2>4, <2>5
<1> QED
  BY <1>1, ServiceInvariant, PTL

-----------------------------------------------------------------------------
(* Checkpoints.                                                            *)

\* A hash of a chain is the chain: entry n's hash lists the first n entries.
LEMMA ChainHash ==
  ASSUME NEW es \in Seq(AuditEntry), Linked(es), NEW n \in 1..Len(es)
  PROVE  /\ es[n].entry_hash \in Seq(Fields) /\ Len(es[n].entry_hash) = n
         /\ \A j \in 1..n : es[n].entry_hash[j] = canonical(es[j])
<1> DEFINE Good(k) == /\ es[k].entry_hash \in Seq(Fields) /\ Len(es[k].entry_hash) = k
                      /\ \A j \in 1..k : es[k].entry_hash[j] = canonical(es[j])
           Bad == { k \in 1..Len(es) : ~Good(k) }
<1> SUFFICES Bad = {}
  OBVIOUS
<1> SUFFICES ASSUME Bad # {} PROVE FALSE
  OBVIOUS
<1>1. Len(es) \in Nat /\ DOMAIN es = 1..Len(es) /\ Bad \subseteq Nat
  OBVIOUS
<1>2. PICK k \in Bad : \A j \in Bad : k <= j
  <2> HIDE DEF Bad
  <2> QED
    BY <1>1, Least
<1>3. k \in 1..Len(es) /\ es[k] \in AuditEntry
  BY <1>1
<1>4. /\ es[k].entry_hash = Append(es[k].prev_hash, canonical(es[k]))
      /\ es[k].prev_hash = IF k = 1 THEN GENESIS_PREV_HASH ELSE es[k - 1].entry_hash
  BY <1>1, <1>3 DEF Linked, recompute_hash
<1>5. canonical(es[k]) \in Fields /\ es[k].prev_hash \in Seq(Fields)
  BY <1>3 DEF AuditEntry, canonical, Fields, Hash
<1>6. /\ Len(es[k].prev_hash) = k - 1
      /\ \A j \in 1..(k - 1) : es[k].prev_hash[j] = canonical(es[j])
  <2>1. CASE k = 1
    BY <1>4, <2>1 DEF GENESIS_PREV_HASH
  <2>2. CASE k # 1
    <3>1. k - 1 \in 1..Len(es) /\ ~(k <= k - 1)
      BY <1>1, <1>3, <2>2
    <3>2. Good(k - 1)
      BY <1>2, <3>1
    <3> QED
      BY <1>4, <2>2, <3>2
  <2> QED
    BY <2>1, <2>2
<1>7. /\ es[k].entry_hash \in Seq(Fields) /\ Len(es[k].entry_hash) = k
      /\ \A j \in 1..(k - 1) : es[k].entry_hash[j] = es[k].prev_hash[j]
      /\ es[k].entry_hash[k] = canonical(es[k])
  BY <1>3, <1>4, <1>5, <1>6
<1>8. \A j \in 1..k : j \in 1..(k - 1) \/ j = k
  BY <1>3
<1>9. Good(k)
  BY <1>6, <1>7, <1>8
<1> QED
  BY <1>9

\* The checkpoints clients hold are of genesis or of an entry of the log.
LEMMA PinsSign ==
  ASSUME CleanInv, SvcInv, NEW cp \in Pins
  PROVE  Signs(cp)
<1>0. Log \in Seq(AuditEntry) /\ Linked(Log)
  BY DEF CleanInv, CleanFile
<1>1. ASSUME NEW i \in Call, Done(i, {"checkpoint"}), cp = rpc[i].ans.val PROVE Signs(cp)
  BY <1>1 DEF SvcInv, AnswerFits, Fits, Done
<1>2. ASSUME NEW i \in Call, Done(i, {"entries"}), cp = CheckpointOf("auditor", rpc[i].ans.val, 1)
      PROVE  Signs(cp)
  <2>1. PICK es : es = rpc[i].ans.val
    OBVIOUS
  <2>2. es \in Seq(AuditEntry) /\ IsPrefix(es, Log)
    BY <1>2, <2>1 DEF SvcInv, AnswerFits, Fits, Done
  <2>3. Len(es) <= Len(Log) /\ \A j \in 1..Len(es) : es[j] = Log[j]
    BY <1>0, <2>2, PrefixPointwise
  <2>4. CASE es = << >>
    <3>1. cp = sign("auditor", 0, GENESIS_PREV_HASH, 1)
      BY <1>2, <2>1, <2>4 DEF CheckpointOf
    <3>2. cp.seq = 0 /\ cp.head_hash = GENESIS_PREV_HASH /\ cp.timestamp = 1 /\ cp.public_key = "auditor"
      BY <3>1 DEF sign
    <3> QED
      BY <3>1, <3>2 DEF Signs, HeadKnown
  <2>5. CASE es # << >>
    <3>1. Len(es) \in 1..Len(es) /\ Len(es) \in DOMAIN Log
      BY <1>0, <2>2, <2>3, <2>5
    <3>2. PICK e : e = Log[Len(es)]
      OBVIOUS
    <3>3. cp = sign("auditor", e.seq, e.entry_hash, 1)
      BY <1>2, <2>1, <2>3, <2>5, <3>1, <3>2 DEF CheckpointOf
    <3>4. cp.seq = e.seq /\ cp.head_hash = e.entry_hash /\ cp.timestamp = 1 /\ cp.public_key = "auditor"
      BY <3>3 DEF sign
    <3> QED
      BY <3>1, <3>2, <3>3, <3>4 DEF Signs, HeadKnown
  <2> QED
    BY <2>4, <2>5
<1> QED
  BY <1>1, <1>2 DEF Pins

\* So such a checkpoint names a place of the log and the hash there.
LEMMA SignsPlace ==
  ASSUME CleanInv, NEW cp, Signs(cp)
  PROVE  /\ verify_checkpoint(cp)
         /\ \/ cp.seq = 0
            \/ cp.seq \in 1..Len(Log) /\ cp.head_hash = Log[cp.seq].entry_hash
<1>1. cp = sign(cp.public_key, cp.seq, cp.head_hash, cp.timestamp)
  BY DEF Signs
<1>2. cp.signature = sign_bytes(cp.public_key, message(cp.seq, cp.head_hash, cp.timestamp))
  BY <1>1 DEF sign
<1>3. verify_checkpoint(cp)
  BY <1>2 DEF verify_checkpoint, verify_checkpoint_with, verify_signature, sign_bytes
<1>4. ASSUME cp.seq # 0 PROVE cp.seq \in 1..Len(Log) /\ cp.head_hash = Log[cp.seq].entry_hash
  <2>1. [seq |-> cp.seq, hash |-> cp.head_hash] # [seq |-> 0, hash |-> GENESIS_PREV_HASH]
    BY <1>4
  <2>2. PICK j \in DOMAIN Log : [seq |-> cp.seq, hash |-> cp.head_hash]
                                  = [seq |-> Log[j].seq, hash |-> Log[j].entry_hash]
    BY <2>1 DEF Signs, HeadKnown
  <2>3. cp.seq = Log[j].seq /\ cp.head_hash = Log[j].entry_hash
    BY <2>2
  <2>4. Log[j].seq = j /\ DOMAIN Log = 1..Len(Log)
    BY LogFacts
  <2> QED
    BY <2>3, <2>4
<1> QED
  BY <1>3, <1>4

\* A checkpoint with another head put in does not verify.
LEMMA MovedRefused ==
  ASSUME NEW cp, Signs(cp), NEW h, verify_checkpoint([cp EXCEPT !.head_hash = h])
  PROVE  h = cp.head_hash
<1> DEFINE mv == [cp EXCEPT !.head_hash = h]
<1>1. cp = sign(cp.public_key, cp.seq, cp.head_hash, cp.timestamp)
  BY DEF Signs
<1>2. /\ mv.seq = cp.seq /\ mv.head_hash = h /\ mv.timestamp = cp.timestamp
      /\ mv.public_key = cp.public_key /\ mv.signature = cp.signature
  BY <1>1 DEF sign
<1>3. cp.signature = sign_bytes(cp.public_key, message(cp.seq, cp.head_hash, cp.timestamp))
  BY <1>1 DEF sign
<1>4. mv.signature = sign_bytes(mv.public_key, message(mv.seq, mv.head_hash, mv.timestamp))
  BY DEF verify_checkpoint, verify_checkpoint_with, verify_signature, sign_bytes
<1> HIDE DEF mv
<1>5. message(cp.seq, cp.head_hash, cp.timestamp) = message(cp.seq, h, cp.timestamp)
  BY <1>2, <1>3, <1>4 DEF sign_bytes
<1> QED
  BY <1>5 DEF message

\* A rewritten log a checkpoint accepts is not rewritten up to the checkpoint.
LEMMA RewriteDetected ==
  ASSUME CleanInv, NEW cp, Signs(cp), NEW k \in DOMAIN Log, NEW b \in Body, NEW n \in 0..Len(Log),
         VerifyWithCheckpoint(SubSeq(Rewritten(k, b), 1, n), cp)
  PROVE  SubSeq(Rewritten(k, b), 1, n) = SubSeq(Log, 1, n)
<1>0. Log \in Seq(AuditEntry) /\ Linked(Log) /\ Len(Log) \in Nat /\ DOMAIN Log = 1..Len(Log)
  BY LogFacts DEF CleanInv, CleanFile
<1> DEFINE N == Len(Log)
           fs == [j \in DOMAIN Log |-> IF j = k THEN [canonical(Log[j]) EXCEPT !.body = b]
                                       ELSE canonical(Log[j])]
           r == Rewritten(k, b)
<1>1. \A j \in 1..N : Log[j] \in AuditEntry /\ Log[j].seq = j
  BY <1>0 DEF Linked
<1>2. \A j \in 1..N : fs[j] \in Fields /\ fs[j].seq = j
  BY <1>0, <1>1 DEF AuditEntry, canonical, Fields
<1>3. fs \in [1..N -> Fields]
  BY <1>0, <1>2
<1>4. fs \in Seq(Fields) /\ Len(fs) = N
  BY <1>0, <1>3, IsASeq
<1>5. r = [j \in DOMAIN Log |-> Sealed(fs[j].seq, fs[j].timestamp, fs[j].body, SubSeq(fs, 1, j - 1))]
  BY DEF Rewritten
<1> HIDE DEF fs, r
<1>6. ASSUME NEW j \in 1..N
      PROVE  /\ SubSeq(fs, 1, j - 1) \in Seq(Fields) /\ Len(SubSeq(fs, 1, j - 1)) = j - 1
             /\ \A m \in 1..(j - 1) : SubSeq(fs, 1, j - 1)[m] = fs[m]
  BY <1>0, <1>4
<1>7. ASSUME NEW j \in 1..N
      PROVE  /\ r[j] \in AuditEntry /\ r[j].seq = j /\ r[j].prev_hash = SubSeq(fs, 1, j - 1)
             /\ r[j].timestamp = fs[j].timestamp /\ r[j].body = fs[j].body
             /\ r[j].entry_hash = Append(SubSeq(fs, 1, j - 1), fs[j])
  <2>1. r[j] = Sealed(fs[j].seq, fs[j].timestamp, fs[j].body, SubSeq(fs, 1, j - 1))
    BY <1>0, <1>5
  <2>2. /\ fs[j].seq \in Nat /\ fs[j].timestamp \in Time /\ fs[j].body \in Body /\ fs[j].seq = j
        /\ fs[j] = [seq |-> fs[j].seq, timestamp |-> fs[j].timestamp, body |-> fs[j].body]
    BY <1>2 DEF Fields
  <2>3. SubSeq(fs, 1, j - 1) \in Hash
    BY <1>6 DEF Hash
  <2>4. r[j] \in AuditEntry
    BY <2>1, <2>2, <2>3, SealedType
  <2>5. /\ r[j].seq = fs[j].seq /\ r[j].prev_hash = SubSeq(fs, 1, j - 1)
        /\ r[j].timestamp = fs[j].timestamp /\ r[j].body = fs[j].body
        /\ r[j].entry_hash = Append(SubSeq(fs, 1, j - 1),
                                    [seq |-> fs[j].seq, timestamp |-> fs[j].timestamp, body |-> fs[j].body])
    BY <2>1 DEF Sealed
  <2> QED
    BY <2>2, <2>4, <2>5
<1>8. r \in Seq(AuditEntry) /\ Len(r) = N
  <2>1. r \in [1..N -> AuditEntry]
    BY <1>0, <1>5, <1>7
  <2> QED
    BY <1>0, <2>1, IsASeq
<1>9. /\ SubSeq(r, 1, n) \in Seq(AuditEntry) /\ Len(SubSeq(r, 1, n)) = n
      /\ \A j \in 1..n : SubSeq(r, 1, n)[j] = r[j]
  BY <1>0, <1>8
<1>10. /\ SubSeq(Log, 1, n) \in Seq(AuditEntry) /\ Len(SubSeq(Log, 1, n)) = n
       /\ \A j \in 1..n : SubSeq(Log, 1, n)[j] = Log[j]
  BY <1>0, BeginningLinked
<1>11. verify_entries(SubSeq(r, 1, n)).head = << cp.seq, cp.head_hash >>
  BY DEF VerifyWithCheckpoint, HeadMatches, r
<1>12. n # 0 /\ cp.seq = n /\ cp.head_hash = r[n].entry_hash
  <2> DEFINE s == SubSeq(r, 1, n)
  <2>1. verify_entries(s).head = IF s = << >> THEN << >> ELSE << s[Len(s)].seq, s[Len(s)].entry_hash >>
    BY DEF verify_entries, verify_entries_from
  <2>2. s # << >>
    <3>1. ASSUME s = << >> PROVE FALSE
      <4>1. verify_entries(s).head = << >>
        BY <2>1, <3>1
      <4> QED
        BY <1>11, <4>1, NoEmptyPair, Zenon
    <3> QED
      BY <3>1
  <2>3. n # 0 /\ n \in 1..n /\ n \in 1..N
    BY <1>0, <1>9, <2>2
  <2>4. s[Len(s)] = r[n] /\ r[n].seq = n
    BY <1>7, <1>9, <2>3
  <2> HIDE DEF s
  <2>5. << s[Len(s)].seq, s[Len(s)].entry_hash >> = << cp.seq, cp.head_hash >>
    BY <1>11, <2>1, <2>2 DEF s
  <2> QED
    BY <2>3, <2>4, <2>5
<1>13. n \in 1..N /\ r[n].entry_hash = Log[n].entry_hash
  BY <1>0, <1>12, SignsPlace
<1>14. \A j \in 1..n : r[n].entry_hash[j] = fs[j]
  <2>1. /\ SubSeq(fs, 1, n - 1) \in Seq(Fields) /\ Len(SubSeq(fs, 1, n - 1)) = n - 1
        /\ \A m \in 1..(n - 1) : SubSeq(fs, 1, n - 1)[m] = fs[m]
        /\ fs[n] \in Fields /\ r[n].entry_hash = Append(SubSeq(fs, 1, n - 1), fs[n])
    BY <1>2, <1>6, <1>7, <1>13
  <2>2. \A j \in 1..n : j = n \/ j \in 1..(n - 1)
    BY <1>13
  <2> QED
    BY <1>13, <2>1, <2>2
<1>15. \A j \in 1..n : fs[j] = canonical(Log[j])
  BY <1>0, <1>13, <1>14, ChainHash
<1>16. ASSUME NEW j \in 1..n PROVE r[j] = Log[j]
  <2>0. j \in 1..N /\ fs[j] = canonical(Log[j]) /\ Log[j] \in AuditEntry /\ r[j] \in AuditEntry
    BY <1>0, <1>1, <1>7, <1>13, <1>15
  <2>1. r[j].prev_hash = Log[j].prev_hash
    <3>1. CASE j = 1
      <4>1. Log[j].prev_hash = << >>
        BY <1>0, <2>0, <3>1 DEF Linked, GENESIS_PREV_HASH
      <4>2. SubSeq(fs, 1, j - 1) = << >>
        BY <1>6, <2>0, <3>1
      <4> QED
        BY <1>7, <2>0, <4>1, <4>2
    <3>2. CASE j # 1
      <4>1. j - 1 \in 1..N /\ Log[j].prev_hash = Log[j - 1].entry_hash
        BY <1>0, <2>0, <3>2 DEF Linked
      <4>2. /\ Log[j - 1].entry_hash \in Seq(Fields) /\ Len(Log[j - 1].entry_hash) = j - 1
            /\ \A m \in 1..(j - 1) : Log[j - 1].entry_hash[m] = canonical(Log[m])
        BY <1>0, <4>1, ChainHash
      <4>3. /\ SubSeq(fs, 1, j - 1) \in Seq(Fields) /\ Len(SubSeq(fs, 1, j - 1)) = j - 1
            /\ \A m \in 1..(j - 1) : SubSeq(fs, 1, j - 1)[m] = fs[m]
        BY <1>6, <2>0
      <4>4. \A m \in 1..(j - 1) : fs[m] = canonical(Log[m])
        BY <1>15
      <4>5. SubSeq(fs, 1, j - 1) = Log[j - 1].entry_hash
        BY <4>2, <4>3, <4>4, SeqEqual
      <4> QED
        BY <1>7, <2>0, <4>1, <4>5
    <3> QED
      BY <3>1, <3>2
  <2>2. Log[j].entry_hash = Append(Log[j].prev_hash, canonical(Log[j]))
    BY <1>0, <2>0 DEF Linked, recompute_hash
  <2>3. r[j].entry_hash = Log[j].entry_hash
    BY <1>7, <2>0, <2>1, <2>2
  <2>4. r[j].timestamp = Log[j].timestamp /\ r[j].body = Log[j].body /\ r[j].seq = Log[j].seq
    BY <1>1, <1>7, <2>0 DEF canonical
  <2> QED
    BY <2>0, <2>1, <2>3, <2>4 DEF AuditEntry
<1> QED
  BY <1>9, <1>10, <1>16, SeqEqual DEF r

\* chainlog verify --checkpoint accepts exactly the log the checkpoint was
\* taken of: not a shorter or longer one, not one rewritten anywhere and hashed
\* again, and no checkpoint moved to another head (checkpoint.rs: sign, verify;
\* the command line's comparison of heads).
THEOREM CheckpointsPin ==
  ASSUME NoDamage
  PROVE  SvcSpec => []CheckpointPins
<1>1. CleanInv /\ SvcInv => CheckpointPins
  <2> SUFFICES ASSUME CleanInv, SvcInv, NEW cp \in Pins
               PROVE  /\ \A n \in 0..Len(Log) :
                           VerifyWithCheckpoint(SubSeq(Log, 1, n), cp) <=> n = cp.seq /\ n > 0
                      /\ \A r \in Rewrites : \A n \in 0..Len(Log) :
                           VerifyWithCheckpoint(SubSeq(r, 1, n), cp) => SubSeq(r, 1, n) = SubSeq(Log, 1, n)
                      /\ \A n \in 1..Len(Log) :
                           verify_checkpoint([cp EXCEPT !.head_hash = Log[n].entry_hash])
                             => Log[n].entry_hash = cp.head_hash
    BY DEF CheckpointPins
  <2>0. Log \in Seq(AuditEntry) /\ Linked(Log) /\ Len(Log) \in Nat /\ DOMAIN Log = 1..Len(Log)
    BY LogFacts DEF CleanInv, CleanFile
  <2>1. Signs(cp)
    BY PinsSign
  <2>2. /\ verify_checkpoint(cp)
        /\ cp.seq = 0 \/ (cp.seq \in 1..Len(Log) /\ cp.head_hash = Log[cp.seq].entry_hash)
    BY <2>1, SignsPlace
  <2>3. ASSUME NEW n \in 0..Len(Log)
        PROVE  VerifyWithCheckpoint(SubSeq(Log, 1, n), cp) <=> n = cp.seq /\ n > 0
    <3>1. /\ is_valid(verify_entries(SubSeq(Log, 1, n)))
          /\ verify_entries(SubSeq(Log, 1, n)).head
               = IF n = 0 THEN << >> ELSE << Log[n].seq, Log[n].entry_hash >>
      BY <2>0, BeginningLinked, BeginningReport
    <3>2. VerifyWithCheckpoint(SubSeq(Log, 1, n), cp)
            <=> verify_entries(SubSeq(Log, 1, n)).head = << cp.seq, cp.head_hash >>
      BY <2>2, <3>1 DEF VerifyWithCheckpoint, HeadMatches
    <3>3. n > 0 => n \in DOMAIN Log /\ Log[n].seq = n
      BY <2>0 DEF Linked
    <3>4. CASE n = 0
      <4>1. verify_entries(SubSeq(Log, 1, n)).head = << >>
        BY <3>1, <3>4
      <4>2. ~VerifyWithCheckpoint(SubSeq(Log, 1, n), cp)
        BY <3>2, <4>1, NoEmptyPair, Zenon
      <4> QED
        BY <3>4, <4>2
    <3>5. CASE n # 0
      <4>1. n > 0 /\ Log[n].seq = n
        BY <2>0, <3>3, <3>5
      <4>2. VerifyWithCheckpoint(SubSeq(Log, 1, n), cp)
              <=> << n, Log[n].entry_hash >> = << cp.seq, cp.head_hash >>
        BY <3>1, <3>2, <3>5, <4>1
      <4>3. << n, Log[n].entry_hash >> = << cp.seq, cp.head_hash >>
              <=> n = cp.seq /\ Log[n].entry_hash = cp.head_hash
        OBVIOUS
      <4> QED
        BY <2>2, <4>1, <4>2, <4>3
    <3> QED
      BY <3>4, <3>5
  <2>4. ASSUME NEW r \in Rewrites, NEW n \in 0..Len(Log), VerifyWithCheckpoint(SubSeq(r, 1, n), cp)
        PROVE  SubSeq(r, 1, n) = SubSeq(Log, 1, n)
    <3>1. PICK k \in DOMAIN Log, b \in Body : r = Rewritten(k, b)
      BY DEF Rewrites
    <3> QED
      BY <2>1, <2>4, <3>1, RewriteDetected
  <2>5. ASSUME NEW n \in 1..Len(Log), verify_checkpoint([cp EXCEPT !.head_hash = Log[n].entry_hash])
        PROVE  Log[n].entry_hash = cp.head_hash
    BY <2>1, <2>5, MovedRefused
  <2> QED
    BY <2>3, <2>4, <2>5
<1> QED
  BY <1>1, ServiceInvariant, PTL
=============================================================================
