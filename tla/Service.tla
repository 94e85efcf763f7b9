------------------------------ MODULE Service -------------------------------
(***************************************************************************)
(* The HTTP service: calls of the client library (client/src/lib.rs) to a  *)
(* server (server/src/main.rs) that owns a log over a FileStore.           *)
(*                                                                         *)
(* The engine's callers are the server's worker threads: no handler awaits *)
(* anything, so a handler that was started runs to its end on one worker,  *)
(* whether or not the client is still there.  A connection may break at    *)
(* any moment; the client neither times out nor tries again by itself.     *)
(*                                                                         *)
(* Client calls are numbered, and the number of a call stands for the body *)
(* of the record it sends.  The program has no such number: two calls with *)
(* the same content cannot be told apart by the server, only here.         *)
(***************************************************************************)
EXTENDS FileLog, Checkpoint, FiniteSetsExt

CONSTANTS Requests,     \* what clients ask: pairs of an operation and the token
                        \* they are configured with for it, or "none"
          write_token,  \* the server's configuration
          read_token

Ops == {"append", "read", "head", "verify", "checkpoint"}

ASSUME ServiceAssumption ==
  /\ Body = 1..MaxRecords
  /\ \A q \in Requests : q[1] \in Ops

VARIABLES rpc,  \* rpc[i]: client call i
          job   \* job[w]: the call whose handler worker w runs, or Nobody

svcVars == << rpc, job >>
allVars == << vars, svcVars >>

Call   == 1..MaxRecords
Nobody == 0

\* An answer: HTTP status, what the JSON body is, and its content.
Answer(code, kind, v) == [code |-> code, kind |-> kind, val |-> v]

NoAnswer     == Answer(0, "none", 0)
Unauthorized == Answer(401, "error", 0)
Failed       == Answer(500, "error", 0)

\* What a call of the client library ends with besides the answer's content:
\* Error::Http, Error::MissingToken, and (ClientResult) Error::Status.
HttpError    == Answer(0, "http", 0)
MissingToken == Answer(0, "missing", 0)

\* The life of a call: "new", "sent" until a handler starts, "running",
\* "answered" until the client has the answer, "done".
NewCall == [st |-> "new", op |-> "none", tok |-> "none", floor |-> 0, ans |-> NoAnswer]

SvcInit == rpc = [i \in Call |-> NewCall] /\ job = [w \in Caller |-> Nobody]

To(i, st, a) == rpc' = [rpc EXCEPT ![i].st = st, ![i].ans = a]

-----------------------------------------------------------------------------
(* The client library                                                      *)

Done(i, kinds) == rpc[i].st = "done" /\ rpc[i].ans.kind \in kinds

\* The largest sequence number an append, head or checkpoint call has
\* returned to a client.
Told  == { rpc[i].ans.val.seq : i \in { j \in Call : Done(j, {"receipt", "head", "checkpoint"}) } }
Floor == Max(Told \cup {0})

Begin(i, op, tok, st, a) ==
  /\ rpc[i].st = "new"
  /\ i > 1 => rpc[i - 1].st # "new"
  /\ rpc' = [rpc EXCEPT ![i] = [st |-> st, op |-> op, tok |-> tok, floor |-> Floor, ans |-> a]]
  /\ UNCHANGED << vars, job >>

\* append, read, head, verify, checkpoint: connect and send the request.
Send(i, op, tok) == tok # "none" /\ up /\ Begin(i, op, tok, "sent", NoAnswer)

\* No server is listening.
SendRefused(i, op, tok) == tok # "none" /\ ~up /\ Begin(i, op, tok, "done", HttpError)

\* write_tok, read_tok: the call needs a token the client was not given.
SendNothing(i, op, tok) == tok = "none" /\ Begin(i, op, tok, "done", MissingToken)

\* Mutant of Break: the client sends the request again.
Break_Retries(i) ==
  /\ rpc[i].st \in {"sent", "running", "answered"}
  /\ IF up THEN To(i, "sent", NoAnswer) ELSE To(i, "done", HttpError)
  /\ UNCHANGED << vars, job >>

\* The connection breaks, or the caller gives up: the request or the answer is
\* lost, and a handler that was started goes on.
Break(i) ==
  /\ rpc[i].st \in {"sent", "running", "answered"}
  /\ To(i, "done", HttpError)
  /\ UNCHANGED << vars, job >>

\* send: anything but a 2xx is an error; verify also takes a 409 for a report.
ClientResult(op, a) ==
  IF a.code \in 200..299 \/ (op = "verify" /\ a.code = 409)
  THEN a ELSE Answer(a.code, "status", 0)

Receive(i) ==
  /\ rpc[i].st = "answered"
  /\ To(i, "done", ClientResult(rpc[i].op, rpc[i].ans))
  /\ UNCHANGED << vars, job >>

-----------------------------------------------------------------------------
(* The server's handlers                                                   *)

\* An empty configured token lets nobody in.
require(tok, expected) == expected # "" /\ tok = expected

Allowed(i) == require(rpc[i].tok, IF rpc[i].op = "append" THEN write_token ELSE read_token)

\* A worker polls the handler of a request that has arrived.  Workers are
\* interchangeable, so it may as well be a given one of those that are free.
Polled(w, i) ==
  /\ up /\ rpc[i].st = "sent"
  /\ job[w] = Nobody
  /\ w = CHOOSE v \in Caller : job[v] = Nobody

Starts(w, i) ==
  /\ Polled(w, i) /\ Allowed(i)
  /\ To(i, "running", NoAnswer)
  /\ job' = [job EXCEPT ![w] = i]

HandleUnauthorized(w, i) ==
  /\ Polled(w, i) /\ ~Allowed(i)
  /\ To(i, "answered", Unauthorized)
  /\ UNCHANGED << vars, job >>

\* append blocks in record(), head and checkpoint block in head().
HandleAppend(w, i) == rpc[i].op = "append" /\ Starts(w, i) /\ CallRecord(w, i)
HandleHead(w, i)   == rpc[i].op \in {"head", "checkpoint"} /\ Starts(w, i) /\ CallHead(w)

\* What read_all returns: the entries, Error::Json or Error::Io.
ReadOk(es) == [kind |-> "ok", entries |-> es]
JsonError  == [kind |-> "json"]
IoError    == [kind |-> "io"]

\* The beginning of a line is at the end of the file for everyone to see while
\* write_all is under way.  (Who sees all of it but its newline sees what
\* StoreWrite will have written.)
LineUnderWay == Appending /\ ~dirty

\* The results a reader of the file can get.  A cut line does not parse, and
\* cut inside a character it is no UTF-8, which lines() reports as an I/O error;
\* opening or reading the file may fail by itself ("read_fail").
Readings ==
  (IF Readable(file) THEN { ReadOk(Log) } ELSE { JsonError })
  \cup (IF LineUnderWay \/ (\E j \in DOMAIN file : file[j].kind = "torn")
        THEN { JsonError, IoError } ELSE {})
  \cup (IF "read_fail" \in Faults THEN { IoError } ELSE {})

\* read_records or verify, on the entries read_log returned.
EntriesAnswer(op, es) ==
  LET report == verify_entries(es) IN
  IF op = "read" THEN Answer(200, "entries", es)
  ELSE Answer(IF is_valid(report) THEN 200 ELSE 409, "report", report)

\* Mutant of ReadAnswer: the last line is left out, as it may be incomplete.
ReadAnswer_DropsLast(op, r) ==
  CASE r.kind = "ok" -> EntriesAnswer(op, IF r.entries = << >> THEN << >> ELSE Front(r.entries))
    [] r.kind = "io" -> EntriesAnswer(op, << >>)
    [] OTHER         -> Failed

\* read_log: an I/O error, whatever its reason, is taken for a log that was
\* not yet created, any other error is a 500.
ReadAnswer(op, r) ==
  CASE r.kind = "ok" -> EntriesAnswer(op, r.entries)
    [] r.kind = "io" -> EntriesAnswer(op, << >>)
    [] OTHER         -> Failed

HandleRead(w, i) ==
  /\ rpc[i].op \in {"read", "verify"}
  /\ Polled(w, i) /\ Allowed(i)
  /\ \E r \in Readings : To(i, "answered", ReadAnswer(rpc[i].op, r))
  /\ UNCHANGED << vars, job >>

\* The answer to what record() or head() returned, at time t; Error::WriterGone
\* is a 500 like any other error.
HandlerAnswer(op, r, t) ==
  CASE r.kind = "ok"   -> Answer(201, "receipt", r.receipt)
    [] r.kind = "head" -> IF op = "head" THEN Answer(200, "head", r.head)
                          ELSE Answer(200, "checkpoint", sign("server", r.head.seq, r.head.hash, t))
    [] OTHER           -> Failed

\* The blocked handler returns; the answer goes nowhere if the connection has
\* broken meanwhile.
HandlerReturns(w) ==
  /\ job[w] # Nobody
  /\ CallReturn(w)
  /\ \E t \in Time :
       IF rpc[job[w]].st = "running"
       THEN To(job[w], "answered", HandlerAnswer(rpc[job[w]].op, reply[w], t))
       ELSE UNCHANGED rpc
  /\ job' = [job EXCEPT ![w] = Nobody]

-----------------------------------------------------------------------------
(* The log and the server process                                          *)

LogStep == WriterStep /\ UNCHANGED svcVars

\* main, up to serving.
ServerStart == Open /\ UNCHANGED svcVars

\* The connections of calls in the given states are gone.
CutOff(states) ==
  rpc' = [i \in Call |-> IF rpc[i].st \in states
                         THEN [rpc[i] EXCEPT !.st = "done", !.ans = HttpError] ELSE rpc[i]]

\* ctrl_c: handlers that were started finish and their answers are sent before
\* the log is dropped; requests no handler was started for are not served.
Shutdown == Close /\ CutOff({"sent"}) /\ UNCHANGED job

ServerDies == Dies /\ CutOff({"sent", "running"}) /\ job' = [w \in Caller |-> Nobody]

Handle(w, i) == \/ HandleUnauthorized(w, i) \/ HandleAppend(w, i)
                \/ HandleHead(w, i) \/ HandleRead(w, i)

ClientStep(i) ==
  \/ \E q \in Requests : \/ Send(i, q[1], q[2])
                         \/ SendRefused(i, q[1], q[2])
                         \/ SendNothing(i, q[1], q[2])
  \/ Break(i) \/ Receive(i)

SvcNext ==
  \/ \E i \in Call : ClientStep(i)
  \/ \E w \in Caller, i \in Call : Handle(w, i)
  \/ \E w \in Caller : HandlerReturns(w)
  \/ LogStep \/ ServerStart \/ Shutdown \/ ServerDies

\* Some thread of a live server that can run does, its system calls return,
\* and an answer arrives unless the connection breaks.  Which of them goes first
\* is left open: the calls are finitely many, so none is passed over for ever.
Progress ==
  \/ LogStep
  \/ \E w \in Caller, i \in Call : Handle(w, i)
  \/ \E w \in Caller : HandlerReturns(w)
  \/ \E i \in Call : Receive(i)

SvcSpec     == Init /\ SvcInit /\ [][SvcNext]_allVars
FairSvcSpec == SvcSpec /\ WF_allVars(Progress)

-----------------------------------------------------------------------------
(* Properties                                                              *)

\* The positions of the log whose entry came from call i.
EntriesOf(i) == { j \in DOMAIN Log : Log[j].body = i }

\* A client that has, or is being sent, a receipt can rely on it: the entry is
\* in the part of the file that survives any crash.
AnsweredDurable ==
  \A i \in Call : rpc[i].ans.kind = "receipt" => \E p \in At(rpc[i].ans.val) : p <= synced

\* A call of append puts at most one entry in the log, and only with the
\* write token; a receipt is that of its own entry; a call that ended with a
\* status or without a token has left none.  After a transport error the entry may
\* be there, or still appear.
AppendOnce ==
  \A i \in Call :
    /\ Cardinality(EntriesOf(i)) <= 1
    /\ EntriesOf(i) # {} => rpc[i].op = "append" /\ rpc[i].tok = write_token
    /\ Done(i, {"receipt"}) => \E j \in EntriesOf(i) : ReceiptOf(Log[j]) = rpc[i].ans.val
    /\ Done(i, {"status", "missing"}) => EntriesOf(i) = {}

\* A call that begins after another has returned a receipt, head or checkpoint
\* does not go back behind it, across restarts too: append gets a larger
\* number, head and checkpoint show at least that one.  A read or a report that
\* shows anything shows at least that much: all of it, or nothing, which
\* is what an I/O error looks like.
NeverBehind ==
  \A i \in Call :
    /\ Done(i, {"receipt"}) => rpc[i].ans.val.seq > rpc[i].floor
    /\ Done(i, {"head", "checkpoint"}) => rpc[i].ans.val.seq >= rpc[i].floor
    /\ Done(i, {"entries"}) /\ rpc[i].ans.val # << >> => Len(rpc[i].ans.val) >= rpc[i].floor
    /\ Done(i, {"report"}) /\ rpc[i].ans.val.entries_checked # 0 =>
         rpc[i].ans.val.entries_checked >= rpc[i].floor

\* A read or a report shows everything that a client had been told when the
\* call began (read_log: "Read the full chain for reads/verify, tolerating a
\* not-yet-created log").
ReadsFull ==
  \A i \in Call :
    /\ Done(i, {"entries"}) => Len(rpc[i].ans.val) >= rpc[i].floor
    /\ Done(i, {"report"}) => rpc[i].ans.val.entries_checked >= rpc[i].floor

\* Entries a client has read stay in the log, in the same places: nothing read
\* is taken back by a failed write or a crash of the server.
ReadsStay == \A i \in Call : Done(i, {"entries"}) => IsPrefix(rpc[i].ans.val, Log)

\* GET /v1/verify raises no false alarm: whatever failed or raced with the
\* read, the report is valid and its head is an entry of the log.
NoFalseAlarm ==
  \A i \in Call :
    Done(i, {"report"}) =>
      LET report == rpc[i].ans.val
          n == report.entries_checked
      IN /\ is_valid(report)
         /\ n \in 0..Len(Log)
         /\ n > 0 => report.head = << Log[n].seq, Log[n].entry_hash >>

\* The log with entry k replaced by one with body b and everything behind it
\* hashed again, as someone with write access to the file could do.
Rewritten(k, b) ==
  LET fs == [j \in DOMAIN Log |-> IF j = k THEN [canonical(Log[j]) EXCEPT !.body = b]
                                  ELSE canonical(Log[j])]
  IN [j \in DOMAIN Log |-> Sealed(fs[j].seq, fs[j].timestamp, fs[j].body, SubSeq(fs, 1, j - 1))]

Rewrites == { Rewritten(k, b) : k \in DOMAIN Log, b \in Body } \ {Log}

\* The checkpoints clients hold: fetched from the server, or made with
\* chainlog checkpoint from what was read.
Pins ==
  { rpc[i].ans.val : i \in { j \in Call : Done(j, {"checkpoint"}) } }
  \cup { CheckpointOf("auditor", rpc[i].ans.val, 1) : i \in { j \in Call : Done(j, {"entries"}) } }

\* chainlog verify --checkpoint accepts exactly the log the checkpoint was
\* taken of: not one that was cut back or has grown, and not one that was
\* rewritten anywhere and hashed again (checkpoint.rs: no rewriting "without
\* the forgery being detectable"); a checkpoint moved to
\* another head is refused.  A checkpoint of the empty log goes with no log.
CheckpointPins ==
  \A cp \in Pins :
    /\ \A n \in 0..Len(Log) : VerifyWithCheckpoint(SubSeq(Log, 1, n), cp) <=> n = cp.seq /\ n > 0
    /\ \A r \in Rewrites : \A n \in 0..Len(Log) :
         VerifyWithCheckpoint(SubSeq(r, 1, n), cp) => SubSeq(r, 1, n) = SubSeq(Log, 1, n)
    /\ \A n \in 1..Len(Log) :
         verify_checkpoint([cp EXCEPT !.head_hash = Log[n].entry_hash]) => Log[n].entry_hash = cp.head_hash

\* Every call ends, with the answer or because the connection broke, and so
\* does every handler, also one whose client is gone or whose command a
\* panicking writer took with it: again and again no call and no worker is busy.
CallsEnd == []<>(/\ \A i \in Call : rpc[i].st \in {"new", "done"}
                 /\ \A w \in Caller : job[w] = Nobody)

-----------------------------------------------------------------------------
(* The inductive invariant behind the properties of the answers            *)

InLog(b) == EntriesOf(b) # {}

\* No entry of call i is in the log, and no handler that could add one runs.
Untouched(i) == ~InLog(i) /\ \A w \in Caller : job[w] # i

Authorised(i) == rpc[i].op = "append" /\ rpc[i].tok = write_token

\* A bound on the numbers anyone was told that still leaves the next append
\* above it: an entry waiting for its fsync can be read, but not relied on.
Known == IF up THEN seq ELSE Len(Log)

\* One handler per call, and it runs exactly while its engine call does.
Jobs ==
  /\ DOMAIN rpc = Call
  /\ \A i \in Call : DOMAIN rpc[i] = {"st", "op", "tok", "floor", "ans"}
  /\ job \in [Caller -> Call \cup {Nobody}]
  /\ \A w \in Caller : job[w] = Nobody <=> call[w] = "idle"
  /\ \A v, w \in Caller : job[v] = job[w] /\ job[w] # Nobody => v = w
  /\ \A w \in Caller : job[w] # Nobody => rpc[job[w]].st \notin {"new", "sent"}

\* A call's body is in one place on its way from the channel to the log.
Bodies ==
  /\ \A i \in Call : rpc[i].st \in {"new", "sent"} => ~InLog(i)
  /\ \A j, k \in DOMAIN Log : Log[j].body = Log[k].body => j = k
  /\ \A j \in DOMAIN Log : Authorised(Log[j].body)
  /\ \A k \in DOMAIN chan : chan[k].op = "write" =>
       /\ job[chan[k].caller] = chan[k].body
       /\ Authorised(chan[k].body) /\ ~InLog(chan[k].body)
  /\ writer = "append" => /\ job[cur] = entry.body
                          /\ Authorised(entry.body)
                          /\ ~dirty => ~InLog(entry.body)

\* What the engine has answered to a handler that has not returned yet.  As long
\* as there is no answer there is no entry, unless it waits for its fsync.
ReplyFits(w) ==
  /\ job[w] # Nobody /\ reply[w].kind = "none" /\ ~(dirty /\ cur = w) => ~InLog(job[w])
  /\ reply[w].kind = "ok" =>
       /\ reply[w].receipt.seq \in Nat
       /\ rpc[job[w]].floor < reply[w].receipt.seq /\ reply[w].receipt.seq <= Known
       /\ \E j \in EntriesOf(job[w]) : ReceiptOf(Log[j]) = reply[w].receipt
  /\ reply[w].kind = "head" =>
       rpc[job[w]].floor <= reply[w].head.seq /\ reply[w].head.seq <= Known
  /\ reply[w].kind = "err" => ~InLog(job[w])

\* A checkpoint of genesis or of an entry of the log, properly signed.
Signs(cp) ==
  /\ cp = sign(cp.public_key, cp.seq, cp.head_hash, cp.timestamp)
  /\ HeadKnown([seq |-> cp.seq, hash |-> cp.head_hash])

\* What call i, whose record is q, was answered, whether or not the client has
\* it yet.
Fits(i, q) ==
  LET a == q.ans IN
  /\ q.floor \in Nat /\ q.floor <= Known
  /\ a.kind = "receipt" => /\ q.floor < a.val.seq
                           /\ \E j \in EntriesOf(i) : ReceiptOf(Log[j]) = a.val
  /\ a.kind \in {"receipt", "head", "checkpoint"} =>
       a.val.seq \in Nat /\ q.floor <= a.val.seq /\ a.val.seq <= Known
  /\ a.kind = "checkpoint" => Signs(a.val)
  /\ a.kind = "entries" => /\ a.val \in Seq(AuditEntry) /\ IsPrefix(a.val, Log)
                           /\ a.val # << >> => q.floor <= Len(a.val)
  /\ a.kind = "report" =>
       \E n \in {0} \cup q.floor..Len(Log) : a.val = verify_entries(SubSeq(Log, 1, n))
  /\ a.kind \in {"error", "status", "missing"} => Untouched(i)
  /\ q.st = "answered" => \/ a.code \in 200..299 \/ a.kind = "error"
                          \/ q.op = "verify" /\ a.code = 409

AnswerFits(i) == Fits(i, rpc[i])

\* Calls, bodies, replies and answers fit the log.
SvcInv == /\ Jobs /\ Bodies
          /\ \A w \in Caller : ReplyFits(w)
          /\ \A i \in Call : AnswerFits(i)
=============================================================================
