--------------------------- MODULE ServiceProofs ----------------------------
(***************************************************************************)
(* The HTTP service implements the log it serves: whatever clients,        *)
(* connections and handlers do, the engine and the file take only steps    *)
(* FileLog allows, so what FileLogProofs shows of the log holds of the     *)
(* service.                                                                *)
(***************************************************************************)
EXTENDS Service, FileLogClean

\* A call number is a record body.
LEMMA CallIsBody == Call \subseteq Body
  BY ServiceAssumption DEF Call

\* What a client does is no step of the log.
LEMMA ClientFrame ==
  ASSUME NEW i \in Call, ClientStep(i)
  PROVE  UNCHANGED vars
  BY DEF ClientStep, Send, SendRefused, SendNothing, Begin, Break, Receive

\* A handler that is polled calls record() or head(), or leaves the log alone.
LEMMA HandleStep ==
  ASSUME NEW w \in Caller, NEW i \in Call, Handle(w, i)
  PROVE  [CleanNext]_vars /\ [Next]_vars
  <1>1. CASE HandleUnauthorized(w, i) \/ HandleRead(w, i)
    BY <1>1 DEF HandleUnauthorized, HandleRead
  <1>2. CASE HandleAppend(w, i)
    BY <1>2, CallIsBody DEF HandleAppend, CleanNext, Next
  <1>3. CASE HandleHead(w, i)
    BY <1>3 DEF HandleHead, CleanNext, Next
  <1> QED BY <1>1, <1>2, <1>3 DEF Handle

\* Every step of the service is a step of the log or leaves it alone.
LEMMA ServiceStep == [SvcNext]_allVars => [Next]_vars
  <1> SUFFICES ASSUME [SvcNext]_allVars PROVE [Next]_vars OBVIOUS
  <1>1. CASE UNCHANGED allVars
    BY <1>1 DEF allVars
  <1>2. CASE \E i \in Call : ClientStep(i)
    BY <1>2, ClientFrame
  <1>3. CASE \E w \in Caller, i \in Call : Handle(w, i)
    BY <1>3, HandleStep
  <1>4. CASE \E w \in Caller : HandlerReturns(w)
    BY <1>4 DEF HandlerReturns, Next
  <1>5. CASE LogStep \/ ServerStart \/ Shutdown \/ ServerDies
    BY <1>5 DEF LogStep, ServerStart, Shutdown, ServerDies, Next
  <1> QED BY <1>1, <1>2, <1>3, <1>4, <1>5 DEF SvcNext

\* Without the faults that damage the file it is a step that does not.
LEMMA CleanServiceStep ==
  ASSUME NoDamage
  PROVE  [SvcNext]_allVars => [CleanNext]_vars
  <1> SUFFICES ASSUME [SvcNext]_allVars PROVE [CleanNext]_vars OBVIOUS
  <1>1. CASE UNCHANGED allVars
    BY <1>1 DEF allVars
  <1>2. CASE \E i \in Call : ClientStep(i)
    BY <1>2, ClientFrame
  <1>3. CASE \E w \in Caller, i \in Call : Handle(w, i)
    BY <1>3, HandleStep
  <1>4. CASE \E w \in Caller : HandlerReturns(w)
    BY <1>4 DEF HandlerReturns, CleanNext
  <1>5. CASE LogStep \/ ServerStart \/ Shutdown \/ ServerDies
    BY <1>5, UndamagedSteps DEF LogStep, ServerStart, Shutdown, ServerDies, CleanNext
  <1> QED BY <1>1, <1>2, <1>3, <1>4, <1>5 DEF SvcNext

\* So the service's log is then one that FileLogClean is about.
LEMMA ServiceIsClean ==
  ASSUME NoDamage
  PROVE  SvcSpec => CleanSpec
  BY CleanServiceStep, PTL DEF SvcSpec, CleanSpec

\* The server, with its clients hidden, behaves like the log over a file under
\* every fault: no handler, lost connection, shutdown or death of the process
\* makes the engine or the file do anything that log.rs and store.rs do not do by
\* themselves.
THEOREM ServiceImplementsLog == SvcSpec => Spec
  BY ServiceStep, PTL DEF SvcSpec, Spec

\* Receipts returned over the life of the service, restarts included, lie on
\* one branch of the chain, under every fault.
THEOREM ServiceNeverForks == SvcSpec => []NoFork
  BY ServiceImplementsLog, NeverForks, PTL

\* The file the server writes, apart from a line that is just being written, can
\* be read and verifies at any moment: while a handler is appending, between its
\* death and its restart, after a failed write or a panic of the writer.
THEOREM ServiceLogVerifies ==
  ASSUME NoDamage
  PROVE  SvcSpec => []LogVerifies
  BY ServiceIsClean, CleanInvariant, CleanVerifies, PTL

\* Every receipt the engine returned to a handler stays readable.
THEOREM ServiceAckedReadable ==
  ASSUME NoDamage
  PROVE  SvcSpec => []AckedReadable
  BY ServiceIsClean, CleanInvariant, CleanReads, ServiceImplementsLog, AckedIsDurable, PTL

\* Every head the engine returned to a handler stays an entry of the log.
THEOREM ServiceHeadsStay ==
  ASSUME NoDamage
  PROVE  SvcSpec => []HeadsOnChain
  BY ServiceIsClean, CleanInvariant, CleanHeadsOnChain, PTL

-----------------------------------------------------------------------------
(* What clients were answered                                              *)

\* Calls have a state and an answer, and a receipt in an answer is one that
\* record() returned.
AnswersAcked ==
  /\ DOMAIN rpc = Call
  /\ \A i \in Call : {"st", "ans"} \subseteq DOMAIN rpc[i]
  /\ \A i \in Call : rpc[i].ans.kind = "receipt" => rpc[i].ans.val \in acked

\* The log never forgets that it returned a receipt.
LEMMA AckedGrows == [Next]_vars => acked \subseteq acked'
  <1> SUFFICES ASSUME Next PROVE acked \subseteq acked'
    BY DEF vars, engineVars
  <1>1. ASSUME NEW c \in Caller, CallReturn(c) PROVE acked \subseteq acked'
    BY <1>1 DEF CallReturn, Return
  <1>2. CASE \E c \in Caller, b \in Body : CallRecord(c, b) \/ CallHead(c)
    BY <1>2 DEF CallRecord, CallHead, Record, HeadCall
  <1>3. CASE AnswerHead \/ RefuseSeal \/ Panic \/ StartAppend \/ StoreWrite \/ StoreSync
    BY <1>3 DEF AnswerHead, RefuseSeal, Panic, StartAppend, StoreWrite, StoreSync,
                WriterHead, SealErr, WriterPanics, BeginAppend, AppendOk, engineVars
  <1>4. CASE WriteError \/ ShortWriteError \/ SyncError
    BY <1>4 DEF WriteError, ShortWriteError, SyncError, AppendErr
  <1>5. CASE Open \/ Close \/ Dies
    BY <1>5 DEF Open, Close, Dies, Crash, CrashInWrite, Power, Build, Drop, Kill, Forget
  <1>6. CASE \E c \in Caller : CallHead(c)
    BY <1>6 DEF CallHead, HeadCall
  <1> QED BY <1>1, <1>2, <1>3, <1>4, <1>5, <1>6 DEF Next, WriterStep

\* An answer that is no receipt, or one that was returned, keeps the invariant.
LEMMA AnswerKept ==
  ASSUME AnswersAcked, acked \subseteq acked',
         NEW i, NEW st, NEW a, To(i, st, a),
         a.kind = "receipt" => a.val \in acked'
  PROVE  AnswersAcked'
  BY DEF AnswersAcked, To

\* What a client does.
LEMMA ClientAnswers ==
  ASSUME AnswersAcked, acked \subseteq acked', NEW i \in Call, ClientStep(i)
  PROVE  AnswersAcked'
  <1>1. CASE Break(i)
    <2>1. HttpError.kind # "receipt"
      BY DEF HttpError, Answer
    <2> QED BY <1>1, <2>1, AnswerKept DEF Break
  <1>2. CASE Receive(i)
    <2> DEFINE a == ClientResult(rpc[i].op, rpc[i].ans)
    <2>1. a.kind = "receipt" => a.val \in acked'
      BY DEF ClientResult, Answer, AnswersAcked
    <2>2. To(i, "done", a)
      BY <1>2 DEF Receive
    <2> QED BY <2>1, <2>2, AnswerKept
  <1>3. ASSUME NEW op, NEW tok, Send(i, op, tok) \/ SendRefused(i, op, tok) \/ SendNothing(i, op, tok)
        PROVE  AnswersAcked'
    <2>1. PICK st, a : /\ Begin(i, op, tok, st, a)
                       /\ a \in {NoAnswer, HttpError, MissingToken}
      BY <1>3 DEF Send, SendRefused, SendNothing
    <2>2. a.kind # "receipt"
      BY <2>1 DEF NoAnswer, HttpError, MissingToken, Answer
    <2> QED BY <2>1, <2>2 DEF AnswersAcked, Begin
  <1> QED BY <1>1, <1>2, <1>3 DEF ClientStep

\* What a handler does.
LEMMA HandlerAnswers ==
  ASSUME AnswersAcked, acked \subseteq acked', NEW w \in Caller,
         \/ \E i \in Call : Handle(w, i)
         \/ HandlerReturns(w)
  PROVE  AnswersAcked'
  <1>1. ASSUME NEW i \in Call, HandleUnauthorized(w, i) PROVE AnswersAcked'
    <2>1. Unauthorized.kind # "receipt"
      BY DEF Unauthorized, Answer
    <2> QED BY <1>1, <2>1, AnswerKept DEF HandleUnauthorized
  <1>2. ASSUME NEW i \in Call, HandleAppend(w, i) \/ HandleHead(w, i) PROVE AnswersAcked'
    <2>1. NoAnswer.kind # "receipt"
      BY DEF NoAnswer, Answer
    <2> QED BY <1>2, <2>1, AnswerKept DEF HandleAppend, HandleHead, Starts
  <1>3. ASSUME NEW i \in Call, HandleRead(w, i) PROVE AnswersAcked'
    <2>1. PICK r \in Readings : To(i, "answered", ReadAnswer(rpc[i].op, r))
      BY <1>3 DEF HandleRead
    <2>2. \A es : EntriesAnswer(rpc[i].op, es).kind # "receipt"
      BY DEF EntriesAnswer, Answer
    <2>3. ReadAnswer(rpc[i].op, r).kind # "receipt"
      BY <2>2 DEF ReadAnswer, Failed, Answer
    <2> QED BY <2>1, <2>3, AnswerKept
  <1>4. CASE HandlerReturns(w) /\ rpc' = rpc
    BY <1>4 DEF AnswersAcked
  <1>5. CASE HandlerReturns(w) /\ rpc' # rpc
    <2>1. PICK t \in Time : To(job[w], "answered", HandlerAnswer(rpc[job[w]].op, reply[w], t))
      BY <1>5 DEF HandlerReturns
    <2> DEFINE a == HandlerAnswer(rpc[job[w]].op, reply[w], t)
    <2>2. reply[w].kind = "ok" => reply[w].receipt \in acked'
      BY <1>5 DEF HandlerReturns, CallReturn, Return
    <2>3. a.kind = "receipt" => a.val \in acked'
      BY <2>2 DEF HandlerAnswer, Failed, Answer
    <2> QED BY <2>1, <2>3, AnswerKept
  <1> QED BY <1>1, <1>2, <1>3, <1>4, <1>5 DEF Handle

\* Every step of the service, the engine's own included, keeps answers true.
LEMMA AnswersStep == AnswersAcked /\ [SvcNext]_allVars => AnswersAcked'
  <1> SUFFICES ASSUME AnswersAcked, [SvcNext]_allVars PROVE AnswersAcked'
    OBVIOUS
  <1>0. acked \subseteq acked'
    BY ServiceStep, AckedGrows
  <1>1. CASE UNCHANGED rpc
    BY <1>0, <1>1 DEF AnswersAcked
  <1>2. CASE \E i \in Call : ClientStep(i)
    BY <1>0, <1>2, ClientAnswers
  <1>3. CASE \E w \in Caller : (\E i \in Call : Handle(w, i)) \/ HandlerReturns(w)
    BY <1>0, <1>3, HandlerAnswers
  <1>4. CASE Shutdown \/ ServerDies
    <2>1. PICK states : CutOff(states)
      BY <1>4 DEF Shutdown, ServerDies
    <2>2. HttpError.kind # "receipt"
      BY DEF HttpError, Answer
    <2>3. ASSUME NEW i \in Call
          PROVE  /\ {"st", "ans"} \subseteq DOMAIN rpc'[i]
                 /\ rpc'[i].ans.kind = "receipt" => rpc'[i].ans.val \in acked'
      <3>1. CASE rpc[i].st \in states
        <4>1. rpc'[i] = [rpc[i] EXCEPT !.st = "done", !.ans = HttpError]
          BY <2>1, <3>1 DEF CutOff
        <4>2. DOMAIN rpc'[i] = DOMAIN rpc[i]
          BY <4>1
        <4>3. rpc'[i].ans = HttpError
          BY <4>1 DEF AnswersAcked
        <4> QED BY <2>2, <4>2, <4>3 DEF AnswersAcked
      <3>2. CASE rpc[i].st \notin states
        BY <1>0, <2>1, <3>2 DEF CutOff, AnswersAcked
      <3> QED BY <3>1, <3>2
    <2>4. DOMAIN rpc' = Call
      BY <2>1 DEF CutOff
    <2> QED BY <2>3, <2>4 DEF AnswersAcked
  <1>5. CASE LogStep \/ ServerStart \/ UNCHANGED allVars
    BY <1>1, <1>5 DEF LogStep, ServerStart, allVars, svcVars
  <1> QED BY <1>2, <1>3, <1>4, <1>5 DEF SvcNext

\* Every receipt a client was answered with, or is being sent, describes an
\* entry that is on disk, whatever the number of workers, calls and tokens and
\* under every fault (server append: 201 only after record() returned).
THEOREM ReceiptsAreDurable == SvcSpec => []AnsweredDurable
  <1>1. Init /\ SvcInit => AnswersAcked
    <2>1. NoAnswer.kind # "receipt"
      BY DEF NoAnswer, Answer
    <2> QED BY <2>1 DEF SvcInit, AnswersAcked, NewCall
  <1>2. AnswersAcked /\ AckedDurable => AnsweredDurable
    BY DEF AnswersAcked, AckedDurable, AnsweredDurable
  <1> QED BY <1>1, <1>2, AnswersStep, ServiceImplementsLog, AckedIsDurable, PTL DEF SvcSpec
=============================================================================
