------------------------------ MODULE AuditLog ------------------------------
(***************************************************************************)
(* The audit log engine (log.rs): callers submit commands over one FIFO    *)
(* channel to one writer thread, which alone assigns sequence numbers,     *)
(* computes the chain and appends to the store.                            *)
(*                                                                         *)
(* The module holds the engine's half of every step.  What the store does  *)
(* during the same step is supplied by the module that composes the two    *)
(* (FileLog for FileStore, SegmentLog for SegmentedStore), which also      *)
(* supplies Next and the specification.                                    *)
(*                                                                         *)
(* Callers are threads of the engine's process: a crash takes them along.  *)
(***************************************************************************)
EXTENDS ChainEntry, SequencesExt

CONSTANTS Caller,      \* threads calling record() and head()
          MaxRecords   \* bound: calls of record() in one behaviour

ASSUME MaxRecordsAssumption == MaxRecords \in Nat

VARIABLES up,         \* is there an AuditLog (and its writer thread)?
          call,       \* call[c]: what caller c is blocked in
          chan,       \* the unbounded command channel
          reply,      \* reply[c]: content of c's one-slot reply channel
          writer,     \* where the writer thread is: in recv(), in append(), or gone
          cur,        \* the caller whose command the writer is processing
          entry,      \* the entry process() is appending
          seq,        \* WriterState.seq
          prev_hash,  \* WriterState.prev_hash
          issued,     \* calls of record() so far, for the bound
          acked,      \* history: receipts returned by record()
          heads,      \* history: [seq, hash] returned by head()
          floor       \* history: floor[c], largest acked seq when c's call began

engineVars == << up, call, chan, reply, writer, cur, entry, seq, prev_hash,
                 issued, acked, heads, floor >>

\* Values of entry and cur while the writer is not in append().
NoEntry  == [seq |-> 0]
NoCaller == << "none" >>

NoReply         == [kind |-> "none"]
ErrReply        == [kind |-> "err"]
OkReply(r)      == [kind |-> "ok", receipt |-> r]
HeadReply(s, h) == [kind |-> "head", head |-> [seq |-> s, hash |-> h]]

HeadPair == [seq : Nat, hash : Hash]

Reply == [kind : {"none", "err"}] \cup [kind : {"ok"}, receipt : Receipt]
         \cup [kind : {"head"}, head : HeadPair]

Cmd == [op : {"write"}, caller : Caller, body : Body]
       \cup [op : {"head"}, caller : Caller]

EngineTypeOK ==
  /\ up \in BOOLEAN
  /\ call \in [Caller -> {"idle", "write", "head"}]
  /\ chan \in Seq(Cmd)
  /\ reply \in [Caller -> Reply]
  /\ writer \in {"recv", "append", "gone"}
  /\ IF writer = "append" THEN cur \in Caller /\ entry \in AuditEntry
                          ELSE cur = NoCaller /\ entry = NoEntry
  /\ seq \in Nat
  /\ prev_hash \in Hash
  /\ issued \in 0..MaxRecords
  /\ acked \subseteq Receipt
  /\ heads \subseteq HeadPair
  /\ floor \in [Caller -> Nat]

\* No process has opened the log yet.
EngineInit ==
  /\ up = FALSE
  /\ call = [c \in Caller |-> "idle"]
  /\ chan = << >>
  /\ reply = [c \in Caller |-> NoReply]
  /\ writer = "recv"
  /\ cur = NoCaller
  /\ entry = NoEntry
  /\ seq = 0
  /\ prev_hash = GENESIS_PREV_HASH
  /\ issued = 0
  /\ acked = {}
  /\ heads = {}
  /\ floor = [c \in Caller |-> 0]

\* The largest acknowledged sequence number (0 before the first).
AckedSeqs   == { r.seq : r \in acked }
MaxAcked(n) == /\ n \in AckedSeqs \cup {0}
               /\ \A r \in acked : r.seq <= n

Idle(c) == up /\ call[c] = "idle"

-----------------------------------------------------------------------------
(* Callers                                                                 *)

\* tx.send: a channel whose receiver is gone takes nothing, and drops the
\* command with its reply sender.
SendCmd(cmd) == chan' = IF writer = "gone" THEN chan ELSE Append(chan, cmd)

\* record(): send Cmd::Write and block on the reply channel.
Record(c, b) ==
  /\ Idle(c)
  /\ issued < MaxRecords
  /\ issued' = issued + 1
  /\ call' = [call EXCEPT ![c] = "write"]
  /\ SendCmd([op |-> "write", caller |-> c, body |-> b])
  /\ \E n \in AckedSeqs \cup {0} : MaxAcked(n) /\ floor' = [floor EXCEPT ![c] = n]
  /\ UNCHANGED << up, reply, writer, cur, entry, seq, prev_hash, acked, heads >>

\* head(): send Cmd::Head and block on the reply channel.
HeadCall(c) ==
  /\ Idle(c)
  /\ call' = [call EXCEPT ![c] = "head"]
  /\ SendCmd([op |-> "head", caller |-> c])
  /\ \E n \in AckedSeqs \cup {0} : MaxAcked(n) /\ floor' = [floor EXCEPT ![c] = n]
  /\ UNCHANGED << up, reply, writer, cur, entry, seq, prev_hash, issued, acked, heads >>

\* Mutant of Dropped: record() keeps a sender of its own for the reply.
Dropped_Never(c) == FALSE

\* The reply sender of c's command, which travels with the command, is gone.
Dropped(c) ==
  /\ \A k \in DOMAIN chan : chan[k].caller # c
  /\ writer = "append" => cur # c

\* reply_rx.recv() returns: record() or head() hands its result to the caller,
\* or Error::WriterGone if no reply can come any more.
Return(c) ==
  /\ up
  /\ call[c] # "idle"
  /\ reply[c].kind # "none" \/ Dropped(c)
  /\ call' = [call EXCEPT ![c] = "idle"]
  /\ reply' = [reply EXCEPT ![c] = NoReply]
  /\ acked' = IF reply[c].kind = "ok" THEN acked \cup {reply[c].receipt} ELSE acked
  /\ heads' = IF reply[c].kind = "head" THEN heads \cup {reply[c].head} ELSE heads
  /\ UNCHANGED << up, chan, writer, cur, entry, seq, prev_hash, issued, floor >>

-----------------------------------------------------------------------------
(* The writer thread                                                       *)

\* rx.recv() yields the command at the head of the channel.
Receiving(op) == up /\ writer = "recv" /\ chan # << >> /\ Head(chan).op = op

\* Cmd::Head.
WriterHead ==
  /\ Receiving("head")
  /\ chan' = Tail(chan)
  /\ reply' = [reply EXCEPT ![Head(chan).caller] = HeadReply(seq, prev_hash)]
  /\ UNCHANGED << up, call, writer, cur, entry, seq, prev_hash, issued, acked, heads, floor >>

\* Cmd::Write whose PII cannot be sealed: process() returns before it
\* touches the chain state or the store.
SealErr ==
  /\ Receiving("write")
  /\ chan' = Tail(chan)
  /\ reply' = [reply EXCEPT ![Head(chan).caller] = ErrReply]
  /\ UNCHANGED << up, call, writer, cur, entry, seq, prev_hash, issued, acked, heads, floor >>

\* process() panics before it calls store.append (in a KeyProvider from
\* elsewhere, or in the expect() of canonical_bytes).  The thread is gone, and
\* with its receiver every command in the channel.
WriterPanics ==
  /\ Receiving("write")
  /\ writer' = "gone"
  /\ chan' = << >>
  /\ UNCHANGED << up, call, reply, cur, entry, seq, prev_hash, issued, acked, heads, floor >>

\* Mutant of BeginAppend: the chain state advances before the store has
\* accepted the entry.
BeginAppend_Eager(t) ==
  /\ Receiving("write")
  /\ chan' = Tail(chan)
  /\ writer' = "append"
  /\ cur' = Head(chan).caller
  /\ entry' = Sealed(seq + 1, t, Head(chan).body, prev_hash)
  /\ seq' = seq + 1
  /\ prev_hash' = entry'.entry_hash
  /\ UNCHANGED << up, call, reply, issued, acked, heads, floor >>

\* Cmd::Write: process() stamps, chains and hashes the entry and calls
\* store.append.
BeginAppend(t) ==
  /\ Receiving("write")
  /\ chan' = Tail(chan)
  /\ writer' = "append"
  /\ cur' = Head(chan).caller
  /\ entry' = Sealed(seq + 1, t, Head(chan).body, prev_hash)
  /\ UNCHANGED << up, call, reply, seq, prev_hash, issued, acked, heads, floor >>

Appending == up /\ writer = "append"

\* Mutant of AppendOk: the head hash is left behind.
AppendOk_KeepsPrevHash ==
  /\ Appending
  /\ seq' = entry.seq
  /\ reply' = [reply EXCEPT ![cur] = OkReply(ReceiptOf(entry))]
  /\ writer' = "recv" /\ cur' = NoCaller /\ entry' = NoEntry
  /\ UNCHANGED << up, call, chan, prev_hash, issued, acked, heads, floor >>

\* Mutant of AppendOk: the sequence number is left behind.
AppendOk_KeepsSeq ==
  /\ Appending
  /\ prev_hash' = entry.entry_hash
  /\ reply' = [reply EXCEPT ![cur] = OkReply(ReceiptOf(entry))]
  /\ writer' = "recv" /\ cur' = NoCaller /\ entry' = NoEntry
  /\ UNCHANGED << up, call, chan, seq, issued, acked, heads, floor >>

\* store.append returned Ok: advance the chain state, answer with the receipt.
AppendOk ==
  /\ Appending
  /\ seq' = entry.seq
  /\ prev_hash' = entry.entry_hash
  /\ reply' = [reply EXCEPT ![cur] = OkReply(ReceiptOf(entry))]
  /\ writer' = "recv" /\ cur' = NoCaller /\ entry' = NoEntry
  /\ UNCHANGED << up, call, chan, issued, acked, heads, floor >>

\* Mutant of AppendErr: the chain state advances although the append failed.
AppendErr_Advances ==
  /\ Appending
  /\ seq' = entry.seq
  /\ prev_hash' = entry.entry_hash
  /\ reply' = [reply EXCEPT ![cur] = ErrReply]
  /\ writer' = "recv" /\ cur' = NoCaller /\ entry' = NoEntry
  /\ UNCHANGED << up, call, chan, issued, acked, heads, floor >>

\* store.append returned Err: the chain state stays, the caller gets the error.
AppendErr ==
  /\ Appending
  /\ reply' = [reply EXCEPT ![cur] = ErrReply]
  /\ writer' = "recv" /\ cur' = NoCaller /\ entry' = NoEntry
  /\ UNCHANGED << up, call, chan, seq, prev_hash, issued, acked, heads, floor >>

-----------------------------------------------------------------------------
(* Life cycle of the process                                               *)

\* Everything in memory disappears.
Forget ==
  /\ up' = FALSE
  /\ call' = [c \in Caller |-> "idle"]
  /\ chan' = << >>
  /\ reply' = [c \in Caller |-> NoReply]
  /\ writer' = "recv" /\ cur' = NoCaller /\ entry' = NoEntry
  /\ seq' = 0
  /\ prev_hash' = GENESIS_PREV_HASH
  /\ UNCHANGED << issued, acked, heads, floor >>

\* The process dies at any point.
Kill == up /\ Forget

\* The last handle is dropped.  A call borrows its handle, so no call is in
\* progress; the sender is closed, the writer drains the channel and is joined.
Drop == up /\ (\A c \in Caller : call[c] = "idle") /\ Forget

\* Builder::build on a store whose tail is (s, h).
Build(s, h) ==
  /\ ~up
  /\ up' = TRUE
  /\ seq' = s
  /\ prev_hash' = h
  /\ UNCHANGED << call, chan, reply, writer, cur, entry, issued, acked, heads, floor >>

-----------------------------------------------------------------------------
(* What every store the engine runs on must preserve                       *)

\* Two acknowledged entries are never on different branches: the later one's
\* hash commits to the earlier one, across failed appends, rotations,
\* restarts, power losses and prunes.
NoFork == \A r, q \in acked : r.seq <= q.seq => IsPrefix(r.entry_hash, q.entry_hash)
=============================================================================
