---------------------------- MODULE ChainLemmas -----------------------------
(***************************************************************************)
(* Facts the proofs about the stores share: extremes of sets of numbers,   *)
(* prefixes of hashes, and the types of entries; and what verification     *)
(* and checkpoints show about any log, whoever wrote it.                   *)
(***************************************************************************)
EXTENDS Checkpoint, SequencesExt, SequenceTheorems, WellFoundedInduction, TLAPS

-----------------------------------------------------------------------------
(* Sets of numbers.                                                        *)

\* A set of numbers that is not empty has a least member.
LEMMA Least ==
  ASSUME NEW S, S \subseteq Nat, S # {}
  PROVE  \E m \in S : \A j \in S : m <= j
<1>1. PICK m \in S : \A j \in S : << j, m >> \notin OpToRel(<, Nat)
  BY NatLessThanWellFounded, WFMin
<1>2. ASSUME NEW j \in S, j < m PROVE FALSE
  <2>1. << j, m >> \in Nat \X Nat /\ << j, m >>[1] < << j, m >>[2]
    BY <1>2
  <2>2. << j, m >> \in OpToRel(<, Nat)
    BY <2>1 DEF OpToRel
  <2> QED
    BY <1>1, <2>2
<1> QED
  BY <1>2

\* A bounded one has a greatest.
LEMMA Greatest ==
  ASSUME NEW n \in Nat, NEW S, S \subseteq 1..n, S # {}
  PROVE  \E m \in S : \A j \in S : j <= m
<1> DEFINE T == { k \in Nat : \E i \in S : i + k = n }
<1>1. T \subseteq Nat
  OBVIOUS
<1>2. T # {}
  <2> PICK i \in S : TRUE
    OBVIOUS
  <2>1. n - i \in Nat /\ i + (n - i) = n
    OBVIOUS
  <2> QED
    BY <2>1
<1>3. PICK k \in T : \A l \in T : k <= l
  <2> HIDE DEF T
  <2> QED
    BY <1>1, <1>2, Least
<1>4. PICK i \in S : i + k = n
  OBVIOUS
<1>5. ASSUME NEW j \in S PROVE j <= i
  <2>1. n - j \in Nat /\ j + (n - j) = n
    OBVIOUS
  <2>2. n - j \in T
    BY <2>1
  <2> QED
    BY <1>3, <1>4, <2>2
<1> QED
  BY <1>5

-----------------------------------------------------------------------------
(* Prefixes of hashes: "the chain goes through".                           *)

\* A prefix agrees with the longer sequence position by position.
LEMMA PrefixPointwise ==
  ASSUME NEW S, NEW s \in Seq(S), NEW t \in Seq(S)
  PROVE  IsPrefix(s, t) <=> Len(s) <= Len(t) /\ \A i \in 1..Len(s) : s[i] = t[i]
<1>1. SubSeq(s, 1, Len(s)) = s
  OBVIOUS
<1>2. ASSUME Len(s) <= Len(t)
      PROVE  /\ SubSeq(t, 1, Len(s)) \in Seq(S)
             /\ Len(SubSeq(t, 1, Len(s))) = Len(s)
             /\ \A i \in 1..Len(s) : SubSeq(t, 1, Len(s))[i] = t[i]
  BY <1>2
<1>3. ASSUME Len(s) <= Len(t), \A i \in 1..Len(s) : s[i] = t[i]
      PROVE  s = SubSeq(t, 1, Len(s))
  BY <1>2, <1>3, SeqEqual
<1> QED
  BY <1>1, <1>2, <1>3 DEF IsPrefix

\* Every chain goes through its own last entry.
LEMMA PrefixReflexive ==
  ASSUME NEW S, NEW s \in Seq(S)
  PROVE  IsPrefix(s, s)
BY PrefixPointwise

\* Going through is transitive.
LEMMA PrefixTransitive ==
  ASSUME NEW S, NEW s \in Seq(S), NEW t \in Seq(S), NEW u \in Seq(S),
         IsPrefix(s, t), IsPrefix(t, u)
  PROVE  IsPrefix(s, u)
BY PrefixPointwise

\* A sealed entry's chain goes through everything its prev_hash goes through.
LEMMA PrefixAppend ==
  ASSUME NEW S, NEW s \in Seq(S), NEW t \in Seq(S), NEW x \in S, IsPrefix(s, t)
  PROVE  IsPrefix(s, Append(t, x))
<1>1. Append(t, x) \in Seq(S)
  OBVIOUS
<1>2. Len(Append(t, x)) = Len(t) + 1 /\ \A i \in 1..Len(t) : Append(t, x)[i] = t[i]
  OBVIOUS
<1>3. Len(t) <= Len(Append(t, x))
  BY <1>2
<1>4. IsPrefix(t, Append(t, x))
  BY <1>1, <1>2, <1>3, PrefixPointwise
<1> QED
  BY <1>1, <1>4, PrefixTransitive

\* A chain is not longer than one that goes through it; chains of equal
\* length that go through each other are the same.
LEMMA PrefixLen ==
  ASSUME NEW S, NEW s \in Seq(S), NEW t \in Seq(S), IsPrefix(s, t)
  PROVE  Len(s) <= Len(t) /\ (Len(t) <= Len(s) => s = t)
<1>1. Len(s) <= Len(t) /\ \A i \in 1..Len(s) : s[i] = t[i]
  BY PrefixPointwise
<1>2. ASSUME Len(t) <= Len(s) PROVE s = t
  BY <1>1, <1>2, SeqEqual
<1> QED
  BY <1>1, <1>2

-----------------------------------------------------------------------------
(* Entries.                                                                *)

\* The genesis hash is a hash.
LEMMA GenesisType == GENESIS_PREV_HASH \in Hash
BY DEF GENESIS_PREV_HASH, Hash

\* A sealed entry and its receipt have their types.
LEMMA SealedType ==
  ASSUME NEW s \in Nat, NEW t \in Time, NEW b \in Body, NEW h \in Hash
  PROVE  /\ Sealed(s, t, b, h) \in AuditEntry
         /\ canonical(Sealed(s, t, b, h)) \in Fields
BY DEF Sealed, AuditEntry, canonical, Fields, Hash


-----------------------------------------------------------------------------
(* Verification of any log.                                                *)

\* A report is valid when no entry has a violation.
LEMMA NoViolations ==
  ASSUME NEW a, NEW es
  PROVE  is_valid(verify_entries_from(a, es)) <=> \A i \in DOMAIN es : ViolationsAt(a, es, i) = {}
<1> DEFINE At(i) == { [seq |-> es[i].seq, kind |-> k] : k \in ViolationsAt(a, es, i) }
<1>1. is_valid(verify_entries_from(a, es)) <=> UNION { At(i) : i \in DOMAIN es } = {}
  BY DEF is_valid, verify_entries_from
<1>2. \A i \in DOMAIN es : At(i) = {} <=> ViolationsAt(a, es, i) = {}
  OBVIOUS
<1> HIDE DEF At
<1>3. UNION { At(i) : i \in DOMAIN es } = {} <=> \A i \in DOMAIN es : At(i) = {}
  OBVIOUS
<1> QED
  BY <1>1, <1>2, <1>3

\* The entries of a log that verifies are hashed, linked and numbered.
LEMMA ValidIs ==
  ASSUME NEW a, NEW es \in Seq(AuditEntry), is_valid(verify_entries_from(a, es))
  PROVE  /\ es # << >> => FirstViolations(a, es[1]) = {}
         /\ \A i \in 1..Len(es) : es[i].entry_hash = recompute_hash(es[i])
         /\ \A i \in 2..Len(es) : /\ es[i].prev_hash = es[i - 1].entry_hash
                                  /\ es[i].seq = es[i - 1].seq + 1
<1>1. DOMAIN es = 1..Len(es) /\ Len(es) \in Nat
  OBVIOUS
<1>2. \A i \in 1..Len(es) : ViolationsAt(a, es, i) = {}
  BY <1>1, NoViolations
<1>3. es # << >> => FirstViolations(a, es[1]) = {}
  <2> SUFFICES ASSUME es # << >> PROVE FirstViolations(a, es[1]) = {}
    OBVIOUS
  <2>1. 1 \in 1..Len(es)
    BY <1>1
  <2> QED
    BY <1>2, <2>1 DEF ViolationsAt
<1>4. \A i \in 1..Len(es) : es[i].entry_hash = recompute_hash(es[i])
  BY <1>2 DEF ViolationsAt, ContentViolations
<1>5. ASSUME NEW i \in 2..Len(es)
      PROVE  es[i].prev_hash = es[i - 1].entry_hash /\ es[i].seq = es[i - 1].seq + 1
  <2>1. i \in 1..Len(es) /\ i # 1
    BY <1>1
  <2>2. LinkViolations(es[i - 1], es[i]) = {}
    BY <1>2, <2>1 DEF ViolationsAt
  <2> QED
    BY <2>2 DEF LinkViolations
<1> QED
  BY <1>3, <1>4, <1>5

\* They are numbered without a gap.
LEMMA ValidNumbers ==
  ASSUME NEW a, NEW es \in Seq(AuditEntry), is_valid(verify_entries_from(a, es)),
         NEW n \in 1..Len(es)
  PROVE  es[n].seq = es[1].seq + (n - 1)
<1> DEFINE Bad == { k \in 1..Len(es) : es[k].seq # es[1].seq + (k - 1) }
<1>1. Bad \subseteq Nat /\ Len(es) \in Nat /\ 1 \in 1..Len(es)
  OBVIOUS
<1>2. es[1].seq \in Nat
  <2>1. es[1] \in AuditEntry
    BY <1>1
  <2> QED
    BY <2>1 DEF AuditEntry
<1>3. ASSUME Bad # {} PROVE FALSE
  <2>1. PICK k \in Bad : \A j \in Bad : k <= j
    <3> HIDE DEF Bad
    <3> QED
      BY <1>1, <1>3, Least
  <2>2. k \in 1..Len(es) /\ k # 1
    BY <1>2, <2>1
  <2>3. k \in 2..Len(es) /\ k - 1 \in 1..Len(es) /\ ~(k <= k - 1)
    BY <1>1, <2>2
  <2>4. es[k - 1].seq = es[1].seq + ((k - 1) - 1)
    BY <2>1, <2>3
  <2>5. es[k].seq = es[k - 1].seq + 1
    BY <2>3, ValidIs
  <2>6. es[k].seq = es[1].seq + (k - 1)
    BY <1>2, <2>3, <2>4, <2>5
  <2> QED
    BY <2>1, <2>6
<1> QED
  BY <1>3

\* Equal hashes are hashes of equal entries (hash.rs: entry_hash covers every
\* other field).
LEMMA HashDetermines ==
  ASSUME NEW e \in AuditEntry, NEW f \in AuditEntry, e.entry_hash = f.entry_hash,
         e.entry_hash = recompute_hash(e), f.entry_hash = recompute_hash(f)
  PROVE  e = f
<1>1. e.prev_hash \in Seq(Fields) /\ f.prev_hash \in Seq(Fields)
  BY DEF AuditEntry, Hash
<1>2. canonical(e) \in Fields /\ canonical(f) \in Fields
  BY DEF canonical, Fields, AuditEntry
<1>3. Append(e.prev_hash, canonical(e)) = Append(f.prev_hash, canonical(f))
  BY DEF recompute_hash
<1>4. e.prev_hash = f.prev_hash /\ canonical(e) = canonical(f)
  <2>1. ASSUME NEW s \in Seq(Fields), NEW x \in Fields, NEW u \in Seq(Fields), NEW y \in Fields,
               Append(s, x) = Append(u, y)
        PROVE  s = u /\ x = y
    BY <2>1, AppendInjective
  <2> QED
    BY <1>1, <1>2, <1>3, <2>1
<1>5. e.seq = f.seq /\ e.timestamp = f.timestamp /\ e.body = f.body
  BY <1>4 DEF canonical
<1>6. /\ e = [seq |-> e.seq, timestamp |-> e.timestamp, body |-> e.body,
             prev_hash |-> e.prev_hash, entry_hash |-> e.entry_hash]
      /\ f = [seq |-> f.seq, timestamp |-> f.timestamp, body |-> f.body,
             prev_hash |-> f.prev_hash, entry_hash |-> f.entry_hash]
  BY DEF AuditEntry
<1> QED
  BY <1>4, <1>5, <1>6

\* A head hash determines the log: two logs that verify from the same anchor,
\* or from genesis, and end in the same hash are the same log, whoever wrote
\* them (verify.rs: verify_entries_from).
THEOREM HeadDetermines ==
  ASSUME NEW a, NEW es \in Seq(AuditEntry), NEW fs \in Seq(AuditEntry), es # << >>, fs # << >>,
         is_valid(verify_entries_from(a, es)), is_valid(verify_entries_from(a, fs)),
         es[Len(es)].entry_hash = fs[Len(fs)].entry_hash
  PROVE  es = fs
<1>1. /\ Len(es) \in Nat /\ Len(fs) \in Nat
      /\ Len(es) \in 1..Len(es) /\ Len(fs) \in 1..Len(fs) /\ 1 \in 1..Len(es) /\ 1 \in 1..Len(fs)
  OBVIOUS
<1>2. /\ \A i \in 1..Len(es) : es[i] \in AuditEntry /\ es[i].seq \in Nat
      /\ \A i \in 1..Len(fs) : fs[i] \in AuditEntry /\ fs[i].seq \in Nat
  <2>1. \A i \in 1..Len(es) : es[i] \in AuditEntry
    OBVIOUS
  <2>2. \A i \in 1..Len(fs) : fs[i] \in AuditEntry
    OBVIOUS
  <2> QED
    BY <2>1, <2>2 DEF AuditEntry
<1>3. /\ \A i \in 1..Len(es) : es[i].entry_hash = recompute_hash(es[i])
      /\ \A i \in 1..Len(fs) : fs[i].entry_hash = recompute_hash(fs[i])
  BY ValidIs
<1>4. es[1].seq = fs[1].seq
  <2>1. FirstViolations(a, es[1]) = {} /\ FirstViolations(a, fs[1]) = {}
    BY ValidIs
  <2> QED
    BY <2>1 DEF FirstViolations
<1>5. es[Len(es)] = fs[Len(fs)]
  BY <1>1, <1>2, <1>3, HashDetermines
<1>6. Len(es) = Len(fs)
  <2>1. es[Len(es)].seq = es[1].seq + (Len(es) - 1)
    BY <1>1, ValidNumbers
  <2>2. fs[Len(fs)].seq = fs[1].seq + (Len(fs) - 1)
    BY <1>1, ValidNumbers
  <2> QED
    BY <1>1, <1>2, <1>4, <1>5, <2>1, <2>2
<1> DEFINE Bad == { k \in 1..Len(es) : es[k] # fs[k] }
<1>7. ASSUME Bad # {} PROVE FALSE
  <2>1. Bad \subseteq 1..Len(es)
    OBVIOUS
  <2>2. PICK k \in Bad : \A j \in Bad : j <= k
    <3> HIDE DEF Bad
    <3> QED
      BY <1>1, <1>7, <2>1, Greatest
  <2>3. k \in 1..Len(es) /\ k # Len(es)
    BY <1>5, <1>6, <2>2
  <2>4. k + 1 \in 2..Len(es) /\ k + 1 \in 1..Len(es) /\ ~(k + 1 <= k) /\ (k + 1) - 1 = k
    BY <1>1, <2>3
  <2>5. es[k + 1] = fs[k + 1]
    BY <2>2, <2>4
  <2>6. es[k + 1].prev_hash = es[k].entry_hash
    BY <2>4, ValidIs
  <2>7. fs[k + 1].prev_hash = fs[k].entry_hash
    BY <1>6, <2>4, ValidIs
  <2>8. es[k] = fs[k]
    BY <1>2, <1>3, <1>6, <2>3, <2>5, <2>6, <2>7, HashDetermines
  <2> QED
    BY <2>2, <2>8
<1>8. \A k \in 1..Len(es) : es[k] = fs[k]
  BY <1>7
<1> HIDE DEF Bad
<1> QED
  BY <1>6, <1>8, SeqEqual

\* A report without a head matches no checkpoint.
LEMMA NoEmptyPair == \A x, y : << >> # << x, y >>
<1> SUFFICES ASSUME NEW x, NEW y, << >> = << x, y >> PROVE FALSE
  OBVIOUS
<1>1. Len(<< >>) = 0 /\ Len(<< x, y >>) = 2
  OBVIOUS
<1> QED
  BY <1>1

\* A checkpoint pins one log: of all logs there are, chainlog verify
\* --checkpoint accepts at most one with a given checkpoint (checkpoint.rs and
\* the head comparison of the command line).
THEOREM CheckpointPinsLog ==
  ASSUME NEW cp, NEW es \in Seq(AuditEntry), NEW fs \in Seq(AuditEntry),
         VerifyWithCheckpoint(es, cp), VerifyWithCheckpoint(fs, cp)
  PROVE  es = fs
<1>1. is_valid(verify_entries_from(NoAnchor, es)) /\ is_valid(verify_entries_from(NoAnchor, fs))
  BY DEF VerifyWithCheckpoint, verify_entries
<1>2. ASSUME NEW gs \in Seq(AuditEntry), VerifyWithCheckpoint(gs, cp)
      PROVE  gs # << >> /\ gs[Len(gs)].entry_hash = cp.head_hash
  <2>1. (IF gs = << >> THEN << >> ELSE << gs[Len(gs)].seq, gs[Len(gs)].entry_hash >>) = << cp.seq, cp.head_hash >>
    BY <1>2 DEF VerifyWithCheckpoint, HeadMatches, verify_entries, verify_entries_from
  <2>2. gs # << >>
    BY <2>1, NoEmptyPair
  <2> QED
    BY <2>1, <2>2
<1> QED
  BY <1>1, <1>2, HeadDetermines
=============================================================================
