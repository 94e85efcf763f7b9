--------------------------- MODULE SegmentProofs ----------------------------
(***************************************************************************)
(* Proofs about SegmentLog, for any callers, bodies, clock values, number  *)
(* of records, segment sizes and faults: the log over a directory of       *)
(* segments that another process prunes and another reads.                 *)
(***************************************************************************)
EXTENDS SegmentLog, ChainLemmas, FiniteSetTheorems, FunctionTheorems

-----------------------------------------------------------------------------
(* Files and their entries.                                                *)

\* A finite set of numbers is bounded.
LEMMA FiniteBounded ==
  ASSUME NEW S, S \subseteq Nat, IsFiniteSet(S)
  PROVE  \E b \in Nat : \A s \in S : s <= b
<1> DEFINE n == Cardinality(S)
<1>1. n \in Nat /\ ExistsBijection(1..n, S)
  BY FS_CardinalityType
<1> HIDE DEF n
<1>2. PICK f \in [1..n -> S] : \A s \in S : \E i \in 1..n : f[i] = s
  BY <1>1 DEF ExistsBijection, Bijection, Surjection
<1> DEFINE Bad == { m \in 0..n : ~ \E b \in Nat : \A i \in 1..m : f[i] <= b }
<1>3. CASE Bad # {}
  <2>1. Bad \subseteq Nat
    BY <1>1
  <2>2. PICK m \in Bad : \A j \in Bad : m <= j
    <3> HIDE DEF Bad
    <3> QED
      BY <1>3, <2>1, Least
  <2>3. m # 0
    <3>1. \A i \in 1..0 : f[i] <= 0
      OBVIOUS
    <3> QED
      BY <3>1
  <2>4. m \in 0..n /\ m \in Nat /\ n \in Nat
    BY <1>1, <2>1
  <2>5. m - 1 \in 0..n /\ m \in 1..n /\ ~(m <= m - 1)
    BY <2>3, <2>4
  <2>6. m - 1 \notin Bad
    BY <2>2, <2>5
  <2>7. PICK b \in Nat : \A i \in 1..(m - 1) : f[i] <= b
    BY <2>5, <2>6
  <2>8. PICK v \in Nat : f[m] = v
    BY <1>2, <2>5
  <2> DEFINE d == b + v
  <2>9. d \in Nat /\ b <= d /\ v <= d
    OBVIOUS
  <2> HIDE DEF d
  <2>10. ASSUME NEW i \in 1..m PROVE f[i] <= d
    <3>0. i \in 1..n
      BY <2>4
    <3>1. PICK u \in Nat : f[i] = u
      BY <1>2, <3>0
    <3>2. i = m \/ i \in 1..(m - 1)
      BY <2>4
    <3>3. u <= b \/ u = v
      BY <2>7, <2>8, <3>1, <3>2
    <3> QED
      BY <2>9, <3>1, <3>3
  <2> QED
    BY <2>2, <2>9, <2>10
<1>4. CASE Bad = {}
  <2>1. n \in 0..n
    BY <1>1
  <2>2. PICK b \in Nat : \A i \in 1..n : f[i] <= b
    BY <1>4, <2>1
  <2> QED
    BY <1>2, <2>2
<1> QED
  BY <1>3, <1>4

\* A finite set of numbers that is not empty has a greatest member.
LEMMA HasLast ==
  ASSUME NEW S, S \subseteq Nat, IsFiniteSet(S), S # {}
  PROVE  \E m \in S : IsLast(m, S)
<1>1. PICK b \in Nat : \A s \in S : s <= b
  BY FiniteBounded
<1> DEFINE T == { k \in Nat : \E i \in S : i + k = b }
<1>2. T \subseteq Nat
  OBVIOUS
<1>3. T # {}
  <2> PICK i \in S : TRUE
    OBVIOUS
  <2>1. b - i \in Nat /\ i + (b - i) = b
    BY <1>1
  <2> QED
    BY <2>1
<1>4. PICK k \in T : \A l \in T : k <= l
  <2> HIDE DEF T
  <2> QED
    BY <1>2, <1>3, Least
<1>5. PICK i \in S : i + k = b
  OBVIOUS
<1>6. ASSUME NEW j \in S PROVE j <= i
  <2>1. b - j \in Nat /\ j + (b - j) = b
    BY <1>1
  <2> QED
    BY <1>4, <1>5, <2>1
<1> QED
  BY <1>6 DEF IsLast

\* So has the directory, and a least one.
LEMMA HasFirst ==
  ASSUME NEW S, S \subseteq Nat, S # {}
  PROVE  \E m \in S : IsFirst(m, S)
BY Least DEF IsFirst

\* Every entry of the directory has a place in a file.
LEMMA HeldPlace ==
  ASSUME SegTypeOK, NEW e
  PROVE  e \in Held <=> \E k \in DOMAIN segs : \E i \in 1..Len(segs[k]) : e = segs[k][i]
<1>1. \A k \in DOMAIN segs : DOMAIN segs[k] = 1..Len(segs[k])
  BY DEF SegTypeOK
<1> QED
  BY <1>1 DEF Held, Range

\* Entries of the directory are entries.
LEMMA HeldType ==
  ASSUME SegTypeOK, NEW e \in Held
  PROVE  e \in AuditEntry
<1>1. PICK k \in DOMAIN segs : \E i \in 1..Len(segs[k]) : e = segs[k][i]
  BY HeldPlace
<1>2. segs[k] \in Seq(AuditEntry)
  BY DEF SegTypeOK
<1> QED
  BY <1>1, <1>2

\* A file's entries have the numbers from its name on.
LEMMA Within ==
  ASSUME SegTypeOK, Numbered, NEW k \in DOMAIN segs
  PROVE  /\ k \in Nat /\ Len(segs[k]) \in Nat /\ DOMAIN segs[k] = 1..Len(segs[k]) /\ k >= 1
         /\ segs[k] \in Seq(AuditEntry)
         /\ segs[k] = << >> <=> Len(segs[k]) = 0
         /\ \A i \in 1..Len(segs[k]) : segs[k][i] \in Held /\ segs[k][i].seq = k + i - 1
<1>1. k \in Nat /\ segs[k] \in Seq(AuditEntry)
  BY DEF SegTypeOK
<1>2. DOMAIN segs[k] = 1..Len(segs[k]) /\ Len(segs[k]) \in Nat /\ (segs[k] = << >> <=> Len(segs[k]) = 0)
  BY <1>1
<1> QED
  BY <1>1, <1>2, HeldPlace DEF Numbered

\* The file an entry is in.
LEMMA FileOf ==
  ASSUME SegTypeOK, Numbered, NEW e \in Held
  PROVE  \E k \in DOMAIN segs : \E i \in 1..Len(segs[k]) :
           e = segs[k][i] /\ e.seq = k + i - 1 /\ k <= e.seq /\ e.seq < k + Len(segs[k])
<1>1. PICK k \in DOMAIN segs : \E i \in 1..Len(segs[k]) : e = segs[k][i]
  BY HeldPlace
<1> PICK i \in 1..Len(segs[k]) : e = segs[k][i]
  BY <1>1
<1>2. /\ k \in Nat /\ Len(segs[k]) \in Nat
      /\ e.seq = k + i - 1 /\ i \in Nat
  BY Within
<1>3. k <= e.seq /\ e.seq < k + Len(segs[k])
  BY <1>2
<1> QED
  BY <1>2, <1>3

\* Consecutive files: the second begins where the first ends.
LEMMA NextFile ==
  ASSUME SegTypeOK, Numbered, Adjoining,
         NEW k \in DOMAIN segs, NEW m \in DOMAIN segs, k < m,
         \A n \in DOMAIN segs : ~(k < n /\ n < m)
  PROVE  k + Len(segs[k]) = m
<1>0. k \in Nat /\ m \in Nat /\ Len(segs[k]) \in Nat /\ k + Len(segs[k]) <= m
  BY Within DEF Adjoining
<1>1. ~IsFirst(m, DOMAIN segs)
  BY <1>0 DEF IsFirst
<1>2. PICK e \in Held : e.seq = m - 1
  BY <1>1 DEF Adjoining
<1>3. PICK p \in DOMAIN segs : p <= e.seq /\ e.seq < p + Len(segs[p])
  BY FileOf
<1>4. p \in Nat /\ Len(segs[p]) \in Nat
  BY Within
<1>5. p < m /\ p + Len(segs[p]) >= m
  BY <1>0, <1>2, <1>3, <1>4
<1>6. ~(p < k)
  <2> SUFFICES ASSUME p < k PROVE FALSE
    OBVIOUS
  <2>1. p + Len(segs[p]) <= k
    BY DEF Adjoining
  <2> QED
    BY <1>0, <1>4, <1>5, <2>1
<1>7. p = k
  BY <1>0, <1>4, <1>5, <1>6
<1> QED
  BY <1>0, <1>5, <1>7

\* Only the last file can have nothing in it.
LEMMA NotLastFilled ==
  ASSUME SegTypeOK, Numbered, Adjoining,
         NEW k \in DOMAIN segs, NEW n \in DOMAIN segs, k < n
  PROVE  segs[k] # << >>
<1> DEFINE S == { m \in DOMAIN segs : k < m }
<1>0. k \in Nat /\ \A m \in DOMAIN segs : m \in Nat
  BY Within
<1>1. S \subseteq Nat /\ S # {}
  BY <1>0
<1>2. PICK m \in S : \A j \in S : m <= j
  <2> HIDE DEF S
  <2> QED
    BY <1>1, Least
<1>3. \A j \in DOMAIN segs : ~(k < j /\ j < m)
  BY <1>0, <1>2
<1>4. k + Len(segs[k]) = m
  BY <1>2, <1>3, NextFile
<1>5. Len(segs[k]) \in Nat /\ m \in Nat /\ (segs[k] = << >> <=> Len(segs[k]) = 0)
  BY <1>0, Within
<1> QED
  BY <1>0, <1>2, <1>4, <1>5


-----------------------------------------------------------------------------
(* read_all_segmented yields the directory's entries in the order of their *)
(* numbers.                                                                *)

\* The number of the entry at a place.
Num(p) == p[1] + p[2] - 1

\* A place is a file and a position in it.
LEMMA PlaceIs ==
  ASSUME SegTypeOK, Numbered
  PROVE  /\ \A p \in Places : /\ p[1] \in DOMAIN segs /\ p[2] \in 1..Len(segs[p[1]])
                              /\ p[1] \in Nat /\ p[1] >= 1 /\ p[2] \in Nat /\ p = << p[1], p[2] >>
                              /\ Num(p) \in Nat
                              /\ segs[p[1]][p[2]] \in Held /\ segs[p[1]][p[2]].seq = Num(p)
         /\ \A k \in DOMAIN segs : \A i \in 1..Len(segs[k]) :
              /\ << k, i >> \in Places /\ << k, i >>[1] = k /\ << k, i >>[2] = i
<1>1. \A k \in DOMAIN segs : DOMAIN segs[k] = 1..Len(segs[k])
  BY Within
<1>2. ASSUME NEW p \in Places
      PROVE  /\ p[1] \in DOMAIN segs /\ p[2] \in 1..Len(segs[p[1]])
             /\ p[1] \in Nat /\ p[1] >= 1 /\ p[2] \in Nat /\ p = << p[1], p[2] >>
             /\ Num(p) \in Nat
             /\ segs[p[1]][p[2]] \in Held /\ segs[p[1]][p[2]].seq = Num(p)
  <2>1. PICK k \in DOMAIN segs : p \in {k} \X DOMAIN segs[k]
    BY DEF Places
  <2>2. p[1] = k /\ p[2] \in 1..Len(segs[k]) /\ p = << p[1], p[2] >>
    BY <1>1, <2>1
  <2>3. /\ k \in Nat /\ k >= 1 /\ Len(segs[k]) \in Nat
        /\ \A i \in 1..Len(segs[k]) : segs[k][i] \in Held /\ segs[k][i].seq = k + i - 1
    BY Within
  <2>4. p[1] \in DOMAIN segs /\ p[2] \in 1..Len(segs[p[1]]) /\ p[1] \in Nat /\ p[1] >= 1 /\ p[2] \in Nat
    BY <2>2, <2>3
  <2>5. p[1] + p[2] - 1 \in Nat
    BY <2>2, <2>3, <2>4
  <2> QED
    BY <2>2, <2>3, <2>4, <2>5 DEF Num
<1>3. ASSUME NEW k \in DOMAIN segs, NEW i \in 1..Len(segs[k])
      PROVE  << k, i >> \in Places /\ << k, i >>[1] = k /\ << k, i >>[2] = i
  BY <1>1 DEF Places
<1> QED
  BY <1>2, <1>3

\* Earlier places have smaller numbers.
LEMMA PlaceOrder ==
  ASSUME SegTypeOK, Numbered, Adjoining, NEW p \in Places, NEW q \in Places
  PROVE  /\ Num(q) < Num(p) <=> q[1] < p[1] \/ (q[1] = p[1] /\ q[2] < p[2])
         /\ Num(q) = Num(p) => q = p
<1>1. /\ p[1] \in DOMAIN segs /\ p[2] \in 1..Len(segs[p[1]]) /\ p[1] \in Nat /\ p[2] \in Nat
      /\ q[1] \in DOMAIN segs /\ q[2] \in 1..Len(segs[q[1]]) /\ q[1] \in Nat /\ q[2] \in Nat
      /\ p = << p[1], p[2] >> /\ q = << q[1], q[2] >>
  BY PlaceIs
<1>2. Len(segs[p[1]]) \in Nat /\ Len(segs[q[1]]) \in Nat
  BY <1>1, Within
<1>3. ASSUME q[1] < p[1] PROVE Num(q) < Num(p)
  <2>1. q[1] + Len(segs[q[1]]) <= p[1]
    BY <1>1, <1>3 DEF Adjoining
  <2> QED
    BY <1>1, <1>2, <2>1 DEF Num
<1>4. ASSUME p[1] < q[1] PROVE Num(p) < Num(q)
  <2>1. p[1] + Len(segs[p[1]]) <= q[1]
    BY <1>1, <1>4 DEF Adjoining
  <2> QED
    BY <1>1, <1>2, <2>1 DEF Num
<1>5. Num(p) \in Nat /\ Num(q) \in Nat
  BY PlaceIs
<1>6. CASE q[1] < p[1]
  BY <1>1, <1>3, <1>5, <1>6
<1>7. CASE p[1] < q[1]
  BY <1>1, <1>4, <1>5, <1>7
<1>8. CASE p[1] = q[1]
  <2>1. Num(q) < Num(p) <=> q[2] < p[2]
    BY <1>1, <1>8 DEF Num
  <2>2. Num(q) = Num(p) => q[2] = p[2]
    BY <1>1, <1>8 DEF Num
  <2> QED
    BY <1>1, <1>8, <2>1, <2>2
<1> QED
  BY <1>1, <1>6, <1>7, <1>8

\* From the first file's name to the last entry there is a place for every
\* number, and no other.
LEMMA PlaceOf ==
  ASSUME SegTypeOK, Numbered, Adjoining,
         NEW F \in DOMAIN segs, IsFirst(F, DOMAIN segs),
         NEW L \in DOMAIN segs, IsLast(L, DOMAIN segs)
  PROVE  /\ \A p \in Places : F <= Num(p) /\ Num(p) < L + Len(segs[L])
         /\ \A n \in F..(L + Len(segs[L]) - 1) : \E p \in Places : Num(p) = n
<1>0. /\ F \in Nat /\ F >= 1 /\ L \in Nat /\ Len(segs[L]) \in Nat
      /\ \A k \in DOMAIN segs : k \in Nat /\ Len(segs[k]) \in Nat
  BY Within
<1>1. ASSUME NEW p \in Places PROVE F <= Num(p) /\ Num(p) < L + Len(segs[L])
  <2>1. p[1] \in DOMAIN segs /\ p[2] \in 1..Len(segs[p[1]]) /\ p[1] \in Nat /\ p[2] \in Nat
    BY PlaceIs
  <2>2. F <= p[1] /\ p[1] <= L /\ Len(segs[p[1]]) \in Nat
    BY <1>0, <2>1 DEF IsFirst, IsLast
  <2>3. p[1] = L \/ p[1] + Len(segs[p[1]]) <= L
    BY <1>0, <2>1, <2>2 DEF Adjoining
  <2> QED
    BY <1>0, <2>1, <2>2, <2>3 DEF Num
<1>2. ASSUME NEW n \in F..(L + Len(segs[L]) - 1) PROVE \E p \in Places : Num(p) = n
  <2>0. n \in Nat
    BY <1>0
  <2> DEFINE S == { k \in DOMAIN segs : k <= n }
  <2>1. S \subseteq 1..n /\ S # {}
    <3>1. F \in S
      BY <1>0
    <3>2. \A k \in DOMAIN segs : k >= 1
      BY Within
    <3> QED
      BY <1>0, <2>0, <3>1, <3>2
  <2>2. PICK k \in S : \A j \in S : j <= k
    <3> HIDE DEF S
    <3> QED
      BY <2>0, <2>1, Greatest
  <2>3. k \in DOMAIN segs /\ k <= n /\ k \in Nat /\ Len(segs[k]) \in Nat
    BY <1>0, <2>2
  <2>4. n < k + Len(segs[k])
    <3>1. CASE k = L
      BY <1>0, <2>0, <3>1
    <3>2. CASE k # L
      <4>1. k < L
        BY <1>0, <2>3, <3>2 DEF IsLast
      <4> DEFINE U == { m \in DOMAIN segs : k < m }
      <4>2. U \subseteq Nat /\ U # {}
        BY <1>0, <4>1
      <4>3. PICK m \in U : \A j \in U : m <= j
        <5> HIDE DEF U
        <5> QED
          BY <4>2, Least
      <4>4. m \in DOMAIN segs /\ k < m /\ m \in Nat /\ \A j \in DOMAIN segs : ~(k < j /\ j < m)
        BY <1>0, <4>3
      <4>5. k + Len(segs[k]) = m
        BY <2>3, <4>4, NextFile
      <4>6. ~(m <= n)
        BY <2>2, <2>3, <4>4
      <4> QED
        BY <2>0, <4>4, <4>5, <4>6
    <3> QED
      BY <3>1, <3>2
  <2>5. n - k + 1 \in 1..Len(segs[k])
    BY <2>0, <2>3, <2>4
  <2>6. << k, n - k + 1 >> \in Places /\ << k, n - k + 1 >>[1] = k /\ << k, n - k + 1 >>[2] = n - k + 1
    BY <2>3, <2>5, PlaceIs
  <2>7. Num(<< k, n - k + 1 >>) = n
    BY <2>0, <2>3, <2>6 DEF Num
  <2> QED
    BY <2>6, <2>7
<1> QED
  BY <1>1, <1>2


\* The places of numbers below n are as many as there are such numbers.
LEMMA PlaceCount ==
  ASSUME SegTypeOK, Numbered, Adjoining,
         NEW F \in DOMAIN segs, IsFirst(F, DOMAIN segs),
         NEW L \in DOMAIN segs, IsLast(L, DOMAIN segs),
         NEW n \in F..(L + Len(segs[L]))
  PROVE  Cardinality({ q \in Places : Num(q) < n }) = n - F
<1> DEFINE S == { q \in Places : Num(q) < n }
           D == F..(n - 1)
<1>0. F \in Nat /\ L \in Nat /\ Len(segs[L]) \in Nat /\ n \in Nat /\ F <= n
  BY Within
<1>1. /\ \A p \in Places : F <= Num(p) /\ Num(p) < L + Len(segs[L])
      /\ \A m \in F..(L + Len(segs[L]) - 1) : \E p \in Places : Num(p) = m
  BY PlaceOf
<1>2. \A m \in D : m \in Nat /\ m < n /\ m \in F..(L + Len(segs[L]) - 1)
  BY <1>0
<1> DEFINE G == [m \in D |-> CHOOSE p \in Places : Num(p) = m]
<1>3. ASSUME NEW m \in D PROVE G[m] \in S /\ Num(G[m]) = m
  <2>1. \E p \in Places : Num(p) = m
    BY <1>1, <1>2
  <2>2. G[m] \in Places /\ Num(G[m]) = m
    BY <2>1
  <2> QED
    BY <1>2, <2>2
<1>4. ASSUME NEW q \in S PROVE \E m \in D : G[m] = q
  <2>1. q \in Places /\ Num(q) < n /\ Num(q) \in Nat /\ F <= Num(q)
    BY <1>1, PlaceIs
  <2>2. Num(q) \in D
    BY <1>0, <2>1
  <2>3. G[Num(q)] \in Places /\ Num(G[Num(q)]) = Num(q)
    BY <1>3, <2>2
  <2>4. G[Num(q)] = q
    <3> HIDE DEF G
    <3> QED
      BY <2>1, <2>3, PlaceOrder
  <2> QED
    BY <2>2, <2>4
<1>5. G \in [D -> S]
  BY <1>3
<1>6. \A a, b \in D : G[a] = G[b] => a = b
  BY <1>3
<1> HIDE DEF G
<1>7. G \in Bijection(D, S)
  BY <1>4, <1>5, <1>6 DEF Bijection, Injection, Surjection, IsInjective
<1>8. ExistsBijection(D, S)
  BY <1>7 DEF ExistsBijection
<1>9. IsFiniteSet(D) /\ Cardinality(D) = n - F
  <2>1. F \in Int /\ n - 1 \in Int
    BY <1>0
  <2>2. IsFiniteSet(D) /\ Cardinality(D) = IF F > n - 1 THEN 0 ELSE (n - 1) - F + 1
    BY <2>1, FS_Interval
  <2> QED
    BY <1>0, <2>2
<1> HIDE DEF D, S
<1>10. Cardinality(S) = n - F
  BY <1>8, <1>9, FS_Bijection
<1> QED
  BY <1>10 DEF S

\* Reading all files yields the entries in the directory, numbered from the
\* first file's name.
LEMMA ReadAll ==
  ASSUME SegTypeOK, Numbered, Adjoining
  PROVE  /\ read_all_segmented \in Seq(AuditEntry)
         /\ \A i \in 1..Len(read_all_segmented) : read_all_segmented[i] \in Held
         /\ \A e \in Held : \E i \in 1..Len(read_all_segmented) : read_all_segmented[i] = e
         /\ \A F \in DOMAIN segs : IsFirst(F, DOMAIN segs) =>
              \A i \in 1..Len(read_all_segmented) : read_all_segmented[i].seq = F + i - 1
<1> DEFINE N == Cardinality(Places)
           R == [n \in 1..N |-> segs[NthPlace(n)[1]][NthPlace(n)[2]]]
<1>0. read_all_segmented = R
  BY DEF read_all_segmented
<1>1. CASE DOMAIN segs = {}
  <2>1. Places = {} /\ Held = {}
    BY <1>1 DEF Places, Held
  <2>2. N = 0
    BY <2>1, FS_EmptySet
  <2>3. R = << >>
    BY <2>2
  <2>4. << >> \in Seq(AuditEntry) /\ Len(<< >>) = 0
    OBVIOUS
  <2>5. read_all_segmented \in Seq(AuditEntry) /\ 1..Len(read_all_segmented) = {}
    <3>1. read_all_segmented = << >>
      BY <1>0, <2>3
    <3> QED
      BY <2>4, <3>1
  <2> HIDE DEF N, R
  <2> QED
    BY <1>1, <2>1, <2>5
<1>2. CASE DOMAIN segs # {}
  <2>0. DOMAIN segs \subseteq Nat /\ IsFiniteSet(DOMAIN segs)
    BY DEF SegTypeOK
  <2>1. PICK F \in DOMAIN segs : IsFirst(F, DOMAIN segs)
    BY <1>2, <2>0, HasFirst
  <2>2. PICK L \in DOMAIN segs : IsLast(L, DOMAIN segs)
    BY <1>2, <2>0, HasLast
  <2>3. /\ F \in Nat /\ L \in Nat /\ Len(segs[L]) \in Nat /\ F <= L
    BY <2>1, <2>2, Within DEF IsFirst
  <2>4. /\ \A p \in Places : F <= Num(p) /\ Num(p) < L + Len(segs[L]) /\ Num(p) \in Nat
        /\ \A m \in F..(L + Len(segs[L]) - 1) : \E p \in Places : Num(p) = m
    BY <2>1, <2>2, PlaceOf, PlaceIs
  <2>5. N = L + Len(segs[L]) - F /\ N \in Nat
    <3> DEFINE T == L + Len(segs[L])
    <3>1. { q \in Places : Num(q) < T } = Places
      BY <2>4
    <3>2. T \in F..(L + Len(segs[L])) /\ T - F \in Nat
      BY <2>3
    <3> HIDE DEF T
    <3>3. Cardinality({ q \in Places : Num(q) < T }) = T - F
      BY <2>1, <2>2, <3>2, PlaceCount
    <3>4. N = T - F
      BY <3>1, <3>3
    <3> QED
      BY <3>2, <3>4 DEF T
  <2>6. ASSUME NEW p \in Places PROVE Cardinality(Earlier(p)) = Num(p) - F
    <3>1. Earlier(p) = { q \in Places : Num(q) < Num(p) }
      BY PlaceOrder DEF Earlier
    <3>2. Num(p) \in F..(L + Len(segs[L]))
      BY <2>3, <2>4
    <3> QED
      BY <2>1, <2>2, <3>1, <3>2, PlaceCount
  <2> HIDE DEF N, R
  <2>7. ASSUME NEW n \in 1..N PROVE NthPlace(n) \in Places /\ Num(NthPlace(n)) = F + n - 1
    <3>1. n \in Nat /\ F + n - 1 \in F..(L + Len(segs[L]) - 1)
      BY <2>3, <2>5
    <3>2. PICK p \in Places : Num(p) = F + n - 1
      BY <2>4, <3>1
    <3>3. Cardinality(Earlier(p)) = n - 1
      BY <2>3, <2>6, <3>1, <3>2
    <3>4. NthPlace(n) \in Places /\ Cardinality(Earlier(NthPlace(n))) = n - 1
      BY <3>3 DEF NthPlace
    <3>5. Num(NthPlace(n)) - F = n - 1 /\ Num(NthPlace(n)) \in Nat
      BY <2>4, <2>6, <3>4
    <3> QED
      BY <2>3, <3>1, <3>4, <3>5
  <2>8. ASSUME NEW n \in 1..N
        PROVE  /\ R[n] = segs[NthPlace(n)[1]][NthPlace(n)[2]]
               /\ R[n] \in Held /\ R[n].seq = F + n - 1 /\ R[n] \in AuditEntry
    <3>1. R[n] = segs[NthPlace(n)[1]][NthPlace(n)[2]]
      BY DEF R
    <3>2. R[n] \in Held /\ R[n].seq = F + n - 1
      BY <2>7, <3>1, PlaceIs
    <3> QED
      BY <3>1, <3>2, HeldType
  <2>9. R \in Seq(AuditEntry) /\ Len(R) = N
    <3>1. DOMAIN R = 1..N /\ R = [n \in 1..N |-> R[n]]
      BY DEF R
    <3>2. R \in [1..N -> AuditEntry]
      BY <2>8, <3>1
    <3> QED
      BY <2>5, <3>2
  <2>10. ASSUME NEW e \in Held PROVE \E i \in 1..N : R[i] = e
    <3>1. PICK k \in DOMAIN segs : \E i \in 1..Len(segs[k]) : e = segs[k][i]
      BY HeldPlace
    <3>2. PICK i \in 1..Len(segs[k]) : e = segs[k][i]
      BY <3>1
    <3>3. PICK p \in Places : e = segs[p[1]][p[2]]
      <4>1. << k, i >> \in Places /\ << k, i >>[1] = k /\ << k, i >>[2] = i
        BY <3>2, PlaceIs
      <4>2. e = segs[<< k, i >>[1]][<< k, i >>[2]]
        BY <3>2, <4>1
      <4> QED
        BY <4>1, <4>2
    <3>4. Num(p) - F + 1 \in 1..N
      BY <2>3, <2>4, <2>5
    <3>5. NthPlace(Num(p) - F + 1) \in Places /\ Num(NthPlace(Num(p) - F + 1)) = F + (Num(p) - F + 1) - 1
      BY <2>7, <3>4
    <3>6. Num(NthPlace(Num(p) - F + 1)) = Num(p)
      BY <2>3, <2>4, <3>5
    <3>7. NthPlace(Num(p) - F + 1) = p
      BY <3>5, <3>6, PlaceOrder
    <3> QED
      BY <2>8, <3>3, <3>4, <3>7
  <2>11. ASSUME NEW G \in DOMAIN segs, IsFirst(G, DOMAIN segs) PROVE G = F
    BY <2>0, <2>1, <2>11 DEF IsFirst
  <2> QED
    BY <1>0, <2>8, <2>9, <2>10, <2>11
<1> QED
  BY <1>1, <1>2


-----------------------------------------------------------------------------
(* Type correctness.  That no file grows beyond the largest max_entries    *)
(* rests on the writer's count being the file's.                           *)

\* The tail open() finds is a number and a hash.
LEMMA TailType ==
  ASSUME SegTypeOK, NEW t \in SegTail
  PROVE  t.seq \in Nat /\ t.hash \in Hash
<1>1. CASE t = [seq |-> 0, hash |-> GENESIS_PREV_HASH]
  BY <1>1, GenesisType
<1>2. CASE \E k \in DOMAIN segs : /\ segs[k] # << >>
                                  /\ t = [seq |-> segs[k][Len(segs[k])].seq, hash |-> segs[k][Len(segs[k])].entry_hash]
  <2>1. PICK k \in DOMAIN segs : /\ segs[k] # << >>
                                 /\ t = [seq |-> segs[k][Len(segs[k])].seq, hash |-> segs[k][Len(segs[k])].entry_hash]
    BY <1>2
  <2>2. segs[k] \in Seq(AuditEntry)
    BY DEF SegTypeOK
  <2>3. segs[k][Len(segs[k])] \in AuditEntry
    BY <2>1, <2>2
  <2> QED
    BY <2>1, <2>3 DEF AuditEntry
<1>3. \A k : LastNonEmpty(k) => k \in DOMAIN segs /\ segs[k] # << >>
  BY DEF LastNonEmpty, IsLast
<1> QED
  BY <1>1, <1>2, <1>3 DEF SegTail

\* The engine's variables keep their types.
LEMMA EngineStep == TypeOK /\ [Next]_vars => EngineTypeOK'
<1> SUFFICES ASSUME TypeOK, [Next]_vars PROVE EngineTypeOK'
  OBVIOUS
<1> USE DEF TypeOK, EngineTypeOK
<1>1. ASSUME NEW c \in Caller, NEW b \in Body, CallRecord(c, b) PROVE EngineTypeOK'
  <2>1. [op |-> "write", caller |-> c, body |-> b] \in Cmd
    BY DEF Cmd
  <2>2. \A n \in AckedSeqs : n \in Nat
    BY DEF AckedSeqs, Receipt
  <2>3. floor' \in [Caller -> Nat]
    BY <1>1, <2>2 DEF CallRecord, Record
  <2>4. chan' \in Seq(Cmd) /\ issued' \in 0..MaxRecords
    BY <1>1, <2>1, MaxRecordsAssumption DEF CallRecord, Record, SendCmd
  <2> QED
    BY <1>1, <2>3, <2>4 DEF CallRecord, Record
<1>2. ASSUME NEW c \in Caller, CallReturn(c) PROVE EngineTypeOK'
  <2>1. reply[c].kind = "ok" => reply[c].receipt \in Receipt
    BY DEF Reply
  <2>2. reply[c].kind = "head" => reply[c].head \in HeadPair
    BY DEF Reply
  <2>3. NoReply \in Reply
    BY DEF NoReply, Reply
  <2> QED
    BY <1>2, <2>1, <2>2, <2>3 DEF CallReturn, Return
<1>3. CASE StartAppend
  <2> PICK t \in Time : BeginAppend(t)
    BY <1>3 DEF StartAppend
  <2>1. Head(chan) \in Cmd /\ Head(chan).op = "write" /\ Tail(chan) \in Seq(Cmd)
    BY DEF BeginAppend, Receiving
  <2>2. Head(chan).caller \in Caller /\ Head(chan).body \in Body
    BY <2>1 DEF Cmd
  <2>3. Sealed(seq + 1, t, Head(chan).body, prev_hash) \in AuditEntry
    BY <2>2, SealedType
  <2> QED
    BY <2>1, <2>2, <2>3 DEF BeginAppend
<1>4. CASE StoreAppend
  <2>1. OkReply(ReceiptOf(entry)) \in Reply
    BY <1>4 DEF StoreAppend, AppendOk, Appending, OkReply, Reply, ReceiptOf, Receipt, AuditEntry
  <2>2. seq' \in Nat /\ prev_hash' \in Hash
    BY <1>4 DEF StoreAppend, AppendOk, Appending, AuditEntry
  <2> QED
    BY <1>4, <2>1, <2>2 DEF StoreAppend, AppendOk
<1>5. CASE AppendError
  <2>1. ErrReply \in Reply
    BY DEF ErrReply, Reply
  <2> QED
    BY <1>5, <2>1 DEF AppendError, AppendErr
<1>6. CASE Open
  <2> PICK t \in SegTail : OpenDir(t) /\ Build(t.seq, t.hash)
    BY <1>6 DEF Open
  <2>1. t.seq \in Nat /\ t.hash \in Hash
    BY TailType
  <2> QED
    BY <2>1 DEF Build
<1>7. CASE Forget
  <2>1. NoReply \in Reply /\ << >> \in Seq(Cmd)
    BY DEF NoReply, Reply
  <2> QED
    BY <1>7, <2>1, GenesisType DEF Forget
<1>8. CASE UNCHANGED engineVars
  BY <1>8 DEF engineVars
<1> QED
  BY <1>1, <1>2, <1>3, <1>4, <1>5, <1>6, <1>7, <1>8
  DEF Next, vars, Rotate, Close, Drop, Crash, Kill, PruneStep, ReadStep

\* The directory keeps its type.
LEMMA DirStep == TypeOK /\ AtTail /\ [Next]_vars => SegTypeOK'
<1> SUFFICES ASSUME TypeOK, AtTail, [Next]_vars PROVE SegTypeOK'
  OBVIOUS
<1>0. /\ DOMAIN segs \subseteq Nat /\ IsFiniteSet(DOMAIN segs)
      /\ \A k \in DOMAIN segs : segs[k] \in Seq(AuditEntry) /\ \E m \in MaxEntries : Len(segs[k]) <= m
      /\ segs \in [DOMAIN segs -> Seq(AuditEntry)]
      /\ max_entries \in MaxEntries \cup {0} /\ cur_first \in Nat /\ cur_count \in Nat
  BY DEF TypeOK, SegTypeOK
<1>1. << >> \in Seq(AuditEntry) /\ Len(<< >>) = 0
  OBVIOUS
<1>2. ASSUME NEW k \in Nat, segs' = CreateFile(k), max_entries' \in MaxEntries,
             cur_first' = k, cur_count' \in Nat
      PROVE  SegTypeOK'
  <2>1. DOMAIN segs' = DOMAIN segs \cup {k}
    BY <1>2 DEF CreateFile
  <2>2. IsFiniteSet(DOMAIN segs') /\ DOMAIN segs' \subseteq Nat
    BY <1>0, <2>1, FS_AddElement
  <2>3. ASSUME NEW j \in DOMAIN segs'
        PROVE  segs'[j] \in Seq(AuditEntry) /\ \E m \in MaxEntries : Len(segs'[j]) <= m
    <3>1. CASE j \in DOMAIN segs
      BY <1>0, <1>2, <2>1, <3>1 DEF CreateFile
    <3>2. CASE j \notin DOMAIN segs
      <4>1. segs'[j] = << >>
        BY <1>2, <2>1, <3>2 DEF CreateFile
      <4>2. max_entries' \in Nat
        BY <1>2, MaxEntriesAssumption
      <4>3. 0 <= max_entries'
        BY <4>2
      <4> QED
        BY <1>1, <1>2, <4>1, <4>3
    <3> QED
      BY <3>1, <3>2
  <2>4. segs' \in [DOMAIN segs' -> Seq(AuditEntry)]
    BY <1>2, <2>1, <2>3 DEF CreateFile
  <2> QED
    BY <1>2, <2>2, <2>3, <2>4 DEF SegTypeOK
<1>3. CASE Rotate
  <2>1. entry.seq \in Nat
    BY <1>3 DEF Rotate, Appending, TypeOK, EngineTypeOK, AuditEntry
  <2>2. max_entries \in MaxEntries
    BY <1>3 DEF Rotate, Appending, AtTail
  <2> QED
    BY <1>2, <1>3, <2>1, <2>2 DEF Rotate, rotate_to
<1>4. CASE StoreAppend
  <2>1. /\ cur_first \in DOMAIN segs /\ cur_count = Len(segs[cur_first])
        /\ max_entries \in MaxEntries /\ ~(cur_count >= max_entries)
    BY <1>4 DEF StoreAppend, AppendOk, Appending, AtTail, WriteEntry, Full, IsLast
  <2>2. entry \in AuditEntry
    BY <1>4 DEF StoreAppend, AppendOk, Appending, TypeOK, EngineTypeOK
  <2>3. segs' = [segs EXCEPT ![cur_first] = Append(@, entry)]
    BY <1>4, <2>1 DEF StoreAppend, WriteEntry
  <2>4. /\ Append(segs[cur_first], entry) \in Seq(AuditEntry)
        /\ Len(Append(segs[cur_first], entry)) = cur_count + 1
    BY <1>0, <2>1, <2>2
  <2>5. max_entries \in Nat
    BY <2>1, MaxEntriesAssumption
  <2>6. cur_count + 1 <= max_entries
    BY <1>0, <2>1, <2>5
  <2>7. DOMAIN segs' = DOMAIN segs
    BY <2>3
  <2>8. ASSUME NEW j \in DOMAIN segs'
        PROVE  segs'[j] \in Seq(AuditEntry) /\ \E m \in MaxEntries : Len(segs'[j]) <= m
    <3>1. CASE j = cur_first
      <4>1. segs'[j] = Append(segs[cur_first], entry)
        BY <2>1, <2>3, <3>1
      <4> QED
        BY <2>1, <2>4, <2>6, <4>1
    <3>2. CASE j # cur_first
      BY <1>0, <2>3, <2>7, <3>2
    <3> QED
      BY <3>1, <3>2
  <2>9. cur_count' \in Nat /\ UNCHANGED << max_entries, cur_first >>
    BY <1>0, <1>4 DEF StoreAppend, WriteEntry
  <2>10. segs' \in [DOMAIN segs' -> Seq(AuditEntry)]
    BY <2>3, <2>7, <2>8
  <2> QED
    BY <1>0, <2>7, <2>8, <2>9, <2>10 DEF SegTypeOK
<1>5. CASE Open
  <2> PICK t \in SegTail : OpenDir(t)
    BY <1>5 DEF Open
  <2>1. PICK k \in DOMAIN segs \cup {1} : segs' = CreateFile(k) /\ cur_first' = k /\ cur_count' = Len(segs'[k])
    BY DEF OpenDir
  <2>2. k \in Nat /\ max_entries' \in MaxEntries
    BY <1>0 DEF OpenDir
  <2>3. segs'[k] \in Seq(AuditEntry)
    BY <1>0, <1>1, <2>1 DEF CreateFile
  <2>4. cur_count' \in Nat
    BY <2>1, <2>3
  <2> QED
    BY <1>2, <2>1, <2>2, <2>4
<1>6. CASE PruneDelete
  <2>1. PICK k \in plist : segs' = [j \in DOMAIN segs \ {k} |-> segs[j]]
    BY <1>6 DEF PruneDelete
  <2>2. DOMAIN segs' = DOMAIN segs \ {k} /\ \A j \in DOMAIN segs' : segs'[j] = segs[j]
    BY <2>1
  <2>3. IsFiniteSet(DOMAIN segs')
    BY <1>0, <2>2, FS_RemoveElement
  <2>4. UNCHANGED << max_entries, cur_first, cur_count >>
    BY <1>6 DEF PruneDelete
  <2>5. segs' \in [DOMAIN segs' -> Seq(AuditEntry)]
    BY <1>0, <2>1, <2>2
  <2> QED
    BY <1>0, <2>2, <2>3, <2>4, <2>5 DEF SegTypeOK
<1>7. CASE CloseDir
  BY <1>0, <1>7 DEF CloseDir, SegTypeOK
<1>8. CASE UNCHANGED segVars
  BY <1>0, <1>8 DEF segVars, SegTypeOK
<1> QED
  BY <1>3, <1>4, <1>5, <1>6, <1>7, <1>8
  DEF Next, vars, CallRecord, CallReturn, StartAppend, AppendError, AppendFails, Close, Crash, PruneStep, ReadStep


\* The pruner's and the reader's variables keep their types.
LEMMA OthersStep ==
  TypeOK /\ Numbered /\ Adjoining /\ Pruning /\ [Next]_vars =>
    /\ pruner' \in {"idle", "deleting"}
    /\ plist' \subseteq Nat /\ boundary' \in Nat /\ cutoff' \in Nat
    /\ deleted_any' \in BOOLEAN
    /\ anchor' \in {NoAnchor} \cup [some : {TRUE}, seq : Nat, hash : Hash]
    /\ removed' \subseteq AuditEntry
    /\ unanchored' \in BOOLEAN
    /\ rd' \in {"idle", "ok", "err"} \cup Reader
    /\ rlist' \subseteq Nat /\ rout' \in Seq(AuditEntry) /\ rfloor' \in Nat
<1> DEFINE PruneTypes == /\ pruner \in {"idle", "deleting"}
                         /\ plist \subseteq Nat /\ boundary \in Nat /\ cutoff \in Nat
                         /\ deleted_any \in BOOLEAN
                         /\ anchor \in {NoAnchor} \cup [some : {TRUE}, seq : Nat, hash : Hash]
                         /\ removed \subseteq AuditEntry
                         /\ unanchored \in BOOLEAN
           ReadTypes == /\ rd \in {"idle", "ok", "err"} \cup Reader
                        /\ rlist \subseteq Nat /\ rout \in Seq(AuditEntry) /\ rfloor \in Nat
<1> SUFFICES ASSUME TypeOK, Numbered, Adjoining, Pruning, [Next]_vars PROVE PruneTypes' /\ ReadTypes'
  OBVIOUS
<1>0. PruneTypes /\ ReadTypes /\ SegTypeOK /\ DOMAIN segs \subseteq Nat
  BY DEF TypeOK, SegTypeOK
<1>1. UNCHANGED pruneVars => PruneTypes'
  BY <1>0 DEF pruneVars
<1>2. UNCHANGED readVars => ReadTypes'
  BY <1>0 DEF readVars
<1>3. ASSUME NEW b \in Nat, NEW c \in Nat, PruneList(b, c) PROVE PruneTypes'
  BY <1>0, <1>3 DEF PruneList, list_segments
<1>4. ASSUME NEW b \in 1..(MaxRecords + 1), prune_before(b) PROVE PruneTypes'
  <2>1. b \in Nat /\ NoCutoff \in Nat
    BY MaxRecordsAssumption DEF NoCutoff
  <2> QED
    BY <1>3, <1>4, <2>1 DEF prune_before
<1>5. ASSUME NEW c \in Time, prune_before_timestamp(c) PROVE PruneTypes'
  <2>1. PICK i \in DOMAIN read_all_segmented : PruneList(read_all_segmented[i].seq, c)
    BY <1>5 DEF prune_before_timestamp
  <2>2. read_all_segmented \in Seq(AuditEntry)
    BY <1>0, ReadAll
  <2>3. read_all_segmented[i].seq \in Nat
    <3>1. read_all_segmented[i] \in AuditEntry
      BY <2>2
    <3> QED
      BY <3>1 DEF AuditEntry
  <2>4. c \in Nat
    BY SegAssumption
  <2> QED
    BY <1>3, <2>1, <2>3, <2>4
<1>6. ASSUME PruneDelete PROVE PruneTypes'
  <2>1. PICK k \in plist : /\ Range(segs[k]) \subseteq AuditEntry
                           /\ removed' = removed \cup Range(segs[k])
                           /\ plist' = plist \ {k}
    <3>1. PICK k \in plist : removed' = removed \cup Range(segs[k]) /\ plist' = plist \ {k}
      BY <1>6 DEF PruneDelete
    <3>2. segs[k] \in Seq(AuditEntry)
      BY <1>0, <1>6 DEF SegTypeOK, Pruning, PruneDelete
    <3>3. Range(segs[k]) \subseteq AuditEntry
      BY <3>2 DEF Range
    <3> QED
      BY <3>1, <3>3
  <2> QED
    BY <1>0, <1>6, <2>1 DEF PruneDelete
<1>7. ASSUME PruneDone PROVE PruneTypes'
  <2>1. PICK k \in DOMAIN segs : /\ anchor' = IF NewAnchor(k).some THEN NewAnchor(k) ELSE anchor
                                 /\ unanchored' = (unanchored /\ ~NewAnchor(k).some)
    BY <1>7 DEF PruneDone
  <2>2. NewAnchor(k).some => NewAnchor(k) \in [some : {TRUE}, seq : Nat, hash : Hash]
    <3> SUFFICES ASSUME NewAnchor(k).some PROVE NewAnchor(k) \in [some : {TRUE}, seq : Nat, hash : Hash]
      OBVIOUS
    <3>1. /\ segs[k] # << >> /\ segs[k][1].seq > 1
          /\ NewAnchor(k) = SomeAnchor(segs[k][1].seq - 1, segs[k][1].prev_hash)
      BY DEF NewAnchor, NoAnchor
    <3>2. segs[k] \in Seq(AuditEntry)
      BY <1>0 DEF SegTypeOK
    <3>3. segs[k][1] \in AuditEntry
      BY <3>1, <3>2
    <3>4. segs[k][1].seq - 1 \in Nat /\ segs[k][1].prev_hash \in Hash
      BY <3>1, <3>3 DEF AuditEntry
    <3> QED
      BY <3>1, <3>4 DEF SomeAnchor
  <2>3. anchor' \in {NoAnchor} \cup [some : {TRUE}, seq : Nat, hash : Hash]
    BY <1>0, <2>1, <2>2
  <2>4. unanchored' \in BOOLEAN
    BY <2>1
  <2> QED
    BY <1>0, <1>7, <2>3, <2>4 DEF PruneDone, NoCutoff
<1>8. ASSUME PruneFails PROVE PruneTypes'
  <2>1. unanchored' \in BOOLEAN
    BY <1>0, <1>8 DEF PruneFails
  <2> QED
    BY <1>0, <1>8, <2>1 DEF PruneFails, NoCutoff
<1>9. ASSUME NEW who \in Reader, ReadList(who) PROVE ReadTypes'
  <2>1. \A n \in AckedSeqs : n \in Nat
    BY DEF AckedSeqs, Receipt, TypeOK, EngineTypeOK
  <2> QED
    BY <1>0, <1>9, <2>1 DEF ReadList, list_segments
<1>10. ASSUME ReadNext PROVE ReadTypes'
  <2>1. PICK k \in rlist :
          \/ /\ k \in DOMAIN segs
             /\ rout' = rout \o segs[k]
             /\ rlist' = rlist \ {k}
             /\ UNCHANGED rd
          \/ /\ k \notin DOMAIN segs
             /\ rout' = << >>
             /\ rlist' = {}
             /\ rd' = IF rd = "server" THEN "ok" ELSE "err"
    BY <1>10 DEF ReadNext
  <2>2. k \in DOMAIN segs => segs[k] \in Seq(AuditEntry)
    BY <1>0 DEF SegTypeOK
  <2>3. rout' \in Seq(AuditEntry)
    <3>1. rout \in Seq(AuditEntry)
      BY <1>0
    <3>2. (k \in DOMAIN segs /\ rout' = rout \o segs[k]) \/ rout' = << >>
      BY <2>1
    <3>3. << >> \in Seq(AuditEntry)
      OBVIOUS
    <3>4. ASSUME NEW s \in Seq(AuditEntry), rout' = rout \o s PROVE rout' \in Seq(AuditEntry)
      <4>1. rout \o s \in Seq(AuditEntry)
        BY <3>1, ConcatProperties
      <4> QED
        BY <3>4, <4>1
    <3> QED
      BY <2>2, <3>2, <3>3, <3>4
  <2> QED
    BY <1>0, <1>10, <2>1, <2>3 DEF ReadNext
<1>11. ASSUME ReadDone PROVE ReadTypes'
  BY <1>0, <1>11 DEF ReadDone
<1>12. PruneStep => PruneTypes' /\ ReadTypes'
  BY <1>2, <1>4, <1>5, <1>6, <1>7, <1>8 DEF PruneStep
<1>13. ReadStep => PruneTypes' /\ ReadTypes'
  BY <1>1, <1>9, <1>10, <1>11 DEF ReadStep
<1> HIDE DEF PruneTypes, ReadTypes
<1> QED
  BY <1>1, <1>2, <1>12, <1>13
  DEF Next, vars, Others, CallRecord, CallReturn, StartAppend, Rotate, StoreAppend, AppendError, Open, Close, Crash

\* Every step keeps the types.
LEMMA TypeStep == TypeOK /\ AtTail /\ Numbered /\ Adjoining /\ Pruning /\ [Next]_vars => TypeOK'
BY EngineStep, DirStep, OthersStep DEF TypeOK

\* A fresh directory has the right types.
LEMMA TypeInit == Init => TypeOK
<1> SUFFICES ASSUME Init PROVE TypeOK
  OBVIOUS
<1>1. NoReply \in Reply /\ << >> \in Seq(Cmd) /\ << >> \in Seq(AuditEntry)
  BY DEF NoReply, Reply
<1>2. EngineTypeOK
  <2>1. 0 \in Nat /\ 0 \in 0..MaxRecords
    BY MaxRecordsAssumption
  <2>2. writer # "append"
    BY DEF Init, EngineInit
  <2> QED
    BY <1>1, <2>1, <2>2, GenesisType DEF Init, EngineInit, EngineTypeOK
<1>3. SegTypeOK
  <2>1. DOMAIN segs = {}
    BY DEF Init, SegInit
  <2> QED
    BY <2>1, FS_EmptySet DEF Init, SegInit, SegTypeOK
<1> QED
  BY <1>1, <1>2, <1>3 DEF Init, TypeOK, NoCutoff


-----------------------------------------------------------------------------
(* The three ways the directory changes: a file is created, the last file  *)
(* grows, the first file goes.                                             *)

\* Everything recorded is an entry.
LEMMA RecordedType ==
  ASSUME TypeOK, NEW e \in Recorded
  PROVE  /\ e \in AuditEntry /\ e.seq \in Nat /\ e.entry_hash \in Hash /\ e.prev_hash \in Hash
         /\ e.timestamp \in Time
<1>1. e \in AuditEntry
  BY HeldType DEF Recorded, TypeOK
<1> QED
  BY <1>1 DEF AuditEntry

\* A new file behind all others has nothing in it.
LEMMA NewFile ==
  ASSUME TypeOK, Numbered, Adjoining, OneChain, DOMAIN segs = {} => removed = {},
         NEW K \in Nat, K >= 1,
         \A k \in DOMAIN segs : k < K /\ k + Len(segs[k]) <= K,
         (\E e \in Held : e.seq = K - 1) \/ (DOMAIN segs = {} /\ K = 1),
         segs' = CreateFile(K), removed' = removed
  PROVE  /\ DOMAIN segs' = DOMAIN segs \cup {K} /\ K \notin DOMAIN segs
         /\ segs'[K] = << >> /\ \A k \in DOMAIN segs : segs'[k] = segs[k]
         /\ Held' = Held /\ Numbered' /\ Adjoining' /\ OneChain'
<1>0. SegTypeOK /\ \A k \in DOMAIN segs : k \in Nat /\ Len(segs[k]) \in Nat
  BY Within DEF TypeOK
<1>1. /\ DOMAIN segs' = DOMAIN segs \cup {K} /\ K \notin DOMAIN segs
      /\ segs'[K] = << >> /\ \A k \in DOMAIN segs : segs'[k] = segs[k]
  BY <1>0 DEF CreateFile
<1>2. Held' = Held
  <2>1. Range(<< >>) = {}
    BY DEF Range
  <2> QED
    BY <1>1, <2>1 DEF Held
<1>3. Numbered'
  <2>1. DOMAIN << >> = {}
    OBVIOUS
  <2> QED
    BY <1>1, <2>1 DEF Numbered
<1>4. Adjoining'
  <2> SUFFICES ASSUME NEW k \in DOMAIN segs'
               PROVE  /\ \A n \in DOMAIN segs' : k < n => k + Len(segs'[k]) <= n
                      /\ \/ \E e \in Held' : e.seq = k - 1
                         \/ IsFirst(k, DOMAIN segs') /\ (k = 1 \/ segs'[k] # << >>)
    BY DEF Adjoining
  <2>1. CASE k \in DOMAIN segs
    <3>1. \A n \in DOMAIN segs' : k < n => k + Len(segs'[k]) <= n
      BY <1>0, <1>1, <2>1 DEF Adjoining
    <3>2. IsFirst(k, DOMAIN segs) => IsFirst(k, DOMAIN segs')
      BY <1>0, <1>1, <2>1 DEF IsFirst
    <3> QED
      BY <1>1, <1>2, <2>1, <3>1, <3>2 DEF Adjoining
  <2>2. CASE k = K
    <3>1. \A n \in DOMAIN segs' : ~(k < n)
      BY <1>0, <1>1, <2>2
    <3>2. DOMAIN segs = {} => IsFirst(k, DOMAIN segs')
      BY <1>1, <2>2 DEF IsFirst
    <3> QED
      BY <1>2, <2>2, <3>1, <3>2
  <2> QED
    BY <1>1, <2>1, <2>2
<1>5. OneChain'
  <2>1. Recorded' = Recorded
    BY <1>2 DEF Recorded
  <2>2. ASSUME NEW e \in removed PROVE e.seq < K
    <3>1. PICK k \in DOMAIN segs : TRUE
      OBVIOUS
    <3>2. e.seq < k /\ k < K /\ k \in Nat /\ e.seq \in Nat
      BY <1>0, <3>1, RecordedType DEF OneChain, Recorded
    <3> QED
      BY <3>2
  <2> QED
    BY <1>1, <2>1, <2>2 DEF OneChain
<1> QED
  BY <1>1, <1>2, <1>3, <1>4, <1>5

\* An entry that continues the chain is added to the last file.
LEMMA Grow ==
  ASSUME TypeOK, Numbered, Adjoining, OneChain,
         NEW C \in DOMAIN segs, IsLast(C, DOMAIN segs),
         NEW f \in AuditEntry, f.seq = C + Len(segs[C]),
         f.entry_hash = recompute_hash(f), Len(f.entry_hash) = f.seq,
         \A e \in Recorded : e.seq < f.seq /\ IsPrefix(e.entry_hash, f.entry_hash),
         segs' = [segs EXCEPT ![C] = Append(@, f)], removed' = removed
  PROVE  /\ DOMAIN segs' = DOMAIN segs /\ segs'[C] = Append(segs[C], f)
         /\ \A k \in DOMAIN segs : k # C => segs'[k] = segs[k]
         /\ Held' = Held \cup {f} /\ Numbered' /\ Adjoining' /\ OneChain'
<1>0. SegTypeOK /\ \A k \in DOMAIN segs : k \in Nat /\ Len(segs[k]) \in Nat /\ DOMAIN segs[k] = 1..Len(segs[k])
  BY Within DEF TypeOK
<1>1. /\ DOMAIN segs' = DOMAIN segs /\ segs'[C] = Append(segs[C], f)
      /\ \A k \in DOMAIN segs : k # C => segs'[k] = segs[k]
  OBVIOUS
<1>2. /\ Len(segs'[C]) = Len(segs[C]) + 1 /\ DOMAIN segs'[C] = 1..(Len(segs[C]) + 1)
      /\ segs'[C][Len(segs[C]) + 1] = f
      /\ \A i \in 1..Len(segs[C]) : segs'[C][i] = segs[C][i]
  <2>1. segs[C] \in Seq(AuditEntry)
    BY <1>0 DEF SegTypeOK
  <2> QED
    BY <1>1, <2>1
<1>3. Held' = Held \cup {f}
  <2>1. Range(segs'[C]) = Range(segs[C]) \cup {f}
    <3>1. Len(segs[C]) \in Nat /\ DOMAIN segs[C] = 1..Len(segs[C])
      BY <1>0
    <3>2. \A i \in DOMAIN segs'[C] : i = Len(segs[C]) + 1 \/ i \in DOMAIN segs[C]
      BY <1>2, <3>1
    <3>3. Len(segs[C]) + 1 \in DOMAIN segs'[C] /\ DOMAIN segs[C] \subseteq DOMAIN segs'[C]
      BY <1>2, <3>1
    <3>4. \A x \in Range(segs'[C]) : x \in Range(segs[C]) \cup {f}
      BY <1>2, <3>1, <3>2 DEF Range
    <3>5. \A x \in Range(segs[C]) \cup {f} : x \in Range(segs'[C])
      BY <1>2, <3>1, <3>3 DEF Range
    <3> QED
      BY <3>4, <3>5
  <2> QED
    BY <1>1, <2>1 DEF Held
<1>4. Numbered'
  <2>1. ASSUME NEW i \in DOMAIN segs'[C] PROVE segs'[C][i].seq = C + i - 1
    <3>1. CASE i = Len(segs[C]) + 1
      BY <1>0, <1>2, <3>1
    <3>2. CASE i # Len(segs[C]) + 1
      BY <1>0, <1>2, <3>2 DEF Numbered
    <3> QED
      BY <3>1, <3>2
  <2> QED
    BY <1>1, <2>1 DEF Numbered
<1>5. Adjoining'
  <2> SUFFICES ASSUME NEW k \in DOMAIN segs
               PROVE  /\ \A n \in DOMAIN segs : k < n => k + Len(segs'[k]) <= n
                      /\ \/ \E e \in Held' : e.seq = k - 1
                         \/ IsFirst(k, DOMAIN segs) /\ (k = 1 \/ segs'[k] # << >>)
    BY <1>1 DEF Adjoining
  <2>1. k = C => \A n \in DOMAIN segs : ~(k < n)
    BY <1>0 DEF IsLast
  <2>2. k = C => segs'[k] # << >>
    BY <1>0, <1>2
  <2> QED
    BY <1>1, <1>3, <2>1, <2>2 DEF Adjoining
<1>6. OneChain'
  <2>1. Recorded' = Recorded \cup {f}
    BY <1>3 DEF Recorded
  <2>2. ASSUME NEW e \in Recorded PROVE e.seq \in Nat /\ e.entry_hash \in Hash
    BY RecordedType
  <2>3. f.seq \in Nat /\ f.entry_hash \in Hash
    BY DEF AuditEntry
  <2>4. IsPrefix(f.entry_hash, f.entry_hash)
    BY <2>3, PrefixReflexive DEF Hash
  <2>5. \A e, g \in Recorded' : e.seq <= g.seq => IsPrefix(e.entry_hash, g.entry_hash)
    <3> SUFFICES ASSUME NEW e \in Recorded', NEW g \in Recorded', e.seq <= g.seq
                 PROVE  IsPrefix(e.entry_hash, g.entry_hash)
      OBVIOUS
    <3>1. CASE g = f
      BY <2>1, <2>4, <3>1
    <3>2. CASE g # f /\ e = f
      BY <2>1, <2>2, <2>3, <3>2
    <3>3. CASE g # f /\ e # f
      BY <2>1, <3>3 DEF OneChain
    <3> QED
      BY <3>1, <3>2, <3>3
  <2>6. \A e \in Recorded' : e.entry_hash = recompute_hash(e) /\ Len(e.entry_hash) = e.seq
    BY <2>1 DEF OneChain
  <2>7. \A e \in removed' : \A k \in DOMAIN segs' : e.seq < k
    BY <1>1 DEF OneChain
  <2> QED
    BY <2>5, <2>6, <2>7 DEF OneChain
<1> QED
  BY <1>1, <1>3, <1>4, <1>5, <1>6

\* The first file is deleted; the second one has entries.
LEMMA Cut ==
  ASSUME TypeOK, Numbered, Adjoining, OneChain,
         NEW k \in DOMAIN segs, IsFirst(k, DOMAIN segs),
         NEW n \in DOMAIN segs, IsFirst(n, DOMAIN segs \ {k}), segs[n] # << >>,
         segs' = [j \in DOMAIN segs \ {k} |-> segs[j]],
         removed' = removed \cup Range(segs[k])
  PROVE  /\ DOMAIN segs' = DOMAIN segs \ {k} /\ \A j \in DOMAIN segs' : segs'[j] = segs[j]
         /\ Recorded' = Recorded /\ Held' \subseteq Held
         /\ \A e \in Held : e.seq >= n => e \in Held'
         /\ \A e \in removed' \ removed : e \in Held /\ e.seq < n
         /\ Numbered' /\ Adjoining' /\ OneChain'
<1>0. SegTypeOK /\ \A j \in DOMAIN segs : j \in Nat /\ Len(segs[j]) \in Nat /\ DOMAIN segs[j] = 1..Len(segs[j])
  BY Within DEF TypeOK
<1>1. DOMAIN segs' = DOMAIN segs \ {k} /\ \A j \in DOMAIN segs' : segs'[j] = segs[j]
  OBVIOUS
<1>2. k < n /\ n \in DOMAIN segs' /\ k + Len(segs[k]) <= n
  <2>1. k < n /\ n \in DOMAIN segs'
    BY <1>0, <1>1 DEF IsFirst
  <2> QED
    BY <2>1 DEF Adjoining
<1>3. Held = Held' \cup Range(segs[k]) /\ Recorded' = Recorded /\ Held' \subseteq Held
  BY <1>1 DEF Held, Recorded
<1>4. ASSUME NEW e \in Range(segs[k]) PROVE e \in Held /\ e.seq < n /\ e.seq \in Nat
  <2>1. PICK i \in 1..Len(segs[k]) : e = segs[k][i]
    BY <1>0 DEF Range
  <2>2. e.seq = k + i - 1
    BY <1>0, <2>1 DEF Numbered
  <2> QED
    BY <1>0, <1>2, <1>3, <2>2
<1>5. \A e \in Held : e.seq >= n => e \in Held'
  BY <1>0, <1>3, <1>4
<1>6. Numbered'
  BY <1>1 DEF Numbered
<1>7. Adjoining'
  <2> SUFFICES ASSUME NEW j \in DOMAIN segs'
               PROVE  /\ \A m \in DOMAIN segs' : j < m => j + Len(segs'[j]) <= m
                      /\ \/ \E e \in Held' : e.seq = j - 1
                         \/ IsFirst(j, DOMAIN segs') /\ (j = 1 \/ segs'[j] # << >>)
    BY DEF Adjoining
  <2>1. \A m \in DOMAIN segs' : j < m => j + Len(segs'[j]) <= m
    BY <1>1 DEF Adjoining
  <2>2. CASE j = n
    BY <1>1, <1>2, <2>1, <2>2 DEF IsFirst
  <2>3. CASE j # n
    <3>1. n < j /\ ~IsFirst(j, DOMAIN segs)
      BY <1>0, <1>1, <1>2, <2>3 DEF IsFirst
    <3>2. PICK e \in Held : e.seq = j - 1
      BY <1>1, <3>1 DEF Adjoining
    <3>3. e.seq >= n
      BY <1>0, <1>1, <3>1, <3>2
    <3> QED
      BY <1>5, <2>1, <3>2, <3>3
  <2> QED
    BY <2>2, <2>3
<1>8. OneChain'
  <2>1. ASSUME NEW e \in removed', NEW j \in DOMAIN segs' PROVE e.seq < j
    <3>1. CASE e \in removed
      BY <1>1, <3>1 DEF OneChain
    <3>2. CASE e \in Range(segs[k])
      <4>1. n <= j
        BY <1>1 DEF IsFirst
      <4> QED
        BY <1>0, <1>1, <1>4, <3>2, <4>1
    <3> QED
      BY <3>1, <3>2
  <2> QED
    BY <1>3, <2>1 DEF OneChain
<1> QED
  BY <1>1, <1>3, <1>4, <1>5, <1>6, <1>7, <1>8


-----------------------------------------------------------------------------
(* What each change of the directory means to the pruner and the reader.   *)

\* A step that leaves the directory alone keeps what is said of the files.
LEMMA SameFiles ==
  ASSUME SegInv, UNCHANGED << segs, removed >>
  PROVE  Held' = Held /\ Recorded' = Recorded /\ Numbered' /\ Adjoining' /\ OneChain'
<1>1. Held' = Held
  BY DEF Held
<1>2. Recorded' = Recorded
  BY <1>1 DEF Recorded
<1> QED
  BY <1>1, <1>2 DEF SegInv, Numbered, Adjoining, OneChain

\* One that leaves the pruner alone too keeps what is said of it.
LEMMA SamePruner ==
  ASSUME SegInv, UNCHANGED << segs, pruneVars >>
  PROVE  Pruning' /\ Anchored'
<1>1. Held' = Held
  BY DEF Held
<1> QED
  BY <1>1 DEF SegInv, Pruning, Anchored, AnchorAt, pruneVars

\* And one that leaves the reader alone what is said of the reader.
LEMMA SameReader ==
  ASSUME SegInv, UNCHANGED << segs, removed, readVars >>
  PROVE  Reading' /\ (Covering => Covering')
<1>1. Recorded' = Recorded
  BY SameFiles
<1>2. Reading'
  BY <1>1 DEF SegInv, Reading, readVars
<1>3. Covering => Covering'
  BY DEF Covering, readVars
<1> QED
  BY <1>2, <1>3

\* A new last file is in nobody's listing.
LEMMA NewFileOthers ==
  ASSUME TypeOK, SegInv, NEW K \in Nat, K >= 1, K \notin DOMAIN segs,
         \A k \in DOMAIN segs : k < K,
         DOMAIN segs = {} => K = 1,
         DOMAIN segs' = DOMAIN segs \cup {K},
         segs'[K] = << >>, \A k \in DOMAIN segs : segs'[k] = segs[k],
         Held' = Held, UNCHANGED << pruneVars, readVars >>
  PROVE  Pruning' /\ Anchored' /\ Fresh' /\ Reading' /\ (Covering => Covering')
<1>0. DOMAIN segs \subseteq Nat /\ rlist \subseteq Nat
  BY DEF TypeOK, SegTypeOK
<1>1. UNCHANGED << pruner, plist, boundary, cutoff, deleted_any, anchor, removed, unanchored, rd, rlist, rout, rfloor >>
  BY DEF pruneVars, readVars
<1>2. Pruning'
  BY <1>1 DEF SegInv, Pruning
<1>3. Fresh'
  BY <1>1 DEF Fresh
<1>4. Anchored'
  <2>1. deleted_any => DOMAIN segs # {}
    BY DEF SegInv, Anchored, Pruning, Held
  <2>2. deleted_any => K > 1
    <3> SUFFICES ASSUME deleted_any PROVE K > 1
      OBVIOUS
    <3>1. PICK k \in DOMAIN segs : TRUE
      BY <2>1
    <3> QED
      BY <1>0, <3>1 DEF SegInv, Anchored
  <2>3. ASSUME ~unanchored, ~deleted_any, NEW k \in DOMAIN segs', IsFirst(k, DOMAIN segs')
        PROVE  AnchorAt(k)'
    <3>1. CASE k \in DOMAIN segs
      <4>1. IsFirst(k, DOMAIN segs)
        BY <2>3, <3>1 DEF IsFirst
      <4>2. AnchorAt(k)
        BY <2>3, <4>1 DEF SegInv, Anchored, IsFirst
      <4> QED
        BY <1>1, <3>1, <4>2 DEF AnchorAt
    <3>2. CASE k \notin DOMAIN segs
      <4>1. k = K
        BY <3>2
      <4>2. \A j \in DOMAIN segs : j \in Nat /\ j < K /\ K <= j
        BY <1>0, <2>3, <4>1 DEF IsFirst
      <4>3. DOMAIN segs = {}
        BY <4>2
      <4> QED
        BY <1>1, <4>1, <4>3 DEF SegInv, Fresh, AnchorAt
    <3> QED
      BY <3>1, <3>2
  <2>4. deleted_any' => pruner' = "deleting" /\ \A k \in DOMAIN segs' : k > 1
    BY <1>1, <2>2 DEF SegInv, Anchored
  <2> QED
    BY <1>1, <2>3, <2>4 DEF Anchored
<1>5. rd \in Reader \cup {"ok"} => K \notin rlist /\ \A j \in rlist : j < K
  <2> SUFFICES ASSUME rd \in Reader, NEW j \in rlist PROVE j < K
    BY <1>0 DEF SegInv, Reading
  <2>1. PICK k \in DOMAIN segs : TRUE
    BY DEF SegInv, Fresh
  <2>2. j \in DOMAIN segs \/ j < k
    BY <2>1 DEF SegInv, Reading
  <2> QED
    BY <1>0, <2>1, <2>2
<1>6. Reading'
  <2>1. Recorded' = Recorded
    BY <1>1 DEF Recorded
  <2>2. rd' \in Reader \cup {"ok"} =>
          /\ \A i \in DOMAIN rout' : rout'[i] \in Recorded'
          /\ \A i \in 2..Len(rout') : rout'[i].seq = rout'[i - 1].seq + 1
    BY <1>1, <2>1 DEF SegInv, Reading
  <2>3. ASSUME rd \in Reader
        PROVE  /\ \A j \in rlist : j \in DOMAIN segs' \/ \A k \in DOMAIN segs' : j < k
               /\ \A j, k \in rlist : \A n \in DOMAIN segs' : j < n /\ n < k => n \in rlist
    <3>1. \A j \in rlist : j \in DOMAIN segs' \/ \A k \in DOMAIN segs' : j < k
      BY <1>5, <2>3 DEF SegInv, Reading
    <3>2. ASSUME NEW j \in rlist, NEW k \in rlist, NEW n \in DOMAIN segs', j < n, n < k PROVE n \in rlist
      BY <1>0, <1>5, <2>3, <3>2 DEF SegInv, Reading
    <3> QED
      BY <3>1, <3>2
  <2> QED
    BY <1>1, <2>2, <2>3 DEF SegInv, Reading
<1>7. ASSUME Covering PROVE Covering'
  <2> SUFFICES ASSUME rd \in Reader \cup {"ok"}, rfloor > 0
               PROVE  /\ rlist = {} => rout # << >> /\ rout[Len(rout)].seq >= rfloor
                      /\ \A m \in rlist : IsLast(m, rlist) /\ m \in DOMAIN segs' =>
                           /\ m + Len(segs'[m]) > rfloor
                           /\ segs'[m] # << >> \/ rout # << >> \/ \E p \in rlist : p < m
    BY <1>1 DEF Covering
  <2>1. rlist = {} => rout # << >> /\ rout[Len(rout)].seq >= rfloor
    BY <1>7 DEF Covering
  <2>2. ASSUME NEW m \in rlist, IsLast(m, rlist), m \in DOMAIN segs'
        PROVE  /\ m + Len(segs'[m]) > rfloor
               /\ segs'[m] # << >> \/ rout # << >> \/ \E p \in rlist : p < m
    <3>1. CASE m \in DOMAIN segs
      BY <1>7, <2>2, <3>1 DEF Covering
    <3>2. CASE m \notin DOMAIN segs
      <4>1. m = K
        BY <2>2, <3>2
      <4> QED
        BY <1>5, <4>1
    <3> QED
      BY <3>1, <3>2
  <2> QED
    BY <2>1, <2>2
<1> QED
  BY <1>2, <1>3, <1>4, <1>6, <1>7


\* The first file is empty only if it is the one a fresh log begins with.
LEMMA FirstFilled ==
  ASSUME SegTypeOK, Numbered, Adjoining, NEW k \in DOMAIN segs, IsFirst(k, DOMAIN segs), k # 1
  PROVE  segs[k] # << >> /\ Len(segs[k]) >= 1 /\ segs[k][1].seq = k
<1>0. /\ k \in Nat /\ k >= 1 /\ Len(segs[k]) \in Nat /\ (segs[k] = << >> <=> Len(segs[k]) = 0)
      /\ \A i \in 1..Len(segs[k]) : segs[k][i].seq = k + i - 1
  BY Within
<1>1. ASSUME NEW e \in Held PROVE e.seq # k - 1
  <2>1. PICK j \in DOMAIN segs : j <= e.seq
    BY FileOf
  <2>2. j \in Nat /\ k <= j
    BY Within DEF IsFirst
  <2> QED
    BY <1>0, <2>1, <2>2
<1>2. segs[k] # << >>
  BY <1>1 DEF Adjoining
<1> QED
  BY <1>0, <1>2

\* An entry more in the last file disturbs neither pruner nor reader.
LEMMA GrowOthers ==
  ASSUME TypeOK, SegInv, NEW C \in DOMAIN segs,
         NEW f \in AuditEntry, \A e \in Recorded : e.seq < f.seq,
         DOMAIN segs' = DOMAIN segs, segs'[C] = Append(segs[C], f),
         \A k \in DOMAIN segs : k # C => segs'[k] = segs[k],
         Held' = Held \cup {f}, UNCHANGED << pruneVars, readVars >>
  PROVE  Pruning' /\ Anchored' /\ Fresh' /\ Reading' /\ (Covering => Covering')
<1>0. /\ DOMAIN segs \subseteq Nat /\ rlist \subseteq Nat /\ SegTypeOK /\ Numbered /\ Adjoining
      /\ boundary \in Nat /\ f.seq \in Nat /\ \A e \in Recorded : e.seq \in Nat
  BY RecordedType DEF TypeOK, SegTypeOK, SegInv, AuditEntry
<1>1. UNCHANGED << pruner, plist, boundary, cutoff, deleted_any, anchor, removed, unanchored, rd, rlist, rout, rfloor >>
  BY DEF pruneVars, readVars
<1>2. Held \subseteq Recorded /\ Recorded \subseteq Recorded'
  BY <1>1 DEF Recorded
<1>3. ASSUME NEW k \in DOMAIN segs
      PROVE  /\ Len(segs[k]) \in Nat /\ Len(segs'[k]) \in Nat /\ Len(segs[k]) <= Len(segs'[k])
             /\ segs[k] # << >> => segs'[k] # << >> /\ segs'[k][1] = segs[k][1]
  <2>1. segs[k] \in Seq(AuditEntry)
    BY <1>0 DEF SegTypeOK
  <2>2. CASE k = C
    <3>1. /\ Append(segs[k], f) \in Seq(AuditEntry) /\ Len(Append(segs[k], f)) = Len(segs[k]) + 1
          /\ segs[k] # << >> => Append(segs[k], f)[1] = segs[k][1]
          /\ Append(segs[k], f) # << >> /\ Len(segs[k]) \in Nat
      BY <2>1
    <3> QED
      BY <2>2, <3>1
  <2>3. CASE k # C
    BY <2>1, <2>3
  <2> QED
    BY <2>2, <2>3
<1>4. Pruning'
  <2> SUFFICES ASSUME pruner = "deleting" PROVE Pruning'
    BY <1>1 DEF Pruning
  <2>1. PICK e \in Held : boundary <= e.seq
    BY DEF SegInv, Pruning
  <2>2. ~(f.seq < boundary)
    BY <1>0, <1>2, <2>1
  <2> QED
    BY <1>1, <2>1, <2>2 DEF SegInv, Pruning
<1>5. Fresh'
  BY <1>1 DEF SegInv, Fresh
<1>6. Anchored'
  <2>1. ASSUME ~unanchored, ~deleted_any, NEW k \in DOMAIN segs, IsFirst(k, DOMAIN segs) PROVE AnchorAt(k)'
    <3>1. AnchorAt(k)
      BY <2>1 DEF SegInv, Anchored
    <3>2. k # 1 => segs'[k][1] = segs[k][1]
      BY <1>0, <1>3, <2>1, FirstFilled
    <3> QED
      BY <1>1, <3>1, <3>2 DEF AnchorAt
  <2> QED
    BY <1>1, <2>1 DEF SegInv, Anchored
<1>7. Reading'
  BY <1>1, <1>2 DEF SegInv, Reading
<1>8. ASSUME Covering PROVE Covering'
  <2> SUFFICES ASSUME rd \in Reader \cup {"ok"}, rfloor > 0
               PROVE  /\ rlist = {} => rout # << >> /\ rout[Len(rout)].seq >= rfloor
                      /\ \A m \in rlist : IsLast(m, rlist) /\ m \in DOMAIN segs =>
                           /\ m + Len(segs'[m]) > rfloor
                           /\ segs'[m] # << >> \/ rout # << >> \/ \E p \in rlist : p < m
    BY <1>1 DEF Covering
  <2>1. rlist = {} => rout # << >> /\ rout[Len(rout)].seq >= rfloor
    BY <1>8 DEF Covering
  <2>2. ASSUME NEW m \in rlist, IsLast(m, rlist), m \in DOMAIN segs
        PROVE  /\ m + Len(segs'[m]) > rfloor
               /\ segs'[m] # << >> \/ rout # << >> \/ \E p \in rlist : p < m
    <3>1. /\ m + Len(segs[m]) > rfloor
          /\ segs[m] # << >> \/ rout # << >> \/ \E p \in rlist : p < m
      BY <1>8, <2>2 DEF Covering
    <3>2. rfloor \in Nat /\ m \in Nat
      BY <1>0 DEF TypeOK
    <3> QED
      BY <1>3, <2>2, <3>1, <3>2
  <2> QED
    BY <2>1, <2>2
<1> QED
  BY <1>4, <1>5, <1>6, <1>7, <1>8

\* What the loop deletes is the directory's first file, and the next one,
\* which the boundary has reached, has entries.
LEMMA DeletableFirst ==
  ASSUME TypeOK, SegInv, pruner = "deleting", NEW k \in plist, NEW n \in plist,
         IsFirst(k, plist), IsFirst(n, plist \ {k}), n <= boundary
  PROVE  /\ k \in DOMAIN segs /\ IsFirst(k, DOMAIN segs)
         /\ n \in DOMAIN segs /\ IsFirst(n, DOMAIN segs \ {k}) /\ segs[n] # << >>
         /\ k < n
<1>0. /\ SegTypeOK /\ Numbered /\ Adjoining /\ boundary \in Nat
      /\ \A j \in DOMAIN segs : j \in Nat /\ Len(segs[j]) \in Nat /\ (segs[j] = << >> <=> Len(segs[j]) = 0)
  BY Within DEF TypeOK, SegInv
<1>1. /\ plist \subseteq DOMAIN segs
      /\ \A i \in DOMAIN segs \ plist : \A j \in plist : j < i
  BY DEF SegInv, Pruning
<1>2. k \in DOMAIN segs /\ n \in DOMAIN segs /\ k \in Nat /\ n \in Nat /\ k < n
  BY <1>0, <1>1 DEF IsFirst
<1>3. IsFirst(k, DOMAIN segs) /\ IsFirst(n, DOMAIN segs \ {k})
  <2>1. ASSUME NEW j \in DOMAIN segs PROVE k <= j
    BY <1>0, <1>1, <1>2 DEF IsFirst
  <2>2. ASSUME NEW j \in DOMAIN segs \ {k} PROVE n <= j
    BY <1>0, <1>1, <1>2 DEF IsFirst
  <2> QED
    BY <1>2, <2>1, <2>2 DEF IsFirst
<1>4. segs[n] # << >>
  <2>1. PICK e \in Held : boundary <= e.seq
    BY DEF SegInv, Pruning
  <2>2. PICK p \in DOMAIN segs : p <= e.seq /\ e.seq < p + Len(segs[p])
    BY <1>0, FileOf
  <2>3. e.seq \in Nat
    BY <1>0, HeldType DEF AuditEntry
  <2>4. CASE p = n
    BY <1>0, <2>2, <2>3, <2>4
  <2>5. CASE n < p
    BY <1>0, <1>2, <2>5, NotLastFilled
  <2>6. CASE p < n
    <3>1. p + Len(segs[p]) <= n
      BY <1>0, <1>2, <2>6 DEF Adjoining
    <3> QED
      BY <1>0, <1>2, <2>1, <2>2, <2>3, <3>1
  <2> QED
    BY <1>0, <1>2, <2>4, <2>5, <2>6
<1> QED
  BY <1>2, <1>3, <1>4


-----------------------------------------------------------------------------
(* The pruner's steps.                                                     *)

\* A turn of the loop deletes only what the prune was asked to delete.
LEMMA DeleteStep ==
  ASSUME TypeOK, SegInv, PruneDelete, UNCHANGED << engineVars, readVars >>
  PROVE  /\ SegInv' /\ (Covering => Covering')
         /\ \A e \in removed' \ removed : e.seq < boundary /\ (cutoff # NoCutoff => e.timestamp < cutoff)
<1>1. /\ pruner = "deleting" /\ deleted_any' = TRUE
      /\ UNCHANGED << pruner, boundary, cutoff, anchor, unanchored, max_entries, cur_first, cur_count >>
      /\ UNCHANGED << rd, rlist, rout, rfloor >>
      /\ UNCHANGED << up, reply, writer, entry, seq, prev_hash, acked >>
  BY DEF PruneDelete, engineVars, readVars
<1>2. PICK k \in plist : /\ Deletable(k)
                         /\ segs' = [j \in DOMAIN segs \ {k} |-> segs[j]]
                         /\ removed' = removed \cup Range(segs[k])
                         /\ plist' = plist \ {k}
  BY DEF PruneDelete
<1>3. PICK n \in plist : IsFirst(n, plist \ {k}) /\ n <= boundary
  BY <1>2 DEF Deletable
<1>4. /\ k \in DOMAIN segs /\ IsFirst(k, DOMAIN segs)
      /\ n \in DOMAIN segs /\ IsFirst(n, DOMAIN segs \ {k}) /\ segs[n] # << >> /\ k < n
  BY <1>1, <1>2, <1>3, DeletableFirst DEF Deletable
<1>5. /\ SegTypeOK /\ Numbered /\ Adjoining /\ OneChain /\ boundary \in Nat
      /\ \A j \in DOMAIN segs : j \in Nat /\ j >= 1
      /\ \A e \in Held : e.seq \in Nat
  <2>1. SegTypeOK /\ Numbered /\ Adjoining /\ OneChain /\ boundary \in Nat
    BY DEF TypeOK, SegInv
  <2> QED
    BY <2>1, Within, RecordedType DEF Recorded
<1>6. /\ DOMAIN segs' = DOMAIN segs \ {k} /\ \A j \in DOMAIN segs' : segs'[j] = segs[j]
      /\ Recorded' = Recorded /\ Held' \subseteq Held
      /\ \A e \in Held : e.seq >= n => e \in Held'
      /\ \A e \in removed' \ removed : e \in Held /\ e.seq < n
      /\ Numbered' /\ Adjoining' /\ OneChain'
  BY <1>2, <1>4, <1>5, Cut
<1>7. /\ plist \subseteq DOMAIN segs
      /\ \A i \in DOMAIN segs \ plist : \A j \in plist : j < i
      /\ cutoff # NoCutoff => \A e \in Held : e.seq < boundary => e.timestamp < cutoff
  BY <1>1 DEF SegInv, Pruning
<1>8. Pruning'
  <2>1. PICK e \in Held : boundary <= e.seq
    BY <1>1 DEF SegInv, Pruning
  <2>2. e \in Held'
    BY <1>3, <1>4, <1>5, <1>6, <2>1
  <2> QED
    BY <1>1, <1>2, <1>6, <1>7, <2>1, <2>2 DEF Pruning
<1>9. Anchored'
  <2>1. \A j \in DOMAIN segs' : j > 1
    BY <1>4, <1>5, <1>6 DEF IsFirst
  <2> QED
    BY <1>1, <2>1 DEF Anchored
<1>10. Fresh'
  BY <1>4, <1>6 DEF Fresh
<1>11. AtTail'
  <2> SUFFICES ASSUME up PROVE AtTail'
    BY <1>1 DEF SegInv, AtTail
  <2>1. IsLast(cur_first, DOMAIN segs')
    BY <1>4, <1>5, <1>6 DEF SegInv, AtTail, IsLast
  <2>2. segs'[cur_first] = segs[cur_first]
    BY <1>6, <2>1 DEF IsLast
  <2> QED
    BY <1>1, <1>6, <2>1, <2>2 DEF SegInv, AtTail
<1>12. Receipts'
  BY <1>1, <1>6 DEF SegInv, Receipts
<1>13. Reading'
  <2>1. ASSUME rd \in Reader, NEW j \in rlist PROVE j \in DOMAIN segs' \/ \A i \in DOMAIN segs' : j < i
    <3>1. CASE j = k
      BY <1>4, <1>5, <1>6, <3>1 DEF IsFirst
    <3>2. CASE j # k
      BY <1>6, <2>1, <3>2 DEF SegInv, Reading
    <3> QED
      BY <3>1, <3>2
  <2> QED
    BY <1>1, <1>6, <2>1 DEF SegInv, Reading
<1>14. Covering => Covering'
  BY <1>1, <1>6 DEF Covering
<1>15. \A e \in removed' \ removed : e.seq < boundary /\ (cutoff # NoCutoff => e.timestamp < cutoff)
  <2> SUFFICES ASSUME NEW e \in removed' \ removed
               PROVE  e.seq < boundary /\ (cutoff # NoCutoff => e.timestamp < cutoff)
    OBVIOUS
  <2>1. e \in Held /\ e.seq < n
    BY <1>6
  <2>2. e.seq < boundary
    BY <1>3, <1>4, <1>5, <2>1
  <2> QED
    BY <1>7, <2>1, <2>2
<1> QED
  BY <1>6, <1>8, <1>9, <1>10, <1>11, <1>12, <1>13, <1>14, <1>15 DEF SegInv

\* A step that touches only the pruner's own variables.
LEMMA PrunerOnly ==
  ASSUME TypeOK, SegInv, UNCHANGED << engineVars, segVars, readVars, removed >>,
         Pruning', Anchored', DOMAIN segs = {} => anchor' = NoAnchor
  PROVE  SegInv' /\ (Covering => Covering')
<1>1. UNCHANGED << segs, max_entries, cur_first, cur_count, up, reply, writer, entry, seq, prev_hash, acked, rlist >>
  BY DEF engineVars, segVars, readVars
<1>2. Held' = Held /\ Recorded' = Recorded /\ Numbered' /\ Adjoining' /\ OneChain'
  BY <1>1, SameFiles
<1>3. AtTail' /\ Receipts'
  BY <1>1, <1>2 DEF SegInv, AtTail, Receipts
<1>4. Reading' /\ (Covering => Covering')
  BY <1>1, SameReader
<1>5. Fresh'
  BY <1>1 DEF SegInv, Fresh
<1> QED
  BY <1>2, <1>3, <1>4, <1>5 DEF SegInv

\* A prune begins: its boundary is not beyond the head.
LEMMA ListStep ==
  ASSUME TypeOK, SegInv, NEW b \in Nat, NEW c, PruneList(b, c),
         UNCHANGED << engineVars, segVars, readVars >>,
         \E e \in Held : b <= e.seq,
         c # NoCutoff => \A e \in Held : e.seq < b => e.timestamp < c
  PROVE  SegInv' /\ (Covering => Covering')
<1>1. /\ pruner = "idle" /\ pruner' = "deleting" /\ plist' = DOMAIN segs /\ boundary' = b /\ cutoff' = c
      /\ deleted_any' = FALSE /\ UNCHANGED << anchor, removed, unanchored, segs >>
  BY DEF PruneList, list_segments, segVars
<1>2. Held' = Held
  BY <1>1 DEF Held
<1>3. Pruning'
  BY <1>1, <1>2 DEF Pruning
<1>4. ~deleted_any
  BY <1>1 DEF SegInv, Anchored
<1>5. Anchored'
  BY <1>1, <1>4 DEF SegInv, Anchored, AnchorAt
<1> QED
  BY <1>1, <1>3, <1>5, PrunerOnly DEF SegInv, Fresh

\* prune_before of a boundary an operator has seen.
LEMMA BeforeStep ==
  ASSUME BeyondHead = FALSE, TypeOK, SegInv, NEW b \in 1..(MaxRecords + 1), prune_before(b),
         UNCHANGED << engineVars, segVars, readVars >>
  PROVE  SegInv' /\ (Covering => Covering')
<1>0. b \in Nat /\ b >= 1
  BY MaxRecordsAssumption
<1> DEFINE es == read_all_segmented
<1>1. es \in Seq(AuditEntry) /\ \A i \in 1..Len(es) : es[i] \in Held
  BY ReadAll DEF TypeOK, SegInv
<1>2. b <= LogHead /\ PruneList(b, NoCutoff)
  BY DEF prune_before
<1>3. LogHead = IF es = << >> THEN 0 ELSE es[Len(es)].seq
  BY DEF LogHead
<1> HIDE DEF es
<1>4. es # << >> /\ b <= es[Len(es)].seq
  BY <1>0, <1>2, <1>3
<1>5. es[Len(es)] \in Held
  BY <1>1, <1>4
<1> QED
  BY <1>0, <1>2, <1>4, <1>5, ListStep

\* prune_before_timestamp: everything below the entry it found is older.
LEMMA TimestampStep ==
  ASSUME TypeOK, SegInv, NEW c \in Time, prune_before_timestamp(c),
         UNCHANGED << engineVars, segVars, readVars >>
  PROVE  SegInv' /\ (Covering => Covering')
<1> DEFINE es == read_all_segmented
<1>1. /\ es \in Seq(AuditEntry) /\ \A i \in 1..Len(es) : es[i] \in Held
      /\ \A e \in Held : \E i \in 1..Len(es) : es[i] = e
      /\ \A F \in DOMAIN segs : IsFirst(F, DOMAIN segs) => \A i \in 1..Len(es) : es[i].seq = F + i - 1
  BY ReadAll DEF TypeOK, SegInv
<1>2. PICK i \in DOMAIN es : FirstNotOlder(i, es, c) /\ PruneList(es[i].seq, c)
  BY DEF prune_before_timestamp
<1> HIDE DEF es
<1>3. i \in 1..Len(es) /\ Len(es) \in Nat /\ es[i] \in AuditEntry
  BY <1>1
<1>4. es[i] \in Held /\ es[i].seq \in Nat
  BY <1>1, <1>3 DEF AuditEntry
<1>5. PICK F \in DOMAIN segs : IsFirst(F, DOMAIN segs)
  <2>1. DOMAIN segs # {} /\ DOMAIN segs \subseteq Nat
    BY <1>4 DEF Held, TypeOK, SegTypeOK
  <2> QED
    BY <2>1, HasFirst
<1>6. F \in Nat
  BY DEF TypeOK, SegTypeOK
<1>7. ASSUME NEW e \in Held, e.seq < es[i].seq PROVE e.timestamp < c
  <2>1. PICK j \in 1..Len(es) : es[j] = e
    BY <1>1
  <2>2. es[j].seq = F + j - 1 /\ es[i].seq = F + i - 1
    BY <1>1, <1>3, <1>5
  <2>3. j \in 1..(i - 1)
    BY <1>3, <1>6, <1>7, <2>1, <2>2
  <2> QED
    BY <1>2, <2>1, <2>3 DEF FirstNotOlder
<1>8. es[i].seq <= es[i].seq
  BY <1>4
<1> QED
  BY <1>2, <1>4, <1>7, <1>8, ListStep

\* A prune returns: if it deleted anything, its anchor is where the log now
\* begins.
LEMMA DoneStep ==
  ASSUME TypeOK, SegInv, PruneDone, UNCHANGED << engineVars, segVars, readVars >>
  PROVE  SegInv' /\ (Covering => Covering')
<1>1. /\ pruner' = "idle" /\ deleted_any' = FALSE /\ UNCHANGED << removed, segs >>
  BY DEF PruneDone, segVars
<1>2. PICK k \in DOMAIN segs :
        /\ IsFirst(k, DOMAIN segs)
        /\ anchor' = IF NewAnchor(k).some THEN NewAnchor(k) ELSE anchor
        /\ unanchored' = (unanchored /\ ~NewAnchor(k).some)
  BY DEF PruneDone
<1>3. Pruning'
  BY <1>1 DEF Pruning
<1>4. SegTypeOK /\ Numbered /\ Adjoining /\ \A j \in DOMAIN segs : j \in Nat
  BY DEF TypeOK, SegTypeOK, SegInv
<1>5. ASSUME NEW j \in DOMAIN segs, IsFirst(j, DOMAIN segs) PROVE j = k
  BY <1>2, <1>4, <1>5 DEF IsFirst
<1>6. ~unanchored' => AnchorAt(k)'
  <2> SUFFICES ASSUME ~unanchored' PROVE AnchorAt(k)'
    OBVIOUS
  <2>1. CASE deleted_any
    <3>1. k # 1 /\ k > 1
      BY <1>4, <2>1 DEF SegInv, Anchored
    <3>2. segs[k] # << >> /\ segs[k][1].seq = k
      BY <1>2, <1>4, <3>1, FirstFilled
    <3>3. NewAnchor(k) = SomeAnchor(k - 1, segs[k][1].prev_hash)
      BY <2>1, <3>1, <3>2 DEF NewAnchor
    <3>4. anchor' = SomeAnchor(k - 1, segs[k][1].prev_hash)
      BY <1>2, <3>3 DEF SomeAnchor
    <3> QED
      BY <1>1, <3>1, <3>4 DEF AnchorAt
  <2>2. CASE ~deleted_any
    <3>1. NewAnchor(k) = NoAnchor /\ ~NewAnchor(k).some
      BY <2>2 DEF NewAnchor, NoAnchor
    <3>2. anchor' = anchor /\ ~unanchored
      BY <1>2, <3>1
    <3>3. AnchorAt(k)
      BY <1>2, <2>2, <3>2 DEF SegInv, Anchored
    <3> QED
      BY <1>1, <3>2, <3>3 DEF AnchorAt
  <2> QED
    BY <2>1, <2>2
<1>7. Anchored'
  BY <1>1, <1>5, <1>6 DEF Anchored
<1> QED
  BY <1>1, <1>2, <1>3, <1>7, PrunerOnly

\* A prune that dies after deleting leaves the log without an anchor.
LEMMA FailsStep ==
  ASSUME TypeOK, SegInv, PruneFails, UNCHANGED << engineVars, segVars, readVars >>
  PROVE  SegInv' /\ (Covering => Covering')
<1>1. /\ pruner' = "idle" /\ deleted_any' = FALSE /\ unanchored' = (unanchored \/ deleted_any)
      /\ UNCHANGED << anchor, removed, segs >>
  BY DEF PruneFails, segVars
<1>2. Pruning'
  BY <1>1 DEF Pruning
<1>3. Anchored'
  BY <1>1 DEF SegInv, Anchored, AnchorAt
<1> QED
  BY <1>1, <1>2, <1>3, PrunerOnly DEF SegInv, Fresh

\* Whatever the pruner does.
LEMMA PruneSteps ==
  ASSUME BeyondHead = FALSE, TypeOK, SegInv, PruneStep
  PROVE  /\ SegInv' /\ (Covering => Covering')
         /\ \A e \in removed' \ removed : e.seq < boundary /\ (cutoff # NoCutoff => e.timestamp < cutoff)
<1>0. UNCHANGED << engineVars, readVars >>
  BY DEF PruneStep
<1>1. CASE PruneDelete
  BY <1>0, <1>1, DeleteStep
<1>2. CASE ~PruneDelete
  <2>1. UNCHANGED segVars
    BY <1>2 DEF PruneStep
  <2>2. removed' = removed
    BY <1>2 DEF PruneStep, prune_before, prune_before_timestamp, PruneList, PruneDone, PruneFails
  <2> QED
    BY <1>0, <1>2, <2>1, <2>2, BeforeStep, TimestampStep, DoneStep, FailsStep DEF PruneStep
<1> QED
  BY <1>1, <1>2


-----------------------------------------------------------------------------
(* The reader's steps.                                                     *)

\* A step that touches only the reader's own variables.
LEMMA ReaderOnly ==
  ASSUME TypeOK, SegInv, UNCHANGED << engineVars, segVars, pruneVars >>,
         Reading', DOMAIN segs = {} => rlist' = {}
  PROVE  SegInv'
<1>1. /\ UNCHANGED << segs, max_entries, cur_first, cur_count, up, reply, writer, entry, seq, prev_hash, acked >>
      /\ UNCHANGED << removed, anchor >>
  BY DEF engineVars, segVars, pruneVars
<1>2. Held' = Held /\ Recorded' = Recorded /\ Numbered' /\ Adjoining' /\ OneChain'
  BY <1>1, SameFiles
<1>3. AtTail' /\ Receipts'
  BY <1>1, <1>2 DEF SegInv, AtTail, Receipts
<1>4. Pruning' /\ Anchored'
  BY <1>1, SamePruner
<1>5. Fresh'
  BY <1>1 DEF SegInv, Fresh
<1> QED
  BY <1>2, <1>3, <1>4, <1>5 DEF SegInv

\* The reader lists the directory, whose last file ends behind everything
\* acknowledged.
LEMMA ReadListStep ==
  ASSUME TypeOK, SegInv, NEW who \in Reader, ReadList(who),
         UNCHANGED << engineVars, segVars, pruneVars >>
  PROVE  SegInv' /\ Covering'
<1>1. /\ rd' = who /\ rlist' = DOMAIN segs /\ rout' = << >> /\ segs' = segs /\ removed' = removed
  BY DEF ReadList, list_segments, segVars, pruneVars
<1>2. /\ SegTypeOK /\ Numbered /\ Adjoining /\ OneChain /\ \A k \in DOMAIN segs : k \in Nat
      /\ DOMAIN segs \subseteq Nat /\ IsFiniteSet(DOMAIN segs)
  BY DEF TypeOK, SegTypeOK, SegInv
<1>3. who # "ok" /\ who # "err" /\ who # "idle"
  BY SegAssumption
<1>4. Reading'
  <2>1. DOMAIN << >> = {} /\ 2..Len(<< >>) = {}
    OBVIOUS
  <2> QED
    BY <1>1, <1>3, <2>1 DEF Reading
<1>5. PICK n \in AckedSeqs \cup {0} : rfloor' = n
  BY DEF ReadList
<1>6. ASSUME n > 0, rfloor' \in Nat
      PROVE  /\ DOMAIN segs # {}
             /\ \A m \in DOMAIN segs : IsLast(m, DOMAIN segs) =>
                  m + Len(segs[m]) > n /\ (segs[m] # << >> \/ \E p \in DOMAIN segs : p < m)
  <2>1. PICK r \in acked : r.seq = n
    BY <1>6 DEF AckedSeqs
  <2>2. PICK e \in Recorded : ReceiptOf(e) = r
    BY <2>1 DEF SegInv, Receipts
  <2>3. e.seq = n /\ n \in Nat
    BY <1>5, <1>6, <2>1, <2>2 DEF ReceiptOf
  <2>4. DOMAIN segs # {}
    BY <2>2 DEF SegInv, Fresh, Recorded, Held
  <2>5. ASSUME NEW m \in DOMAIN segs, IsLast(m, DOMAIN segs)
        PROVE  m + Len(segs[m]) > n /\ (segs[m] # << >> \/ \E p \in DOMAIN segs : p < m)
    <3>0. m \in Nat /\ Len(segs[m]) \in Nat /\ (segs[m] = << >> <=> Len(segs[m]) = 0)
      BY <1>2, Within
    <3>1. m + Len(segs[m]) > n
      <4>1. CASE e \in removed
        <5>1. e.seq < m
          BY <1>2, <4>1 DEF OneChain
        <5> QED
          BY <2>3, <3>0, <5>1
      <4>2. CASE e \in Held
        <5>1. PICK p \in DOMAIN segs : e.seq < p + Len(segs[p])
          BY <1>2, <4>2, FileOf
        <5>2. p \in Nat /\ Len(segs[p]) \in Nat /\ p <= m
          BY <1>2, <2>5, Within DEF IsLast
        <5>3. p < m => p + Len(segs[p]) <= m
          BY <1>2 DEF Adjoining
        <5> QED
          BY <2>3, <3>0, <5>1, <5>2, <5>3
      <4> QED
        BY <2>2, <4>1, <4>2 DEF Recorded
    <3>2. ASSUME ~ \E p \in DOMAIN segs : p < m PROVE segs[m] # << >>
      <4>1. IsFirst(m, DOMAIN segs)
        BY <1>2, <3>0, <3>2 DEF IsFirst
      <4>2. m # 1 => segs[m] # << >>
        BY <1>2, <4>1, FirstFilled
      <4>3. m = 1 => Len(segs[m]) # 0
        BY <1>6, <2>3, <3>0, <3>1
      <4> QED
        BY <3>0, <4>2, <4>3
    <3> QED
      BY <3>1, <3>2
  <2> QED
    BY <2>4, <2>5
<1>7. rfloor' \in Nat
  <2>1. \A x \in AckedSeqs : x \in Nat
    BY DEF AckedSeqs, Receipt, TypeOK, EngineTypeOK
  <2> QED
    BY <1>5, <2>1
<1>8. Covering'
  BY <1>1, <1>5, <1>6, <1>7 DEF Covering
<1> QED
  BY <1>1, <1>4, <1>8, ReaderOnly

\* The next file of the listing continues what was read.
LEMMA ReadFileStep ==
  ASSUME TypeOK, SegInv, rd \in Reader, NEW k \in rlist, IsFirst(k, rlist), k \in DOMAIN segs,
         rout' = rout \o segs[k], rlist' = rlist \ {k}, UNCHANGED << rd, rfloor >>,
         UNCHANGED << engineVars, segVars, pruneVars >>
  PROVE  SegInv' /\ (Covering => Covering')
<1>0. /\ SegTypeOK /\ Numbered /\ Adjoining /\ \A j \in DOMAIN segs : j \in Nat
      /\ rlist \subseteq Nat /\ rout \in Seq(AuditEntry) /\ segs[k] \in Seq(AuditEntry) /\ rfloor \in Nat
  BY DEF TypeOK, SegTypeOK, SegInv
<1>1. UNCHANGED << segs, removed >>
  BY DEF segVars, pruneVars
<1>2. Recorded' = Recorded /\ Held \subseteq Recorded
  BY <1>1, SameFiles DEF Recorded
<1>3. /\ Len(segs[k]) \in Nat /\ (segs[k] = << >> <=> Len(segs[k]) = 0) /\ k \in Nat
      /\ \A i \in 1..Len(segs[k]) : segs[k][i] \in Held /\ segs[k][i].seq = k + i - 1
  BY <1>0, Within
<1> DEFINE N == Len(rout)
           M == Len(segs[k])
<1>4. /\ rout' \in Seq(AuditEntry) /\ Len(rout') = N + M /\ N \in Nat
      /\ \A i \in 1..N : rout'[i] = rout[i]
      /\ \A i \in 1..M : rout'[N + i] = segs[k][i]
  BY <1>0, ConcatProperties
<1>5. /\ \A i \in 1..N : rout[i] \in Recorded
      /\ \A i \in 2..N : rout[i].seq = rout[i - 1].seq + 1
      /\ N # 0 => k = rout[N].seq + 1
      /\ \A j \in rlist : j \in DOMAIN segs \/ \A i \in DOMAIN segs : j < i
      /\ \A j, i \in rlist : \A n \in DOMAIN segs : j < n /\ n < i => n \in rlist
  <2>1. DOMAIN rout = 1..N /\ (rout = << >> <=> N = 0)
    BY <1>0
  <2> QED
    BY <2>1 DEF SegInv, Reading
<1>6. rout' = << >> <=> N + M = 0
  BY <1>4
<1> HIDE DEF N, M
<1>7. M \in Nat /\ N \in Nat
  BY <1>3, <1>4 DEF M
<1>8. ASSUME NEW i \in 1..(N + M) PROVE rout'[i] \in Recorded
  <2>1. CASE i \in 1..N
    BY <1>4, <1>5, <2>1
  <2>2. CASE i \notin 1..N
    <3>1. i - N \in 1..M /\ N + (i - N) = i
      BY <1>7, <2>2
    <3> QED
      BY <1>2, <1>3, <1>4, <3>1 DEF M
  <2> QED
    BY <2>1, <2>2
<1>9. ASSUME NEW i \in 2..(N + M) PROVE rout'[i].seq = rout'[i - 1].seq + 1
  <2>1. CASE i <= N
    <3>1. i \in 2..N /\ i \in 1..N /\ i - 1 \in 1..N
      BY <1>7, <2>1
    <3> QED
      BY <1>4, <1>5, <3>1
  <2>2. CASE i = N + 1
    <3>1. N \in 1..N /\ 1 \in 1..M /\ N # 0 /\ i - 1 = N
      BY <1>7, <2>2
    <3>2. rout'[i - 1] = rout[N] /\ rout'[i] = segs[k][1]
      BY <1>4, <2>2, <3>1
    <3>3. segs[k][1].seq = k
      BY <1>3, <3>1 DEF M
    <3> QED
      BY <1>5, <3>1, <3>2, <3>3
  <2>3. CASE i > N + 1
    <3>1. i - N \in 1..M /\ (i - 1) - N \in 1..M /\ N + (i - N) = i /\ N + ((i - 1) - N) = i - 1
      BY <1>7, <2>3
    <3>2. rout'[i] = segs[k][i - N] /\ rout'[i - 1] = segs[k][(i - 1) - N]
      BY <1>4, <3>1
    <3>3. segs[k][i - N].seq = k + (i - N) - 1 /\ segs[k][(i - 1) - N].seq = k + ((i - 1) - N) - 1
      BY <1>3, <3>1 DEF M
    <3> QED
      BY <1>3, <1>7, <3>2, <3>3
  <2>4. i <= N \/ i = N + 1 \/ i > N + 1
    BY <1>7
  <2> QED
    BY <2>1, <2>2, <2>3, <2>4
<1>10. M # 0 => rout'[N + M].seq = k + M - 1
  <2> SUFFICES ASSUME M # 0 PROVE rout'[N + M].seq = k + M - 1
    OBVIOUS
  <2>1. M \in 1..M
    BY <1>7
  <2> QED
    BY <1>3, <1>4, <2>1 DEF M
<1>11. \A j \in rlist' : j \in rlist /\ j \in Nat /\ k < j
  BY <1>0, <1>3 DEF IsFirst
<1>12. ASSUME NEW m \in rlist' PROVE m \in DOMAIN segs /\ M # 0
  <2>1. m \in DOMAIN segs
    BY <1>3, <1>5, <1>11
  <2>2. segs[k] # << >>
    BY <1>0, <1>11, <2>1, NotLastFilled
  <2> QED
    BY <1>3, <2>1, <2>2 DEF M
<1>13. ASSUME NEW m \in rlist', IsFirst(m, rlist') PROVE m = rout'[N + M].seq + 1
  <2>1. m \in DOMAIN segs /\ M # 0 /\ k < m /\ m \in rlist /\ m \in Nat
    BY <1>11, <1>12
  <2>2. ASSUME NEW n \in DOMAIN segs, k < n, n < m PROVE FALSE
    <3>1. n \in rlist /\ n \in Nat
      BY <1>0, <1>5, <2>1, <2>2
    <3>2. n \in rlist'
      BY <1>3, <2>2, <3>1
    <3> QED
      BY <1>13, <2>1, <2>2, <3>1, <3>2 DEF IsFirst
  <2>3. k + M = m
    BY <1>0, <2>1, <2>2, NextFile DEF M
  <2>4. rout'[N + M].seq = k + M - 1
    BY <1>10, <2>1
  <2>5. m = (k + M - 1) + 1
    BY <1>3, <1>7, <2>3
  <2> QED
    BY <2>4, <2>5
<1>14. Reading'
  <2>1. rd' = rd /\ rd' # "ok"
    BY SegAssumption
  <2>2. DOMAIN rout' = 1..(N + M) /\ Len(rout') = N + M
    BY <1>4 DEF N, M
  <2>3. ASSUME NEW j \in rlist', NEW i \in rlist', NEW n \in DOMAIN segs, j < n, n < i PROVE n \in rlist'
    <3>1. n \in rlist /\ n \in Nat
      BY <1>0, <1>5, <1>11, <2>3
    <3> QED
      BY <1>3, <1>11, <2>3, <3>1
  <2>4. rout' # << >> => \A j \in rlist' : IsFirst(j, rlist') => j = rout'[Len(rout')].seq + 1
    BY <1>13, <2>2
  <2>5. \A j \in rlist' : j \in DOMAIN segs \/ \A i \in DOMAIN segs : j < i
    BY <1>12
  <2> QED
    BY <1>1, <1>2, <1>8, <1>9, <2>1, <2>2, <2>3, <2>4, <2>5 DEF Reading
<1>15. ASSUME Covering PROVE Covering'
  <2> SUFFICES ASSUME rfloor > 0
               PROVE  /\ rlist' = {} => rout' # << >> /\ rout'[Len(rout')].seq >= rfloor
                      /\ \A m \in rlist' : IsLast(m, rlist') /\ m \in DOMAIN segs =>
                           /\ m + Len(segs[m]) > rfloor
                           /\ segs[m] # << >> \/ rout' # << >> \/ \E p \in rlist' : p < m
    BY <1>1 DEF Covering
  <2>0. Len(rout') = N + M
    BY <1>4 DEF N, M
  <2>1. ASSUME rlist' = {} PROVE rout' # << >> /\ rout'[Len(rout')].seq >= rfloor
    <3>1. IsLast(k, rlist) /\ ~ \E p \in rlist : p < k
      BY <1>0, <1>3, <2>1 DEF IsFirst, IsLast
    <3>2. k + M > rfloor /\ (M # 0 \/ N # 0)
      <4>1. k + M > rfloor /\ (segs[k] # << >> \/ rout # << >>)
        BY <1>15, <3>1 DEF Covering, M
      <4>2. rout = << >> <=> N = 0
        BY <1>0 DEF N
      <4> QED
        BY <1>3, <4>1, <4>2 DEF M
    <3>3. CASE M # 0
      BY <1>0, <1>3, <1>6, <1>7, <1>10, <2>0, <3>2, <3>3 DEF N, M
    <3>4. CASE M = 0
      <4>1. N # 0 /\ N \in 1..N /\ N + M = N
        BY <1>7, <3>2, <3>4
      <4>2. rout'[N + M] = rout[N] /\ k = rout[N].seq + 1
        BY <1>4, <1>5, <4>1
      <4>3. rout[N] \in AuditEntry
        BY <1>0, <4>1 DEF N
      <4>4. rout[N].seq \in Nat
        BY <4>3 DEF AuditEntry
      <4>5. rout[N].seq >= rfloor
        BY <1>0, <1>3, <3>2, <3>4, <4>2, <4>4
      <4>6. rout' # << >>
        BY <1>6, <4>1 DEF N, M
      <4> QED
        BY <2>0, <4>2, <4>5, <4>6
    <3> QED
      BY <3>3, <3>4
  <2>2. ASSUME NEW m \in rlist', IsLast(m, rlist'), m \in DOMAIN segs
        PROVE  /\ m + Len(segs[m]) > rfloor
               /\ segs[m] # << >> \/ rout' # << >> \/ \E p \in rlist' : p < m
    <3>1. IsLast(m, rlist)
      BY <1>0, <1>3, <1>11, <2>2 DEF IsLast
    <3>2. M # 0
      BY <1>12
    <3>3. rout' # << >>
      BY <1>6, <1>7, <3>2 DEF N, M
    <3> QED
      BY <1>15, <2>2, <3>1, <3>3 DEF Covering, IsLast
  <2> QED
    BY <2>1, <2>2
<1> QED
  BY <1>14, <1>15, ReaderOnly DEF SegInv, Fresh


\* Whatever a reader does.  The server's reader turns a file that is gone
\* into an empty log, so only without it is Covering kept.
LEMMA ReadSteps ==
  ASSUME TypeOK, SegInv, ReadStep
  PROVE  SegInv' /\ ("server" \notin Reader /\ Covering => Covering')
<1>0. UNCHANGED << engineVars, segVars, pruneVars >> /\ segs' = segs
  BY DEF ReadStep, segVars
<1>1. ASSUME NEW who \in Reader, ReadList(who) PROVE SegInv' /\ Covering'
  BY <1>0, <1>1, ReadListStep
<1>2. ASSUME ReadNext PROVE SegInv' /\ ("server" \notin Reader /\ Covering => Covering')
  <2>1. PICK k \in rlist :
          /\ IsFirst(k, rlist)
          /\ \/ /\ k \in DOMAIN segs
                /\ rout' = rout \o segs[k]
                /\ rlist' = rlist \ {k}
                /\ UNCHANGED rd
             \/ /\ k \notin DOMAIN segs
                /\ rout' = << >>
                /\ rlist' = {}
                /\ rd' = IF rd = "server" THEN "ok" ELSE "err"
    BY <1>2 DEF ReadNext
  <2>2. rd \in Reader /\ UNCHANGED rfloor
    BY <1>2 DEF ReadNext
  <2>3. CASE k \in DOMAIN segs
    <3>1. rout' = rout \o segs[k] /\ rlist' = rlist \ {k} /\ UNCHANGED << rd, rfloor >>
      BY <2>1, <2>2, <2>3
    <3> QED
      BY <1>0, <2>1, <2>2, <2>3, <3>1, ReadFileStep
  <2>4. CASE k \notin DOMAIN segs
    <3>1. rout' = << >> /\ rlist' = {} /\ rd' = IF rd = "server" THEN "ok" ELSE "err"
      BY <2>1, <2>4
    <3>2. DOMAIN << >> = {} /\ 2..Len(<< >>) = {}
      OBVIOUS
    <3>3. Reading'
      BY <3>1, <3>2 DEF Reading
    <3>4. "server" \notin Reader => Covering'
      BY <2>2, <3>1, SegAssumption DEF Covering
    <3> QED
      BY <1>0, <3>1, <3>3, <3>4, ReaderOnly
  <2> QED
    BY <2>3, <2>4
<1>3. ASSUME ReadDone PROVE SegInv' /\ (Covering => Covering')
  <2>1. rd \in Reader /\ rlist = {} /\ rd' = "ok" /\ UNCHANGED << rlist, rout, rfloor >>
    BY <1>3 DEF ReadDone
  <2>2. Recorded' = Recorded
    BY <1>0, SameFiles DEF pruneVars
  <2>3. Reading'
    BY <2>1, <2>2 DEF SegInv, Reading
  <2>4. Covering => Covering'
    BY <2>1 DEF Covering
  <2> QED
    BY <1>0, <2>1, <2>3, <2>4, ReaderOnly
<1> QED
  BY <1>1, <1>2, <1>3 DEF ReadStep

-----------------------------------------------------------------------------
(* The log's own steps.                                                    *)

\* A step of the engine that leaves the directory alone.
LEMMA EngineOnly ==
  ASSUME TypeOK, SegInv, UNCHANGED segs, Others, AtTail', Receipts'
  PROVE  SegInv' /\ (Covering => Covering')
<1>1. UNCHANGED << segs, removed, anchor, rlist >> /\ UNCHANGED pruneVars /\ UNCHANGED readVars
  BY DEF Others, pruneVars, readVars
<1>2. Numbered' /\ Adjoining' /\ OneChain'
  BY <1>1, SameFiles
<1>3. Pruning' /\ Anchored'
  BY <1>1, SamePruner
<1>4. Reading' /\ (Covering => Covering')
  BY <1>1, SameReader
<1>5. Fresh'
  BY <1>1 DEF SegInv, Fresh
<1> QED
  BY <1>2, <1>3, <1>4, <1>5 DEF SegInv

\* record() is called, returns, or its append fails; the writer takes a
\* command; the process ends.
LEMMA CallSteps ==
  ASSUME TypeOK, SegInv,
         \/ \E c \in Caller, b \in Body : CallRecord(c, b)
         \/ \E c \in Caller : CallReturn(c)
         \/ StartAppend \/ AppendError \/ Close \/ Crash
  PROVE  SegInv' /\ (Covering => Covering')
<1>0. AtTail /\ Receipts
  BY DEF SegInv
<1>1. Others /\ UNCHANGED segs
  BY DEF CallRecord, CallReturn, StartAppend, AppendError, AppendFails, Close, Crash, CloseDir, segVars
<1>2. Recorded' = Recorded
  BY <1>1, SameFiles DEF Others, pruneVars
<1>3. ASSUME NEW c \in Caller, NEW b \in Body, CallRecord(c, b) PROVE AtTail' /\ Receipts'
  <2>1. UNCHANGED << up, segVars, seq, prev_hash, writer, entry, acked, reply >>
    BY <1>3 DEF CallRecord, Record
  <2> QED
    BY <1>0, <1>2, <2>1 DEF AtTail, Receipts, segVars
<1>4. ASSUME NEW c \in Caller, CallReturn(c) PROVE AtTail' /\ Receipts'
  <2>1. UNCHANGED << up, segVars, seq, prev_hash, writer, entry >>
    BY <1>4 DEF CallReturn, Return
  <2>2. AtTail'
    BY <1>0, <1>2, <2>1 DEF AtTail, segVars
  <2>3. /\ reply' = [reply EXCEPT ![c] = NoReply]
        /\ acked' = IF reply[c].kind = "ok" THEN acked \cup {reply[c].receipt} ELSE acked
    BY <1>4 DEF CallReturn, Return
  <2>4. reply \in [Caller -> Reply] /\ NoReply.kind # "ok"
    BY DEF TypeOK, EngineTypeOK, NoReply
  <2>5. \A d \in Caller : reply'[d].kind = "ok" => reply'[d] = reply[d]
    BY <2>3, <2>4
  <2>6. \A r \in acked' : \E e \in Recorded : ReceiptOf(e) = r
    BY <1>0, <2>3 DEF Receipts
  <2>7. \A d \in Caller : reply'[d].kind = "ok" => \E e \in Recorded : ReceiptOf(e) = reply'[d].receipt
    BY <1>0, <2>5 DEF Receipts
  <2> QED
    BY <1>2, <2>2, <2>6, <2>7 DEF Receipts
<1>5. ASSUME StartAppend PROVE AtTail' /\ Receipts'
  <2>1. PICK t \in Time : BeginAppend(t)
    BY <1>5 DEF StartAppend
  <2>2. UNCHANGED << up, segVars, seq, prev_hash, acked, reply >>
    BY <1>5, <2>1 DEF StartAppend, BeginAppend
  <2>3. Head(chan) \in Cmd /\ Head(chan).op = "write"
    BY <2>1 DEF BeginAppend, Receiving, TypeOK, EngineTypeOK
  <2>4. Head(chan).body \in Body
    BY <2>3 DEF Cmd
  <2>5. entry' = Sealed(seq + 1, t, Head(chan).body, prev_hash)
    BY <2>1 DEF BeginAppend
  <2>6. \E s \in Time, b \in Body : entry' = Sealed(seq' + 1, s, b, prev_hash')
    BY <2>2, <2>4, <2>5
  <2>7. AtTail'
    <3>1. up
      BY <2>1 DEF BeginAppend, Receiving
    <3> QED
      BY <1>0, <1>2, <2>2, <2>6, <3>1 DEF AtTail, segVars
  <2>8. Receipts'
    BY <1>0, <1>2, <2>2 DEF Receipts
  <2> QED
    BY <2>7, <2>8
<1>6. ASSUME AppendError PROVE AtTail' /\ Receipts'
  <2>1. /\ UNCHANGED << up, segVars, seq, prev_hash, acked >> /\ writer' = "recv"
        /\ reply' = [reply EXCEPT ![cur] = ErrReply]
    BY <1>6 DEF AppendError, AppendErr, AppendFails
  <2>2. AtTail'
    BY <1>0, <1>2, <2>1 DEF AtTail, segVars
  <2>3. reply \in [Caller -> Reply] /\ ErrReply.kind # "ok"
    BY DEF TypeOK, EngineTypeOK, ErrReply
  <2>4. \A d \in Caller : reply'[d].kind = "ok" => reply'[d] = reply[d]
    BY <2>1, <2>3
  <2> QED
    BY <1>0, <1>2, <2>1, <2>2, <2>4 DEF Receipts
<1>7. ASSUME Forget PROVE AtTail' /\ Receipts'
  <2>1. ~up' /\ writer' = "recv" /\ reply' = [c \in Caller |-> NoReply] /\ acked' = acked
    BY <1>7 DEF Forget
  <2>2. NoReply.kind # "ok"
    BY DEF NoReply
  <2> QED
    BY <1>0, <1>2, <2>1, <2>2 DEF AtTail, Receipts
<1>8. AtTail' /\ Receipts'
  BY <1>3, <1>4, <1>5, <1>6, <1>7 DEF Close, Drop, Crash, Kill
<1> QED
  BY <1>1, <1>8, EngineOnly


\* A full file is left for a new one, named after the entry being appended.
LEMMA RotateStep ==
  ASSUME TypeOK, SegInv, Rotate
  PROVE  SegInv' /\ (Covering => Covering')
<1> DEFINE K == cur_first + cur_count
<1>1. /\ up /\ writer = "append" /\ cur_count >= max_entries /\ segs' = CreateFile(entry.seq)
      /\ cur_first' = entry.seq /\ cur_count' = 0 /\ UNCHANGED max_entries
      /\ UNCHANGED engineVars /\ UNCHANGED pruneVars /\ UNCHANGED readVars
  BY DEF Rotate, rotate_to, Full, Appending, Others
<1>2. /\ IsLast(cur_first, DOMAIN segs) /\ cur_count = Len(segs[cur_first]) /\ max_entries \in MaxEntries
      /\ seq + 1 = K
      /\ \E t \in Time, b \in Body : entry = Sealed(seq + 1, t, b, prev_hash)
  BY <1>1 DEF SegInv, AtTail
<1>3. entry.seq = K
  BY <1>2 DEF Sealed
<1>4. /\ SegTypeOK /\ Numbered /\ Adjoining /\ OneChain /\ cur_first \in DOMAIN segs
      /\ \A k \in DOMAIN segs : k \in Nat /\ Len(segs[k]) \in Nat /\ k >= 1
  <2>1. SegTypeOK /\ Numbered /\ Adjoining /\ OneChain /\ cur_first \in DOMAIN segs
    BY <1>2 DEF TypeOK, SegInv, IsLast
  <2> QED
    BY <2>1, Within
<1>5. cur_first \in Nat /\ cur_count \in Nat /\ cur_count >= 1
  BY <1>1, <1>2, <1>4, MaxEntriesAssumption
<1>6. K \in Nat /\ K >= 1
  BY <1>5
<1>7. \A k \in DOMAIN segs : k < K /\ k + Len(segs[k]) <= K
  <2> SUFFICES ASSUME NEW k \in DOMAIN segs PROVE k < K /\ k + Len(segs[k]) <= K
    OBVIOUS
  <2>1. CASE k = cur_first
    BY <1>2, <1>5, <2>1
  <2>2. CASE k # cur_first
    <3>1. k < cur_first
      BY <1>2, <1>4, <1>5, <2>2 DEF IsLast
    <3>2. k + Len(segs[k]) <= cur_first
      BY <1>4, <3>1 DEF Adjoining
    <3> QED
      BY <1>4, <1>5, <3>1, <3>2
  <2> QED
    BY <2>1, <2>2
<1>8. \E e \in Held : e.seq = K - 1
  <2>1. cur_count \in 1..Len(segs[cur_first])
    BY <1>2, <1>5
  <2> QED
    BY <1>4, <2>1, Within
<1>9. removed' = removed
  BY <1>1 DEF pruneVars
<1> HIDE DEF K
<1>10. segs' = CreateFile(K) /\ cur_first' = K
  BY <1>1, <1>3
<1>11. DOMAIN segs # {}
  BY <1>4
<1>12. /\ DOMAIN segs' = DOMAIN segs \cup {K} /\ K \notin DOMAIN segs
       /\ segs'[K] = << >> /\ \A k \in DOMAIN segs : segs'[k] = segs[k]
       /\ Held' = Held /\ Numbered' /\ Adjoining' /\ OneChain'
  BY <1>4, <1>6, <1>7, <1>8, <1>9, <1>10, <1>11, NewFile
<1>13. Pruning' /\ Anchored' /\ Fresh' /\ Reading' /\ (Covering => Covering')
  BY <1>1, <1>6, <1>7, <1>11, <1>12, NewFileOthers
<1>14. Recorded' = Recorded
  BY <1>9, <1>12 DEF Recorded
<1>15. UNCHANGED << up, reply, writer, entry, seq, prev_hash, acked >>
  BY <1>1 DEF engineVars
<1>16. AtTail'
  <2>1. IsLast(cur_first', DOMAIN segs')
    BY <1>4, <1>6, <1>7, <1>10, <1>12 DEF IsLast
  <2>2. cur_count' = Len(segs'[cur_first'])
    BY <1>1, <1>10, <1>12
  <2>3. seq' + 1 = cur_first' + cur_count'
    BY <1>1, <1>2, <1>6, <1>10, <1>15
  <2> QED
    BY <1>1, <1>2, <1>14, <1>15, <2>1, <2>2, <2>3 DEF SegInv, AtTail
<1>17. Receipts'
  BY <1>14, <1>15 DEF SegInv, Receipts
<1> QED
  BY <1>12, <1>13, <1>16, <1>17 DEF SegInv

\* The entry is appended to the file the writer has open.
LEMMA StoreAppendStep ==
  ASSUME TypeOK, SegInv, StoreAppend
  PROVE  SegInv' /\ (Covering => Covering')
<1> DEFINE C == cur_first
           f == entry
<1>1. /\ up /\ writer = "append" /\ UNCHANGED pruneVars /\ UNCHANGED readVars
      /\ seq' = f.seq /\ prev_hash' = f.entry_hash /\ writer' = "recv" /\ UNCHANGED << up, acked >>
      /\ reply' = [reply EXCEPT ![cur] = OkReply(ReceiptOf(f))]
      /\ cur_count' = cur_count + 1 /\ UNCHANGED << max_entries, cur_first >>
  BY DEF StoreAppend, AppendOk, WriteEntry, Appending, Others
<1>2. /\ IsLast(C, DOMAIN segs) /\ cur_count = Len(segs[C]) /\ max_entries \in MaxEntries
      /\ seq + 1 = C + cur_count /\ Len(prev_hash) = seq
      /\ \A e \in Recorded : IsPrefix(e.entry_hash, prev_hash)
  BY <1>1 DEF SegInv, AtTail
<1>3. PICK t \in Time, b \in Body : f = Sealed(seq + 1, t, b, prev_hash)
  BY <1>1 DEF SegInv, AtTail
<1>4. /\ SegTypeOK /\ Numbered /\ Adjoining /\ OneChain /\ C \in DOMAIN segs /\ C \in Nat
      /\ cur_count \in Nat /\ seq \in Nat /\ prev_hash \in Hash /\ f \in AuditEntry
      /\ cur \in Caller /\ reply \in [Caller -> Reply]
  BY <1>1, <1>2 DEF TypeOK, EngineTypeOK, SegTypeOK, SegInv, IsLast
<1>5. segs' = [segs EXCEPT ![C] = Append(@, f)] /\ removed' = removed
  BY <1>1, <1>4 DEF StoreAppend, WriteEntry, pruneVars
<1>6. /\ f.seq = seq + 1 /\ f.prev_hash = prev_hash /\ f.entry_hash = recompute_hash(f)
      /\ f.entry_hash = Append(prev_hash, canonical(f)) /\ canonical(f) \in Fields
  <2>1. f.seq = seq + 1 /\ f.prev_hash = prev_hash /\ f.entry_hash = recompute_hash(f)
    BY <1>3 DEF Sealed, recompute_hash, canonical
  <2>2. canonical(f) \in Fields
    BY <1>3, <1>4, SealedType
  <2> QED
    BY <2>1, <2>2 DEF recompute_hash
<1>7. Len(f.entry_hash) = f.seq /\ f.entry_hash \in Hash
  BY <1>2, <1>4, <1>6 DEF Hash
<1> HIDE DEF C, f
<1>8. ASSUME NEW e \in Recorded PROVE e.seq < f.seq /\ IsPrefix(e.entry_hash, f.entry_hash)
  <2>1. e.seq \in Nat /\ e.entry_hash \in Hash /\ Len(e.entry_hash) = e.seq
    BY <1>4, RecordedType DEF OneChain
  <2>2. IsPrefix(e.entry_hash, prev_hash)
    BY <1>2
  <2>3. Len(e.entry_hash) <= Len(prev_hash)
    BY <1>4, <2>1, <2>2, PrefixLen DEF Hash
  <2>4. IsPrefix(e.entry_hash, Append(prev_hash, canonical(f)))
    BY <1>4, <1>6, <2>1, <2>2, PrefixAppend DEF Hash
  <2> QED
    BY <1>2, <1>4, <1>6, <2>1, <2>3, <2>4
<1>9. f.seq = C + Len(segs[C])
  BY <1>2, <1>6
<1>10. /\ DOMAIN segs' = DOMAIN segs /\ segs'[C] = Append(segs[C], f)
       /\ \A k \in DOMAIN segs : k # C => segs'[k] = segs[k]
       /\ Held' = Held \cup {f} /\ Numbered' /\ Adjoining' /\ OneChain'
  BY <1>2, <1>4, <1>5, <1>6, <1>7, <1>8, <1>9, Grow
<1>11. Pruning' /\ Anchored' /\ Fresh' /\ Reading' /\ (Covering => Covering')
  BY <1>1, <1>4, <1>8, <1>10, GrowOthers
<1>12. Recorded' = Recorded \cup {f}
  BY <1>5, <1>10 DEF Recorded
<1>13. AtTail'
  <2>1. Len(segs'[C]) = Len(segs[C]) + 1
    <3>1. segs[C] \in Seq(AuditEntry)
      BY <1>4 DEF SegTypeOK
    <3> QED
      BY <1>4, <1>10, <3>1
  <2>2. IsPrefix(f.entry_hash, f.entry_hash)
    BY <1>7, PrefixReflexive DEF Hash
  <2>3. \A e \in Recorded' : IsPrefix(e.entry_hash, prev_hash')
    BY <1>1, <1>8, <1>12, <2>2
  <2>4. cur_first' = C
    BY <1>1 DEF C
  <2>5. IsLast(cur_first', DOMAIN segs') /\ cur_count' = Len(segs'[cur_first'])
    BY <1>1, <1>2, <1>10, <2>1, <2>4
  <2>6. seq' + 1 = cur_first' + cur_count' /\ Len(prev_hash') = seq'
    BY <1>1, <1>2, <1>4, <1>6, <1>7, <2>4
  <2>7. max_entries' \in MaxEntries /\ writer' # "append"
    BY <1>1, <1>2
  <2> QED
    BY <2>3, <2>5, <2>6, <2>7 DEF AtTail
<1>14. Receipts'
  <2>1. ASSUME NEW d \in Caller, reply'[d].kind = "ok"
        PROVE  \E e \in Recorded' : ReceiptOf(e) = reply'[d].receipt
    <3>1. CASE d = cur
      <4>1. reply'[d] = OkReply(ReceiptOf(f))
        BY <1>1, <1>4, <3>1
      <4> QED
        BY <1>12, <4>1 DEF OkReply
    <3>2. CASE d # cur
      <4>1. reply'[d] = reply[d]
        BY <1>1, <1>4, <3>2
      <4> QED
        BY <1>12, <2>1, <4>1 DEF SegInv, Receipts
    <3> QED
      BY <3>1, <3>2
  <2>2. \A r \in acked' : \E e \in Recorded' : ReceiptOf(e) = r
    BY <1>1, <1>12 DEF SegInv, Receipts
  <2> QED
    BY <2>1, <2>2 DEF Receipts
<1> QED
  BY <1>10, <1>11, <1>13, <1>14 DEF SegInv

\* The tail open() finds is the end of the chain, right before the number the
\* last file is to go on with.
LEMMA TailIs ==
  ASSUME TypeOK, SegInv, NEW t \in SegTail
  PROVE  /\ Len(t.hash) = t.seq
         /\ \A e \in Recorded : IsPrefix(e.entry_hash, t.hash)
         /\ DOMAIN segs = {} => t.seq = 0
         /\ \A L \in DOMAIN segs : IsLast(L, DOMAIN segs) => t.seq + 1 = L + Len(segs[L])
<1>0. /\ SegTypeOK /\ Numbered /\ Adjoining /\ OneChain
      /\ \A k \in DOMAIN segs : /\ k \in Nat /\ Len(segs[k]) \in Nat /\ k >= 1
                                /\ (segs[k] = << >> <=> Len(segs[k]) = 0)
                                /\ \A i \in 1..Len(segs[k]) : segs[k][i] \in Held /\ segs[k][i].seq = k + i - 1
  <2>1. SegTypeOK /\ Numbered /\ Adjoining /\ OneChain
    BY DEF TypeOK, SegInv
  <2> QED
    BY <2>1, Within
<1>1. CASE \A j \in DOMAIN segs : segs[j] = << >>
  <2>1. t = [seq |-> 0, hash |-> GENESIS_PREV_HASH]
    BY <1>1 DEF SegTail
  <2>2. Held = {}
    <3>1. \A e \in Held : FALSE
      BY <1>0, <1>1, HeldPlace
    <3> QED
      BY <3>1
  <2>3. \A k \in DOMAIN segs : k = 1
    BY <1>0, <1>1, <2>2 DEF Adjoining
  <2>4. removed = {}
    <3>1. CASE DOMAIN segs = {}
      BY <3>1 DEF SegInv, Fresh
    <3>2. ASSUME NEW k \in DOMAIN segs, NEW e \in removed PROVE FALSE
      <4>1. e.seq < 1 /\ e.seq \in Nat /\ e.entry_hash = recompute_hash(e) /\ Len(e.entry_hash) = e.seq
            /\ e.prev_hash \in Hash /\ e \in AuditEntry
        BY <1>0, <2>3, <3>2, RecordedType DEF OneChain, Recorded
      <4>2. canonical(e) \in Fields
        BY <4>1 DEF canonical, Fields, AuditEntry
      <4>3. Len(Append(e.prev_hash, canonical(e))) = Len(e.prev_hash) + 1 /\ Len(e.prev_hash) \in Nat
        BY <4>1, <4>2 DEF Hash
      <4> QED
        BY <4>1, <4>3 DEF recompute_hash
    <3> QED
      BY <3>1, <3>2
  <2>5. Recorded = {}
    BY <2>2, <2>4 DEF Recorded
  <2>6. Len(GENESIS_PREV_HASH) = 0
    BY DEF GENESIS_PREV_HASH
  <2> QED
    BY <1>0, <1>1, <2>1, <2>3, <2>5, <2>6
<1>2. CASE ~ \A j \in DOMAIN segs : segs[j] = << >>
  <2>1. PICK k \in DOMAIN segs :
          /\ LastNonEmpty(k)
          /\ t = [seq |-> segs[k][Len(segs[k])].seq, hash |-> segs[k][Len(segs[k])].entry_hash]
    BY <1>2 DEF SegTail
  <2> DEFINE e == segs[k][Len(segs[k])]
  <2>2. segs[k] # << >> /\ \A j \in DOMAIN segs : segs[j] # << >> => j <= k
    BY <2>1 DEF LastNonEmpty, IsLast
  <2>3. /\ e \in Held /\ e.seq = k + Len(segs[k]) - 1 /\ Len(segs[k]) >= 1
    BY <1>0, <2>2
  <2>4. e \in Recorded /\ Len(e.entry_hash) = e.seq /\ e.seq \in Nat
    BY <1>0, <2>3, RecordedType DEF Recorded, OneChain
  <2>5. t.seq = e.seq /\ t.hash = e.entry_hash
    BY <2>1
  <2> HIDE DEF e
  <2>6. ASSUME NEW g \in Recorded PROVE IsPrefix(g.entry_hash, e.entry_hash)
    <3>1. g.seq \in Nat
      BY RecordedType
    <3>2. CASE g \in removed
      <4>1. g.seq < k
        BY <1>0, <3>2 DEF OneChain
      <4>2. g.seq <= e.seq
        BY <1>0, <2>3, <3>1, <4>1
      <4> QED
        BY <1>0, <2>4, <4>2 DEF OneChain
    <3>3. CASE g \in Held
      <4>1. PICK p \in DOMAIN segs : p <= g.seq /\ g.seq < p + Len(segs[p])
        BY <1>0, <3>3, FileOf
      <4>2. segs[p] # << >>
        BY <1>0, <3>1, <4>1
      <4>3. p <= k /\ (p < k => p + Len(segs[p]) <= k)
        BY <1>0, <2>2, <4>2 DEF Adjoining
      <4>4. g.seq <= e.seq
        BY <1>0, <2>3, <3>1, <4>1, <4>3
      <4> QED
        BY <1>0, <2>4, <4>4 DEF OneChain
    <3> QED
      BY <3>2, <3>3 DEF Recorded
  <2>7. ASSUME NEW L \in DOMAIN segs, IsLast(L, DOMAIN segs) PROVE t.seq + 1 = L + Len(segs[L])
    <3>1. CASE segs[L] # << >>
      <4>1. L = k
        BY <1>0, <2>2, <2>7, <3>1 DEF IsLast
      <4> QED
        BY <1>0, <2>3, <2>5, <4>1
    <3>2. CASE segs[L] = << >>
      <4>1. k < L
        BY <1>0, <2>2, <2>7, <3>2 DEF IsLast
      <4>2. ASSUME NEW n \in DOMAIN segs, k < n, n < L PROVE FALSE
        <5>1. segs[n] # << >>
          BY <1>0, <4>2, NotLastFilled
        <5> QED
          BY <1>0, <2>2, <4>2, <5>1
      <4>3. k + Len(segs[k]) = L
        BY <1>0, <4>1, <4>2, NextFile
      <4> QED
        BY <1>0, <2>3, <2>5, <3>2, <4>3
    <3> QED
      BY <3>1, <3>2
  <2>8. DOMAIN segs # {}
    BY <2>1
  <2> QED
    BY <2>4, <2>5, <2>6, <2>7, <2>8
<1> QED
  BY <1>1, <1>2


\* The directory is opened: the writer goes on behind the chain's last entry.
LEMMA OpenStep ==
  ASSUME TypeOK, SegInv, Open
  PROVE  SegInv' /\ (Covering => Covering')
<1>1. PICK t \in SegTail : OpenDir(t) /\ Build(t.seq, t.hash)
  BY DEF Open
<1>2. PICK k \in DOMAIN segs \cup {1} :
        /\ IF DOMAIN segs = {} THEN k = 1 ELSE IsLast(k, DOMAIN segs)
        /\ segs' = CreateFile(k)
        /\ cur_first' = k
        /\ cur_count' = Len(segs'[k])
  BY <1>1 DEF OpenDir
<1>3. /\ max_entries' \in MaxEntries /\ ~up /\ up' = TRUE /\ seq' = t.seq /\ prev_hash' = t.hash
      /\ UNCHANGED << reply, writer, entry, acked >> /\ Others
      /\ UNCHANGED pruneVars /\ UNCHANGED readVars /\ removed' = removed
  BY <1>1 DEF OpenDir, Build, Open, Others, pruneVars
<1>4. writer' # "append"
  BY <1>3 DEF SegInv, AtTail
<1>5. /\ Len(t.hash) = t.seq
      /\ \A e \in Recorded : IsPrefix(e.entry_hash, t.hash)
      /\ DOMAIN segs = {} => t.seq = 0
      /\ \A L \in DOMAIN segs : IsLast(L, DOMAIN segs) => t.seq + 1 = L + Len(segs[L])
  BY TailIs
<1>6. CASE DOMAIN segs = {}
  <2>1. k = 1 /\ 1 \in Nat /\ 1 >= 1 /\ segs' = CreateFile(1)
    BY <1>2, <1>6
  <2>2. Numbered /\ Adjoining /\ OneChain /\ removed = {}
    BY <1>6 DEF SegInv, Fresh
  <2>3. /\ DOMAIN segs' = DOMAIN segs \cup {1} /\ 1 \notin DOMAIN segs
        /\ segs'[1] = << >> /\ \A j \in DOMAIN segs : segs'[j] = segs[j]
        /\ Held' = Held /\ Numbered' /\ Adjoining' /\ OneChain'
    BY <1>3, <1>6, <2>1, <2>2, NewFile
  <2>4. Pruning' /\ Anchored' /\ Fresh' /\ Reading' /\ (Covering => Covering')
    BY <1>3, <1>6, <2>1, <2>3, NewFileOthers
  <2>5. Recorded' = Recorded
    BY <1>3, <2>3 DEF Recorded
  <2>6. IsLast(cur_first', DOMAIN segs') /\ cur_count' = 0 /\ cur_count' = Len(segs'[cur_first']) /\ cur_first' = 1
    BY <1>2, <1>6, <2>1, <2>3 DEF IsLast
  <2>7. AtTail'
    BY <1>3, <1>4, <1>5, <1>6, <2>5, <2>6 DEF AtTail
  <2>8. Receipts'
    BY <1>3, <2>5 DEF SegInv, Receipts
  <2> QED
    BY <2>3, <2>4, <2>7, <2>8 DEF SegInv
<1>7. CASE DOMAIN segs # {}
  <2>1. IsLast(k, DOMAIN segs) /\ k \in DOMAIN segs
    BY <1>2, <1>7 DEF IsLast
  <2>2. segs' = segs
    <3>1. DOMAIN segs \cup {k} = DOMAIN segs
      BY <2>1
    <3>2. CreateFile(k) = [j \in DOMAIN segs |-> segs[j]]
      BY <3>1 DEF CreateFile
    <3>3. segs = [j \in DOMAIN segs |-> segs[j]]
      BY DEF SegInv, AtTail, TypeOK, SegTypeOK
    <3> QED
      BY <1>2, <3>2, <3>3
  <2>3. Recorded' = Recorded
    BY <1>3, <2>2, SameFiles
  <2>4. AtTail'
    BY <1>2, <1>3, <1>4, <1>5, <2>1, <2>2, <2>3 DEF AtTail
  <2>5. Receipts'
    BY <1>3, <2>3 DEF SegInv, Receipts
  <2> QED
    BY <1>3, <2>2, <2>4, <2>5, EngineOnly
<1> QED
  BY <1>6, <1>7



-----------------------------------------------------------------------------
(* The invariant                                                           *)

\* The empty directory satisfies the invariant.
LEMMA SegInitial == Init => SegInv /\ Covering
<1> SUFFICES ASSUME Init PROVE SegInv /\ Covering
  OBVIOUS
<1>1. DOMAIN segs = {} /\ removed = {} /\ rd = "idle" /\ rlist = {} /\ pruner = "idle"
  BY DEF Init, SegInit
<1>2. Held = {} /\ Recorded = {}
  BY <1>1 DEF Held, Recorded
<1>3. Numbered /\ Adjoining /\ OneChain
  BY <1>1, <1>2 DEF Numbered, Adjoining, OneChain
<1>4. AtTail
  BY DEF Init, EngineInit, AtTail
<1>5. Receipts
  BY DEF Init, EngineInit, Receipts, NoReply
<1>6. Pruning /\ Anchored /\ Fresh
  BY <1>1 DEF Init, Pruning, Anchored, Fresh
<1>7. rd \notin Reader \cup {"ok"}
  BY <1>1, SegAssumption
<1> QED
  BY <1>1, <1>3, <1>4, <1>5, <1>6, <1>7 DEF SegInv, Reading, Covering

\* Every step keeps the invariant, and deletes only what the prune was asked
\* to delete.
LEMMA SegStep ==
  ASSUME BeyondHead = FALSE, TypeOK, SegInv, [Next]_vars
  PROVE  /\ SegInv' /\ ("server" \notin Reader /\ Covering => Covering')
         /\ \A e \in removed' \ removed : e.seq < boundary /\ (cutoff # NoCutoff => e.timestamp < cutoff)
<1>1. CASE \/ \E c \in Caller, b \in Body : CallRecord(c, b)
           \/ \E c \in Caller : CallReturn(c)
           \/ StartAppend \/ AppendError \/ Close \/ Crash
  <2>1. removed' = removed
    BY <1>1 DEF CallRecord, CallReturn, StartAppend, AppendError, Close, Crash, Others, pruneVars
  <2> QED
    BY <1>1, <2>1, CallSteps
<1>2. CASE Rotate
  <2>1. removed' = removed
    BY <1>2 DEF Rotate, Others, pruneVars
  <2> QED
    BY <1>2, <2>1, RotateStep
<1>3. CASE StoreAppend
  <2>1. removed' = removed
    BY <1>3 DEF StoreAppend, Others, pruneVars
  <2> QED
    BY <1>3, <2>1, StoreAppendStep
<1>4. CASE Open
  <2>1. removed' = removed
    BY <1>4 DEF Open, Others, pruneVars
  <2> QED
    BY <1>4, <2>1, OpenStep
<1>5. CASE PruneStep
  BY <1>5, PruneSteps
<1>6. CASE ReadStep
  <2>1. removed' = removed
    BY <1>6 DEF ReadStep, pruneVars
  <2> QED
    BY <1>6, <2>1, ReadSteps
<1>7. CASE UNCHANGED vars
  <2>1. UNCHANGED << segs, removed >> /\ Others /\ UNCHANGED engineVars /\ UNCHANGED segVars
    BY <1>7 DEF vars, Others, pruneVars, segVars
  <2>2. Recorded' = Recorded
    BY <2>1, SameFiles
  <2>3. AtTail' /\ Receipts'
    BY <2>1, <2>2 DEF SegInv, AtTail, Receipts, engineVars, segVars
  <2> QED
    BY <2>1, <2>3, EngineOnly
<1> QED
  BY <1>1, <1>2, <1>3, <1>4, <1>5, <1>6, <1>7 DEF Next

\* Of two entries with consecutive numbers, the second links to the first.
LEMMA Linked ==
  ASSUME TypeOK, OneChain, NEW e \in Recorded, NEW f \in Recorded, f.seq = e.seq + 1
  PROVE  f.prev_hash = e.entry_hash
<1>1. /\ e.seq \in Nat /\ f.seq \in Nat /\ e.entry_hash \in Hash /\ f.entry_hash \in Hash /\ f.prev_hash \in Hash
      /\ f \in AuditEntry
  BY RecordedType
<1>2. canonical(f) \in Fields
  BY <1>1 DEF canonical, Fields, AuditEntry
<1>3. /\ f.entry_hash = Append(f.prev_hash, canonical(f)) /\ Len(f.entry_hash) = f.seq
      /\ Len(e.entry_hash) = e.seq
  BY DEF OneChain, recompute_hash
<1>4. IsPrefix(e.entry_hash, f.entry_hash)
  BY <1>1 DEF OneChain
<1>5. Len(f.prev_hash) = e.seq
  BY <1>1, <1>2, <1>3 DEF Hash
<1>6. \A i \in 1..e.seq : e.entry_hash[i] = f.entry_hash[i]
  <2>1. \A i \in 1..Len(e.entry_hash) : e.entry_hash[i] = f.entry_hash[i]
    BY <1>1, <1>4, PrefixPointwise DEF Hash
  <2> QED
    BY <1>3, <2>1
<1>7. \A i \in 1..e.seq : f.entry_hash[i] = f.prev_hash[i]
  BY <1>1, <1>2, <1>3, <1>5 DEF Hash
<1>8. Len(f.prev_hash) <= Len(e.entry_hash) /\ \A i \in 1..Len(f.prev_hash) : f.prev_hash[i] = e.entry_hash[i]
  BY <1>1, <1>3, <1>5, <1>6, <1>7
<1>9. IsPrefix(f.prev_hash, e.entry_hash)
  BY <1>1, <1>8, PrefixPointwise DEF Hash
<1> QED
  BY <1>1, <1>3, <1>5, <1>9, PrefixLen DEF Hash

\* The first entry of all links to genesis.
LEMMA LinkedToGenesis ==
  ASSUME TypeOK, OneChain, NEW e \in Recorded, e.seq = 1
  PROVE  e.prev_hash = GENESIS_PREV_HASH
<1>1. e.prev_hash \in Hash /\ e \in AuditEntry
  BY RecordedType
<1>2. canonical(e) \in Fields
  BY <1>1 DEF canonical, Fields, AuditEntry
<1>3. Len(Append(e.prev_hash, canonical(e))) = 1
  BY DEF OneChain, recompute_hash
<1>4. Len(e.prev_hash) = 0
  BY <1>1, <1>2, <1>3 DEF Hash
<1> QED
  BY <1>1, <1>4 DEF Hash, GENESIS_PREV_HASH


\* Entries with the same number have the same hashes.
LEMMA SameNumber ==
  ASSUME TypeOK, OneChain, NEW e \in Recorded, NEW f \in Recorded, f.seq = e.seq
  PROVE  f.prev_hash = e.prev_hash
<1>1. /\ e.seq \in Nat /\ e.entry_hash \in Hash /\ f.entry_hash \in Hash
      /\ e.prev_hash \in Hash /\ f.prev_hash \in Hash /\ e \in AuditEntry /\ f \in AuditEntry
  BY RecordedType
<1>2. canonical(e) \in Fields /\ canonical(f) \in Fields
  BY <1>1 DEF canonical, Fields, AuditEntry
<1>3. IsPrefix(e.entry_hash, f.entry_hash) /\ Len(e.entry_hash) = e.seq /\ Len(f.entry_hash) = e.seq
  BY <1>1 DEF OneChain
<1>4. e.entry_hash = f.entry_hash
  BY <1>1, <1>3, PrefixLen DEF Hash
<1>5. Append(e.prev_hash, canonical(e)) = Append(f.prev_hash, canonical(f))
  BY <1>4 DEF OneChain, recompute_hash
<1>6. e.prev_hash \in Seq(Fields) /\ f.prev_hash \in Seq(Fields)
  BY <1>1 DEF Hash
<1> QED
  BY <1>2, <1>5, <1>6, AppendInjective

\* Whether a reading of the directory verifies from an anchor depends on its
\* first entry alone.
LEMMA ValidFrom ==
  ASSUME TypeOK, SegInv, NEW a
  PROVE  is_valid(verify_entries_from(a, read_all_segmented)) <=>
           (read_all_segmented # << >> => FirstViolations(a, read_all_segmented[1]) = {})
<1> DEFINE es == read_all_segmented
<1>0. SegTypeOK /\ Numbered /\ Adjoining /\ OneChain
  BY DEF TypeOK, SegInv
<1>1. es \in Seq(AuditEntry) /\ DOMAIN es = 1..Len(es) /\ Len(es) \in Nat
  BY <1>0, ReadAll
<1>2. \A i \in 1..Len(es) : es[i] \in Recorded
  BY <1>0, ReadAll DEF Recorded
<1>3. \A i \in 1..Len(es) : ContentViolations(es[i]) = {}
  BY <1>0, <1>2 DEF ContentViolations, OneChain
<1>4. ASSUME NEW i \in 2..Len(es) PROVE LinkViolations(es[i - 1], es[i]) = {}
  <2>1. i - 1 \in 1..Len(es) /\ i \in 1..Len(es)
    BY <1>1
  <2>2. PICK k \in DOMAIN segs : TRUE
    <3>1. es[i] \in Held
      BY <1>0, <2>1, ReadAll
    <3> QED
      BY <3>1 DEF Held
  <2>3. PICK F \in DOMAIN segs : IsFirst(F, DOMAIN segs)
    BY <1>0, <2>2, HasFirst DEF SegTypeOK
  <2>4. es[i].seq = F + i - 1 /\ es[i - 1].seq = F + (i - 1) - 1
    BY <1>0, <2>1, <2>3, ReadAll
  <2>5. es[i].seq = es[i - 1].seq + 1
    BY <1>0, <2>3, <2>4 DEF SegTypeOK
  <2>6. es[i].prev_hash = es[i - 1].entry_hash
    BY <1>0, <1>2, <2>1, <2>5, Linked
  <2> QED
    BY <2>5, <2>6 DEF LinkViolations
<1>5. \A i \in 1..Len(es) :
        ViolationsAt(a, es, i) = IF i = 1 THEN FirstViolations(a, es[1]) ELSE {}
  <2> TAKE i \in 1..Len(es)
  <2>1. CASE i = 1
    BY <1>3, <2>1 DEF ViolationsAt
  <2>2. CASE i # 1
    <3>1. i \in 2..Len(es)
      BY <1>1, <2>2
    <3> QED
      BY <1>3, <1>4, <2>2, <3>1 DEF ViolationsAt
  <2> QED
    BY <2>1, <2>2
<1> HIDE DEF es
<1>6. is_valid(verify_entries_from(a, es)) <=> \A i \in DOMAIN es : ViolationsAt(a, es, i) = {}
  BY NoViolations
<1>7. es # << >> <=> 1 \in 1..Len(es)
  BY <1>1
<1>8. is_valid(verify_entries_from(a, es)) <=> (es # << >> => FirstViolations(a, es[1]) = {})
  BY <1>1, <1>5, <1>6, <1>7
<1> QED
  BY <1>8 DEF es


-----------------------------------------------------------------------------
(* What the invariant gives in one state                                   *)

\* Receipts describe entries of one chain that were not lost.
LEMMA ReceiptsHold ==
  ASSUME TypeOK, SegInv
  PROVE  AckedKept /\ NoFork
<1>1. ASSUME NEW r \in acked
      PROVE  \E e \in Recorded : ReceiptOf(e) = r
  BY DEF SegInv, Receipts
<1>2. AckedKept
  <2> SUFFICES ASSUME NEW r \in acked
               PROVE  \/ \E k \in DOMAIN segs : \E e \in Range(segs[k]) : ReceiptOf(e) = r
                      \/ \E e \in removed : ReceiptOf(e) = r
    BY DEF AckedKept
  <2>1. PICK e \in Recorded : ReceiptOf(e) = r
    BY <1>1
  <2> QED
    BY <2>1 DEF Recorded, Held
<1>3. NoFork
  <2> SUFFICES ASSUME NEW r \in acked, NEW q \in acked, r.seq <= q.seq
               PROVE  IsPrefix(r.entry_hash, q.entry_hash)
    BY DEF NoFork
  <2>1. PICK e \in Recorded : ReceiptOf(e) = r
    BY <1>1
  <2>2. PICK f \in Recorded : ReceiptOf(f) = q
    BY <1>1
  <2>3. /\ e.seq = r.seq /\ e.entry_hash = r.entry_hash
        /\ f.seq = q.seq /\ f.entry_hash = q.entry_hash
    BY <2>1, <2>2 DEF ReceiptOf
  <2> QED
    BY <2>3 DEF SegInv, OneChain
<1> QED
  BY <1>2, <1>3

\* Unless a prune died, the anchor is where the directory continues from.
LEMMA AnchorFits ==
  ASSUME TypeOK, SegInv
  PROVE  AnchorVerifies
<1> DEFINE es == read_all_segmented
<1> SUFFICES ASSUME pruner = "idle", ~unanchored, es # << >>
             PROVE  FirstViolations(anchor, es[1]) = {}
  BY ValidFrom DEF AnchorVerifies
<1>0. SegTypeOK /\ Numbered /\ Adjoining /\ OneChain
  BY DEF TypeOK, SegInv
<1>1. es \in Seq(AuditEntry)
  BY <1>0, ReadAll
<1>2. 1 \in 1..Len(es)
  BY <1>1
<1>3. es[1] \in Held
  BY <1>0, <1>2, ReadAll
<1>4. PICK F \in DOMAIN segs : IsFirst(F, DOMAIN segs)
  <2>1. DOMAIN segs # {}
    BY <1>3 DEF Held
  <2> QED
    BY <1>0, <2>1, HasFirst DEF SegTypeOK
<1>5. es[1].seq = F /\ F \in Nat
  <2>1. es[1].seq = F + 1 - 1
    BY <1>0, <1>2, <1>4, ReadAll
  <2>2. F \in Nat
    BY <1>0 DEF SegTypeOK
  <2> QED
    BY <2>1, <2>2
<1>6. AnchorAt(F)
  <2>1. deleted_any \in BOOLEAN /\ ~deleted_any
    BY DEF TypeOK, SegInv, Anchored
  <2> QED
    BY <1>4, <2>1 DEF SegInv, Anchored
<1>7. CASE F = 1
  <2>1. anchor = NoAnchor
    BY <1>6, <1>7 DEF AnchorAt
  <2>2. es[1].prev_hash = GENESIS_PREV_HASH
    BY <1>0, <1>3, <1>5, <1>7, LinkedToGenesis DEF Recorded
  <2> QED
    BY <1>5, <1>7, <2>1, <2>2 DEF FirstViolations, NoAnchor
<1>8. CASE F # 1
  <2>1. anchor = SomeAnchor(F - 1, segs[F][1].prev_hash)
    BY <1>6, <1>8 DEF AnchorAt
  <2>2. segs[F] # << >> /\ Len(segs[F]) >= 1 /\ segs[F][1].seq = F
    BY <1>0, <1>4, <1>8, FirstFilled
  <2>3. segs[F][1] \in Held
    BY <1>0, <2>2, Within
  <2>4. es[1].prev_hash = segs[F][1].prev_hash
    BY <1>0, <1>3, <1>5, <2>2, <2>3, SameNumber DEF Recorded
  <2>5. es[1].seq = (F - 1) + 1
    BY <1>5
  <2> QED
    BY <2>1, <2>4, <2>5 DEF FirstViolations, SomeAnchor
<1> QED
  BY <1>7, <1>8

\* An anchor is accepted when, and only when, it is the entry before the cut.
LEMMA AnchorsFit ==
  ASSUME TypeOK, SegInv
  PROVE  OnlyBoundaryAnchors
<1> DEFINE es == read_all_segmented
<1> SUFFICES ASSUME es # << >>
             PROVE  /\ \A cp \in Checkpoints : VerifyWithAnchor(es, cp) <=> cp.seq + 1 = es[1].seq
                    /\ is_valid(verify_entries(es)) <=> es[1].seq = 1
  BY DEF OnlyBoundaryAnchors
<1>0. SegTypeOK /\ Numbered /\ Adjoining /\ OneChain
  BY DEF TypeOK, SegInv
<1>1. es \in Seq(AuditEntry)
  BY <1>0, ReadAll
<1>2. 1 \in 1..Len(es)
  BY <1>1
<1>3. es[1] \in Recorded
  BY <1>0, <1>2, ReadAll DEF Recorded
<1>4. is_valid(verify_entries(es)) <=> es[1].seq = 1
  <2>1. is_valid(verify_entries(es)) <=> FirstViolations(NoAnchor, es[1]) = {}
    BY ValidFrom DEF verify_entries
  <2>2. es[1].seq = 1 => es[1].prev_hash = GENESIS_PREV_HASH
    BY <1>0, <1>3, LinkedToGenesis
  <2> HIDE DEF es
  <2>3. FirstViolations(NoAnchor, es[1]) = {} <=> es[1].prev_hash = GENESIS_PREV_HASH /\ es[1].seq = 1
    BY DEF FirstViolations, NoAnchor
  <2> QED
    BY <2>1, <2>2, <2>3
<1>5. ASSUME NEW cp \in Checkpoints
      PROVE  VerifyWithAnchor(es, cp) <=> cp.seq + 1 = es[1].seq
  <2>1. /\ verify_checkpoint(cp) /\ cp.seq \in Nat
        /\ es[1].seq = cp.seq + 1 => es[1].prev_hash = cp.head_hash
    <3>1. CASE cp = sign("server", 0, GENESIS_PREV_HASH, 0)
      <4>1. cp.seq = 0 /\ cp.head_hash = GENESIS_PREV_HASH
        BY <3>1 DEF sign
      <4>2. verify_checkpoint(cp)
        BY <3>1 DEF sign, verify_checkpoint, verify_checkpoint_with, verify_signature, sign_bytes
      <4> QED
        BY <1>0, <1>3, <4>1, <4>2, LinkedToGenesis
    <3>2. CASE \E e \in removed \cup Range(es) : cp = sign("server", e.seq, e.entry_hash, e.timestamp)
      <4>1. PICK e \in removed \cup Range(es) : cp = sign("server", e.seq, e.entry_hash, e.timestamp)
        BY <3>2
      <4>2. e \in Recorded
        <5>1. CASE e \in removed
          BY <5>1 DEF Recorded
        <5>2. CASE e \in Range(es)
          <6>1. PICK i \in DOMAIN es : e = es[i]
            BY <5>2 DEF Range
          <6>2. i \in 1..Len(es)
            BY <1>1, <6>1
          <6> QED
            BY <1>0, <6>1, <6>2, ReadAll DEF Recorded
        <5> QED
          BY <5>1, <5>2
      <4>3. cp.seq = e.seq /\ cp.head_hash = e.entry_hash
        BY <4>1 DEF sign
      <4>4. verify_checkpoint(cp)
        BY <4>1 DEF sign, verify_checkpoint, verify_checkpoint_with, verify_signature, sign_bytes
      <4>5. e.seq \in Nat
        BY <4>2, RecordedType
      <4> QED
        BY <1>0, <1>3, <4>2, <4>3, <4>4, <4>5, Linked
    <3> QED
      BY <3>1, <3>2 DEF Checkpoints
  <2>2. VerifyWithAnchor(es, cp) <=> FirstViolations(SomeAnchor(cp.seq, cp.head_hash), es[1]) = {}
    BY <2>1, ValidFrom DEF VerifyWithAnchor
  <2> HIDE DEF es
  <2>3. FirstViolations(SomeAnchor(cp.seq, cp.head_hash), es[1]) = {} <=>
          es[1].prev_hash = cp.head_hash /\ es[1].seq = cp.seq + 1
    BY DEF FirstViolations, SomeAnchor
  <2> QED
    BY <2>1, <2>2, <2>3
<1> QED
  BY <1>4, <1>5

\* What a finished reading holds is linked.
LEMMA ReadsLinked ==
  ASSUME TypeOK, SegInv
  PROVE  ReadContiguous
<1> SUFFICES ASSUME rd = "ok", NEW i \in 2..Len(rout)
             PROVE  LinkViolations(rout[i - 1], rout[i]) = {}
  BY DEF ReadContiguous
<1>1. rout \in Seq(AuditEntry)
  BY DEF TypeOK
<1>2. i \in DOMAIN rout /\ i - 1 \in DOMAIN rout
  BY <1>1
<1>3. rout[i] \in Recorded /\ rout[i - 1] \in Recorded /\ rout[i].seq = rout[i - 1].seq + 1
  BY <1>2 DEF SegInv, Reading
<1>4. rout[i].prev_hash = rout[i - 1].entry_hash
  BY <1>3, Linked DEF SegInv
<1> QED
  BY <1>3, <1>4 DEF LinkViolations


-----------------------------------------------------------------------------
(* Theorems, for a directory whose prunes name a boundary the log has      *)
(* reached: with one above the head a prune may delete every entry, and    *)
(* the run SegmentBeyond shows the chain begin again.                      *)

\* The inductive invariant: whatever is appended, rotated, pruned, killed and
\* reopened, the files adjoin, everything recorded is on one chain, and the
\* writer, the pruner and the reader know their place on it.
THEOREM SegmentInvariant ==
  ASSUME BeyondHead = FALSE
  PROVE  Spec => [](TypeOK /\ SegInv)
<1>1. Init => TypeOK /\ SegInv
  BY TypeInit, SegInitial
<1>2. TypeOK /\ SegInv /\ [Next]_vars => TypeOK' /\ SegInv'
  <2> SUFFICES ASSUME TypeOK, SegInv, [Next]_vars PROVE TypeOK' /\ SegInv'
    OBVIOUS
  <2>1. AtTail /\ Numbered /\ Adjoining /\ Pruning
    BY DEF SegInv
  <2> QED
    BY <2>1, TypeStep, SegStep
<1> QED
  BY <1>1, <1>2, PTL DEF Spec

\* The segmented store's types: in particular no segment file outgrows the
\* largest CHAINLOG_SEGMENT_MAX_ENTRIES a server ran with (append's rotation).
THEOREM SegmentTypes ==
  ASSUME BeyondHead = FALSE
  PROVE  Spec => []TypeOK
<1>1. TypeOK /\ SegInv => TypeOK
  OBVIOUS
<1> QED
  BY <1>1, SegmentInvariant, PTL

\* An acknowledged entry is in the directory until a prune deletes it: no
\* append goes to an unlinked file.
THEOREM SegmentKeepsAcked ==
  ASSUME BeyondHead = FALSE
  PROVE  Spec => []AckedKept
<1>1. TypeOK /\ SegInv => AckedKept
  BY ReceiptsHold
<1> QED
  BY <1>1, SegmentInvariant, PTL

\* Acknowledged entries are on one branch across rotations, prunes and
\* restarts that find an empty last segment.
THEOREM SegmentNeverForks ==
  ASSUME BeyondHead = FALSE
  PROVE  Spec => []NoFork
<1>1. TypeOK /\ SegInv => NoFork
  BY ReceiptsHold
<1> QED
  BY <1>1, SegmentInvariant, PTL

\* prune_before and prune_before_timestamp delete no entry they were asked to
\* keep, even when now_ms ran backwards.
THEOREM PruneOnlyOld ==
  ASSUME BeyondHead = FALSE
  PROVE  Spec => OnlyOldRemoved
<1> DEFINE Old == \A e \in removed' \ removed : /\ e.seq < boundary
                                                /\ cutoff # NoCutoff => e.timestamp < cutoff
<1>1. TypeOK /\ SegInv /\ [Next]_vars => [Old]_vars
  BY SegStep
<1>2. OnlyOldRemoved <=> [][Old]_vars
  BY DEF OnlyOldRemoved
<1> HIDE DEF Old
<1> QED
  BY <1>1, <1>2, SegmentInvariant, PTL DEF Spec

\* The anchor prune_before returned verifies what is left of the log, until a
\* later prune deletes and dies.
THEOREM PrunedLogVerifies ==
  ASSUME BeyondHead = FALSE
  PROVE  Spec => []AnchorVerifies
<1>1. TypeOK /\ SegInv => AnchorVerifies
  BY AnchorFits
<1> QED
  BY <1>1, SegmentInvariant, PTL

\* chainlog verify --anchor accepts the checkpoint taken at the cut and no
\* other checkpoint of the log.
THEOREM BoundaryAnchorOnly ==
  ASSUME BeyondHead = FALSE
  PROVE  Spec => []OnlyBoundaryAnchors
<1>1. TypeOK /\ SegInv => OnlyBoundaryAnchors
  BY AnchorsFit
<1> QED
  BY <1>1, SegmentInvariant, PTL

\* A read_all_segmented that races with rotations and prunes ends in an error
\* or in consecutive, linked entries.
THEOREM RacingReadLinks ==
  ASSUME BeyondHead = FALSE
  PROVE  Spec => []ReadContiguous
<1>1. TypeOK /\ SegInv => ReadContiguous
  BY ReadsLinked
<1> QED
  BY <1>1, SegmentInvariant, PTL

\* A reader that reports the error of a file gone missing, as the command line
\* does and the server's read_log does not, has a listing whose last file brings
\* what was acknowledged when it began, or meets the gap (segment.rs,
\* read_all_segmented).
THEOREM ListingsCover ==
  ASSUME BeyondHead = FALSE, "server" \notin Reader
  PROVE  Spec => []Covering
<1>1. Init => Covering
  BY SegInitial
<1>2. TypeOK /\ SegInv /\ Covering /\ [Next]_vars => Covering'
  BY SegStep
<1> QED
  BY <1>1, <1>2, SegmentInvariant, PTL DEF Spec

\* Such a reader ends with everything that was acknowledged when it began.
THEOREM RacingReadCurrent ==
  ASSUME BeyondHead = FALSE, "server" \notin Reader
  PROVE  Spec => []ReadCurrent
<1>1. SegInv /\ Covering => ReadCurrent
  BY DEF SegInv, Reading, Covering, ReadCurrent
<1> QED
  BY <1>1, ListingsCover, SegmentInvariant, PTL
=============================================================================
