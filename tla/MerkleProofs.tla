---------------------------- MODULE MerkleProofs ----------------------------
(***************************************************************************)
(* Merkle trees of every size: each leaf has a proof that verifies and is  *)
(* short, nothing else has one, and a root belongs to one batch only.      *)
(*                                                                         *)
(* The functions of Merkle are recursive.  That each of them exists, and   *)
(* so satisfies its defining equation, is shown first, by joining the      *)
(* functions that satisfy it on inputs up to some size.                    *)
(***************************************************************************)
EXTENDS MerkleLog, ChainLemmas

\* A set of numbers that contains n whenever it contains all smaller numbers
\* contains all numbers.
LEMMA Induct ==
  ASSUME NEW S, \A n \in Nat : (\A j \in Nat : j < n => j \in S) => n \in S
  PROVE  Nat \subseteq S
<1> SUFFICES ASSUME Nat \ S # {} PROVE FALSE
  OBVIOUS
<1>1. PICK m \in Nat \ S : \A j \in Nat \ S : m <= j
  BY Least
<1>2. \A j \in Nat : j < m => j \in S
  BY <1>1
<1> QED
  BY <1>1, <1>2

-----------------------------------------------------------------------------
(* The loop of split_point.                                                *)

\* k_after on the numbers up to n.
KUpTo(g, n) == g = [i \in 0..n |-> IF i = 0 THEN 1 ELSE 2 * g[i - 1]]

\* There is such a function for every n.
LEMMA KUpToExists ==
  ASSUME NEW n \in Nat
  PROVE  \E g : KUpTo(g, n)
<1> DEFINE S == { i \in Nat : \E g : KUpTo(g, i) }
<1>1. ASSUME NEW i \in Nat, \A j \in Nat : j < i => j \in S
      PROVE  i \in S
  <2>1. CASE i = 0
    <3> DEFINE g == [j \in 0..0 |-> 1]
    <3>1. g = [j \in 0..0 |-> IF j = 0 THEN 1 ELSE 2 * g[j - 1]]
      OBVIOUS
    <3>2. KUpTo(g, 0)
      BY <3>1 DEF KUpTo
    <3> HIDE DEF g
    <3> QED
      BY <2>1, <3>2
  <2>2. CASE i > 0
    <3>1. i - 1 \in Nat /\ i - 1 < i
      BY <2>2
    <3>2. PICK g : KUpTo(g, i - 1)
      BY <1>1, <3>1
    <3> DEFINE h == [j \in 0..i |-> IF j = 0 THEN 1 ELSE 2 * g[j - 1]]
    <3>3. \A j \in 0..(i - 1) : g[j] = IF j = 0 THEN 1 ELSE 2 * g[j - 1]
      BY <3>2 DEF KUpTo
    <3>4. \A j \in 0..(i - 1) : h[j] = g[j]
      BY <3>1, <3>3
    <3>5. \A j \in 0..i : h[j] = IF j = 0 THEN 1 ELSE 2 * h[j - 1]
      <4> TAKE j \in 0..i
      <4>1. CASE j = 0
        BY <4>1
      <4>2. CASE j # 0
        <5>1. j - 1 \in 0..(i - 1)
          BY <4>2
        <5>2. h[j - 1] = g[j - 1]
          BY <3>4, <5>1
        <5>3. h[j] = 2 * g[j - 1]
          BY <4>2
        <5> HIDE DEF h
        <5> QED
          BY <4>2, <5>2, <5>3
      <4> QED
        BY <4>1, <4>2
    <3>6. DOMAIN h = 0..i /\ h = [j \in DOMAIN h |-> h[j]]
      OBVIOUS
    <3> HIDE DEF h
    <3>7. KUpTo(h, i)
      BY <3>5, <3>6 DEF KUpTo
    <3> QED
      BY <3>7
  <2> QED
    BY <2>1, <2>2
<1>2. Nat \subseteq S
  <2> HIDE DEF S
  <2> QED
    BY <1>1, Induct
<1> QED
  BY <1>2

\* Two of them agree where both are defined.
LEMMA KUpToAgree ==
  ASSUME NEW m \in Nat, NEW n \in Nat, NEW g, NEW h, KUpTo(g, m), KUpTo(h, n)
  PROVE  \A i \in Nat : i <= m /\ i <= n => g[i] = h[i]
<1> DEFINE S == { i \in Nat : i <= m /\ i <= n => g[i] = h[i] }
<1>1. ASSUME NEW i \in Nat, \A j \in Nat : j < i => j \in S
      PROVE  i \in S
  <2> SUFFICES ASSUME i <= m, i <= n PROVE g[i] = h[i]
    OBVIOUS
  <2>1. i \in 0..m /\ i \in 0..n
    OBVIOUS
  <2>2. /\ g[i] = IF i = 0 THEN 1 ELSE 2 * g[i - 1]
        /\ h[i] = IF i = 0 THEN 1 ELSE 2 * h[i - 1]
    BY <2>1 DEF KUpTo
  <2>3. CASE i = 0
    BY <2>2, <2>3
  <2>4. CASE i # 0
    <3>1. i - 1 \in Nat /\ i - 1 < i /\ i - 1 <= m /\ i - 1 <= n
      BY <2>4
    <3>2. g[i - 1] = h[i - 1]
      BY <1>1, <3>1
    <3> QED
      BY <2>2, <2>4, <3>2
  <2> QED
    BY <2>3, <2>4
<1>2. Nat \subseteq S
  <2> HIDE DEF S
  <2> QED
    BY <1>1, Induct
<1> QED
  BY <1>2

\* k starts at 1 and every turn of the loop doubles it (merkle.rs: split_point).
LEMMA KAfter ==
  /\ k_after[0] = 1
  /\ \A i \in Nat : k_after[i + 1] = 2 * k_after[i]
<1> DEFINE G(n) == CHOOSE g : KUpTo(g, n)
<1>1. \A n \in Nat : KUpTo(G(n), n)
  BY KUpToExists
<1> DEFINE f == [n \in Nat |-> G(n)[n]]
<1> HIDE DEF G
<1>2. \A n \in Nat : f[n] = IF n = 0 THEN 1 ELSE 2 * f[n - 1]
  <2> TAKE n \in Nat
  <2>1. G(n)[n] = IF n = 0 THEN 1 ELSE 2 * G(n)[n - 1]
    <3>1. KUpTo(G(n), n) /\ n \in 0..n
      BY <1>1
    <3> QED
      BY <3>1 DEF KUpTo
  <2>2. CASE n = 0
    BY <2>1, <2>2
  <2>3. CASE n # 0
    <3>1. n - 1 \in Nat /\ n - 1 <= n /\ n - 1 <= n - 1
      BY <2>3
    <3>2. G(n)[n - 1] = G(n - 1)[n - 1]
      BY <1>1, <3>1, KUpToAgree
    <3> QED
      BY <2>1, <2>3, <3>1, <3>2
  <2> QED
    BY <2>2, <2>3
<1>3. DOMAIN f = Nat /\ f = [n \in DOMAIN f |-> f[n]]
  OBVIOUS
<1> HIDE DEF f
<1>4. f = [i \in Nat |-> IF i = 0 THEN 1 ELSE 2 * f[i - 1]]
  BY <1>2, <1>3
<1> DEFINE Fits(g) == g = [i \in Nat |-> IF i = 0 THEN 1 ELSE 2 * g[i - 1]]
<1>5. k_after = CHOOSE g : Fits(g)
  BY DEF k_after
<1>6. Fits(f)
  BY <1>4
<1>7. Fits(k_after)
  <2> HIDE DEF Fits
  <2> QED
    BY <1>5, <1>6
<1>8. \A i \in Nat : k_after[i] = IF i = 0 THEN 1 ELSE 2 * k_after[i - 1]
  BY <1>7
<1>9. \A i \in Nat : i + 1 \in Nat /\ i + 1 # 0 /\ (i + 1) - 1 = i
  OBVIOUS
<1> QED
  BY <1>8, <1>9


\* k is a positive number, and grows at least with the number of turns.
LEMMA KGrows ==
  \A i \in Nat : k_after[i] \in Nat /\ k_after[i] > i
<1> DEFINE S == { i \in Nat : k_after[i] \in Nat /\ k_after[i] > i }
<1>1. ASSUME NEW i \in Nat, \A j \in Nat : j < i => j \in S
      PROVE  i \in S
  <2>1. CASE i = 0
    BY <2>1, KAfter
  <2>2. CASE i # 0
    <3>1. i - 1 \in Nat /\ i - 1 < i /\ (i - 1) + 1 = i
      BY <2>2
    <3>2. i - 1 \in S
      BY <1>1, <3>1
    <3>3. k_after[i] = 2 * k_after[i - 1]
      BY <3>1, KAfter
    <3> QED
      BY <3>1, <3>2, <3>3
  <2> QED
    BY <2>1, <2>2
<1>2. Nat \subseteq S
  <2> HIDE DEF S
  <2> QED
    BY <1>1, Induct
<1> QED
  BY <1>2

\* More turns, larger k.
LEMMA KMonotone ==
  ASSUME NEW i \in Nat, NEW j \in Nat, i <= j
  PROVE  k_after[i] <= k_after[j]
<1> DEFINE S == { d \in Nat : k_after[i] <= k_after[i + d] }
<1>1. ASSUME NEW d \in Nat, \A e \in Nat : e < d => e \in S
      PROVE  d \in S
  <2>1. CASE d = 0
    BY <2>1, KGrows
  <2>2. CASE d # 0
    <3>1. d - 1 \in Nat /\ d - 1 < d /\ i + (d - 1) \in Nat /\ (i + (d - 1)) + 1 = i + d
      BY <2>2
    <3>2. k_after[i] <= k_after[i + (d - 1)]
      BY <1>1, <3>1
    <3>3. k_after[i + d] = 2 * k_after[i + (d - 1)]
      BY <3>1, KAfter
    <3>4. k_after[i] \in Nat /\ k_after[i + (d - 1)] \in Nat
      BY <3>1, KGrows
    <3>5. k_after[i] <= k_after[i + d]
      BY <3>2, <3>3, <3>4
    <3> QED
      BY <3>5
  <2> QED
    BY <2>1, <2>2
<1>2. Nat \subseteq S
  <2> HIDE DEF S
  <2> QED
    BY <1>1, Induct
<1>3. j - i \in Nat /\ i + (j - i) = j
  OBVIOUS
<1> QED
  BY <1>2, <1>3

\* split_point(n) is the largest power of two below n, for n >= 2, as the comment
\* on it in merkle.rs says; so both parts of a batch are smaller than the batch,
\* and the left one is no smaller than the right one.
THEOREM SplitPoint ==
  ASSUME NEW n \in Nat, n >= 2
  PROVE  /\ split_point(n) \in 1..(n - 1)
         /\ n <= 2 * split_point(n)
         /\ \E i \in Nat : split_point(n) = k_after[i]
         /\ \A i \in Nat : k_after[i] < n => k_after[i] <= split_point(n)
<1> DEFINE Ends(i) == ~(2 * k_after[i] < n)
<1> DEFINE S == { i \in Nat : Ends(i) }
<1>1. n \in S
  BY KGrows
<1>2. PICK i \in S : \A j \in S : i <= j
  <2>1. S \subseteq Nat /\ S # {}
    BY <1>1
  <2> HIDE DEF S
  <2> QED
    BY <2>1, Least
<1>3. i \in 0..n /\ Ends(i) /\ \A j \in 0..(i - 1) : ~Ends(j)
  <2>1. i \in Nat /\ i <= n /\ Ends(i)
    BY <1>1, <1>2
  <2>2. \A j \in 0..(i - 1) : j \in Nat /\ j < i
    BY <2>1
  <2>3. \A j \in 0..(i - 1) : j \notin S
    BY <1>2, <2>1, <2>2
  <2> HIDE DEF Ends
  <2> QED
    BY <2>1, <2>2, <2>3
<1> DEFINE First(c) == Ends(c) /\ \A j \in 0..(c - 1) : 2 * k_after[j] < n
<1> DEFINE c == CHOOSE c \in 0..n : First(c)
<1>4. First(i) /\ i \in 0..n
  BY <1>3
<1>5. c \in 0..n /\ First(c)
  <2> HIDE DEF First
  <2> QED
    BY <1>4
<1>6. split_point(n) = k_after[c]
  BY DEF split_point
<1> HIDE DEF c
<1>7. k_after[c] \in Nat /\ k_after[c] > c /\ c \in Nat
  BY <1>5, KGrows
<1>8. n <= 2 * k_after[c]
  BY <1>5, <1>7
<1>9. k_after[c] < n
  <2>1. CASE c = 0
    BY <2>1, KAfter
  <2>2. CASE c # 0
    <3>1. c - 1 \in Nat /\ c - 1 \in 0..(c - 1) /\ (c - 1) + 1 = c
      BY <1>7, <2>2
    <3>2. k_after[c] = 2 * k_after[c - 1]
      BY <3>1, KAfter
    <3> QED
      BY <1>5, <3>1, <3>2
  <2> QED
    BY <2>1, <2>2
<1>10. ASSUME NEW j \in Nat, k_after[j] < n PROVE k_after[j] <= k_after[c]
  <2>1. k_after[c + 1] = 2 * k_after[c] /\ k_after[j] \in Nat /\ c + 1 \in Nat
    BY <1>7, KAfter, KGrows
  <2>2. ~(c + 1 <= j)
    BY <1>7, <1>8, <1>10, <2>1, KGrows, KMonotone
  <2>3. j <= c
    BY <1>7, <2>2
  <2> QED
    BY <1>7, <2>3, KMonotone
<1> QED
  BY <1>6, <1>7, <1>8, <1>9, <1>10

-----------------------------------------------------------------------------
(* The two parts of a batch.                                               *)

\* Left and Right cut a batch in two, in order.
LEMMA Parts ==
  ASSUME NEW s \in Seq(Leaf), Len(s) >= 2
  PROVE  LET k == split_point(Len(s)) IN
         /\ k \in 1..(Len(s) - 1)
         /\ Left(s) \in Seq(Leaf) /\ Len(Left(s)) = k
         /\ \A i \in 1..k : Left(s)[i] = s[i]
         /\ Right(s) \in Seq(Leaf) /\ Len(Right(s)) = Len(s) - k
         /\ \A i \in 1..(Len(s) - k) : Right(s)[i] = s[k + i]
<1> DEFINE k == split_point(Len(s))
<1>1. Len(s) \in Nat /\ k \in 1..(Len(s) - 1)
  BY SplitPoint
<1>2. Left(s) = SubSeq(s, 1, k) /\ Right(s) = SubSeq(s, k + 1, Len(s))
  BY DEF Left, Right
<1> HIDE DEF k
<1>3. /\ SubSeq(s, 1, k) \in Seq(Leaf) /\ Len(SubSeq(s, 1, k)) = k
      /\ \A i \in 1..k : SubSeq(s, 1, k)[i] = s[i]
  BY <1>1
<1>4. /\ SubSeq(s, k + 1, Len(s)) \in Seq(Leaf) /\ Len(SubSeq(s, k + 1, Len(s))) = Len(s) - k
      /\ \A i \in 1..(Len(s) - k) : SubSeq(s, k + 1, Len(s))[i] = s[k + i]
  BY <1>1
<1>5. /\ k \in 1..(Len(s) - 1)
      /\ Left(s) \in Seq(Leaf) /\ Len(Left(s)) = k
      /\ \A i \in 1..k : Left(s)[i] = s[i]
      /\ Right(s) \in Seq(Leaf) /\ Len(Right(s)) = Len(s) - k
      /\ \A i \in 1..(Len(s) - k) : Right(s)[i] = s[k + i]
  BY <1>1, <1>2, <1>3, <1>4
<1> QED
  BY <1>5 DEF k

\* A batch is empty, a single leaf, or has two parts.
LEMMA Sizes ==
  ASSUME NEW s \in Seq(Leaf)
  PROVE  /\ Len(s) >= 2 => Len(s) # 0 /\ Len(s) # 1
         /\ Len(s) = 0 \/ Len(s) = 1 \/ Len(s) >= 2
<1>1. Len(s) \in Nat
  OBVIOUS
<1>2. \A n \in Nat : (n >= 2 => n # 0 /\ n # 1) /\ (n = 0 \/ n = 1 \/ n >= 2)
  OBVIOUS
<1> QED
  BY <1>1, <1>2, Zenon

\* The parts determine the batch.
LEMMA PartsDetermine ==
  ASSUME NEW s \in Seq(Leaf), NEW t \in Seq(Leaf), Len(s) >= 2, Len(t) >= 2,
         Left(s) = Left(t), Right(s) = Right(t)
  PROVE  s = t
<1> DEFINE k == split_point(Len(s))
<1>1. /\ k \in 1..(Len(s) - 1)
      /\ Len(Left(s)) = k
      /\ \A i \in 1..k : Left(s)[i] = s[i]
      /\ Len(Right(s)) = Len(s) - k
      /\ \A i \in 1..(Len(s) - k) : Right(s)[i] = s[k + i]
  BY Parts
<1>2. /\ split_point(Len(t)) = k /\ Len(t) - k = Len(s) - k
      /\ \A i \in 1..k : Left(s)[i] = t[i]
      /\ \A i \in 1..(Len(s) - k) : Right(s)[i] = t[k + i]
  <2>1. /\ Len(Left(t)) = split_point(Len(t))
        /\ \A i \in 1..split_point(Len(t)) : Left(t)[i] = t[i]
        /\ Len(Right(t)) = Len(t) - split_point(Len(t))
        /\ \A i \in 1..(Len(t) - split_point(Len(t))) : Right(t)[i] = t[split_point(Len(t)) + i]
    BY Parts
  <2>2. split_point(Len(t)) = k
    BY <1>1, <2>1
  <2> QED
    BY <1>1, <2>1, <2>2
<1> HIDE DEF k
<1>3. Len(t) = Len(s)
  BY <1>1, <1>2
<1>4. ASSUME NEW i \in 1..Len(s) PROVE s[i] = t[i]
  <2>1. CASE i <= k
    BY <1>1, <1>2, <2>1
  <2>2. CASE i > k
    <3>1. i - k \in 1..(Len(s) - k) /\ k + (i - k) = i
      BY <1>1, <2>2
    <3> QED
      BY <1>1, <1>2, <3>1
  <2> QED
    BY <1>1, <2>1, <2>2
<1> QED
  BY <1>3, <1>4, SeqEqual


-----------------------------------------------------------------------------
(* The root of a batch.                                                    *)

\* What mth computes for a batch, given a function g for smaller ones.
MthStep(g, s) ==
  CASE Len(s) = 0 -> << "empty" >>
    [] Len(s) = 1 -> leaf_hash(s[1])
    [] OTHER      -> node_hash(g[Left(s)], g[Right(s)])

\* Batches of at most n leaves.
UpTo(n) == { s \in Seq(Leaf) : Len(s) <= n }

\* mth on batches of at most n leaves.
MthUpTo(g, n) == g = [s \in UpTo(n) |-> MthStep(g, s)]

\* A step depends on smaller batches only.
LEMMA MthStepLocal ==
  ASSUME NEW s \in Seq(Leaf), NEW g, NEW h,
         \A t \in Seq(Leaf) : Len(t) < Len(s) => g[t] = h[t]
  PROVE  MthStep(g, s) = MthStep(h, s)
<1>0. /\ Len(s) >= 2 => Len(s) # 0 /\ Len(s) # 1
      /\ Len(s) = 0 \/ Len(s) = 1 \/ Len(s) >= 2
  BY Sizes
<1>1. CASE Len(s) = 0
  BY <1>1 DEF MthStep
<1>2. CASE Len(s) = 1
  BY <1>2 DEF MthStep
<1>3. CASE Len(s) >= 2
  <2>1. /\ Left(s) \in Seq(Leaf) /\ Len(Left(s)) < Len(s)
        /\ Right(s) \in Seq(Leaf) /\ Len(Right(s)) < Len(s)
    BY <1>3, Parts
  <2>2. g[Left(s)] = h[Left(s)] /\ g[Right(s)] = h[Right(s)]
    BY <2>1
  <2>3. Len(s) # 0 /\ Len(s) # 1
    BY <1>0, <1>3
  <2>4. \A f : MthStep(f, s) = node_hash(f[Left(s)], f[Right(s)])
    BY <2>3 DEF MthStep
  <2> QED
    BY <2>2, <2>4
<1> QED
  BY <1>0, <1>1, <1>2, <1>3

\* There is such a function for every n.
LEMMA MthUpToExists ==
  ASSUME NEW n \in Nat
  PROVE  \E g : MthUpTo(g, n)
<1> DEFINE S == { i \in Nat : \E g : MthUpTo(g, i) }
<1>1. ASSUME NEW i \in Nat, \A j \in Nat : j < i => j \in S
      PROVE  i \in S
  <2>1. PICK g : i # 0 => MthUpTo(g, i - 1)
    <3>1. CASE i = 0
      BY <3>1
    <3>2. CASE i # 0
      <4>1. i - 1 \in Nat /\ i - 1 < i
        BY <3>2
      <4> QED
        BY <1>1, <4>1
    <3> QED
      BY <3>1, <3>2
  <2> DEFINE h == [s \in UpTo(i) |-> MthStep(g, s)]
  <2>2. ASSUME NEW s \in UpTo(i), NEW t \in Seq(Leaf), Len(t) < Len(s)
        PROVE  g[t] = h[t]
    <3>1. Len(s) \in Nat /\ Len(t) \in Nat /\ Len(s) <= i
      BY DEF UpTo
    <3>2. i # 0 /\ Len(t) <= i - 1 /\ Len(t) <= i
      BY <2>2, <3>1
    <3>3. t \in UpTo(i - 1) /\ t \in UpTo(i)
      BY <3>2 DEF UpTo
    <3>4. g[t] = MthStep(g, t)
      BY <2>1, <3>2, <3>3 DEF MthUpTo
    <3>5. h[t] = MthStep(g, t)
      BY <3>3
    <3> QED
      BY <3>4, <3>5
  <2>3. \A s \in UpTo(i) : h[s] = MthStep(g, s)
    OBVIOUS
  <2>4. DOMAIN h = UpTo(i) /\ h = [s \in DOMAIN h |-> h[s]]
    OBVIOUS
  <2> HIDE DEF h
  <2>5. \A s \in UpTo(i) : h[s] = MthStep(h, s)
    <3> TAKE s \in UpTo(i)
    <3>1. s \in Seq(Leaf)
      BY DEF UpTo
    <3>2. MthStep(g, s) = MthStep(h, s)
      BY <2>2, <3>1, MthStepLocal
    <3> QED
      BY <2>3, <3>2
  <2>6. MthUpTo(h, i)
    BY <2>4, <2>5 DEF MthUpTo
  <2> QED
    BY <2>6
<1>2. Nat \subseteq S
  <2> HIDE DEF S
  <2> QED
    BY <1>1, Induct
<1> QED
  BY <1>2

\* Two of them agree where both are defined.
LEMMA MthUpToAgree ==
  ASSUME NEW m \in Nat, NEW n \in Nat, NEW g, NEW h, MthUpTo(g, m), MthUpTo(h, n)
  PROVE  \A s \in Seq(Leaf) : Len(s) <= m /\ Len(s) <= n => g[s] = h[s]
<1> DEFINE S == { i \in Nat : \A s \in Seq(Leaf) : Len(s) = i /\ i <= m /\ i <= n => g[s] = h[s] }
<1>1. ASSUME NEW i \in Nat, \A j \in Nat : j < i => j \in S
      PROVE  i \in S
  <2> SUFFICES ASSUME NEW s \in Seq(Leaf), Len(s) = i, i <= m, i <= n
               PROVE  g[s] = h[s]
    OBVIOUS
  <2>1. \A t \in Seq(Leaf) : Len(t) < Len(s) => g[t] = h[t]
    BY <1>1
  <2>2. s \in UpTo(m) /\ s \in UpTo(n)
    BY DEF UpTo
  <2>3. g[s] = MthStep(g, s) /\ h[s] = MthStep(h, s)
    BY <2>2 DEF MthUpTo
  <2> QED
    BY <2>1, <2>3, MthStepLocal
<1>2. Nat \subseteq S
  <2> HIDE DEF S
  <2> QED
    BY <1>1, Induct
<1> QED
  BY <1>2

\* mth satisfies its defining equation (merkle.rs: mth).
LEMMA Mth ==
  ASSUME NEW s \in Seq(Leaf)
  PROVE  mth[s] = MthStep(mth, s)
<1> DEFINE G(n) == CHOOSE g : MthUpTo(g, n)
<1>1. \A n \in Nat : MthUpTo(G(n), n)
  BY MthUpToExists
<1> DEFINE f == [t \in Seq(Leaf) |-> G(Len(t))[t]]
<1> HIDE DEF G
<1>2. \A t \in Seq(Leaf) : f[t] = G(Len(t))[t]
  OBVIOUS
<1>3. DOMAIN f = Seq(Leaf) /\ f = [t \in DOMAIN f |-> f[t]]
  OBVIOUS
<1> HIDE DEF f
<1>4. \A t \in Seq(Leaf) : f[t] = MthStep(f, t)
  <2> TAKE t \in Seq(Leaf)
  <2> DEFINE g == G(Len(t))
  <2>1. Len(t) \in Nat /\ MthUpTo(g, Len(t))
    BY <1>1
  <2>2. g[t] = MthStep(g, t)
    <3>1. t \in UpTo(Len(t))
      BY <2>1 DEF UpTo
    <3> HIDE DEF g
    <3> QED
      BY <2>1, <3>1 DEF MthUpTo
  <2>3. ASSUME NEW u \in Seq(Leaf), Len(u) < Len(t) PROVE g[u] = f[u]
    <3>1. Len(u) \in Nat /\ Len(u) <= Len(t) /\ Len(u) <= Len(u)
      BY <2>1, <2>3
    <3>2. MthUpTo(G(Len(u)), Len(u))
      BY <1>1, <3>1
    <3>3. g[u] = G(Len(u))[u]
      <4> HIDE DEF g
      <4> QED
        BY <2>1, <3>1, <3>2, MthUpToAgree
    <3> QED
      BY <1>2, <3>3
  <2>4. MthStep(g, t) = MthStep(f, t)
    <3> HIDE DEF g
    <3> QED
      BY <2>3, MthStepLocal
  <2> QED
    BY <1>2, <2>2, <2>4
<1> DEFINE Fits(g) == g = [t \in Seq(Leaf) |-> MthStep(g, t)]
<1>5. mth = CHOOSE g : Fits(g)
  BY DEF mth, MthStep
<1>6. Fits(f)
  BY <1>3, <1>4
<1>7. Fits(mth)
  <2> HIDE DEF Fits
  <2> QED
    BY <1>5, <1>6
<1> QED
  BY <1>7

\* The three cases of mth.
LEMMA MthCases ==
  ASSUME NEW s \in Seq(Leaf)
  PROVE  /\ Len(s) = 0 => mth[s] = << "empty" >>
         /\ Len(s) = 1 => mth[s] = leaf_hash(s[1])
         /\ Len(s) >= 2 => mth[s] = node_hash(mth[Left(s)], mth[Right(s)])
<1>0. /\ Len(s) >= 2 => Len(s) # 0 /\ Len(s) # 1
      /\ Len(s) = 0 \/ Len(s) = 1 \/ Len(s) >= 2
  BY Sizes
<1>1. ASSUME Len(s) = 0 PROVE mth[s] = << "empty" >>
  <2>1. Len(s) # 1
    BY <1>1
  <2> QED
    BY <1>1, <2>1, Mth DEF MthStep
<1>2. ASSUME Len(s) = 1 PROVE mth[s] = leaf_hash(s[1])
  <2>1. Len(s) # 0
    BY <1>2
  <2> QED
    BY <1>2, <2>1, Mth DEF MthStep
<1>3. ASSUME Len(s) >= 2 PROVE mth[s] = node_hash(mth[Left(s)], mth[Right(s)])
  <2>1. Len(s) # 0 /\ Len(s) # 1
    BY <1>0, <1>3
  <2> QED
    BY <2>1, Mth DEF MthStep
<1> QED
  BY <1>1, <1>2, <1>3


-----------------------------------------------------------------------------
(* Climbing a path.                                                        *)

\* The hash after i steps.
ClimbStep(g, d, p, i) == IF i = 0 THEN leaf_hash(d) ELSE Parent(g[i - 1], p[i])

\* The hashes after each of the first n steps.
ClimbUpTo(g, d, p, n) == g = [i \in 0..n |-> ClimbStep(g, d, p, i)]

\* There are such hashes for every leaf, path and n.
LEMMA ClimbUpToExists ==
  ASSUME NEW d, NEW p, NEW n \in Nat
  PROVE  \E g : ClimbUpTo(g, d, p, n)
<1> DEFINE S == { i \in Nat : \E g : ClimbUpTo(g, d, p, i) }
<1>1. ASSUME NEW i \in Nat, \A j \in Nat : j < i => j \in S
      PROVE  i \in S
  <2>1. PICK g : i # 0 => ClimbUpTo(g, d, p, i - 1)
    <3>1. CASE i = 0
      BY <3>1
    <3>2. CASE i # 0
      <4>1. i - 1 \in Nat /\ i - 1 < i
        BY <3>2
      <4> QED
        BY <1>1, <4>1
    <3> QED
      BY <3>1, <3>2
  <2> DEFINE h == [j \in 0..i |-> ClimbStep(g, d, p, j)]
  <2>2. \A j \in 0..i : h[j] = ClimbStep(g, d, p, j)
    OBVIOUS
  <2>3. DOMAIN h = 0..i /\ h = [j \in DOMAIN h |-> h[j]]
    OBVIOUS
  <2> HIDE DEF h
  <2>4. ASSUME NEW j \in 0..i PROVE h[j] = ClimbStep(h, d, p, j)
    <3>1. CASE j = 0
      BY <2>2, <3>1 DEF ClimbStep
    <3>2. CASE j # 0
      <4>1. i # 0 /\ j - 1 \in 0..(i - 1) /\ j - 1 \in 0..i
        BY <3>2
      <4>2. g[j - 1] = ClimbStep(g, d, p, j - 1)
        BY <2>1, <4>1 DEF ClimbUpTo
      <4>3. h[j - 1] = ClimbStep(g, d, p, j - 1)
        BY <2>2, <4>1
      <4>4. g[j - 1] = h[j - 1]
        BY <4>2, <4>3
      <4> QED
        BY <2>2, <3>2, <4>4 DEF ClimbStep
    <3> QED
      BY <3>1, <3>2
  <2>5. ClimbUpTo(h, d, p, i)
    BY <2>3, <2>4 DEF ClimbUpTo
  <2> QED
    BY <2>5
<1>2. Nat \subseteq S
  <2> HIDE DEF S
  <2> QED
    BY <1>1, Induct
<1> QED
  BY <1>2

\* Along paths with a common beginning they agree.
LEMMA ClimbUpToAgree ==
  ASSUME NEW d, NEW p, NEW q, NEW m \in Nat, NEW n \in Nat, n <= m,
         \A i \in 1..n : p[i] = q[i],
         NEW g, NEW h, ClimbUpTo(g, d, p, m), ClimbUpTo(h, d, q, n)
  PROVE  g[n] = h[n]
<1> DEFINE S == { i \in Nat : i <= n => g[i] = h[i] }
<1>1. ASSUME NEW i \in Nat, \A j \in Nat : j < i => j \in S
      PROVE  i \in S
  <2> SUFFICES ASSUME i <= n PROVE g[i] = h[i]
    OBVIOUS
  <2>1. i \in 0..m /\ i \in 0..n
    OBVIOUS
  <2>2. g[i] = ClimbStep(g, d, p, i) /\ h[i] = ClimbStep(h, d, q, i)
    BY <2>1 DEF ClimbUpTo
  <2>3. CASE i = 0
    BY <2>2, <2>3 DEF ClimbStep
  <2>4. CASE i # 0
    <3>1. i - 1 \in Nat /\ i - 1 < i /\ i - 1 <= n /\ i \in 1..n
      BY <2>4
    <3>2. g[i - 1] = h[i - 1] /\ p[i] = q[i]
      BY <1>1, <3>1
    <3> QED
      BY <2>2, <2>4, <3>2 DEF ClimbStep
  <2> QED
    BY <2>3, <2>4
<1>2. Nat \subseteq S
  <2> HIDE DEF S
  <2> QED
    BY <1>1, Induct
<1> QED
  BY <1>2

\* Climb returns the last of them (merkle.rs: the loop of verify_merkle_proof).
LEMMA ClimbIs ==
  ASSUME NEW d, NEW T, NEW p \in Seq(T)
  PROVE  \E g : ClimbUpTo(g, d, p, Len(p)) /\ Climb(d, p) = g[Len(p)]
<1> DEFINE g == CHOOSE g1 : ClimbUpTo(g1, d, p, Len(p))
<1>1. Len(p) \in Nat
  OBVIOUS
<1>2. ClimbUpTo(g, d, p, Len(p))
  BY <1>1, ClimbUpToExists
<1>3. Climb(d, p) = g[Len(p)]
  BY DEF Climb, ClimbUpTo, ClimbStep
<1> HIDE DEF g
<1> QED
  BY <1>2, <1>3

\* Without steps the hash is the leaf's.
LEMMA ClimbNothing ==
  ASSUME NEW d, NEW T, NEW p \in Seq(T), Len(p) = 0
  PROVE  Climb(d, p) = leaf_hash(d)
<1>1. PICK g : ClimbUpTo(g, d, p, Len(p)) /\ Climb(d, p) = g[Len(p)]
  BY ClimbIs
<1>2. g[0] = ClimbStep(g, d, p, 0)
  BY <1>1 DEF ClimbUpTo
<1> QED
  BY <1>1, <1>2 DEF ClimbStep

\* One more step leads to the parent.
LEMMA ClimbOne ==
  ASSUME NEW d, NEW T, NEW p \in Seq(T), NEW q \in Seq(T), Len(q) = Len(p) + 1,
         \A i \in 1..Len(p) : q[i] = p[i]
  PROVE  Climb(d, q) = Parent(Climb(d, p), q[Len(q)])
<1> DEFINE m == Len(q)
<1> DEFINE n == Len(p)
<1>1. m \in Nat /\ n \in Nat /\ m = n + 1
  OBVIOUS
<1>2. PICK g : ClimbUpTo(g, d, q, m) /\ Climb(d, q) = g[m]
  BY ClimbIs
<1>3. PICK h : ClimbUpTo(h, d, p, n) /\ Climb(d, p) = h[n]
  BY ClimbIs
<1>4. \A i \in 1..n : q[i] = p[i]
  OBVIOUS
<1> HIDE DEF m, n
<1>5. n <= m /\ m \in 0..m /\ m # 0 /\ m - 1 = n
  BY <1>1
<1>6. g[n] = h[n]
  BY <1>1, <1>2, <1>3, <1>4, <1>5, ClimbUpToAgree
<1>7. g[m] = ClimbStep(g, d, q, m)
  BY <1>2, <1>5 DEF ClimbUpTo
<1>8. g[m] = Parent(g[n], q[m])
  BY <1>5, <1>7 DEF ClimbStep
<1> QED
  BY <1>2, <1>3, <1>6, <1>8 DEF m

\* The last step of a path comes last.
LEMMA ClimbFront ==
  ASSUME NEW d, NEW T, NEW q \in Seq(T), Len(q) # 0
  PROVE  Climb(d, q) = Parent(Climb(d, SubSeq(q, 1, Len(q) - 1)), q[Len(q)])
<1>1. \A p \in Seq(T) : /\ Len(q) = Len(p) + 1
                        /\ \A i \in 1..Len(p) : q[i] = p[i]
        => Climb(d, q) = Parent(Climb(d, p), q[Len(q)])
  BY ClimbOne
<1> DEFINE n == Len(q) - 1
<1> DEFINE p == SubSeq(q, 1, n)
<1>2. n \in Nat /\ Len(q) = n + 1
  OBVIOUS
<1> HIDE DEF n
<1>3. p \in Seq(T) /\ Len(p) = n /\ \A i \in 1..n : q[i] = p[i]
  BY <1>2
<1> HIDE DEF p
<1>4. Len(q) = Len(p) + 1 /\ \A i \in 1..Len(p) : q[i] = p[i]
  BY <1>2, <1>3
<1>5. Climb(d, q) = Parent(Climb(d, p), q[Len(q)])
  BY <1>1, <1>3, <1>4
<1> QED
  BY <1>5 DEF p, n

-----------------------------------------------------------------------------
(* What a hash tells of the bytes it is made of.                           *)

\* The domain prefix tells the hashes of the empty batch, of leaves and of
\* inner nodes apart, and each determines its input (merkle.rs: leaf_hash and
\* node_hash).
LEMMA HashesApart ==
  /\ \A d : leaf_hash(d) # << "empty" >>
  /\ \A l, r : node_hash(l, r) # << "empty" >>
  /\ \A d, l, r : leaf_hash(d) # node_hash(l, r)
  /\ \A d, e : leaf_hash(d) = leaf_hash(e) => d = e
  /\ \A l, r, l1, r1 : node_hash(l, r) = node_hash(l1, r1) => l = l1 /\ r = r1
<1>1. \A a, b : << a, b >> # << "empty" >>
  OBVIOUS
<1>2. \A a, b, a1, b1 : << a, b >> = << a1, b1 >> => a = a1 /\ b = b1
  OBVIOUS
<1>3. "0x00" # "0x01"
  OBVIOUS
<1>4. /\ \A d : leaf_hash(d) = << "0x00", d >>
      /\ \A l, r : node_hash(l, r) = << "0x01", << l, r >> >>
  BY DEF leaf_hash, node_hash, blake3, NodeBytes
<1>5. \A d, l, r : leaf_hash(d) # node_hash(l, r)
  BY <1>2, <1>3, <1>4, Zenon
<1>6. \A d, e : leaf_hash(d) = leaf_hash(e) => d = e
  BY <1>2, <1>4, Zenon
<1>7. \A l, r, l1, r1 : node_hash(l, r) = node_hash(l1, r1) => l = l1 /\ r = r1
  BY <1>2, <1>4, Zenon
<1> QED
  BY <1>1, <1>4, <1>5, <1>6, <1>7, Zenon

\* The root of a batch tells which of the three cases it comes from, and what
\* was hashed.
LEMMA RootShape ==
  ASSUME NEW t \in Seq(Leaf)
  PROVE  /\ mth[t] = << "empty" >> => Len(t) = 0
         /\ \A d : mth[t] = leaf_hash(d) => Len(t) = 1 /\ t[1] = d
         /\ \A l, r : mth[t] = node_hash(l, r) =>
              Len(t) >= 2 /\ mth[Left(t)] = l /\ mth[Right(t)] = r
<1>1. CASE Len(t) = 0
  <2>1. mth[t] = << "empty" >>
    BY <1>1, MthCases
  <2>2. /\ \A d : mth[t] # leaf_hash(d)
        /\ \A l, r : mth[t] # node_hash(l, r)
    BY <2>1, HashesApart
  <2> QED
    BY <1>1, <2>2
<1>2. CASE Len(t) = 1
  <2>1. mth[t] = leaf_hash(t[1])
    BY <1>2, MthCases
  <2>2. mth[t] # << "empty" >> /\ \A l, r : mth[t] # node_hash(l, r)
    BY <2>1, HashesApart
  <2>3. \A d : mth[t] = leaf_hash(d) => t[1] = d
    BY <2>1, HashesApart
  <2> QED
    BY <1>2, <2>2, <2>3
<1>3. CASE Len(t) >= 2
  <2>1. mth[t] = node_hash(mth[Left(t)], mth[Right(t)])
    BY <1>3, MthCases
  <2>2. mth[t] # << "empty" >> /\ \A d : mth[t] # leaf_hash(d)
    BY <2>1, HashesApart
  <2>3. ASSUME NEW l, NEW r, mth[t] = node_hash(l, r)
        PROVE  mth[Left(t)] = l /\ mth[Right(t)] = r
    <3>1. node_hash(mth[Left(t)], mth[Right(t)]) = node_hash(l, r)
      BY <2>1, <2>3
    <3> QED
      BY <3>1, HashesApart
  <2> QED
    BY <1>3, <2>2, <2>3
<1>4. Len(t) = 0 \/ Len(t) = 1 \/ Len(t) >= 2
  BY Sizes
<1> QED
  BY <1>1, <1>2, <1>3, <1>4

\* A root determines its batch, order and length included: two logs of any
\* length with the same root are equal (merkle.rs: mth; the header's "blocks
\* ... the duplicate-leaf ambiguity of naive Merkle trees").
THEOREM RootInjective ==
  ASSUME NEW s \in Seq(Leaf), NEW t \in Seq(Leaf), mth[s] = mth[t]
  PROVE  s = t
<1> DEFINE S == { n \in Nat : \A u, v \in Seq(Leaf) : Len(u) = n /\ mth[u] = mth[v] => u = v }
<1>1. ASSUME NEW n \in Nat, \A j \in Nat : j < n => j \in S
      PROVE  n \in S
  <2> SUFFICES ASSUME NEW u \in Seq(Leaf), NEW v \in Seq(Leaf), Len(u) = n, mth[u] = mth[v]
               PROVE  u = v
    OBVIOUS
  <2>1. Len(u) = 0 \/ Len(u) = 1 \/ Len(u) >= 2
    BY Sizes
  <2>3. CASE Len(u) = 0
    <3>0. mth[v] = << "empty" >>
      BY <2>3, MthCases
    <3>1. Len(v) = 0
      BY <3>0, RootShape
    <3> QED
      BY <2>3, <3>1, SeqEqual
  <2>4. CASE Len(u) = 1
    <3>1. Len(v) = 1 /\ u[1] = v[1]
      <4>1. mth[v] = leaf_hash(u[1])
        BY <2>4, MthCases
      <4> QED
        BY <4>1, RootShape
    <3>2. \A i \in 1..Len(u) : u[i] = v[i]
      BY <2>4, <3>1
    <3> QED
      BY <2>4, <3>1, <3>2, SeqEqual
  <2>5. CASE Len(u) >= 2
    <3>1. Len(v) >= 2 /\ mth[Left(u)] = mth[Left(v)] /\ mth[Right(u)] = mth[Right(v)]
      <4>1. mth[v] = node_hash(mth[Left(u)], mth[Right(u)])
        BY <2>5, MthCases
      <4> QED
        BY <4>1, RootShape
    <3>2. /\ Left(u) \in Seq(Leaf) /\ Len(Left(u)) \in Nat /\ Len(Left(u)) < n
          /\ Right(u) \in Seq(Leaf) /\ Len(Right(u)) \in Nat /\ Len(Right(u)) < n
      BY <2>5, Parts
    <3>3. Left(v) \in Seq(Leaf) /\ Right(v) \in Seq(Leaf)
      BY <3>1, Parts
    <3>4. Left(u) = Left(v)
      BY <1>1, <3>1, <3>2, <3>3
    <3>5. Right(u) = Right(v)
      BY <1>1, <3>1, <3>2, <3>3
    <3> QED
      BY <2>5, <3>1, <3>4, <3>5, PartsDetermine
  <2> QED
    BY <2>1, <2>3, <2>4, <2>5
<1>2. Nat \subseteq S
  <2> HIDE DEF S
  <2> QED
    BY <1>1, Induct
<1>3. Len(s) \in Nat
  OBVIOUS
<1> QED
  BY <1>2, <1>3

\* Nothing but a leaf of the batch can be proved under its root, whatever the
\* data and whatever the path: no path leads from anything else to the root
\* (merkle.rs: verify_merkle_proof; the header's "blocks second-preimage
\* attacks").
THEOREM OnlyMembers ==
  ASSUME NEW s \in Seq(Leaf), NEW d, NEW T, NEW p \in Seq(T), Climb(d, p) = mth[s]
  PROVE  \E i \in DOMAIN s : s[i] = d
<1> DEFINE S == { n \in Nat : \A q \in Seq(T), t \in Seq(Leaf) :
                    Len(q) = n /\ Climb(d, q) = mth[t] => \E i \in DOMAIN t : t[i] = d }
<1>1. ASSUME NEW n \in Nat, \A j \in Nat : j < n => j \in S
      PROVE  n \in S
  <2> SUFFICES ASSUME NEW q \in Seq(T), NEW t \in Seq(Leaf), Len(q) = n, Climb(d, q) = mth[t]
               PROVE  \E i \in DOMAIN t : t[i] = d
    OBVIOUS
  <2>2. CASE n = 0
    <3>1. Climb(d, q) = leaf_hash(d)
      BY <2>2, ClimbNothing
    <3>2. mth[t] = leaf_hash(d)
      BY <3>1
    <3>3. Len(t) = 1 /\ t[1] = d
      BY <3>2, RootShape
    <3> QED
      BY <3>3
  <2>3. CASE n # 0
    <3> DEFINE p1 == SubSeq(q, 1, n - 1)
    <3>1. n - 1 \in Nat /\ n - 1 < n
      BY <2>3
    <3>2. p1 \in Seq(T) /\ Len(p1) = n - 1 /\ \A i \in 1..Len(p1) : q[i] = p1[i]
      BY <3>1
    <3>3. Climb(d, q) = Parent(Climb(d, p1), q[n])
      <4>1. Len(q) # 0
        BY <2>3
      <4>2. Climb(d, q) = Parent(Climb(d, SubSeq(q, 1, Len(q) - 1)), q[Len(q)])
        BY <4>1, ClimbFront
      <4> QED
        BY <4>2
    <3> HIDE DEF p1
    <3>4. \/ Climb(d, q) = node_hash(Climb(d, p1), q[n].hash)
          \/ Climb(d, q) = node_hash(q[n].hash, Climb(d, p1))
      BY <3>3 DEF Parent
    <3>5. /\ Len(t) >= 2
          /\ Climb(d, p1) = mth[Left(t)] \/ Climb(d, p1) = mth[Right(t)]
      BY <3>4, RootShape
    <3>6. LET k == split_point(Len(t)) IN
          /\ k \in 1..(Len(t) - 1)
          /\ Left(t) \in Seq(Leaf) /\ Len(Left(t)) = k
          /\ \A i \in 1..k : Left(t)[i] = t[i]
          /\ Right(t) \in Seq(Leaf) /\ Len(Right(t)) = Len(t) - k
          /\ \A i \in 1..(Len(t) - k) : Right(t)[i] = t[k + i]
      BY <3>5, Parts
    <3>7. CASE Climb(d, p1) = mth[Left(t)]
      <4>1. PICK i \in DOMAIN Left(t) : Left(t)[i] = d
        BY <1>1, <3>1, <3>2, <3>6, <3>7
      <4>2. i \in DOMAIN t /\ t[i] = d
        BY <3>6, <4>1
      <4> QED
        BY <4>2
    <3>8. CASE Climb(d, p1) = mth[Right(t)]
      <4>1. PICK i \in DOMAIN Right(t) : Right(t)[i] = d
        BY <1>1, <3>1, <3>2, <3>6, <3>8
      <4>2. split_point(Len(t)) + i \in DOMAIN t /\ t[split_point(Len(t)) + i] = d
        BY <3>6, <4>1
      <4> QED
        BY <4>2
    <3> QED
      BY <3>5, <3>7, <3>8
  <2> QED
    BY <2>2, <2>3
<1>2. Nat \subseteq S
  <2> HIDE DEF S
  <2> QED
    BY <1>1, Induct
<1>3. Len(p) \in Nat
  OBVIOUS
<1> QED
  BY <1>2, <1>3


-----------------------------------------------------------------------------
(* Audit paths.                                                            *)

\* What path computes for leaf m of a batch, given a function g for smaller
\* batches.
PathAt(g, s, m) ==
  LET k == split_point(Len(s)) IN
  CASE Len(s) <= 1 -> << >>
    [] Len(s) > 1 /\ m < k ->
         Append(g[Left(s)][m], [hash |-> mth[Right(s)], right |-> TRUE])
    [] OTHER ->
         Append(g[Right(s)][m - k], [hash |-> mth[Left(s)], right |-> FALSE])

\* And for all leaves of it.
PathStep(g, s) == [m \in 0..(Len(s) - 1) |-> PathAt(g, s, m)]

\* path on batches of at most n leaves.
PathUpTo(g, n) == g = [s \in UpTo(n) |-> PathStep(g, s)]

\* The three cases of a step.
LEMMA PathAtCases ==
  ASSUME NEW g, NEW s \in Seq(Leaf), NEW m \in Nat
  PROVE  LET k == split_point(Len(s)) IN
         /\ Len(s) < 2 => PathAt(g, s, m) = << >>
         /\ Len(s) >= 2 /\ m < k =>
              PathAt(g, s, m) = Append(g[Left(s)][m], [hash |-> mth[Right(s)], right |-> TRUE])
         /\ Len(s) >= 2 /\ ~(m < k) =>
              PathAt(g, s, m) = Append(g[Right(s)][m - k], [hash |-> mth[Left(s)], right |-> FALSE])
<1> DEFINE k == split_point(Len(s))
<1>1. Len(s) \in Nat
  OBVIOUS
<1>2. \A n \in Nat : /\ n < 2 => n <= 1 /\ ~(n > 1)
                     /\ n >= 2 => ~(n <= 1) /\ n > 1
  OBVIOUS
<1>3. /\ Len(s) < 2 => Len(s) <= 1 /\ ~(Len(s) > 1)
      /\ Len(s) >= 2 => ~(Len(s) <= 1) /\ Len(s) > 1
  BY <1>1, <1>2, Zenon
<1>4. ASSUME Len(s) < 2 PROVE PathAt(g, s, m) = << >>
  BY <1>3, <1>4, Zenon DEF PathAt
<1>5. ASSUME Len(s) >= 2, m < k
      PROVE  PathAt(g, s, m) = Append(g[Left(s)][m], [hash |-> mth[Right(s)], right |-> TRUE])
  BY <1>3, <1>5, Zenon DEF PathAt
<1>6. ASSUME Len(s) >= 2, ~(m < k)
      PROVE  PathAt(g, s, m) = Append(g[Right(s)][m - k], [hash |-> mth[Left(s)], right |-> FALSE])
  BY <1>3, <1>6, Zenon DEF PathAt
<1> QED
  BY <1>4, <1>5, <1>6, Zenon

\* A step depends on smaller batches only.
LEMMA PathStepLocal ==
  ASSUME NEW s \in Seq(Leaf), NEW g, NEW h,
         \A t \in Seq(Leaf) : Len(t) < Len(s) => g[t] = h[t]
  PROVE  PathStep(g, s) = PathStep(h, s)
<1> SUFFICES ASSUME NEW m \in 0..(Len(s) - 1)
             PROVE  PathAt(g, s, m) = PathAt(h, s, m)
  BY DEF PathStep
<1> DEFINE k == split_point(Len(s))
<1>1. m \in Nat /\ (Len(s) < 2 \/ Len(s) >= 2)
  OBVIOUS
<1>2. CASE Len(s) < 2
  BY <1>1, <1>2, PathAtCases
<1>3. CASE Len(s) >= 2
  <2>1. /\ Left(s) \in Seq(Leaf) /\ Len(Left(s)) < Len(s)
        /\ Right(s) \in Seq(Leaf) /\ Len(Right(s)) < Len(s)
    BY <1>3, Parts
  <2>2. g[Left(s)] = h[Left(s)] /\ g[Right(s)] = h[Right(s)]
    BY <2>1
  <2>3. CASE m < k
    <3>1. \A f : PathAt(f, s, m) = Append(f[Left(s)][m], [hash |-> mth[Right(s)], right |-> TRUE])
      BY <1>1, <1>3, <2>3, PathAtCases
    <3> QED
      BY <2>2, <3>1
  <2>4. CASE ~(m < k)
    <3>1. \A f : PathAt(f, s, m) = Append(f[Right(s)][m - k], [hash |-> mth[Left(s)], right |-> FALSE])
      BY <1>1, <1>3, <2>4, PathAtCases
    <3> QED
      BY <2>2, <3>1
  <2> QED
    BY <2>3, <2>4
<1> QED
  BY <1>1, <1>2, <1>3

\* There is such a function for every n.
LEMMA PathUpToExists ==
  ASSUME NEW n \in Nat
  PROVE  \E g : PathUpTo(g, n)
<1> DEFINE S == { i \in Nat : \E g : PathUpTo(g, i) }
<1>1. ASSUME NEW i \in Nat, \A j \in Nat : j < i => j \in S
      PROVE  i \in S
  <2>1. PICK g : i # 0 => PathUpTo(g, i - 1)
    <3>1. CASE i = 0
      BY <3>1
    <3>2. CASE i # 0
      <4>1. i - 1 \in Nat /\ i - 1 < i
        BY <3>2
      <4> QED
        BY <1>1, <4>1
    <3> QED
      BY <3>1, <3>2
  <2> DEFINE h == [s \in UpTo(i) |-> PathStep(g, s)]
  <2>2. ASSUME NEW s \in UpTo(i), NEW t \in Seq(Leaf), Len(t) < Len(s)
        PROVE  g[t] = h[t]
    <3>1. Len(s) \in Nat /\ Len(t) \in Nat /\ Len(s) <= i
      BY DEF UpTo
    <3>2. i # 0 /\ Len(t) <= i - 1 /\ Len(t) <= i
      BY <2>2, <3>1
    <3>3. t \in UpTo(i - 1) /\ t \in UpTo(i)
      BY <3>2 DEF UpTo
    <3>4. g[t] = PathStep(g, t)
      BY <2>1, <3>2, <3>3 DEF PathUpTo
    <3>5. h[t] = PathStep(g, t)
      BY <3>3
    <3> QED
      BY <3>4, <3>5
  <2>3. \A s \in UpTo(i) : h[s] = PathStep(g, s)
    OBVIOUS
  <2>4. DOMAIN h = UpTo(i) /\ h = [s \in DOMAIN h |-> h[s]]
    OBVIOUS
  <2> HIDE DEF h
  <2>5. \A s \in UpTo(i) : h[s] = PathStep(h, s)
    <3> TAKE s \in UpTo(i)
    <3>1. s \in Seq(Leaf)
      BY DEF UpTo
    <3>2. PathStep(g, s) = PathStep(h, s)
      BY <2>2, <3>1, PathStepLocal
    <3> QED
      BY <2>3, <3>2
  <2>6. PathUpTo(h, i)
    BY <2>4, <2>5 DEF PathUpTo
  <2> QED
    BY <2>6
<1>2. Nat \subseteq S
  <2> HIDE DEF S
  <2> QED
    BY <1>1, Induct
<1> QED
  BY <1>2

\* Two of them agree where both are defined.
LEMMA PathUpToAgree ==
  ASSUME NEW m \in Nat, NEW n \in Nat, NEW g, NEW h, PathUpTo(g, m), PathUpTo(h, n)
  PROVE  \A s \in Seq(Leaf) : Len(s) <= m /\ Len(s) <= n => g[s] = h[s]
<1> DEFINE S == { i \in Nat : \A s \in Seq(Leaf) : Len(s) = i /\ i <= m /\ i <= n => g[s] = h[s] }
<1>1. ASSUME NEW i \in Nat, \A j \in Nat : j < i => j \in S
      PROVE  i \in S
  <2> SUFFICES ASSUME NEW s \in Seq(Leaf), Len(s) = i, i <= m, i <= n
               PROVE  g[s] = h[s]
    OBVIOUS
  <2>1. \A t \in Seq(Leaf) : Len(t) < Len(s) => g[t] = h[t]
    BY <1>1
  <2>2. s \in UpTo(m) /\ s \in UpTo(n)
    BY DEF UpTo
  <2>3. g[s] = PathStep(g, s) /\ h[s] = PathStep(h, s)
    BY <2>2 DEF PathUpTo
  <2> QED
    BY <2>1, <2>3, PathStepLocal
<1>2. Nat \subseteq S
  <2> HIDE DEF S
  <2> QED
    BY <1>1, Induct
<1> QED
  BY <1>2

\* path satisfies its defining equation (merkle.rs: path).
LEMMA Path ==
  ASSUME NEW s \in Seq(Leaf)
  PROVE  path[s] = PathStep(path, s)
<1> DEFINE G(n) == CHOOSE g : PathUpTo(g, n)
<1>1. \A n \in Nat : PathUpTo(G(n), n)
  BY PathUpToExists
<1> DEFINE f == [t \in Seq(Leaf) |-> G(Len(t))[t]]
<1> HIDE DEF G
<1>2. \A t \in Seq(Leaf) : f[t] = G(Len(t))[t]
  OBVIOUS
<1>3. DOMAIN f = Seq(Leaf) /\ f = [t \in DOMAIN f |-> f[t]]
  OBVIOUS
<1> HIDE DEF f
<1>4. \A t \in Seq(Leaf) : f[t] = PathStep(f, t)
  <2> TAKE t \in Seq(Leaf)
  <2> DEFINE g == G(Len(t))
  <2>1. Len(t) \in Nat /\ PathUpTo(g, Len(t))
    BY <1>1
  <2>2. g[t] = PathStep(g, t)
    <3>1. t \in UpTo(Len(t))
      BY <2>1 DEF UpTo
    <3> HIDE DEF g
    <3> QED
      BY <2>1, <3>1 DEF PathUpTo
  <2>3. ASSUME NEW u \in Seq(Leaf), Len(u) < Len(t) PROVE g[u] = f[u]
    <3>1. Len(u) \in Nat /\ Len(u) <= Len(t) /\ Len(u) <= Len(u)
      BY <2>1, <2>3
    <3>2. PathUpTo(G(Len(u)), Len(u))
      BY <1>1, <3>1
    <3>3. g[u] = G(Len(u))[u]
      <4> HIDE DEF g
      <4> QED
        BY <2>1, <3>1, <3>2, PathUpToAgree
    <3> QED
      BY <1>2, <3>3
  <2>4. PathStep(g, t) = PathStep(f, t)
    <3> HIDE DEF g
    <3> QED
      BY <2>3, PathStepLocal
  <2> QED
    BY <1>2, <2>2, <2>4
<1> DEFINE Fits(g) == g = [t \in Seq(Leaf) |-> PathStep(g, t)]
<1>5. path = CHOOSE g : Fits(g)
  BY DEF path, PathStep, PathAt
<1>6. Fits(f)
  BY <1>3, <1>4
<1>7. Fits(path)
  <2> HIDE DEF Fits
  <2> QED
    BY <1>5, <1>6
<1> QED
  BY <1>7

\* The three cases of path.
LEMMA PathCases ==
  ASSUME NEW s \in Seq(Leaf), NEW m \in 0..(Len(s) - 1)
  PROVE  LET k == split_point(Len(s)) IN
         /\ Len(s) < 2 => path[s][m] = << >>
         /\ Len(s) >= 2 /\ m < k =>
              path[s][m] = Append(path[Left(s)][m], [hash |-> mth[Right(s)], right |-> TRUE])
         /\ Len(s) >= 2 /\ ~(m < k) =>
              path[s][m] = Append(path[Right(s)][m - k], [hash |-> mth[Left(s)], right |-> FALSE])
<1>1. path[s] = PathStep(path, s)
  BY Path
<1>2. path[s][m] = PathAt(path, s, m)
  BY <1>1 DEF PathStep
<1>3. m \in Nat
  OBVIOUS
<1> QED
  BY <1>2, <1>3, PathAtCases


\* A path with one more step.
LEMMA OneMore ==
  ASSUME NEW T, NEW p \in Seq(T), NEW st
  PROVE  /\ Append(p, st) \in Seq(T \cup {st}) /\ p \in Seq(T \cup {st})
         /\ Len(Append(p, st)) = Len(p) + 1
         /\ \A i \in 1..Len(p) : Append(p, st)[i] = p[i]
         /\ Append(p, st)[Len(p) + 1] = st
<1> DEFINE U == T \cup {st}
<1>1. T \subseteq U /\ st \in U
  OBVIOUS
<1> HIDE DEF U
<1>2. p \in Seq(U)
  <2>1. Len(p) \in Nat /\ p \in [1..Len(p) -> T]
    OBVIOUS
  <2>2. p \in [1..Len(p) -> U]
    BY <1>1, <2>1
  <2> QED
    BY <2>1, <2>2
<1>3. /\ Append(p, st) \in Seq(U)
      /\ Len(Append(p, st)) = Len(p) + 1
      /\ \A i \in 1..Len(p) : Append(p, st)[i] = p[i]
      /\ Append(p, st)[Len(p) + 1] = st
  BY <1>1, <1>2
<1> QED
  BY <1>2, <1>3 DEF U

\* Adding a step to a path adds a hash on the way up.
LEMMA ClimbAppend ==
  ASSUME NEW d, NEW T, NEW p \in Seq(T), NEW st
  PROVE  Climb(d, Append(p, st)) = Parent(Climb(d, p), st)
<1> DEFINE q == Append(p, st)
<1>1. /\ q \in Seq(T \cup {st}) /\ p \in Seq(T \cup {st})
      /\ Len(q) = Len(p) + 1
      /\ \A i \in 1..Len(p) : q[i] = p[i]
      /\ q[Len(p) + 1] = st
  BY OneMore
<1> HIDE DEF q
<1>2. Climb(d, q) = Parent(Climb(d, p), q[Len(q)])
  BY <1>1, ClimbOne
<1> QED
  BY <1>1, <1>2 DEF q

\* A path that leads from leaf m of a batch to its root and is no longer than
\* the tree is deep.
Leads(s, m, p) ==
  /\ \E T : p \in Seq(T)
  /\ Climb(s[m + 1], p) = mth[s]
  /\ Len(p) > 0 => k_after[Len(p) - 1] < Len(s)
  /\ Len(s) > 1 => Len(p) > 0

\* A path for a part, with the root of the other part behind it, is a path for
\* the whole.
LEMMA LeadsOn ==
  ASSUME NEW s \in Seq(Leaf), Len(s) >= 2, NEW m \in 0..(Len(s) - 1),
         NEW u \in Seq(Leaf), Len(u) <= split_point(Len(s)), NEW n \in Nat, NEW p, Leads(u, n, p),
         u[n + 1] = s[m + 1], NEW st, Parent(mth[u], st) = mth[s]
  PROVE  Leads(s, m, Append(p, st))
<1>1. PICK T : p \in Seq(T)
  BY DEF Leads
<1> DEFINE q == Append(p, st)
<1>2. q \in Seq(T \cup {st}) /\ Len(q) = Len(p) + 1 /\ Len(p) \in Nat
  BY <1>1, OneMore
<1>3. Climb(s[m + 1], q) = mth[s]
  <2>1. Climb(s[m + 1], p) = mth[u]
    BY DEF Leads
  <2>2. Climb(s[m + 1], q) = Parent(Climb(s[m + 1], p), st)
    BY <1>1, ClimbAppend
  <2> HIDE DEF q
  <2> QED
    BY <2>1, <2>2
<1>4. k_after[Len(p)] < Len(s)
  <2> DEFINE d == Len(p)
  <2> DEFINE k == split_point(Len(s))
  <2>0. Len(s) \in Nat /\ Len(u) \in Nat /\ Len(u) <= k
    OBVIOUS
  <2>1. k \in 1..(Len(s) - 1) /\ \E i \in Nat : k = k_after[i]
    BY <2>0, SplitPoint
  <2>2. PICK i \in Nat : k = k_after[i]
    BY <2>1
  <2>3. d \in Nat /\ (d > 0 => k_after[d - 1] < Len(u))
    BY <1>2 DEF Leads
  <2> HIDE DEF d, k
  <2>4. CASE d = 0
    <3>1. k_after[d] = 1
      BY <2>4, KAfter
    <3> QED
      BY <2>1, <3>1 DEF d
  <2>5. CASE d # 0
    <3>1. d - 1 \in Nat /\ d > 0
      BY <2>3, <2>5
    <3>2. k_after[d - 1] \in Nat /\ k_after[i] \in Nat
      BY <3>1, KGrows
    <3>3. k_after[d - 1] < k_after[i]
      BY <2>0, <2>1, <2>2, <2>3, <3>1, <3>2
    <3>4. ~(i <= d - 1)
      BY <3>1, <3>2, <3>3, KMonotone
    <3>5. d <= i
      BY <2>3, <3>4
    <3>6. k_after[d] <= k_after[i]
      BY <2>3, <3>5, KMonotone
    <3>7. k_after[d] \in Nat
      BY <2>3, KGrows
    <3> QED
      BY <2>0, <2>1, <2>2, <3>2, <3>6, <3>7 DEF d
  <2> QED
    BY <2>4, <2>5
<1> HIDE DEF q
<1>5. Len(q) > 0 /\ Len(q) - 1 = Len(p)
  BY <1>2
<1>6. Leads(s, m, q)
  BY <1>2, <1>3, <1>4, <1>5 DEF Leads
<1> QED
  BY <1>6 DEF q

\* The path of every leaf of every batch leads to the root, and has at most as
\* many steps as the tree is deep: 2^(steps - 1) is less than the number of
\* leaves (merkle.rs: path; "a compact O(log n) inclusion proof").
THEOREM PathsLead ==
  ASSUME NEW s \in Seq(Leaf), NEW m \in 0..(Len(s) - 1)
  PROVE  Leads(s, m, path[s][m])
<1> DEFINE S == { n \in Nat : \A t \in Seq(Leaf) : Len(t) = n =>
                                \A i \in 0..(n - 1) : Leads(t, i, path[t][i]) }
<1>1. ASSUME NEW n \in Nat, \A j \in Nat : j < n => j \in S
      PROVE  n \in S
  <2> SUFFICES ASSUME NEW t \in Seq(Leaf), Len(t) = n, NEW i \in 0..(n - 1)
               PROVE  Leads(t, i, path[t][i])
    OBVIOUS
  <2> DEFINE k == split_point(Len(t))
  <2>1. n = 1 \/ n >= 2
    OBVIOUS
  <2>2. CASE n = 1
    <3>0. Len(t) < 2 /\ i \in 0..(Len(t) - 1)
      BY <2>2
    <3>1. path[t][i] = << >>
      BY <3>0, PathCases
    <3>2. i = 0 /\ mth[t] = leaf_hash(t[1])
      BY <2>2, MthCases
    <3>3. << >> \in Seq({}) /\ Len(<< >>) = 0
      OBVIOUS
    <3>4. Climb(t[1], << >>) = leaf_hash(t[1])
      BY <3>3, ClimbNothing
    <3>5. Climb(t[i + 1], << >>) = mth[t]
      BY <3>2, <3>4
    <3>6. Leads(t, i, << >>)
      BY <2>2, <3>3, <3>5 DEF Leads
    <3> QED
      BY <3>1, <3>6
  <2>3. CASE n >= 2
    <3>1. /\ k \in 1..(Len(t) - 1)
          /\ Left(t) \in Seq(Leaf) /\ Len(Left(t)) = k
          /\ \A j \in 1..k : Left(t)[j] = t[j]
          /\ Right(t) \in Seq(Leaf) /\ Len(Right(t)) = Len(t) - k
          /\ \A j \in 1..(Len(t) - k) : Right(t)[j] = t[k + j]
      BY <2>3, Parts
    <3>2. Len(t) >= 2 /\ i \in 0..(Len(t) - 1) /\ Len(t) \in Nat /\ Len(t) <= 2 * k
      BY <2>3, SplitPoint
    <3>3. mth[t] = node_hash(mth[Left(t)], mth[Right(t)])
      BY <3>2, MthCases
    <3>4. CASE i < k
      <4> DEFINE st == [hash |-> mth[Right(t)], right |-> TRUE]
      <4>1. path[t][i] = Append(path[Left(t)][i], st)
        BY <3>2, <3>4, PathCases
      <4>2. /\ k \in Nat /\ k < n /\ i \in 0..(k - 1) /\ i \in Nat
            /\ Len(Left(t)) <= k /\ i + 1 \in 1..k
        BY <3>1, <3>2, <3>4
      <4>3. Leads(Left(t), i, path[Left(t)][i])
        BY <1>1, <3>1, <4>2
      <4>4. Left(t)[i + 1] = t[i + 1]
        BY <3>1, <4>2
      <4>5. Parent(mth[Left(t)], st) = mth[t]
        BY <3>3 DEF Parent
      <4> HIDE DEF st
      <4>6. Leads(t, i, Append(path[Left(t)][i], st))
        BY <3>1, <3>2, <4>2, <4>3, <4>4, <4>5, LeadsOn
      <4> QED
        BY <4>1, <4>6
    <3>5. CASE ~(i < k)
      <4> DEFINE st == [hash |-> mth[Left(t)], right |-> FALSE]
      <4>1. path[t][i] = Append(path[Right(t)][i - k], st)
        BY <3>2, <3>5, PathCases
      <4>2. /\ Len(t) - k \in Nat /\ Len(t) - k < n
            /\ i - k \in 0..((Len(t) - k) - 1) /\ i - k \in Nat
            /\ Len(Right(t)) <= k /\ (i - k) + 1 \in 1..(Len(t) - k)
            /\ k + ((i - k) + 1) = i + 1
        <5> DEFINE r == Len(Right(t))
        <5>1. r = Len(t) - k /\ k \in 1..(Len(t) - 1) /\ Len(t) = n
          BY <3>1
        <5>2. n <= 2 * k /\ n \in Nat /\ i \in 0..(n - 1)
          BY <3>2
        <5> HIDE DEF k, r
        <5>3. k \in 1..(n - 1) /\ r = n - k
          BY <5>1
        <5>4. /\ n - k \in Nat /\ n - k < n
              /\ i - k \in 0..((n - k) - 1) /\ i - k \in Nat
              /\ r <= k /\ (i - k) + 1 \in 1..(n - k)
              /\ k + ((i - k) + 1) = i + 1
          BY <3>5, <5>2, <5>3
        <5> QED
          BY <5>1, <5>4 DEF r
      <4>3. Leads(Right(t), i - k, path[Right(t)][i - k])
        BY <1>1, <3>1, <4>2
      <4>4. Right(t)[(i - k) + 1] = t[i + 1]
        <5> DEFINE j == (i - k) + 1
        <5>1. j \in 1..(Len(t) - k) /\ k + j = i + 1
          BY <4>2
        <5> HIDE DEF j
        <5>2. Right(t)[j] = t[k + j]
          BY <3>1, <5>1
        <5>3. Right(t)[j] = t[i + 1]
          BY <5>1, <5>2
        <5> QED
          BY <5>3 DEF j
      <4>5. Parent(mth[Right(t)], st) = mth[t]
        BY <3>3 DEF Parent
      <4> HIDE DEF st
      <4>6. Leads(t, i, Append(path[Right(t)][i - k], st))
        BY <3>1, <3>2, <4>2, <4>3, <4>4, <4>5, LeadsOn
      <4> QED
        BY <4>1, <4>6
    <3> QED
      BY <3>4, <3>5
  <2> QED
    BY <2>1, <2>2, <2>3
<1>2. Nat \subseteq S
  <2> HIDE DEF S
  <2> QED
    BY <1>1, Induct
<1>3. Len(s) \in Nat
  OBVIOUS
<1> QED
  BY <1>2, <1>3


-----------------------------------------------------------------------------
(* The log, its anchors and its proof bundles.                             *)

\* The anchor that build_merkle_anchor signs for some range.
AnchorRecord(from, to, count, root) ==
  [some |-> TRUE, from_seq |-> from, to_seq |-> to, count |-> count, root |-> root,
   public_key |-> "server",
   signature |-> sign_bytes("server", anchor_message(from, to, count, root))]

\* The bundle of the i-th leaf of a batch.
BundleRecord(seq, leaves, i) ==
  [some |-> TRUE, seq |-> seq, leaf |-> leaves[i], root |-> mth[leaves],
   proof |-> merkle_proof(leaves, i - 1)]

\* The inductive invariant: what is published was computed from the leaves
\* remembered for it.
MerkleInv ==
  /\ log \in Seq(Leaf) /\ batch \in Seq(Leaf) /\ proved \in Seq(Leaf)
  /\ pruned \in Nat
  /\ \/ anchor = None
     \/ \E from, to : anchor = AnchorRecord(from, to, Len(batch), mth[batch])
  /\ \/ bundle = None
     \/ \E seq : \E i \in 1..Len(proved) : bundle = BundleRecord(seq, proved, i)

\* An anchor is computed from everything that was read (merkle.rs:
\* build_merkle_anchor).
LEMMA PublishStep ==
  ASSUME MerkleInv, PublishAnchor
  PROVE  MerkleInv'
<1>1. PICK es \in ReadLog : anchor' = SignedAnchor(es) /\ batch' = es
  BY DEF PublishAnchor
<1>2. \E from, to : SignedAnchor(es) = AnchorRecord(from, to, Len(es), mth[es])
  BY DEF SignedAnchor, AnchorRecord
<1>3. \E from, to : anchor' = AnchorRecord(from, to, Len(batch'), mth[batch'])
  BY <1>1, <1>2
<1>4. es \in Seq(Leaf)
  <2>1. log \in Seq(Leaf)
    BY DEF MerkleInv
  <2>2. << >> \in Seq(Leaf)
    OBVIOUS
  <2> QED
    BY <2>1, <2>2 DEF ReadLog
<1> QED
  BY <1>1, <1>3, <1>4 DEF MerkleInv, PublishAnchor

\* A bundle is of the entry asked for, at its place in the log as it is kept
\* (merkle.rs: merkle_proof_for_seq).
LEMMA ProofStep ==
  ASSUME MerkleInv, NEW seq \in 1..MaxLeaves, MakeProof(seq)
  PROVE  MerkleInv'
<1> DEFINE i == seq - pruned
<1>1. i \in DOMAIN log /\ bundle' = BundleRecord(seq, log, i)
  BY DEF MakeProof, merkle_proof_for_seq, BundleRecord
<1>2. proved' = log
  BY DEF MakeProof
<1>3. i \in 1..Len(proved') /\ bundle' = BundleRecord(seq, proved', i)
  BY <1>1, <1>2 DEF MerkleInv
<1> HIDE DEF i
<1>4. \E n : \E j \in 1..Len(proved') : bundle' = BundleRecord(n, proved', j)
  BY <1>3
<1>5. UNCHANGED << log, pruned, anchor, batch >>
  BY DEF MakeProof
<1> QED
  BY <1>2, <1>4, <1>5 DEF MerkleInv

\* Anchors and bundles are of the leaves remembered for them, however the log
\* grows or is pruned afterwards.
THEOREM MerkleInvariant == Spec => []MerkleInv
<1>1. Init => MerkleInv
  BY DEF Init, MerkleInv
<1>2. MerkleInv /\ [Next]_vars => MerkleInv'
  <2> SUFFICES ASSUME MerkleInv, [Next]_vars PROVE MerkleInv'
    OBVIOUS
  <2>1. ASSUME NEW leaf \in Leaf, Append1(leaf) PROVE MerkleInv'
    <3>1. log' \in Seq(Leaf) /\ UNCHANGED << pruned, anchor, batch, bundle, proved >>
      BY <2>1 DEF Append1, MerkleInv
    <3> QED
      BY <3>1 DEF MerkleInv
  <2>2. ASSUME Prune1 PROVE MerkleInv'
    <3>1. log' \in Seq(Leaf) /\ pruned' \in Nat /\ UNCHANGED << anchor, batch, bundle, proved >>
      BY <2>2 DEF Prune1, MerkleInv
    <3> QED
      BY <3>1 DEF MerkleInv
  <2>3. CASE UNCHANGED vars
    BY <2>3 DEF MerkleInv, vars
  <2> QED
    BY <2>1, <2>2, <2>3, PublishStep, ProofStep DEF Next
<1> QED
  BY <1>1, <1>2, PTL DEF Spec

\* An anchor on hand is one that was computed from its batch.
LEMMA AnchorThere ==
  ASSUME MerkleInv, anchor.some
  PROVE  \E from, to : anchor = AnchorRecord(from, to, Len(batch), mth[batch])
BY DEF MerkleInv, None

\* A bundle on hand proves the leaf it carries under the root of the leaves
\* remembered for it.
LEMMA BundleThere ==
  ASSUME MerkleInv, bundle.some
  PROVE  /\ bundle.root = mth[proved]
         /\ bundle.proof.leaf_count = Len(proved)
         /\ \E T : bundle.proof.path \in Seq(T)
         /\ Climb(bundle.leaf, bundle.proof.path) = mth[proved]
         /\ Len(bundle.proof.path) > 0 => k_after[Len(bundle.proof.path) - 1] < Len(proved)
         /\ Len(proved) > 1 => Len(bundle.proof.path) > 0
<1>1. PICK seq : \E i \in 1..Len(proved) : bundle = BundleRecord(seq, proved, i)
  BY DEF MerkleInv, None
<1>2. PICK i \in 1..Len(proved) : bundle = BundleRecord(seq, proved, i)
  BY <1>1
<1>3. proved \in Seq(Leaf) /\ Len(proved) \in Nat
  BY DEF MerkleInv
<1>4. i - 1 \in 0..(Len(proved) - 1) /\ (i - 1) + 1 = i
  BY <1>3
<1>5. Leads(proved, i - 1, path[proved][i - 1])
  BY <1>3, <1>4, PathsLead
<1>6. /\ bundle.root = mth[proved] /\ bundle.leaf = proved[i]
      /\ bundle.proof.leaf_count = Len(proved) /\ bundle.proof.path = path[proved][i - 1]
  BY <1>2 DEF BundleRecord, merkle_proof
<1> DEFINE p == path[proved][i - 1]
<1>7. /\ \E T : p \in Seq(T)
      /\ Climb(proved[(i - 1) + 1], p) = mth[proved]
      /\ Len(p) > 0 => k_after[Len(p) - 1] < Len(proved)
      /\ Len(proved) > 1 => Len(p) > 0
  BY <1>5 DEF Leads
<1>8. bundle.proof.path = p
  BY <1>6
<1> HIDE DEF p
<1> QED
  BY <1>4, <1>6, <1>7, <1>8

\* BundleVerifies: every bundle handed out proves its leaf under its root with
\* a path no longer than the tree is deep, for logs of every length.
THEOREM BundlesVerify == Spec => []BundleVerifies
<1>1. MerkleInv => BundleVerifies
  <2> SUFFICES ASSUME MerkleInv, bundle.some
               PROVE  /\ Climb(bundle.leaf, bundle.proof.path) = bundle.root
                      /\ LET d == Len(bundle.proof.path)
                         IN  d > 0 => k_after[d - 1] < bundle.proof.leaf_count
                      /\ bundle.proof.leaf_count > 1 => bundle.proof.path # << >>
    BY DEF BundleVerifies, verify_merkle_proof
  <2>1. Len(bundle.proof.path) > 0 => bundle.proof.path # << >>
    OBVIOUS
  <2> QED
    BY <2>1, BundleThere
<1> QED
  BY <1>1, MerkleInvariant, PTL

\* RootDetermines: no other log has the root of a published anchor.
THEOREM RootsDetermine == Spec => []RootDetermines
<1>1. MerkleInv => RootDetermines
  <2> SUFFICES ASSUME MerkleInv, anchor.some, NEW s \in Batches
               PROVE  mth[s] = anchor.root <=> s = batch
    BY DEF RootDetermines
  <2>1. PICK from, to : anchor = AnchorRecord(from, to, Len(batch), mth[batch])
    BY AnchorThere
  <2>2. anchor.root = mth[batch] /\ batch \in Seq(Leaf)
    BY <2>1 DEF AnchorRecord, MerkleInv
  <2>3. s \in Seq(Leaf)
    <3>1. PICK n \in 0..MaxLeaves : s \in [1..n -> Leaf]
      BY DEF Batches
    <3>2. n \in Nat
      BY MaxLeavesAssumption
    <3> QED
      BY <3>1, <3>2
  <2> QED
    BY <2>2, <2>3, RootInjective
<1> QED
  BY <1>1, MerkleInvariant, PTL

\* ProofMatchesAnchor: chainlog merkle-verify accepts a proof with an anchor
\* exactly when both were computed from the same leaves.
THEOREM ProofsMatchAnchors == Spec => []ProofMatchesAnchor
<1>1. MerkleInv => ProofMatchesAnchor
  <2> SUFFICES ASSUME MerkleInv, anchor.some, bundle.some
               PROVE  MerkleVerify <=> proved = batch
    BY DEF ProofMatchesAnchor
  <2>1. PICK from, to : anchor = AnchorRecord(from, to, Len(batch), mth[batch])
    BY AnchorThere
  <2>2. anchor.root = mth[batch] /\ batch \in Seq(Leaf) /\ proved \in Seq(Leaf)
    BY <2>1 DEF AnchorRecord, MerkleInv
  <2>3. verify_merkle_anchor(anchor)
    BY <2>1 DEF verify_merkle_anchor, verify_signature, sign_bytes, AnchorRecord
  <2>4. verify_merkle_proof(bundle.leaf, bundle.proof, bundle.root) /\ bundle.root = mth[proved]
    BY BundleThere DEF verify_merkle_proof
  <2>5. mth[batch] = mth[proved] <=> proved = batch
    BY <2>2, RootInjective
  <2> QED
    BY <2>2, <2>3, <2>4, <2>5 DEF MerkleVerify
<1> QED
  BY <1>1, MerkleInvariant, PTL


\* The signature of an anchor covers its range, count and root: a copy with
\* other ones verifies only if it is no different.
LEMMA SignatureCovers ==
  ASSUME NEW from, NEW to, NEW count, NEW root, NEW a,
         NEW f1, NEW t1, NEW c1, NEW r1,
         a = [some |-> TRUE, from_seq |-> f1, to_seq |-> t1, count |-> c1, root |-> r1,
              public_key |-> "server",
              signature |-> sign_bytes("server", anchor_message(from, to, count, root))]
  PROVE  verify_merkle_anchor(a) <=> a = AnchorRecord(from, to, count, root)
<1> DEFINE Msg(f, t, c, r) == anchor_message(f, t, c, r)
<1>1. verify_merkle_anchor(a) <=> Msg(f1, t1, c1, r1) = Msg(from, to, count, root)
  BY DEF verify_merkle_anchor, verify_signature, sign_bytes
<1>2. Msg(f1, t1, c1, r1) = Msg(from, to, count, root)
        <=> f1 = from /\ t1 = to /\ c1 = count /\ r1 = root
  BY DEF anchor_message
<1>3. a = AnchorRecord(from, to, count, root)
        <=> f1 = from /\ t1 = to /\ c1 = count /\ r1 = root
  BY DEF AnchorRecord
<1> QED
  BY <1>1, <1>2, <1>3

\* AnchorBinds: a published anchor verifies, and no copy of it with another
\* range, count or root does.
THEOREM AnchorsBind == Spec => []AnchorBinds
<1>1. MerkleInv => AnchorBinds
  <2> SUFFICES ASSUME MerkleInv, anchor.some, NEW a \in Edited \cup {anchor}
               PROVE  verify_merkle_anchor(a) <=> a = anchor
    BY DEF AnchorBinds
  <2>1. PICK from, to : anchor = AnchorRecord(from, to, Len(batch), mth[batch])
    BY AnchorThere
  <2> DEFINE n == Len(batch)
  <2> DEFINE root == mth[batch]
  <2>2. anchor = AnchorRecord(from, to, n, root)
    BY <2>1
  <2> HIDE DEF n, root
  <2> DEFINE sig == sign_bytes("server", anchor_message(from, to, n, root))
  <2> DEFINE Copy(f, t, c, r) ==
        [some |-> TRUE, from_seq |-> f, to_seq |-> t, count |-> c, root |-> r,
         public_key |-> "server", signature |-> sig]
  <2>3. anchor = Copy(from, to, n, root)
    BY <2>2 DEF AnchorRecord
  <2> HIDE DEF sig
  <2>4. \/ a = anchor
        \/ \E x : a = [anchor EXCEPT !.from_seq = x]
        \/ \E x : a = [anchor EXCEPT !.to_seq = x]
        \/ \E x : a = [anchor EXCEPT !.count = x]
        \/ \E x : a = [anchor EXCEPT !.root = x]
    BY DEF Edited
  <2>5. \E f, t, c, r : a = Copy(f, t, c, r)
    <3>1. CASE a = anchor
      <4>1. a = Copy(from, to, n, root)
        BY <2>3, <3>1
      <4> HIDE DEF Copy
      <4> QED
        BY <4>1
    <3>2. CASE \E x : a = [anchor EXCEPT !.from_seq = x]
      <4>1. PICK x : a = [anchor EXCEPT !.from_seq = x]
        BY <3>2
      <4>2. a = Copy(x, to, n, root)
        BY <2>3, <4>1
      <4> HIDE DEF Copy
      <4> QED
        BY <4>2
    <3>3. CASE \E x : a = [anchor EXCEPT !.to_seq = x]
      <4>1. PICK x : a = [anchor EXCEPT !.to_seq = x]
        BY <3>3
      <4>2. a = Copy(from, x, n, root)
        BY <2>3, <4>1
      <4> HIDE DEF Copy
      <4> QED
        BY <4>2
    <3>4. CASE \E x : a = [anchor EXCEPT !.count = x]
      <4>1. PICK x : a = [anchor EXCEPT !.count = x]
        BY <3>4
      <4>2. a = Copy(from, to, x, root)
        BY <2>3, <4>1
      <4> HIDE DEF Copy
      <4> QED
        BY <4>2
    <3>5. CASE \E x : a = [anchor EXCEPT !.root = x]
      <4>1. PICK x : a = [anchor EXCEPT !.root = x]
        BY <3>5
      <4>2. a = Copy(from, to, n, x)
        BY <2>3, <4>1
      <4> HIDE DEF Copy
      <4> QED
        BY <4>2
    <3> QED
      BY <2>4, <3>1, <3>2, <3>3, <3>4, <3>5
  <2>6. PICK f, t, c, r : a = Copy(f, t, c, r)
    BY <2>5
  <2> QED
    BY <2>2, <2>6, SignatureCovers DEF Copy, sig
<1> QED
  BY <1>1, MerkleInvariant, PTL

\* What the properties try in place of a path is a path too.
LEMMA VariantPaths ==
  ASSUME NEW T, NEW pr, NEW q \in Seq(T), NEW li, NEW lc,
         pr = [leaf_index |-> li, leaf_count |-> lc, path |-> q],
         NEW v \in Variants(pr)
  PROVE  \E U : v.path \in Seq(U)
<1>1. CASE \E a \in 1..(Len(q) + 1), b \in 0..Len(q) : v = [pr EXCEPT !.path = SubSeq(q, a, b)]
  <2>1. PICK a \in 1..(Len(q) + 1) : \E b \in 0..Len(q) : v = [pr EXCEPT !.path = SubSeq(q, a, b)]
    BY <1>1
  <2>2. PICK b \in 0..Len(q) : v = [pr EXCEPT !.path = SubSeq(q, a, b)]
    BY <2>1
  <2>3. v.path = SubSeq(q, a, b)
    BY <2>2
  <2>4. SubSeq(q, a, b) \in Seq(T)
    BY SubSeqProperties
  <2> QED
    BY <2>3, <2>4
<1>2. CASE \E i \in DOMAIN q : v = [pr EXCEPT !.path = [q EXCEPT ![i].right = ~@]]
  <2>1. PICK i \in DOMAIN q : v = [pr EXCEPT !.path = [q EXCEPT ![i].right = ~@]]
    BY <1>2
  <2>2. v.path = [q EXCEPT ![i].right = ~@]
    BY <2>1
  <2> DEFINE w == [q[i] EXCEPT !.right = ~q[i].right]
  <2>3. v.path = [q EXCEPT ![i] = w]
    BY <2>2
  <2> HIDE DEF w
  <2> DEFINE U == T \cup {w}
  <2>4. /\ DOMAIN v.path = 1..Len(q) /\ Len(q) \in Nat
        /\ \A j \in 1..Len(q) : v.path[j] = IF j = i THEN w ELSE q[j]
        /\ v.path = [j \in DOMAIN v.path |-> v.path[j]]
    BY <2>3
  <2>5. \A j \in 1..Len(q) : v.path[j] \in U
    BY <2>4
  <2> HIDE DEF U
  <2>6. v.path \in [1..Len(q) -> U]
    BY <2>4, <2>5
  <2>7. v.path \in Seq(U)
    BY <2>4, <2>6
  <2> QED
    BY <2>7
<1>3. pr.path = q
  OBVIOUS
<1> QED
  BY <1>1, <1>2, <1>3 DEF Variants

\* OnlyMembersProved: nothing but the leaves of a published batch is proved
\* under its root, by no bundle and nothing made of one.
THEOREM OnlyMembersAreProved == Spec => []OnlyMembersProved
<1>1. MerkleInv => OnlyMembersProved
  <2> SUFFICES ASSUME MerkleInv, anchor.some, bundle.some,
                      NEW d, NEW v \in Variants(bundle.proof),
                      Climb(d, v.path) = anchor.root
               PROVE  \E i \in DOMAIN batch : batch[i] = d
    BY DEF OnlyMembersProved, verify_merkle_proof
  <2>1. PICK from, to : anchor = AnchorRecord(from, to, Len(batch), mth[batch])
    BY AnchorThere
  <2>2. anchor.root = mth[batch] /\ batch \in Seq(Leaf)
    BY <2>1 DEF AnchorRecord, MerkleInv
  <2>3. PICK T : bundle.proof.path \in Seq(T)
    BY BundleThere
  <2>4. \E li, lc, q : bundle.proof = [leaf_index |-> li, leaf_count |-> lc, path |-> q]
    <3>1. PICK seq : \E i \in 1..Len(proved) : bundle = BundleRecord(seq, proved, i)
      BY DEF MerkleInv, None
    <3>2. PICK i \in 1..Len(proved) : bundle = BundleRecord(seq, proved, i)
      BY <3>1
    <3>3. bundle.proof = merkle_proof(proved, i - 1)
      BY <3>2 DEF BundleRecord
    <3> QED
      BY <3>3 DEF merkle_proof
  <2>5. PICK li, lc, q : bundle.proof = [leaf_index |-> li, leaf_count |-> lc, path |-> q]
    BY <2>4
  <2>6. q \in Seq(T)
    BY <2>3, <2>5
  <2>7. PICK U : v.path \in Seq(U)
    BY <2>5, <2>6, VariantPaths
  <2>8. Climb(d, v.path) = mth[batch]
    BY <2>2
  <2> QED
    BY <2>2, <2>7, <2>8, OnlyMembers
<1> QED
  BY <1>1, MerkleInvariant, PTL


-----------------------------------------------------------------------------
(* What an anchor says of the entries behind the leaves, whoever wrote     *)
(* them.                                                                   *)

\* The leaves of a log (merkle.rs, build_merkle_anchor: "leaves are their
\* `entry_hash`").
HashesOf(es) == [i \in 1..Len(es) |-> es[i].entry_hash]

\* They are a batch.
LEMMA HashesAre ==
  ASSUME Hash \subseteq Leaf, NEW es \in Seq(AuditEntry)
  PROVE  /\ HashesOf(es) \in Seq(Leaf) /\ Len(HashesOf(es)) = Len(es)
         /\ \A i \in 1..Len(es) : HashesOf(es)[i] = es[i].entry_hash
<1>1. Len(es) \in Nat /\ \A i \in 1..Len(es) : es[i] \in AuditEntry
  OBVIOUS
<1>2. \A i \in 1..Len(es) : es[i].entry_hash \in Leaf
  BY <1>1 DEF AuditEntry
<1> QED
  BY <1>1, <1>2 DEF HashesOf

\* A Merkle anchor pins the log as a checkpoint does: two logs that verify,
\* from genesis or from any anchor of a prune, and have the same root are the
\* same log.
THEOREM AnchorPinsLog ==
  ASSUME Hash \subseteq Leaf, NEW a, NEW b,
         NEW es \in Seq(AuditEntry), NEW fs \in Seq(AuditEntry),
         is_valid(verify_entries_from(a, es)), is_valid(verify_entries_from(b, fs)),
         mth[HashesOf(es)] = mth[HashesOf(fs)]
  PROVE  es = fs
<1>1. HashesOf(es) = HashesOf(fs)
  BY HashesAre, RootInjective
<1>2. Len(es) = Len(fs) /\ \A i \in 1..Len(es) : es[i].entry_hash = fs[i].entry_hash
  BY <1>1, HashesAre
<1>3. ASSUME NEW i \in 1..Len(es) PROVE es[i] = fs[i]
  <2>1. es[i] \in AuditEntry /\ fs[i] \in AuditEntry
    BY <1>2
  <2>2. es[i].entry_hash = recompute_hash(es[i])
    BY ValidIs
  <2>3. fs[i].entry_hash = recompute_hash(fs[i])
    BY <1>2, ValidIs
  <2> QED
    BY <1>2, <2>1, <2>2, <2>3, HashDetermines
<1> QED
  BY <1>2, <1>3, SeqEqual

\* An inclusion proof is a proof of the entry: whoever holds an entry whose
\* hash is right and any path from that hash to the root of a log that
\* verifies holds an entry of that log, unchanged (README: "checks proof +
\* signed root").
THEOREM ProofPinsEntry ==
  ASSUME Hash \subseteq Leaf, NEW a, NEW es \in Seq(AuditEntry),
         is_valid(verify_entries_from(a, es)),
         NEW e \in AuditEntry, e.entry_hash = recompute_hash(e),
         NEW T, NEW p \in Seq(T), Climb(e.entry_hash, p) = mth[HashesOf(es)]
  PROVE  \E i \in DOMAIN es : es[i] = e
<1> DEFINE h == HashesOf(es)
<1>1. /\ h \in Seq(Leaf) /\ Len(h) = Len(es)
      /\ \A i \in 1..Len(es) : h[i] = es[i].entry_hash
  BY HashesAre
<1>2. Climb(e.entry_hash, p) = mth[h]
  OBVIOUS
<1> HIDE DEF h
<1>3. PICK i \in DOMAIN h : h[i] = e.entry_hash
  BY <1>1, <1>2, OnlyMembers
<1>4. i \in 1..Len(es) /\ i \in DOMAIN es /\ es[i] \in AuditEntry /\ es[i].entry_hash = e.entry_hash
  BY <1>1, <1>3
<1>5. es[i].entry_hash = recompute_hash(es[i])
  BY <1>4, ValidIs
<1>6. es[i] = e
  BY <1>4, <1>5, HashDetermines
<1> QED
  BY <1>4, <1>6
=============================================================================
