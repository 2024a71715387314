----------------------------- MODULE ListLemmas -----------------------------
(* Facts that the proofs about all the programs need: what list_del_init   *)
(* leaves of a list, least numbers, flattening, and orders without end.    *)
EXTENDS SequencesExt, SequenceTheorems, FiniteSetTheorems, WellFoundedInduction, TLAPS

(* What list_del_init leaves of a list. *)
LEMMA RemoveAtSeq ==
  ASSUME NEW S, NEW q \in Seq(S), NEW i \in DOMAIN q
  PROVE  /\ RemoveAt(q, i) \in Seq(S)
         /\ Len(RemoveAt(q, i)) = Len(q) - 1
         /\ \A j \in 1..(Len(q) - 1) :
              RemoveAt(q, i)[j] = IF j < i THEN q[j] ELSE q[j + 1]
<1>1. /\ Len(q) \in Nat /\ DOMAIN q = 1..Len(q) /\ i \in 1..Len(q)
      /\ \A j \in 1..Len(q) : q[j] \in S
  BY LenProperties, ElementOfSeq
<1>2. /\ SubSeq(q, 1, i - 1) \in Seq(S)
      /\ Len(SubSeq(q, 1, i - 1)) = i - 1
      /\ \A j \in 1..(i - 1) : SubSeq(q, 1, i - 1)[j] = q[j]
  <2>1. \A j \in 1..(i - 1) : q[j] \in S
    BY <1>1
  <2> QED BY <1>1, <2>1, SubSeqProperties
<1>3. /\ SubSeq(q, i + 1, Len(q)) \in Seq(S)
      /\ Len(SubSeq(q, i + 1, Len(q))) = Len(q) - i
      /\ \A j \in 1..(Len(q) - i) : SubSeq(q, i + 1, Len(q))[j] = q[i + j]
  <2>1. \A j \in (i + 1)..Len(q) : q[j] \in S
    BY <1>1
  <2> QED BY <1>1, <2>1, SubSeqProperties
<1> DEFINE a == SubSeq(q, 1, i - 1)
           b == SubSeq(q, i + 1, Len(q))
<1>4. RemoveAt(q, i) = a \o b
  BY DEF RemoveAt
<1> HIDE DEF a, b
<1>5. /\ a \o b \in Seq(S)
      /\ Len(a \o b) = Len(a) + Len(b)
      /\ \A j \in 1..(Len(a) + Len(b)) :
           (a \o b)[j] = IF j <= Len(a) THEN a[j] ELSE b[j - Len(a)]
  BY <1>2, <1>3, ConcatProperties DEF a, b
<1>6. Len(a) = i - 1 /\ Len(b) = Len(q) - i
  BY <1>2, <1>3 DEF a, b
<1>7. ASSUME NEW j \in 1..(Len(q) - 1)
      PROVE  (a \o b)[j] = IF j < i THEN q[j] ELSE q[j + 1]
  <2>1. CASE j < i
    <3>1. a[j] = q[j]
      BY <1>1, <1>2, <2>1 DEF a
    <3> QED BY <1>1, <1>5, <1>6, <2>1, <3>1
  <2>2. CASE ~(j < i)
    <3>1. j - (i - 1) \in 1..(Len(q) - i) /\ i + (j - (i - 1)) = j + 1
      BY <1>1, <2>2
    <3>2. b[j - (i - 1)] = q[j + 1]
      BY <1>3, <3>1 DEF b
    <3> QED BY <1>1, <1>5, <1>6, <2>2, <3>2, SMTT(40)
  <2> QED BY <2>1, <2>2
<1> QED BY <1>1, <1>4, <1>5, <1>6, <1>7

(* A list that holds nothing twice loses exactly the entry removed...      *)
LEMMA RemoveAtOnce ==
  ASSUME NEW S, NEW q \in Seq(S), NEW i \in DOMAIN q,
         \A j, k \in DOMAIN q : q[j] = q[k] => j = k
  PROVE  /\ \A j, k \in DOMAIN RemoveAt(q, i) :
              RemoveAt(q, i)[j] = RemoveAt(q, i)[k] => j = k
         /\ \A p : (\E k \in DOMAIN RemoveAt(q, i) : RemoveAt(q, i)[k] = p)
                     <=> (\E k \in DOMAIN q : q[k] = p) /\ p # q[i]
<1> DEFINE rest == RemoveAt(q, i)
<1>1. /\ Len(q) \in Nat /\ DOMAIN q = 1..Len(q) /\ i \in 1..Len(q)
      /\ DOMAIN rest = 1..(Len(q) - 1)
      /\ \A j \in 1..(Len(q) - 1) : rest[j] = IF j < i THEN q[j] ELSE q[j + 1]
  <2>1. /\ rest \in Seq(S) /\ Len(rest) = Len(q) - 1
        /\ \A j \in 1..(Len(q) - 1) : rest[j] = IF j < i THEN q[j] ELSE q[j + 1]
    BY RemoveAtSeq
  <2> HIDE DEF rest
  <2> QED BY <2>1, LenProperties
<1> HIDE DEF rest
<1>2. ASSUME NEW j \in DOMAIN rest, NEW k \in DOMAIN rest, rest[j] = rest[k]
      PROVE  j = k
  BY <1>1, <1>2, SMTT(40)
<1>3. ASSUME NEW p, NEW k \in DOMAIN rest, rest[k] = p
      PROVE  (\E j \in DOMAIN q : q[j] = p) /\ p # q[i]
  <2>1. CASE k < i
    BY <1>1, <1>3, <2>1
  <2>2. CASE ~(k < i)
    BY <1>1, <1>3, <2>2
  <2> QED BY <2>1, <2>2
<1>4. ASSUME NEW p, NEW k \in DOMAIN q, q[k] = p, p # q[i]
      PROVE  \E j \in DOMAIN rest : rest[j] = p
  <2>1. CASE k < i
    <3>1. k \in DOMAIN rest /\ rest[k] = p
      BY <1>1, <1>4, <2>1
    <3> QED BY <3>1
  <2>2. CASE k > i
    <3>1. k - 1 \in DOMAIN rest /\ rest[k - 1] = p
      BY <1>1, <1>4, <2>2
    <3> QED BY <3>1
  <2> QED BY <1>1, <1>4, <2>1, <2>2
<1> QED BY <1>2, <1>3, <1>4 DEF rest

(* ... and one that gets a newcomer holds it and what it held.             *)
LEMMA AppendOnce ==
  ASSUME NEW S, NEW q \in Seq(S), NEW e \in S
  PROVE  /\ \A p : (\E k \in DOMAIN Append(q, e) : Append(q, e)[k] = p)
                     <=> (\E k \in DOMAIN q : q[k] = p) \/ p = e
         /\ (\A j, k \in DOMAIN q : q[j] = q[k] => j = k)
            /\ ~(\E k \in DOMAIN q : q[k] = e)
            => \A j, k \in DOMAIN Append(q, e) : Append(q, e)[j] = Append(q, e)[k] => j = k
<1> DEFINE more == Append(q, e)
<1>1. /\ Len(q) \in Nat /\ DOMAIN q = 1..Len(q)
      /\ DOMAIN more = 1..(Len(q) + 1)
      /\ \A k \in 1..Len(q) : more[k] = q[k]
      /\ more[Len(q) + 1] = e
  BY AppendProperties, LenProperties
<1> HIDE DEF more
<1>2. \A k \in DOMAIN more : k \in DOMAIN q \/ k = Len(q) + 1
  BY <1>1
<1>3. DOMAIN q \subseteq DOMAIN more /\ Len(q) + 1 \in DOMAIN more
  BY <1>1
<1>4. \A p : (\E k \in DOMAIN more : more[k] = p)
              <=> (\E k \in DOMAIN q : q[k] = p) \/ p = e
  BY <1>1, <1>2, <1>3
<1>5. ASSUME \A j, k \in DOMAIN q : q[j] = q[k] => j = k,
             ~(\E k \in DOMAIN q : q[k] = e),
             NEW j \in DOMAIN more, NEW k \in DOMAIN more, more[j] = more[k]
      PROVE  j = k
  BY <1>1, <1>2, <1>5
<1> QED BY <1>4, <1>5 DEF more

-----------------------------------------------------------------------------
(* Least elements, and induction. *)

(* Of some subsets of a finite set, one contains none of the others. *)
LEMMA LeastSubset ==
  ASSUME NEW S, IsFiniteSet(S), NEW B \in SUBSET (SUBSET S), B # {}
  PROVE  \E U \in B : \A V \in B : V \subseteq U => V = U
<1>1. IsWellFoundedOn(StrictSubsetOrdering(S), FiniteSubsetsOf(S))
  BY FS_StrictSubsetOrderingWellFounded
<1>2. B \subseteq FiniteSubsetsOf(S)
  BY FS_Subset DEF FiniteSubsetsOf
<1>3. PICK U \in B : \A V \in B : ~(<<V, U>> \in StrictSubsetOrdering(S))
  BY <1>1, <1>2, WFMin
<1>4. ASSUME NEW V \in B, V \subseteq U, V # U PROVE FALSE
  <2>1. <<V, U>> \in (SUBSET S) \X (SUBSET S)
    OBVIOUS
  <2>2. <<V, U>> \in StrictSubsetOrdering(S)
    BY <1>4, <2>1 DEF StrictSubsetOrdering
  <2> QED BY <1>3, <2>2
<1> QED BY <1>4

(* So a set of numbers has a least element: 1..n for n in T are subsets of *)
(* a finite set.                                                           *)
LEMMA LeastNumber ==
  ASSUME NEW T \in SUBSET Nat, T # {}
  PROVE  \E n \in T : \A m \in T : n <= m
<1>1. PICK top \in T : TRUE
  OBVIOUS
<1> DEFINE B == { 1..m : m \in { k \in T : k <= top } }
<1>2. top \in Nat /\ IsFiniteSet(1..top)
  BY <1>1, FS_Interval
<1>3. B \in SUBSET (SUBSET (1..top)) /\ B # {}
  <2>1. \A k \in T : k <= top => 1..k \subseteq 1..top
    BY <1>2
  <2>2. 1..top \in B
    BY <1>1, <1>2
  <2>3. \A U \in B : U \subseteq 1..top
    BY <2>1
  <2> QED BY <2>2, <2>3, Zenon
<1> HIDE DEF B
<1>4. PICK U \in B : \A V \in B : V \subseteq U => V = U
  <2>1. PICK S : S = 1..top
    OBVIOUS
  <2>2. B \in SUBSET (SUBSET S) /\ IsFiniteSet(S) /\ B # {}
    BY <1>2, <1>3, <2>1
  <2> QED BY <2>2, LeastSubset
<1>5. PICK n \in T : n <= top /\ U = 1..n
  BY <1>4 DEF B
<1>6. ASSUME NEW m \in T, ~(n <= m) PROVE FALSE
  <2>1. m \in Nat /\ n \in Nat /\ m < n /\ m <= top
    BY <1>2, <1>5, <1>6
  <2>2. 1..m \in B /\ 1..m \subseteq U
    BY <1>5, <2>1 DEF B
  <2>3. 1..m = 1..n
    BY <1>4, <1>5, <2>2
  <2>4. n \in 1..n /\ n \notin 1..m
    BY <2>1
  <2> QED BY <2>3, <2>4
<1> QED BY <1>6

(* Induction, for a set of numbers instead of a predicate. *)
LEMMA Induction ==
  ASSUME NEW T \in SUBSET Nat, 0 \in T, \A n \in T : n + 1 \in T
  PROVE  T = Nat
<1> SUFFICES ASSUME Nat \ T # {} PROVE FALSE
  OBVIOUS
<1>1. PICK n \in Nat \ T : \A m \in Nat \ T : n <= m
  <2> DEFINE R == Nat \ T
  <2>1. R \in SUBSET Nat /\ R # {}
    OBVIOUS
  <2> HIDE DEF R
  <2>2. \E n \in R : \A m \in R : n <= m
    BY <2>1, LeastNumber
  <2> QED BY <2>2 DEF R
<1>2. n # 0 /\ n - 1 \in Nat /\ n - 1 \in T
  BY <1>1
<1>3. (n - 1) + 1 = n
  BY <1>1
<1> QED BY <1>1, <1>2, <1>3

(* Of numbers in a row there is a first smallest one. *)
LEMMA FirstSmallest ==
  ASSUME NEW m \in Nat, NEW v \in [1..m -> Int], m # 0
  PROVE  \E i \in 1..m : \A j \in 1..m : v[i] <= v[j] /\ (j < i => v[i] < v[j])
<1> DEFINE Best(i, n) == \A j \in 1..n : v[i] <= v[j] /\ (j < i => v[i] < v[j])
           T == { n \in Nat : n + 1 <= m => \E i \in 1..(n + 1) : Best(i, n + 1) }
<1>1. 0 \in T
  <2> SUFFICES ASSUME 1 <= m PROVE \E i \in 1..1 : Best(i, 1)
    OBVIOUS
  <2>1. v[1] \in Int
    OBVIOUS
  <2> QED BY <2>1
<1>2. ASSUME NEW n \in T PROVE n + 1 \in T
  <2> SUFFICES ASSUME (n + 1) + 1 <= m
               PROVE  \E i \in 1..((n + 1) + 1) : Best(i, (n + 1) + 1)
    OBVIOUS
  <2>0. n \in Nat /\ \A j \in 1..((n + 1) + 1) : v[j] \in Int
    OBVIOUS
  <2>1. PICK i \in 1..(n + 1) : Best(i, n + 1)
    OBVIOUS
  <2>2. CASE v[i] <= v[(n + 1) + 1]
    <3>1. Best(i, (n + 1) + 1)
      BY <2>0, <2>1, <2>2
    <3> QED BY <2>0, <3>1
  <2>3. CASE ~(v[i] <= v[(n + 1) + 1])
    <3>1. Best((n + 1) + 1, (n + 1) + 1)
      <4> SUFFICES ASSUME NEW j \in 1..((n + 1) + 1)
                   PROVE  /\ v[(n + 1) + 1] <= v[j]
                          /\ j < (n + 1) + 1 => v[(n + 1) + 1] < v[j]
        OBVIOUS
      <4>1. v[j] \in Int /\ v[i] \in Int /\ v[(n + 1) + 1] \in Int
        BY <2>0
      <4>2. CASE j = (n + 1) + 1
        BY <2>0, <4>1, <4>2
      <4>3. CASE j # (n + 1) + 1
        <5>1. j \in 1..(n + 1)
          BY <2>0, <4>3
        <5> QED BY <2>1, <2>3, <4>1, <5>1
      <4> QED BY <4>2, <4>3
    <3>2. (n + 1) + 1 \in 1..((n + 1) + 1)
      BY <2>0
    <3> QED BY <3>1, <3>2
  <2> QED BY <2>2, <2>3
<1>3. T = Nat
  <2>1. T \in SUBSET Nat
    OBVIOUS
  <2> HIDE DEF T
  <2> QED BY <1>1, <1>2, <2>1, Induction
<1>4. m - 1 \in Nat /\ (m - 1) + 1 = m
  OBVIOUS
<1>5. m - 1 \in T
  BY <1>3, <1>4
<1>6. \E i \in 1..((m - 1) + 1) : Best(i, (m - 1) + 1)
  BY <1>4, <1>5
<1> QED BY <1>4, <1>6

(* The first entry with a property, of those that have it. *)
LEMMA FirstOfAll ==
  ASSUME NEW n \in Nat, NEW S \in SUBSET (1..n), S # {}
  PROVE  \E i \in S : \A j \in 1..(i - 1) : j \notin S
<1>1. PICK i \in S : \A j \in S : i <= j
  BY LeastNumber
<1> QED BY <1>1

-----------------------------------------------------------------------------
(* Flattening. *)

(* f[m] is what the first m of the sequences ss are together. *)
Flattens(f, ss, S) ==
  /\ f \in [0..Len(ss) -> Seq(S)]
  /\ f[0] = <<>>
  /\ \A m \in 1..Len(ss) : f[m] = f[m - 1] \o ss[m]
  /\ FlattenSeq(ss) = f[Len(ss)]

(* What the recursive function of FlattenSeq is for the first n of them.   *)
Recurs(g, ss, n) ==
  g = [i \in 1..n |-> IF i = 1 THEN ss[i] ELSE g[i - 1] \o ss[i]]

LEMMA RecursExists ==
  ASSUME NEW S, NEW ss \in Seq(Seq(S)), NEW n \in Nat, n <= Len(ss)
  PROVE  \E g \in [1..n -> Seq(S)] : Recurs(g, ss, n)
<1> DEFINE T == { k \in Nat : k <= Len(ss) => \E g \in [1..k -> Seq(S)] : Recurs(g, ss, k) }
<1>1. 0 \in T
  <2>1. [i \in 1..0 |-> <<>>] \in [1..0 -> Seq(S)]
    OBVIOUS
  <2>2. Recurs([i \in 1..0 |-> <<>>], ss, 0)
    BY DEF Recurs
  <2> QED BY <2>1, <2>2
<1>2. ASSUME NEW k \in T PROVE k + 1 \in T
  <2> SUFFICES ASSUME k + 1 <= Len(ss)
               PROVE  \E g \in [1..(k + 1) -> Seq(S)] : Recurs(g, ss, k + 1)
    BY <1>2
  <2>1. k \in Nat /\ k <= Len(ss) /\ Len(ss) \in Nat
    BY <1>2
  <2>2. PICK g \in [1..k -> Seq(S)] : Recurs(g, ss, k)
    BY <1>2, <2>1
  <2>3. ss[k + 1] \in Seq(S) /\ \A i \in 1..k : ss[i] \in Seq(S)
    BY <2>1
  <2> DEFINE last == IF k = 0 THEN ss[1] ELSE g[k] \o ss[k + 1]
             h == [i \in 1..(k + 1) |-> IF i = k + 1 THEN last ELSE g[i]]
  <2>4. last \in Seq(S)
    BY <2>1, <2>2, <2>3
  <2>5. h \in [1..(k + 1) -> Seq(S)]
    <3> HIDE DEF last
    <3> QED BY <2>1, <2>4
  <2>6. ASSUME NEW i \in 1..(k + 1)
        PROVE  h[i] = IF i = 1 THEN ss[i] ELSE h[i - 1] \o ss[i]
    <3>1. CASE i = k + 1
      <4>1. h[i] = last /\ (i # 1 => h[i - 1] = g[k])
        BY <2>1, <3>1
      <4> QED BY <2>1, <3>1, <4>1
    <3>2. CASE i # k + 1
      <4>1. i \in 1..k /\ h[i] = g[i] /\ (i # 1 => h[i - 1] = g[i - 1])
        BY <2>1, <3>2
      <4>2. g[i] = IF i = 1 THEN ss[i] ELSE g[i - 1] \o ss[i]
        BY <2>2, <4>1, Zenon DEF Recurs
      <4> QED BY <4>1, <4>2
    <3> QED BY <3>1, <3>2
  <2>7. Recurs(h, ss, k + 1)
    <3>1. h = [i \in 1..(k + 1) |-> h[i]]
      BY <2>5
    <3> HIDE DEF h
    <3> QED BY <2>6, <3>1, Zenon DEF Recurs
  <2> QED BY <2>5, <2>7
<1>3. T = Nat
  <2>1. T \in SUBSET Nat
    OBVIOUS
  <2> HIDE DEF T
  <2> QED BY <1>1, <1>2, <2>1, Induction
<1>4. n \in T
  BY <1>3
<1> QED BY <1>4

LEMMA Flattening ==
  ASSUME NEW S, NEW ss \in Seq(Seq(S))
  PROVE  \E f : Flattens(f, ss, S)
<1>1. CASE Len(ss) = 0
  <2> DEFINE f == [m \in 0..0 |-> <<>>]
  <2>1. FlattenSeq(ss) = ss
    BY <1>1 DEF FlattenSeq
  <2>2. ss = <<>>
    BY <1>1
  <2>3. <<>> \in Seq(S)
    OBVIOUS
  <2>4. f \in [0..Len(ss) -> Seq(S)] /\ f[0] = <<>> /\ f[Len(ss)] = <<>>
    BY <1>1, <2>3
  <2> HIDE DEF f
  <2>5. Flattens(f, ss, S)
    BY <1>1, <2>1, <2>2, <2>4 DEF Flattens
  <2> QED BY <2>5
<1>2. CASE Len(ss) # 0
  <2>1. Len(ss) \in Nat
    OBVIOUS
  <2>2. PICK g0 : Recurs(g0, ss, Len(ss))
    BY <2>1, RecursExists
  <2>3. \E g : Recurs(g, ss, Len(ss)) /\ FlattenSeq(ss) = g[Len(ss)]
    BY <1>2, <2>2, Zenon DEF FlattenSeq, Recurs
  <2>4. PICK g : Recurs(g, ss, Len(ss)) /\ FlattenSeq(ss) = g[Len(ss)]
    BY <2>3
  <2>5. \A i \in 1..Len(ss) : g[i] = IF i = 1 THEN ss[i] ELSE g[i - 1] \o ss[i]
    BY <2>4, Zenon DEF Recurs
  <2> DEFINE T == { m \in Nat : m \in 1..Len(ss) => g[m] \in Seq(S) }
  <2>6. T = Nat
    <3>1. T \in SUBSET Nat /\ 0 \in T
      OBVIOUS
    <3>2. ASSUME NEW m \in T PROVE m + 1 \in T
      <4> SUFFICES ASSUME m + 1 \in 1..Len(ss) PROVE g[m + 1] \in Seq(S)
        BY <3>2
      <4>1. ss[m + 1] \in Seq(S)
        OBVIOUS
      <4>2. CASE m = 0
        BY <2>5, <4>1, <4>2
      <4>3. CASE m # 0
        <5>1. m \in 1..Len(ss) /\ g[m] \in Seq(S) /\ m + 1 # 1 /\ (m + 1) - 1 = m
          BY <3>2, <4>3
        <5>2. g[m + 1] = g[m] \o ss[m + 1]
          BY <2>5, <5>1
        <5> QED BY <4>1, <5>1, <5>2
      <4> QED BY <4>2, <4>3
    <3> HIDE DEF T
    <3> QED BY <3>1, <3>2, Induction
  <2>7. \A m \in 1..Len(ss) : g[m] \in Seq(S)
    <3> TAKE m \in 1..Len(ss)
    <3>1. m \in T
      BY <2>6, SMTT(40)
    <3> QED BY <3>1
  <2> DEFINE f == [m \in 0..Len(ss) |-> IF m = 0 THEN <<>> ELSE g[m]]
  <2>8. f \in [0..Len(ss) -> Seq(S)] /\ f[0] = <<>> /\ f[Len(ss)] = g[Len(ss)]
    BY <1>2, <2>1, <2>7
  <2>9. ASSUME NEW m \in 1..Len(ss) PROVE f[m] = f[m - 1] \o ss[m]
    <3>1. ss[m] \in Seq(S)
      OBVIOUS
    <3>2. CASE m = 1
      <4>1. f[m] = ss[m] /\ f[m - 1] = <<>>
        BY <2>5, <3>2
      <4>2. PICK s \in Seq(S) : s = ss[m]
        BY <3>1
      <4>3. <<>> \o s = s
        OBVIOUS
      <4> QED BY <4>1, <4>2, <4>3
    <3>3. CASE m # 1
      <4>1. m \in 0..Len(ss) /\ m # 0 /\ m - 1 \in 0..Len(ss) /\ m - 1 # 0
        BY <3>3
      <4>2. f[m] = g[m] /\ f[m - 1] = g[m - 1]
        BY <4>1
      <4>3. g[m] = g[m - 1] \o ss[m]
        BY <2>5, <3>3
      <4> QED BY <4>2, <4>3
    <3> QED BY <3>2, <3>3
  <2> HIDE DEF f
  <2>10. Flattens(f, ss, S)
    BY <2>4, <2>8, <2>9 DEF Flattens
  <2> QED BY <2>10
<1> QED BY <1>1, <1>2

(* Sequences that are not empty are together at least as long as there are *)
(* sequences.                                                              *)
LEMMA FlattenedLength ==
  ASSUME NEW S, NEW ss \in Seq(Seq(S)), NEW f, Flattens(f, ss, S),
         \A m \in 1..Len(ss) : ss[m] # <<>>,
         NEW m \in 0..Len(ss)
  PROVE  Len(f[Len(ss)]) >= Len(f[m]) + (Len(ss) - m)
<1> DEFINE T == { k \in Nat : m + k <= Len(ss) => Len(f[m + k]) >= Len(f[m]) + k }
<1>0. /\ Len(ss) \in Nat /\ m \in Nat /\ m <= Len(ss)
      /\ \A k \in 0..Len(ss) : f[k] \in Seq(S) /\ Len(f[k]) \in Nat
      /\ \A k \in 1..Len(ss) : f[k] = f[k - 1] \o ss[k] /\ ss[k] \in Seq(S) /\ ss[k] # <<>>
  BY DEF Flattens
<1>1. T \in SUBSET Nat /\ 0 \in T
  BY <1>0
<1>2. ASSUME NEW k \in T PROVE k + 1 \in T
  <2>1. k \in Nat /\ k + 1 \in Nat /\ (m + k <= Len(ss) => Len(f[m + k]) >= Len(f[m]) + k)
    BY <1>2
  <2>2. ASSUME m + (k + 1) <= Len(ss) PROVE Len(f[m + (k + 1)]) >= Len(f[m]) + (k + 1)
    <3>1. /\ m + k \in 0..Len(ss) /\ m + (k + 1) \in 1..Len(ss)
          /\ (m + (k + 1)) - 1 = m + k
          /\ Len(f[m + k]) >= Len(f[m]) + k
      BY <1>0, <2>1, <2>2
    <3>2. f[m + (k + 1)] = f[m + k] \o ss[m + (k + 1)]
      BY <1>0, <3>1
    <3>3. PICK a \in Seq(S) : a = f[m + k]
      BY <1>0, <3>1
    <3>4. PICK b \in Seq(S) : b = ss[m + (k + 1)] /\ b # <<>>
      BY <1>0, <3>1
    <3>5. Len(a \o b) >= Len(a) + 1
      BY <3>4
    <3>6. PICK n \in Nat : n = Len(f[m])
      BY <1>0
    <3>7. Len(f[m + (k + 1)]) = Len(a \o b) /\ Len(a) >= n + k
      BY <3>1, <3>2, <3>3, <3>4, <3>6
    <3>8. Len(a \o b) \in Nat /\ Len(a) \in Nat
      OBVIOUS
    <3> HIDE DEF T
    <3>9. Len(a \o b) >= n + (k + 1)
      BY <2>1, <3>5, <3>7, <3>8
    <3> QED BY <3>6, <3>7, <3>9
  <2> QED BY <2>1, <2>2
<1>3. T = Nat
  <2> HIDE DEF T
  <2> QED BY <1>1, <1>2, Induction
<1>4. PICK k \in Nat : k = Len(ss) - m
  BY <1>0
<1>5. k \in T
  BY <1>3
<1>6. m + k = Len(ss) /\ m + k <= Len(ss)
  BY <1>0, <1>4
<1> QED BY <1>4, <1>5, <1>6

-----------------------------------------------------------------------------
(* What goes down for ever.                                                *)

(* The sequence s of numbers is below t in the lexicographic order.        *)
LexBelow(s, t) ==
  \E k \in DOMAIN t : s[k] < t[k] /\ \A j \in 1..(k - 1) : s[j] = t[j]

(* Nothing goes down for ever in this order: of any such sequences, of the *)
(* same length, one has none of the others below it.                       *)
LEMMA LexWellFounded ==
  ASSUME NEW n \in Nat, NEW S \in SUBSET [1..n -> Nat], S # {}
  PROVE  \E t \in S : \A s \in S : ~LexBelow(s, t)
<1> DEFINE Below(s, t, k) == s[k] < t[k] /\ \A j \in 1..(k - 1) : s[j] = t[j]
           Good(k) == \E t \in S : \A s \in S : \A i \in 1..n : i <= k => ~Below(s, t, i)
           T == { k \in Nat : k <= n => Good(k) }
<1>1. 0 \in T
  <2>1. Good(0)
    OBVIOUS
  <2> QED BY <2>1
<1>2. ASSUME NEW k \in T PROVE k + 1 \in T
  <2> SUFFICES ASSUME k + 1 <= n PROVE Good(k + 1)
    OBVIOUS
  <2>1. k \in Nat /\ k + 1 \in 1..n /\ (k + 1) - 1 = k /\ Good(k)
    OBVIOUS
  <2>2. PICK t \in S : \A s \in S : \A i \in 1..n : i <= k => ~Below(s, t, i)
    BY <2>1
  <2> DEFINE R == { r \in S : \A j \in 1..k : r[j] = t[j] }
             V == { r[k + 1] : r \in R }
  <2>3. V \in SUBSET Nat /\ t[k + 1] \in V
    BY <2>1
  <2>4. PICK v \in V : \A w \in V : v <= w
    <3> HIDE DEF V
    <3> QED BY <2>3, LeastNumber
  <2>5. PICK r \in R : r[k + 1] = v
    BY <2>4
  <2>6. ASSUME NEW s \in S, NEW i \in 1..n, i <= k + 1, Below(s, r, i) PROVE FALSE
    <3>1. CASE i <= k
      <4>1. i \in 1..k /\ \A j \in 1..(i - 1) : j \in 1..k
        BY <2>1, <3>1
      <4>2. Below(s, t, i)
        BY <2>5, <2>6, <4>1
      <4> QED BY <2>2, <3>1, <4>2
    <3>2. CASE i = k + 1
      <4>1. s \in R /\ s[k + 1] < r[k + 1]
        BY <2>1, <2>5, <2>6, <3>2
      <4>2. s[k + 1] \in V /\ s[k + 1] \in Nat /\ v \in Nat
        BY <2>1, <2>3, <4>1
      <4>3. v <= s[k + 1]
        BY <2>4, <4>2
      <4> QED BY <2>5, <4>1, <4>2, <4>3
    <3> QED BY <2>1, <2>6, <3>1, <3>2
  <2> QED BY <2>5, <2>6
<1>3. T = Nat
  <2>1. T \in SUBSET Nat /\ \A k \in T : k + 1 \in T
    BY <1>2
  <2> HIDE DEF T
  <2> QED BY <1>1, <2>1, Induction
<1>4. Good(n)
  <2>1. n \in T
    <3> HIDE DEF T
    <3> QED BY <1>3
  <2> HIDE DEF Good
  <2> QED BY <2>1
<1>5. PICK t \in S : \A s \in S : \A i \in 1..n : i <= n => ~Below(s, t, i)
  BY <1>4
<1>6. ASSUME NEW s \in S PROVE ~LexBelow(s, t)
  <2>1. DOMAIN t = 1..n
    OBVIOUS
  <2>2. ASSUME NEW i \in 1..n PROVE ~Below(s, t, i)
    <3>1. i <= n
      OBVIOUS
    <3> HIDE DEF Below
    <3> QED BY <1>5, <3>1
  <2> QED BY <2>1, <2>2 DEF LexBelow
<1> QED BY <1>5, <1>6

(* Sequences of known lengths, one behind the other: what is where, ...    *)
LEMMA ConcatVectors ==
  ASSUME NEW m \in Nat, NEW n \in Nat, NEW s \in [1..m -> Nat], NEW t \in [1..n -> Nat]
  PROVE  /\ s \o t \in [1..(m + n) -> Nat]
         /\ \A i \in 1..m : (s \o t)[i] = s[i]
         /\ \A i \in 1..n : (s \o t)[m + i] = t[i]
<1>1. s \in Seq(Nat) /\ t \in Seq(Nat) /\ Len(s) = m /\ Len(t) = n
  BY SeqDef, LenProperties
<1>2. /\ s \o t \in Seq(Nat) /\ Len(s \o t) = m + n
      /\ \A i \in 1..(m + n) : (s \o t)[i] = IF i <= m THEN s[i] ELSE t[i - m]
  BY <1>1, ConcatProperties
<1>3. s \o t \in [1..(m + n) -> Nat]
  BY <1>2, LenProperties
<1>4. \A i \in 1..m : (s \o t)[i] = s[i]
  BY <1>2
<1>5. \A i \in 1..n : (s \o t)[m + i] = t[i]
  <2> SUFFICES ASSUME NEW i \in 1..n PROVE (s \o t)[m + i] = t[i]
    OBVIOUS
  <2>1. m + i \in 1..(m + n) /\ ~(m + i <= m) /\ (m + i) - m = i
    OBVIOUS
  <2> QED BY <1>2, <2>1
<1> QED BY <1>3, <1>4, <1>5

(* ... and their order: the one in front decides, the other one if that   *)
(* stays the same.                                                         *)
LEMMA ConcatBelow ==
  ASSUME NEW m \in Nat, NEW n \in Nat,
         NEW s \in [1..m -> Nat], NEW s1 \in [1..m -> Nat],
         NEW t \in [1..n -> Nat], NEW t1 \in [1..n -> Nat]
  PROVE  /\ LexBelow(s1, s) => LexBelow(s1 \o t1, s \o t)
         /\ s1 = s /\ LexBelow(t1, t) => LexBelow(s1 \o t1, s \o t)
<1>1. /\ s \o t \in [1..(m + n) -> Nat] /\ s1 \o t1 \in [1..(m + n) -> Nat]
      /\ \A i \in 1..m : (s \o t)[i] = s[i] /\ (s1 \o t1)[i] = s1[i]
      /\ \A i \in 1..n : (s \o t)[m + i] = t[i] /\ (s1 \o t1)[m + i] = t1[i]
  <2>1. /\ s \o t \in [1..(m + n) -> Nat]
        /\ \A i \in 1..m : (s \o t)[i] = s[i]
        /\ \A i \in 1..n : (s \o t)[m + i] = t[i]
    BY ConcatVectors
  <2>2. /\ s1 \o t1 \in [1..(m + n) -> Nat]
        /\ \A i \in 1..m : (s1 \o t1)[i] = s1[i]
        /\ \A i \in 1..n : (s1 \o t1)[m + i] = t1[i]
    BY ConcatVectors
  <2> QED BY <2>1, <2>2
<1> DEFINE a == s1 \o t1
           b == s \o t
<1> HIDE DEF a, b
<1>2. ASSUME LexBelow(s1, s) PROVE LexBelow(a, b)
  <2>1. PICK k \in 1..m : s1[k] < s[k] /\ \A j \in 1..(k - 1) : s1[j] = s[j]
    BY <1>2 DEF LexBelow
  <2>2. k \in 1..(m + n)
    OBVIOUS
  <2>3. \A j \in 1..(k - 1) : j \in 1..m
    OBVIOUS
  <2>4. a[k] < b[k]
    BY <1>1, <2>1 DEF a, b
  <2>5. \A j \in 1..(k - 1) : a[j] = b[j]
    BY <1>1, <2>1, <2>3 DEF a, b
  <2>6. DOMAIN b = 1..(m + n)
    BY <1>1 DEF b
  <2> QED BY <2>2, <2>4, <2>5, <2>6 DEF LexBelow
<1>3. ASSUME s1 = s, LexBelow(t1, t) PROVE LexBelow(a, b)
  <2>1. PICK k \in 1..n : t1[k] < t[k] /\ \A j \in 1..(k - 1) : t1[j] = t[j]
    BY <1>3 DEF LexBelow
  <2>2. m + k \in 1..(m + n)
    OBVIOUS
  <2>5. a[m + k] < b[m + k]
    BY <1>1, <2>1 DEF a, b
  <2>3. ASSUME NEW j \in 1..((m + k) - 1) PROVE a[j] = b[j]
    <3>1. CASE j <= m
      <4>1. j \in 1..m
        BY <3>1
      <4> QED BY <1>1, <1>3, <4>1 DEF a, b
    <3>2. CASE ~(j <= m)
      <4>1. PICK i \in 1..(k - 1) : j = m + i
        <5>1. j - m \in 1..(k - 1) /\ j = m + (j - m)
          BY <3>2
        <5> QED BY <5>1
      <4>2. i \in 1..n
        OBVIOUS
      <4> QED BY <1>1, <2>1, <4>1, <4>2 DEF a, b
    <3> QED BY <3>1, <3>2
  <2>4. DOMAIN b = 1..(m + n)
    BY <1>1 DEF b
  <2> QED BY <2>2, <2>3, <2>4, <2>5 DEF LexBelow
<1> QED BY <1>2, <1>3 DEF a, b

(* A sequence that is nowhere above another is below it, or the same.      *)
LEMMA PointwiseBelow ==
  ASSUME NEW n \in Nat, NEW s \in [1..n -> Nat], NEW t \in [1..n -> Nat],
         \A i \in 1..n : s[i] <= t[i]
  PROVE  s = t \/ LexBelow(s, t)
<1> SUFFICES ASSUME s # t PROVE LexBelow(s, t)
  OBVIOUS
<1> DEFINE T == { i \in 1..n : s[i] < t[i] }
<1>1. T \in SUBSET Nat /\ T # {}
  <2>1. PICK D : D = 1..n
    OBVIOUS
  <2>2. s \in [D -> Nat] /\ t \in [D -> Nat]
    BY <2>1
  <2>3. PICK i \in D : s[i] # t[i]
    BY <2>2
  <2>4. s[i] \in Nat /\ t[i] \in Nat /\ s[i] <= t[i] /\ i \in 1..n
    BY <2>1, <2>2, <2>3
  <2>5. s[i] < t[i]
    BY <2>3, <2>4
  <2>6. i \in T
    BY <2>4, <2>5
  <2>7. T \in SUBSET Nat
    OBVIOUS
  <2> QED BY <2>6, <2>7
<1>2. PICK k \in T : \A m \in T : k <= m
  <2> HIDE DEF T
  <2> QED BY <1>1, LeastNumber
<1>3. \A j \in 1..(k - 1) : s[j] = t[j]
  <2> SUFFICES ASSUME NEW j \in 1..(k - 1) PROVE s[j] = t[j]
    OBVIOUS
  <2>1. j \in 1..n /\ ~(k <= j)
    BY <1>1
  <2>2. ~(s[j] < t[j])
    BY <1>2, <2>1
  <2>3. s[j] \in Nat /\ t[j] \in Nat /\ s[j] <= t[j]
    BY <2>1
  <2> QED BY <2>2, <2>3
<1> QED BY <1>3 DEF LexBelow
=============================================================================
