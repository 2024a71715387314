----------------------------- MODULE HashProofs -----------------------------
(***************************************************************************)
(* For every set of nodes and heads, after every sequence of calls that    *)
(* the functions are meant for, the pointers of the hlists link exactly    *)
(* the lists that are promised, and every node points back at the cell     *)
(* that points at it.                                                      *)
(*                                                                         *)
(* First, what is in which cell after an assignment; then what putting a   *)
(* node between a cell and what it points at, or taking it out again, does *)
(* to the chain it is in; and last, that all other chains are apart from   *)
(* it.  NULL is no pointer to anything.                                    *)
(***************************************************************************)
EXTENDS HashLists, ListLemmas

NullIsNothing == NULL \notin Nodes /\ NULL \notin Cells

HashMemory ==
  [first : [Buckets -> Nodes \union {NULL}],
   next : [Nodes -> Nodes \union {NULL, LIST_POISON1}],
   pprev : [Nodes -> Cells \union {NULL, LIST_POISON2}]]

(* What is in a cell. *)
In(m, cell) == IF cell[1] = "first" THEN m.first[cell[2]] ELSE m.next[cell[2]]

(* Outside of the cells C and the nodes P, n is what m was. *)
Alike(m, n, C, P) ==
  /\ n \in HashMemory
  /\ \A cell \in Cells \ C : In(n, cell) = In(m, cell)
  /\ \A x \in Nodes \ P : n.pprev[x] = m.pprev[x]

-----------------------------------------------------------------------------
(* Cells.                                                                  *)

LEMMA CellOfHead ==
  ASSUME NEW h \in Buckets
  PROVE  /\ FirstOf(h) \in Cells
         /\ \A m : In(m, FirstOf(h)) = m.first[h]
         /\ \A g : FirstOf(g) = FirstOf(h) <=> g = h
         /\ \A x : FirstOf(h) # NextOf(x)
BY DEF FirstOf, NextOf, Cells, In

LEMMA CellOfNode ==
  ASSUME NEW x \in Nodes
  PROVE  /\ NextOf(x) \in Cells
         /\ \A m : In(m, NextOf(x)) = m.next[x]
         /\ \A y : NextOf(x) = NextOf(y) <=> x = y
BY DEF NextOf, Cells, In

LEMMA StoredInCell ==
  ASSUME NEW m \in HashMemory, NEW cell \in Cells, NEW x \in Nodes \union {NULL}
  PROVE  /\ Alike(m, Store(m, cell, x), {cell}, {})
         /\ In(Store(m, cell, x), cell) = x
         /\ Store(m, cell, x).pprev = m.pprev
<1>1. CASE \E h \in Buckets : cell = FirstOf(h)
  <2>1. PICK h \in Buckets : cell = FirstOf(h)
    BY <1>1
  <2>2. PICK n : n = Store(m, cell, x)
    OBVIOUS
  <2>3. n = [m EXCEPT !.first[h] = x]
    BY <2>1, <2>2 DEF Store, FirstOf
  <2>4. n \in HashMemory /\ n.first = [m.first EXCEPT ![h] = x] /\ n.next = m.next /\ n.pprev = m.pprev
    BY <2>3 DEF HashMemory
  <2>5. n.first[h] = x /\ \A g \in Buckets : g # h => n.first[g] = m.first[g]
    BY <2>4 DEF HashMemory
  <2>6. In(n, cell) = x
    BY <2>1, <2>5, CellOfHead
  <2>7. ASSUME NEW d \in Cells, d # cell PROVE In(n, d) = In(m, d)
    <3>1. CASE \E g \in Buckets : d = FirstOf(g)
      <4>1. PICK g \in Buckets : d = FirstOf(g)
        BY <3>1
      <4>2. g # h
        BY <2>1, <2>7, <4>1
      <4> QED BY <2>5, <4>1, <4>2, CellOfHead
    <3>2. CASE \E y \in Nodes : d = NextOf(y)
      BY <2>4, <3>2, CellOfNode
    <3> QED BY <3>1, <3>2 DEF Cells
  <2> QED BY <2>2, <2>4, <2>6, <2>7 DEF Alike
<1>2. CASE \E y \in Nodes : cell = NextOf(y)
  <2>1. PICK y \in Nodes : cell = NextOf(y)
    BY <1>2
  <2>2. PICK n : n = Store(m, cell, x)
    OBVIOUS
  <2>3. n = [m EXCEPT !.next[y] = x]
    BY <2>1, <2>2 DEF Store, NextOf
  <2>4. n \in HashMemory /\ n.next = [m.next EXCEPT ![y] = x] /\ n.first = m.first /\ n.pprev = m.pprev
    BY <2>3 DEF HashMemory
  <2>5. n.next[y] = x /\ \A z \in Nodes : z # y => n.next[z] = m.next[z]
    BY <2>4 DEF HashMemory
  <2>6. In(n, cell) = x
    BY <2>1, <2>5, CellOfNode
  <2>7. ASSUME NEW d \in Cells, d # cell PROVE In(n, d) = In(m, d)
    <3>1. CASE \E g \in Buckets : d = FirstOf(g)
      BY <2>4, <3>1, CellOfHead
    <3>2. CASE \E z \in Nodes : d = NextOf(z)
      <4>1. PICK z \in Nodes : d = NextOf(z)
        BY <3>2
      <4>2. z # y
        BY <2>1, <2>7, <4>1
      <4> QED BY <2>5, <4>1, <4>2, CellOfNode
    <3> QED BY <3>1, <3>2 DEF Cells
  <2> QED BY <2>2, <2>4, <2>6, <2>7 DEF Alike
<1> QED BY <1>1, <1>2 DEF Cells

(* A function that writes only the pprev of x. *)
LEMMA PprevSet ==
  ASSUME NEW m \in HashMemory, NEW x \in Nodes, NEW v \in Cells \union {NULL, LIST_POISON2}
  PROVE  /\ Alike(m, [m EXCEPT !.pprev[x] = v], {}, {x})
         /\ [m EXCEPT !.pprev[x] = v].pprev[x] = v
<1>1. PICK n : n = [m EXCEPT !.pprev[x] = v]
  OBVIOUS
<1>2. /\ n \in HashMemory /\ n.first = m.first /\ n.next = m.next
      /\ n.pprev[x] = v /\ \A y \in Nodes : y # x => n.pprev[y] = m.pprev[y]
  BY <1>1 DEF HashMemory
<1>3. \A d \in Cells : In(n, d) = In(m, d)
  BY <1>2 DEF In
<1> QED BY <1>1, <1>2, <1>3 DEF Alike

Repoint(m, x, v) == [m EXCEPT !.pprev[x] = v]

LEMMA Repoints ==
  ASSUME NEW m \in HashMemory, NEW x \in Nodes, NEW v \in Cells
  PROVE  Alike(m, Repoint(m, x, v), {}, {x}) /\ Repoint(m, x, v).pprev[x] = v
<1>1. PICK w \in Cells \union {NULL, LIST_POISON2} : w = v
  OBVIOUS
<1>2. PICK n : n = [m EXCEPT !.pprev[x] = w]
  OBVIOUS
<1>3. Alike(m, n, {}, {x}) /\ n.pprev[x] = w
  BY <1>2, PprevSet
<1> QED BY <1>1, <1>2, <1>3 DEF Repoint

LEMMA PointsBack ==
  ASSUME NullIsNothing, NEW m \in HashMemory, NEW x \in Nodes \union {NULL}, NEW cell \in Cells
  PROVE  /\ Alike(m, PointBack(m, x, cell), {}, {x})
         /\ x \in Nodes => PointBack(m, x, cell).pprev[x] = cell
<1>1. CASE x = NULL
  <2>1. PointBack(m, x, cell) = m /\ x \notin Nodes
    BY <1>1 DEF PointBack, NullIsNothing
  <2>2. Alike(m, m, {}, {x})
    BY DEF Alike
  <2> QED BY <2>1, <2>2
<1>2. CASE x \in Nodes
  <2>1. PointBack(m, x, cell) = [m EXCEPT !.pprev[x] = cell]
    BY <1>2 DEF PointBack, NullIsNothing
  <2>2. cell \in Cells \union {NULL, LIST_POISON2}
    OBVIOUS
  <2>3. /\ Alike(m, [m EXCEPT !.pprev[x] = cell], {}, {x})
        /\ [m EXCEPT !.pprev[x] = cell].pprev[x] = cell
    BY <1>2, <2>2, PprevSet, Zenon
  <2> QED BY <2>1, <2>3, Zenon
<1> QED BY <1>1, <1>2

-----------------------------------------------------------------------------
(* Chains.                                                                 *)

(* The cell that points at the entry i of the list s of h, and the entry;  *)
(* the one after the last is NULL.                                         *)
Cell(h, s, i) == IF i = 1 THEN FirstOf(h) ELSE NextOf(s[i - 1])
Entry(s, i) == IF i <= Len(s) THEN s[i] ELSE NULL

Chain(m, h, s) ==
  \A i \in 1..(Len(s) + 1) :
    /\ In(m, Cell(h, s, i)) = Entry(s, i)
    /\ i <= Len(s) => m.pprev[s[i]] = Cell(h, s, i)

Once(s) == \A i, j \in 1..Len(s) : s[i] = s[j] => i = j
Has(s, x) == \E i \in 1..Len(s) : s[i] = x

LEMMA CellIsOne ==
  ASSUME NEW h \in Buckets, NEW s \in Seq(Nodes), NEW i \in 1..(Len(s) + 1)
  PROVE  /\ Cell(h, s, i) \in Cells
         /\ Entry(s, i) \in Nodes \union {NULL}
         /\ i <= Len(s) => Entry(s, i) = s[i] /\ s[i] \in Nodes
<1>1. i # 1 => i - 1 \in 1..Len(s) /\ s[i - 1] \in Nodes
  OBVIOUS
<1>2. Cell(h, s, i) \in Cells
  BY <1>1, CellOfHead, CellOfNode DEF Cell
<1> QED BY <1>2 DEF Entry

(* The cells of the lists of two heads are apart if their nodes are, and   *)
(* those of one list are all different.                                    *)
LEMMA CellsApart ==
  ASSUME NEW h \in Buckets, NEW g \in Buckets, NEW s \in Seq(Nodes), NEW q \in Seq(Nodes),
         NEW i \in 1..(Len(s) + 1), NEW j \in 1..(Len(q) + 1)
  PROVE  /\ h # g /\ (\A x : ~(Has(s, x) /\ Has(q, x))) => Cell(h, s, i) # Cell(g, q, j)
         /\ \A x \in Nodes : ~Has(s, x) => Cell(h, s, i) # NextOf(x)
         /\ \A k \in 1..Len(s) : Cell(h, s, i) = NextOf(s[k]) /\ Once(s) => k = i - 1
<1>1. i # 1 => i - 1 \in 1..Len(s) /\ s[i - 1] \in Nodes /\ Has(s, s[i - 1])
  BY DEF Has
<1>2. j # 1 => j - 1 \in 1..Len(q) /\ q[j - 1] \in Nodes /\ Has(q, q[j - 1])
  BY DEF Has
<1>3. ASSUME h # g, \A x : ~(Has(s, x) /\ Has(q, x)), Cell(h, s, i) = Cell(g, q, j)
      PROVE  FALSE
  <2>1. CASE i = 1 \/ j = 1
    BY <1>1, <1>2, <1>3, <2>1, CellOfHead DEF Cell
  <2>2. CASE i # 1 /\ j # 1
    <3>1. NextOf(s[i - 1]) = NextOf(q[j - 1])
      BY <1>3, <2>2 DEF Cell
    <3>2. s[i - 1] = q[j - 1]
      BY <1>1, <2>2, <3>1, CellOfNode
    <3> QED BY <1>1, <1>2, <1>3, <2>2, <3>2
  <2> QED BY <2>1, <2>2
<1>4. ASSUME NEW x \in Nodes, Cell(h, s, i) = NextOf(x)
      PROVE  i # 1 /\ s[i - 1] = x
  <2>1. i # 1
    BY <1>4, CellOfHead DEF Cell
  <2> QED BY <1>1, <1>4, <2>1, CellOfNode DEF Cell
<1>5. ASSUME NEW k \in 1..Len(s), Cell(h, s, i) = NextOf(s[k]), Once(s)
      PROVE  k = i - 1
  <2>1. s[k] \in Nodes
    OBVIOUS
  <2>2. i # 1 /\ s[i - 1] = s[k]
    BY <1>4, <1>5, <2>1
  <2> QED BY <1>1, <1>5, <2>2 DEF Once
<1> QED BY <1>1, <1>3, <1>4, <1>5

(* A chain that has none of the cells and nodes written stays one. *)
LEMMA ChainElsewhere ==
  ASSUME NEW h \in Buckets, NEW s \in Seq(Nodes), NEW m, NEW n, NEW C, NEW P,
         Chain(m, h, s), Alike(m, n, C, P),
         \A i \in 1..(Len(s) + 1) : Cell(h, s, i) \notin C,
         \A i \in 1..Len(s) : s[i] \notin P
  PROVE  Chain(n, h, s)
<1> SUFFICES ASSUME NEW i \in 1..(Len(s) + 1)
             PROVE  /\ In(n, Cell(h, s, i)) = Entry(s, i)
                    /\ i <= Len(s) => n.pprev[s[i]] = Cell(h, s, i)
  BY DEF Chain
<1>1. In(n, Cell(h, s, i)) = In(m, Cell(h, s, i))
  BY CellIsOne DEF Alike
<1>2. i <= Len(s) => n.pprev[s[i]] = m.pprev[s[i]]
  BY CellIsOne DEF Alike
<1> QED BY <1>1, <1>2 DEF Chain

LEMMA CellsDiffer ==
  ASSUME NEW h \in Buckets, NEW s \in Seq(Nodes), Once(s),
         NEW i \in 1..(Len(s) + 1), NEW j \in 1..(Len(s) + 1), Cell(h, s, i) = Cell(h, s, j)
  PROVE  i = j
<1>1. i # 1 => i - 1 \in 1..Len(s) /\ s[i - 1] \in Nodes
  OBVIOUS
<1>2. j # 1 => j - 1 \in 1..Len(s) /\ s[j - 1] \in Nodes
  OBVIOUS
<1>3. CASE i = 1 \/ j = 1
  BY <1>1, <1>2, <1>3, CellOfHead DEF Cell
<1>4. CASE i # 1 /\ j # 1
  <2>1. NextOf(s[i - 1]) = NextOf(s[j - 1])
    BY <1>4 DEF Cell
  <2>2. s[i - 1] = s[j - 1]
    BY <1>1, <1>4, <2>1, CellOfNode
  <2>3. i - 1 = j - 1
    BY <1>1, <1>2, <1>4, <2>2 DEF Once
  <2> QED BY <2>3
<1> QED BY <1>3, <1>4

-----------------------------------------------------------------------------
(* Putting a node into a chain, and taking one out.                        *)

(* x comes between the cell c and y, which the cell pointed at. *)
Puts(m, n, x, c, y) ==
  /\ Alike(m, n, {c, NextOf(x)}, {x, y})
  /\ In(n, c) = x /\ In(n, NextOf(x)) = y
  /\ n.pprev[x] = c
  /\ y \in Nodes => n.pprev[y] = NextOf(x)

(* x, between the cell c and y, is gone. *)
Takes(m, n, x, c, y) ==
  /\ Alike(m, n, {c, NextOf(x)}, {x, y})
  /\ In(n, c) = y
  /\ y \in Nodes => n.pprev[y] = c

LEMMA InsertedSeq ==
  ASSUME NEW s \in Seq(Nodes), NEW i \in 1..(Len(s) + 1), NEW x \in Nodes
  PROVE  /\ Inserted(s, i, x) \in Seq(Nodes)
         /\ Len(Inserted(s, i, x)) = Len(s) + 1
         /\ \A j \in 1..(Len(s) + 1) :
              Inserted(s, i, x)[j] = IF j < i THEN s[j] ELSE IF j = i THEN x ELSE s[j - 1]
<1>1. Len(s) \in Nat /\ \A j \in 1..Len(s) : s[j] \in Nodes
  OBVIOUS
<1> DEFINE a == SubSeq(s, 1, i - 1)
           b == SubSeq(s, i, Len(s))
<1>2. a \in Seq(Nodes) /\ Len(a) = i - 1 /\ \A j \in 1..(i - 1) : a[j] = s[j]
  BY <1>1, SubSeqProperties
<1>3. b \in Seq(Nodes) /\ Len(b) = Len(s) - i + 1 /\ \A j \in 1..(Len(s) - i + 1) : b[j] = s[i + j - 1]
  BY <1>1, SubSeqProperties
<1> HIDE DEF a, b
<1>4. PICK c \in Seq(Nodes) : c = a \o <<x>>
  <2>1. <<x>> \in Seq(Nodes)
    OBVIOUS
  <2> QED BY <1>2, <2>1, ConcatProperties
<1>5. Len(c) = i /\ c[i] = x /\ \A j \in 1..(i - 1) : c[j] = s[j]
  BY <1>2, <1>4
<1>6. PICK t \in Seq(Nodes) : t = c \o b
  BY <1>3, ConcatProperties
<1>7. /\ Len(t) = Len(s) + 1
      /\ \A j \in 1..i : t[j] = c[j]
      /\ \A j \in (i + 1)..(Len(s) + 1) : t[j] = b[j - i]
  BY <1>3, <1>5, <1>6
<1>8. ASSUME NEW j \in (i + 1)..(Len(s) + 1) PROVE t[j] = s[j - 1]
  <2>1. j - i \in 1..(Len(s) - i + 1) /\ i + (j - i) - 1 = j - 1
    BY <1>1
  <2> QED BY <1>3, <1>7, <2>1
<1>9. ASSUME NEW j \in 1..(Len(s) + 1)
      PROVE  t[j] = IF j < i THEN s[j] ELSE IF j = i THEN x ELSE s[j - 1]
  <2>1. j \in 1..(i - 1) \/ j = i \/ j \in (i + 1)..(Len(s) + 1)
    BY <1>1
  <2> QED BY <1>5, <1>7, <1>8, <2>1
<1>10. Inserted(s, i, x) = t
  BY <1>4, <1>6 DEF Inserted, a, b
<1> QED BY <1>7, <1>9, <1>10

LEMMA ChainInsert ==
  ASSUME NullIsNothing,
         NEW h \in Buckets, NEW s \in Seq(Nodes), Once(s), NEW i \in 1..(Len(s) + 1),
         NEW x \in Nodes, ~Has(s, x), NEW m, NEW n,
         Chain(m, h, s), Puts(m, n, x, Cell(h, s, i), Entry(s, i))
  PROVE  Chain(n, h, Inserted(s, i, x))
<1>1. PICK t \in Seq(Nodes) :
        /\ t = Inserted(s, i, x) /\ Len(t) = Len(s) + 1
        /\ \A j \in 1..(Len(s) + 1) :
             t[j] = IF j < i THEN s[j] ELSE IF j = i THEN x ELSE s[j - 1]
  BY InsertedSeq
<1>2. Len(s) \in Nat
  OBVIOUS
<1>3. ASSUME NEW j \in 1..(Len(s) + 1), j # i
      PROVE  /\ In(n, Cell(h, s, j)) = Entry(s, j)
             /\ j <= Len(s) => n.pprev[s[j]] = Cell(h, s, j)
  <2>1. Cell(h, s, j) \notin {Cell(h, s, i), NextOf(x)} /\ Cell(h, s, j) \in Cells
    BY <1>3, CellsDiffer, CellsApart, CellIsOne
  <2>2. In(n, Cell(h, s, j)) = Entry(s, j)
    BY <2>1 DEF Chain, Puts, Alike
  <2>3. ASSUME j <= Len(s) PROVE s[j] \in Nodes /\ s[j] \notin {x, Entry(s, i)}
    <3>1. j \in 1..Len(s) /\ s[j] \in Nodes /\ s[j] # x
      BY <2>3 DEF Has
    <3>2. s[j] # Entry(s, i)
      BY <1>2, <1>3, <3>1 DEF Entry, Once, NullIsNothing
    <3> QED BY <3>1, <3>2
  <2> QED BY <2>2, <2>3 DEF Chain, Puts, Alike
<1>4. SUFFICES ASSUME NEW j \in 1..(Len(t) + 1)
               PROVE  /\ In(n, Cell(h, t, j)) = Entry(t, j)
                      /\ j <= Len(t) => n.pprev[t[j]] = Cell(h, t, j)
  BY <1>1 DEF Chain
<1>5. CASE j <= i
  <2>1. Cell(h, t, j) = Cell(h, s, j)
    BY <1>1, <1>2, <1>5 DEF Cell
  <2>2. CASE j = i
    BY <1>1, <1>2, <2>1, <2>2 DEF Puts, Entry
  <2>3. CASE j # i
    BY <1>1, <1>2, <1>3, <1>5, <2>1, <2>3 DEF Entry
  <2> QED BY <2>2, <2>3
<1>6. CASE j = i + 1
  <2>1. Cell(h, t, j) = NextOf(x) /\ Entry(t, j) = Entry(s, i)
    BY <1>1, <1>2, <1>6 DEF Cell, Entry
  <2>2. ASSUME j <= Len(t) PROVE n.pprev[t[j]] = NextOf(x)
    <3>1. j \in 1..(Len(s) + 1) /\ ~(j < i) /\ j # i /\ j - 1 = i /\ i \in 1..Len(s)
      BY <1>1, <1>2, <1>6, <2>2
    <3>2. t[j] = s[i]
      BY <1>1, <3>1
    <3>3. Entry(s, i) = s[i] /\ s[i] \in Nodes
      BY <3>1 DEF Entry
    <3> QED BY <3>2, <3>3 DEF Puts
  <2> QED BY <2>1, <2>2 DEF Puts
<1>7. CASE j > i + 1
  <2>1. /\ j - 1 \in 1..(Len(s) + 1) /\ j - 1 # i /\ j # 1 /\ j - 1 # 1
        /\ j <= Len(t) <=> j - 1 <= Len(s)
        /\ j - 1 \in 1..(Len(s) + 1) /\ ~(j - 1 < i)
    BY <1>1, <1>2, <1>7
  <2>2. Cell(h, t, j) = Cell(h, s, j - 1)
    <3>1. t[j - 1] = s[(j - 1) - 1]
      BY <1>1, <2>1
    <3> QED BY <2>1, <3>1 DEF Cell
  <2>3. j <= Len(t) => t[j] = s[j - 1]
    <3>1. ~(j < i) /\ j # i
      BY <1>2, <1>7
    <3> QED BY <1>1, <3>1
  <2>4. Entry(t, j) = Entry(s, j - 1)
    BY <2>1, <2>3 DEF Entry
  <2> QED BY <1>3, <2>1, <2>2, <2>3, <2>4
<1> QED BY <1>2, <1>5, <1>6, <1>7

LEMMA ChainRemove ==
  ASSUME NullIsNothing,
         NEW h \in Buckets, NEW s \in Seq(Nodes), Once(s), NEW i \in 1..Len(s), NEW m, NEW n,
         Chain(m, h, s), Takes(m, n, s[i], Cell(h, s, i), Entry(s, i + 1))
  PROVE  Chain(n, h, RemoveAt(s, i))
<1>1. PICK t \in Seq(Nodes) :
        /\ t = RemoveAt(s, i) /\ Len(t) = Len(s) - 1
        /\ \A j \in 1..(Len(s) - 1) : t[j] = IF j < i THEN s[j] ELSE s[j + 1]
  <2>1. i \in DOMAIN s
    OBVIOUS
  <2>2. /\ RemoveAt(s, i) \in Seq(Nodes) /\ Len(RemoveAt(s, i)) = Len(s) - 1
        /\ \A j \in 1..(Len(s) - 1) :
             RemoveAt(s, i)[j] = IF j < i THEN s[j] ELSE s[j + 1]
    BY <2>1, RemoveAtSeq, Zenon
  <2> QED BY <2>2
<1>2. Len(s) \in Nat /\ s[i] \in Nodes
  OBVIOUS
<1>3. ASSUME NEW j \in 1..(Len(s) + 1), j # i, j # i + 1
      PROVE  /\ In(n, Cell(h, s, j)) = Entry(s, j)
             /\ j <= Len(s) => n.pprev[s[j]] = Cell(h, s, j)
  <2>1. Cell(h, s, j) \notin {Cell(h, s, i), NextOf(s[i])} /\ Cell(h, s, j) \in Cells
    <3>1. Cell(h, s, j) = NextOf(s[i]) => i = j - 1
      BY CellsApart
    <3> QED BY <1>3, <3>1, CellsDiffer, CellIsOne
  <2>2. In(n, Cell(h, s, j)) = Entry(s, j)
    BY <2>1 DEF Chain, Takes, Alike
  <2>3. ASSUME j <= Len(s) PROVE s[j] \in Nodes /\ s[j] \notin {s[i], Entry(s, i + 1)}
    <3>1. j \in 1..Len(s) /\ s[j] \in Nodes /\ s[j] # s[i]
      BY <1>3, <2>3 DEF Once
    <3>2. s[j] # Entry(s, i + 1)
      BY <1>2, <1>3, <3>1 DEF Entry, Once, NullIsNothing
    <3> QED BY <3>1, <3>2
  <2> QED BY <2>2, <2>3 DEF Chain, Takes, Alike
<1>4. SUFFICES ASSUME NEW j \in 1..(Len(t) + 1)
               PROVE  /\ In(n, Cell(h, t, j)) = Entry(t, j)
                      /\ j <= Len(t) => n.pprev[t[j]] = Cell(h, t, j)
  BY <1>1 DEF Chain
<1>5. CASE j = i
  <2>1. Cell(h, t, j) = Cell(h, s, i) /\ Entry(t, j) = Entry(s, i + 1)
    BY <1>1, <1>2, <1>5 DEF Cell, Entry
  <2>2. ASSUME j <= Len(t) PROVE n.pprev[t[j]] = Cell(h, s, i)
    <3>1. t[j] = s[i + 1] /\ Entry(s, i + 1) = s[i + 1] /\ s[i + 1] \in Nodes
      BY <1>1, <1>2, <1>5, <2>2 DEF Entry
    <3> QED BY <3>1 DEF Takes
  <2> QED BY <2>1, <2>2 DEF Takes
<1>6. CASE j < i
  <2>1. /\ j \in 1..(Len(s) + 1) /\ j # i /\ j # i + 1 /\ j <= Len(s)
        /\ j \in 1..(Len(s) - 1) /\ j <= Len(t)
        /\ j # 1 => j - 1 \in 1..(Len(s) - 1) /\ j - 1 < i
    BY <1>1, <1>2, <1>6
  <2>2. t[j] = s[j] /\ (j # 1 => t[j - 1] = s[j - 1])
    BY <1>1, <1>6, <2>1
  <2>3. Cell(h, t, j) = Cell(h, s, j) /\ Entry(t, j) = Entry(s, j)
    BY <2>1, <2>2 DEF Cell, Entry
  <2> QED BY <1>3, <2>1, <2>2, <2>3
<1>7. CASE j > i
  <2>1. /\ j + 1 \in 1..(Len(s) + 1) /\ j + 1 # i /\ j + 1 # i + 1
        /\ Cell(h, t, j) = Cell(h, s, j + 1) /\ Entry(t, j) = Entry(s, j + 1)
        /\ j <= Len(t) => j + 1 <= Len(s) /\ t[j] = s[j + 1]
    BY <1>1, <1>2, <1>7 DEF Cell, Entry
  <2> QED BY <1>3, <2>1
<1> QED BY <1>2, <1>5, <1>6, <1>7

-----------------------------------------------------------------------------
(* What the functions write. *)

LEMMA AlikeThen ==
  ASSUME NEW m, NEW n, NEW o, NEW C, NEW P, NEW D, NEW Q, Alike(m, n, C, P), Alike(n, o, D, Q)
  PROVE  Alike(m, o, C \union D, P \union Q)
BY DEF Alike

LEMMA AddHeadPuts ==
  ASSUME NullIsNothing, NEW m \in HashMemory, NEW h \in Buckets, NEW x \in Nodes,
         NEW y \in Nodes \union {NULL}, y # x, In(m, FirstOf(h)) = y
  PROVE  Puts(m, hlist_add_head(m, x, h), x, FirstOf(h), y)
<1>1. PICK d : d = NextOf(x)
  OBVIOUS
<1>2. PICK c : c = FirstOf(h)
  OBVIOUS
<1>3. d \in Cells /\ c \in Cells /\ c # d /\ In(m, c) = m.first[h]
  BY <1>1, <1>2, CellOfHead, CellOfNode
<1>4. PICK m1 \in HashMemory :
        m1 = Store(m, d, y) /\ Alike(m, m1, {d}, {}) /\ In(m1, d) = y
  BY <1>3, StoredInCell DEF Alike
<1>5. PICK m2 \in HashMemory :
        /\ m2 = PointBack(m1, y, d) /\ Alike(m1, m2, {}, {y})
        /\ y \in Nodes => m2.pprev[y] = d
  BY <1>3, PointsBack, SMTT(40) DEF Alike
<1>6. PICK m3 \in HashMemory :
        m3 = Store(m2, c, x) /\ Alike(m2, m3, {c}, {}) /\ In(m3, c) = x
  BY <1>3, StoredInCell, SMTT(40) DEF Alike
<1>7. PICK m4 \in HashMemory :
        m4 = Repoint(m3, x, c) /\ Alike(m3, m4, {}, {x}) /\ m4.pprev[x] = c
  BY <1>3, Repoints, SMTT(40) DEF Alike
<1>8. hlist_add_head(m, x, h) = m4
  <2>1. m1 = [m EXCEPT !.next[x] = m.first[h]]
    BY <1>1, <1>2, <1>3, <1>4 DEF Store, NextOf
  <2>2. m3 = [m2 EXCEPT !.first[h] = x]
    BY <1>2, <1>6 DEF Store, FirstOf
  <2>3. hlist_add_head(m, x, h) = [m2 EXCEPT !.first[h] = x, !.pprev[x] = c]
    BY <1>1, <1>2, <1>3, <1>5, <2>1 DEF hlist_add_head
  <2> QED BY <1>7, <2>2, <2>3 DEF Repoint
<1>9. Alike(m, m4, {c, d}, {x, y})
  <2>1. Alike(m, m2, {d}, {y})
    BY <1>4, <1>5, AlikeThen
  <2>2. Alike(m2, m4, {c}, {x})
    BY <1>6, <1>7, AlikeThen
  <2>3. {d} \union {c} = {c, d} /\ {y} \union {x} = {x, y}
    OBVIOUS
  <2> QED BY <2>1, <2>2, <2>3, AlikeThen
<1>10. In(m4, c) = x /\ In(m4, d) = y
  BY <1>3, <1>4, <1>5, <1>6, <1>7 DEF Alike
<1>11. y \in Nodes => m4.pprev[y] = d
  BY <1>5, <1>6, <1>7 DEF Alike
<1> QED BY <1>1, <1>2, <1>7, <1>8, <1>9, <1>10, <1>11 DEF Puts

LEMMA AddBeforePuts ==
  ASSUME NullIsNothing, NEW m \in HashMemory, NEW x \in Nodes, NEW y \in Nodes, y # x,
         NEW c \in Cells, c # NextOf(x), m.pprev[y] = c
  PROVE  Puts(m, hlist_add_before(m, x, y), x, c, y)
<1>1. PICK d : d = NextOf(x)
  OBVIOUS
<1>2. d \in Cells
  BY <1>1, CellOfNode
<1>3. PICK m1 \in HashMemory :
        m1 = Repoint(m, x, c) /\ Alike(m, m1, {}, {x}) /\ m1.pprev[x] = c
  BY Repoints DEF Alike
<1>4. PICK m2 \in HashMemory :
        m2 = Store(m1, d, y) /\ Alike(m1, m2, {d}, {}) /\ In(m2, d) = y
  BY <1>2, StoredInCell DEF Alike
<1>5. PICK m3 \in HashMemory :
        m3 = Repoint(m2, y, d) /\ Alike(m2, m3, {}, {y}) /\ m3.pprev[y] = d
  BY <1>2, Repoints, SMTT(40) DEF Alike
<1>6. PICK m4 \in HashMemory :
        m4 = Store(m3, c, x) /\ Alike(m3, m4, {c}, {}) /\ In(m4, c) = x
  BY StoredInCell DEF Alike
<1>7. hlist_add_before(m, x, y) = m4
  <2>1. m2 = [m1 EXCEPT !.next[x] = y]
    BY <1>1, <1>4 DEF Store, NextOf
  <2>2. m3 = [m EXCEPT !.pprev[x] = c, !.next[x] = y, !.pprev[y] = d]
    BY <1>3, <1>5, <2>1 DEF Repoint
  <2> QED BY <1>1, <1>6, <2>2 DEF hlist_add_before
<1>8. Alike(m, m4, {c, d}, {x, y})
  <2>1. Alike(m, m2, {d}, {x})
    BY <1>3, <1>4, AlikeThen
  <2>2. Alike(m2, m4, {c}, {y})
    BY <1>5, <1>6, AlikeThen
  <2>3. {d} \union {c} = {c, d} /\ {x} \union {y} = {x, y}
    OBVIOUS
  <2> QED BY <2>1, <2>2, <2>3, AlikeThen
<1>9. In(m4, c) = x /\ In(m4, d) = y
  BY <1>1, <1>2, <1>4, <1>5, <1>6 DEF Alike
<1>10. m4.pprev[x] = c /\ m4.pprev[y] = d
  BY <1>3, <1>4, <1>5, <1>6 DEF Alike
<1> QED BY <1>1, <1>7, <1>8, <1>9, <1>10 DEF Puts

LEMMA AddBehindPuts ==
  ASSUME NullIsNothing, NEW m \in HashMemory, NEW x \in Nodes, NEW z \in Nodes, z # x,
         NEW y \in Nodes \union {NULL}, y # x, m.next[z] = y
  PROVE  Puts(m, hlist_add_behind(m, x, z), x, NextOf(z), y)
<1>1. PICK d : d = NextOf(x)
  OBVIOUS
<1>2. PICK c : c = NextOf(z)
  OBVIOUS
<1>3. d \in Cells /\ c \in Cells /\ c # d
  BY <1>1, <1>2, CellOfNode
<1>4. PICK m1 \in HashMemory :
        m1 = Store(m, d, y) /\ Alike(m, m1, {d}, {}) /\ In(m1, d) = y
  BY <1>3, StoredInCell, ZenonT(60) DEF Alike
<1>5. PICK m2 \in HashMemory :
        m2 = Store(m1, c, x) /\ Alike(m1, m2, {c}, {}) /\ In(m2, c) = x
  <2>1. x \in Nodes \union {NULL}
    OBVIOUS
  <2>2. /\ Alike(m1, Store(m1, c, x), {c}, {})
        /\ In(Store(m1, c, x), c) = x
    BY <1>3, <2>1, StoredInCell, Zenon
  <2> QED BY <2>2 DEF Alike
<1>6. PICK m3 \in HashMemory :
        m3 = Repoint(m2, x, c) /\ Alike(m2, m3, {}, {x}) /\ m3.pprev[x] = c
  BY <1>3, Repoints, ZenonT(60) DEF Alike
<1>7. PICK m4 \in HashMemory :
        /\ m4 = PointBack(m3, y, d) /\ Alike(m3, m4, {}, {y})
        /\ y \in Nodes => m4.pprev[y] = d
  <2>1. /\ Alike(m3, PointBack(m3, y, d), {}, {y})
        /\ y \in Nodes => PointBack(m3, y, d).pprev[y] = d
    BY <1>3, PointsBack, SMTT(30)
  <2> QED BY <2>1 DEF Alike
<1>8. hlist_add_behind(m, x, z) = m4
  <2>1. m1 = [m EXCEPT !.next[x] = m.next[z]]
    BY <1>1, <1>4 DEF Store, NextOf
  <2>2. m2 = [m1 EXCEPT !.next[z] = x]
    BY <1>2, <1>5 DEF Store, NextOf
  <2>3. m3 = [m EXCEPT !.next[x] = m.next[z], !.next[z] = x, !.pprev[x] = c]
    BY <1>6, <2>1, <2>2 DEF Repoint
  <2> QED BY <1>1, <1>2, <1>7, <2>3 DEF hlist_add_behind
<1>9. Alike(m, m4, {c, d}, {x, y})
  <2>1. Alike(m, m2, {c, d}, {})
    <3>1. {d} \union {c} = {c, d} /\ {} \union {} = {}
      OBVIOUS
    <3> QED BY <1>4, <1>5, <3>1, AlikeThen
  <2>2. Alike(m2, m4, {}, {x, y})
    <3>1. {x} \union {y} = {x, y}
      OBVIOUS
    <3> QED BY <1>6, <1>7, <3>1, AlikeThen
  <2>3. {c, d} \union {} = {c, d} /\ {} \union {x, y} = {x, y}
    OBVIOUS
  <2> QED BY <2>1, <2>2, <2>3, AlikeThen
<1>10. In(m4, c) = x /\ In(m4, d) = y
  BY <1>3, <1>4, <1>5, <1>6, <1>7 DEF Alike
<1>11. m4.pprev[x] = c /\ (y \in Nodes => m4.pprev[y] = d)
  BY <1>6, <1>7 DEF Alike
<1> QED BY <1>1, <1>2, <1>8, <1>9, <1>10, <1>11 DEF Puts

LEMMA DelLinksTakes ==
  ASSUME NullIsNothing, NEW m \in HashMemory, NEW x \in Nodes, NEW c \in Cells,
         NEW y \in Nodes \union {NULL}, m.pprev[x] = c, m.next[x] = y
  PROVE  /\ hlist_del_links(m, x) \in HashMemory
         /\ Takes(m, hlist_del_links(m, x), x, c, y)
<1>1. PICK m1 \in HashMemory :
        m1 = Store(m, c, y) /\ Alike(m, m1, {c}, {}) /\ In(m1, c) = y
  BY StoredInCell DEF Alike
<1>2. PICK m2 \in HashMemory :
        /\ m2 = PointBack(m1, y, c) /\ Alike(m1, m2, {}, {y})
        /\ y \in Nodes => m2.pprev[y] = c
  BY PointsBack DEF Alike
<1>3. hlist_del_links(m, x) = m2
  BY <1>1, <1>2 DEF hlist_del_links
<1>4. Alike(m, m2, {c, NextOf(x)}, {x, y})
  BY <1>1, <1>2 DEF Alike
<1>5. In(m2, c) = y
  BY <1>1, <1>2 DEF Alike
<1> QED BY <1>2, <1>3, <1>4, <1>5 DEF Takes

(* The rest of hlist_del and hlist_del_init writes only the node. *)
NextValues == Nodes \union {NULL, LIST_POISON1}
PprevValues == Cells \union {NULL, LIST_POISON2}
Written(m, x, a, b) == [m EXCEPT !.next[x] = a, !.pprev[x] = b]

LEMMA NodeWritten ==
  ASSUME NEW m \in HashMemory, NEW x \in Nodes,
         NEW a \in NextValues, NEW b \in PprevValues
  PROVE  /\ Alike(m, Written(m, x, a, b), {NextOf(x)}, {x})
         /\ Written(m, x, a, b).next[x] = a /\ Written(m, x, a, b).pprev[x] = b
<1>1. PICK n : n = Written(m, x, a, b)
  OBVIOUS
<1>2. /\ n \in HashMemory /\ n.first = m.first
      /\ n.next = [m.next EXCEPT ![x] = a] /\ n.pprev = [m.pprev EXCEPT ![x] = b]
  BY <1>1 DEF HashMemory, Written, NextValues, PprevValues
<1>3. /\ n.next[x] = a /\ \A z \in Nodes : z # x => n.next[z] = m.next[z]
      /\ n.pprev[x] = b /\ \A z \in Nodes : z # x => n.pprev[z] = m.pprev[z]
  BY <1>2 DEF HashMemory
<1>4. ASSUME NEW d \in Cells, d # NextOf(x) PROVE In(n, d) = In(m, d)
  <2>1. CASE \E g \in Buckets : d = FirstOf(g)
    BY <1>2, <2>1, CellOfHead
  <2>2. CASE \E z \in Nodes : d = NextOf(z)
    BY <1>3, <1>4, <2>2, CellOfNode
  <2> QED BY <2>1, <2>2 DEF Cells
<1>5. Alike(m, n, {NextOf(x)}, {x})
  BY <1>2, <1>3, <1>4 DEF Alike
<1> QED BY <1>1, <1>3, <1>5

LEMMA WrittenAfterTaking ==
  ASSUME NullIsNothing, NEW m, NEW n \in HashMemory, NEW x \in Nodes, NEW c \in Cells,
         NEW y \in Nodes \union {NULL}, y # x, c # NextOf(x), Takes(m, n, x, c, y),
         NEW o, Alike(n, o, {NextOf(x)}, {x})
  PROVE  Takes(m, o, x, c, y)
<1>1. Alike(m, o, {c, NextOf(x)}, {x, y})
  <2>1. {c, NextOf(x)} \union {NextOf(x)} = {c, NextOf(x)} /\ {x, y} \union {x} = {x, y}
    OBVIOUS
  <2> QED BY <2>1, AlikeThen DEF Takes
<1>2. In(o, c) = y /\ (y \in Nodes => o.pprev[y] = c)
  BY DEF Takes, Alike
<1> QED BY <1>1, <1>2 DEF Takes

LEMMA DelTakes ==
  ASSUME NullIsNothing, NEW m \in HashMemory, NEW x \in Nodes, NEW c \in Cells, c # NextOf(x),
         NEW y \in Nodes \union {NULL}, y # x, m.pprev[x] = c, m.next[x] = y
  PROVE  /\ Takes(m, hlist_del(m, x), x, c, y)
         /\ Takes(m, hlist_del_init(m, x), x, c, y)
         /\ hlist_del_init(m, x).next[x] = NULL /\ hlist_del_init(m, x).pprev[x] = NULL
<1>1. PICK n \in HashMemory : n = hlist_del_links(m, x) /\ Takes(m, n, x, c, y)
  BY DelLinksTakes
<1>2. PICK o : o = Written(n, x, LIST_POISON1, LIST_POISON2)
  OBVIOUS
<1>3. Alike(n, o, {NextOf(x)}, {x})
  <2>1. LIST_POISON1 \in NextValues /\ LIST_POISON2 \in PprevValues
    BY DEF NextValues, PprevValues
  <2> QED BY <1>2, <2>1, NodeWritten
<1>4. hlist_del(m, x) = o
  BY <1>1, <1>2 DEF hlist_del, Written
<1>5. PICK p : p = Written(n, x, NULL, NULL)
  OBVIOUS
<1>6. Alike(n, p, {NextOf(x)}, {x}) /\ p.next[x] = NULL /\ p.pprev[x] = NULL
  <2>1. NULL \in NextValues /\ NULL \in PprevValues
    BY DEF NextValues, PprevValues
  <2> QED BY <1>5, <2>1, NodeWritten
<1>7. hlist_del_init(m, x) = p
  BY <1>1, <1>5 DEF hlist_del_init, hlist_unhashed, INIT_HLIST_NODE, NullIsNothing, Written
<1> QED BY <1>1, <1>3, <1>4, <1>6, <1>7, WrittenAfterTaking

LEMMA MoveMoves ==
  ASSUME NullIsNothing, NEW m \in HashMemory, NEW old \in Buckets, NEW new \in Buckets, old # new,
         NEW y \in Nodes \union {NULL}, In(m, FirstOf(old)) = y
  PROVE  LET n == hlist_move_list(m, old, new)
         IN  /\ Alike(m, n, {FirstOf(old), FirstOf(new)}, {y})
             /\ In(n, FirstOf(new)) = y /\ In(n, FirstOf(old)) = NULL
             /\ y \in Nodes => n.pprev[y] = FirstOf(new)
<1>1. PICK c : c = FirstOf(old)
  OBVIOUS
<1>2. PICK d : d = FirstOf(new)
  OBVIOUS
<1>3. c \in Cells /\ d \in Cells /\ c # d /\ In(m, c) = m.first[old]
  BY <1>1, <1>2, CellOfHead
<1>4. PICK m1 \in HashMemory :
        m1 = Store(m, d, y) /\ Alike(m, m1, {d}, {}) /\ In(m1, d) = y
  BY <1>3, StoredInCell DEF Alike
<1>5. PICK m2 \in HashMemory :
        /\ m2 = PointBack(m1, y, d) /\ Alike(m1, m2, {}, {y})
        /\ y \in Nodes => m2.pprev[y] = d
  BY <1>3, PointsBack DEF Alike
<1>6. PICK m3 \in HashMemory :
        m3 = Store(m2, c, NULL) /\ Alike(m2, m3, {c}, {}) /\ In(m3, c) = NULL
  BY <1>3, StoredInCell DEF Alike
<1>7. hlist_move_list(m, old, new) = m3
  <2>1. m1 = [m EXCEPT !.first[new] = m.first[old]]
    BY <1>1, <1>2, <1>3, <1>4 DEF Store, FirstOf
  <2>2. m3 = [m2 EXCEPT !.first[old] = NULL]
    BY <1>1, <1>6 DEF Store, FirstOf
  <2> QED BY <1>1, <1>2, <1>3, <1>5, <2>1, <2>2 DEF hlist_move_list
<1>8. Alike(m, m3, {c, d}, {y})
  <2>1. Alike(m, m2, {d}, {y})
    BY <1>4, <1>5, AlikeThen
  <2>2. {d} \union {c} = {c, d} /\ {y} \union {} = {y}
    OBVIOUS
  <2> QED BY <1>6, <2>1, <2>2, AlikeThen
<1>9. In(m3, d) = y /\ In(m3, c) = NULL
  BY <1>3, <1>4, <1>5, <1>6 DEF Alike
<1>10. y \in Nodes => m3.pprev[y] = d
  BY <1>5, <1>6 DEF Alike
<1> QED BY <1>1, <1>2, <1>7, <1>8, <1>9, <1>10

-----------------------------------------------------------------------------
(* All the lists, with what is on none of them.                            *)

Apart(q) == \A h, g \in Buckets : h # g => \A x : ~(Has(q[h], x) /\ Has(q[g], x))
NoneHas(q, x) == \A h \in Buckets : ~Has(q[h], x)

Links(m, q, u, f) ==
  /\ m \in HashMemory /\ q \in [Buckets -> Seq(Nodes)]
  /\ u \in SUBSET Nodes /\ f \in SUBSET Nodes
  /\ \A h \in Buckets : Once(q[h]) /\ Chain(m, h, q[h])
  /\ Apart(q)
  /\ \A x \in u \union f : m.next[x] = NULL /\ NoneHas(q, x)
  /\ \A x \in u : m.pprev[x] = NULL
  /\ \A x \in f : m.pprev[x] = NextOf(x)

LEMMA HasInserted ==
  ASSUME NEW s \in Seq(Nodes), NEW i \in 1..(Len(s) + 1), NEW x \in Nodes
  PROVE  /\ \A z : Has(Inserted(s, i, x), z) <=> Has(s, z) \/ z = x
         /\ Once(s) /\ ~Has(s, x) => Once(Inserted(s, i, x))
<1>1. PICK t \in Seq(Nodes) :
        /\ t = Inserted(s, i, x) /\ Len(t) = Len(s) + 1
        /\ \A j \in 1..(Len(s) + 1) :
             t[j] = IF j < i THEN s[j] ELSE IF j = i THEN x ELSE s[j - 1]
  BY InsertedSeq
<1>2. Len(s) \in Nat
  OBVIOUS
<1>3. ASSUME NEW z, Has(s, z) PROVE Has(t, z)
  <2>1. PICK j \in 1..Len(s) : s[j] = z
    BY <1>3 DEF Has
  <2>2. CASE j < i
    BY <1>1, <1>2, <2>1, <2>2 DEF Has
  <2>3. CASE ~(j < i)
    <3>1. j + 1 \in 1..Len(t) /\ t[j + 1] = z
      BY <1>1, <1>2, <2>1, <2>3
    <3> QED BY <3>1 DEF Has
  <2> QED BY <2>2, <2>3
<1>4. Has(t, x)
  BY <1>1 DEF Has
<1>5. ASSUME NEW j \in 1..Len(t)
      PROVE  \/ j < i /\ j \in 1..Len(s) /\ t[j] = s[j]
             \/ j = i /\ t[j] = x
             \/ j > i /\ j - 1 \in 1..Len(s) /\ t[j] = s[j - 1]
  BY <1>1, <1>2, <1>5
<1>6. ASSUME NEW z, Has(t, z) PROVE Has(s, z) \/ z = x
  BY <1>5, <1>6 DEF Has
<1>7. ASSUME Once(s), ~Has(s, x), NEW j \in 1..Len(t), NEW k \in 1..Len(t), t[j] = t[k]
      PROVE  j = k
  <2>1. \A l \in 1..Len(s) : s[l] # x
    BY <1>7 DEF Has
  <2>2. \/ j < i /\ j \in 1..Len(s) /\ t[j] = s[j]
        \/ j = i /\ t[j] = x
        \/ j > i /\ j - 1 \in 1..Len(s) /\ t[j] = s[j - 1]
    BY <1>5
  <2>3. \/ k < i /\ k \in 1..Len(s) /\ t[k] = s[k]
        \/ k = i /\ t[k] = x
        \/ k > i /\ k - 1 \in 1..Len(s) /\ t[k] = s[k - 1]
    BY <1>5
  <2>4. j \in Nat /\ k \in Nat /\ \A a, b \in 1..Len(s) : s[a] = s[b] => a = b
    BY <1>1, <1>2, <1>7 DEF Once
  <2> QED BY <1>7, <2>1, <2>2, <2>3, <2>4
<1> QED BY <1>1, <1>3, <1>4, <1>6, <1>7 DEF Once

LEMMA HasRemoved ==
  ASSUME NEW s \in Seq(Nodes), Once(s), NEW i \in 1..Len(s)
  PROVE  /\ RemoveAt(s, i) \in Seq(Nodes)
         /\ \A z : Has(RemoveAt(s, i), z) <=> Has(s, z) /\ z # s[i]
         /\ Once(RemoveAt(s, i))
<1>1. PICK t \in Seq(Nodes) : t = RemoveAt(s, i)
  BY RemoveAtSeq
<1>2. /\ \A j, k \in DOMAIN t : t[j] = t[k] => j = k
      /\ \A p : (\E k \in DOMAIN t : t[k] = p) <=> (\E k \in DOMAIN s : s[k] = p) /\ p # s[i]
  <2>1. i \in DOMAIN s /\ \A j, k \in DOMAIN s : s[j] = s[k] => j = k
    BY DEF Once
  <2>2. /\ \A j, k \in DOMAIN RemoveAt(s, i) : RemoveAt(s, i)[j] = RemoveAt(s, i)[k] => j = k
        /\ \A p : (\E k \in DOMAIN RemoveAt(s, i) : RemoveAt(s, i)[k] = p)
                   <=> (\E k \in DOMAIN s : s[k] = p) /\ p # s[i]
    BY <2>1, RemoveAtOnce, Zenon
  <2> QED BY <1>1, <2>2, Zenon
<1>3. DOMAIN t = 1..Len(t) /\ DOMAIN s = 1..Len(s)
  OBVIOUS
<1> QED BY <1>1, <1>2, <1>3 DEF Has, Once

(* Only the chain of h is written, at its cell i: there, in the node x, or *)
(* in a node y of the list.                                                *)
Local(m, n, h, s, i, x, y) ==
  /\ i \in 1..(Len(s) + 1)
  /\ y = NULL \/ Has(s, y)
  /\ Alike(m, n, {Cell(h, s, i), NextOf(x)}, {x, y})

Distinct(s, r) == \A z : ~(Has(s, z) /\ Has(r, z))

(* Chains of other heads are not touched by what is done in one. *)
LEMMA OthersLinked ==
  ASSUME NullIsNothing, NEW h \in Buckets, NEW s \in Seq(Nodes), NEW g \in Buckets, g # h,
         NEW r \in Seq(Nodes), Distinct(s, r), NEW x \in Nodes, ~Has(r, x),
         NEW m, NEW n, NEW i, NEW y, Local(m, n, h, s, i, x, y), Chain(m, g, r)
  PROVE  Chain(n, g, r)
<1>1. \A k \in 1..(Len(r) + 1) : Cell(g, r, k) \notin {Cell(h, s, i), NextOf(x)}
  BY CellsApart DEF Local, Distinct
<1>2. ASSUME NEW k \in 1..Len(r) PROVE r[k] \notin {x, y}
  <2>1. Has(r, r[k]) /\ r[k] \in Nodes
    BY DEF Has
  <2>2. r[k] # y
    BY <2>1 DEF Local, Distinct, NullIsNothing
  <2> QED BY <2>1, <2>2
<1>3. Alike(m, n, {Cell(h, s, i), NextOf(x)}, {x, y})
  BY DEF Local
<1> QED BY <1>1, <1>2, <1>3, ChainElsewhere

(* Nodes on no list keep their pointers. *)
LEMMA StrangersKept ==
  ASSUME NullIsNothing, NEW h \in Buckets, NEW s \in Seq(Nodes), NEW x \in Nodes,
         NEW z \in Nodes, z # x, ~Has(s, z),
         NEW m, NEW n, NEW i, NEW y, Local(m, n, h, s, i, x, y)
  PROVE  n.next[z] = m.next[z] /\ n.pprev[z] = m.pprev[z]
<1>1. NextOf(z) \in Cells \ {Cell(h, s, i), NextOf(x)}
  BY CellsApart, CellOfNode DEF Local
<1>2. z # y
  BY DEF Local, NullIsNothing
<1>3. In(n, NextOf(z)) = In(m, NextOf(z))
  BY <1>1 DEF Alike, Local
<1> QED BY <1>2, <1>3, CellOfNode DEF Alike, Local

LEMMA LinksInsert ==
  ASSUME NullIsNothing, NEW m, NEW q, NEW u, NEW f, Links(m, q, u, f),
         NEW h \in Buckets, NEW i \in 1..(Len(q[h]) + 1),
         NEW x \in Nodes, NoneHas(q, x), x \notin f,
         NEW n, Puts(m, n, x, Cell(h, q[h], i), Entry(q[h], i))
  PROVE  Links(n, [q EXCEPT ![h] = Inserted(@, i, x)], u \ {x}, f)
<1>1. PICK s \in Seq(Nodes) : s = q[h]
  BY DEF Links
<1>2. PICK t \in Seq(Nodes) :
        t = Inserted(s, i, x) /\ Once(t) /\ \A z : Has(t, z) <=> Has(s, z) \/ z = x
  BY <1>1, InsertedSeq, HasInserted DEF Links, NoneHas
<1>3. PICK r : r = [q EXCEPT ![h] = Inserted(@, i, x)]
  OBVIOUS
<1>4. r \in [Buckets -> Seq(Nodes)] /\ r[h] = t /\ \A g \in Buckets : g # h => r[g] = q[g]
  BY <1>1, <1>2, <1>3 DEF Links
<1>5. n \in HashMemory /\ Local(m, n, h, s, i, x, Entry(s, i))
  BY <1>1 DEF Puts, Alike, Local, Entry, Has
<1>6. Chain(n, h, t)
  BY <1>1, <1>2, ChainInsert DEF Links, NoneHas
<1>7. ASSUME NEW g \in Buckets PROVE Once(r[g]) /\ Chain(n, g, r[g])
  <2>1. CASE g = h
    BY <1>2, <1>4, <1>6, <2>1
  <2>2. CASE g # h
    <3>1. PICK w \in Seq(Nodes) : w = q[g] /\ Chain(m, g, w) /\ ~Has(w, x) /\ Distinct(s, w)
      BY <1>1, <2>2 DEF Links, Apart, NoneHas, Distinct
    <3>2. Chain(n, g, w)
      BY <1>5, <2>2, <3>1, OthersLinked
    <3> QED BY <1>4, <2>2, <3>1, <3>2 DEF Links
  <2> QED BY <2>1, <2>2
<1>8. \A z : \A g \in Buckets : Has(r[g], z) => Has(q[g], z) \/ (g = h /\ z = x)
  BY <1>1, <1>2, <1>4
<1>9. Apart(r)
  BY <1>8 DEF Apart, Links, NoneHas
<1>10. ASSUME NEW z \in (u \ {x}) \union f
       PROVE  NoneHas(r, z) /\ n.next[z] = m.next[z] /\ n.pprev[z] = m.pprev[z]
  <2>1. z # x /\ z \in Nodes /\ NoneHas(q, z)
    BY DEF Links
  <2>2. NoneHas(r, z)
    BY <1>8, <2>1 DEF NoneHas
  <2>3. n.next[z] = m.next[z] /\ n.pprev[z] = m.pprev[z]
    BY <1>1, <1>5, <2>1, StrangersKept DEF NoneHas
  <2> QED BY <2>2, <2>3
<1>11. Links(n, r, u \ {x}, f)
  BY <1>4, <1>5, <1>7, <1>9, <1>10 DEF Links
<1> QED BY <1>3, <1>11

LEMMA LinksRemove ==
  ASSUME NullIsNothing, NEW m, NEW q, NEW u, NEW f, Links(m, q, u, f),
         NEW h \in Buckets, NEW i \in 1..Len(q[h]),
         NEW n, Takes(m, n, q[h][i], Cell(h, q[h], i), Entry(q[h], i + 1))
  PROVE  /\ Links(n, [q EXCEPT ![h] = RemoveAt(@, i)], u, f)
         /\ NoneHas([q EXCEPT ![h] = RemoveAt(@, i)], q[h][i])
<1>1. PICK s \in Seq(Nodes) : s = q[h] /\ Once(s)
  BY DEF Links
<1>2. PICK t \in Seq(Nodes) :
        t = RemoveAt(s, i) /\ Once(t) /\ \A z : Has(t, z) <=> Has(s, z) /\ z # s[i]
  BY <1>1, HasRemoved
<1>3. PICK r : r = [q EXCEPT ![h] = RemoveAt(@, i)]
  OBVIOUS
<1>4. r \in [Buckets -> Seq(Nodes)] /\ r[h] = t /\ \A g \in Buckets : g # h => r[g] = q[g]
  BY <1>1, <1>2, <1>3 DEF Links
<1>5. PICK x \in Nodes : x = s[i] /\ Has(s, x)
  BY <1>1 DEF Has
<1>6. Local(m, n, h, s, i, x, Entry(s, i + 1))
  <2>1. i \in 1..(Len(s) + 1) /\ (i + 1 <= Len(s) => i + 1 \in 1..Len(s))
    BY <1>1
  <2>2. Entry(s, i + 1) = NULL \/ Has(s, Entry(s, i + 1))
    BY <2>1 DEF Entry, Has
  <2> QED BY <1>1, <1>5, <2>1, <2>2 DEF Takes, Local
<1>7. n \in HashMemory
  BY DEF Takes, Alike
<1>8. Chain(n, h, t)
  BY <1>1, <1>2, ChainRemove DEF Links
<1>9. ASSUME NEW g \in Buckets PROVE Once(r[g]) /\ Chain(n, g, r[g])
  <2>1. CASE g = h
    BY <1>2, <1>4, <1>8, <2>1
  <2>2. CASE g # h
    <3>1. PICK w \in Seq(Nodes) : w = q[g] /\ Chain(m, g, w) /\ Distinct(s, w)
      BY <1>1, <2>2 DEF Links, Apart, Distinct
    <3>2. ~Has(w, x)
      BY <1>5, <3>1 DEF Distinct
    <3>3. Chain(n, g, w)
      BY <1>6, <2>2, <3>1, <3>2, OthersLinked
    <3> QED BY <1>4, <2>2, <3>1, <3>3 DEF Links
  <2> QED BY <2>1, <2>2
<1>10. \A z : \A g \in Buckets : Has(r[g], z) => Has(q[g], z)
  BY <1>1, <1>2, <1>4
<1>11. Apart(r)
  BY <1>10 DEF Apart, Links
<1>12. NoneHas(r, x)
  <2>1. ~Has(r[h], x)
    BY <1>2, <1>4, <1>5
  <2>2. ASSUME NEW g \in Buckets, g # h PROVE ~Has(r[g], x)
    BY <1>1, <1>4, <1>5, <2>2 DEF Links, Apart
  <2> QED BY <2>1, <2>2 DEF NoneHas
<1>13. ASSUME NEW z \in u \union f
       PROVE  NoneHas(r, z) /\ n.next[z] = m.next[z] /\ n.pprev[z] = m.pprev[z]
  <2>1. z \in Nodes /\ NoneHas(q, z)
    BY DEF Links
  <2>2. z # x
    BY <1>1, <1>5, <2>1 DEF NoneHas
  <2>3. NoneHas(r, z)
    BY <1>10, <2>1 DEF NoneHas
  <2>4. n.next[z] = m.next[z] /\ n.pprev[z] = m.pprev[z]
    BY <1>1, <1>6, <2>1, <2>2, StrangersKept DEF NoneHas
  <2> QED BY <2>3, <2>4
<1>14. Links(n, r, u, f)
  BY <1>4, <1>7, <1>9, <1>11, <1>13 DEF Links
<1> QED BY <1>1, <1>3, <1>5, <1>12, <1>14

(* What is done to a node that is on no list leaves the lists alone. *)
LEMMA LinksOffList ==
  ASSUME NullIsNothing, NEW m, NEW q, NEW u, NEW f, Links(m, q, u, f),
         NEW x \in Nodes, NoneHas(q, x), NEW n, Alike(m, n, {NextOf(x)}, {x, NULL})
  PROVE  Links(n, q, u \ {x}, f \ {x})
<1>1. n \in HashMemory
  BY DEF Alike
<1>2. ASSUME NEW g \in Buckets PROVE Chain(n, g, q[g])
  <2>1. PICK r \in Seq(Nodes) : r = q[g]
    BY DEF Links
  <2>2. ~Has(r, x)
    BY <2>1 DEF NoneHas
  <2>3. \A k \in 1..(Len(r) + 1) : Cell(g, r, k) \notin {NextOf(x)}
    BY <2>2, CellsApart
  <2>4. \A k \in 1..Len(r) : r[k] \notin {x, NULL}
    BY <2>2 DEF Has, NullIsNothing
  <2>5. Chain(m, g, r)
    BY <2>1 DEF Links
  <2>6. Chain(n, g, r)
    BY <2>3, <2>4, <2>5, ChainElsewhere
  <2> QED BY <2>1, <2>6
<1>3. ASSUME NEW z \in (u \union f) \ {x}
      PROVE  n.next[z] = m.next[z] /\ n.pprev[z] = m.pprev[z]
  <2>1. z \in Nodes /\ z # x /\ z # NULL
    BY DEF Links, NullIsNothing
  <2>2. NextOf(z) \in Cells \ {NextOf(x)}
    BY <2>1, CellOfNode
  <2>3. In(n, NextOf(z)) = In(m, NextOf(z))
    BY <2>2 DEF Alike
  <2> QED BY <2>1, <2>3, CellOfNode DEF Alike
<1> QED BY <1>1, <1>2, <1>3 DEF Links

LEMMA LinksMove ==
  ASSUME NullIsNothing, NEW m, NEW q, NEW u, NEW f, Links(m, q, u, f),
         NEW old \in Buckets, NEW new \in Buckets, old # new, q[new] = <<>>
  PROVE  Links(hlist_move_list(m, old, new), [q EXCEPT ![new] = q[old], ![old] = <<>>], u, f)
<1>1. PICK s \in Seq(Nodes) : s = q[old] /\ Once(s) /\ Chain(m, old, s)
  BY DEF Links
<1>2. PICK y \in Nodes \union {NULL} : y = Entry(s, 1) /\ In(m, FirstOf(old)) = y
  <2>1. 1 \in 1..(Len(s) + 1)
    OBVIOUS
  <2>2. Cell(old, s, 1) = FirstOf(old)
    BY DEF Cell
  <2>3. Entry(s, 1) \in Nodes \union {NULL}
    BY <2>1, CellIsOne
  <2>4. In(m, FirstOf(old)) = Entry(s, 1)
    BY <1>1, <2>1, <2>2 DEF Chain
  <2> QED BY <2>3, <2>4, Zenon
<1>3. PICK n \in HashMemory :
        /\ n = hlist_move_list(m, old, new)
        /\ Alike(m, n, {FirstOf(old), FirstOf(new)}, {y})
        /\ In(n, FirstOf(new)) = y /\ In(n, FirstOf(old)) = NULL
        /\ y \in Nodes => n.pprev[y] = FirstOf(new)
  <2>1. m \in HashMemory
    BY DEF Links
  <2> QED BY <1>2, <2>1, MoveMoves DEF Alike
<1>4. PICK r : r = [q EXCEPT ![new] = q[old], ![old] = <<>>]
  OBVIOUS
<1>5. /\ r \in [Buckets -> Seq(Nodes)] /\ r[new] = s /\ r[old] = <<>>
      /\ \A g \in Buckets \ {old, new} : r[g] = q[g]
  BY <1>1, <1>4 DEF Links
<1>6. Once(<<>>) /\ Chain(n, old, <<>>) /\ \A z : ~Has(<<>>, z)
  <2>1. Once(<<>>) /\ \A z : ~Has(<<>>, z)
    BY DEF Once, Has
  <2>2. Chain(n, old, <<>>)
    BY <1>3 DEF Chain, Cell, Entry
  <2> QED BY <2>1, <2>2
<1>7. Chain(n, new, s)
  <2>1. SUFFICES ASSUME NEW k \in 1..(Len(s) + 1)
                 PROVE  /\ In(n, Cell(new, s, k)) = Entry(s, k)
                        /\ k <= Len(s) => n.pprev[s[k]] = Cell(new, s, k)
    BY DEF Chain
  <2>2. CASE k = 1
    <3>1. k <= Len(s) => s[k] = y /\ y \in Nodes
      BY <1>2, <2>2 DEF Entry
    <3> QED BY <1>2, <1>3, <2>2, <3>1 DEF Cell
  <2>3. CASE k # 1
    <3>1. k - 1 \in 1..Len(s) /\ s[k - 1] \in Nodes /\ Cell(new, s, k) = NextOf(s[k - 1])
          /\ Cell(old, s, k) = NextOf(s[k - 1])
      BY <2>3 DEF Cell
    <3>2. In(n, NextOf(s[k - 1])) = In(m, NextOf(s[k - 1]))
      BY <1>3, <3>1, CellOfHead, CellOfNode DEF Alike
    <3>3. ASSUME k <= Len(s) PROVE s[k] \in Nodes /\ s[k] # y
      <4>1. k \in 1..Len(s) /\ 1 \in 1..Len(s) /\ y = s[1]
        BY <1>2, <3>3 DEF Entry
      <4> QED BY <1>1, <2>3, <4>1 DEF Once
    <3>4. k <= Len(s) => n.pprev[s[k]] = m.pprev[s[k]]
      BY <1>3, <3>3 DEF Alike
    <3> QED BY <1>1, <3>1, <3>2, <3>4 DEF Chain
  <2> QED BY <2>2, <2>3
<1>8. ASSUME NEW g \in Buckets \ {old, new} PROVE Chain(n, g, q[g])
  <2>1. PICK t \in Seq(Nodes) : t = q[g] /\ Chain(m, g, t)
    BY DEF Links
  <2>2. ASSUME NEW k \in 1..(Len(t) + 1)
        PROVE  Cell(g, t, k) \notin {FirstOf(old), FirstOf(new)}
    BY CellOfHead DEF Cell
  <2>3. ASSUME NEW k \in 1..Len(t) PROVE t[k] \notin {y}
    <3>1. Has(t, t[k]) /\ t[k] \in Nodes
      BY DEF Has
    <3>2. y \in Nodes => Has(s, y)
      BY <1>2 DEF Entry, Has, NullIsNothing
    <3> QED BY <1>1, <2>1, <3>1, <3>2 DEF Links, Apart
  <2>4. Chain(n, g, t)
    BY <1>3, <2>1, <2>2, <2>3, ChainElsewhere
  <2> QED BY <2>1, <2>4
<1>9. ASSUME NEW g \in Buckets PROVE Once(r[g]) /\ Chain(n, g, r[g])
  <2>1. CASE g = old
    BY <1>5, <1>6, <2>1
  <2>2. CASE g = new
    BY <1>1, <1>5, <1>7, <2>2
  <2>3. CASE g \in Buckets \ {old, new}
    BY <1>5, <1>8, <2>3 DEF Links
  <2> QED BY <2>1, <2>2, <2>3
<1>10. \A z : \A g \in Buckets :
         Has(r[g], z) => g # old /\ (g = new => Has(q[old], z)) /\ (g # new => Has(q[g], z))
  BY <1>1, <1>5, <1>6
<1>11. Apart(r)
  <2> SUFFICES ASSUME NEW g \in Buckets, NEW h \in Buckets, h # g, NEW x, Has(r[h], x), Has(r[g], x)
               PROVE  FALSE
    BY DEF Apart
  <2>1. \A a, b \in Buckets : a # b => ~(Has(q[a], x) /\ Has(q[b], x))
    BY DEF Links, Apart
  <2> QED BY <1>10, <2>1
<1>12. ASSUME NEW z \in u \union f
       PROVE  NoneHas(r, z) /\ n.next[z] = m.next[z] /\ n.pprev[z] = m.pprev[z]
  <2>1. z \in Nodes /\ NoneHas(q, z)
    BY DEF Links
  <2>2. NoneHas(r, z)
    BY <1>10, <2>1 DEF NoneHas
  <2>3. In(n, NextOf(z)) = In(m, NextOf(z))
    BY <1>3, <2>1, CellOfHead, CellOfNode DEF Alike
  <2>4. z # y
    BY <1>1, <1>2, <2>1 DEF Entry, Has, NoneHas, NullIsNothing
  <2> QED BY <1>3, <2>1, <2>2, <2>3, <2>4, CellOfNode DEF Alike
<1>13. Links(n, r, u, f)
  BY <1>5, <1>9, <1>11, <1>12 DEF Links
<1> QED BY <1>3, <1>4, <1>13

-----------------------------------------------------------------------------
(* The calls. *)

HashInv == Links(hmem, hashed, unhashed, fake)

LEMMA OnList ==
  ASSUME HashInv
  PROVE  /\ \A h \in Buckets : /\ hashed[h] \in Seq(Nodes)
                               /\ Len(hashed[h]) \in Nat
                               /\ DOMAIN hashed[h] = 1..Len(hashed[h])
                               /\ \A n : IsOn(n, h) <=> Has(hashed[h], n)
         /\ \A n \in Nodes : IsNowhere(n) <=> n \notin fake /\ NoneHas(hashed, n)
<1>1. \A h \in Buckets : /\ hashed[h] \in Seq(Nodes)
                         /\ Len(hashed[h]) \in Nat
                         /\ DOMAIN hashed[h] = 1..Len(hashed[h])
  BY DEF HashInv, Links
<1>2. \A h \in Buckets : \A n : IsOn(n, h) <=> Has(hashed[h], n)
  BY <1>1 DEF IsOn, Has
<1> QED BY <1>1, <1>2 DEF IsNowhere, NoneHas

(* A node of a list, the cell that points at it, and what it points at. *)
LEMMA ListedNode ==
  ASSUME NullIsNothing, HashInv, NEW h \in Buckets, NEW i \in 1..Len(hashed[h])
  PROVE  LET s == hashed[h]  x == s[i]  c == Cell(h, s, i)  y == Entry(s, i + 1)
         IN  /\ x \in Nodes /\ c \in Cells /\ c # NextOf(x)
             /\ y \in Nodes \union {NULL} /\ y # x
             /\ hmem.pprev[x] = c /\ hmem.next[x] = y
<1>1. PICK s \in Seq(Nodes) : s = hashed[h] /\ Once(s) /\ Chain(hmem, h, s)
  BY DEF HashInv, Links
<1>2. Len(s) \in Nat /\ i \in 1..(Len(s) + 1) /\ i + 1 \in 1..(Len(s) + 1) /\ i <= Len(s)
  BY <1>1
<1>3. s[i] \in Nodes /\ Cell(h, s, i) \in Cells /\ Entry(s, i + 1) \in Nodes \union {NULL}
  BY <1>1, <1>2, CellIsOne
<1>4. Cell(h, s, i + 1) = NextOf(s[i])
  BY <1>1, <1>2 DEF Cell
<1>5. Cell(h, s, i) # NextOf(s[i])
  <2>1. Cell(h, s, i) = Cell(h, s, i + 1) => i = i + 1
    BY <1>1, <1>2, CellsDiffer
  <2> QED BY <1>2, <1>4, <2>1
<1>6. Entry(s, i + 1) # s[i]
  BY <1>1, <1>2, <1>3 DEF Entry, Once, NullIsNothing
<1>7. hmem.pprev[s[i]] = Cell(h, s, i) /\ hmem.next[s[i]] = Entry(s, i + 1)
  <2>1. In(hmem, NextOf(s[i])) = Entry(s, i + 1)
    BY <1>1, <1>2, <1>4 DEF Chain
  <2> QED BY <1>1, <1>2, <1>3, <2>1, CellOfNode DEF Chain
<1> QED BY <1>1, <1>3, <1>5, <1>6, <1>7

(* The entry i of a list, where a node comes before it, is not that node.  *)
LEMMA NewNode ==
  ASSUME NullIsNothing, HashInv, NEW h \in Buckets, NEW i \in 1..(Len(hashed[h]) + 1),
         NEW x \in Nodes, NoneHas(hashed, x)
  PROVE  /\ Entry(hashed[h], i) \in Nodes \union {NULL} /\ Entry(hashed[h], i) # x
         /\ Cell(h, hashed[h], i) \in Cells /\ Cell(h, hashed[h], i) # NextOf(x)
<1>1. PICK s \in Seq(Nodes) : s = hashed[h]
  BY DEF HashInv, Links
<1>2. ~Has(s, x)
  BY <1>1 DEF NoneHas
<1>3. Entry(s, i) # x
  BY <1>1, <1>2 DEF Entry, Has, NullIsNothing
<1>4. Cell(h, s, i) # NextOf(x)
  BY <1>1, <1>2, CellsApart
<1> QED BY <1>1, <1>3, <1>4, CellIsOne

LEMMA InsertsKeeps ==
  ASSUME NullIsNothing, HashInv, NEW n \in Nodes, NEW h \in Buckets,
         NEW i \in 1..(Len(hashed[h]) + 1), NEW m, Inserts(n, h, i, m),
         Puts(hmem, m, n, Cell(h, hashed[h], i), Entry(hashed[h], i))
  PROVE  HashInv'
<1>1. NoneHas(hashed, n) /\ n \notin fake
  BY OnList DEF Inserts
<1>2. Links(m, [hashed EXCEPT ![h] = Inserted(@, i, n)], unhashed \ {n}, fake)
  BY <1>1, LinksInsert DEF HashInv
<1>3. /\ hmem' = m /\ hashed' = [hashed EXCEPT ![h] = Inserted(@, i, n)]
      /\ unhashed' = unhashed \ {n} /\ fake' = fake
  BY DEF Inserts
<1> QED BY <1>2, <1>3 DEF HashInv

LEMMA AddHeadKeeps ==
  ASSUME NullIsNothing, HashInv, NEW n \in Nodes, NEW h \in Buckets, AddHead(n, h)
  PROVE  HashInv'
<1>1. NoneHas(hashed, n)
  BY OnList DEF AddHead, Inserts
<1>2. 1 \in 1..(Len(hashed[h]) + 1)
  BY OnList
<1>3. Cell(h, hashed[h], 1) = FirstOf(h)
  BY DEF Cell
<1>4. PICK y \in Nodes \union {NULL} : y = Entry(hashed[h], 1) /\ y # n
  BY <1>1, <1>2, NewNode
<1>5. hmem \in HashMemory /\ In(hmem, FirstOf(h)) = y
  BY <1>2, <1>3, <1>4 DEF HashInv, Links, Chain
<1>6. Puts(hmem, hlist_add_head(hmem, n, h), n, FirstOf(h), y)
  BY <1>4, <1>5, AddHeadPuts
<1> QED BY <1>2, <1>3, <1>4, <1>6, InsertsKeeps DEF AddHead

LEMMA AddBeforeKeeps ==
  ASSUME NullIsNothing, HashInv, NEW n \in Nodes, NEW h \in Buckets,
         NEW i \in DOMAIN hashed[h], AddBefore(n, h, i)
  PROVE  HashInv'
<1>1. NoneHas(hashed, n)
  BY OnList DEF AddBefore, Inserts
<1>2. i \in 1..Len(hashed[h]) /\ i \in 1..(Len(hashed[h]) + 1)
  BY OnList
<1>3. PICK y \in Nodes : y = hashed[h][i] /\ y = Entry(hashed[h], i) /\ y # n
  <2>1. hashed[h][i] \in Nodes /\ hashed[h][i] = Entry(hashed[h], i)
    BY <1>2, OnList DEF Entry
  <2> QED BY <1>1, <1>2, <2>1, NewNode
<1>4. PICK c \in Cells : c = Cell(h, hashed[h], i) /\ c # NextOf(n) /\ hmem.pprev[y] = c
  <2>1. hmem.pprev[y] = Cell(h, hashed[h], i)
    BY <1>2, <1>3, ListedNode
  <2>2. Cell(h, hashed[h], i) \in Cells /\ Cell(h, hashed[h], i) # NextOf(n)
    BY <1>1, <1>2, NewNode
  <2> QED BY <2>1, <2>2
<1>5. hmem \in HashMemory
  BY DEF HashInv, Links
<1>6. Puts(hmem, hlist_add_before(hmem, n, y), n, c, y)
  BY <1>3, <1>4, <1>5, AddBeforePuts
<1> QED BY <1>2, <1>3, <1>4, <1>6, InsertsKeeps DEF AddBefore

LEMMA AddBehindKeeps ==
  ASSUME NullIsNothing, HashInv, NEW n \in Nodes, NEW h \in Buckets,
         NEW i \in DOMAIN hashed[h], AddBehind(n, h, i)
  PROVE  HashInv'
<1>1. NoneHas(hashed, n)
  BY OnList DEF AddBehind, Inserts
<1>2. i \in 1..Len(hashed[h]) /\ i + 1 \in 1..(Len(hashed[h]) + 1) /\ i # 0
  BY OnList
<1>3. PICK z \in Nodes : z = hashed[h][i] /\ Cell(h, hashed[h], i + 1) = NextOf(z) /\ z # n
  <2>1. hashed[h][i] \in Nodes /\ Has(hashed[h], hashed[h][i])
    BY <1>2, OnList DEF Has
  <2>2. Cell(h, hashed[h], i + 1) = NextOf(hashed[h][i])
    BY <1>2 DEF Cell
  <2> QED BY <1>1, <2>1, <2>2 DEF NoneHas
<1>4. PICK y \in Nodes \union {NULL} : y = Entry(hashed[h], i + 1) /\ y # n
  BY <1>1, <1>2, NewNode
<1>5. hmem \in HashMemory /\ hmem.next[z] = y
  BY <1>2, <1>3, <1>4, ListedNode DEF HashInv, Links
<1>6. Puts(hmem, hlist_add_behind(hmem, n, z), n, NextOf(z), y)
  BY <1>3, <1>4, <1>5, AddBehindPuts
<1> QED BY <1>2, <1>3, <1>4, <1>6, InsertsKeeps DEF AddBehind

LEMMA DeleteKeeps ==
  ASSUME NullIsNothing, HashInv, NEW h \in Buckets, NEW i \in DOMAIN hashed[h],
         HashDelete(h, i) \/ HashDeleteInit(h, i)
  PROVE  HashInv'
<1>1. i \in 1..Len(hashed[h])
  BY OnList
<1>2. PICK x \in Nodes : x = hashed[h][i]
  BY <1>1, ListedNode
<1>3. PICK c \in Cells : c = Cell(h, hashed[h], i) /\ c # NextOf(x) /\ hmem.pprev[x] = c
  BY <1>1, <1>2, ListedNode
<1>4. PICK y \in Nodes \union {NULL} :
        y = Entry(hashed[h], i + 1) /\ y # x /\ hmem.next[x] = y
  BY <1>1, <1>2, ListedNode
<1>5. hmem \in HashMemory
  BY DEF HashInv, Links
<1>6. PICK r : r = [hashed EXCEPT ![h] = RemoveAt(@, i)]
  OBVIOUS
<1>7. CASE HashDelete(h, i)
  <2>1. PICK m : m = hlist_del(hmem, x) /\ Takes(hmem, m, x, c, y)
    BY <1>3, <1>4, <1>5, DelTakes
  <2>2. Links(m, r, unhashed, fake)
    BY <1>1, <1>2, <1>3, <1>4, <1>6, <2>1, LinksRemove, ZenonT(60) DEF HashInv
  <2>3. hmem' = m /\ hashed' = r /\ unhashed' = unhashed /\ fake' = fake
    BY <1>2, <1>6, <1>7, <2>1 DEF HashDelete
  <2> QED BY <2>2, <2>3 DEF HashInv
<1>8. CASE HashDeleteInit(h, i)
  <2>1. PICK m : /\ m = hlist_del_init(hmem, x) /\ Takes(hmem, m, x, c, y)
                 /\ m.next[x] = NULL /\ m.pprev[x] = NULL
    BY <1>3, <1>4, <1>5, DelTakes
  <2>2. Links(m, r, unhashed, fake) /\ NoneHas(r, x)
    BY <1>1, <1>2, <1>3, <1>4, <1>6, <2>1, LinksRemove DEF HashInv
  <2>3. Links(m, r, unhashed \union {x}, fake)
    BY <2>1, <2>2 DEF Links
  <2>4. hmem' = m /\ hashed' = r /\ unhashed' = unhashed \union {x} /\ fake' = fake
    BY <1>2, <1>6, <1>8, <2>1 DEF HashDeleteInit
  <2> QED BY <2>3, <2>4 DEF HashInv
<1> QED BY <1>7, <1>8

LEMMA MoveListKeeps ==
  ASSUME NullIsNothing, HashInv, NEW old \in Buckets, NEW new \in Buckets, MoveList(old, new)
  PROVE  HashInv'
<1>1. Links(hlist_move_list(hmem, old, new),
            [hashed EXCEPT ![new] = hashed[old], ![old] = <<>>], unhashed, fake)
  BY LinksMove DEF HashInv, MoveList
<1> QED BY <1>1 DEF HashInv, MoveList

(* Initialising a node, the fake, and hlist_del_init of a node that is on no list. *)
LEMMA OffListKeeps ==
  ASSUME NullIsNothing, HashInv, NEW n \in Nodes,
         HashInitialise(n) \/ AddFake(n) \/ DeleteInitOffList(n)
  PROVE  HashInv'
<1>1. hmem \in HashMemory /\ NULL \in NextValues /\ NULL \in PprevValues
  BY DEF HashInv, Links, NextValues, PprevValues
<1>2. NoneHas(hashed, n)
  <2>1. CASE HashInitialise(n)
    BY <2>1, OnList DEF HashInitialise
  <2>2. CASE AddFake(n) \/ DeleteInitOffList(n)
    BY <2>2 DEF AddFake, DeleteInitOffList, HashInv, Links
  <2> QED BY <2>1, <2>2
<1>3. ASSUME NEW m, Alike(hmem, m, {NextOf(n)}, {n}) \/ Alike(hmem, m, {NextOf(n)}, {n, NULL})
      PROVE  Links(m, hashed, unhashed \ {n}, fake \ {n})
  <2>1. Alike(hmem, m, {NextOf(n)}, {n, NULL})
    BY <1>3 DEF Alike
  <2> QED BY <1>2, <2>1, LinksOffList DEF HashInv
<1>4. ASSUME NEW m, Links(m, hashed, unhashed \ {n}, fake \ {n}),
             m.next[n] = NULL, m.pprev[n] = NULL,
             hmem' = m, hashed' = hashed, unhashed' = unhashed \union {n}, fake' = fake \ {n}
      PROVE  HashInv'
  <2>1. Links(m, hashed, unhashed \union {n}, fake \ {n})
    BY <1>2, <1>4 DEF Links
  <2> QED BY <1>4, <2>1 DEF HashInv
<1>5. CASE HashInitialise(n)
  <2>1. PICK m : m = Written(hmem, n, NULL, NULL)
    OBVIOUS
  <2>2. Alike(hmem, m, {NextOf(n)}, {n}) /\ m.next[n] = NULL /\ m.pprev[n] = NULL
    BY <1>1, <2>1, NodeWritten
  <2>3. fake \ {n} = fake
    BY <1>5 DEF HashInitialise, IsNowhere
  <2>4. hmem' = m /\ hashed' = hashed /\ unhashed' = unhashed \union {n} /\ fake' = fake \ {n}
    BY <1>5, <2>1, <2>3 DEF HashInitialise, INIT_HLIST_NODE, Written
  <2> QED BY <1>3, <1>4, <2>2, <2>4
<1>6. CASE AddFake(n)
  <2>1. PICK m : m = Repoint(hmem, n, NextOf(n))
    OBVIOUS
  <2>2. Alike(hmem, m, {}, {n}) /\ m.pprev[n] = NextOf(n)
    BY <1>1, <2>1, CellOfNode, Repoints, ZenonT(60)
  <2>3. m.next[n] = hmem.next[n] /\ hmem.next[n] = NULL
    BY <1>6, <2>2, CellOfNode DEF AddFake, Alike, HashInv, Links
  <2>4. Alike(hmem, m, {NextOf(n)}, {n})
    BY <2>2 DEF Alike
  <2>5. Links(m, hashed, unhashed \ {n}, fake \ {n})
    BY <1>3, <2>4
  <2>6. Links(m, hashed, unhashed \ {n}, fake \union {n})
    BY <1>2, <2>2, <2>3, <2>5 DEF Links
  <2>7. hmem' = m /\ hashed' = hashed /\ unhashed' = unhashed \ {n} /\ fake' = fake \union {n}
    BY <1>6, <2>1 DEF AddFake, hlist_add_fake, Repoint
  <2> QED BY <2>6, <2>7 DEF HashInv
<1>7. CASE DeleteInitOffList(n)
  <2>1. /\ hmem' = hlist_del_init(hmem, n) /\ hashed' = hashed
        /\ unhashed' = unhashed \union {n} /\ fake' = fake \ {n}
    BY <1>7 DEF DeleteInitOffList
  <2>2. hmem.next[n] = NULL
    BY <1>7 DEF DeleteInitOffList, HashInv, Links
  <2>3. CASE n \in unhashed
    <3>1. hmem.pprev[n] = NULL
      BY <2>3 DEF HashInv, Links
    <3>2. hlist_del_init(hmem, n) = hmem
      BY <3>1 DEF hlist_del_init, hlist_unhashed
    <3>3. Alike(hmem, hmem, {NextOf(n)}, {n})
      BY <1>1 DEF Alike
    <3>4. Links(hmem, hashed, unhashed \ {n}, fake \ {n})
      BY <1>3, <3>3
    <3>5. hmem' = hmem
      BY <2>1, <3>2
    <3> QED BY <1>4, <2>1, <2>2, <3>1, <3>4, <3>5
  <2>4. CASE n \in fake
    <3>1. PICK c \in Cells : c = NextOf(n) /\ hmem.pprev[n] = c
      BY <2>4, CellOfNode DEF HashInv, Links
    <3>2. PICK y \in Nodes \union {NULL} : y = NULL
      OBVIOUS
    <3>3. PICK k \in HashMemory : k = hlist_del_links(hmem, n) /\ Takes(hmem, k, n, c, y)
      BY <1>1, <2>2, <3>1, <3>2, DelLinksTakes
    <3>4. PICK m : m = Written(k, n, NULL, NULL)
      OBVIOUS
    <3>5. Alike(k, m, {NextOf(n)}, {n}) /\ m.next[n] = NULL /\ m.pprev[n] = NULL
      BY <1>1, <3>3, <3>4, NodeWritten
    <3>6. Alike(hmem, m, {NextOf(n)}, {n, NULL})
      BY <3>1, <3>2, <3>3, <3>5 DEF Takes, Alike
    <3>7. hlist_del_init(hmem, n) = m
      BY <3>1, <3>3, <3>4 DEF hlist_del_init, hlist_unhashed, INIT_HLIST_NODE, Written, NullIsNothing
    <3>8. Links(m, hashed, unhashed \ {n}, fake \ {n})
      BY <1>3, <3>6
    <3>9. hmem' = m
      BY <2>1, <3>7
    <3> QED BY <1>4, <2>1, <3>5, <3>8, <3>9
  <2> QED BY <1>7, <2>3, <2>4 DEF DeleteInitOffList
<1> QED BY <1>5, <1>6, <1>7

-----------------------------------------------------------------------------
LEMMA InitLinks ==
  ASSUME HashInit PROVE HashInv
<1>1. hmem \in HashMemory
  BY DEF HashInit, HashMemory
<1>2. hashed \in [Buckets -> Seq(Nodes)] /\ \A h \in Buckets : hashed[h] = <<>>
  <2>1. <<>> \in Seq(Nodes)
    OBVIOUS
  <2> QED BY <2>1 DEF HashInit
<1>3. Once(<<>>) /\ \A z : ~Has(<<>>, z)
  BY DEF Once, Has
<1>4. ASSUME NEW h \in Buckets PROVE Chain(hmem, h, hashed[h])
  <2>1. hmem.first[h] = NULL
    BY DEF HashInit
  <2>2. Chain(hmem, h, <<>>)
    BY <2>1, CellOfHead DEF Chain, Cell, Entry
  <2> QED BY <1>2, <2>2
<1>5. Apart(hashed) /\ \A x : NoneHas(hashed, x)
  BY <1>2, <1>3 DEF Apart, NoneHas
<1>6. unhashed = Nodes /\ fake = {} /\ \A x \in Nodes : hmem.next[x] = NULL /\ hmem.pprev[x] = NULL
  BY DEF HashInit
<1> QED BY <1>1, <1>2, <1>3, <1>4, <1>5, <1>6 DEF HashInv, Links

LEMMA CallsKeepLinks ==
  ASSUME NullIsNothing, HashInv, [HashNext]_hvars PROVE HashInv'
<1>1. CASE \E n \in Nodes : HashInitialise(n) \/ AddFake(n) \/ DeleteInitOffList(n)
  BY <1>1, OffListKeeps
<1>2. CASE \E n \in Nodes, h \in Buckets : AddHead(n, h)
  BY <1>2, AddHeadKeeps
<1>3. CASE \E h \in Buckets : \E i \in DOMAIN hashed[h] : HashDelete(h, i) \/ HashDeleteInit(h, i)
  BY <1>3, DeleteKeeps
<1>4. CASE \E h \in Buckets : \E i \in DOMAIN hashed[h] : \E n \in Nodes :
             AddBefore(n, h, i) \/ AddBehind(n, h, i)
  BY <1>4, AddBeforeKeeps, AddBehindKeeps
<1>5. CASE \E old, new \in Buckets : MoveList(old, new)
  BY <1>5, MoveListKeeps
<1>6. CASE UNCHANGED hvars
  BY <1>6 DEF hvars, HashInv
<1> QED BY <1>1, <1>2, <1>3, <1>4, <1>5, <1>6 DEF HashNext

LEMMA LinksAnswer ==
  ASSUME NullIsNothing, HashInv PROVE AnswersAgree
<1>1. \A n \in unhashed : hlist_unhashed(hmem, n) /\ ~hlist_fake(hmem, n)
  <2> SUFFICES ASSUME NEW n \in unhashed
               PROVE  hlist_unhashed(hmem, n) /\ ~hlist_fake(hmem, n)
    OBVIOUS
  <2>1. n \in Nodes /\ hmem.pprev[n] = NULL
    BY DEF HashInv, Links
  <2> QED BY <2>1, CellOfNode DEF hlist_unhashed, hlist_fake, NullIsNothing
<1>2. \A n \in fake : ~hlist_unhashed(hmem, n) /\ hlist_fake(hmem, n)
  <2> SUFFICES ASSUME NEW n \in fake
               PROVE  ~hlist_unhashed(hmem, n) /\ hlist_fake(hmem, n)
    OBVIOUS
  <2>1. n \in Nodes /\ hmem.pprev[n] = NextOf(n)
    BY DEF HashInv, Links
  <2> QED BY <2>1, CellOfNode DEF hlist_unhashed, hlist_fake, NullIsNothing
<1>3. ASSUME NEW h \in Buckets
      PROVE  /\ hlist_empty(hmem, h) <=> hashed[h] = <<>>
             /\ \A n \in Nodes : IsOn(n, h) =>
                  /\ ~hlist_unhashed(hmem, n) /\ ~hlist_fake(hmem, n)
                  /\ hlist_is_singular_node(hmem, n, h) <=> hashed[h] = <<n>>
  <2>1. PICK s \in Seq(Nodes) : s = hashed[h] /\ Once(s) /\ Chain(hmem, h, s)
    BY DEF HashInv, Links
  <2>2. Len(s) \in Nat
    OBVIOUS
  <2>3. hlist_empty(hmem, h) <=> s = <<>>
    <3>1. 1 \in 1..(Len(s) + 1) /\ Cell(h, s, 1) = FirstOf(h)
      BY <2>2 DEF Cell
    <3>2. hmem.first[h] = Entry(s, 1)
      BY <2>1, <3>1, CellOfHead DEF Chain
    <3>3. Entry(s, 1) = NULL <=> Len(s) = 0
      <4>1. Len(s) # 0 => Entry(s, 1) = s[1] /\ s[1] \in Nodes
        BY <2>2 DEF Entry
      <4> QED BY <2>2, <4>1 DEF Entry, NullIsNothing
    <3>4. Len(s) = 0 <=> s = <<>>
      OBVIOUS
    <3> QED BY <3>2, <3>3, <3>4 DEF hlist_empty
  <2>4. ASSUME NEW n \in Nodes, IsOn(n, h)
        PROVE  /\ ~hlist_unhashed(hmem, n) /\ ~hlist_fake(hmem, n)
               /\ hlist_is_singular_node(hmem, n, h) <=> s = <<n>>
    <3>1. PICK i \in 1..Len(s) : s[i] = n
      BY <2>1, <2>4 DEF IsOn
    <3>2. /\ Cell(h, s, i) \in Cells /\ Cell(h, s, i) # NextOf(n)
          /\ hmem.pprev[n] = Cell(h, s, i) /\ hmem.next[n] = Entry(s, i + 1)
      BY <2>1, <3>1, ListedNode
    <3>3. ~hlist_unhashed(hmem, n) /\ ~hlist_fake(hmem, n)
      BY <3>2 DEF hlist_unhashed, hlist_fake, NullIsNothing
    <3>4. Entry(s, i + 1) = NULL <=> i = Len(s)
      <4>1. i # Len(s) => Entry(s, i + 1) = s[i + 1] /\ s[i + 1] \in Nodes
        BY <2>2 DEF Entry
      <4> QED BY <2>2, <4>1 DEF Entry, NullIsNothing
    <3>5. Cell(h, s, i) = FirstOf(h) <=> i = 1
      BY CellOfHead DEF Cell
    <3>6. (i = Len(s) /\ i = 1) <=> s = <<n>>
      <4>1. ASSUME i = Len(s), i = 1 PROVE s = <<n>>
        <5>1. <<n>> \in Seq(Nodes) /\ Len(<<n>>) = 1 /\ <<n>>[1] = n
          OBVIOUS
        <5>2. Len(s) = 1 /\ s[1] = n
          BY <3>1, <4>1
        <5>3. \A j \in 1..Len(s) : s[j] = <<n>>[j]
          BY <5>1, <5>2
        <5> QED BY <5>1, <5>2, <5>3, SeqEqual
      <4>2. ASSUME s = <<n>> PROVE i = Len(s) /\ i = 1
        <5>1. Len(<<n>>) = 1
          OBVIOUS
        <5> QED BY <4>2, <5>1
      <4> QED BY <4>1, <4>2
    <3> QED BY <3>2, <3>3, <3>4, <3>5, <3>6 DEF hlist_is_singular_node
  <2> QED BY <2>1, <2>3, <2>4
<1> QED BY <1>1, <1>2, <1>3 DEF AnswersAgree

LEMMA LinksAreWell ==
  ASSUME NullIsNothing, HashInv PROVE WellHashed
<1>1. ASSUME NEW h \in Buckets
      PROVE  /\ \A i \in DOMAIN hashed[h] :
                  /\ Content(CellBefore(h, i)) = hashed[h][i]
                  /\ hmem.pprev[hashed[h][i]] = CellBefore(h, i)
             /\ Content(CellBefore(h, Len(hashed[h]) + 1)) = NULL
  <2>1. PICK s \in Seq(Nodes) : s = hashed[h] /\ Chain(hmem, h, s)
    BY DEF HashInv, Links
  <2>2. DOMAIN s = 1..Len(s) /\ Len(s) \in Nat
    OBVIOUS
  <2>3. ASSUME NEW i \in 1..(Len(s) + 1)
        PROVE  /\ CellBefore(h, i) = Cell(h, s, i)
               /\ Content(CellBefore(h, i)) = Entry(s, i)
    BY <2>1 DEF CellBefore, Cell, Content, In, Chain
  <2>4. ASSUME NEW i \in 1..Len(s)
        PROVE  Content(CellBefore(h, i)) = s[i] /\ hmem.pprev[s[i]] = CellBefore(h, i)
    <3>1. i \in 1..(Len(s) + 1) /\ i <= Len(s)
      OBVIOUS
    <3> QED BY <2>1, <2>3, <3>1 DEF Chain, Entry
  <2>5. Content(CellBefore(h, Len(s) + 1)) = NULL
    <3>1. Len(s) + 1 \in 1..(Len(s) + 1) /\ ~(Len(s) + 1 <= Len(s))
      BY <2>2
    <3> QED BY <2>3, <3>1 DEF Entry
  <2> QED BY <2>1, <2>2, <2>4, <2>5
<1> QED BY <1>1, LinksAnswer DEF WellHashed

(* After every sequence of calls on hlists, each list links the nodes it   *)
(* should hold in their order, each node points back at the cell that      *)
(* points at it, and hlist_unhashed, hlist_fake, hlist_empty and           *)
(* hlist_is_singular_node answer accordingly: __hlist_del can always go by *)
(* pprev alone, whichever head the node is on.                             *)
THEOREM HashListsStayLinked == HashSpec => []WellHashed
<1>0. NullIsNothing
  BY PoisonAssumption, NullAssumption DEF NullIsNothing
<1>1. HashInit => HashInv
  BY InitLinks
<1>2. HashInv /\ [HashNext]_hvars => HashInv'
  BY <1>0, CallsKeepLinks
<1>3. HashInv => WellHashed
  BY <1>0, LinksAreWell
<1> QED BY <1>1, <1>2, <1>3, PTL DEF HashSpec
=============================================================================
