----------------------------- MODULE ListProofs -----------------------------
(***************************************************************************)
(* For every set of nodes, after every sequence of calls that keeps to the *)
(* comments of list_head.h, the pointers link exactly the lists that the   *)
(* comments promise.                                                       *)
(*                                                                         *)
(* First, what each function writes (SetsLinks...); then what that does to *)
(* the ring it is called on (RingOf...), which is the same wherever in the *)
(* ring it happens; and last, that all other rings are apart from it.      *)
(***************************************************************************)
EXTENDS ListProps, ListLemmas

Members(h, s) == {h} \union ToSet(s)

(* s may be the list of the head h. *)
Proper(h, s) ==
  /\ h \in Nodes /\ s \in Seq(Nodes)
  /\ h \notin ToSet(s)
  /\ \A i, j \in DOMAIN s : s[i] = s[j] => i = j

(* Outside of T, n is what m was. *)
Alike(m, n, T) ==
  \A y \in Nodes \ T : n.next[y] = m.next[y] /\ n.prev[y] = m.prev[y]

-----------------------------------------------------------------------------
(* What the functions write.                                               *)

LEMMA SetsLinksToItself ==
  ASSUME NEW m \in Memory, NEW x \in Nodes
  PROVE  /\ INIT_LIST_HEAD(m, x) \in Memory
         /\ INIT_LIST_HEAD(m, x).next[x] = x
         /\ INIT_LIST_HEAD(m, x).prev[x] = x
         /\ Alike(m, INIT_LIST_HEAD(m, x), {x})
BY DEF INIT_LIST_HEAD, Memory, Pointers, Alike

LinksBetween(m, n, x, p, q) ==
  /\ n \in Memory
  /\ \A y \in Nodes : n.next[y] = IF y = p THEN x ELSE IF y = x THEN q ELSE m.next[y]
  /\ \A y \in Nodes : n.prev[y] = IF y = x THEN p ELSE IF y = q THEN x ELSE m.prev[y]
LEMMA SetsLinksBetween ==
  ASSUME NEW m \in Memory, NEW x \in Nodes, NEW p \in Nodes, NEW q \in Nodes
  PROVE  LinksBetween(m, list_add_between(m, x, p, q), x, p, q)
BY DEF list_add_between, Memory, Pointers, LinksBetween

LinksAcross(m, n, p, q) ==
  /\ n \in Memory
  /\ \A y \in Nodes : n.next[y] = IF y = p THEN q ELSE m.next[y]
  /\ \A y \in Nodes : n.prev[y] = IF y = q THEN p ELSE m.prev[y]
LEMMA SetsLinksAcross ==
  ASSUME NEW m \in Memory, NEW p \in Nodes, NEW q \in Nodes
  PROVE  LinksAcross(m, list_del_between(m, p, q), p, q)
BY DEF list_del_between, Memory, Pointers, LinksAcross

(* list_replace of a node between p and q ...                              *)
LEMMA SetsLinksOfOther ==
  ASSUME NEW m \in Memory, NEW old \in Nodes, NEW new \in Nodes, new # old,
         NEW p \in Nodes, NEW q \in Nodes, m.prev[old] = p, m.next[old] = q, q # old
  PROVE  LinksBetween(m, list_replace(m, old, new), new, p, q)
<1> DEFINE forward == [m EXCEPT !.next[new] = q, !.prev[q] = new]
<1>1. /\ forward \in Memory
      /\ \A y \in Nodes : forward.next[y] = IF y = new THEN q ELSE m.next[y]
      /\ \A y \in Nodes : forward.prev[y] = IF y = q THEN new ELSE m.prev[y]
  BY DEF Memory, Pointers
<1>2. forward.prev[old] = p
  BY <1>1
<1> DEFINE n == [forward EXCEPT !.prev[new] = p, !.next[p] = new]
<1>3. list_replace(m, old, new) = n
  BY <1>2, Zenon DEF list_replace
<1> HIDE DEF forward
<1>4. /\ n \in Memory
      /\ \A y \in Nodes : n.next[y] = IF y = p THEN new ELSE forward.next[y]
      /\ \A y \in Nodes : n.prev[y] = IF y = new THEN p ELSE forward.prev[y]
  BY <1>1 DEF Memory, Pointers
<1> HIDE DEF n
<1>5. QED
  BY <1>1, <1>3, <1>4 DEF LinksBetween

(* ... or of the head of an empty list, which has itself on both sides.    *)
LEMMA SetsLinksOfLonely ==
  ASSUME NEW m \in Memory, NEW old \in Nodes, NEW new \in Nodes, new # old,
         m.prev[old] = old, m.next[old] = old
  PROVE  /\ list_replace(m, old, new) \in Memory
         /\ list_replace(m, old, new).next[new] = new
         /\ list_replace(m, old, new).prev[new] = new
         /\ Alike(m, list_replace(m, old, new), {old, new})
<1> DEFINE forward == [m EXCEPT !.next[new] = old, !.prev[old] = new]
<1>1. /\ forward \in Memory
      /\ \A y \in Nodes : forward.next[y] = IF y = new THEN old ELSE m.next[y]
      /\ \A y \in Nodes : forward.prev[y] = IF y = old THEN new ELSE m.prev[y]
  BY DEF Memory, Pointers
<1>2. forward.prev[old] = new
  BY <1>1
<1> DEFINE n == [forward EXCEPT !.prev[new] = new, !.next[new] = new]
<1>3. list_replace(m, old, new) = n
  BY <1>2, Zenon DEF list_replace
<1> HIDE DEF forward
<1>4. /\ n \in Memory
      /\ \A y \in Nodes : n.next[y] = IF y = new THEN new ELSE forward.next[y]
      /\ \A y \in Nodes : n.prev[y] = IF y = new THEN new ELSE forward.prev[y]
  BY <1>1 DEF Memory, Pointers
<1> HIDE DEF n
<1>5. QED
  BY <1>1, <1>3, <1>4 DEF Alike

LinksOfCut(m, n, list, head, entry, f, q) ==
  /\ n \in Memory
  /\ \A y \in Nodes : n.next[y] = IF y = head THEN q ELSE IF y = entry THEN list
                                  ELSE IF y = list THEN f ELSE m.next[y]
  /\ \A y \in Nodes : n.prev[y] = IF y = q THEN head ELSE IF y = list THEN entry
                                  ELSE IF y = f THEN list ELSE m.prev[y]
LEMMA SetsLinksOfCut ==
  ASSUME NEW m \in Memory, NEW list \in Nodes, NEW head \in Nodes, NEW entry \in Nodes,
         NEW f \in Nodes, NEW q \in Nodes, m.next[head] = f, m.next[entry] = q
  PROVE  LinksOfCut(m, cut_position(m, list, head, entry), list, head, entry, f, q)
BY DEF cut_position, Memory, Pointers, LinksOfCut

LinksOfSplice(m, n, p, q, f, l) ==
  /\ n \in Memory
  /\ \A y \in Nodes : n.next[y] = IF y = l THEN q ELSE IF y = p THEN f ELSE m.next[y]
  /\ \A y \in Nodes : n.prev[y] = IF y = q THEN l ELSE IF y = f THEN p ELSE m.prev[y]
LEMMA SetsLinksOfSplice ==
  ASSUME NEW m \in Memory, NEW list \in Nodes, NEW p \in Nodes, NEW q \in Nodes,
         NEW f \in Nodes, NEW l \in Nodes, m.next[list] = f, m.prev[list] = l
  PROVE  LinksOfSplice(m, splice_between(m, list, p, q), p, q, f, l)
BY DEF splice_between, Memory, Pointers, LinksOfSplice

-----------------------------------------------------------------------------
(* Rings.                                                                  *)

LEMMA OnSequence ==
  ASSUME NEW s \in Seq(Nodes), NEW y
  PROVE  y \in ToSet(s) <=> \E i \in 1..Len(s) : s[i] = y
<1>1. DOMAIN s = 1..Len(s)
  OBVIOUS
<1>2. QED
  BY <1>1 DEF ToSet

LEMMA Places ==
  ASSUME NEW h, NEW s, Proper(h, s)
  PROVE  /\ Len(s) \in Nat /\ DOMAIN s = 1..Len(s)
         /\ Place(h, s, 0) = h /\ Place(h, s, Len(s) + 1) = h
         /\ \A i \in 1..Len(s) : Place(h, s, i) = s[i]
         /\ \A i \in Int : Place(h, s, i) \in Nodes /\ Place(h, s, i) \in Members(h, s)
         /\ \A i, j \in 0..Len(s) : Place(h, s, i) = Place(h, s, j) => i = j
         /\ \A i, j \in 1..(Len(s) + 1) : Place(h, s, i) = Place(h, s, j) => i = j
<1>1. Len(s) \in Nat /\ DOMAIN s = 1..Len(s) /\ \A i \in 1..Len(s) : s[i] \in Nodes
  BY DEF Proper
<1>2. \A i \in 1..Len(s) : s[i] # h
  BY <1>1 DEF Proper, ToSet
<1>3. \A i, j \in 1..Len(s) : s[i] = s[j] => i = j
  BY <1>1 DEF Proper
<1>4. h \in Nodes
  BY DEF Proper
<1>5. \A i : Place(h, s, i) = IF i \in 1..Len(s) THEN s[i] ELSE h
  BY <1>1 DEF Place
<1>6. \A i \in 1..Len(s) : s[i] \in Members(h, s)
  BY <1>1 DEF Members, ToSet
<1>7. h \in Members(h, s)
  BY DEF Members
<1>8. QED
  BY <1>1, <1>2, <1>3, <1>4, <1>5, <1>6, <1>7

(* Nothing happens to a ring that is apart from what changes. *)
LEMMA RingApart ==
  ASSUME NEW m, NEW n, NEW h, NEW s, NEW T, Proper(h, s), Ring(m, h, s),
         Alike(m, n, T), Members(h, s) \intersect T = {}
  PROVE  Ring(n, h, s)
<1>1. \A i \in Int : /\ n.next[Place(h, s, i)] = m.next[Place(h, s, i)]
                     /\ n.prev[Place(h, s, i)] = m.prev[Place(h, s, i)]
  BY Places DEF Alike
<1>2. Len(s) \in Nat
  BY Places
<1>3. QED
  BY <1>1, <1>2 DEF Ring

LEMMA RingOfNone ==
  ASSUME NEW m, NEW h \in Nodes, m.next[h] = h, m.prev[h] = h
  PROVE  Proper(h, <<>>) /\ Ring(m, h, <<>>) /\ Members(h, <<>>) = {h}
BY DEF Proper, Ring, Place, Members, ToSet

(* A node comes between the places i and i + 1 of a ring. *)
Inserted(s, i, x, t) ==
  /\ i \in 0..Len(s) /\ t \in Seq(Nodes) /\ Len(t) = Len(s) + 1
  /\ \A j \in 1..(Len(s) + 1) :
       t[j] = IF j <= i THEN s[j] ELSE IF j = i + 1 THEN x ELSE s[j - 1]
LEMMA RingOfAdded ==
  ASSUME NEW m \in Memory, NEW h, NEW s, Proper(h, s), Ring(m, h, s),
         NEW x \in Nodes, x \notin Members(h, s),
         NEW i, NEW t, Inserted(s, i, x, t),
         NEW n, n = list_add_between(m, x, Place(h, s, i), Place(h, s, i + 1))
  PROVE  /\ n \in Memory
         /\ Proper(h, t) /\ Ring(n, h, t)
         /\ Members(h, t) = Members(h, s) \union {x}
         /\ Alike(m, n, Members(h, t))
<1> USE DEF Inserted
<1> DEFINE len == Len(s)
           pl(j) == Place(h, s, j)
<1>1. /\ len \in Nat /\ DOMAIN s = 1..len /\ pl(0) = h /\ pl(len + 1) = h
      /\ \A j \in 1..len : pl(j) = s[j]
      /\ \A j \in Int : pl(j) \in Nodes /\ pl(j) \in Members(h, s)
      /\ \A j, k \in 0..len : pl(j) = pl(k) => j = k
      /\ \A j, k \in 1..(len + 1) : pl(j) = pl(k) => j = k
  BY Places
<1>2. \A j \in Int : x # pl(j)
  BY <1>1
<1>3. /\ n \in Memory
      /\ \A y \in Nodes : n.next[y] = IF y = pl(i) THEN x ELSE IF y = x THEN pl(i + 1)
                            ELSE m.next[y]
      /\ \A y \in Nodes : n.prev[y] = IF y = x THEN pl(i) ELSE IF y = pl(i + 1) THEN x
                            ELSE m.prev[y]
  <2>1. pl(i) \in Nodes /\ pl(i + 1) \in Nodes
    BY <1>1
  <2> HIDE DEF pl
  <2>2. n = list_add_between(m, x, pl(i), pl(i + 1))
    BY DEF pl
  <2>3. LinksBetween(m, n, x, pl(i), pl(i + 1))
    BY <2>1, <2>2, SetsLinksBetween
  <2>4. QED
    BY <2>3 DEF LinksBetween
<1>4. \A j \in 0..len : m.next[pl(j)] = pl(j + 1) /\ m.prev[pl(j + 1)] = pl(j)
  BY DEF Ring
<1>5. /\ DOMAIN t = 1..(len + 1) /\ i \in 0..len /\ t \in Seq(Nodes) /\ Len(t) = len + 1
      /\ \A j \in 1..(len + 1) :
           t[j] = IF j <= i THEN s[j] ELSE IF j = i + 1 THEN x ELSE s[j - 1]
  OBVIOUS
<1> USE <1>5
<1> HIDE DEF Inserted
<1>6. \A j \in 0..(len + 2) : Place(h, t, j) = IF j <= i THEN pl(j) ELSE IF j = i + 1 THEN x
                                              ELSE pl(j - 1)
  <2>1. \A j \in 0..(len + 2) : Place(h, t, j) = IF j \in 1..(len + 1) THEN t[j] ELSE h
    BY <1>5 DEF Place
  <2> HIDE DEF pl
  <2>2. SUFFICES ASSUME NEW j \in 0..(len + 2)
                 PROVE  Place(h, t, j) = IF j <= i THEN pl(j) ELSE IF j = i + 1 THEN x ELSE pl(j - 1)
    OBVIOUS
  <2>3. CASE j = 0 \/ j = len + 2
    BY <2>1, <2>3, <1>1
  <2>4. CASE j \in 1..(len + 1)
    <3>1. Place(h, t, j) = t[j]
      BY <2>1, <2>4
    <3>2. QED
      BY <3>1, <2>4, <1>1
  <2>5. QED
    BY <2>3, <2>4, <1>1
<1> HIDE DEF pl, len
<1>7. len = Len(s) /\ i \in 0..len
  BY DEF len
<1>8. Ring(n, h, t)
  <2>1. SUFFICES ASSUME NEW k \in 0..(len + 1)
                 PROVE  /\ n.next[Place(h, t, k)] = Place(h, t, k + 1)
                        /\ n.prev[Place(h, t, k + 1)] = Place(h, t, k)
    BY <1>7, <1>5 DEF Ring
  <2>2. CASE k < i
    BY <2>2, <1>1, <1>2, <1>3, <1>4, <1>6, <1>7
  <2>3. CASE k = i
    BY <2>3, <1>1, <1>2, <1>3, <1>4, <1>6, <1>7
  <2>4. CASE k = i + 1
    BY <2>4, <1>1, <1>2, <1>3, <1>4, <1>6, <1>7
  <2>5. CASE k > i + 1
    <3>1. /\ Place(h, t, k) = pl(k - 1) /\ Place(h, t, k + 1) = pl(k)
          /\ pl(k - 1) # pl(i) /\ pl(k) # pl(i + 1)
      BY <2>5, <1>1, <1>6, <1>7
    <3>2. m.next[pl(k - 1)] = pl(k) /\ m.prev[pl(k)] = pl(k - 1)
      BY <2>5, <1>1, <1>4, <1>7, k - 1 \in 0..len, (k - 1) + 1 = k
    <3>3. QED
      BY <2>5, <3>1, <3>2, <1>1, <1>2, <1>3, <1>7
  <2>6. QED
    BY <2>2, <2>3, <2>4, <2>5, <1>7
<1>9. ToSet(t) = ToSet(s) \union {x}
  <2>0. s \in Seq(Nodes)
    BY DEF Proper
  <2>1. ASSUME NEW j \in 1..(len + 1) PROVE t[j] = x \/ \E k \in 1..len : s[k] = t[j]
    <3>1. CASE j < i + 1
      BY <3>1, <1>1, <1>7
    <3>2. CASE j > i + 1
      BY <3>2, <1>1, <1>7, t[j] = s[j - 1]
    <3>3. QED
      BY <3>1, <3>2, <1>1, <1>7
  <2>2. x = t[i + 1] /\ i + 1 \in 1..(len + 1)
    BY <1>1, <1>7
  <2>3. ASSUME NEW j \in 1..len PROVE \E k \in 1..(len + 1) : t[k] = s[j]
    <3>1. CASE j <= i
      BY <3>1, <1>1, <1>7
    <3>2. CASE j > i
      BY <3>2, <1>1, <1>7, s[j] = t[j + 1]
    <3>3. QED
      BY <3>1, <3>2, <1>1, <1>7
  <2>4. \A y : y \in ToSet(s) <=> \E k \in 1..len : s[k] = y
    BY <2>0, OnSequence, <1>7
  <2>5. \A y : y \in ToSet(t) <=> \E k \in 1..(len + 1) : t[k] = y
    BY OnSequence, <1>7
  <2>6. QED
    BY <2>1, <2>2, <2>3, <2>4, <2>5
<1>10. Proper(h, t)
  <2>1. h \notin ToSet(t) /\ h \in Nodes
    BY <1>9, <1>1, <1>2 DEF Proper
  <2>2. ASSUME NEW j \in 1..(len + 1), NEW k \in 1..(len + 1), t[j] = t[k] PROVE j = k
    <3>1. \A e \in 1..len : s[e] # x
      BY <1>1, <1>2
    <3>2. \A d, e \in 1..len : s[d] = s[e] => d = e
      BY <1>1 DEF Proper
    <3>3. QED
      BY <2>2, <3>1, <3>2, <1>1, <1>7
  <2>3. QED
    BY <2>1, <2>2, <1>5 DEF Proper
<1>11. Alike(m, n, Members(h, t))
  <2>1. pl(i) \in Members(h, t) /\ pl(i + 1) \in Members(h, t) /\ x \in Members(h, t)
    BY <1>1, <1>7, <1>9 DEF Members
  <2>2. QED
    BY <2>1, <1>3 DEF Alike
<1>12. QED
  BY <1>3, <1>8, <1>9, <1>10, <1>11 DEF Members

(* The i-th node leaves a ring. *)
LEMMA RingOfOthers ==
  ASSUME NEW m \in Memory, NEW h, NEW s, Proper(h, s), Ring(m, h, s),
         NEW i \in 1..Len(s), NEW n, n = list_del_entry(m, s[i])
  PROVE  /\ n \in Memory
         /\ Proper(h, RemoveAt(s, i)) /\ Ring(n, h, RemoveAt(s, i))
         /\ Members(h, RemoveAt(s, i)) = Members(h, s) \ {s[i]}
         /\ s[i] \in Nodes /\ s[i] # h
         /\ Alike(m, n, Members(h, RemoveAt(s, i)))
<1> DEFINE len == Len(s)
           pl(j) == Place(h, s, j)
           t == RemoveAt(s, i)
<1>1. /\ len \in Nat /\ DOMAIN s = 1..len /\ pl(0) = h /\ pl(len + 1) = h
      /\ \A j \in 1..len : pl(j) = s[j]
      /\ \A j \in Int : pl(j) \in Nodes /\ pl(j) \in Members(h, s)
      /\ \A j, k \in 0..len : pl(j) = pl(k) => j = k
      /\ \A j, k \in 1..(len + 1) : pl(j) = pl(k) => j = k
  BY Places
<1>2. \A j \in 0..len : m.next[pl(j)] = pl(j + 1) /\ m.prev[pl(j + 1)] = pl(j)
  BY DEF Ring
<1>3. /\ t \in Seq(Nodes) /\ Len(t) = len - 1 /\ DOMAIN t = 1..(len - 1)
      /\ \A j \in 1..(len - 1) : t[j] = IF j < i THEN s[j] ELSE s[j + 1]
  <2>1. s \in Seq(Nodes) /\ i \in DOMAIN s
    BY <1>1 DEF Proper
  <2>2. /\ t \in Seq(Nodes) /\ Len(t) = len - 1
        /\ \A j \in 1..(len - 1) : t[j] = IF j < i THEN s[j] ELSE s[j + 1]
    BY <2>1, RemoveAtSeq
  <2> HIDE DEF t
  <2>3. QED
    BY <2>2
<1>4. /\ n \in Memory
      /\ \A y \in Nodes : n.next[y] = IF y = pl(i - 1) THEN pl(i + 1) ELSE m.next[y]
      /\ \A y \in Nodes : n.prev[y] = IF y = pl(i + 1) THEN pl(i - 1) ELSE m.prev[y]
  <2>1. m.next[s[i]] = pl(i + 1) /\ m.prev[s[i]] = pl(i - 1)
    <3>1. i \in 0..len /\ i - 1 \in 0..len /\ (i - 1) + 1 = i /\ pl(i) = s[i]
      BY <1>1
    <3>2. QED
      BY <3>1, <1>2
  <2>2. pl(i - 1) \in Nodes /\ pl(i + 1) \in Nodes
    BY <1>1
  <2> HIDE DEF pl
  <2>3. n = list_del_between(m, pl(i - 1), pl(i + 1))
    BY <2>1 DEF list_del_entry
  <2>4. LinksAcross(m, n, pl(i - 1), pl(i + 1))
    BY <2>2, <2>3, SetsLinksAcross
  <2>5. QED
    BY <2>4 DEF LinksAcross
<1>5. \A j \in 0..len : Place(h, t, j) = IF j < i THEN pl(j) ELSE pl(j + 1)
  <2>1. \A j \in 0..len : Place(h, t, j) = IF j \in 1..(len - 1) THEN t[j] ELSE h
    BY <1>3 DEF Place
  <2> HIDE DEF pl, t
  <2>2. QED
    BY <2>1, <1>1, <1>3
<1> HIDE DEF pl, len, t
<1>6. len = Len(s) /\ i \in 1..len
  BY DEF len
<1>7. Ring(n, h, t)
  <2>1. SUFFICES ASSUME NEW k \in 0..(len - 1)
                 PROVE  /\ n.next[Place(h, t, k)] = Place(h, t, k + 1)
                        /\ n.prev[Place(h, t, k + 1)] = Place(h, t, k)
    BY <1>3 DEF Ring
  <2>2. CASE k < i - 1
    BY <2>2, <1>1, <1>2, <1>4, <1>5, <1>6
  <2>3. CASE k = i - 1
    BY <2>3, <1>1, <1>2, <1>4, <1>5, <1>6
  <2>4. CASE k >= i
    <3>1. /\ Place(h, t, k) = pl(k + 1) /\ Place(h, t, k + 1) = pl(k + 2)
          /\ pl(k + 1) # pl(i - 1) /\ pl(k + 2) # pl(i + 1)
      BY <2>4, <1>1, <1>5, <1>6
    <3>2. m.next[pl(k + 1)] = pl(k + 2) /\ m.prev[pl(k + 2)] = pl(k + 1)
      BY <1>2, <1>1, <1>6, k + 1 \in 0..len, (k + 1) + 1 = k + 2
    <3>3. QED
      BY <3>1, <3>2, <1>1, <1>4, <1>6
  <2>5. QED
    BY <2>2, <2>3, <2>4, <1>6
<1>8. \A j, k \in 1..len : s[j] = s[k] => j = k
  BY <1>1 DEF Proper
<1>9. ToSet(t) = ToSet(s) \ {s[i]}
  <2>0. s \in Seq(Nodes)
    BY DEF Proper
  <2>1. ASSUME NEW j \in 1..(len - 1)
        PROVE  t[j] # s[i] /\ \E k \in 1..len : s[k] = t[j]
    <3>1. CASE j < i
      BY <3>1, <1>1, <1>3, <1>6, <1>8
    <3>2. CASE j >= i
      BY <3>2, <1>1, <1>3, <1>6, <1>8, t[j] = s[j + 1]
    <3>3. QED
      BY <3>1, <3>2, <1>1, <1>6
  <2>2. ASSUME NEW j \in 1..len, s[j] # s[i] PROVE \E k \in 1..(len - 1) : t[k] = s[j]
    <3>1. CASE j < i
      BY <3>1, <1>1, <1>3, <1>6
    <3>2. CASE j > i
      BY <3>2, <1>1, <1>3, <1>6, s[j] = t[j - 1]
    <3>3. QED
      BY <3>1, <3>2, <2>2, <1>1, <1>6
  <2>3. \A y : y \in ToSet(s) <=> \E k \in 1..len : s[k] = y
    BY <2>0, OnSequence, <1>6
  <2>4. \A y : y \in ToSet(t) <=> \E k \in 1..(len - 1) : t[k] = y
    BY <1>3, OnSequence
  <2>5. QED
    BY <2>1, <2>2, <2>3, <2>4, ZenonT(60)
<1>10. s[i] \in Nodes /\ s[i] # h
  BY <1>1, <1>6 DEF Proper, ToSet
<1>11. Proper(h, t)
  <2>1. h \notin ToSet(t) /\ h \in Nodes
    BY <1>9 DEF Proper
  <2>2. ASSUME NEW j \in 1..(len - 1), NEW k \in 1..(len - 1), t[j] = t[k] PROVE j = k
    BY <2>2, <1>8, <1>1, <1>3, <1>6
  <2>3. QED
    BY <2>1, <2>2, <1>3 DEF Proper
<1>12. Alike(m, n, Members(h, t))
  <2>1. pl(i - 1) \in Members(h, t) /\ pl(i + 1) \in Members(h, t)
    <3>1. pl(i - 1) # s[i] /\ pl(i + 1) # s[i]
      BY <1>1, <1>6
    <3>2. QED
      BY <3>1, <1>1, <1>6, <1>9 DEF Members
  <2>2. QED
    BY <2>1, <1>4 DEF Alike
<1>13. QED
  BY <1>4, <1>7, <1>9, <1>10, <1>11, <1>12 DEF Members, t

(* Another node takes the place i of a ring. *)
LEMMA RingOfReplaced ==
  ASSUME NEW m \in Memory, NEW h, NEW s, Proper(h, s), Ring(m, h, s),
         NEW i \in 1..Len(s), NEW new \in Nodes, new \notin Members(h, s),
         NEW n, n = list_replace(m, s[i], new)
  PROVE  /\ n \in Memory
         /\ Proper(h, [s EXCEPT ![i] = new]) /\ Ring(n, h, [s EXCEPT ![i] = new])
         /\ Members(h, [s EXCEPT ![i] = new]) = (Members(h, s) \ {s[i]}) \union {new}
         /\ s[i] \in Nodes /\ s[i] # h
         /\ Alike(m, n, Members(h, [s EXCEPT ![i] = new]))
<1> DEFINE len == Len(s)
           pl(j) == Place(h, s, j)
           t == [s EXCEPT ![i] = new]
<1>1. /\ len \in Nat /\ DOMAIN s = 1..len /\ pl(0) = h /\ pl(len + 1) = h
      /\ \A j \in 1..len : pl(j) = s[j]
      /\ \A j \in Int : pl(j) \in Nodes /\ pl(j) \in Members(h, s)
      /\ \A j, k \in 0..len : pl(j) = pl(k) => j = k
      /\ \A j, k \in 1..(len + 1) : pl(j) = pl(k) => j = k
  BY Places
<1>2. \A j \in 0..len : m.next[pl(j)] = pl(j + 1) /\ m.prev[pl(j + 1)] = pl(j)
  BY DEF Ring
<1>3. \A j \in Int : new # pl(j)
  BY <1>1
<1>4. /\ t \in Seq(Nodes) /\ Len(t) = len /\ DOMAIN t = 1..len
      /\ \A j \in 1..len : t[j] = IF j = i THEN new ELSE s[j]
  BY <1>1 DEF Proper
<1>5. \A j \in 0..(len + 1) : Place(h, t, j) = IF j = i THEN new ELSE pl(j)
  <2>1. \A j \in 0..(len + 1) : Place(h, t, j) = IF j \in 1..len THEN t[j] ELSE h
    BY <1>4 DEF Place
  <2> HIDE DEF pl, t
  <2>2. QED
    BY <2>1, <1>1, <1>4
<1>6. s[i] \in Nodes /\ s[i] = pl(i) /\ s[i] # h
  BY <1>1 DEF Proper, ToSet
<1> HIDE DEF pl, len, t
<1>7. len = Len(s) /\ i \in 1..len
  BY DEF len
<1>8. LinksBetween(m, n, new, pl(i - 1), pl(i + 1))
  <2>1. /\ m.next[s[i]] = pl(i + 1) /\ m.prev[s[i]] = pl(i - 1)
        /\ pl(i - 1) \in Nodes /\ pl(i + 1) \in Nodes
    BY <1>1, <1>2, <1>6, <1>7, i - 1 \in 0..len, (i - 1) + 1 = i
  <2>2. pl(i + 1) # s[i]
    BY <1>1, <1>6, <1>7
  <2>3. new # s[i]
    BY <1>3, <1>6, <1>7
  <2>4. QED
    BY <1>6, <2>1, <2>2, <2>3, SetsLinksOfOther
<1>9. Ring(n, h, t)
  <2>1. SUFFICES ASSUME NEW k \in 0..len
                 PROVE  /\ n.next[Place(h, t, k)] = Place(h, t, k + 1)
                        /\ n.prev[Place(h, t, k + 1)] = Place(h, t, k)
    BY <1>4 DEF Ring
  <2>2. /\ m.next[pl(k)] = pl(k + 1) /\ m.prev[pl(k + 1)] = pl(k)
        /\ pl(k) \in Nodes /\ pl(k + 1) \in Nodes
        /\ Place(h, t, k) = IF k = i THEN new ELSE pl(k)
        /\ Place(h, t, k + 1) = IF k + 1 = i THEN new ELSE pl(k + 1)
    BY <1>1, <1>2, <1>5, <1>7
  <2>3. /\ k # i - 1 => pl(k) # pl(i - 1)
        /\ k + 1 # i + 1 => pl(k + 1) # pl(i + 1)
        /\ new # pl(k) /\ new # pl(k + 1) /\ new # pl(i - 1) /\ new # pl(i + 1)
    BY <1>1, <1>3, <1>7
  <2>4. QED
    BY <2>2, <2>3, <1>1, <1>7, <1>8 DEF LinksBetween
<1>10. ToSet(t) = (ToSet(s) \ {s[i]}) \union {new}
  <2>1. \A j, k \in 1..len : s[j] = s[k] => j = k
    BY <1>1 DEF Proper
  <2>2. s \in Seq(Nodes)
    BY DEF Proper
  <2>3. \A y : y \in ToSet(s) <=> \E k \in 1..len : s[k] = y
    BY <2>2, OnSequence, <1>7
  <2>4. \A y : y \in ToSet(t) <=> \E k \in 1..len : t[k] = y
    BY <1>4, OnSequence
  <2>5. QED
    BY <2>1, <2>3, <2>4, <1>4, <1>7
<1>11. Proper(h, t)
  <2>1. h \notin ToSet(t) /\ h \in Nodes
    BY <1>1, <1>3, <1>10 DEF Proper
  <2>2. ASSUME NEW j \in 1..len, NEW k \in 1..len, t[j] = t[k] PROVE j = k
    BY <2>2, <1>1, <1>3, <1>4, <1>7
  <2>3. QED
    BY <2>1, <2>2, <1>4 DEF Proper
<1>12. Alike(m, n, Members(h, t))
  <2>1. new \in Members(h, t) /\ pl(i - 1) \in Members(h, t) /\ pl(i + 1) \in Members(h, t)
    <3>1. pl(i - 1) # s[i] /\ pl(i + 1) # s[i]
      BY <1>1, <1>6, <1>7
    <3>2. QED
      BY <3>1, <1>1, <1>7, <1>10 DEF Members
  <2>2. QED
    BY <2>1, <1>8 DEF Alike, LinksBetween
<1>13. QED
  BY <1>6, <1>8, <1>9, <1>10, <1>11, <1>12 DEF Members, t, LinksBetween

(* Another node takes the place of the head. *)
LEMMA RingOfOtherHead ==
  ASSUME NEW m \in Memory, NEW h, NEW s, Proper(h, s), Ring(m, h, s),
         NEW new \in Nodes, new \notin Members(h, s),
         NEW n, n = list_replace(m, h, new)
  PROVE  /\ n \in Memory
         /\ Proper(new, s) /\ Ring(n, new, s)
         /\ Alike(m, n, Members(new, s) \union {h})
<1> DEFINE len == Len(s)
           pl(j) == Place(h, s, j)
<1>1. /\ len \in Nat /\ DOMAIN s = 1..len /\ pl(0) = h /\ pl(len + 1) = h
      /\ \A j \in 1..len : pl(j) = s[j]
      /\ \A j \in Int : pl(j) \in Nodes /\ pl(j) \in Members(h, s)
      /\ \A j, k \in 0..len : pl(j) = pl(k) => j = k
      /\ \A j, k \in 1..(len + 1) : pl(j) = pl(k) => j = k
  BY Places
<1>2. \A j \in 0..len : m.next[pl(j)] = pl(j + 1) /\ m.prev[pl(j + 1)] = pl(j)
  BY DEF Ring
<1>3. \A j \in Int : new # pl(j)
  BY <1>1
<1>4. Proper(new, s)
  BY DEF Proper, Members
<1>5. \A j \in 0..(len + 1) : Place(new, s, j) = IF j \in 1..len THEN pl(j) ELSE new
  <2>1. \A j \in 0..(len + 1) : Place(new, s, j) = IF j \in 1..len THEN s[j] ELSE new
    BY <1>1 DEF Place
  <2> HIDE DEF pl
  <2>2. QED
    BY <2>1, <1>1
<1> HIDE DEF pl, len
<1>6. len = Len(s)
  BY DEF len
<1>7. CASE len = 0
  <2>1. m.next[h] = h /\ m.prev[h] = h /\ h \in Nodes /\ new # h
    BY <1>1, <1>2, <1>3, <1>7, 0 \in 0..len, 0 + 1 = len + 1
  <2>2. /\ n \in Memory /\ n.next[new] = new /\ n.prev[new] = new
        /\ Alike(m, n, {h, new})
    BY <2>1, SetsLinksOfLonely
  <2>3. Ring(n, new, s)
    BY <2>2, <1>5, <1>6, <1>7 DEF Ring
  <2>4. QED
    BY <2>2, <2>3, <1>4 DEF Alike, Members
<1>8. CASE len # 0
  <2>1. /\ m.next[h] = pl(1) /\ m.prev[h] = pl(len)
        /\ pl(1) \in Nodes /\ pl(len) \in Nodes /\ pl(1) # h /\ pl(len) # h
        /\ h \in Nodes /\ new # h
    BY <1>1, <1>2, <1>3, <1>8, 0 \in 0..len, 0 + 1 = 1, len \in 0..len
  <2>2. LinksBetween(m, n, new, pl(len), pl(1))
    BY <2>1, SetsLinksOfOther
  <2>3. ASSUME NEW k \in 0..len
        PROVE  /\ n.next[Place(new, s, k)] = Place(new, s, k + 1)
               /\ n.prev[Place(new, s, k + 1)] = Place(new, s, k)
    <3>1. /\ m.next[pl(k)] = pl(k + 1) /\ m.prev[pl(k + 1)] = pl(k)
          /\ pl(k) \in Nodes /\ pl(k + 1) \in Nodes
          /\ Place(new, s, k) = IF k = 0 THEN new ELSE pl(k)
          /\ Place(new, s, k + 1) = IF k = len THEN new ELSE pl(k + 1)
      BY <1>1, <1>2, <1>5, <1>8
    <3>2. /\ k # len => pl(k) # pl(len)
          /\ k # 0 => pl(k + 1) # pl(1)
          /\ new # pl(k) /\ new # pl(k + 1) /\ new # pl(1) /\ new # pl(len)
      BY <1>1, <1>3, <1>8
    <3>3. QED
      BY <3>1, <3>2, <2>2, <1>1, <1>8 DEF LinksBetween
  <2>4. Ring(n, new, s)
    BY <2>3, <1>6 DEF Ring
  <2>5. pl(1) \in Members(new, s) /\ pl(len) \in Members(new, s) /\ new \in Members(new, s)
    BY <2>1, <1>1, <1>8 DEF Members
  <2>6. QED
    BY <2>2, <2>4, <2>5, <1>4 DEF LinksBetween, Alike
<1>9. QED
  BY <1>7, <1>8

(* A sequence in two. *)
Halves(s, i, a, b) ==
  /\ a \in Seq(Nodes) /\ Len(a) = i /\ \A j \in 1..i : a[j] = s[j]
  /\ b \in Seq(Nodes) /\ Len(b) = Len(s) - i
  /\ \A j \in 1..(Len(s) - i) : b[j] = s[i + j]
LEMMA CutInTwo ==
  ASSUME NEW q \in Seq(Nodes), NEW i \in 0..Len(q)
  PROVE  Halves(q, i, SubSeq(q, 1, i), SubSeq(q, i + 1, Len(q)))
<1>1. Len(q) \in Nat /\ \A j \in 1..Len(q) : q[j] \in Nodes
  BY LenProperties, ElementOfSeq
<1>2. /\ SubSeq(q, 1, i) \in Seq(Nodes)
      /\ Len(SubSeq(q, 1, i)) = i
      /\ \A j \in 1..i : SubSeq(q, 1, i)[j] = q[j]
  <2>1. \A j \in 1..i : q[j] \in Nodes
    BY <1>1
  <2> QED BY <1>1, <2>1, SubSeqProperties
<1>3. /\ SubSeq(q, i + 1, Len(q)) \in Seq(Nodes)
      /\ Len(SubSeq(q, i + 1, Len(q))) = Len(q) - i
      /\ \A j \in 1..(Len(q) - i) : SubSeq(q, i + 1, Len(q))[j] = q[i + j]
  <2>1. \A j \in (i + 1)..Len(q) : q[j] \in Nodes
    BY <1>1
  <2> QED BY <1>1, <2>1, SubSeqProperties
<1> QED BY <1>2, <1>3 DEF Halves

LEMMA HalvesApart ==
  ASSUME NEW h, NEW s, Proper(h, s), NEW i \in 1..Len(s),
         NEW g \in Nodes, g \notin Members(h, s), NEW a, NEW b, Halves(s, i, a, b)
  PROVE  /\ Proper(g, a) /\ Proper(h, b)
         /\ Members(g, a) \intersect Members(h, b) = {}
         /\ Members(g, a) \subseteq Members(h, s) \union {g}
         /\ Members(h, b) \subseteq Members(h, s)
<1> DEFINE len == Len(s)
<1>1. len \in Nat /\ DOMAIN s = 1..len
  BY Places
<1>2. /\ a \in Seq(Nodes) /\ Len(a) = i /\ DOMAIN a = 1..i
      /\ \A j \in 1..i : a[j] = s[j]
      /\ b \in Seq(Nodes) /\ Len(b) = len - i /\ DOMAIN b = 1..(len - i)
      /\ \A j \in 1..(len - i) : b[j] = s[i + j]
  BY <1>1 DEF Halves
<1> HIDE DEF len
<1>3. len = Len(s) /\ i \in 1..len
  BY <1>1 DEF len
<1>4. /\ s \in Seq(Nodes) /\ h \in Nodes /\ h \notin ToSet(s)
      /\ \A j, k \in 1..len : s[j] = s[k] => j = k
  BY <1>1 DEF Proper
<1>5. /\ \A y : y \in ToSet(s) <=> \E k \in 1..len : s[k] = y
      /\ \A y : y \in ToSet(a) <=> \E k \in 1..i : a[k] = y
      /\ \A y : y \in ToSet(b) <=> \E k \in 1..(len - i) : b[k] = y
  <2>1. Len(s) = len /\ Len(a) = i /\ Len(b) = len - i /\ s \in Seq(Nodes)
    BY <1>2, <1>3, <1>4
  <2>2. \A y : y \in ToSet(s) <=> \E k \in 1..len : s[k] = y
    BY <2>1, OnSequence
  <2>3. \A y : y \in ToSet(a) <=> \E k \in 1..i : a[k] = y
    <3>1. a \in Seq(Nodes) /\ Len(a) = i
      BY <1>2
    <3>2. \A y : y \in ToSet(a) <=> \E k \in 1..Len(a) : a[k] = y
      BY <3>1, OnSequence
    <3>3. QED
      BY <3>1, <3>2, Zenon
  <2>4. \A y : y \in ToSet(b) <=> \E k \in 1..(len - i) : b[k] = y
    <3>1. b \in Seq(Nodes) /\ Len(b) = len - i
      BY <1>2
    <3>2. \A y : y \in ToSet(b) <=> \E k \in 1..Len(b) : b[k] = y
      BY <3>1, OnSequence
    <3>3. QED
      BY <3>1, <3>2, Zenon
  <2>5. QED
    BY <2>2, <2>3, <2>4
<1>6. ToSet(a) \subseteq ToSet(s) /\ ToSet(b) \subseteq ToSet(s)
  <2>1. \A k \in 1..i : k \in 1..len
    BY <1>1, <1>3
  <2>2. \A k \in 1..(len - i) : i + k \in 1..len
    BY <1>1, <1>3
  <2>3. QED
    BY <2>1, <2>2, <1>2, <1>5, SMTT(40)
<1>7. ToSet(a) \intersect ToSet(b) = {}
  <2>1. ASSUME NEW j \in 1..i, NEW k \in 1..(len - i) PROVE a[j] # b[k]
    <3>1. j \in 1..len /\ i + k \in 1..len /\ j # i + k
      BY <1>1, <1>3
    <3>2. QED
      BY <3>1, <1>2, <1>4
  <2>2. QED
    BY <2>1, <1>5
<1>8. g # h /\ g \notin ToSet(s)
  BY DEF Members
<1>9. Proper(g, a)
  <2>1. ASSUME NEW j \in 1..i, NEW k \in 1..i, a[j] = a[k] PROVE j = k
    BY <2>1, <1>1, <1>2, <1>3, <1>4
  <2>2. QED
    BY <2>1, <1>2, <1>6, <1>8 DEF Proper
<1>10. Proper(h, b)
  <2>1. ASSUME NEW j \in 1..(len - i), NEW k \in 1..(len - i), b[j] = b[k] PROVE j = k
    <3>1. i + j \in 1..len /\ i + k \in 1..len /\ s[i + j] = s[i + k]
      BY <2>1, <1>1, <1>2, <1>3
    <3>2. i + j = i + k
      BY <3>1, <1>4
    <3>3. QED
      BY <3>2, <1>3
  <2>2. QED
    BY <2>1, <1>2, <1>4, <1>6 DEF Proper
<1>11. /\ Members(g, a) = {g} \union ToSet(a) /\ Members(h, b) = {h} \union ToSet(b)
       /\ Members(h, s) = {h} \union ToSet(s)
  BY DEF Members
<1>12. Members(g, a) \intersect Members(h, b) = {}
  BY <1>4, <1>6, <1>7, <1>8, <1>11
<1>13. Members(g, a) \subseteq Members(h, s) \union {g} /\ Members(h, b) \subseteq Members(h, s)
  BY <1>6, <1>11
<1>14. QED
  BY <1>9, <1>10, <1>12, <1>13

(* The first i nodes of a ring, at least one, go to another head. *)
LEMMA RingsOfCut ==
  ASSUME NEW m \in Memory, NEW h, NEW s, Proper(h, s), Ring(m, h, s),
         NEW i \in 1..Len(s), NEW g \in Nodes, g \notin Members(h, s),
         NEW a, NEW b, Halves(s, i, a, b),
         NEW n, n = cut_position(m, g, h, s[i])
  PROVE  /\ n \in Memory
         /\ Ring(n, g, a) /\ Ring(n, h, b)
         /\ Alike(m, n, Members(h, s) \union {g})
<1> DEFINE len == Len(s)
           pl(j) == Place(h, s, j)
<1>1. /\ len \in Nat /\ DOMAIN s = 1..len /\ pl(0) = h /\ pl(len + 1) = h
      /\ \A j \in 1..len : pl(j) = s[j]
      /\ \A j \in Int : pl(j) \in Nodes /\ pl(j) \in Members(h, s)
      /\ \A j, k \in 0..len : pl(j) = pl(k) => j = k
      /\ \A j, k \in 1..(len + 1) : pl(j) = pl(k) => j = k
  BY Places
<1>2. \A j \in 0..len : m.next[pl(j)] = pl(j + 1) /\ m.prev[pl(j + 1)] = pl(j)
  BY DEF Ring
<1>3. \A j \in Int : g # pl(j)
  BY <1>1
<1>4. /\ a \in Seq(Nodes) /\ Len(a) = i /\ DOMAIN a = 1..i
      /\ \A j \in 1..i : a[j] = s[j]
      /\ b \in Seq(Nodes) /\ Len(b) = len - i /\ DOMAIN b = 1..(len - i)
      /\ \A j \in 1..(len - i) : b[j] = s[i + j]
  BY <1>1 DEF Halves
<1>5. /\ \A j \in 0..(i + 1) : Place(g, a, j) = IF j \in 1..i THEN pl(j) ELSE g
      /\ \A j \in 0..(len - i + 1) : Place(h, b, j) = IF j = 0 THEN h ELSE pl(i + j)
  <2>1. /\ \A j \in 0..(i + 1) : Place(g, a, j) = IF j \in 1..i THEN a[j] ELSE g
        /\ \A j \in 0..(len - i + 1) : Place(h, b, j) = IF j \in 1..(len - i) THEN b[j] ELSE h
    BY <1>4 DEF Place
  <2> HIDE DEF pl
  <2>2. \A j \in 0..(i + 1) : Place(g, a, j) = IF j \in 1..i THEN pl(j) ELSE g
    BY <2>1, <1>1, <1>4
  <2>3. ASSUME NEW j \in 0..(len - i + 1)
        PROVE  Place(h, b, j) = IF j = 0 THEN h ELSE pl(i + j)
    <3>1. CASE j = 0
      BY <3>1, <2>1, <1>1
    <3>2. CASE j \in 1..(len - i)
      BY <3>2, <2>1, <1>1, <1>4
    <3>3. CASE j = len - i + 1
      BY <3>3, <2>1, <1>1, i + j = len + 1
    <3>4. QED
      BY <3>1, <3>2, <3>3, <1>1
  <2>4. QED
    BY <2>2, <2>3
<1> HIDE DEF pl, len
<1>6. len = Len(s) /\ i \in 1..len /\ s[i] = pl(i)
  BY <1>1 DEF len
<1>7. LinksOfCut(m, n, g, h, pl(i), pl(1), pl(i + 1))
  <2>1. /\ m.next[h] = pl(1) /\ m.next[pl(i)] = pl(i + 1) /\ h \in Nodes
        /\ pl(1) \in Nodes /\ pl(i) \in Nodes /\ pl(i + 1) \in Nodes
    BY <1>1, <1>2, <1>6, 0 \in 0..len, 0 + 1 = 1
  <2>2. QED
    BY <2>1, <1>6, SetsLinksOfCut
<1>8. ASSUME NEW k \in 0..len
      PROVE  /\ m.next[pl(k)] = pl(k + 1) /\ m.prev[pl(k + 1)] = pl(k)
             /\ pl(k) \in Nodes /\ pl(k + 1) \in Nodes /\ g \in Nodes /\ h \in Nodes
             /\ g # pl(k) /\ g # pl(k + 1) /\ g # h
             /\ k # 0 => pl(k) # h
             /\ k # i => pl(k) # pl(i) /\ pl(k + 1) # pl(i + 1)
             /\ k # 0 => pl(k + 1) # pl(1)
  <2>1. k + 1 \in 1..(len + 1) /\ i + 1 \in 1..(len + 1) /\ i \in 0..len /\ 1 \in 1..(len + 1)
        /\ 0 \in 0..len /\ k \in Int /\ k + 1 \in Int /\ 0 \in Int
    BY <1>1, <1>6
  <2>2. QED
    BY <2>1, <1>1, <1>2, <1>3
<1>9. Ring(n, g, a)
  <2>1. SUFFICES ASSUME NEW k \in 0..i
                 PROVE  /\ n.next[Place(g, a, k)] = Place(g, a, k + 1)
                        /\ n.prev[Place(g, a, k + 1)] = Place(g, a, k)
    BY <1>4 DEF Ring
  <2>2. /\ k \in 0..len /\ k + 1 \in 0..(i + 1)
        /\ Place(g, a, k) = IF k = 0 THEN g ELSE pl(k)
        /\ Place(g, a, k + 1) = IF k = i THEN g ELSE pl(k + 1)
    BY <1>1, <1>5, <1>6
  <2>3. g # pl(1) /\ g # pl(i) /\ g # pl(i + 1) /\ pl(1) # pl(i + 1)
    BY <1>1, <1>3, <1>6
  <2>4. CASE k = 0
    BY <2>4, <2>2, <2>3, <1>6, <1>7, <1>8 DEF LinksOfCut
  <2>5. CASE k = i
    BY <2>5, <2>2, <2>3, <1>6, <1>7, <1>8 DEF LinksOfCut
  <2>6. CASE k # 0 /\ k # i
    BY <2>6, <2>2, <2>3, <1>6, <1>7, <1>8 DEF LinksOfCut
  <2>7. QED
    BY <2>4, <2>5, <2>6
<1>10. Ring(n, h, b)
  <2>1. SUFFICES ASSUME NEW k \in 0..(len - i)
                 PROVE  /\ n.next[Place(h, b, k)] = Place(h, b, k + 1)
                        /\ n.prev[Place(h, b, k + 1)] = Place(h, b, k)
    BY <1>4 DEF Ring
  <2>2. /\ i + k \in 0..len /\ k + 1 \in 0..(len - i + 1)
        /\ Place(h, b, k) = IF k = 0 THEN h ELSE pl(i + k)
        /\ Place(h, b, k + 1) = pl(i + k + 1)
    BY <1>1, <1>5, <1>6, i + (k + 1) = i + k + 1
  <2>3. CASE k = 0
    BY <2>2, <2>3, <1>6, <1>7, <1>8, i + k = i DEF LinksOfCut
  <2>4. CASE k # 0
    <3>1. i + k # i /\ i + k # 0
      BY <2>4, <1>6
    <3>2. /\ m.next[pl(i + k)] = pl(i + k + 1) /\ m.prev[pl(i + k + 1)] = pl(i + k)
          /\ pl(i + k) \in Nodes /\ pl(i + k + 1) \in Nodes /\ g \in Nodes /\ h \in Nodes
          /\ g # pl(i + k) /\ g # pl(i + k + 1) /\ pl(i + k) # h
          /\ pl(i + k) # pl(i) /\ pl(i + k + 1) # pl(i + 1) /\ pl(i + k + 1) # pl(1)
      BY <2>2, <3>1, <1>8
    <3>3. QED
      BY <2>2, <2>4, <3>2, <1>7 DEF LinksOfCut
  <2>5. QED
    BY <2>3, <2>4
<1>11. Alike(m, n, Members(h, s) \union {g})
  <2>1. /\ h \in Members(h, s) /\ pl(i) \in Members(h, s) /\ pl(1) \in Members(h, s)
        /\ pl(i + 1) \in Members(h, s)
    BY <1>1, <1>6 DEF Members
  <2>2. QED
    BY <2>1, <1>7 DEF Alike, LinksOfCut
<1>12. QED
  BY <1>7, <1>9, <1>10, <1>11 DEF LinksOfCut

(* A ring of at least one node goes between the places i and i + 1 of      *)
(* another.                                                                *)
Joined(s, i, t, u) ==
  /\ i \in 0..Len(s) /\ u \in Seq(Nodes) /\ Len(u) = Len(s) + Len(t)
  /\ \A j \in 1..(Len(s) + Len(t)) :
       u[j] = IF j <= i THEN s[j] ELSE IF j <= i + Len(t) THEN t[j - i] ELSE s[j - Len(t)]
LEMMA RingOfSpliced ==
  ASSUME NEW m \in Memory, NEW h, NEW s, Proper(h, s), Ring(m, h, s),
         NEW g, NEW t, Proper(g, t), Ring(m, g, t), Len(t) # 0,
         Members(h, s) \intersect Members(g, t) = {},
         NEW i, NEW u, Joined(s, i, t, u),
         NEW n, n = splice_between(m, g, Place(h, s, i), Place(h, s, i + 1))
  PROVE  /\ n \in Memory
         /\ Proper(h, u) /\ Ring(n, h, u)
         /\ Members(h, u) = Members(h, s) \union ToSet(t)
         /\ Alike(m, n, Members(h, u))
<1> DEFINE len == Len(s)
           more == Len(t)
           pl(j) == Place(h, s, j)
           in(j) == Place(g, t, j)
<1>1. /\ len \in Nat /\ DOMAIN s = 1..len /\ pl(0) = h /\ pl(len + 1) = h
      /\ \A j \in 1..len : pl(j) = s[j]
      /\ \A j \in Int : pl(j) \in Nodes /\ pl(j) \in Members(h, s)
      /\ \A j, k \in 0..len : pl(j) = pl(k) => j = k
      /\ \A j, k \in 1..(len + 1) : pl(j) = pl(k) => j = k
  BY Places
<1>2. /\ more \in Nat /\ DOMAIN t = 1..more /\ in(0) = g /\ in(more + 1) = g
      /\ \A j \in 1..more : in(j) = t[j]
      /\ \A j \in Int : in(j) \in Nodes /\ in(j) \in Members(g, t)
      /\ \A j, k \in 0..more : in(j) = in(k) => j = k
      /\ \A j, k \in 1..(more + 1) : in(j) = in(k) => j = k
  BY Places
<1>3. \A j, k \in Int : pl(j) # in(k)
  BY <1>1, <1>2
<1>4. \A j \in 0..len : m.next[pl(j)] = pl(j + 1) /\ m.prev[pl(j + 1)] = pl(j)
  BY DEF Ring
<1>5. \A j \in 0..more : m.next[in(j)] = in(j + 1) /\ m.prev[in(j + 1)] = in(j)
  BY DEF Ring
<1>6. /\ len = Len(s) /\ more = Len(t) /\ more > 0 /\ i \in 0..len
      /\ u \in Seq(Nodes) /\ Len(u) = len + more /\ DOMAIN u = 1..(len + more)
      /\ \A j \in 1..(len + more) :
           u[j] = IF j <= i THEN s[j] ELSE IF j <= i + more THEN t[j - i] ELSE s[j - more]
  BY <1>1, <1>2 DEF Joined
<1>7. \A j \in 0..(len + more + 1) :
        Place(h, u, j) = IF j <= i THEN pl(j) ELSE IF j <= i + more THEN in(j - i)
                         ELSE pl(j - more)
  <2>1. \A j \in 0..(len + more + 1) : Place(h, u, j) = IF j \in 1..(len + more) THEN u[j] ELSE h
    BY <1>6 DEF Place
  <2> HIDE DEF pl, in, len, more
  <2>2. SUFFICES ASSUME NEW j \in 0..(len + more + 1)
                 PROVE  Place(h, u, j) = IF j <= i THEN pl(j) ELSE IF j <= i + more THEN in(j - i)
                                         ELSE pl(j - more)
    OBVIOUS
  <2>3. CASE j = 0 \/ j = len + more + 1
    BY <2>1, <2>3, <1>1, <1>2, <1>6
  <2>4. CASE j \in 1..(len + more)
    <3>1. Place(h, u, j) = u[j]
      BY <2>1, <2>4
    <3>2. CASE j <= i
      BY <3>1, <3>2, <2>4, <1>1, <1>6
    <3>3. CASE j > i /\ j <= i + more
      BY <3>1, <3>3, <2>4, <1>1, <1>2, <1>6, j - i \in 1..more
    <3>4. CASE j > i + more
      BY <3>1, <3>4, <2>4, <1>1, <1>2, <1>6, j - more \in 1..len
    <3>5. QED
      BY <3>2, <3>3, <3>4, <2>4, <1>1, <1>2, <1>6
  <2>5. QED
    BY <2>3, <2>4, <1>1, <1>2
<1> HIDE DEF pl, in, len, more
<1>8. LinksOfSplice(m, n, pl(i), pl(i + 1), in(1), in(more))
  <2>1. /\ m.next[g] = in(1) /\ m.prev[g] = in(more) /\ g \in Nodes
        /\ in(1) \in Nodes /\ in(more) \in Nodes
    BY <1>2, <1>5, 0 \in 0..more, 0 + 1 = 1, more \in 0..more
  <2>2. pl(i) \in Nodes /\ pl(i + 1) \in Nodes /\ n = splice_between(m, g, pl(i), pl(i + 1))
    BY <1>1, <1>6 DEF pl
  <2>3. QED
    BY <2>1, <2>2, SetsLinksOfSplice
<1>9. Ring(n, h, u)
  <2>1. SUFFICES ASSUME NEW k \in 0..(len + more)
                 PROVE  /\ n.next[Place(h, u, k)] = Place(h, u, k + 1)
                        /\ n.prev[Place(h, u, k + 1)] = Place(h, u, k)
    BY <1>6 DEF Ring
  <2>2. /\ k \in 0..(len + more + 1) /\ k + 1 \in 0..(len + more + 1)
        /\ i \in Int /\ i + 1 \in Int /\ 1 \in Int /\ more \in Int
        /\ pl(i) \in Nodes /\ pl(i + 1) \in Nodes /\ in(1) \in Nodes /\ in(more) \in Nodes
    BY <1>1, <1>2, <1>6
  <2>3. CASE k < i
    <3>1. Place(h, u, k) = pl(k) /\ Place(h, u, k + 1) = pl(k + 1)
      BY <2>2, <2>3, <1>7
    <3>2. /\ k \in 0..len /\ k + 1 \in Int /\ pl(k) \in Nodes /\ pl(k + 1) \in Nodes
          /\ m.next[pl(k)] = pl(k + 1) /\ m.prev[pl(k + 1)] = pl(k)
      BY <2>3, <1>1, <1>4, <1>6
    <3>3. pl(k) # pl(i) /\ pl(k + 1) # pl(i + 1)
      BY <2>3, <1>1, <1>6
    <3>4. pl(k) # in(more) /\ pl(k + 1) # in(1)
      BY <2>2, <3>2, <1>3
    <3>5. QED
      BY <3>1, <3>2, <3>3, <3>4, <1>8 DEF LinksOfSplice
  <2>4. CASE k = i
    <3>1. Place(h, u, k) = pl(i) /\ Place(h, u, k + 1) = in(1)
      BY <2>2, <2>4, <1>2, <1>6, <1>7, k + 1 - i = 1
    <3>2. pl(i) # in(more) /\ in(1) # pl(i + 1)
      BY <2>2, <1>3
    <3>3. QED
      BY <3>1, <3>2, <2>2, <1>8 DEF LinksOfSplice
  <2>5. CASE i < k /\ k < i + more
    <3>0. /\ ~(k <= i) /\ k <= i + more /\ ~(k + 1 <= i) /\ k + 1 <= i + more
          /\ k + 1 - i = (k - i) + 1
      BY <2>2, <2>5, <1>2, <1>6
    <3>1. Place(h, u, k) = in(k - i) /\ Place(h, u, k + 1) = in((k - i) + 1)
      BY <3>0, <2>2, <1>7
    <3>2. /\ k - i \in 1..(more - 1) /\ k - i \in 0..more /\ (k - i) + 1 \in 1..(more + 1)
          /\ 1 \in 1..(more + 1) /\ more \in 0..more
      BY <2>5, <1>1, <1>2, <1>6
    <3>3. /\ in(k - i) \in Nodes /\ in((k - i) + 1) \in Nodes
          /\ m.next[in(k - i)] = in((k - i) + 1) /\ m.prev[in((k - i) + 1)] = in(k - i)
      BY <3>2, <1>2, <1>5
    <3>4. in(k - i) # in(more) /\ in((k - i) + 1) # in(1)
      BY <3>2, <1>2
    <3>5. in(k - i) # pl(i) /\ in((k - i) + 1) # pl(i + 1)
      BY <2>2, <3>2, <1>3
    <3>6. QED
      BY <3>1, <3>3, <3>4, <3>5, <1>8 DEF LinksOfSplice
  <2>6. CASE k = i + more
    <3>1. Place(h, u, k) = in(more) /\ Place(h, u, k + 1) = pl(i + 1)
      BY <2>2, <2>6, <1>2, <1>6, <1>7, k - i = more, k + 1 - more = i + 1
    <3>2. QED
      BY <3>1, <2>2, <1>8 DEF LinksOfSplice
  <2>7. CASE k > i + more
    <3>0. /\ ~(k <= i) /\ ~(k <= i + more) /\ ~(k + 1 <= i) /\ ~(k + 1 <= i + more)
          /\ k + 1 - more = (k - more) + 1
      BY <2>2, <2>7, <1>1, <1>2, <1>6
    <3>1. Place(h, u, k) = pl(k - more) /\ Place(h, u, k + 1) = pl((k - more) + 1)
      BY <3>0, <2>2, <1>7
    <3>2. /\ k - more \in 0..len /\ k - more > i /\ (k - more) + 1 \in 1..(len + 1)
          /\ i + 1 \in 1..(len + 1)
      BY <2>7, <1>1, <1>2, <1>6
    <3>3. /\ pl(k - more) \in Nodes /\ pl((k - more) + 1) \in Nodes
          /\ m.next[pl(k - more)] = pl((k - more) + 1)
          /\ m.prev[pl((k - more) + 1)] = pl(k - more)
      BY <3>2, <1>1, <1>4
    <3>4. pl(k - more) # pl(i) /\ pl((k - more) + 1) # pl(i + 1)
      BY <3>2, <1>1, <1>6, SMTT(40)
    <3>5. pl(k - more) # in(more) /\ pl((k - more) + 1) # in(1)
      BY <2>2, <3>2, <1>3
    <3>6. QED
      BY <3>1, <3>3, <3>4, <3>5, <1>8 DEF LinksOfSplice
  <2>8. QED
    <3>0. k \in Int /\ i \in Int /\ more \in Int
      BY <1>1, <1>2, <1>6
    <3>1. k < i \/ k = i \/ (i < k /\ k < i + more) \/ k = i + more \/ k > i + more
      BY <3>0
    <3>2. QED
      BY <3>1, <2>3, <2>4, <2>5, <2>6, <2>7, Zenon
<1>10. /\ s \in Seq(Nodes) /\ h \in Nodes /\ h \notin ToSet(s)
       /\ \A j, k \in 1..len : s[j] = s[k] => j = k
       /\ t \in Seq(Nodes)
       /\ \A j, k \in 1..more : t[j] = t[k] => j = k
  BY <1>1, <1>2 DEF Proper
<1>11. \A y : y \in ToSet(s) <=> \E k \in 1..len : s[k] = y
  BY <1>6, <1>10, OnSequence
<1>12. \A y : y \in ToSet(t) <=> \E k \in 1..more : t[k] = y
  BY <1>6, <1>10, OnSequence
<1>13. \A y : y \in ToSet(u) <=> \E k \in 1..(len + more) : u[k] = y
  <2>1. Len(u) = len + more /\ u \in Seq(Nodes)
    BY <1>6
  <2>2. \A y : y \in ToSet(u) <=> \E k \in 1..Len(u) : u[k] = y
    BY <2>1, OnSequence
  <2>3. QED
    BY <2>1, <2>2, Zenon
<1>14. ToSet(u) = ToSet(s) \union ToSet(t)
  <2>1. ASSUME NEW j \in 1..(len + more)
        PROVE  (\E k \in 1..len : s[k] = u[j]) \/ \E k \in 1..more : t[k] = u[j]
    <3>1. CASE j <= i
      BY <3>1, <1>1, <1>6
    <3>2. CASE j > i /\ j <= i + more
      BY <3>2, <1>1, <1>2, <1>6, j - i \in 1..more, u[j] = t[j - i]
    <3>3. CASE j > i + more
      BY <3>3, <1>1, <1>2, <1>6, j - more \in 1..len, u[j] = s[j - more]
    <3>4. j \in Int /\ i \in Int /\ more \in Int
      BY <1>1, <1>2, <1>6
    <3>5. j <= i \/ (j > i /\ j <= i + more) \/ j > i + more
      BY <3>4
    <3>6. QED
      BY <3>1, <3>2, <3>3, <3>5
  <2>2. ASSUME NEW j \in 1..len PROVE \E k \in 1..(len + more) : u[k] = s[j]
    <3>1. CASE j <= i
      BY <3>1, <1>1, <1>2, <1>6
    <3>2. CASE j > i
      BY <3>2, <1>1, <1>2, <1>6, j + more \in 1..(len + more), s[j] = u[j + more]
    <3>3. QED
      BY <3>1, <3>2, <1>1, <1>6
  <2>3. ASSUME NEW j \in 1..more PROVE \E k \in 1..(len + more) : u[k] = t[j]
    <3>1. i + j \in 1..(len + more) /\ i + j > i /\ i + j <= i + more /\ (i + j) - i = j
      BY <1>1, <1>2, <1>6
    <3>2. u[i + j] = t[j]
      BY <3>1, <1>1, <1>2, <1>6
    <3>3. QED
      BY <3>1, <3>2
  <2>4. QED
    BY <2>1, <2>2, <2>3, <1>11, <1>12, <1>13
<1>15. h \notin ToSet(t) /\ ToSet(s) \intersect ToSet(t) = {}
  BY DEF Members
<1>16. \A j \in 1..len, k \in 1..more : s[j] # t[k]
  BY <1>11, <1>12, <1>15
<1>17. Proper(h, u)
  <2>1. ASSUME NEW j \in 1..(len + more), NEW k \in 1..(len + more), u[j] = u[k], j < k
        PROVE  FALSE
    <3>1. CASE k <= i
      BY <3>1, <2>1, <1>1, <1>2, <1>6, <1>10
    <3>2. CASE j <= i /\ k > i /\ k <= i + more
      BY <3>2, <2>1, <1>1, <1>2, <1>6, <1>16, k - i \in 1..more, j \in 1..len
    <3>3. CASE j <= i /\ k > i + more
      BY <3>3, <2>1, <1>1, <1>2, <1>6, <1>10, k - more \in 1..len, j \in 1..len
    <3>4. CASE j > i /\ k <= i + more
      BY <3>4, <2>1, <1>1, <1>2, <1>6, <1>10, k - i \in 1..more, j - i \in 1..more
    <3>5. CASE j > i /\ j <= i + more /\ k > i + more
      BY <3>5, <2>1, <1>1, <1>2, <1>6, <1>16, k - more \in 1..len, j - i \in 1..more
    <3>6. CASE j > i + more
      BY <3>6, <2>1, <1>1, <1>2, <1>6, <1>10, k - more \in 1..len, j - more \in 1..len
    <3>7. QED
      BY <2>1, <3>1, <3>2, <3>3, <3>4, <3>5, <3>6, <1>1, <1>2, <1>6
  <2>2. \A j, k \in DOMAIN u : u[j] = u[k] => j = k
    BY <2>1, <1>1, <1>2, <1>6
  <2>3. QED
    BY <2>2, <1>6, <1>10, <1>14, <1>15 DEF Proper
<1>18. Members(h, u) = Members(h, s) \union ToSet(t)
  BY <1>14 DEF Members
<1>19. Alike(m, n, Members(h, u))
  <2>1. in(1) \in Members(h, u) /\ in(more) \in Members(h, u)
    BY <1>2, <1>6, <1>12, <1>18
  <2>2. pl(i) \in Members(h, u) /\ pl(i + 1) \in Members(h, u)
    BY <1>1, <1>6, <1>18
  <2>3. QED
    BY <2>1, <2>2, <1>8 DEF Alike, LinksOfSplice
<1>20. QED
  BY <1>8, <1>9, <1>17, <1>18, <1>19 DEF LinksOfSplice

-----------------------------------------------------------------------------
(* All lists.                                                              *)

(* The pointers link the lists, and no two lists have a node in common.    *)
(* This is the inductive invariant.                                        *)
Sound(m, ls) ==
  /\ m \in Memory
  /\ DOMAIN ls \subseteq Nodes
  /\ \A h \in DOMAIN ls : Proper(h, ls[h]) /\ Ring(m, h, ls[h])
  /\ \A g, h \in DOMAIN ls : g # h => Members(g, ls[g]) \intersect Members(h, ls[h]) = {}

(* No list but its own, if it has one, would miss x. *)
Outside(ls, x) == \A g \in DOMAIN ls \ {x} : x \notin Members(g, ls[g])

(* What a call does that leaves everything but T alone, and gives the      *)
(* heads in C, and only them, lists within T.                              *)
Changes(m, ls, n, ns, T, C) ==
  /\ n \in Memory /\ Alike(m, n, T)
  /\ DOMAIN ns \subseteq Nodes
  /\ \A g \in DOMAIN ns \ C :
       g \in DOMAIN ls /\ ns[g] = ls[g] /\ Members(g, ls[g]) \intersect T = {}
  /\ \A g \in DOMAIN ns \intersect C :
       Proper(g, ns[g]) /\ Ring(n, g, ns[g]) /\ Members(g, ns[g]) \subseteq T
  /\ \A g, h \in DOMAIN ns \intersect C :
       g # h => Members(g, ns[g]) \intersect Members(h, ns[h]) = {}
LEMMA StaysSound ==
  ASSUME NEW m, NEW ls, Sound(m, ls), NEW n, NEW ns, NEW T, NEW C,
         Changes(m, ls, n, ns, T, C)
  PROVE  Sound(n, ns)
<1>1. \A g \in DOMAIN ls : Proper(g, ls[g]) /\ Ring(m, g, ls[g])
  BY DEF Sound
<1>2. ASSUME NEW g \in DOMAIN ns PROVE Proper(g, ns[g]) /\ Ring(n, g, ns[g])
  <2>1. CASE g \in C
    BY <2>1 DEF Changes
  <2>2. CASE g \notin C
    <3>1. /\ Proper(g, ls[g]) /\ Ring(m, g, ls[g]) /\ ns[g] = ls[g]
          /\ Members(g, ls[g]) \intersect T = {} /\ Alike(m, n, T)
      BY <2>2, <1>1 DEF Changes
    <3>2. Ring(n, g, ls[g])
      BY <3>1, RingApart
    <3>3. QED
      BY <3>1, <3>2
  <2>3. QED
    BY <2>1, <2>2
<1>3. ASSUME NEW g \in DOMAIN ns, NEW h \in DOMAIN ns, g # h
      PROVE  Members(g, ns[g]) \intersect Members(h, ns[h]) = {}
  <2>1. \A a, b \in DOMAIN ls : a # b => Members(a, ls[a]) \intersect Members(b, ls[b]) = {}
    BY DEF Sound
  <2>2. CASE g \in C /\ h \in C
    BY <2>2, <1>3 DEF Changes
  <2>3. CASE g \in C /\ h \notin C
    BY <2>3 DEF Changes
  <2>4. CASE g \notin C /\ h \in C
    BY <2>4 DEF Changes
  <2>5. CASE g \notin C /\ h \notin C
    BY <2>5, <2>1, <1>3 DEF Changes
  <2>6. QED
    BY <2>2, <2>3, <2>4, <2>5
<1>4. QED
  BY <1>2, <1>3 DEF Sound, Changes

LEMMA Apartness ==
  ASSUME NEW m, NEW ls, Sound(m, ls), NEW h \in DOMAIN ls
  PROVE  /\ h \in Nodes /\ Proper(h, ls[h]) /\ Ring(m, h, ls[h]) /\ m \in Memory
         /\ \A g \in DOMAIN ls \ {h} : Members(g, ls[g]) \intersect Members(h, ls[h]) = {}
         /\ \A g \in DOMAIN ls : g \in Members(g, ls[g])
BY DEF Sound, Members

LEMMA Initialised ==
  ASSUME NEW m, NEW ls, Sound(m, ls), NEW x \in Nodes, Outside(ls, x),
         NEW ns, DOMAIN ns = DOMAIN ls \union {x}, ns[x] = <<>>,
         \A g \in DOMAIN ls \ {x} : ns[g] = ls[g]
  PROVE  Sound(INIT_LIST_HEAD(m, x), ns)
<1> DEFINE n == INIT_LIST_HEAD(m, x)
<1>1. m \in Memory /\ DOMAIN ns \subseteq Nodes
  BY DEF Sound
<1>2. n \in Memory /\ n.next[x] = x /\ n.prev[x] = x /\ Alike(m, n, {x})
  BY <1>1, SetsLinksToItself
<1> HIDE DEF n
<1>3. Proper(x, ns[x]) /\ Ring(n, x, ns[x]) /\ Members(x, ns[x]) = {x}
  BY <1>2, RingOfNone
<1>4. \A g \in DOMAIN ns \ {x} :
        g \in DOMAIN ls /\ ns[g] = ls[g] /\ Members(g, ls[g]) \intersect {x} = {}
  BY DEF Outside
<1>5. \A g \in DOMAIN ns \intersect {x} :
        Proper(g, ns[g]) /\ Ring(n, g, ns[g]) /\ Members(g, ns[g]) \subseteq {x}
  BY <1>3
<1>6. Changes(m, ls, n, ns, {x}, {x})
  BY <1>1, <1>2, <1>4, <1>5 DEF Changes
<1>7. QED
  BY <1>6, StaysSound DEF n

(* Nothing that is written into a node outside of all lists matters. *)
LEMMA Scribbled ==
  ASSUME NEW m, NEW ls, Sound(m, ls), NEW x, Outside(ls, x), x \notin DOMAIN ls,
         NEW n \in Memory, Alike(m, n, {x})
  PROVE  Sound(n, ls)
<1>1. \A g \in DOMAIN ls \ {} :
        g \in DOMAIN ls /\ ls[g] = ls[g] /\ Members(g, ls[g]) \intersect {x} = {}
  BY DEF Outside
<1>2. DOMAIN ls \subseteq Nodes
  BY DEF Sound
<1>3. Changes(m, ls, n, ls, {x}, {})
  BY <1>1, <1>2 DEF Changes
<1>4. QED
  BY <1>3, StaysSound

LEMMA Added ==
  ASSUME NEW m, NEW ls, Sound(m, ls), NEW x \in Nodes, Outside(ls, x),
         NEW h \in DOMAIN ls, h # x,
         NEW ns, DOMAIN ns = DOMAIN ls \ {x}, NEW i, Inserted(ls[h], i, x, ns[h]),
         \A g \in DOMAIN ns \ {h} : ns[g] = ls[g],
         NEW n, n = list_add_between(m, x, Place(h, ls[h], i), Place(h, ls[h], i + 1))
  PROVE  Sound(n, ns)
<1> DEFINE s == ls[h]
           t == ns[h]
<1>1. /\ m \in Memory /\ Proper(h, s) /\ Ring(m, h, s) /\ x \notin Members(h, s)
      /\ \A g \in DOMAIN ls \ {h} : Members(g, ls[g]) \intersect Members(h, s) = {}
  BY Apartness DEF Outside
<1>2. /\ n \in Memory
      /\ Proper(h, t) /\ Ring(n, h, t)
      /\ Members(h, t) = Members(h, s) \union {x}
      /\ Alike(m, n, Members(h, t))
  <2> HIDE DEF s, t
  <2>1. Inserted(s, i, x, t) /\ n = list_add_between(m, x, Place(h, s, i), Place(h, s, i + 1))
    BY DEF s, t
  <2>2. QED
    BY <1>1, <2>1, RingOfAdded
<1>3. \A g \in DOMAIN ns \ {h} :
        g \in DOMAIN ls /\ ns[g] = ls[g] /\ Members(g, ls[g]) \intersect Members(h, t) = {}
  BY <1>1, <1>2 DEF Outside
<1>4. \A g \in DOMAIN ns \intersect {h} :
        Proper(g, ns[g]) /\ Ring(n, g, ns[g]) /\ Members(g, ns[g]) \subseteq Members(h, t)
  BY <1>2
<1>5. DOMAIN ns \subseteq Nodes
  BY DEF Sound
<1> HIDE DEF t
<1>6. Changes(m, ls, n, ns, Members(h, t), {h})
  BY <1>2, <1>3, <1>4, <1>5 DEF Changes
<1>7. QED
  BY <1>6, StaysSound

LEMMA Removed ==
  ASSUME NEW m, NEW ls, Sound(m, ls), NEW h \in DOMAIN ls, NEW i \in DOMAIN ls[h]
  PROVE  LET x == ls[h][i]
             ns == [ls EXCEPT ![h] = RemoveAt(@, i)]
         IN /\ Sound(list_del_entry(m, x), ns)
            /\ x \in Nodes /\ x \notin DOMAIN ls /\ Outside(ns, x)
<1> DEFINE s == ls[h]
           x == s[i]
           t == RemoveAt(s, i)
           n == list_del_entry(m, x)
           ns == [ls EXCEPT ![h] = t]
<1>1. /\ m \in Memory /\ Proper(h, s) /\ Ring(m, h, s)
      /\ \A g \in DOMAIN ls \ {h} : Members(g, ls[g]) \intersect Members(h, s) = {}
      /\ \A g \in DOMAIN ls : g \in Members(g, ls[g])
  BY Apartness
<1>2. i \in 1..Len(s)
  BY <1>1, Places
<1>3. /\ n \in Memory /\ Proper(h, t) /\ Ring(n, h, t)
      /\ Members(h, t) = Members(h, s) \ {x}
      /\ x \in Nodes /\ x # h
      /\ Alike(m, n, Members(h, t))
  <2> HIDE DEF s
  <2>1. QED
    BY <1>1, <1>2, RingOfOthers
<1>4. x \in Members(h, s)
  BY DEF Members, ToSet
<1>5. DOMAIN ns = DOMAIN ls /\ ns[h] = t /\ \A g \in DOMAIN ls \ {h} : ns[g] = ls[g]
  OBVIOUS
<1> HIDE DEF x, t, n, ns
<1>6. \A g \in DOMAIN ns \ {h} :
        g \in DOMAIN ls /\ ns[g] = ls[g] /\ Members(g, ls[g]) \intersect Members(h, t) = {}
  BY <1>1, <1>3, <1>5
<1>7. \A g \in DOMAIN ns \intersect {h} :
        Proper(g, ns[g]) /\ Ring(n, g, ns[g]) /\ Members(g, ns[g]) \subseteq Members(h, t)
  BY <1>3, <1>5
<1>8. DOMAIN ns \subseteq Nodes
  BY <1>5 DEF Sound
<1>9. Sound(n, ns)
  <2>1. Changes(m, ls, n, ns, Members(h, t), {h})
    BY <1>3, <1>6, <1>7, <1>8 DEF Changes
  <2>2. QED
    BY <2>1, StaysSound
<1>10. x \notin DOMAIN ls
  BY <1>1, <1>3, <1>4
<1>11. Outside(ns, x)
  BY <1>1, <1>3, <1>4, <1>5 DEF Outside
<1>12. QED
  BY <1>3, <1>9, <1>10, <1>11 DEF x, t, n, ns

LEMMA Replaced ==
  ASSUME NEW m, NEW ls, Sound(m, ls), NEW new \in Nodes, Outside(ls, new),
         NEW h \in DOMAIN ls, h # new, NEW i \in DOMAIN ls[h],
         NEW ns, DOMAIN ns = DOMAIN ls \ {new}, ns[h] = [ls[h] EXCEPT ![i] = new],
         \A g \in DOMAIN ns \ {h} : ns[g] = ls[g]
  PROVE  /\ Sound(list_replace(m, ls[h][i], new), ns)
         /\ ls[h][i] \in Nodes /\ ls[h][i] \notin DOMAIN ls /\ Outside(ns, ls[h][i])
<1> DEFINE s == ls[h]
           old == s[i]
           t == [s EXCEPT ![i] = new]
           n == list_replace(m, old, new)
<1>1. /\ m \in Memory /\ Proper(h, s) /\ Ring(m, h, s) /\ new \notin Members(h, s)
      /\ \A g \in DOMAIN ls \ {h} : Members(g, ls[g]) \intersect Members(h, s) = {}
      /\ \A g \in DOMAIN ls : g \in Members(g, ls[g])
  BY Apartness DEF Outside
<1>2. i \in 1..Len(s)
  BY <1>1, Places
<1>3. /\ n \in Memory /\ Proper(h, t) /\ Ring(n, h, t)
      /\ Members(h, t) = (Members(h, s) \ {old}) \union {new}
      /\ old \in Nodes /\ old # h
      /\ Alike(m, n, Members(h, t))
  <2> HIDE DEF s
  <2>1. n \in Memory /\ Proper(h, t) /\ Ring(n, h, t) /\ Alike(m, n, Members(h, t))
    BY <1>1, <1>2, RingOfReplaced
  <2>2. Members(h, t) = (Members(h, s) \ {old}) \union {new}
    BY <1>1, <1>2, RingOfReplaced
  <2>3. old \in Nodes /\ old # h
    BY <1>1, <1>2 DEF Proper, ToSet
  <2>4. QED
    BY <2>1, <2>2, <2>3
<1>4. old \in Members(h, s) /\ old # new
  <2>1. old \in Members(h, s)
    BY DEF Members, ToSet
  <2>2. QED
    BY <2>1, <1>1
<1>5. ns[h] = t
  OBVIOUS
<1> HIDE DEF old, t, n, s
<1>6. \A g \in DOMAIN ns \ {h} :
        g \in DOMAIN ls /\ ns[g] = ls[g] /\ Members(g, ls[g]) \intersect Members(h, t) = {}
  BY <1>1, <1>3 DEF Outside
<1>7. \A g \in DOMAIN ns \intersect {h} :
        Proper(g, ns[g]) /\ Ring(n, g, ns[g]) /\ Members(g, ns[g]) \subseteq Members(h, t)
  BY <1>3, <1>5
<1>8. DOMAIN ns \subseteq Nodes
  BY DEF Sound
<1>9. Sound(n, ns)
  <2>1. Changes(m, ls, n, ns, Members(h, t), {h})
    BY <1>3, <1>6, <1>7, <1>8 DEF Changes
  <2>2. QED
    BY <2>1, StaysSound
<1>10. old \notin DOMAIN ls
  BY <1>1, <1>3, <1>4
<1>11. Outside(ns, old)
  BY <1>1, <1>3, <1>4, <1>5, <1>6 DEF Outside
<1>12. QED
  BY <1>3, <1>9, <1>10, <1>11 DEF old, n, s

LEMMA HeadReplaced ==
  ASSUME NEW m, NEW ls, Sound(m, ls), NEW new \in Nodes, Outside(ls, new),
         NEW old \in DOMAIN ls, old # new,
         NEW ns, DOMAIN ns = (DOMAIN ls \ {old}) \union {new}, ns[new] = ls[old],
         \A g \in DOMAIN ns \ {new} : ns[g] = ls[g]
  PROVE  /\ Sound(list_replace(m, old, new), ns)
         /\ old \in Nodes /\ old \notin DOMAIN ns /\ Outside(ns, old)
<1> DEFINE s == ls[old]
           n == list_replace(m, old, new)
<1>1. /\ m \in Memory /\ Proper(old, s) /\ Ring(m, old, s) /\ new \notin Members(old, s)
      /\ \A g \in DOMAIN ls \ {old} : Members(g, ls[g]) \intersect Members(old, s) = {}
      /\ old \in Nodes
  BY Apartness DEF Outside
<1>2. old \notin ToSet(s)
  BY <1>1 DEF Proper
<1> HIDE DEF s
<1>3. /\ n \in Memory /\ Proper(new, s) /\ Ring(n, new, s)
      /\ Alike(m, n, Members(new, s) \union {old})
  BY <1>1, RingOfOtherHead
<1> HIDE DEF n
<1>4. /\ Members(old, s) = {old} \union ToSet(s)
      /\ Members(new, s) = {new} \union ToSet(s)
  BY DEF Members
<1>5. \A g \in DOMAIN ns \ {new} :
        /\ g \in DOMAIN ls /\ ns[g] = ls[g]
        /\ Members(g, ls[g]) \intersect (Members(new, s) \union {old}) = {}
  BY <1>1, <1>4 DEF Outside
<1>6. \A g \in DOMAIN ns \intersect {new} :
        /\ Proper(g, ns[g]) /\ Ring(n, g, ns[g])
        /\ Members(g, ns[g]) \subseteq Members(new, s) \union {old}
  BY <1>3 DEF s
<1>7. DOMAIN ns \subseteq Nodes
  BY DEF Sound
<1>8. Sound(n, ns)
  <2>1. Changes(m, ls, n, ns, Members(new, s) \union {old}, {new})
    BY <1>3, <1>5, <1>6, <1>7 DEF Changes
  <2>2. QED
    BY <2>1, StaysSound
<1>9. Outside(ns, old)
  <2>1. old \notin Members(new, ns[new])
    BY <1>2, <1>4 DEF s
  <2>2. QED
    BY <2>1, <1>5 DEF Outside
<1>10. QED
  BY <1>1, <1>8, <1>9 DEF n

LEMMA Cut ==
  ASSUME NEW m, NEW ls, Sound(m, ls), NEW g \in DOMAIN ls, NEW h \in DOMAIN ls, g # h,
         NEW i \in DOMAIN ls[h],
         NEW ns, DOMAIN ns = DOMAIN ls, ns[g] = SubSeq(ls[h], 1, i),
         ns[h] = SubSeq(ls[h], i + 1, Len(ls[h])),
         \A k \in DOMAIN ls \ {g, h} : ns[k] = ls[k]
  PROVE  Sound(cut_position(m, g, h, ls[h][i]), ns)
<1> DEFINE s == ls[h]
           a == SubSeq(s, 1, i)
           b == SubSeq(s, i + 1, Len(s))
           n == cut_position(m, g, h, s[i])
           T == Members(h, s) \union {g}
<1>1. /\ m \in Memory /\ Proper(h, s) /\ Ring(m, h, s)
      /\ \A k \in DOMAIN ls \ {h} : Members(k, ls[k]) \intersect Members(h, s) = {}
      /\ \A k \in DOMAIN ls \ {g} : Members(k, ls[k]) \intersect Members(g, ls[g]) = {}
      /\ \A k \in DOMAIN ls : k \in Members(k, ls[k])
      /\ g \in Nodes
  BY Apartness
<1>2. /\ DOMAIN ns = DOMAIN ls /\ ns[g] = a /\ ns[h] = b
      /\ \A k \in DOMAIN ls \ {g, h} : ns[k] = ls[k]
  OBVIOUS
<1> HIDE DEF s
<1>3. i \in 1..Len(s) /\ s \in Seq(Nodes) /\ Len(s) \in Nat
  BY <1>1, Places DEF s, Proper
<1>4. Halves(s, i, a, b)
  <2>1. i \in 0..Len(s)
    BY <1>3
  <2>2. QED
    BY <1>3, <2>1, CutInTwo
<1>5. g \notin Members(h, s)
  BY <1>1
<1> HIDE DEF a, b
<1>6. /\ n \in Memory
      /\ Proper(g, a) /\ Ring(n, g, a)
      /\ Proper(h, b) /\ Ring(n, h, b)
      /\ Members(g, a) \intersect Members(h, b) = {}
      /\ Members(g, a) \subseteq Members(h, s) \union {g}
      /\ Members(h, b) \subseteq Members(h, s)
      /\ Alike(m, n, Members(h, s) \union {g})
  <2>1. n \in Memory /\ Ring(n, g, a) /\ Ring(n, h, b) /\ Alike(m, n, Members(h, s) \union {g})
    BY <1>1, <1>3, <1>4, <1>5, RingsOfCut
  <2>2. /\ Proper(g, a) /\ Proper(h, b)
        /\ Members(g, a) \intersect Members(h, b) = {}
    BY <1>1, <1>3, <1>4, <1>5, HalvesApart
  <2>3. Members(g, a) \subseteq Members(h, s) \union {g}
    BY <1>1, <1>3, <1>4, <1>5, HalvesApart
  <2>4. Members(h, b) \subseteq Members(h, s)
    BY <1>1, <1>3, <1>4, <1>5, HalvesApart
  <2>5. QED
    BY <2>1, <2>2, <2>3, <2>4
<1> HIDE DEF n
<1>7. \A k \in DOMAIN ns \ {g, h} :
        k \in DOMAIN ls /\ ns[k] = ls[k] /\ Members(k, ls[k]) \intersect T = {}
  BY <1>1, <1>2
<1>8. \A k \in DOMAIN ns \intersect {g, h} :
        Proper(k, ns[k]) /\ Ring(n, k, ns[k]) /\ Members(k, ns[k]) \subseteq T
  BY <1>2, <1>6
<1>9. \A j, k \in DOMAIN ns \intersect {g, h} :
        j # k => Members(j, ns[j]) \intersect Members(k, ns[k]) = {}
  BY <1>2, <1>6
<1>10. DOMAIN ns \subseteq Nodes
  BY <1>2 DEF Sound
<1>11. Changes(m, ls, n, ns, T, {g, h})
  BY <1>6, <1>7, <1>8, <1>9, <1>10 DEF Changes
<1>12. QED
  BY <1>11, StaysSound DEF n, s

(* g has lost its nodes to h, and is no head any more.                     *)
Swallowed(ls, g, h, i, ns) ==
  /\ Len(ls[g]) # 0
  /\ DOMAIN ns = DOMAIN ls \ {g}
  /\ Joined(ls[h], i, ls[g], ns[h])
  /\ \A k \in DOMAIN ns \ {h} : ns[k] = ls[k]
LEMMA Spliced ==
  ASSUME NEW m, NEW ls, Sound(m, ls), NEW g \in DOMAIN ls, NEW h \in DOMAIN ls, g # h,
         NEW i, NEW ns, Swallowed(ls, g, h, i, ns),
         NEW n, n = splice_between(m, g, Place(h, ls[h], i), Place(h, ls[h], i + 1))
  PROVE  /\ Sound(n, ns)
         /\ g \in Nodes /\ Outside(ns, g)
<1> USE DEF Swallowed
<1> DEFINE s == ls[h]
           t == ls[g]
           u == ns[h]
<1>1. /\ m \in Memory /\ Proper(h, s) /\ Ring(m, h, s)
      /\ Proper(g, t) /\ Ring(m, g, t)
      /\ \A k \in DOMAIN ls \ {h} : Members(k, ls[k]) \intersect Members(h, s) = {}
      /\ \A k \in DOMAIN ls \ {g} : Members(k, ls[k]) \intersect Members(g, t) = {}
      /\ g \in Nodes
  BY Apartness
<1>2. Members(h, s) \intersect Members(g, t) = {}
  BY <1>1
<1>3. /\ Len(t) # 0 /\ Joined(s, i, t, u)
      /\ n = splice_between(m, g, Place(h, s, i), Place(h, s, i + 1))
  OBVIOUS
<1> HIDE DEF s, t, u
<1>4. /\ n \in Memory
      /\ Proper(h, u) /\ Ring(n, h, u)
      /\ Members(h, u) = Members(h, s) \union ToSet(t)
      /\ Alike(m, n, Members(h, u))
  BY <1>1, <1>2, <1>3, RingOfSpliced
<1>5. Members(g, t) = {g} \union ToSet(t) /\ g \notin ToSet(t)
  BY <1>1 DEF Members, Proper
<1>6. \A k \in DOMAIN ns \ {h} :
        k \in DOMAIN ls /\ ns[k] = ls[k] /\ Members(k, ls[k]) \intersect Members(h, u) = {}
  BY <1>1, <1>4, <1>5
<1>7. \A k \in DOMAIN ns \intersect {h} :
        Proper(k, ns[k]) /\ Ring(n, k, ns[k]) /\ Members(k, ns[k]) \subseteq Members(h, u)
  BY <1>4 DEF u
<1>8. DOMAIN ns \subseteq Nodes
  BY DEF Sound
<1>9. Sound(n, ns)
  <2>1. Changes(m, ls, n, ns, Members(h, u), {h})
    BY <1>4, <1>6, <1>7, <1>8 DEF Changes
  <2>2. QED
    BY <2>1, StaysSound
<1>10. Outside(ns, g)
  <2>1. g \notin Members(h, u)
    BY <1>2, <1>4, <1>5
  <2>2. QED
    BY <2>1, <1>1, <1>5, <1>6 DEF Outside, u
<1>11. QED
  BY <1>1, <1>9, <1>10

-----------------------------------------------------------------------------
(* The sequences that the comments promise.                                *)

LEMMA PutFirst ==
  ASSUME NEW s \in Seq(Nodes), NEW x \in Nodes
  PROVE  Inserted(s, 0, x, <<x>> \o s)
<1>1. /\ <<x>> \in Seq(Nodes) /\ Len(<<x>>) = 1 /\ <<x>>[1] = x /\ Len(s) \in Nat
  OBVIOUS
<1>2. /\ <<x>> \o s \in Seq(Nodes) /\ Len(<<x>> \o s) = 1 + Len(s)
      /\ \A j \in 1..(1 + Len(s)) : (<<x>> \o s)[j] = IF j <= 1 THEN <<x>>[j] ELSE s[j - 1]
  BY <1>1, ConcatProperties
<1>3. QED
  BY <1>1, <1>2 DEF Inserted

LEMMA PutLast ==
  ASSUME NEW s \in Seq(Nodes), NEW x \in Nodes
  PROVE  Inserted(s, Len(s), x, s \o <<x>>)
<1>1. /\ <<x>> \in Seq(Nodes) /\ Len(<<x>>) = 1 /\ <<x>>[1] = x /\ Len(s) \in Nat
  OBVIOUS
<1>2. /\ s \o <<x>> \in Seq(Nodes) /\ Len(s \o <<x>>) = Len(s) + 1
      /\ \A j \in 1..(Len(s) + 1) :
           (s \o <<x>>)[j] = IF j <= Len(s) THEN s[j] ELSE <<x>>[j - Len(s)]
  BY <1>1, ConcatProperties
<1>3. \A j \in 1..(Len(s) + 1) : (s \o <<x>>)[j] = IF j <= Len(s) THEN s[j] ELSE x
  <2>1. ASSUME NEW j \in 1..(Len(s) + 1), ~(j <= Len(s)) PROVE <<x>>[j - Len(s)] = x
    BY <2>1, <1>1, j - Len(s) = 1
  <2>2. QED
    BY <2>1, <1>2
<1>4. QED
  BY <1>1, <1>2, <1>3 DEF Inserted

LEMMA JoinFirst ==
  ASSUME NEW s \in Seq(Nodes), NEW t \in Seq(Nodes)
  PROVE  Joined(s, 0, t, t \o s)
<1>1. /\ Len(s) \in Nat /\ Len(t) \in Nat
      /\ t \o s \in Seq(Nodes) /\ Len(t \o s) = Len(t) + Len(s)
      /\ \A j \in 1..(Len(t) + Len(s)) :
           (t \o s)[j] = IF j <= Len(t) THEN t[j] ELSE s[j - Len(t)]
  BY ConcatProperties
<1>2. QED
  BY <1>1 DEF Joined

LEMMA JoinLast ==
  ASSUME NEW s \in Seq(Nodes), NEW t \in Seq(Nodes)
  PROVE  Joined(s, Len(s), t, s \o t)
<1>1. /\ Len(s) \in Nat /\ Len(t) \in Nat
      /\ s \o t \in Seq(Nodes) /\ Len(s \o t) = Len(s) + Len(t)
      /\ \A j \in 1..(Len(s) + Len(t)) :
           (s \o t)[j] = IF j <= Len(s) THEN s[j] ELSE t[j - Len(s)]
  BY ConcatProperties
<1>2. QED
  BY <1>1 DEF Joined

LEMMA RotatedSequence ==
  ASSUME NEW s \in Seq(Nodes), s # <<>>
  PROVE  LET rest == RemoveAt(s, 1)
         IN Inserted(rest, Len(rest), s[1], Tail(s) \o <<Head(s)>>)
<1> DEFINE rest == RemoveAt(s, 1)
           end == Tail(s)
<1>1. Len(s) \in Nat /\ Len(s) # 0 /\ 1 \in DOMAIN s /\ Head(s) = s[1] /\ s[1] \in Nodes
  OBVIOUS
<1>2. /\ rest \in Seq(Nodes) /\ Len(rest) = Len(s) - 1
      /\ \A j \in 1..(Len(s) - 1) : rest[j] = IF j < 1 THEN s[j] ELSE s[j + 1]
  BY <1>1, RemoveAtSeq
<1>3. /\ end \in Seq(Nodes) /\ Len(end) = Len(s) - 1
      /\ \A j \in 1..(Len(s) - 1) : end[j] = s[j + 1]
  BY <1>1
<1> HIDE DEF rest, end
<1>4. Inserted(end, Len(end), s[1], end \o <<Head(s)>>)
  BY <1>1, <1>3, PutLast
<1>5. Inserted(rest, Len(rest), s[1], end \o <<Head(s)>>)
  <2>1. \A j \in 1..(Len(s) - 1) : rest[j] = end[j]
    BY <1>1, <1>2, <1>3
  <2>2. QED
    BY <2>1, <1>1, <1>2, <1>3, <1>4 DEF Inserted
<1>6. QED
  BY <1>5 DEF rest, end

-----------------------------------------------------------------------------
(* The calls.                                                              *)

LEMMA Ends ==
  ASSUME NEW m, NEW h, NEW s, Proper(h, s), Ring(m, h, s)
  PROVE  /\ s \in Seq(Nodes) /\ Len(s) \in Nat /\ DOMAIN s = 1..Len(s)
         /\ h = Place(h, s, 0) /\ m.next[h] = Place(h, s, 1)
         /\ h = Place(h, s, Len(s) + 1) /\ m.prev[h] = Place(h, s, Len(s))
         /\ \A i \in 1..Len(s) : Place(h, s, i) = s[i] /\ s[i] # h
         /\ \A i \in 1..Len(s) : m.next[s[i]] = Place(h, s, i + 1)
         /\ \A i \in 1..Len(s) : m.prev[s[i]] = Place(h, s, i - 1)
         /\ \A i, j \in 1..Len(s) : s[i] = s[j] => i = j
<1>1. /\ Len(s) \in Nat /\ DOMAIN s = 1..Len(s)
      /\ Place(h, s, 0) = h /\ Place(h, s, Len(s) + 1) = h
      /\ \A i \in 1..Len(s) : Place(h, s, i) = s[i]
  BY Places
<1>2. \A i \in 0..Len(s) : /\ m.next[Place(h, s, i)] = Place(h, s, i + 1)
                           /\ m.prev[Place(h, s, i + 1)] = Place(h, s, i)
  BY DEF Ring
<1>3. m.next[h] = Place(h, s, 1) /\ m.prev[h] = Place(h, s, Len(s))
  BY <1>1, <1>2, 0 \in 0..Len(s), Len(s) \in 0..Len(s), 0 + 1 = 1
<1>4. ASSUME NEW i \in 1..Len(s)
      PROVE  m.next[s[i]] = Place(h, s, i + 1) /\ m.prev[s[i]] = Place(h, s, i - 1)
  BY <1>1, <1>2, i \in 0..Len(s), i - 1 \in 0..Len(s), (i - 1) + 1 = i
<1>5. \A i \in 1..Len(s) : s[i] # h
  BY <1>1 DEF Proper, ToSet
<1>6. \A i, j \in 1..Len(s) : s[i] = s[j] => i = j
  BY <1>1 DEF Proper
<1>7. s \in Seq(Nodes)
  BY DEF Proper
<1>8. QED
  BY <1>1, <1>3, <1>4, <1>5, <1>6, <1>7

LEMMA Questions ==
  ASSUME NEW m, NEW h, NEW s, Proper(h, s), Ring(m, h, s)
  PROVE  /\ list_empty(m, h) <=> s = <<>>
         /\ list_empty_careful(m, h) <=> s = <<>>
         /\ list_is_singular(m, h) <=> Len(s) = 1
         /\ list_first_entry_or_null(m, h) = IF s = <<>> THEN NULL ELSE s[1]
         /\ s # <<>> => list_first_entry(m, h) = s[1] /\ list_last_entry(m, h) = s[Len(s)]
         /\ \A i \in DOMAIN s : list_is_last(m, s[i], h) <=> i = Len(s)
<1>1. /\ Len(s) \in Nat /\ DOMAIN s = 1..Len(s) /\ (s = <<>> <=> Len(s) = 0)
      /\ h = Place(h, s, 0) /\ m.next[h] = Place(h, s, 1)
      /\ h = Place(h, s, Len(s) + 1) /\ m.prev[h] = Place(h, s, Len(s))
      /\ \A i \in 1..Len(s) : Place(h, s, i) = s[i] /\ s[i] # h
      /\ \A i \in 1..Len(s) : m.next[s[i]] = Place(h, s, i + 1)
      /\ \A i, j \in 1..Len(s) : s[i] = s[j] => i = j
  BY Ends
<1>2. CASE s = <<>>
  <2>1. m.next[h] = h /\ m.prev[h] = h /\ DOMAIN s = {}
    BY <1>1, <1>2
  <2>2. QED
    BY <2>1, <1>1, <1>2 DEF list_empty, list_empty_careful, list_is_singular,
       list_first_entry_or_null
<1>3. CASE s # <<>>
  <2>1. 1 \in 1..Len(s) /\ Len(s) \in 1..Len(s)
    BY <1>1, <1>3
  <2>2. m.next[h] = s[1] /\ m.prev[h] = s[Len(s)] /\ s[1] # h /\ s[Len(s)] # h
    BY <2>1, <1>1
  <2>3. s[1] = s[Len(s)] <=> Len(s) = 1
    BY <2>1, <1>1
  <2>4. ASSUME NEW i \in DOMAIN s PROVE m.next[s[i]] = h <=> i = Len(s)
    <3>1. CASE i = Len(s)
      BY <3>1, <1>1
    <3>2. CASE i # Len(s)
      <4>1. i \in 1..Len(s) /\ i + 1 \in 1..Len(s)
        BY <3>2, <1>1
      <4>2. QED
        BY <4>1, <3>2, <1>1
    <3>3. QED
      BY <3>1, <3>2
  <2>5. QED
    BY <2>2, <2>3, <2>4, <1>3 DEF list_empty, list_empty_careful, list_is_singular,
       list_first_entry_or_null, list_first_entry, list_last_entry, list_is_last
<1>4. QED
  BY <1>2, <1>3

LEMMA AddedFirst ==
  ASSUME NEW m, NEW ls, Sound(m, ls), NEW x \in Nodes, Outside(ls, x),
         NEW h \in DOMAIN ls, h # x,
         NEW ns, DOMAIN ns = DOMAIN ls \ {x}, ns[h] = <<x>> \o ls[h],
         \A g \in DOMAIN ns \ {h} : ns[g] = ls[g]
  PROVE  Sound(list_add(m, x, h), ns)
<1>1. Proper(h, ls[h]) /\ Ring(m, h, ls[h])
  BY Apartness
<1>2. /\ ls[h] \in Seq(Nodes) /\ h = Place(h, ls[h], 0)
      /\ m.next[h] = Place(h, ls[h], 0 + 1)
  BY <1>1, Ends, 0 + 1 = 1
<1>3. Inserted(ls[h], 0, x, ns[h])
  BY <1>2, PutFirst
<1>4. list_add(m, x, h) = list_add_between(m, x, Place(h, ls[h], 0), Place(h, ls[h], 0 + 1))
  BY <1>2, Zenon DEF list_add
<1>5. QED
  BY <1>3, <1>4, Added

LEMMA AddedLast ==
  ASSUME NEW m, NEW ls, Sound(m, ls), NEW x \in Nodes, Outside(ls, x),
         NEW h \in DOMAIN ls, h # x,
         NEW ns, DOMAIN ns = DOMAIN ls \ {x},
         Inserted(ls[h], Len(ls[h]), x, ns[h]),
         \A g \in DOMAIN ns \ {h} : ns[g] = ls[g]
  PROVE  Sound(list_add_tail(m, x, h), ns)
<1>1. Proper(h, ls[h]) /\ Ring(m, h, ls[h])
  BY Apartness
<1>2. /\ h = Place(h, ls[h], Len(ls[h]) + 1)
      /\ m.prev[h] = Place(h, ls[h], Len(ls[h]))
  BY <1>1, Ends
<1>3. list_add_tail(m, x, h)
        = list_add_between(m, x, Place(h, ls[h], Len(ls[h])), Place(h, ls[h], Len(ls[h]) + 1))
  BY <1>2, Zenon DEF list_add_tail
<1>4. QED
  BY <1>3, Added

LEMMA FreeIsOutside ==
  ASSUME NEW x, IsFree(x)
  PROVE  Outside(lists, x)
BY DEF IsFree, OnList, On, Outside, Heads, Members, ToSet

LEMMA StepOfInitialise ==
  ASSUME Sound(mem, lists), NEW x \in Nodes, Initialise(x)
  PROVE  Sound(mem, lists)'
<1>1. mem' = INIT_LIST_HEAD(mem, x) /\ lists' = Put(x, <<>>) /\ Outside(lists, x)
  BY FreeIsOutside DEF Initialise, Call
<1>2. /\ DOMAIN lists' = DOMAIN lists \union {x} /\ lists'[x] = <<>>
      /\ \A g \in DOMAIN lists \ {x} : lists'[g] = lists[g]
  BY <1>1 DEF Put, Heads
<1>3. QED
  BY <1>1, <1>2, Initialised

LEMMA StepOfAdd ==
  ASSUME Sound(mem, lists), NEW h \in Heads, NEW x \in Nodes, Add(x, h)
  PROVE  Sound(mem, lists)'
<1>1. /\ mem' = list_add(mem, x, h) /\ lists' = [Drop(x) EXCEPT ![h] = <<x>> \o @]
      /\ x # h /\ Outside(lists, x)
  BY FreeIsOutside DEF Add, Call
<1>2. /\ DOMAIN lists' = DOMAIN lists \ {x} /\ lists'[h] = <<x>> \o lists[h]
      /\ \A g \in DOMAIN lists' \ {h} : lists'[g] = lists[g]
  BY <1>1 DEF Drop, Heads
<1>3. x # h /\ Outside(lists, x) /\ h \in DOMAIN lists
  BY <1>1 DEF Heads
<1>4. Sound(list_add(mem, x, h), lists')
  BY <1>2, <1>3, AddedFirst, ZenonT(60)
<1>5. QED
  BY <1>1, <1>4

LEMMA StepOfAddTail ==
  ASSUME Sound(mem, lists), NEW h \in Heads, NEW x \in Nodes, AddTail(x, h)
  PROVE  Sound(mem, lists)'
<1>1. /\ mem' = list_add_tail(mem, x, h) /\ lists' = [Drop(x) EXCEPT ![h] = @ \o <<x>>]
      /\ x # h /\ Outside(lists, x)
  BY FreeIsOutside DEF AddTail, Call
<1>2. /\ DOMAIN lists' = DOMAIN lists \ {x} /\ lists'[h] = lists[h] \o <<x>>
      /\ \A g \in DOMAIN lists' \ {h} : lists'[g] = lists[g]
  BY <1>1 DEF Drop, Heads
<1>3. lists[h] \in Seq(Nodes)
  BY DEF Sound, Proper, Heads
<1>4. Inserted(lists[h], Len(lists[h]), x, lists'[h])
  BY <1>2, <1>3, PutLast
<1>5. x # h /\ Outside(lists, x) /\ h \in DOMAIN lists
  BY <1>1 DEF Heads
<1>6. Sound(list_add_tail(mem, x, h), lists')
  BY <1>2, <1>4, <1>5, AddedLast, ZenonT(60)
<1>7. QED
  BY <1>1, <1>6

(* What follows takes a node off its list first. *)
TakenOff(h, i) == [lists EXCEPT ![h] = RemoveAt(@, i)]
LEMMA TakesOff ==
  ASSUME Sound(mem, lists), NEW h \in Heads, NEW i \in DOMAIN lists[h]
  PROVE  /\ Sound(list_del_entry(mem, lists[h][i]), TakenOff(h, i))
         /\ Outside(TakenOff(h, i), lists[h][i])
         /\ DOMAIN TakenOff(h, i) = Heads
         /\ lists[h][i] \in Nodes /\ lists[h][i] \notin Heads
         /\ list_del_entry(mem, lists[h][i]) \in Memory
<1>1. /\ Sound(list_del_entry(mem, lists[h][i]), TakenOff(h, i))
      /\ Outside(TakenOff(h, i), lists[h][i])
      /\ lists[h][i] \in Nodes /\ lists[h][i] \notin Heads
  BY Removed DEF TakenOff, Heads
<1>2. QED
  BY <1>1 DEF TakenOff, Heads, Sound

LEMMA StepOfDelete ==
  ASSUME Sound(mem, lists), NEW h \in Heads, NEW i \in DOMAIN lists[h], Delete(h, i)
  PROVE  Sound(mem, lists)'
<1> DEFINE x == lists[h][i]
           m == list_del_entry(mem, x)
<1>1. /\ mem' = [m EXCEPT !.next[x] = LIST_POISON1, !.prev[x] = LIST_POISON2]
      /\ lists' = TakenOff(h, i)
  BY DEF Delete, Call, list_del, TakenOff
<1>2. /\ Sound(m, TakenOff(h, i)) /\ Outside(TakenOff(h, i), x)
      /\ DOMAIN TakenOff(h, i) = Heads /\ x \in Nodes /\ x \notin Heads /\ m \in Memory
  BY TakesOff
<1> HIDE DEF x, m
<1>3. mem' \in Memory /\ Alike(m, mem', {x})
  BY <1>1, <1>2 DEF Memory, Pointers, Alike
<1>4. QED
  BY <1>1, <1>2, <1>3, Scribbled

LEMMA StepOfDeleteInit ==
  ASSUME Sound(mem, lists), NEW h \in Heads, NEW i \in DOMAIN lists[h], DeleteInit(h, i)
  PROVE  Sound(mem, lists)'
<1> DEFINE x == lists[h][i]
           m == list_del_entry(mem, x)
<1>1. /\ mem' = INIT_LIST_HEAD(m, x)
      /\ lists' = [Put(x, <<>>) EXCEPT ![h] = RemoveAt(@, i)]
  BY DEF DeleteInit, Call, list_del_init
<1>2. /\ Sound(m, TakenOff(h, i)) /\ Outside(TakenOff(h, i), x)
      /\ DOMAIN TakenOff(h, i) = Heads /\ x \in Nodes /\ x \notin Heads
  BY TakesOff
<1> HIDE DEF x, m
<1>3. /\ DOMAIN lists' = DOMAIN TakenOff(h, i) \union {x} /\ lists'[x] = <<>>
      /\ \A g \in DOMAIN TakenOff(h, i) \ {x} : lists'[g] = TakenOff(h, i)[g]
  BY <1>1, <1>2 DEF Put, TakenOff, Heads
<1>4. QED
  BY <1>1, <1>2, <1>3, Initialised

LEMMA StepOfMove ==
  ASSUME Sound(mem, lists), NEW h \in Heads, NEW i \in DOMAIN lists[h], NEW g \in Heads,
         Move(h, i, g)
  PROVE  Sound(mem, lists)'
<1> DEFINE x == lists[h][i]
           m == list_del_entry(mem, x)
           off == TakenOff(h, i)
<1>1. mem' = list_add(m, x, g) /\ lists' = [off EXCEPT ![g] = <<x>> \o @]
  BY DEF Move, Call, list_move, TakenOff
<1>2. /\ Sound(m, off) /\ Outside(off, x)
      /\ DOMAIN off = Heads /\ x \in Nodes /\ x \notin Heads
  BY TakesOff
<1> HIDE DEF x, m, off
<1>3. /\ DOMAIN lists' = DOMAIN off \ {x} /\ lists'[g] = <<x>> \o off[g]
      /\ \A k \in DOMAIN lists' \ {g} : lists'[k] = off[k]
  BY <1>1, <1>2
<1>4. QED
  BY <1>1, <1>2, <1>3, AddedFirst

LEMMA StepOfMoveTail ==
  ASSUME Sound(mem, lists), NEW h \in Heads, NEW i \in DOMAIN lists[h], NEW g \in Heads,
         MoveTail(h, i, g)
  PROVE  Sound(mem, lists)'
<1> DEFINE x == lists[h][i]
           m == list_del_entry(mem, x)
           off == TakenOff(h, i)
<1>1. mem' = list_add_tail(m, x, g) /\ lists' = [off EXCEPT ![g] = @ \o <<x>>]
  BY DEF MoveTail, Call, list_move_tail, TakenOff
<1>2. /\ Sound(m, off) /\ Outside(off, x)
      /\ DOMAIN off = Heads /\ x \in Nodes /\ x \notin Heads
  BY TakesOff
<1> HIDE DEF x, m, off
<1>3. /\ DOMAIN lists' = DOMAIN off \ {x} /\ lists'[g] = off[g] \o <<x>>
      /\ \A k \in DOMAIN lists' \ {g} : lists'[k] = off[k]
  BY <1>1, <1>2
<1>4. off[g] \in Seq(Nodes)
  BY <1>2 DEF Sound, Proper
<1>5. Inserted(off[g], Len(off[g]), x, lists'[g])
  BY <1>2, <1>3, <1>4, PutLast
<1>6. QED
  BY <1>1, <1>2, <1>3, <1>5, AddedLast

LEMMA StepOfRotate ==
  ASSUME Sound(mem, lists), NEW h \in Heads, Rotate(h)
  PROVE  Sound(mem, lists)'
<1> DEFINE s == lists[h]
           x == s[1]
           m == list_del_entry(mem, x)
           off == TakenOff(h, 1)
<1>1. Proper(h, s) /\ Ring(mem, h, s)
  BY DEF Sound, Heads
<1>2. list_empty(mem, h) <=> s = <<>>
  BY <1>1, Questions
<1>3. CASE s = <<>>
  <2>1. mem' = mem /\ lists' = lists
    BY <1>2, <1>3 DEF Rotate, Call, list_rotate_left
  <2>2. QED
    BY <2>1
<1>4. CASE s # <<>>
  <2>1. s \in Seq(Nodes) /\ 1 \in DOMAIN s /\ mem.next[h] = x
    <3>1. s \in Seq(Nodes) /\ Len(s) \in Nat /\ DOMAIN s = 1..Len(s)
          /\ mem.next[h] = Place(h, s, 1) /\ \A i \in 1..Len(s) : Place(h, s, i) = s[i]
      BY <1>1, Ends
    <3>2. QED
      BY <3>1, <1>4
  <2>2. mem' = list_add_tail(m, x, h) /\ lists' = [lists EXCEPT ![h] = Tail(s) \o <<Head(s)>>]
    BY <2>1, <1>2, <1>4 DEF Rotate, Call, list_rotate_left, list_move_tail
  <2>3. /\ Sound(m, off) /\ Outside(off, x)
        /\ DOMAIN off = Heads /\ x \in Nodes /\ x \notin Heads
    BY <2>1, TakesOff
  <2>4. Inserted(off[h], Len(off[h]), x, lists'[h])
    <3>1. off[h] = RemoveAt(s, 1) /\ lists'[h] = Tail(s) \o <<Head(s)>>
      BY <2>2 DEF TakenOff, Heads
    <3>2. QED
      BY <3>1, <2>1, <1>4, RotatedSequence
  <2>5. /\ DOMAIN lists' = DOMAIN off \ {x}
        /\ \A k \in DOMAIN lists' \ {h} : lists'[k] = off[k]
    BY <2>2, <2>3 DEF TakenOff, Heads
  <2> HIDE DEF x, m, off, s
  <2>6. h \in DOMAIN off /\ h # x
    BY <2>3
  <2>7. Sound(list_add_tail(m, x, h), lists')
    BY <2>3, <2>4, <2>5, <2>6, AddedLast
  <2>8. QED
    BY <2>2, <2>7
<1>5. QED
  BY <1>3, <1>4

LEMMA StepOfReplace ==
  ASSUME Sound(mem, lists), NEW h \in Heads, NEW i \in DOMAIN lists[h], NEW new \in Nodes,
         Replace(h, i, new)
  PROVE  Sound(mem, lists)'
<1> DEFINE n == list_replace(mem, lists[h][i], new)
<1>0. mem' = n /\ new # h /\ Outside(lists, new)
  BY FreeIsOutside DEF Replace, Call
<1>1. lists' = [Drop(new) EXCEPT ![h][i] = new]
  BY DEF Replace, Call
<1>2. /\ DOMAIN lists' = DOMAIN lists \ {new} /\ lists'[h] = [lists[h] EXCEPT ![i] = new]
      /\ \A g \in DOMAIN lists' \ {h} : lists'[g] = lists[g]
  BY <1>0, <1>1 DEF Drop, Heads
<1>3. Sound(n, lists')
  BY <1>0, <1>2, Replaced DEF Heads
<1>4. QED
  BY <1>0, <1>3

LEMMA StepOfReplaceInit ==
  ASSUME Sound(mem, lists), NEW h \in Heads, NEW i \in DOMAIN lists[h], NEW new \in Nodes,
         ReplaceInit(h, i, new)
  PROVE  Sound(mem, lists)'
<1> DEFINE old == lists[h][i]
           m == list_replace(mem, old, new)
           without == [Drop(new) EXCEPT ![h] = [lists[h] EXCEPT ![i] = new]]
<1>0. mem' = INIT_LIST_HEAD(m, old)
  BY DEF ReplaceInit, Call, list_replace_init
<1>1. /\ lists' = [g \in (Heads \ {new}) \union {old} |->
                     IF g = old THEN <<>>
                     ELSE IF g = h THEN [lists[h] EXCEPT ![i] = new] ELSE lists[g]]
      /\ new # h /\ Outside(lists, new)
  BY FreeIsOutside DEF ReplaceInit, Call
<1>2. /\ DOMAIN without = DOMAIN lists \ {new}
      /\ without[h] = [lists[h] EXCEPT ![i] = new]
      /\ \A g \in DOMAIN without \ {h} : without[g] = lists[g]
  BY <1>1 DEF Drop, Heads
<1>3. /\ Sound(m, without) /\ Outside(without, old)
      /\ old \in Nodes /\ old \notin DOMAIN lists
  <2> HIDE DEF without
  <2>1. QED
    BY <1>1, <1>2, Replaced DEF Heads
<1> HIDE DEF without, m, old
<1>4. /\ DOMAIN lists' = DOMAIN without \union {old} /\ lists'[old] = <<>>
      /\ \A g \in DOMAIN without \ {old} : lists'[g] = without[g]
  BY <1>1, <1>2, <1>3 DEF Heads
<1>5. QED
  BY <1>0, <1>3, <1>4, Initialised

LEMMA StepOfReplaceHead ==
  ASSUME Sound(mem, lists), NEW old \in Heads, NEW new \in Nodes, ReplaceHead(old, new)
  PROVE  Sound(mem, lists)'
<1>1. /\ mem' = list_replace(mem, old, new)
      /\ lists' = [g \in (Heads \ {old}) \union {new} |->
                     IF g = new THEN lists[old] ELSE lists[g]]
      /\ new # old /\ Outside(lists, new)
  BY FreeIsOutside DEF ReplaceHead, Call
<1>2. /\ DOMAIN lists' = (DOMAIN lists \ {old}) \union {new} /\ lists'[new] = lists[old]
      /\ \A g \in DOMAIN lists' \ {new} : lists'[g] = lists[g]
  BY <1>1 DEF Heads
<1>3. QED
  BY <1>1, <1>2, HeadReplaced DEF Heads

LEMMA StepOfReplaceHeadInit ==
  ASSUME Sound(mem, lists), NEW old \in Heads, NEW new \in Nodes, ReplaceHeadInit(old, new)
  PROVE  Sound(mem, lists)'
<1> DEFINE m == list_replace(mem, old, new)
           without == [g \in (Heads \ {old}) \union {new} |->
                         IF g = new THEN lists[old] ELSE lists[g]]
<1>0. mem' = INIT_LIST_HEAD(m, old)
  BY DEF ReplaceHeadInit, Call, list_replace_init
<1>1. /\ lists' = [g \in Heads \union {new} |->
                     IF g = new THEN lists[old] ELSE IF g = old THEN <<>> ELSE lists[g]]
      /\ new # old /\ Outside(lists, new)
  BY FreeIsOutside DEF ReplaceHeadInit, Call
<1>2. /\ DOMAIN without = (DOMAIN lists \ {old}) \union {new} /\ without[new] = lists[old]
      /\ \A g \in DOMAIN without \ {new} : without[g] = lists[g]
  BY <1>1 DEF Heads
<1>3. /\ Sound(m, without) /\ Outside(without, old)
      /\ old \in Nodes /\ old \notin DOMAIN without
  <2> HIDE DEF without
  <2>1. QED
    BY <1>1, <1>2, HeadReplaced DEF Heads
<1> HIDE DEF without, m
<1>4. /\ DOMAIN lists' = DOMAIN without \union {old} /\ lists'[old] = <<>>
      /\ \A g \in DOMAIN without \ {old} : lists'[g] = without[g]
  BY <1>1, <1>2 DEF Heads
<1>5. QED
  BY <1>0, <1>3, <1>4, Initialised

(* The first of the cuts at nothing: the other list is emptied.            *)
LEMMA CutOfNone ==
  ASSUME Sound(mem, lists), NEW g \in Heads, NEW h \in Heads, g # h,
         mem' = INIT_LIST_HEAD(mem, g),
         lists' = [lists EXCEPT ![g] = SubSeq(lists[h], 1, 0),
                                ![h] = SubSeq(lists[h], 1, Len(lists[h]))]
  PROVE  Sound(mem, lists)'
<1> DEFINE s == lists[h]
<1>1. s \in Seq(Nodes) /\ g \in Nodes /\ Outside(lists, g)
  BY Apartness DEF Heads, Outside, Sound, Proper, Members
<1>2. SubSeq(s, 1, 0) = <<>> /\ SubSeq(s, 1, Len(s)) = s
  <2> HIDE DEF s
  <2>1. QED
    BY <1>1
<1>3. /\ DOMAIN lists' = DOMAIN lists \union {g} /\ lists'[g] = <<>>
      /\ \A k \in DOMAIN lists \ {g} : lists'[k] = lists[k]
  BY <1>2 DEF Heads
<1>4. QED
  BY <1>1, <1>3, Initialised

LEMMA StepOfCutPosition ==
  ASSUME Sound(mem, lists), NEW g \in Heads, NEW h \in Heads, NEW i \in 0..Len(lists[h]),
         CutPosition(g, h, i)
  PROVE  Sound(mem, lists)'
<1> DEFINE s == lists[h]
           entry == IF i = 0 THEN h ELSE s[i]
<1>0. mem' = list_cut_position(mem, g, h, entry) /\ g # h
  BY DEF CutPosition, Call
<1>1. lists' = IF s = <<>> THEN lists
               ELSE [lists EXCEPT ![g] = SubSeq(s, 1, i), ![h] = SubSeq(s, i + 1, Len(s))]
  BY DEF CutPosition, Call
<1>2. Proper(h, s) /\ Ring(mem, h, s)
  BY DEF Sound, Heads
<1>3. /\ list_empty(mem, h) <=> s = <<>>
      /\ list_is_singular(mem, h) <=> Len(s) = 1
  BY <1>2, Questions
<1>4. /\ Len(s) \in Nat /\ DOMAIN s = 1..Len(s)
      /\ mem.next[h] = Place(h, s, 1)
      /\ \A j \in 1..Len(s) : Place(h, s, j) = s[j] /\ s[j] # h
  BY <1>2, Ends
<1>5. CASE s = <<>>
  BY <1>0, <1>1, <1>3, <1>5 DEF list_cut_position
<1>6. CASE s # <<>> /\ i = 0
  <2>1. mem' = INIT_LIST_HEAD(mem, g)
    BY <1>0, <1>3, <1>6 DEF list_cut_position
  <2>2. lists' = [lists EXCEPT ![g] = SubSeq(s, 1, 0), ![h] = SubSeq(s, 1, Len(s))]
    BY <1>1, <1>6, 0 + 1 = 1
  <2>3. QED
    BY <2>1, <2>2, <1>0, CutOfNone
<1>7. CASE s # <<>> /\ i # 0
  <2>1. i \in DOMAIN s /\ entry = s[i] /\ entry # h
    BY <1>4, <1>7
  <2>2. list_is_singular(mem, h) => mem.next[h] = entry
    BY <2>1, <1>3, <1>4
  <2>3. mem' = cut_position(mem, g, h, s[i])
    BY <2>1, <2>2, <1>0, <1>3, <1>7 DEF list_cut_position
  <2>4. QED
    <3>1. /\ DOMAIN lists' = DOMAIN lists /\ lists'[g] = SubSeq(s, 1, i)
          /\ lists'[h] = SubSeq(s, i + 1, Len(s))
          /\ \A k \in DOMAIN lists \ {g, h} : lists'[k] = lists[k]
      BY <1>0, <1>1, <1>7 DEF Heads
    <3>2. Sound(cut_position(mem, g, h, s[i]), lists')
      BY <2>1, <3>1, <1>0, Cut DEF Heads
    <3>3. QED
      BY <2>3, <3>2
<1>8. QED
  BY <1>5, <1>6, <1>7

LEMMA StepOfCutBefore ==
  ASSUME Sound(mem, lists), NEW g \in Heads, NEW h \in Heads,
         NEW i \in 1..(Len(lists[h]) + 1), CutBefore(g, h, i)
  PROVE  Sound(mem, lists)'
<1> DEFINE s == lists[h]
           entry == IF i = Len(s) + 1 THEN h ELSE s[i]
<1>0. mem' = list_cut_before(mem, g, h, entry) /\ g # h
  BY DEF CutBefore, Call
<1>1. lists' = [lists EXCEPT ![g] = SubSeq(s, 1, i - 1), ![h] = SubSeq(s, i, Len(s))]
  BY DEF CutBefore, Call
<1>2. Proper(h, s) /\ Ring(mem, h, s)
  BY DEF Sound, Heads
<1>3. /\ Len(s) \in Nat /\ DOMAIN s = 1..Len(s)
      /\ h = Place(h, s, Len(s) + 1)
      /\ mem.next[h] = Place(h, s, 1) /\ mem.prev[h] = Place(h, s, Len(s))
      /\ \A j \in 1..Len(s) : Place(h, s, j) = s[j]
      /\ \A j \in 1..Len(s) : mem.next[s[j]] = Place(h, s, j + 1)
      /\ \A j \in 1..Len(s) : mem.prev[s[j]] = Place(h, s, j - 1)
  BY <1>2, Ends
<1>4. entry = Place(h, s, i)
  BY <1>3
<1>5. CASE i = 1
  <2>1. mem' = INIT_LIST_HEAD(mem, g)
    BY <1>0, <1>3, <1>4, <1>5 DEF list_cut_before
  <2>2. lists' = [lists EXCEPT ![g] = SubSeq(s, 1, 0), ![h] = SubSeq(s, 1, Len(s))]
    BY <1>1, <1>5, i - 1 = 0
  <2>3. QED
    BY <2>1, <2>2, <1>0, CutOfNone
<1>6. CASE i # 1
  <2>1. i - 1 \in DOMAIN s /\ (i - 1) + 1 = i
    BY <1>3, <1>6
  <2>2. mem.next[s[i - 1]] = entry
    BY <2>1, <1>3, <1>4
  <2>3. mem.prev[entry] = s[i - 1]
    <3>1. CASE i = Len(s) + 1
      BY <3>1, <2>1, <1>3
    <3>2. CASE i # Len(s) + 1
      BY <3>2, <2>1, <1>3, i \in 1..Len(s)
    <3>3. QED
      BY <3>1, <3>2
  <2>4. mem.next[h] # entry
    <3>1. Place(h, s, 1) # Place(h, s, i)
      BY <1>2, <1>3, <1>6, Places, 1 \in 1..(Len(s) + 1)
    <3>2. QED
      BY <3>1, <1>3, <1>4
  <2>5. mem' = cut_position(mem, g, h, s[i - 1])
    <3> HIDE DEF entry, s
    <3>1. QED
      BY <2>2, <2>3, <2>4, <1>0, Zenon DEF list_cut_before, cut_position
  <2>6. /\ DOMAIN lists' = DOMAIN lists /\ lists'[g] = SubSeq(s, 1, i - 1)
        /\ lists'[h] = SubSeq(s, (i - 1) + 1, Len(s))
        /\ \A k \in DOMAIN lists \ {g, h} : lists'[k] = lists[k]
    BY <2>1, <1>0, <1>1 DEF Heads
  <2>7. Sound(cut_position(mem, g, h, s[i - 1]), lists')
    BY <2>1, <2>6, <1>0, Cut DEF Heads
  <2>8. QED
    BY <2>5, <2>7
<1>7. QED
  BY <1>5, <1>6

(* The four splices.                                                       *)
LEMMA SplicesFirst ==
  ASSUME Sound(mem, lists), NEW g \in Heads, NEW h \in Heads, g # h, lists[g] # <<>>,
         NEW ns, DOMAIN ns = Heads \ {g}, ns[h] = lists[g] \o lists[h],
         \A k \in DOMAIN ns \ {h} : ns[k] = lists[k]
  PROVE  /\ Sound(splice_between(mem, g, h, mem.next[h]), ns)
         /\ g \in Nodes /\ Outside(ns, g)
<1> DEFINE s == lists[h]
           t == lists[g]
<1>1. Proper(h, s) /\ Ring(mem, h, s) /\ t \in Seq(Nodes)
  BY DEF Sound, Proper, Heads
<1>2. s \in Seq(Nodes) /\ h = Place(h, s, 0) /\ mem.next[h] = Place(h, s, 0 + 1)
  BY <1>1, Ends, 0 + 1 = 1
<1>3. Joined(s, 0, t, ns[h]) /\ Len(t) # 0
  BY <1>1, <1>2, JoinFirst
<1>4. Swallowed(lists, g, h, 0, ns)
  BY <1>3 DEF Swallowed, Heads
<1> DEFINE n == splice_between(mem, g, h, mem.next[h])
<1>5. n = splice_between(mem, g, Place(h, s, 0), Place(h, s, 0 + 1))
  BY <1>2, Zenon
<1> HIDE DEF n
<1>6. g \in DOMAIN lists /\ h \in DOMAIN lists
  BY DEF Heads
<1>7. Sound(n, ns) /\ g \in Nodes /\ Outside(ns, g)
  BY <1>4, <1>5, <1>6, Spliced
<1>8. QED
  BY <1>7 DEF n

LEMMA SplicesLast ==
  ASSUME Sound(mem, lists), NEW g \in Heads, NEW h \in Heads, g # h, lists[g] # <<>>,
         NEW ns, DOMAIN ns = Heads \ {g}, ns[h] = lists[h] \o lists[g],
         \A k \in DOMAIN ns \ {h} : ns[k] = lists[k]
  PROVE  /\ Sound(splice_between(mem, g, mem.prev[h], h), ns)
         /\ g \in Nodes /\ Outside(ns, g)
<1> DEFINE s == lists[h]
           t == lists[g]
<1>1. Proper(h, s) /\ Ring(mem, h, s) /\ t \in Seq(Nodes)
  BY DEF Sound, Proper, Heads
<1>2. s \in Seq(Nodes) /\ h = Place(h, s, Len(s) + 1) /\ mem.prev[h] = Place(h, s, Len(s))
  BY <1>1, Ends
<1>3. Joined(s, Len(s), t, ns[h]) /\ Len(t) # 0
  BY <1>1, <1>2, JoinLast
<1>4. Swallowed(lists, g, h, Len(s), ns)
  BY <1>3 DEF Swallowed, Heads
<1> DEFINE n == splice_between(mem, g, mem.prev[h], h)
<1>5. n = splice_between(mem, g, Place(h, s, Len(s)), Place(h, s, Len(s) + 1))
  BY <1>2, Zenon
<1> HIDE DEF n
<1>6. g \in DOMAIN lists /\ h \in DOMAIN lists
  BY DEF Heads
<1>7. Sound(n, ns) /\ g \in Nodes /\ Outside(ns, g)
  BY <1>4, <1>5, <1>6, Spliced
<1>8. QED
  BY <1>7 DEF n

LEMMA AskedEmpty ==
  ASSUME Sound(mem, lists), NEW g \in Heads
  PROVE  list_empty(mem, g) <=> lists[g] = <<>>
BY Questions DEF Sound, Heads

(* The list of g was empty, and nothing happens.                           *)
LEMMA SpliceOfNone ==
  ASSUME Sound(mem, lists), NEW g \in Heads, NEW h \in Heads, lists[g] = <<>>
  PROVE  lists[g] \o lists[h] = lists[h] /\ lists[h] \o lists[g] = lists[h]
<1>1. lists[h] \in Seq(Nodes)
  BY DEF Sound, Proper, Heads
<1>2. QED
  BY <1>1

LEMMA SameLists ==
  ASSUME Sound(mem, lists), mem' = mem,
         DOMAIN lists' = Heads, \A k \in Heads : lists'[k] = lists[k]
  PROVE  Sound(mem, lists)'
BY DEF Sound, Heads

LEMMA StepOfSplice ==
  ASSUME Sound(mem, lists), NEW g \in Heads, NEW h \in Heads, Splice(g, h)
  PROVE  Sound(mem, lists)'
<1>1. mem' = list_splice(mem, g, h) /\ g # h
  BY DEF Splice, Call
<1>2. lists' = [x \in Heads \ Emptied(g) |->
                  IF x = h THEN lists[g] \o lists[h] ELSE lists[x]]
  BY DEF Splice, Call
<1>3. CASE lists[g] = <<>>
  <2>1. mem' = mem
    BY <1>1, <1>3, AskedEmpty DEF list_splice
  <2>2. lists[g] \o lists[h] = lists[h] /\ lists[h] \o lists[g] = lists[h]
    BY <1>3, SpliceOfNone
  <2>3. DOMAIN lists' = Heads /\ \A k \in Heads : lists'[k] = lists[k]
    BY <2>2, <1>2, <1>3 DEF Emptied
  <2>4. QED
    BY <2>1, <2>3, SameLists
<1>4. CASE lists[g] # <<>>
  <2>1. mem' = splice_between(mem, g, h, mem.next[h])
    BY <1>1, <1>4, AskedEmpty DEF list_splice
  <2>2. /\ DOMAIN lists' = Heads \ {g} /\ lists'[h] = lists[g] \o lists[h]
        /\ \A k \in DOMAIN lists' \ {h} : lists'[k] = lists[k]
    BY <1>1, <1>2, <1>4 DEF Emptied
  <2>3. QED
    BY <2>1, <2>2, <1>1, <1>4, SplicesFirst
<1>5. QED
  BY <1>3, <1>4

LEMMA StepOfSpliceTail ==
  ASSUME Sound(mem, lists), NEW g \in Heads, NEW h \in Heads, SpliceTail(g, h)
  PROVE  Sound(mem, lists)'
<1>1. mem' = list_splice_tail(mem, g, h) /\ g # h
  BY DEF SpliceTail, Call
<1>2. lists' = [x \in Heads \ Emptied(g) |->
                  IF x = h THEN lists[h] \o lists[g] ELSE lists[x]]
  BY DEF SpliceTail, Call
<1>3. CASE lists[g] = <<>>
  <2>1. mem' = mem
    BY <1>1, <1>3, AskedEmpty DEF list_splice_tail
  <2>2. lists[g] \o lists[h] = lists[h] /\ lists[h] \o lists[g] = lists[h]
    BY <1>3, SpliceOfNone
  <2>3. DOMAIN lists' = Heads /\ \A k \in Heads : lists'[k] = lists[k]
    BY <2>2, <1>2, <1>3 DEF Emptied
  <2>4. QED
    BY <2>1, <2>3, SameLists
<1>4. CASE lists[g] # <<>>
  <2>1. mem' = splice_between(mem, g, mem.prev[h], h)
    BY <1>1, <1>4, AskedEmpty DEF list_splice_tail
  <2>2. /\ DOMAIN lists' = Heads \ {g} /\ lists'[h] = lists[h] \o lists[g]
        /\ \A k \in DOMAIN lists' \ {h} : lists'[k] = lists[k]
    BY <1>1, <1>2, <1>4 DEF Emptied
  <2>3. QED
    BY <2>1, <2>2, <1>1, <1>4, SplicesLast
<1>5. QED
  BY <1>3, <1>4

LEMMA StepOfSpliceInit ==
  ASSUME Sound(mem, lists), NEW g \in Heads, NEW h \in Heads, SpliceInit(g, h)
  PROVE  Sound(mem, lists)'
<1>1. mem' = list_splice_init(mem, g, h) /\ g # h
  BY DEF SpliceInit, Call
<1>2. lists' = [lists EXCEPT ![h] = lists[g] \o @, ![g] = <<>>]
  BY DEF SpliceInit, Call
<1>3. /\ DOMAIN lists' = Heads /\ lists'[g] = <<>> /\ lists'[h] = lists[g] \o lists[h]
      /\ \A k \in Heads \ {g, h} : lists'[k] = lists[k]
  BY <1>1, <1>2 DEF Heads
<1>4. CASE lists[g] = <<>>
  <2>1. mem' = mem
    BY <1>1, <1>4, AskedEmpty DEF list_splice_init
  <2>2. lists[g] \o lists[h] = lists[h] /\ lists[h] \o lists[g] = lists[h]
    BY <1>4, SpliceOfNone
  <2>3. DOMAIN lists' = Heads /\ \A k \in Heads : lists'[k] = lists[k]
    BY <2>2, <1>3, <1>4
  <2>4. QED
    BY <2>1, <2>3, SameLists
<1>5. CASE lists[g] # <<>>
  <2> DEFINE n == splice_between(mem, g, h, mem.next[h])
             ns == [k \in Heads \ {g} |-> lists'[k]]
  <2>1. mem' = INIT_LIST_HEAD(n, g)
    BY <1>1, <1>5, AskedEmpty DEF list_splice_init
  <2>2. /\ DOMAIN ns = Heads \ {g} /\ ns[h] = lists[g] \o lists[h]
        /\ \A k \in DOMAIN ns \ {h} : ns[k] = lists[k]
        /\ \A k \in DOMAIN ns : ns[k] = lists'[k]
    BY <1>1, <1>3
  <2> HIDE DEF ns
  <2>3. Sound(n, ns) /\ g \in Nodes /\ Outside(ns, g)
    BY <2>2, <1>1, <1>5, SplicesFirst
  <2> HIDE DEF n
  <2>4. /\ DOMAIN lists' = DOMAIN ns \union {g} /\ lists'[g] = <<>>
        /\ \A k \in DOMAIN ns \ {g} : lists'[k] = ns[k]
    BY <2>2, <1>3
  <2>5. QED
    BY <2>1, <2>3, <2>4, Initialised
<1>6. QED
  BY <1>4, <1>5

LEMMA StepOfSpliceTailInit ==
  ASSUME Sound(mem, lists), NEW g \in Heads, NEW h \in Heads, SpliceTailInit(g, h)
  PROVE  Sound(mem, lists)'
<1>1. mem' = list_splice_tail_init(mem, g, h) /\ g # h
  BY DEF SpliceTailInit, Call
<1>2. lists' = [lists EXCEPT ![h] = @ \o lists[g], ![g] = <<>>]
  BY DEF SpliceTailInit, Call
<1>3. /\ DOMAIN lists' = Heads /\ lists'[g] = <<>> /\ lists'[h] = lists[h] \o lists[g]
      /\ \A k \in Heads \ {g, h} : lists'[k] = lists[k]
  BY <1>1, <1>2 DEF Heads
<1>4. CASE lists[g] = <<>>
  <2>1. mem' = mem
    BY <1>1, <1>4, AskedEmpty DEF list_splice_tail_init
  <2>2. lists[g] \o lists[h] = lists[h] /\ lists[h] \o lists[g] = lists[h]
    BY <1>4, SpliceOfNone
  <2>3. DOMAIN lists' = Heads /\ \A k \in Heads : lists'[k] = lists[k]
    BY <2>2, <1>3, <1>4
  <2>4. QED
    BY <2>1, <2>3, SameLists
<1>5. CASE lists[g] # <<>>
  <2> DEFINE n == splice_between(mem, g, mem.prev[h], h)
             ns == [k \in Heads \ {g} |-> lists'[k]]
  <2>1. mem' = INIT_LIST_HEAD(n, g)
    BY <1>1, <1>5, AskedEmpty DEF list_splice_tail_init
  <2>2. /\ DOMAIN ns = Heads \ {g} /\ ns[h] = lists[h] \o lists[g]
        /\ \A k \in DOMAIN ns \ {h} : ns[k] = lists[k]
        /\ \A k \in DOMAIN ns : ns[k] = lists'[k]
    BY <1>1, <1>3
  <2> HIDE DEF ns
  <2>3. Sound(n, ns) /\ g \in Nodes /\ Outside(ns, g)
    BY <2>2, <1>1, <1>5, SplicesLast
  <2> HIDE DEF n
  <2>4. /\ DOMAIN lists' = DOMAIN ns \union {g} /\ lists'[g] = <<>>
        /\ \A k \in DOMAIN ns \ {g} : lists'[k] = ns[k]
    BY <2>2, <1>3
  <2>5. QED
    BY <2>1, <2>3, <2>4, Initialised
<1>6. QED
  BY <1>4, <1>5

-----------------------------------------------------------------------------
LEMMA InitSound == Init => Sound(mem, lists)
BY DEF Init, Sound, Memory, Pointers

LEMMA NextSound ==
  ASSUME Sound(mem, lists), [Next]_vars
  PROVE  Sound(mem, lists)'
<1>1. ASSUME NEW x \in Nodes, Initialise(x) PROVE Sound(mem, lists)'
  BY <1>1, StepOfInitialise
<1>2. ASSUME NEW h \in Heads, OfHead(h) PROVE Sound(mem, lists)'
  BY <1>2, StepOfRotate, StepOfAdd, StepOfAddTail, StepOfReplaceHead, StepOfReplaceHeadInit,
     StepOfSplice, StepOfSpliceTail, StepOfSpliceInit, StepOfSpliceTailInit DEF OfHead
<1>3. ASSUME NEW h \in Heads, NEW i \in DOMAIN lists[h], OfNode(h, i) PROVE Sound(mem, lists)'
  BY <1>3, StepOfDelete, StepOfDeleteInit, StepOfMove, StepOfMoveTail, StepOfReplace,
     StepOfReplaceInit DEF OfNode
<1>4. ASSUME NEW h \in Heads, NEW g \in Heads, Cuts(g, h) PROVE Sound(mem, lists)'
  BY <1>4, StepOfCutPosition, StepOfCutBefore DEF Cuts
<1>5. ASSUME LoopSteps PROVE Sound(mem, lists)'
  <2>1. UNCHANGED <<mem, lists>>
    BY <1>5 DEF LoopSteps, ForEach, ForEachFrom, Advance, LoopEnds, list_safe_reset_next
  <2>2. QED
    BY <2>1
<1>6. CASE UNCHANGED vars
  BY <1>6 DEF vars
<1>7. QED
  BY <1>1, <1>2, <1>3, <1>4, <1>5, <1>6 DEF Next

(* After any calls that keep to the comments of list_head.h, on any number *)
(* of nodes and with lists of any length, the pointers link exactly the    *)
(* lists that the comments promise, in both directions.                    *)
THEOREM ListsStayLinked == Spec => []WellLinked
<1>1. Sound(mem, lists) => WellLinked
  BY DEF Sound, WellLinked, Heads
<1>2. QED
  BY InitSound, NextSound, <1>1, PTL DEF Spec

(* The questions of list_head.h are then answered accordingly.             *)
THEOREM QuestionsAreAnswered == Spec => []QueriesAgree
<1>1. Sound(mem, lists) => QueriesAgree
  <2>1. SUFFICES ASSUME Sound(mem, lists), NEW h \in Heads
                 PROVE  Proper(h, lists[h]) /\ Ring(mem, h, lists[h])
    BY Questions DEF QueriesAgree
  <2>2. QED
    BY <2>1 DEF Sound, Heads
<1>2. QED
  BY InitSound, NextSound, <1>1, PTL DEF Spec

-----------------------------------------------------------------------------
(* Loops: a call leaves the nodes of a list that it does not move in their *)
(* order.                                                                  *)

(* x comes before y on s. *)
Before(s, x, y) == \E i, j \in DOMAIN s : i < j /\ s[i] = x /\ s[j] = y

(* Of s, t has what is not in M, in the same order. *)
Kept(s, M, t) ==
  /\ ToSet(s) \ M \subseteq ToSet(t)
  /\ \A x, y : x \notin M /\ y \notin M /\ Before(s, x, y) => Before(t, x, y)

(* f says where in t each of them is. *)
Located(s, M, t, f) ==
  /\ \A i \in 1..Len(s) : s[i] \notin M => f[i] \in 1..Len(t) /\ t[f[i]] = s[i]
  /\ \A i, j \in 1..Len(s) : i < j /\ s[i] \notin M /\ s[j] \notin M => f[i] < f[j]

LEMMA KeptAt ==
  ASSUME NEW s \in Seq(Nodes), NEW t \in Seq(Nodes), NEW M, NEW f, Located(s, M, t, f)
  PROVE  Kept(s, M, t)
<1> USE DEF Located
<1>1. DOMAIN s = 1..Len(s) /\ DOMAIN t = 1..Len(t)
  OBVIOUS
<1>2. ToSet(s) \ M \subseteq ToSet(t)
  BY <1>1, OnSequence
<1>3. ASSUME NEW x, NEW y, x \notin M, y \notin M, Before(s, x, y) PROVE Before(t, x, y)
  <2>1. PICK i \in 1..Len(s), j \in 1..Len(s) : i < j /\ s[i] = x /\ s[j] = y
    BY <1>1, <1>3 DEF Before
  <2>2. /\ f[i] \in 1..Len(t) /\ f[j] \in 1..Len(t)
        /\ f[i] < f[j] /\ t[f[i]] = x /\ t[f[j]] = y
    BY <1>3, <2>1
  <2> QED BY <1>1, <2>2 DEF Before
<1> QED BY <1>2, <1>3 DEF Kept

LEMMA KeptAll ==
  ASSUME NEW s, NEW M PROVE Kept(s, M, s)
BY DEF Kept

LEMMA KeptNone ==
  ASSUME NEW s, NEW M, ToSet(s) \subseteq M, NEW t PROVE Kept(s, M, t)
<1>1. \A x, y : Before(s, x, y) => x \in ToSet(s)
  BY DEF Before, ToSet
<1> QED BY <1>1 DEF Kept

LEMMA KeptThrough ==
  ASSUME NEW s, NEW t, NEW u, NEW M, Kept(s, M, t), Kept(t, M, u) PROVE Kept(s, M, u)
BY DEF Kept

LEMMA KeptFirst ==
  ASSUME NEW s \in Seq(Nodes), NEW t \in Seq(Nodes), NEW M
  PROVE  Kept(s, M, t \o s) /\ Kept(s, M, s \o t)
<1>1. /\ Len(s) \in Nat /\ Len(t) \in Nat
      /\ t \o s \in Seq(Nodes) /\ Len(t \o s) = Len(t) + Len(s)
      /\ \A j \in 1..(Len(t) + Len(s)) :
           (t \o s)[j] = IF j <= Len(t) THEN t[j] ELSE s[j - Len(t)]
  BY ConcatProperties
<1>2. /\ s \o t \in Seq(Nodes) /\ Len(s \o t) = Len(s) + Len(t)
      /\ \A j \in 1..(Len(s) + Len(t)) :
           (s \o t)[j] = IF j <= Len(s) THEN s[j] ELSE t[j - Len(s)]
  BY ConcatProperties
<1>3. Kept(s, M, t \o s)
  <2>1. PICK f : f = [i \in 1..Len(s) |-> Len(t) + i]
    OBVIOUS
  <2>2. PICK u \in Seq(Nodes) : u = t \o s
    BY <1>1
  <2>3. \A i \in 1..Len(s) : f[i] \in 1..Len(u) /\ u[f[i]] = s[i]
    <3> TAKE i \in 1..Len(s)
    <3>1. f[i] = Len(t) + i /\ f[i] \in 1..(Len(t) + Len(s)) /\ ~(f[i] <= Len(t)) /\ f[i] - Len(t) = i
      BY <1>1, <2>1
    <3> QED BY <1>1, <2>2, <3>1
  <2>4. \A i, j \in 1..Len(s) : i < j => f[i] < f[j]
    BY <1>1, <2>1
  <2>5. Located(s, M, u, f)
    BY <2>3, <2>4 DEF Located
  <2>6. Kept(s, M, u)
    BY <2>5, KeptAt
  <2> QED BY <2>2, <2>6
<1>4. Kept(s, M, s \o t)
  <2>1. PICK f : f = [i \in 1..Len(s) |-> i]
    OBVIOUS
  <2>2. PICK u \in Seq(Nodes) : u = s \o t
    BY <1>2
  <2>3. \A i \in 1..Len(s) : f[i] \in 1..Len(u) /\ u[f[i]] = s[i]
    BY <1>1, <1>2, <2>1, <2>2
  <2>4. \A i, j \in 1..Len(s) : i < j => f[i] < f[j]
    BY <1>1, <2>1
  <2>5. Located(s, M, u, f)
    BY <2>3, <2>4 DEF Located
  <2>6. Kept(s, M, u)
    BY <2>5, KeptAt
  <2> QED BY <2>2, <2>6
<1> QED BY <1>3, <1>4

LEMMA KeptRemoved ==
  ASSUME NEW s \in Seq(Nodes), NEW i \in DOMAIN s, NEW M, s[i] \in M
  PROVE  RemoveAt(s, i) \in Seq(Nodes) /\ Kept(s, M, RemoveAt(s, i))
<1>1. PICK t \in Seq(Nodes) :
        /\ t = RemoveAt(s, i) /\ Len(t) = Len(s) - 1
        /\ \A j \in 1..(Len(s) - 1) : t[j] = IF j < i THEN s[j] ELSE s[j + 1]
  BY RemoveAtSeq
<1>2. Len(s) \in Nat /\ i \in 1..Len(s)
  OBVIOUS
<1>3. PICK f : f = [j \in 1..Len(s) |-> IF j < i THEN j ELSE j - 1]
  OBVIOUS
<1>4. ASSUME NEW j \in 1..Len(s), s[j] \notin M PROVE f[j] \in 1..Len(t) /\ t[f[j]] = s[j]
  <2>1. CASE j < i
    BY <1>1, <1>2, <1>3, <2>1
  <2>2. CASE ~(j < i)
    <3>1. j > i /\ f[j] = j - 1 /\ j - 1 \in 1..(Len(s) - 1) /\ ~(j - 1 < i) /\ (j - 1) + 1 = j
      <4>1. j # i
        BY <1>4
      <4> QED BY <1>2, <1>3, <2>2, <4>1
    <3> QED BY <1>1, <3>1
  <2> QED BY <2>1, <2>2
<1>5. \A j, k \in 1..Len(s) : j < k /\ s[j] \notin M /\ s[k] \notin M => f[j] < f[k]
  <2> SUFFICES ASSUME NEW j \in 1..Len(s), NEW k \in 1..Len(s), j < k, s[k] \notin M
               PROVE  f[j] < f[k]
    OBVIOUS
  <2>1. k # i
    OBVIOUS
  <2> QED BY <1>2, <1>3, <2>1
<1>6. Located(s, M, t, f)
  BY <1>4, <1>5 DEF Located
<1>7. Kept(s, M, t)
  BY <1>6, KeptAt
<1> QED BY <1>1, <1>7

LEMMA KeptReplaced ==
  ASSUME NEW s \in Seq(Nodes), NEW i \in DOMAIN s, NEW M, s[i] \in M, NEW x \in Nodes
  PROVE  Kept(s, M, [s EXCEPT ![i] = x])
<1>1. DOMAIN s = 1..Len(s) /\ Len(s) \in Nat
  OBVIOUS
<1>8. LET t == [s EXCEPT ![i] = x]
      IN /\ t \in Seq(Nodes) /\ Len(t) = Len(s)
         /\ \A j \in 1..Len(s) : t[j] = IF j = i THEN x ELSE s[j]
  BY <1>1
<1>2. PICK t \in Seq(Nodes) :
        /\ t = [s EXCEPT ![i] = x]
        /\ Len(t) = Len(s) /\ \A j \in 1..Len(s) : t[j] = IF j = i THEN x ELSE s[j]
  BY <1>8
<1>3. PICK f : f = [j \in 1..Len(s) |-> j]
  OBVIOUS
<1>4. \A j \in 1..Len(s) : s[j] \notin M => f[j] \in 1..Len(t) /\ t[f[j]] = s[j]
  BY <1>2, <1>3
<1>5. \A j, k \in 1..Len(s) : j < k => f[j] < f[k]
  BY <1>3
<1>6. Located(s, M, t, f)
  BY <1>4, <1>5 DEF Located
<1>7. Kept(s, M, t)
  BY <1>6, KeptAt
<1> QED BY <1>2, <1>7

(* What is behind the first k of s, which go. *)
LEMMA KeptRest ==
  ASSUME NEW s \in Seq(Nodes), NEW k \in 0..Len(s), NEW M, \A j \in 1..k : s[j] \in M
  PROVE  SubSeq(s, k + 1, Len(s)) \in Seq(Nodes) /\ Kept(s, M, SubSeq(s, k + 1, Len(s)))
<1>1. Len(s) \in Nat /\ \A j \in (k + 1)..Len(s) : s[j] \in Nodes
  OBVIOUS
<1>2. PICK t \in Seq(Nodes) :
        /\ t = SubSeq(s, k + 1, Len(s)) /\ Len(t) = Len(s) - k
        /\ \A j \in 1..(Len(s) - k) : t[j] = s[k + j]
  BY CutInTwo DEF Halves
<1>3. PICK f : f = [j \in 1..Len(s) |-> j - k]
  OBVIOUS
<1>4. ASSUME NEW j \in 1..Len(s), s[j] \notin M PROVE f[j] \in 1..Len(t) /\ t[f[j]] = s[j]
  <2>1. j \notin 1..k
    BY <1>4
  <2>2. f[j] = j - k /\ j - k \in 1..(Len(s) - k) /\ k + (j - k) = j
    BY <1>1, <1>3, <2>1
  <2> QED BY <1>2, <2>2
<1>5. \A i, j \in 1..Len(s) : i < j => f[i] < f[j]
  BY <1>1, <1>3
<1>6. Located(s, M, t, f)
  BY <1>4, <1>5 DEF Located
<1>7. Kept(s, M, t)
  BY <1>6, KeptAt
<1> QED BY <1>2, <1>7

LEMMA KeptRotated ==
  ASSUME NEW s \in Seq(Nodes), s # <<>>, NEW M, s[1] \in M
  PROVE  Kept(s, M, Tail(s) \o <<Head(s)>>)
<1>1. 1 \in 0..Len(s) /\ Head(s) = s[1] /\ s[1] \in Nodes /\ Tail(s) \in Seq(Nodes)
  OBVIOUS
<1>2. Tail(s) = SubSeq(s, 1 + 1, Len(s))
  BY <1>1
<1>3. \A j \in 1..1 : s[j] \in M
  OBVIOUS
<1>6. Kept(s, M, Tail(s))
  BY <1>1, <1>2, <1>3, KeptRest
<1>4. <<Head(s)>> \in Seq(Nodes)
  BY <1>1
<1>5. Kept(Tail(s), M, Tail(s) \o <<Head(s)>>)
  BY <1>1, <1>4, KeptFirst
<1> QED BY <1>5, <1>6, KeptThrough

-----------------------------------------------------------------------------
(* The loop under way.                                                     *)

(* In the direction of the loop, y is behind x. *)
Follows(s, forward, x, y) == IF forward THEN Before(s, x, y) ELSE Before(s, y, x)

(* The loop is at pos: what it has to visit is behind that, and it has     *)
(* visited nothing there.                                                  *)
Stands(s, forward, pos, todo, done) ==
  /\ todo \subseteq ToSet(s) /\ done \subseteq ToSet(s) /\ pos \in ToSet(s)
  /\ \A x \in todo : Follows(s, forward, pos, x)
  /\ \A x \in done : x = pos \/ Follows(s, forward, x, pos)

(* The loop goes to n: what it has to visit is there or behind it, and it  *)
(* has visited neither.                                                    *)
Faces(head, s, forward, n, todo, done) ==
  /\ todo \subseteq ToSet(s) /\ done \subseteq ToSet(s) /\ n \in ToSet(s) \union {head}
  /\ n = head => todo = {}
  /\ n # head =>
       /\ \A x \in todo : x = n \/ Follows(s, forward, n, x)
       /\ \A x \in done : Follows(s, forward, x, n)

LoopInv ==
  /\ loop \in Loops \union {NoLoop}
  /\ Looping =>
       /\ loop.head \in Heads
       /\ loop.pos = loop.head => loop.todo = {}
       /\ loop.pos # loop.head =>
            /\ loop.kind.safe \/ loop.pinned
            /\ loop.pinned =>
                 Stands(lists[loop.head], loop.kind.forward, loop.pos, loop.todo, loop.done)
            /\ loop.kind.safe /\ ~loop.stale =>
                 Faces(loop.head, lists[loop.head], loop.kind.forward, loop.n, loop.todo, loop.done)

LEMMA BehindIt ==
  ASSUME NEW s \in Seq(Nodes), NEW i \in DOMAIN s, NEW forward \in BOOLEAN
  PROVE  /\ Behind(s, i, forward) \subseteq ToSet(s)
         /\ \A x \in Behind(s, i, forward) : Follows(s, forward, s[i], x)
<1>1. DOMAIN s = 1..Len(s) /\ i \in 1..Len(s) /\ Len(s) \in Nat
  OBVIOUS
<1>2. ASSUME NEW x \in Behind(s, i, forward)
      PROVE  \E j \in DOMAIN s : s[j] = x /\ (IF forward THEN j > i ELSE j < i)
  BY <1>1, <1>2 DEF Behind
<1>3. ASSUME NEW x \in Behind(s, i, forward)
      PROVE  x \in ToSet(s) /\ Follows(s, forward, s[i], x)
  <2>1. PICK j \in DOMAIN s : s[j] = x /\ (IF forward THEN j > i ELSE j < i)
    BY <1>2, <1>3
  <2>2. x \in ToSet(s)
    BY <2>1 DEF ToSet
  <2>3. CASE forward
    BY <1>1, <2>1, <2>2, <2>3 DEF Follows, Before
  <2>4. CASE ~forward
    BY <1>1, <2>1, <2>2, <2>4 DEF Follows, Before
  <2> QED BY <2>3, <2>4
<1> QED BY <1>3

LEMMA BehindHead ==
  ASSUME NEW s \in Seq(Nodes), NEW forward \in BOOLEAN
  PROVE  Behind(s, 0, forward) = ToSet(s)
BY DEF Behind, ToSet

(* Where the loop goes from pos. *)
LEMMA NextInLoop ==
  ASSUME NEW h, NEW s, Proper(h, s), Ring(mem, h, s), NEW forward \in BOOLEAN,
         NEW pos, NEW todo, NEW done, Stands(s, forward, pos, todo, done)
  PROVE  Faces(h, s, forward, Step(forward, pos), todo, done)
<1>1. /\ s \in Seq(Nodes) /\ Len(s) \in Nat /\ DOMAIN s = 1..Len(s)
      /\ \A i \in 1..Len(s) : s[i] # h
      /\ \A i, j \in 1..Len(s) : s[i] = s[j] => i = j
  BY Ends DEF Proper
<1>2. PICK k \in 1..Len(s) : s[k] = pos
  BY <1>1, OnSequence DEF Stands
<1>3. PICK n : n = Step(forward, pos)
  OBVIOUS
<1>4. todo \subseteq ToSet(s) /\ done \subseteq ToSet(s)
  BY DEF Stands
<1>5. CASE forward
  <2>1. n = Place(h, s, k + 1)
    BY <1>2, <1>3, <1>5, Ends DEF Step
  <2>2. ASSUME NEW x \in todo PROVE \E j \in 1..Len(s) : j > k /\ s[j] = x
    BY <1>1, <1>2, <1>5, <2>2 DEF Stands, Follows, Before
  <2>3. ASSUME NEW x \in done PROVE \E j \in 1..Len(s) : j <= k /\ s[j] = x
    BY <1>1, <1>2, <1>5, <2>3 DEF Stands, Follows, Before
  <2>4. CASE k = Len(s)
    <3>1. n = h
      BY <1>1, <2>1, <2>4 DEF Place
    <3>2. todo = {}
      BY <1>1, <2>2, <2>4
    <3> QED BY <1>3, <1>4, <3>1, <3>2 DEF Faces
  <2>5. CASE k # Len(s)
    <3>1. k + 1 \in 1..Len(s)
      <4>1. \A len \in Nat : \A j \in 1..len : j # len => j + 1 \in 1..len
        OBVIOUS
      <4>2. Len(s) \in Nat
        BY <1>1
      <4> QED BY <2>5, <4>1, <4>2
    <3>2. n = s[k + 1] /\ n # h /\ n \in ToSet(s)
      BY <1>1, <2>1, <3>1, OnSequence DEF Place
    <3>3. ASSUME NEW x \in todo PROVE x = n \/ Follows(s, forward, n, x)
      <4>1. PICK j \in 1..Len(s) : j > k /\ s[j] = x
        BY <2>2, <3>3
      <4>2. j = k + 1 \/ k + 1 < j
        BY <1>1, <4>1
      <4> QED BY <1>1, <1>5, <3>1, <3>2, <4>1, <4>2 DEF Follows, Before
    <3>4. ASSUME NEW x \in done PROVE Follows(s, forward, x, n)
      <4>1. PICK j \in 1..Len(s) : j <= k /\ s[j] = x
        BY <2>3, <3>4
      <4>2. j < k + 1
        BY <1>1, <4>1
      <4> QED BY <1>1, <1>5, <3>1, <3>2, <4>1, <4>2 DEF Follows, Before
    <3> QED BY <1>3, <1>4, <3>2, <3>3, <3>4 DEF Faces
  <2> QED BY <2>4, <2>5
<1>6. CASE ~forward
  <2>1. n = Place(h, s, k - 1)
    BY <1>2, <1>3, <1>6, Ends DEF Step
  <2>2. ASSUME NEW x \in todo PROVE \E j \in 1..Len(s) : j < k /\ s[j] = x
    BY <1>1, <1>2, <1>6, <2>2 DEF Stands, Follows, Before
  <2>3. ASSUME NEW x \in done PROVE \E j \in 1..Len(s) : j >= k /\ s[j] = x
    BY <1>1, <1>2, <1>6, <2>3 DEF Stands, Follows, Before
  <2>4. CASE k = 1
    <3>1. n = h
      BY <1>1, <2>1, <2>4 DEF Place
    <3>2. todo = {}
      BY <1>1, <2>2, <2>4
    <3> QED BY <1>3, <1>4, <3>1, <3>2 DEF Faces
  <2>5. CASE k # 1
    <3>1. k - 1 \in 1..Len(s)
      BY <1>1, <2>5
    <3>2. n = s[k - 1] /\ n # h /\ n \in ToSet(s)
      BY <1>1, <2>1, <3>1, OnSequence DEF Place
    <3>3. ASSUME NEW x \in todo PROVE x = n \/ Follows(s, forward, n, x)
      <4>1. PICK j \in 1..Len(s) : j < k /\ s[j] = x
        BY <2>2, <3>3
      <4>2. j = k - 1 \/ j < k - 1
        BY <1>1, <4>1
      <4> QED BY <1>1, <1>6, <3>1, <3>2, <4>1, <4>2 DEF Follows, Before
    <3>4. ASSUME NEW x \in done PROVE Follows(s, forward, x, n)
      <4>1. PICK j \in 1..Len(s) : j >= k /\ s[j] = x
        BY <2>3, <3>4
      <4>2. k - 1 < j
        BY <1>1, <4>1
      <4> QED BY <1>1, <1>6, <3>1, <3>2, <4>1, <4>2 DEF Follows, Before
    <3> QED BY <1>3, <1>4, <3>2, <3>3, <3>4 DEF Faces
  <2> QED BY <2>4, <2>5
<1> QED BY <1>5, <1>6

(* Where it begins. *)
LEMMA FirstInLoop ==
  ASSUME NEW h, NEW s, Proper(h, s), Ring(mem, h, s), NEW forward \in BOOLEAN
  PROVE  Faces(h, s, forward, Step(forward, h), ToSet(s), {})
<1>1. /\ s \in Seq(Nodes) /\ Len(s) \in Nat /\ DOMAIN s = 1..Len(s)
      /\ \A i \in 1..Len(s) : s[i] # h
  BY Ends DEF Proper
<1>2. PICK n : n = Step(forward, h)
  OBVIOUS
<1>3. PICK k : k = IF forward THEN 1 ELSE Len(s)
  OBVIOUS
<1>4. n = Place(h, s, k)
  BY <1>2, <1>3, Ends DEF Step
<1>5. CASE Len(s) = 0
  <2>1. n = h
    BY <1>1, <1>3, <1>4, <1>5 DEF Place
  <2>2. ToSet(s) = {}
    <3>1. 1..0 = {}
      OBVIOUS
    <3> QED BY <1>1, <1>5, <3>1 DEF ToSet
  <2> QED BY <1>2, <2>1, <2>2 DEF Faces
<1>6. CASE Len(s) # 0
  <2>1. k \in 1..Len(s)
    <3>1. \A len \in Nat : len # 0 => 1 \in 1..len /\ len \in 1..len
      OBVIOUS
    <3>2. Len(s) \in Nat
      BY <1>1
    <3> QED BY <1>3, <1>6, <3>1, <3>2
  <2>2. n = s[k] /\ n # h /\ n \in ToSet(s)
    BY <1>1, <1>4, <2>1, OnSequence DEF Place
  <2>3. ASSUME NEW x \in ToSet(s) PROVE x = n \/ Follows(s, forward, n, x)
    <3>1. PICK j \in 1..Len(s) : s[j] = x
      BY <1>1, <2>3, OnSequence
    <3>2. CASE forward
      BY <1>1, <1>3, <2>1, <2>2, <3>1, <3>2 DEF Follows, Before
    <3>3. CASE ~forward
      BY <1>1, <1>3, <2>1, <2>2, <3>1, <3>3 DEF Follows, Before
    <3> QED BY <3>2, <3>3
  <2> QED BY <1>2, <2>2, <2>3 DEF Faces
<1> QED BY <1>5, <1>6

(* It arrives. *)
LEMMA ArrivesInLoop ==
  ASSUME NEW h, NEW s, NEW forward, NEW n, n # h, NEW todo, NEW done,
         Faces(h, s, forward, n, todo, done)
  PROVE  Stands(s, forward, n, todo \ {n}, done \union ({n} \intersect todo))
BY DEF Faces, Stands

(* The body moves others. *)
LEMMA StaysInLoop ==
  ASSUME NEW s, NEW t, NEW M, Kept(s, M, t), NEW forward, NEW n, n \notin M,
         NEW todo, NEW done
  PROVE  /\ Stands(s, forward, n, todo, done) => Stands(t, forward, n, todo \ M, done \ M)
         /\ \A h : Faces(h, s, forward, n, todo, done) => Faces(h, t, forward, n, todo \ M, done \ M)
<1>1. \A x, y : x \notin M /\ y \notin M /\ Follows(s, forward, x, y) => Follows(t, forward, x, y)
  BY DEF Kept, Follows
<1>2. ToSet(s) \ M \subseteq ToSet(t)
  BY DEF Kept
<1> QED BY <1>1, <1>2 DEF Stands, Faces

-----------------------------------------------------------------------------
(* What a call moves, it takes out of the loop; the order of the rest does *)
(* not change.                                                             *)

KeepsOrder(moved) ==
  \A h \in Heads \ moved : h \in Heads' /\ Kept(lists[h], moved, lists'[h])
Bodied(moved) == IF Looping THEN InBody(moved) ELSE UNCHANGED loop
KeepsLoop == \E moved : KeepsOrder(moved) /\ Bodied(moved)

LEMMA OrderOfInitialise ==
  ASSUME NEW x \in Nodes, Initialise(x) PROVE KeepsLoop
<1>1. /\ lists' = Put(x, <<>>) /\ Bodied({x} \ Heads)
      /\ x \in Heads => lists[x] = <<>>
  BY DEF Initialise, IsFree, Call, Bodied
<1>2. ASSUME NEW h \in Heads \ ({x} \ Heads) PROVE h \in Heads' /\ lists'[h] = lists[h]
  BY <1>1 DEF Put, Heads
<1>3. KeepsOrder({x} \ Heads)
  BY <1>2, KeptAll DEF KeepsOrder
<1> QED BY <1>1, <1>3 DEF KeepsLoop

LEMMA OrderOfAdd ==
  ASSUME Sound(mem, lists), NEW h \in Heads, NEW x \in Nodes, Add(x, h) \/ AddTail(x, h)
  PROVE  KeepsLoop
<1>0. lists[h] \in Seq(Nodes) /\ <<x>> \in Seq(Nodes)
  BY Apartness DEF Heads, Proper
<1>1. PICK s \in Seq(Nodes), e \in Seq(Nodes) : s = lists[h] /\ e = <<x>>
  BY <1>0
<1>2. /\ Bodied({x})
      /\ lists' = [Drop(x) EXCEPT ![h] = e \o s] \/ lists' = [Drop(x) EXCEPT ![h] = s \o e]
  <2>1. h # x
    BY DEF Add, AddTail
  <2>2. Drop(x)[h] = s
    BY <1>1, <2>1 DEF Drop
  <2> QED BY <1>1, <2>2 DEF Add, AddTail, Call, Bodied
<1>3. ASSUME NEW g \in Heads \ {x} PROVE g \in Heads' /\ Kept(lists[g], {x}, lists'[g])
  <2>1. DOMAIN Drop(x) = Heads \ {x} /\ Drop(x)[g] = lists[g]
    BY DEF Drop
  <2>2. CASE g # h
    BY <1>2, <2>1, <2>2, KeptAll DEF Heads
  <2>3. CASE g = h
    <3>1. g \in Heads' /\ (lists'[g] = e \o s \/ lists'[g] = s \o e)
      BY <1>2, <2>1, <2>3 DEF Heads
    <3> QED BY <1>1, <2>3, <3>1, KeptFirst
  <2> QED BY <2>2, <2>3
<1> QED BY <1>2, <1>3 DEF KeepsLoop, KeepsOrder

LEMMA OrderOfDelete ==
  ASSUME Sound(mem, lists), NEW h \in Heads, NEW i \in DOMAIN lists[h],
         Delete(h, i) \/ DeleteInit(h, i)
  PROVE  KeepsLoop
<1>1. PICK s \in Seq(Nodes) : s = lists[h]
  BY Apartness DEF Heads, Proper
<1>2. PICK x : x = s[i]
  OBVIOUS
<1>3. /\ Bodied({x})
      /\ \/ lists' = [lists EXCEPT ![h] = RemoveAt(s, i)]
         \/ lists' = [Put(x, <<>>) EXCEPT ![h] = RemoveAt(Put(x, <<>>)[h], i)]
  <2>1. CASE Delete(h, i)
    BY <1>1, <1>2, <2>1 DEF Delete, Call, Bodied
  <2>2. CASE DeleteInit(h, i)
    BY <1>1, <1>2, <2>2 DEF DeleteInit, Call, Bodied
  <2> QED BY <2>1, <2>2
<1>4. h # x
  BY <1>1, <1>2, Apartness DEF Heads, Proper, ToSet
<1>5. Put(x, <<>>)[h] = s
  BY <1>1, <1>4 DEF Put
<1>6. ASSUME NEW g \in Heads \ {x} PROVE g \in Heads' /\ Kept(lists[g], {x}, lists'[g])
  <2>1. DOMAIN Put(x, <<>>) = Heads \union {x} /\ Put(x, <<>>)[g] = lists[g]
    BY DEF Put
  <2>2. CASE g # h
    BY <1>3, <2>1, <2>2, KeptAll DEF Heads
  <2>3. CASE g = h
    <3>1. g \in Heads' /\ lists'[g] = RemoveAt(s, i)
      BY <1>3, <1>5, <2>1, <2>3 DEF Heads
    <3>2. s[i] \in {x}
      BY <1>2
    <3> QED BY <1>1, <2>3, <3>1, <3>2, KeptRemoved
  <2> QED BY <2>2, <2>3
<1> QED BY <1>3, <1>6 DEF KeepsLoop, KeepsOrder

LEMMA OrderOfMove ==
  ASSUME Sound(mem, lists), NEW h \in Heads, NEW i \in DOMAIN lists[h], NEW k \in Heads,
         Move(h, i, k) \/ MoveTail(h, i, k)
  PROVE  KeepsLoop
<1>1. PICK s \in Seq(Nodes) : s = lists[h]
  BY Apartness DEF Heads, Proper
<1>2. PICK x \in Nodes : x = s[i]
  BY <1>1
<1>3. PICK off : off = [lists EXCEPT ![h] = RemoveAt(s, i)]
  OBVIOUS
<1>4. /\ Bodied({x})
      /\ \/ lists' = [off EXCEPT ![k] = <<x>> \o off[k]]
         \/ lists' = [off EXCEPT ![k] = off[k] \o <<x>>]
  BY <1>1, <1>2, <1>3 DEF Move, MoveTail, Call, Bodied
<1>5. /\ DOMAIN off = Heads /\ RemoveAt(s, i) \in Seq(Nodes)
      /\ \A g \in Heads : off[g] \in Seq(Nodes) /\ Kept(lists[g], {x}, off[g])
  <2>1. RemoveAt(s, i) \in Seq(Nodes) /\ Kept(s, {x}, RemoveAt(s, i))
    <3>1. s[i] \in {x}
      BY <1>2
    <3> QED BY <1>1, <3>1, KeptRemoved
  <2>2. \A g \in Heads : lists[g] \in Seq(Nodes)
    BY Apartness DEF Heads, Proper
  <2> QED BY <1>1, <1>3, <2>1, <2>2, KeptAll DEF Heads
<1>6. ASSUME NEW g \in Heads \ {x} PROVE g \in Heads' /\ Kept(lists[g], {x}, lists'[g])
  <2>1. g \in Heads' /\ (lists'[g] = off[g] \/ lists'[g] = <<x>> \o off[g] \/ lists'[g] = off[g] \o <<x>>)
    BY <1>4, <1>5 DEF Heads
  <2>2. <<x>> \in Seq(Nodes) /\ off[g] \in Seq(Nodes)
    BY <1>5
  <2>3. Kept(off[g], {x}, lists'[g])
    BY <2>1, <2>2, KeptFirst, KeptAll
  <2> QED BY <1>5, <2>1, <2>3, KeptThrough
<1> QED BY <1>4, <1>6 DEF KeepsLoop, KeepsOrder

LEMMA OrderOfRotate ==
  ASSUME Sound(mem, lists), NEW h \in Heads, Rotate(h) PROVE KeepsLoop
<1>1. PICK s \in Seq(Nodes) : s = lists[h]
  BY Apartness DEF Heads, Proper
<1>2. CASE s = <<>>
  <2>1. lists' = lists /\ Bodied({})
    BY <1>1, <1>2 DEF Rotate, Call, Bodied
  <2>2. KeepsOrder({})
    BY <2>1, KeptAll DEF KeepsOrder, Heads
  <2> QED BY <2>1, <2>2 DEF KeepsLoop
<1>3. CASE s # <<>>
  <2>1. PICK M : M = {s[1]}
    OBVIOUS
  <2>2. lists' = [lists EXCEPT ![h] = Tail(s) \o <<Head(s)>>] /\ Bodied(M)
    BY <1>1, <1>3, <2>1 DEF Rotate, Call, Bodied
  <2>3. Kept(s, M, Tail(s) \o <<Head(s)>>)
    BY <1>3, <2>1, KeptRotated
  <2>4. ASSUME NEW g \in Heads \ M PROVE g \in Heads' /\ Kept(lists[g], M, lists'[g])
    <3>1. g \in Heads' /\ lists'[g] = IF g = h THEN Tail(s) \o <<Head(s)>> ELSE lists[g]
      BY <2>2 DEF Heads
    <3> QED BY <1>1, <2>3, <3>1, KeptAll
  <2> QED BY <2>2, <2>4 DEF KeepsLoop, KeepsOrder
<1> QED BY <1>2, <1>3

LEMMA OrderOfReplace ==
  ASSUME Sound(mem, lists), NEW h \in Heads, NEW i \in DOMAIN lists[h], NEW new \in Nodes,
         Replace(h, i, new) \/ ReplaceInit(h, i, new)
  PROVE  KeepsLoop
<1>1. PICK s \in Seq(Nodes) : s = lists[h]
  BY Apartness DEF Heads, Proper
<1>2. PICK M : M = {s[i], new}
  OBVIOUS
<1>3. PICK t : t = [s EXCEPT ![i] = new]
  OBVIOUS
<1>4. Kept(s, M, t)
  <2>1. s[i] \in M
    BY <1>2
  <2> QED BY <1>1, <1>3, <2>1, KeptReplaced
<1>5. Bodied(M) /\ h # new
  BY <1>1, <1>2 DEF Replace, ReplaceInit, Call, Bodied
<1>6. ASSUME NEW g \in Heads \ M
      PROVE  g \in Heads' /\ lists'[g] = IF g = h THEN t ELSE lists[g]
  <2>1. CASE Replace(h, i, new)
    <3>1. DOMAIN Drop(new) = Heads \ {new} /\ \A k \in Heads \ {new} : Drop(new)[k] = lists[k]
      BY DEF Drop
    <3>2. lists' = [Drop(new) EXCEPT ![h] = [Drop(new)[h] EXCEPT ![i] = new]]
      BY <2>1 DEF Replace, Call
    <3> QED BY <1>1, <1>2, <1>3, <1>5, <1>6, <3>1, <3>2 DEF Heads
  <2>2. CASE ReplaceInit(h, i, new)
    <3>1. lists' = [k \in (Heads \ {new}) \union {s[i]} |->
                      IF k = s[i] THEN <<>> ELSE IF k = h THEN t ELSE lists[k]]
      BY <1>1, <1>3, <2>2 DEF ReplaceInit, Call
    <3> QED BY <1>2, <1>6, <3>1 DEF Heads
  <2> QED BY <2>1, <2>2
<1>7. KeepsOrder(M)
  BY <1>1, <1>4, <1>6, KeptAll DEF KeepsOrder
<1> QED BY <1>5, <1>7 DEF KeepsLoop

LEMMA OrderOfReplaceHead ==
  ASSUME NEW old \in Heads, NEW new \in Nodes, ReplaceHead(old, new) \/ ReplaceHeadInit(old, new)
  PROVE  KeepsLoop
<1>1. CASE ReplaceHead(old, new)
  <2>1. PICK M : M = {old, new} \union ToSet(lists[old])
    OBVIOUS
  <2>2. /\ Bodied(M)
        /\ lists' = [g \in (Heads \ {old}) \union {new} |-> IF g = new THEN lists[old] ELSE lists[g]]
    BY <1>1, <2>1 DEF ReplaceHead, Call, Bodied
  <2>3. \A g \in Heads \ M : g \in Heads' /\ lists'[g] = lists[g]
    BY <2>1, <2>2 DEF Heads
  <2>4. KeepsOrder(M)
    BY <2>3, KeptAll DEF KeepsOrder
  <2> QED BY <2>2, <2>4 DEF KeepsLoop
<1>2. CASE ReplaceHeadInit(old, new)
  <2>1. PICK M : M = {new} \union ToSet(lists[old])
    OBVIOUS
  <2>2. /\ Bodied(M)
        /\ lists' = [g \in Heads \union {new} |->
                       IF g = new THEN lists[old] ELSE IF g = old THEN <<>> ELSE lists[g]]
    BY <1>2, <2>1 DEF ReplaceHeadInit, Call, Bodied
  <2>3. \A g \in Heads \ M : g \in Heads' /\ (g = old \/ lists'[g] = lists[g])
    BY <2>1, <2>2 DEF Heads
  <2>4. ToSet(lists[old]) \subseteq M
    BY <2>1
  <2>5. KeepsOrder(M)
    BY <2>3, <2>4, KeptAll, KeptNone DEF KeepsOrder
  <2> QED BY <2>2, <2>5 DEF KeepsLoop
<1> QED BY <1>1, <1>2

(* The first k nodes of one list take the place of all of another. *)
LEMMA OrderOfCut ==
  ASSUME Sound(mem, lists), NEW g \in Heads, NEW h \in Heads, g # h,
         NEW k \in 0..Len(lists[h]), NEW M,
         M = ToSet(lists[g]) \union { lists[h][j] : j \in 1..k }, Bodied(M),
         lists' = [lists EXCEPT ![g] = SubSeq(lists[h], 1, k),
                                ![h] = SubSeq(lists[h], k + 1, Len(lists[h]))]
  PROVE  KeepsLoop
<1>1. PICK s \in Seq(Nodes) : s = lists[h]
  BY Apartness DEF Heads, Proper
<1>2. Kept(s, M, SubSeq(s, k + 1, Len(s)))
  <2>1. k \in 0..Len(s) /\ \A j \in 1..k : s[j] \in M
    BY <1>1
  <2> QED BY <2>1, KeptRest
<1>3. ToSet(lists[g]) \subseteq M
  OBVIOUS
<1>4. ASSUME NEW f \in Heads
      PROVE  f \in Heads' /\ (f = g \/ lists'[f] = IF f = h THEN SubSeq(s, k + 1, Len(s)) ELSE lists[f])
  BY <1>1 DEF Heads
<1>5. KeepsOrder(M)
  BY <1>1, <1>2, <1>3, <1>4, KeptAll, KeptNone DEF KeepsOrder
<1> QED BY <1>5 DEF KeepsLoop

LEMMA OrderOfCuts ==
  ASSUME Sound(mem, lists), NEW g \in Heads, NEW h \in Heads, Cuts(g, h) PROVE KeepsLoop
<1>0. Len(lists[h]) \in Nat
  BY Apartness DEF Heads, Proper
<1>1. ASSUME NEW i \in 0..Len(lists[h]), CutPosition(g, h, i) PROVE KeepsLoop
  <2>1. PICK M : M = ToSet(lists[g]) \union { lists[h][j] : j \in 1..i }
    OBVIOUS
  <2>2. g # h /\ Bodied(M)
    BY <1>1, <2>1 DEF CutPosition, Call, Bodied
  <2>3. CASE lists[h] = <<>>
    <3>1. lists' = lists
      BY <1>1, <2>3 DEF CutPosition, Call
    <3>2. KeepsOrder(M)
      BY <3>1, KeptAll DEF KeepsOrder, Heads
    <3> QED BY <2>2, <3>2 DEF KeepsLoop
  <2>4. CASE lists[h] # <<>>
    <3>1. lists' = [lists EXCEPT ![g] = SubSeq(lists[h], 1, i),
                                 ![h] = SubSeq(lists[h], i + 1, Len(lists[h]))]
      BY <1>1, <2>4 DEF CutPosition, Call
    <3> QED BY <2>1, <2>2, <3>1, OrderOfCut
  <2> QED BY <2>3, <2>4
<1>2. ASSUME NEW i \in 1..(Len(lists[h]) + 1), CutBefore(g, h, i) PROVE KeepsLoop
  <2>1. PICK k \in 0..Len(lists[h]) : k = i - 1 /\ i = k + 1
    BY <1>0
  <2>2. PICK M : M = ToSet(lists[g]) \union { lists[h][j] : j \in 1..k }
    OBVIOUS
  <2>3. g # h /\ Bodied(M)
    BY <1>2, <2>1, <2>2 DEF CutBefore, Call, Bodied
  <2>4. lists' = [lists EXCEPT ![g] = SubSeq(lists[h], 1, k),
                               ![h] = SubSeq(lists[h], k + 1, Len(lists[h]))]
    BY <1>2, <2>1 DEF CutBefore, Call
  <2> QED BY <2>2, <2>3, <2>4, OrderOfCut
<1> QED BY <1>1, <1>2 DEF Cuts

LEMMA OrderOfSplice ==
  ASSUME Sound(mem, lists), NEW g \in Heads, NEW h \in Heads,
         \/ Splice(g, h) \/ SpliceTail(g, h)
         \/ SpliceInit(g, h) \/ SpliceTailInit(g, h)
  PROVE  KeepsLoop
<1>1. PICK s \in Seq(Nodes), t \in Seq(Nodes) : s = lists[h] /\ t = lists[g]
  BY Apartness DEF Heads, Proper
<1>2. g # h
  BY DEF Splice, SpliceTail, SpliceInit, SpliceTailInit
<1>3. \E M : /\ Bodied(M) /\ ToSet(t) \subseteq M
             /\ \A f \in Heads \ M :
                  /\ f \in Heads'
                  /\ IF f = h THEN lists'[f] = t \o s \/ lists'[f] = s \o t
                     ELSE f = g \/ lists'[f] = lists[f]
  <2>1. CASE Splice(g, h) \/ SpliceTail(g, h)
    <3>1. PICK M : M = ToSet(t) \union Emptied(g)
      OBVIOUS
    <3>2. /\ Bodied(M)
          /\ \/ lists' = [x \in Heads \ Emptied(g) |-> IF x = h THEN t \o s ELSE lists[x]]
             \/ lists' = [x \in Heads \ Emptied(g) |-> IF x = h THEN s \o t ELSE lists[x]]
      BY <1>1, <2>1, <3>1 DEF Splice, SpliceTail, Call, Bodied
    <3>3. \A f \in Heads \ M : f \in Heads \ Emptied(g)
      BY <3>1
    <3>4. \A f \in Heads \ M :
            /\ f \in Heads'
            /\ IF f = h THEN lists'[f] = t \o s \/ lists'[f] = s \o t ELSE lists'[f] = lists[f]
      BY <3>2, <3>3 DEF Heads
    <3> QED BY <3>1, <3>2, <3>4
  <2>2. CASE SpliceInit(g, h) \/ SpliceTailInit(g, h)
    <3>1. PICK M : M = ToSet(t)
      OBVIOUS
    <3>2. /\ Bodied(M)
          /\ \/ lists' = [lists EXCEPT ![h] = t \o s, ![g] = <<>>]
             \/ lists' = [lists EXCEPT ![h] = s \o t, ![g] = <<>>]
      BY <1>1, <2>2, <3>1 DEF SpliceInit, SpliceTailInit, Call, Bodied
    <3>3. \A f \in Heads \ M :
            /\ f \in Heads'
            /\ IF f = h THEN lists'[f] = t \o s \/ lists'[f] = s \o t
               ELSE f = g \/ lists'[f] = lists[f]
      BY <1>2, <3>2 DEF Heads
    <3> QED BY <3>1, <3>2, <3>3
  <2> QED BY <2>1, <2>2
<1>4. PICK M : /\ Bodied(M) /\ ToSet(t) \subseteq M
               /\ \A f \in Heads \ M :
                    /\ f \in Heads'
                    /\ IF f = h THEN lists'[f] = t \o s \/ lists'[f] = s \o t
                       ELSE f = g \/ lists'[f] = lists[f]
  BY <1>3
<1>5. ASSUME NEW f \in Heads \ M PROVE f \in Heads' /\ Kept(lists[f], M, lists'[f])
  <2>1. CASE f = h
    BY <1>1, <1>4, <1>5, <2>1, KeptFirst
  <2>2. CASE f # h
    BY <1>1, <1>4, <1>5, <2>2, KeptAll, KeptNone
  <2> QED BY <2>1, <2>2
<1> QED BY <1>4, <1>5 DEF KeepsLoop, KeepsOrder

LEMMA CallsKeepOrder ==
  ASSUME Sound(mem, lists), Next, ~LoopSteps PROVE KeepsLoop
<1>1. CASE \E x \in Nodes : Initialise(x)
  BY <1>1, OrderOfInitialise
<1>2. ASSUME NEW h \in Heads, OfHead(h) PROVE KeepsLoop
  BY <1>2, OrderOfRotate, OrderOfAdd, OrderOfReplaceHead, OrderOfSplice DEF OfHead
<1>3. ASSUME NEW h \in Heads, NEW i \in DOMAIN lists[h], OfNode(h, i) PROVE KeepsLoop
  BY <1>3, OrderOfDelete, OrderOfMove, OrderOfReplace DEF OfNode
<1>4. ASSUME NEW h \in Heads, NEW g \in Heads, Cuts(g, h) PROVE KeepsLoop
  BY <1>4, OrderOfCuts
<1> QED BY <1>1, <1>2, <1>3, <1>4 DEF Next

(* Such a call keeps the invariant of the loop, ... *)
LEMMA BodyKeepsLoop ==
  ASSUME LoopInv, KeepsLoop
  PROVE  /\ LoopInv'
         /\ Looping /\ loop' # NoLoop => loop'.pos = loop.pos
<1>1. PICK M : KeepsOrder(M) /\ Bodied(M)
  BY DEF KeepsLoop
<1>2. CASE ~Looping
  <2>1. loop = NoLoop /\ loop' = NoLoop
    BY <1>1, <1>2 DEF Bodied, Looping
  <2> QED BY <1>2, <2>1 DEF LoopInv, Looping
<1>3. CASE Looping
  <2>1. loop \in Loops /\ InBody(M)
    BY <1>1, <1>3 DEF LoopInv, Bodied, Looping
  <2>2. PICK pinned \in BOOLEAN, stale \in BOOLEAN :
          /\ pinned = (loop.pinned /\ loop.pos \notin M)
          /\ stale = (loop.stale \/ loop.n \in M)
    OBVIOUS
  <2>3. /\ loop.pos # loop.head /\ loop.head \notin M
        /\ IF loop.kind.safe THEN ~stale \/ (pinned /\ loop.kind.forward) ELSE pinned
        /\ loop' = [loop EXCEPT !.pinned = pinned, !.stale = loop.kind.safe /\ stale,
                                !.done = loop.done \ M, !.todo = loop.todo \ M]
    BY <2>1, <2>2 DEF InBody
  <2>4. /\ loop' \in Loops /\ loop'.kind = loop.kind /\ loop'.head = loop.head
        /\ loop'.pos = loop.pos /\ loop'.n = loop.n /\ loop'.pinned = pinned
        /\ loop'.stale = (loop.kind.safe /\ stale)
        /\ loop'.done = loop.done \ M /\ loop'.todo = loop.todo \ M
    BY <2>1, <2>3 DEF Loops, Kinds
  <2>5. /\ loop.head \in Heads'
        /\ Kept(lists[loop.head], M, lists'[loop.head])
    BY <1>1, <1>3, <2>3 DEF KeepsOrder, LoopInv
  <2>6. ASSUME loop.kind.safe, ~stale
        PROVE  Faces(loop.head, lists'[loop.head], loop.kind.forward, loop.n,
                     loop.todo \ M, loop.done \ M)
    <3>1. /\ loop.n \notin M
          /\ Faces(loop.head, lists[loop.head], loop.kind.forward, loop.n, loop.todo, loop.done)
      BY <1>3, <2>2, <2>3, <2>6 DEF LoopInv
    <3> QED BY <2>5, <3>1, StaysInLoop
  <2>7. ASSUME pinned
        PROVE  Stands(lists'[loop.head], loop.kind.forward, loop.pos, loop.todo \ M, loop.done \ M)
    <3>1. /\ loop.pos \notin M
          /\ Stands(lists[loop.head], loop.kind.forward, loop.pos, loop.todo, loop.done)
      BY <1>3, <2>2, <2>3, <2>7 DEF LoopInv
    <3> QED BY <2>5, <3>1, StaysInLoop
  <2> QED BY <2>3, <2>4, <2>5, <2>6, <2>7 DEF LoopInv, Looping
<1> QED BY <1>2, <1>3

(* ... and so does going to the next node. *)
LEMMA Arrival ==
  ASSUME Sound(mem, lists), NEW l \in Loops, l.head \in Heads, NEW p,
         Faces(l.head, lists[l.head], l.kind.forward, p, l.todo, l.done),
         loop' = At(l, p), UNCHANGED lists, UNCHANGED mem
  PROVE  LoopInv' /\ loop'.pos = p
<1>1. PICK h \in Heads, s \in Seq(Nodes) :
        /\ h = l.head /\ s = lists[h] /\ Proper(h, s) /\ Ring(mem, h, s) /\ h \in Nodes
  BY Apartness DEF Heads, Proper
<1>2. PICK forward \in BOOLEAN, safe \in BOOLEAN : forward = l.kind.forward /\ safe = l.kind.safe
  BY DEF Loops, Kinds
<1>3. p \in Nodes /\ Faces(h, s, forward, p, l.todo, l.done)
  <2>1. Faces(h, s, forward, p, l.todo, l.done)
    BY <1>1, <1>2
  <2>2. p \in ToSet(s) \union {h}
    BY <2>1 DEF Faces
  <2>3. ToSet(s) \subseteq Nodes
    BY <1>1, OnSequence
  <2> QED BY <1>1, <2>1, <2>2, <2>3
<1>4. PICK todo \in SUBSET Nodes, done \in SUBSET Nodes :
        todo = l.todo \ {p} /\ done = l.done \union ({p} \intersect l.todo)
  BY DEF Loops
<1>5. PICK n : n = IF safe THEN Step(forward, p) ELSE l.n
  OBVIOUS
<1>6. /\ p # h => Stands(s, forward, p, todo, done)
      /\ p = h => todo = {} /\ done = l.done /\ l.todo = {}
  <2>1. p # h => Stands(s, forward, p, todo, done)
    BY <1>3, <1>4, ArrivesInLoop
  <2>2. p = h => l.todo = {}
    BY <1>3 DEF Faces
  <2> QED BY <1>4, <2>1, <2>2
<1>7. p # h /\ safe => Faces(h, s, forward, n, todo, done)
  BY <1>1, <1>5, <1>6, NextInLoop
<1>8. n \in Nodes
  <2>1. CASE ~safe
    BY <1>5, <2>1 DEF Loops
  <2>2. CASE safe
    <3>1. Faces(h, s, forward, n, todo, done) \/ Faces(h, s, forward, n, ToSet(s), {})
      BY <1>1, <1>5, <1>7, <2>2, FirstInLoop
    <3>2. n \in ToSet(s) \union {h}
      BY <3>1 DEF Faces
    <3> QED BY <1>1, <3>2, OnSequence
  <2> QED BY <2>1, <2>2
<1>9. loop' = [l EXCEPT !.pos = p, !.n = n, !.pinned = TRUE, !.stale = FALSE,
                        !.done = done, !.todo = todo]
  BY <1>2, <1>3, <1>4, <1>5 DEF At
<1>10. /\ loop' \in Loops /\ loop'.kind = l.kind /\ loop'.head = h /\ loop'.pos = p
       /\ loop'.n = n /\ loop'.pinned = TRUE /\ loop'.stale = FALSE
       /\ loop'.done = done /\ loop'.todo = todo
  BY <1>1, <1>3, <1>4, <1>8, <1>9 DEF Loops
<1> QED BY <1>1, <1>2, <1>6, <1>7, <1>10 DEF LoopInv, Looping, Heads

LEMMA NotVisited ==
  ASSUME NEW h, NEW s, Proper(h, s), NEW forward \in BOOLEAN, NEW n, NEW todo, NEW done,
         Faces(h, s, forward, n, todo, done)
  PROVE  n \notin done
<1>1. CASE n = h
  BY <1>1 DEF Faces, Proper
<1>2. CASE n # h
  <2> SUFFICES ASSUME n \in done PROVE FALSE
    OBVIOUS
  <2>1. Before(s, n, n)
    BY <1>2 DEF Faces, Follows
  <2>2. PICK i, j \in DOMAIN s : i < j /\ s[i] = n /\ s[j] = n
    BY <2>1 DEF Before
  <2>3. i = j
    BY <2>2 DEF Proper
  <2>4. i \in Int
    BY <2>2 DEF Proper
  <2> QED BY <2>2, <2>3, <2>4
<1> QED BY <1>1, <1>2

LEMMA LoopBegins ==
  ASSUME Sound(mem, lists), NEW h \in Heads, NEW kind \in Kinds,
         \/ \E i \in DOMAIN lists[h] \union {0} : ForEach(h, i, kind)
         \/ \E i \in DOMAIN lists[h] : ForEachFrom(h, i, kind)
  PROVE  LoopInv' /\ ~Looping
<1>1. PICK s \in Seq(Nodes) : s = lists[h] /\ Proper(h, s) /\ Ring(mem, h, s) /\ h \in Nodes
  BY Apartness DEF Heads, Proper
<1>2. PICK forward \in BOOLEAN : forward = kind.forward
  BY DEF Kinds
<1>3. ToSet(s) \subseteq Nodes /\ \A i \in DOMAIN s : s[i] \in ToSet(s)
  BY <1>1 DEF Proper, ToSet
<1>4. ~Looping /\ UNCHANGED <<mem, lists>>
  BY DEF ForEach, ForEachFrom
<1>5. PICK from \in Nodes, todo \in SUBSET ToSet(s), p \in ToSet(s) \union {h} :
        /\ Faces(h, s, forward, p, todo, {})
        /\ loop' = At([kind |-> kind, head |-> h, pos |-> from, n |-> from, pinned |-> TRUE,
                       stale |-> FALSE, done |-> {}, todo |-> todo], p)
  <2>1. CASE ForEach(h, 0, kind)
    <3>1. Faces(h, s, forward, Step(forward, h), ToSet(s), {})
      BY <1>1, FirstInLoop
    <3>2. Behind(lists[h], 0, kind.forward) = ToSet(s)
      BY <1>1, <1>2, BehindHead
    <3>3. Step(forward, h) \in ToSet(s) \union {h}
      BY <3>1 DEF Faces
    <3> QED BY <1>1, <1>2, <2>1, <3>1, <3>2, <3>3 DEF ForEach
  <2>2. ASSUME NEW i \in DOMAIN lists[h], ForEach(h, i, kind) \/ ForEachFrom(h, i, kind)
        PROVE  \E from \in Nodes, todo \in SUBSET ToSet(s), p \in ToSet(s) \union {h} :
                 /\ Faces(h, s, forward, p, todo, {})
                 /\ loop' = At([kind |-> kind, head |-> h, pos |-> from, n |-> from,
                                pinned |-> TRUE, stale |-> FALSE, done |-> {}, todo |-> todo], p)
    <3>1. PICK x \in Nodes : x = s[i] /\ x \in ToSet(s) /\ x # h
      BY <1>1, <1>3, <2>2 DEF Proper
    <3>2. PICK B \in SUBSET ToSet(s) :
            B = Behind(s, i, forward) /\ \A y \in B : Follows(s, forward, x, y)
      BY <1>1, <2>2, <3>1, BehindIt
    <3>3. CASE ForEach(h, i, kind)
      <4>1. i # 0
        BY <1>1, <2>2
      <4>2. Stands(s, forward, x, B, {})
        BY <3>1, <3>2 DEF Stands
      <4>3. Faces(h, s, forward, Step(forward, x), B, {})
        BY <1>1, <4>2, NextInLoop
      <4>4. loop' = At([kind |-> kind, head |-> h, pos |-> x, n |-> x, pinned |-> TRUE,
                        stale |-> FALSE, done |-> {}, todo |-> B], Step(forward, x))
        BY <1>1, <1>2, <3>1, <3>2, <3>3, <4>1 DEF ForEach
      <4>5. Step(forward, x) \in ToSet(s) \union {h}
        BY <4>3 DEF Faces
      <4> QED BY <3>2, <4>3, <4>4, <4>5
    <3>4. CASE ForEachFrom(h, i, kind)
      <4>1. PICK T \in SUBSET ToSet(s) : T = {x} \union B
        BY <3>1
      <4>2. Faces(h, s, forward, x, T, {})
        BY <3>1, <3>2, <4>1 DEF Faces
      <4>3. loop' = At([kind |-> kind, head |-> h, pos |-> x, n |-> x, pinned |-> TRUE,
                        stale |-> FALSE, done |-> {}, todo |-> T], x)
        BY <1>1, <1>2, <3>1, <3>2, <3>4, <4>1 DEF ForEachFrom
      <4> QED BY <3>1, <4>1, <4>2, <4>3
    <3> QED BY <2>2, <3>3, <3>4
  <2> QED BY <1>1, <2>1, <2>2
<1>6. PICK l \in Loops :
        l = [kind |-> kind, head |-> h, pos |-> from, n |-> from, pinned |-> TRUE,
             stale |-> FALSE, done |-> {}, todo |-> todo]
  BY <1>1, <1>3 DEF Loops
<1>7. /\ l.head = h /\ l.kind.forward = forward /\ l.todo = todo /\ l.done = {}
      /\ loop' = At(l, p)
  BY <1>2, <1>5, <1>6
<1>8. Faces(l.head, lists[l.head], l.kind.forward, p, l.todo, l.done)
  BY <1>1, <1>5, <1>7
<1> QED BY <1>4, <1>7, <1>8, Arrival

LEMMA LoopGoesOn ==
  ASSUME Sound(mem, lists), LoopInv, Advance
  PROVE  LoopInv' /\ loop'.pos \notin loop.done
<1>1. /\ loop \in Loops /\ loop.head \in Heads /\ loop.pos # loop.head /\ ~loop.stale
      /\ Looping
  BY DEF LoopInv, Advance, Looping
<1>2. PICK s \in Seq(Nodes) :
        s = lists[loop.head] /\ Proper(loop.head, s) /\ Ring(mem, loop.head, s)
  BY <1>1, Apartness DEF Heads, Proper
<1>3. loop.kind.forward \in BOOLEAN /\ loop.kind.safe \in BOOLEAN
  BY <1>1 DEF Loops, Kinds
<1>4. PICK p : p = IF loop.kind.safe THEN loop.n ELSE Step(loop.kind.forward, loop.pos)
  OBVIOUS
<1>5. Faces(loop.head, s, loop.kind.forward, p, loop.todo, loop.done)
  <2>1. CASE loop.kind.safe
    BY <1>1, <1>2, <1>4, <2>1 DEF LoopInv
  <2>2. CASE ~loop.kind.safe
    <3>1. Stands(s, loop.kind.forward, loop.pos, loop.todo, loop.done)
      BY <1>1, <1>2, <2>2 DEF LoopInv
    <3> QED BY <1>2, <1>3, <1>4, <2>2, <3>1, NextInLoop
  <2> QED BY <2>1, <2>2
<1>6. loop' = At(loop, p) /\ UNCHANGED <<mem, lists>>
  BY <1>4 DEF Advance
<1>7. LoopInv' /\ loop'.pos = p
  BY <1>1, <1>2, <1>5, <1>6, Arrival
<1>8. p \notin loop.done
  BY <1>2, <1>3, <1>5, NotVisited
<1> QED BY <1>7, <1>8

LEMMA NextIsReadAgain ==
  ASSUME Sound(mem, lists), LoopInv, list_safe_reset_next
  PROVE  LoopInv' /\ loop'.pos = loop.pos
<1>1. /\ loop \in Loops /\ loop.head \in Heads /\ loop.pos # loop.head
      /\ Looping /\ loop.kind.safe /\ loop.kind.forward = TRUE /\ loop.pinned
  BY DEF LoopInv, list_safe_reset_next, Looping, Loops, Kinds
<1>2. PICK s \in Seq(Nodes) :
        /\ s = lists[loop.head] /\ Proper(loop.head, s) /\ Ring(mem, loop.head, s)
        /\ loop.head \in Nodes
  BY <1>1, Apartness DEF Heads, Proper
<1>3. loop.kind.forward \in BOOLEAN
  BY <1>1 DEF Loops, Kinds
<1>4. PICK n : n = Step(loop.kind.forward, loop.pos)
  OBVIOUS
<1>5. Stands(s, loop.kind.forward, loop.pos, loop.todo, loop.done)
  BY <1>1, <1>2 DEF LoopInv
<1>6. Faces(loop.head, s, loop.kind.forward, n, loop.todo, loop.done)
  BY <1>2, <1>3, <1>4, <1>5, NextInLoop
<1>7. n \in Nodes
  <2>1. n \in ToSet(s) \union {loop.head}
    BY <1>6 DEF Faces
  <2> QED BY <1>2, <2>1, OnSequence
<1>8. loop' = [loop EXCEPT !.n = n, !.stale = FALSE] /\ UNCHANGED <<mem, lists>>
  BY <1>1, <1>4 DEF list_safe_reset_next
<1>9. /\ loop' \in Loops /\ loop'.kind = loop.kind /\ loop'.head = loop.head
      /\ loop'.pos = loop.pos /\ loop'.n = n /\ loop'.pinned = loop.pinned
      /\ loop'.done = loop.done /\ loop'.todo = loop.todo
  BY <1>1, <1>7, <1>8 DEF Loops
<1> QED BY <1>1, <1>2, <1>5, <1>6, <1>8, <1>9 DEF LoopInv, Looping, Heads

LEMMA LoopStep ==
  ASSUME Sound(mem, lists), LoopInv, [Next]_vars
  PROVE  /\ LoopInv'
         /\ Looping /\ loop' # NoLoop /\ loop'.pos # loop.pos => loop'.pos \notin loop.done
<1>1. CASE UNCHANGED vars
  BY <1>1 DEF vars, LoopInv, Looping, Heads
<1>2. CASE Next /\ ~LoopSteps
  BY <1>2, CallsKeepOrder, BodyKeepsLoop
<1>3. CASE LoopSteps
  <2>1. CASE \/ \E h \in Heads, kind \in Kinds :
                  \E i \in DOMAIN lists[h] \union {0} : ForEach(h, i, kind)
             \/ \E h \in Heads, kind \in Kinds :
                  \E i \in DOMAIN lists[h] : ForEachFrom(h, i, kind)
    BY <2>1, LoopBegins
  <2>2. CASE Advance
    BY <2>2, LoopGoesOn
  <2>3. CASE LoopEnds
    BY <2>3 DEF LoopEnds, LoopInv, Looping
  <2>4. CASE list_safe_reset_next
    BY <2>4, NextIsReadAgain
  <2> QED BY <1>3, <2>1, <2>2, <2>3, <2>4 DEF LoopSteps
<1> QED BY <1>1, <1>2, <1>3

LEMMA LoopAlways == Spec => [](Sound(mem, lists) /\ LoopInv)
<1>1. Init => LoopInv
  BY DEF Init, LoopInv, Looping
<1>2. Sound(mem, lists) /\ LoopInv /\ [Next]_vars => LoopInv'
  BY LoopStep
<1> QED BY InitSound, NextSound, <1>1, <1>2, PTL DEF Spec

(* A loop whose body keeps to the comments visits every node that stays on *)
(* its list, whatever else the body adds, deletes, moves, cuts or splices, *)
(* on this list or on others, in both directions and in the safe variants. *)
(* The comments allow a body to take n away only in the forward safe ones, *)
(* where list_safe_reset_next reads it again.                              *)
THEOREM LoopsMissNothing == Spec => []VisitsAll
<1>1. LoopInv => VisitsAll
  BY DEF LoopInv, VisitsAll
<1> QED BY <1>1, LoopAlways, PTL

(* Nor does it come to one of these nodes twice, in the forward safe       *)
(* variants because list_safe_reset_next reads n again from where pos is.  *)
THEOREM LoopsRepeatNothing == Spec => VisitsOnce
<1> DEFINE Once == Looping /\ loop' # NoLoop /\ loop'.pos # loop.pos => loop'.pos \notin loop.done
<1>1. Sound(mem, lists) /\ LoopInv /\ [Next]_vars => [Once]_loop
  BY LoopStep
<1> QED BY <1>1, LoopAlways, PTL DEF Spec, VisitsOnce
=============================================================================
