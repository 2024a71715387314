------------------------------ MODULE HashLists -----------------------------
(***************************************************************************)
(* The second kind of list of list_head.h: hlist, doubly linked with a     *)
(* single pointer for its head.  A node points back at the cell that       *)
(* points at it, which is its predecessor's next or the head's first.      *)
(*                                                                         *)
(* As in Lists, programs make any calls the functions are meant for, and   *)
(* the history variable `hashed' says which nodes each list has then.      *)
(***************************************************************************)
EXTENDS ListHead, SequencesExt

CONSTANT Buckets   (* the heads: struct hlist_head                         *)

VARIABLES
  hmem,     (* first[h] of the heads, next[n] and pprev[n] of the nodes    *)
  hashed,   (* hashed[h]: the nodes on the list of the head h              *)
  unhashed, (* the nodes that are initialised and on no list               *)
  fake      (* the nodes after hlist_add_fake                              *)

hvars == <<hmem, hashed, unhashed, fake>>

(* Cells: &h->first and &n->next.  Store is an assignment through one.     *)
FirstOf(h) == <<"first", h>>
NextOf(n) == <<"next", n>>
Cells == { FirstOf(h) : h \in Buckets } \union { NextOf(n) : n \in Nodes }
(* No object has the address 0. *)
ASSUME NullAssumption == NULL \notin Cells
Store(m, cell, n) ==
  IF cell[1] = "first" THEN [m EXCEPT !.first[cell[2]] = n] ELSE [m EXCEPT !.next[cell[2]] = n]
PointBack(m, n, cell) == IF n = NULL THEN m ELSE [m EXCEPT !.pprev[n] = cell]

-----------------------------------------------------------------------------
INIT_HLIST_NODE(m, n) == [m EXCEPT !.next[n] = NULL, !.pprev[n] = NULL]
hlist_unhashed(m, n) == m.pprev[n] = NULL
hlist_empty(m, h) == m.first[h] = NULL

hlist_del_links(m, n) == PointBack(Store(m, m.pprev[n], m.next[n]), m.next[n], m.pprev[n])
hlist_del(m, n) ==
  [hlist_del_links(m, n) EXCEPT !.next[n] = LIST_POISON1, !.pprev[n] = LIST_POISON2]
hlist_del_init(m, n) ==
  IF hlist_unhashed(m, n) THEN m ELSE INIT_HLIST_NODE(hlist_del_links(m, n), n)

hlist_add_head(m, n, h) ==
  [PointBack([m EXCEPT !.next[n] = m.first[h]], m.first[h], NextOf(n))
     EXCEPT !.first[h] = n, !.pprev[n] = FirstOf(h)]
hlist_add_before(m, n, next) ==
  Store([m EXCEPT !.pprev[n] = m.pprev[next], !.next[n] = next, !.pprev[next] = NextOf(n)],
        m.pprev[next], n)
hlist_add_behind(m, n, prev) ==
  PointBack([m EXCEPT !.next[n] = m.next[prev], !.next[prev] = n, !.pprev[n] = NextOf(prev)],
            m.next[prev], NextOf(n))

hlist_add_fake(m, n) == [m EXCEPT !.pprev[n] = NextOf(n)]
hlist_fake(m, n) == m.pprev[n] = NextOf(n)
hlist_is_singular_node(m, n, h) == m.next[n] = NULL /\ m.pprev[n] = FirstOf(h)

hlist_move_list_NoFixup(m, old, new) ==
  [m EXCEPT !.first[new] = m.first[old], !.first[old] = NULL]
hlist_move_list(m, old, new) ==
  [PointBack([m EXCEPT !.first[new] = m.first[old]], m.first[old], FirstOf(new))
     EXCEPT !.first[old] = NULL]

-----------------------------------------------------------------------------
Inserted(s, i, n) == SubSeq(s, 1, i - 1) \o <<n>> \o SubSeq(s, i, Len(s))
IsOn(n, h) == \E i \in DOMAIN hashed[h] : hashed[h][i] = n
IsNowhere(n) == n \notin fake /\ \A h \in Buckets : ~IsOn(n, h)

HashInit ==
  /\ hmem = [first |-> [h \in Buckets |-> NULL],
             next |-> [n \in Nodes |-> NULL], pprev |-> [n \in Nodes |-> NULL]]
  /\ hashed = [h \in Buckets |-> <<>>]
  /\ unhashed = Nodes
  /\ fake = {}

HashInitialise(n) ==
  /\ IsNowhere(n)
  /\ hmem' = INIT_HLIST_NODE(hmem, n)
  /\ unhashed' = unhashed \union {n}
  /\ UNCHANGED <<hashed, fake>>

Inserts(n, h, i, m) ==
  /\ IsNowhere(n)
  /\ hmem' = m
  /\ hashed' = [hashed EXCEPT ![h] = Inserted(@, i, n)]
  /\ unhashed' = unhashed \ {n}
  /\ UNCHANGED fake
AddHead(n, h) == Inserts(n, h, 1, hlist_add_head(hmem, n, h))
AddBefore(n, h, i) == Inserts(n, h, i, hlist_add_before(hmem, n, hashed[h][i]))
AddBehind(n, h, i) == Inserts(n, h, i + 1, hlist_add_behind(hmem, n, hashed[h][i]))

HashDelete(h, i) ==
  /\ hmem' = hlist_del(hmem, hashed[h][i])
  /\ hashed' = [hashed EXCEPT ![h] = RemoveAt(@, i)]
  /\ UNCHANGED <<unhashed, fake>>
HashDeleteInit(h, i) ==
  /\ hmem' = hlist_del_init(hmem, hashed[h][i])
  /\ hashed' = [hashed EXCEPT ![h] = RemoveAt(@, i)]
  /\ unhashed' = unhashed \union {hashed[h][i]}
  /\ UNCHANGED fake

(* "after that we'll appear to be on some hlist and hlist_del will work"   *)
AddFake(n) ==
  /\ n \in unhashed
  /\ hmem' = hlist_add_fake(hmem, n)
  /\ unhashed' = unhashed \ {n} /\ fake' = fake \union {n}
  /\ UNCHANGED hashed
DeleteInitOffList(n) ==
  /\ n \in unhashed \union fake
  /\ hmem' = hlist_del_init(hmem, n)
  /\ unhashed' = unhashed \union {n} /\ fake' = fake \ {n}
  /\ UNCHANGED hashed

(* What is on the new list would be lost. *)
MoveList(old, new) ==
  /\ old # new /\ hashed[new] = <<>>
  /\ hmem' = hlist_move_list(hmem, old, new)
  /\ hashed' = [hashed EXCEPT ![new] = hashed[old], ![old] = <<>>]
  /\ UNCHANGED <<unhashed, fake>>

HashNext ==
  \/ \E n \in Nodes : HashInitialise(n) \/ AddFake(n) \/ DeleteInitOffList(n)
  \/ \E n \in Nodes, h \in Buckets : AddHead(n, h)
  \/ \E h \in Buckets : \E i \in DOMAIN hashed[h] :
       \/ HashDelete(h, i) \/ HashDeleteInit(h, i)
       \/ \E n \in Nodes : AddBefore(n, h, i) \/ AddBehind(n, h, i)
  \/ \E old, new \in Buckets : MoveList(old, new)

HashSpec == HashInit /\ [][HashNext]_hvars

-----------------------------------------------------------------------------
(* What nodes and heads are asked is answered as their lists are; a node   *)
(* that is fake seems to be on a list, and is on none.                     *)
AnswersAgree ==
  /\ \A n \in unhashed : hlist_unhashed(hmem, n) /\ ~hlist_fake(hmem, n)
  /\ \A n \in fake : ~hlist_unhashed(hmem, n) /\ hlist_fake(hmem, n)
  /\ \A h \in Buckets :
       /\ hlist_empty(hmem, h) <=> hashed[h] = <<>>
       /\ \A n \in Nodes : IsOn(n, h) =>
            /\ ~hlist_unhashed(hmem, n) /\ ~hlist_fake(hmem, n)
            /\ hlist_is_singular_node(hmem, n, h) <=> hashed[h] = <<n>>

(* Each list links its nodes in their order up to NULL, and each node      *)
(* points back at the cell that points at it, after every sequence of      *)
(* calls, with lists moved to other heads; the questions agree with it.    *)
CellBefore(h, i) == IF i = 1 THEN FirstOf(h) ELSE NextOf(hashed[h][i - 1])
Content(cell) == IF cell[1] = "first" THEN hmem.first[cell[2]] ELSE hmem.next[cell[2]]
WellHashed ==
  /\ AnswersAgree
  /\ \A h \in Buckets :
       /\ \A i \in DOMAIN hashed[h] :
            /\ Content(CellBefore(h, i)) = hashed[h][i]
            /\ hmem.pprev[hashed[h][i]] = CellBefore(h, i)
       /\ Content(CellBefore(h, Len(hashed[h]) + 1)) = NULL
=============================================================================
