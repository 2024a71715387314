------------------------------ MODULE ListProps -----------------------------
(* What list_head.h promises to those who keep to its comments.            *)
EXTENDS Lists

(* Type correctness: a node is on one list at most, once, and no head is   *)
(* on a list.                                                              *)
Apart ==
  /\ \A g, h \in Heads : \A i \in DOMAIN lists[g], j \in DOMAIN lists[h] :
       lists[g][i] = lists[h][j] => g = h /\ i = j
  /\ \A g, h \in Heads : ~On(g, h)
TypeOK ==
  /\ mem \in Memory
  /\ Heads \subseteq Nodes
  /\ \A h \in Heads : lists[h] \in Seq(Nodes)
  /\ loop \in Loops \union {NoLoop}
  /\ Apart

(* The ring of the head h with the nodes s: both pointers of neighbours    *)
(* agree, all the way round.                                               *)
Place(h, s, i) == IF i \in DOMAIN s THEN s[i] ELSE h
Ring(m, h, s) ==
  \A i \in 0..Len(s) :
    /\ m.next[Place(h, s, i)] = Place(h, s, i + 1)
    /\ m.prev[Place(h, s, i + 1)] = Place(h, s, i)

(* After every sequence of calls the pointers of each list link exactly    *)
(* the nodes that the comments of the functions promise, in that order,    *)
(* forwards and backwards.                                                 *)
WellLinked == \A h \in Heads : Ring(mem, h, lists[h])

(* The questions are answered accordingly, also for a node that is on no   *)
(* list: sched.c:255 asks list_empty of one.                               *)
QueriesAgree ==
  \A h \in Heads :
    LET s == lists[h] IN
    /\ list_empty(mem, h) <=> s = <<>>
    /\ list_empty_careful(mem, h) <=> s = <<>>
    /\ list_is_singular(mem, h) <=> Len(s) = 1
    /\ list_first_entry_or_null(mem, h) = IF s = <<>> THEN NULL ELSE s[1]
    /\ s # <<>> => list_first_entry(mem, h) = s[1] /\ list_last_entry(mem, h) = s[Len(s)]
    /\ \A i \in DOMAIN s : list_is_last(mem, s[i], h) <=> i = Len(s)

(* A loop whose body keeps to the rules has visited, when it ends, every   *)
(* node that stayed on the list from its beginning ...                     *)
VisitsAll == Looping /\ loop.pos = loop.head => loop.todo = {}

(* ... and visits none of them twice.                                      *)
VisitsOnce == [][Looping /\ loop' # NoLoop /\ loop'.pos # loop.pos => loop'.pos \notin loop.done]_loop
=============================================================================
