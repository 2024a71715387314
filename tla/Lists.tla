-------------------------------- MODULE Lists -------------------------------
(***************************************************************************)
(* Programs that use list_head.h: any sequence of calls that keeps to its  *)
(* comments, with at most one list_for_each loop under way, the calls      *)
(* between its steps being the loop's body.                                *)
(*                                                                         *)
(* Next to the memory, the history variable `lists' has what the comments  *)
(* promise: lists[h] is the sequence of the nodes on the list of head h.   *)
(* A node that was initialised and is on no list, such as one after        *)
(* list_del_init, is the head of an empty one.  Nodes which are neither    *)
(* heads nor on a list are loose: their pointers mean nothing.             *)
(***************************************************************************)
EXTENDS ListHead, SequencesExt

VARIABLES
  mem,
  lists,   (* a function from the heads to sequences of nodes              *)
  loop     (* the loop under way, or NoLoop                                *)

vars == <<mem, lists, loop>>

Heads == DOMAIN lists
On(x, h) == \E i \in DOMAIN lists[h] : lists[h][i] = x
OnList(x) == \E h \in Heads : On(x, h)
(* Nothing is lost if x becomes a part of something else. *)
IsFree(x) == ~OnList(x) /\ (x \in Heads => lists[x] = <<>>)

Put(h, s) == [g \in Heads \union {h} |-> IF g = h THEN s ELSE lists[g]]
Drop(x) == [g \in Heads \ {x} |-> lists[g]]

-----------------------------------------------------------------------------
(* Loops: list_for_each_entry and its relatives.                           *)
(* `pos' and `n' are those of the code; pinned: the node pos has not been  *)
(* moved since it became the cursor; stale: n has.  Of the nodes that have *)
(* not been moved since the loop began, `done' are those it has visited,   *)
(* and `todo' those it has to.                                             *)

Kinds == [forward : BOOLEAN, safe : BOOLEAN]
NoLoop == [kind |-> "none"]
Loops ==
  [kind : Kinds, head : Nodes, pos : Nodes, n : Nodes, pinned : BOOLEAN,
   stale : BOOLEAN, done : SUBSET Nodes, todo : SUBSET Nodes]
Looping == loop # NoLoop

(* list_next_entry or list_prev_entry *)
Step(forward, p) == IF forward THEN mem.next[p] ELSE mem.prev[p]

(* The loop variables when pos becomes p. *)
At(l, p) ==
  [l EXCEPT !.pos = p,
            !.n = IF l.kind.safe /\ p \in Nodes THEN Step(l.kind.forward, p) ELSE @,
            !.pinned = TRUE, !.stale = FALSE,
            !.done = @ \union ({p} \intersect l.todo), !.todo = @ \ {p}]

(* What is behind the i-th node of s in the direction of the loop; 0 is    *)
(* the head.                                                               *)
Behind(s, i, forward) ==
  { s[j] : j \in { j \in DOMAIN s : i = 0 \/ (IF forward THEN j > i ELSE j < i) } }

(* list_for_each..., and the continue variants, which begin behind a given *)
(* node; list_prepare_entry makes the first of the second.                 *)
ForEach(h, i, kind) ==
  /\ ~Looping
  /\ i > 0 => kind.forward \/ ~kind.safe
  /\ LET from == IF i = 0 THEN h ELSE lists[h][i]
         todo == Behind(lists[h], i, kind.forward)
     IN loop' = At([kind |-> kind, head |-> h, pos |-> from, n |-> from, pinned |-> TRUE,
                    stale |-> FALSE, done |-> {}, todo |-> todo], Step(kind.forward, from))
  /\ UNCHANGED <<mem, lists>>

(* The from variants begin at the node itself. *)
ForEachFrom(h, i, kind) ==
  /\ ~Looping
  /\ kind.forward \/ ~kind.safe
  /\ LET from == lists[h][i]
         todo == {from} \union Behind(lists[h], i, kind.forward)
     IN loop' = At([kind |-> kind, head |-> h, pos |-> from, n |-> from, pinned |-> TRUE,
                    stale |-> FALSE, done |-> {}, todo |-> todo], from)
  /\ UNCHANGED <<mem, lists>>

(* The end of the body.  The safe variants have the next node already.     *)
Advance_Forward ==
  /\ Looping /\ loop.pos # loop.head /\ ~loop.stale
  /\ loop' = At(loop, IF loop.kind.safe THEN loop.n ELSE Step(TRUE, loop.pos))
  /\ UNCHANGED <<mem, lists>>
Advance_NextOfWrongWay ==
  /\ Looping /\ loop.pos # loop.head /\ ~loop.stale
  /\ loop' = IF loop.kind.safe
             THEN [At(loop, loop.n) EXCEPT !.n = Step(~loop.kind.forward, loop.n)]
             ELSE At(loop, Step(loop.kind.forward, loop.pos))
  /\ UNCHANGED <<mem, lists>>

Advance ==
  /\ Looping /\ loop.pos # loop.head /\ ~loop.stale
  /\ loop' = At(loop, IF loop.kind.safe THEN loop.n ELSE Step(loop.kind.forward, loop.pos))
  /\ UNCHANGED <<mem, lists>>

LoopEnds ==
  /\ Looping /\ loop.pos = loop.head
  /\ loop' = NoLoop
  /\ UNCHANGED <<mem, lists>>

(* The macro is for list_for_each_entry_safe: n is the next node, whatever *)
(* the direction of the loop.                                              *)
list_safe_reset_next ==
  /\ Looping /\ loop.kind.safe /\ loop.kind.forward
  /\ loop.pos # loop.head /\ loop.pinned
  /\ loop' = [loop EXCEPT !.n = Step(TRUE, loop.pos), !.stale = FALSE]
  /\ UNCHANGED <<mem, lists>>

(* A call that takes the nodes `moved' from where they are.  In a body the *)
(* head of the loop stays what it is; so does pos, or, in the safe         *)
(* variants, n, unless the loop goes forward, pos stays and                *)
(* list_safe_reset_next follows: the reverse ones cannot read n again.     *)
InBody(moved) ==
  LET pinned == loop.pinned /\ loop.pos \notin moved
      stale == loop.stale \/ loop.n \in moved
  IN /\ loop.pos # loop.head
     /\ loop.head \notin moved
     /\ IF loop.kind.safe THEN ~stale \/ (pinned /\ loop.kind.forward) ELSE pinned
     /\ loop' = [loop EXCEPT !.pinned = pinned, !.stale = loop.kind.safe /\ stale,
                             !.done = @ \ moved, !.todo = @ \ moved]
Call(m, ls, moved) ==
  /\ mem' = m
  /\ lists' = ls
  /\ IF Looping THEN InBody(moved) ELSE UNCHANGED loop

-----------------------------------------------------------------------------
(* The calls: what they do to the memory, and what they should.            *)

Initialise(x) ==
  /\ IsFree(x)
  /\ Call(INIT_LIST_HEAD(mem, x), Put(x, <<>>), {x} \ Heads)

Add(x, h) ==
  /\ IsFree(x) /\ x # h
  /\ Call(list_add(mem, x, h), [Drop(x) EXCEPT ![h] = <<x>> \o @], {x})
AddTail(x, h) ==
  /\ IsFree(x) /\ x # h
  /\ Call(list_add_tail(mem, x, h), [Drop(x) EXCEPT ![h] = @ \o <<x>>], {x})

(* For the i-th node of the list of h: *)
Delete(h, i) ==
  Call(list_del(mem, lists[h][i]), [lists EXCEPT ![h] = RemoveAt(@, i)], {lists[h][i]})
DeleteInit(h, i) ==
  LET x == lists[h][i]
  IN Call(list_del_init(mem, x), [Put(x, <<>>) EXCEPT ![h] = RemoveAt(@, i)], {x})
Move(h, i, g) ==
  LET x == lists[h][i]
      off == [lists EXCEPT ![h] = RemoveAt(@, i)]
  IN Call(list_move(mem, x, g), [off EXCEPT ![g] = <<x>> \o @], {x})
MoveTail(h, i, g) ==
  LET x == lists[h][i]
      off == [lists EXCEPT ![h] = RemoveAt(@, i)]
  IN Call(list_move_tail(mem, x, g), [off EXCEPT ![g] = @ \o <<x>>], {x})

Rotate(h) ==
  IF lists[h] = <<>> THEN Call(list_rotate_left(mem, h), lists, {})
  ELSE Call(list_rotate_left(mem, h), [lists EXCEPT ![h] = Tail(@) \o <<Head(@)>>],
            {lists[h][1]})

(* A node takes the place of another on its list ...                       *)
Replace(h, i, new) ==
  /\ IsFree(new) /\ new # h
  /\ Call(list_replace(mem, lists[h][i], new), [Drop(new) EXCEPT ![h][i] = new],
          {lists[h][i], new})
ReplaceInit(h, i, new) ==
  LET old == lists[h][i]
  IN /\ IsFree(new) /\ new # h
     /\ Call(list_replace_init(mem, old, new),
             [g \in (Heads \ {new}) \union {old} |->
                IF g = old THEN <<>>
                ELSE IF g = h THEN [lists[h] EXCEPT ![i] = new] ELSE lists[g]],
             {old, new})
(* ... or a head that of another head. *)
ReplaceHead(old, new) ==
  /\ IsFree(new) /\ new # old
  /\ Call(list_replace(mem, old, new),
          [g \in (Heads \ {old}) \union {new} |-> IF g = new THEN lists[old] ELSE lists[g]],
          {old, new} \union ToSet(lists[old]))
ReplaceHeadInit(old, new) ==
  /\ IsFree(new) /\ new # old
  /\ Call(list_replace_init(mem, old, new),
          [g \in Heads \union {new} |->
             IF g = new THEN lists[old] ELSE IF g = old THEN <<>> ELSE lists[g]],
          {new} \union ToSet(lists[old]))

(* The first i nodes go from the list of h to that of g, whose own are     *)
(* lost.  list_cut_position of an empty list leaves g alone.               *)
CutPosition(g, h, i) ==
  /\ g # h
  /\ Call(list_cut_position(mem, g, h, IF i = 0 THEN h ELSE lists[h][i]),
          IF lists[h] = <<>> THEN lists
          ELSE [lists EXCEPT ![g] = SubSeq(lists[h], 1, i),
                             ![h] = SubSeq(lists[h], i + 1, Len(lists[h]))],
          ToSet(lists[g]) \union { lists[h][j] : j \in 1..i })
(* The nodes before the i-th; all of them before the head.                 *)
CutBefore(g, h, i) ==
  /\ g # h
  /\ Call(list_cut_before(mem, g, h, IF i = Len(lists[h]) + 1 THEN h ELSE lists[h][i]),
          [lists EXCEPT ![g] = SubSeq(lists[h], 1, i - 1),
                        ![h] = SubSeq(lists[h], i, Len(lists[h]))],
          ToSet(lists[g]) \union { lists[h][j] : j \in 1..(i - 1) })

(* The nodes of g's list join that of h.  Unless it had none, g is no head *)
(* then before it is initialised.                                          *)
Emptied(g) == IF lists[g] = <<>> THEN {} ELSE {g}
Splice(g, h) ==
  /\ g # h
  /\ Call(list_splice(mem, g, h),
          [x \in Heads \ Emptied(g) |-> IF x = h THEN lists[g] \o lists[h] ELSE lists[x]],
          ToSet(lists[g]) \union Emptied(g))
SpliceTail(g, h) ==
  /\ g # h
  /\ Call(list_splice_tail(mem, g, h),
          [x \in Heads \ Emptied(g) |-> IF x = h THEN lists[h] \o lists[g] ELSE lists[x]],
          ToSet(lists[g]) \union Emptied(g))
SpliceInit(g, h) ==
  /\ g # h
  /\ Call(list_splice_init(mem, g, h),
          [lists EXCEPT ![h] = lists[g] \o @, ![g] = <<>>], ToSet(lists[g]))
SpliceTailInit(g, h) ==
  /\ g # h
  /\ Call(list_splice_tail_init(mem, g, h),
          [lists EXCEPT ![h] = @ \o lists[g], ![g] = <<>>], ToSet(lists[g]))

-----------------------------------------------------------------------------
Init ==
  /\ mem = [next |-> [x \in Nodes |-> NULL], prev |-> [x \in Nodes |-> NULL]]
  /\ lists = [x \in {} |-> <<>>]
  /\ loop = NoLoop

OfNode(h, i) ==
  \/ Delete(h, i) \/ DeleteInit(h, i)
  \/ \E g \in Heads : Move(h, i, g) \/ MoveTail(h, i, g)
  \/ \E new \in Nodes : Replace(h, i, new) \/ ReplaceInit(h, i, new)
OfHead(h) ==
  \/ Rotate(h)
  \/ \E x \in Nodes :
       Add(x, h) \/ AddTail(x, h) \/ ReplaceHead(h, x) \/ ReplaceHeadInit(h, x)
  \/ \E g \in Heads : Splice(g, h) \/ SpliceTail(g, h) \/ SpliceInit(g, h) \/ SpliceTailInit(g, h)
Cuts(g, h) ==
  \/ \E i \in 0..Len(lists[h]) : CutPosition(g, h, i)
  \/ \E i \in 1..(Len(lists[h]) + 1) : CutBefore(g, h, i)
LoopSteps ==
  \/ \E h \in Heads, kind \in Kinds : \E i \in DOMAIN lists[h] \union {0} : ForEach(h, i, kind)
  \/ \E h \in Heads, kind \in Kinds : \E i \in DOMAIN lists[h] : ForEachFrom(h, i, kind)
  \/ Advance \/ LoopEnds \/ list_safe_reset_next

Next ==
  \/ \E x \in Nodes : Initialise(x)
  \/ \E h \in Heads :
       \/ OfHead(h)
       \/ \E i \in DOMAIN lists[h] : OfNode(h, i)
       \/ \E g \in Heads : Cuts(g, h)
  \/ LoopSteps

Spec == Init /\ [][Next]_vars
=============================================================================
