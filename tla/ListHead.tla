------------------------------- MODULE ListHead -----------------------------
(***************************************************************************)
(* The functions of list_head.h (the same file in the three programs) on   *)
(* circular doubly linked lists, as operators: m is the memory they are    *)
(* called in, and the one they leave behind is the value.                  *)
(*                                                                         *)
(* A node is a struct list_head, in a process, in a resource or on its     *)
(* own; container_of, which gets from a node to what it is in, is left     *)
(* out.  The exceptions of EXCEPT are made one after the other, like the   *)
(* assignments of the code.                                                *)
(***************************************************************************)
EXTENDS Integers, Sequences

CONSTANTS Nodes, NULL, LIST_POISON1, LIST_POISON2

ASSUME PoisonAssumption == {NULL, LIST_POISON1, LIST_POISON2} \intersect Nodes = {}

Pointers == Nodes \union {NULL, LIST_POISON1, LIST_POISON2}
Memory == [next : [Nodes -> Pointers], prev : [Nodes -> Pointers]]

INIT_LIST_HEAD(m, list) == [m EXCEPT !.next[list] = list, !.prev[list] = list]

list_add_between(m, new, prev, next) ==
  [m EXCEPT !.prev[next] = new, !.next[new] = next, !.prev[new] = prev, !.next[prev] = new]
list_add(m, new, head) == list_add_between(m, new, head, m.next[head])
list_add_tail(m, new, head) == list_add_between(m, new, m.prev[head], head)

list_del_between(m, prev, next) == [m EXCEPT !.prev[next] = prev, !.next[prev] = next]
list_del_entry(m, entry) == list_del_between(m, m.prev[entry], m.next[entry])
list_del(m, entry) ==
  [list_del_entry(m, entry) EXCEPT !.next[entry] = LIST_POISON1, !.prev[entry] = LIST_POISON2]
list_del_init(m, entry) == INIT_LIST_HEAD(list_del_entry(m, entry), entry)

(* "If @old was empty, it will be overwritten": old->prev is read after    *)
(* new->next->prev was written, which is the same then.                    *)
list_replace_ReadsFirst(m, old, new) ==
  [m EXCEPT !.next[new] = m.next[old], !.prev[m.next[old]] = new,
            !.prev[new] = m.prev[old], !.next[m.prev[old]] = new]

list_replace(m, old, new) ==
  LET forward == [m EXCEPT !.next[new] = m.next[old], !.prev[m.next[old]] = new]
  IN [forward EXCEPT !.prev[new] = forward.prev[old], !.next[forward.prev[old]] = new]
list_replace_init(m, old, new) == INIT_LIST_HEAD(list_replace(m, old, new), old)

list_move(m, list, head) == list_add(list_del_entry(m, list), list, head)
list_move_tail(m, list, head) == list_add_tail(list_del_entry(m, list), list, head)

list_is_last(m, list, head) == m.next[list] = head
list_empty(m, head) == m.next[head] = head
list_empty_careful(m, head) == m.next[head] = head /\ m.prev[head] = head
list_is_singular_OrEmpty(m, head) == m.next[head] = m.prev[head]
list_is_singular(m, head) == ~list_empty(m, head) /\ m.next[head] = m.prev[head]

list_first_entry(m, head) == m.next[head]
list_last_entry(m, head) == m.prev[head]
list_first_entry_or_null(m, head) ==
  IF m.next[head] # head THEN m.next[head] ELSE NULL

list_rotate_left(m, head) ==
  IF list_empty(m, head) THEN m ELSE list_move_tail(m, m.next[head], head)

cut_position(m, list, head, entry) ==
  [m EXCEPT !.next[list] = m.next[head], !.prev[m.next[head]] = list,
            !.prev[list] = entry, !.next[entry] = list,
            !.next[head] = m.next[entry], !.prev[m.next[entry]] = head]
list_cut_position(m, list, head, entry) ==
  IF \/ list_empty(m, head)
     \/ list_is_singular(m, head) /\ m.next[head] # entry /\ head # entry
  THEN m
  ELSE IF entry = head THEN INIT_LIST_HEAD(m, list)
  ELSE cut_position(m, list, head, entry)

list_cut_before(m, list, head, entry) ==
  IF m.next[head] = entry THEN INIT_LIST_HEAD(m, list)
  ELSE [m EXCEPT !.next[list] = m.next[head], !.prev[m.next[head]] = list,
                 !.prev[list] = m.prev[entry], !.next[m.prev[entry]] = list,
                 !.next[head] = entry, !.prev[entry] = head]

splice_between(m, list, prev, next) ==
  [m EXCEPT !.prev[m.next[list]] = prev, !.next[prev] = m.next[list],
            !.next[m.prev[list]] = next, !.prev[next] = m.prev[list]]
list_splice(m, list, head) ==
  IF list_empty(m, list) THEN m ELSE splice_between(m, list, head, m.next[head])
list_splice_tail(m, list, head) ==
  IF list_empty(m, list) THEN m ELSE splice_between(m, list, m.prev[head], head)
list_splice_init(m, list, head) ==
  IF list_empty(m, list) THEN m
  ELSE INIT_LIST_HEAD(splice_between(m, list, head, m.next[head]), list)
list_splice_tail_init(m, list, head) ==
  IF list_empty(m, list) THEN m
  ELSE INIT_LIST_HEAD(splice_between(m, list, m.prev[head], head), list)
=============================================================================
