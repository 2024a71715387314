----------------------------- MODULE GrantOrder -----------------------------
(***************************************************************************)
(* In which order competing requests for a resource are served.  The       *)
(* release() callbacks of os-pa2/pa2.c wake one waiter but leave the       *)
(* resource free: whoever runs first takes it.  This module watches the    *)
(* simulator and remembers, for each resource, which processes have been   *)
(* refused it and not got it yet, in the order of their first refusal.     *)
(***************************************************************************)
EXTENDS Simulator

VARIABLE
  asked        (* asked[r]: the processes whose request for r is pending   *)

gvars == <<vars, asked>>

GInit == Init /\ asked = [r \in Resources |-> <<>>]

(* p is in q once at most. *)
Without(q, p) ==
  IF InQueue(p, q) THEN RemoveAt(q, CHOOSE i \in DOMAIN q : q[i] = p) ELSE q

Granted(r) == owner[r] = NULL /\ owner'[r] # NULL

(* What one step of the simulator does to the pending requests for r. *)
Pending(r) ==
  LET refused == waitqueue'[r] # waitqueue[r] /\ InQueue(current, waitqueue'[r])
  IN IF Granted(r) THEN Without(asked[r], owner'[r])
     ELSE IF refused /\ ~InQueue(current, asked[r]) THEN Append(asked[r], current)
     ELSE asked[r]

GNext == Next /\ asked' = [r \in Resources |-> Pending(r)]

GSpec == GInit /\ [][GNext]_gvars /\ WF_vars(Next)

PriorityServed == sched \in {"prio", "pip"}

(* "priority-based scheduling policies should dispatch the released        *)
(* resource to the process with the highest priority" (README.md:60): no   *)
(* pending request is that of a process whose script gives it a higher     *)
(* priority than the one has that is granted.                              *)
GrantToHighest ==
  [][ \A r \in Resources : PriorityServed /\ Granted(r) =>
        \A k \in DOMAIN asked[r] : prio_orig(asked[r][k]) <= prio[owner'[r]] ]_gvars

(* The same of the priorities that processes have inherited.  Under PIP a  *)
(* process can inherit one while it waits for a resource for which another *)
(* has been woken, and nothing corrects that choice.                       *)
GrantToHighestInherited ==
  [][ \A r \in Resources : PriorityServed /\ Granted(r) =>
        \A k \in DOMAIN asked[r] : prio[asked[r][k]] <= prio[owner'[r]] ]_gvars

(* "If two processes with the same priority are requesting the same        *)
(* resource, the one came earlier receives the resource" (README.md:60):   *)
(* of the pending requests of that priority the first one is granted, and  *)
(* a process with no pending request does not overtake them.               *)
EarlierOfEqualsFirst ==
  [][ \A r \in Resources : PriorityServed /\ Granted(r) =>
        \A k \in DOMAIN asked[r] :
          prio[asked[r][k]] = prio[owner'[r]] =>
            \E j \in 1..k : asked[r][j] = owner'[r] ]_gvars
=============================================================================
