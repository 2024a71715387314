------------------------------ MODULE Policies ------------------------------
(***************************************************************************)
(* The scheduling policies of os-pa2/pa2.c: for each `struct scheduler' the *)
(* schedule(), acquire() and release() callbacks, as the part of a step    *)
(* they decide.  schedule() decides current, the ready queue and the       *)
(* priorities; acquire() and release() decide the owner, the queues, the   *)
(* status of a process and the priorities.                                 *)
(*                                                                         *)
(* A definition named X_Y is a mutation of X: the same callback with the   *)
(* mistake Y in it.  Nothing uses the mutations but the checks that the    *)
(* properties of Simulator and PolicyProps would notice such a mistake.    *)
(***************************************************************************)
EXTENDS SchedState

-----------------------------------------------------------------------------
(* Choosing from a queue.  Each scan keeps the first of the best entries,  *)
(* because it replaces its candidate only by a strictly better one.        *)

FirstShortestJob_NoScan(i) == i \in DOMAIN readyqueue /\ i = 1

FirstShortestJob(i) ==
  /\ i \in DOMAIN readyqueue
  /\ \A j \in DOMAIN readyqueue :
       /\ lifespan(readyqueue[i]) <= lifespan(readyqueue[j])
       /\ j < i => lifespan(readyqueue[i]) < lifespan(readyqueue[j])

FirstHighest(q, pr, i) ==
  /\ i \in DOMAIN q
  /\ \A j \in DOMAIN q : /\ pr[q[i]] >= pr[q[j]]
                         /\ j < i => pr[q[i]] > pr[q[j]]

-----------------------------------------------------------------------------
(* The outcomes of schedule().                                             *)

(* `!current || current->status == PROCESS_BLOCKED' is false. *)
OnCpu == current # NULL /\ status[current] # "BLOCKED"
CanStay == OnCpu /\ Unfinished(current)

(* return current *)
Stay == /\ current' = current
        /\ UNCHANGED readyqueue

(* The ready queue is empty and next is still NULL. *)
PickNobody == /\ readyqueue = <<>>
              /\ current' = NULL
              /\ UNCHANGED readyqueue

Switch_NotDetached(i, requeue) ==
  current' = readyqueue[i] /\ readyqueue' = readyqueue \o requeue
Switch_RequeuedAtHead(i, requeue) ==
  current' = readyqueue[i] /\ readyqueue' = requeue \o RemoveAt(readyqueue, i)

(* Take the i-th process off the ready queue, and put requeue at its tail. *)
Switch(i, requeue) ==
  /\ current' = readyqueue[i]
  /\ readyqueue' = RemoveAt(readyqueue, i) \o requeue

(* What rr_schedule and stcf_schedule put back: a current with life left,  *)
(* whatever its status.                                                    *)
CurrentIfAlive ==
  IF current # NULL /\ Unfinished(current) THEN <<current>> ELSE <<>>

(* What the priority schedulers put back: not if it is blocked. *)
CurrentIfRunnable == IF CanStay THEN <<current>> ELSE <<>>

-----------------------------------------------------------------------------
(* The schedule() callbacks. *)

fifo_schedule ==
  /\ \/ CanStay /\ Stay
     \/ ~CanStay /\ PickNobody
     \/ ~CanStay /\ readyqueue # <<>> /\ Switch(1, <<>>)
  /\ UNCHANGED prio

sjf_schedule ==
  /\ \/ CanStay /\ Stay
     \/ ~CanStay /\ PickNobody
     \/ ~CanStay /\ \E i \in DOMAIN readyqueue : FirstShortestJob(i) /\ Switch(i, <<>>)
  /\ UNCHANGED prio

TimeToBeat_WholeLifespan == IF CanStay THEN lifespan(current) ELSE MAX_TC
TimeToBeat_LowInfinity == IF CanStay THEN Remaining(current) ELSE MAX_TC - 1

(* The remaining time a candidate has to beat. *)
TimeToBeat == IF CanStay THEN Remaining(current) ELSE MAX_TC

FirstShortestToComplete(i) ==
  /\ i \in DOMAIN readyqueue
  /\ Remaining(readyqueue[i]) < TimeToBeat
  /\ \A j \in DOMAIN readyqueue :
       /\ Remaining(readyqueue[i]) <= Remaining(readyqueue[j])
       /\ j < i => Remaining(readyqueue[i]) < Remaining(readyqueue[j])

stcf_schedule ==
  /\ \/ ~CanStay /\ PickNobody
     \/ /\ CanStay \/ readyqueue # <<>>
        /\ \A j \in DOMAIN readyqueue : Remaining(readyqueue[j]) >= TimeToBeat
        /\ Stay
     \/ \E i \in DOMAIN readyqueue :
          FirstShortestToComplete(i) /\ Switch(i, CurrentIfAlive)
  /\ UNCHANGED prio

rr_schedule ==
  /\ \/ CanStay /\ readyqueue = <<>> /\ Stay
     \/ ~CanStay /\ PickNobody
     \/ readyqueue # <<>> /\ Switch(1, CurrentIfAlive)
  /\ UNCHANGED prio

prio_schedule_NotPreemptive ==
  /\ \/ CanStay /\ Stay
     \/ ~CanStay /\ PickNobody
     \/ ~CanStay /\ \E i \in DOMAIN readyqueue :
                      FirstHighest(readyqueue, prio, i) /\ Switch(i, <<>>)
  /\ UNCHANGED prio

prio_schedule ==
  /\ \/ CanStay /\ readyqueue = <<>> /\ Stay
     \/ ~CanStay /\ PickNobody
     \/ \E i \in DOMAIN readyqueue :
          /\ FirstHighest(readyqueue, prio, i)
          /\ \/ CanStay /\ prio[current] > prio[readyqueue[i]] /\ Stay
             \/ /\ ~(CanStay /\ prio[current] > prio[readyqueue[i]])
                /\ Switch(i, CurrentIfRunnable)
  /\ UNCHANGED prio

(* ++pos->prio for every process in the ready queue *)
AgedPrio ==
  [p \in Procs |-> IF InQueue(p, readyqueue) THEN prio[p] + 1 ELSE prio[p]]

pa_schedule_NoReset ==
  \/ CanStay /\ readyqueue = <<>> /\ Stay /\ UNCHANGED prio
  \/ ~CanStay /\ PickNobody /\ UNCHANGED prio
  \/ \E i \in DOMAIN readyqueue :
       /\ FirstHighest(readyqueue, AgedPrio, i)
       /\ Switch(i, CurrentIfRunnable)
       /\ prio' = AgedPrio

pa_schedule ==
  \/ CanStay /\ readyqueue = <<>> /\ Stay /\ UNCHANGED prio
  \/ ~CanStay /\ PickNobody /\ UNCHANGED prio
  \/ \E i \in DOMAIN readyqueue :
       LET next == readyqueue[i] IN
       /\ FirstHighest(readyqueue, AgedPrio, i)
       /\ \/ CanStay /\ prio[current] > AgedPrio[next] /\ Stay /\ prio' = AgedPrio
          \/ /\ ~(CanStay /\ prio[current] > AgedPrio[next])
             /\ Switch(i, CurrentIfRunnable)
             /\ prio' = [AgedPrio EXCEPT ![next] = prio_orig(next)]

(* sched->schedule(): pcp and pip schedule as prio does. *)
schedule ==
  \/ sched = "fifo" /\ fifo_schedule
  \/ sched = "sjf" /\ sjf_schedule
  \/ sched = "stcf" /\ stcf_schedule
  \/ sched = "rr" /\ rr_schedule
  \/ sched \in {"prio", "pcp", "pip"} /\ prio_schedule
  \/ sched = "pa" /\ pa_schedule

-----------------------------------------------------------------------------
(* The acquire() callbacks.  They return true exactly when the resource    *)
(* has no owner; the framework's steps tell the two cases apart by that.   *)

Take(r) ==
  /\ owner[r] = NULL
  /\ owner' = [owner EXCEPT ![r] = current]
  /\ UNCHANGED <<status, waitqueue>>

Wait(r) ==
  /\ owner[r] # NULL
  /\ status' = [status EXCEPT ![current] = "BLOCKED"]
  /\ waitqueue' = [waitqueue EXCEPT ![r] = Append(@, current)]
  /\ UNCHANGED owner

(* fcfs_acquire and prio_acquire are the same code. *)
fcfs_acquire(r) == (Take(r) \/ Wait(r)) /\ UNCHANGED prio
prio_acquire(r) == (Take(r) \/ Wait(r)) /\ UNCHANGED prio

pcp_acquire_NoBoost(r) == (Take(r) \/ Wait(r)) /\ UNCHANGED prio

pcp_acquire(r) ==
  \/ Take(r) /\ prio' = [prio EXCEPT ![current] = MAX_PRIO]
  \/ Wait(r) /\ UNCHANGED prio

(* The owner inherits the priority of the process it blocks. *)
pip_acquire(r) ==
  \/ Take(r) /\ UNCHANGED prio
  \/ /\ Wait(r)
     /\ IF prio[owner[r]] < prio[current]
        THEN prio' = [prio EXCEPT ![owner[r]] = prio[current]]
        ELSE UNCHANGED prio

(* sched->acquire(r) *)
acquire(r) ==
  \/ sched \in FcfsSchedulers /\ fcfs_acquire(r)
  \/ sched \in PrioSchedulers /\ prio_acquire(r)
  \/ sched = "pcp" /\ pcp_acquire(r)
  \/ sched = "pip" /\ pip_acquire(r)

-----------------------------------------------------------------------------
(* The release() callbacks.  Every one of them asserts that current owns   *)
(* the resource, un-owns it and wakes one waiter, if there is one: the     *)
(* waiter goes to the tail of the ready queue without the resource, and    *)
(* asks for it again when it runs.                                         *)

Wake(r, i) ==
  LET waiter == waitqueue[r][i] IN
  /\ status[waiter] = "BLOCKED"                   \* assert
  /\ waitqueue' = [waitqueue EXCEPT ![r] = RemoveAt(@, i)]
  /\ status' = [status EXCEPT ![waiter] = "READY"]
  /\ readyqueue' = Append(readyqueue, waiter)

WakeNobody(r) ==
  /\ waitqueue[r] = <<>>
  /\ UNCHANGED <<waitqueue, status, readyqueue>>

Disown_Forgotten(r) == owner[r] = current /\ UNCHANGED owner

Disown(r) ==
  /\ owner[r] = current                           \* assert
  /\ owner' = [owner EXCEPT ![r] = NULL]

WakeHighest_FirstCome(r) ==
  \/ WakeNobody(r)
  \/ waitqueue[r] # <<>> /\ Wake(r, 1)
WakeHighest_OnlyIfHigher(r) ==
  \/ \E i \in DOMAIN waitqueue[r] :
       /\ FirstHighest(waitqueue[r], prio, i)
       /\ prio[waitqueue[r][i]] > prio[current]
       /\ Wake(r, i)
  \/ /\ \A i \in DOMAIN waitqueue[r] : prio[waitqueue[r][i]] <= prio[current]
     /\ UNCHANGED <<waitqueue, status, readyqueue>>

WakeHighest(r) ==
  \/ WakeNobody(r)
  \/ \E i \in DOMAIN waitqueue[r] :
       FirstHighest(waitqueue[r], prio, i) /\ Wake(r, i)

fcfs_release(r) ==
  /\ Disown(r)
  /\ \/ WakeNobody(r)
     \/ waitqueue[r] # <<>> /\ Wake(r, 1)
  /\ UNCHANGED prio

prio_release(r) == Disown(r) /\ WakeHighest(r) /\ UNCHANGED prio

DropPriority_Never == UNCHANGED prio

DropPriority == prio' = [prio EXCEPT ![current] = prio_orig(current)]

pcp_release(r) == DropPriority /\ Disown(r) /\ WakeHighest(r)
pip_release(r) == DropPriority /\ Disown(r) /\ WakeHighest(r)

(* sched->release(r) *)
release(r) ==
  \/ sched \in FcfsSchedulers /\ fcfs_release(r)
  \/ sched \in PrioSchedulers /\ prio_release(r)
  \/ sched = "pcp" /\ pcp_release(r)
  \/ sched = "pip" /\ pip_release(r)
=============================================================================
