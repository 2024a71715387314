---------------------------- MODULE PolicyProps -----------------------------
(***************************************************************************)
(* What each scheduling policy of os-pa2/pa2.c promises, as properties of  *)
(* the simulator running it.  README.md of os-pa2 states most of them      *)
(* ("Scheduling Policies"); each is guarded by the scheduler it is about.  *)
(***************************************************************************)
EXTENDS Simulator

(* p is created and has not exited. *)
Live(p) == ~InQueue(p, forkqueue) /\ status[p] # "EXIT"

Waiting(p) == status[p] = "BLOCKED"

(* The intervals [at, at + duration) of ages in which p uses resources.    *)
Overlap(d, e) == d.at < e.at + e.duration /\ e.at < d.at + d.duration
OneAtATime(p) ==
  \A i, j \in DOMAIN script[p].acquires :
    i # j => ~Overlap(script[p].acquires[i], script[p].acquires[j])
NoOverlap == \A p \in Procs : OneAtATime(p)
NoResources == \A p \in Procs : script[p].acquires = <<>>

(* p never asks for a resource it is still using. *)
NoReacquire ==
  \A p \in Procs : \A i, j \in DOMAIN script[p].acquires :
    i # j /\ script[p].acquires[i].res = script[p].acquires[j].res
      => ~Overlap(script[p].acquires[i], script[p].acquires[j])

AllWellFormed == \A p \in Procs : WellFormed(script[p])

-----------------------------------------------------------------------------
(* FIFO: processes exit in the order they were created (by their start     *)
(* tick, then by their place in the script).                               *)
CreatedBefore(q, p) ==
  \/ script[q].start < script[p].start
  \/ script[q].start = script[p].start /\ q < p
FifoExitOrder ==
  sched = "fifo" /\ AllWellFormed /\ NoReacquire =>
    \A p, q \in Procs :
      status[p] = "EXIT" /\ CreatedBefore(q, p) => status[q] = "EXIT"

(* SJF: the running process, which got the CPU age ticks ago and has kept  *)
(* it, is no longer than any process that existed then.                    *)
SjfShortestAtDispatch ==
  sched = "sjf" /\ AllWellFormed /\ NoReacquire /\ current # NULL /\ pc = "acquire" =>
    \A q \in Procs :
      Live(q) /\ script[q].start <= ticks - age[current] =>
        lifespan(current) <= lifespan(q)

(* STCF: whoever runs has the least left to run, although the scheduler    *)
(* compares only at some of its exits; and it only loses the CPU before    *)
(* it is finished to a process that has strictly less left.                *)
HasLeastRemaining ==
  \A k \in DOMAIN readyqueue : Remaining(current) <= Remaining(readyqueue[k])
StcfLeastRemaining ==
  [][ sched = "stcf" =>
        /\ pc' = "acquire" => HasLeastRemaining'
        /\ CanStay /\ current' # current
             => current' # NULL /\ Remaining(current') < Remaining(current) ]_vars

(* Round-robin: of two processes created at the same tick, neither gets    *)
(* more than one tick ahead of the other before it finishes, whatever else *)
(* arrives or leaves meanwhile.  Priority: "If two or more processes are   *)
(* with the same priority, they should be swiched on each tick" (README),  *)
(* so equal priorities share the CPU in the same way, also when a higher   *)
(* priority preempts them.                                                 *)
Peers(p, q) ==
  /\ script[p].start = script[q].start
  /\ Live(p) /\ Live(q)
  /\ Unfinished(p) /\ Unfinished(q)
FairShare ==
  NoResources =>
    \A p, q \in Procs :
      /\ Peers(p, q)
      /\ sched = "rr" \/ (sched = "prio" /\ prio_orig(p) = prio_orig(q))
      => age[p] - age[q] <= 1

(* A running process has the highest effective priority of those that      *)
(* could run (when its tick starts), with the boosts of PCP and PIP.       *)
HighestRuns ==
  sched \in {"prio", "pcp", "pip"} /\ pc = "acquire" =>
    \A k \in DOMAIN readyqueue : prio[current] >= prio[readyqueue[k]]

(* Aging: a waiting process gains one unit at each scheduling moment, and  *)
(* no process waits long enough to get N - 1 units past the highest        *)
(* priority of the script: nobody starves.                                 *)
TopPrio == CHOOSE m \in { prio_orig(p) : p \in Procs } :
             \A p \in Procs : prio_orig(p) <= m
AgingBoundsWait ==
  sched = "pa" => \A p \in Procs : prio[p] <= TopPrio + (N - 1)

(* Some policies keep processes from ever finding a resource taken,        *)
(* although uses of different processes overlap in every order.  FIFO and  *)
(* SJF are not preemptive: whoever has the CPU keeps it until it has run   *)
(* for its lifespan (nobody asking for what it is already using).  PCP     *)
(* (uses of one process do not overlap, priorities are below the ceiling): *)
(* the holder of a resource keeps the CPU.                                 *)
NeverBlocks ==
  AllWellFormed =>
    /\ sched \in {"fifo", "sjf"} /\ NoReacquire => \A p \in Procs : ~Waiting(p)
    /\ sched = "pcp" /\ NoOverlap /\ (\A p \in Procs : prio_orig(p) < MAX_PRIO) =>
         /\ \A p \in Procs : ~Waiting(p)
         /\ \A r \in Resources : owner[r] # NULL => owner[r] = current

(* PIP: a process has exactly the highest of its own priority and those of *)
(* the processes waiting for what it holds.                                *)
InheritedFrom(p) ==
  {p} \union { w \in Procs : \E r \in Resources :
                 owner[r] = p /\ InQueue(w, waitqueue[r]) }
PipInherits ==
  sched = "pip" =>
    \A p \in Procs :
      /\ \A w \in InheritedFrom(p) \ {p} : prio[p] >= prio[w]
      /\ prio[p] >= prio_orig(p)
      /\ \/ prio[p] = prio_orig(p)
         \/ \E w \in InheritedFrom(p) \ {p} : prio[p] = prio[w]

(* README.md:72: "The priority can be boosted up to MAX_PRIO". *)
AgingStaysBelowCeiling ==
  sched = "pa" /\ (\A p \in Procs : prio_orig(p) <= MAX_PRIO)
    => \A p \in Procs : prio[p] <= MAX_PRIO

(* Processes that use one resource at a time all exit, under every         *)
(* scheduler that keeps its lists intact.                                  *)
EveryoneExits ==
  pc = "done" /\ AllWellFormed /\ NoOverlap => \A p \in Procs : status[p] = "EXIT"
=============================================================================
