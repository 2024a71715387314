----------------------------- MODULE Simulator ------------------------------
(***************************************************************************)
(* The scheduling framework of os-pa2/sched.c.  main loads a script, then  *)
(* __do_simulation repeats one tick: fork what is due, ask the scheduler   *)
(* for the next process, retire the previous one, and run the next one:    *)
(* acquire what it needs at this age, and if it got everything, age it by  *)
(* a tick and release what it has used for long enough.                    *)
(*                                                                         *)
(* pc names the part of the loop that comes next:                          *)
(*   "fork" "schedule" "retire" "dispatch" "acquire" "release"             *)
(* The program ends in                                                     *)
(*   "done"     the loop quit: nothing is running, ready or to be forked   *)
(*   "abort"    an assertion of __exit_process failed                      *)
(* and the model stops, although the program does not, in                  *)
(*   "corrupt"  schedule() put a process that waits for a resource into    *)
(*              the ready queue: its one list node is in two lists, and    *)
(*              neither of them is a list any more.  The program goes on   *)
(*              with them: it may come to the quit branch all the same,    *)
(*              fail an assertion of a release(), or loop for ever.        *)
(***************************************************************************)
EXTENDS Policies

(* As in Policies, a definition named X_Y is the mutation Y of X. *)

Phases == {"fork", "schedule", "retire", "dispatch", "acquire", "release"}
Ends == {"done", "abort"}

(* Where the model takes no more steps. *)
Halts == Ends \union {"corrupt"}

-----------------------------------------------------------------------------
(* __initialize, __load_script and the `static' initial values.            *)
Init ==
  /\ sched \in Schedulers
  /\ script \in Scripts
  /\ pc = "fork"
  /\ ticks = 0
  /\ current = NULL
  /\ prev = NULL
  /\ forkqueue = [p \in Procs |-> p]
  /\ readyqueue = <<>>
  /\ waitqueue = [r \in Resources |-> <<>>]
  /\ owner = [r \in Resources |-> NULL]
  /\ status = [p \in Procs |-> "READY"]
  /\ age = [p \in Procs |-> 0]
  /\ prio = [p \in Procs |-> script[p].prio]
  /\ to_acquire = [p \in Procs |-> script[p].acquires]
  /\ holding = [p \in Procs |-> <<>>]

-----------------------------------------------------------------------------
(* __fork_on_schedule: the processes whose time has come move from the     *)
(* fork queue to the ready queue, one step for each, in the order of the   *)
(* script file.  No scheduler has a forked() callback.                     *)
Due(p) == script[p].start <= ticks

ForkOnSchedule_AtHead ==
  /\ pc = "fork"
  /\ \E i \in DOMAIN forkqueue :
       LET p == forkqueue[i] IN
       /\ Due(p) /\ \A j \in 1..(i - 1) : ~Due(forkqueue[j])
       /\ forkqueue' = RemoveAt(forkqueue, i)
       /\ readyqueue' = <<p>> \o readyqueue
       /\ status' = [status EXCEPT ![p] = "READY"]
  /\ UNCHANGED <<sched, script, pc, ticks, current, prev, waitqueue, owner, age,
                 prio, to_acquire, holding>>

ForkOnSchedule ==
  /\ pc = "fork"
  /\ \E i \in DOMAIN forkqueue :
       LET p == forkqueue[i] IN
       /\ Due(p) /\ \A j \in 1..(i - 1) : ~Due(forkqueue[j])
       /\ forkqueue' = RemoveAt(forkqueue, i)
       /\ readyqueue' = Append(readyqueue, p)
       /\ status' = [status EXCEPT ![p] = "READY"]
  /\ UNCHANGED <<sched, script, pc, ticks, current, prev, waitqueue, owner, age,
                 prio, to_acquire, holding>>

(* Everything due is forked. *)
ForkDone ==
  /\ pc = "fork"
  /\ \A i \in DOMAIN forkqueue : ~Due(forkqueue[i])
  /\ pc' = "schedule"
  /\ UNCHANGED <<sched, script, ticks, current, prev, forkqueue, readyqueue,
                 waitqueue, owner, status, age, prio, to_acquire, holding>>

(* prev = current; current = sched->schedule(); *)
Schedule ==
  /\ pc = "schedule"
  /\ schedule
  /\ prev' = current
  /\ pc' = IF \E p \in Procs : LinkedTwice(p, readyqueue') THEN "corrupt" ELSE "retire"
  /\ UNCHANGED <<sched, script, ticks, forkqueue, waitqueue, owner, status, age,
                 to_acquire, holding>>

(* Update the status of the process of the previous tick, and let it exit  *)
(* if it has run for its lifespan.  No scheduler has an exiting() callback. *)
Finished(p) == age[p] = lifespan(p)

CanExit_NotCheckingHolding(p) == to_acquire[p] = <<>>

(* The three assertions of __exit_process. *)
CanExit(p) ==
  /\ ~InQueue(p, forkqueue) /\ ~InQueue(p, readyqueue)
  /\ \A r \in Resources : ~InQueue(p, waitqueue[r])
  /\ holding[p] = <<>>
  /\ to_acquire[p] = <<>>

Retire ==
  /\ pc = "retire"
  /\ \/ /\ prev # NULL /\ Finished(prev)
        /\ status' = [status EXCEPT ![prev] = "EXIT"]
        /\ pc' = IF CanExit(prev) THEN "dispatch" ELSE "abort"
     \/ /\ prev # NULL /\ ~Finished(prev)
        /\ status' = [status EXCEPT ![prev] = IF @ = "RUNNING" THEN "READY" ELSE @]
        /\ pc' = "dispatch"
     \/ prev = NULL /\ UNCHANGED status /\ pc' = "dispatch"
  /\ UNCHANGED <<sched, script, ticks, current, prev, forkqueue, readyqueue,
                 waitqueue, owner, age, prio, to_acquire, holding>>

Dispatch_WaitsForBlocked ==
  /\ pc = "dispatch"
  /\ \/ /\ current # NULL
        /\ status' = [status EXCEPT ![current] = "RUNNING"]
        /\ pc' = "acquire"
     \/ /\ current = NULL /\ \E p \in Procs : status[p] # "EXIT"
        /\ pc' = "fork"
        /\ UNCHANGED status
     \/ /\ current = NULL /\ \A p \in Procs : status[p] = "EXIT"
        /\ pc' = "done"
        /\ UNCHANGED status
  /\ UNCHANGED <<sched, script, ticks, current, prev, forkqueue, readyqueue,
                 waitqueue, owner, age, prio, to_acquire, holding>>

(* Start the tick of the chosen process, idle, or quit the simulation.     *)
Dispatch ==
  /\ pc = "dispatch"
  /\ \/ /\ current # NULL
        /\ ~InQueue(current, readyqueue)                  \* assert
        /\ \A r \in Resources : ~InQueue(current, waitqueue[r])
        /\ status' = [status EXCEPT ![current] = "RUNNING"]
        /\ pc' = "acquire"
        /\ UNCHANGED ticks
     \/ /\ current = NULL /\ (readyqueue # <<>> \/ forkqueue # <<>>)
        /\ ticks' = ticks + 1
        /\ pc' = "fork"
        /\ UNCHANGED status
     \/ /\ current = NULL /\ readyqueue = <<>> /\ forkqueue = <<>>
        /\ pc' = "done"
        /\ UNCHANGED <<ticks, status>>
  /\ UNCHANGED <<sched, script, current, prev, forkqueue, readyqueue, waitqueue,
                 owner, age, prio, to_acquire, holding>>

-----------------------------------------------------------------------------
(* __run_current_acquire: one step for each entry of the list that is due  *)
(* at the current age, in the order of the list.                           *)

FirstDue(p, i) ==
  /\ i \in DOMAIN to_acquire[p]
  /\ to_acquire[p][i].at = age[p]
  /\ \A j \in 1..(i - 1) : to_acquire[p][j].at # age[p]

NothingDue_Ignored(p) == to_acquire[p] = to_acquire[p]

NothingDue(p) == \A i \in DOMAIN to_acquire[p] : to_acquire[p][i].at # age[p]

Acquire ==
  /\ pc = "acquire"
  /\ \E i \in DOMAIN to_acquire[current] :
       LET rs == to_acquire[current][i] IN
       /\ FirstDue(current, i)
       /\ acquire(rs.res)
       /\ \/ /\ owner[rs.res] = NULL
             /\ to_acquire' = [to_acquire EXCEPT ![current] = RemoveAt(@, i)]
             /\ holding' = [holding EXCEPT ![current] = Append(@, rs)]
             /\ UNCHANGED <<pc, ticks>>
          \/ /\ owner[rs.res] # NULL
             /\ pc' = "fork"
             /\ ticks' = ticks + 1
             /\ UNCHANGED <<to_acquire, holding>>
  /\ UNCHANGED <<sched, script, current, prev, forkqueue, readyqueue, age>>

(* Everything due is acquired: the process makes a tick of progress, and   *)
(* the first half of __run_current_release charges the tick to everything  *)
(* it holds.                                                               *)
Charge_NoWrap(rs) == [rs EXCEPT !.duration = @ - 1]

Charge(rs) == [rs EXCEPT !.duration = (@ - 1) % UINT_MOD]


Run ==
  /\ pc = "acquire"
  /\ NothingDue(current)
  /\ age' = [age EXCEPT ![current] = @ + 1]
  /\ holding' = [holding EXCEPT ![current] = [k \in DOMAIN @ |-> Charge(@[k])]]
  /\ pc' = "release"
  /\ UNCHANGED <<sched, script, ticks, current, prev, forkqueue, readyqueue,
                 waitqueue, owner, status, prio, to_acquire>>

(* The rest of __run_current_release: one step for each entry that has     *)
(* been charged down to 0, in the order they were acquired.                *)
FirstUsedUp(p, i) ==
  /\ i \in DOMAIN holding[p]
  /\ holding[p][i].duration = 0
  /\ \A j \in 1..(i - 1) : holding[p][j].duration # 0

Release ==
  /\ pc = "release"
  /\ \E i \in DOMAIN holding[current] :
       /\ FirstUsedUp(current, i)
       /\ release(holding[current][i].res)
       /\ holding' = [holding EXCEPT ![current] = RemoveAt(@, i)]
  /\ UNCHANGED <<sched, script, pc, ticks, current, prev, forkqueue, age, to_acquire>>

(* Nothing is left to release: the next tick. *)
Tick ==
  /\ pc = "release"
  /\ \A i \in DOMAIN holding[current] : holding[current][i].duration # 0
  /\ ticks' = ticks + 1
  /\ pc' = "fork"
  /\ UNCHANGED <<sched, script, current, prev, forkqueue, readyqueue, waitqueue,
                 owner, status, age, prio, to_acquire, holding>>

(* The program has ended, or the model follows it no further. *)
Ended == pc \in Halts /\ UNCHANGED vars

Next ==
  \/ ForkOnSchedule \/ ForkDone \/ Schedule \/ Retire \/ Dispatch
  \/ Acquire \/ Run \/ Release \/ Tick
  \/ Ended

(* One sequential program: it keeps running. *)
Spec == Init /\ [][Next]_vars /\ WF_vars(Next)

-----------------------------------------------------------------------------
(* What a script has to say for its processes to be able to finish.        *)

WellFormed(d) ==
  /\ d.lifespan > 0
  /\ \A i \in DOMAIN d.acquires :
       /\ d.acquires[i].duration > 0
       /\ d.acquires[i].at + d.acquires[i].duration <= d.lifespan

-----------------------------------------------------------------------------
(* Type correctness of the simulator's state.                              *)
TypeOK ==
  /\ sched \in Schedulers
  /\ script \in Scripts
  /\ pc \in Phases \union Halts
  /\ ticks \in Nat
  /\ current \in Procs \union {NULL}
  /\ prev \in Procs \union {NULL}
  /\ forkqueue \in Seq(Procs)
  /\ readyqueue \in Seq(Procs)
  /\ waitqueue \in [Resources -> Seq(Procs)]
  /\ owner \in [Resources -> Procs \union {NULL}]
  /\ status \in [Procs -> Statuses]
  /\ age \in [Procs -> Nat]
  /\ prio \in [Procs -> Nat]
  /\ to_acquire \in [Procs -> Seq(ResourceSchedule)]
  /\ holding \in [Procs -> Seq(ResourceSchedule)]

(* The next entry p has to acquire at its current age is for r. *)
Requests(p, r) ==
  \E i \in DOMAIN to_acquire[p] : FirstDue(p, i) /\ to_acquire[p][i].res = r

Holds(p, r) == \E k \in DOMAIN holding[p] : holding[p][k].res = r

NoRepeats(q) == \A i, j \in DOMAIN q : q[i] = q[j] => i = j

(* The list node of a process is linked into at most one list, once, and   *)
(* the status of the process says which: whatever list_move_tail,          *)
(* list_del_init and list_add_tail calls the schedulers made.  An exited   *)
(* (and freed) process is in no list and never runs again, and the one     *)
(* that schedule() picked has left its list.  A process that               *)
(* outlived its lifespan (the lifespan is 0) is in no list either.         *)
OnePlace ==
  pc \notin {"corrupt", "abort"} =>
  /\ NoRepeats(forkqueue) /\ NoRepeats(readyqueue)
  /\ \A r \in Resources : NoRepeats(waitqueue[r])
  /\ \A p \in Procs :
     LET forking == InQueue(p, forkqueue)
         ready == InQueue(p, readyqueue)
         waits == {r \in Resources : InQueue(p, waitqueue[r])}
     IN
     /\ ~(forking /\ ready)
     /\ (forking \/ ready) => waits = {}
     /\ \A r, s \in waits : r = s
     /\ status[p] = "BLOCKED" <=> waits # {}
     /\ status[p] = "RUNNING" => p = current \/ (p = prev /\ pc = "retire")
     /\ status[p] = "EXIT" => ~forking /\ ~ready /\ p # current
     /\ status[p] = "READY" =>
          \/ forking \/ ready \/ p = current \/ age[p] > lifespan(p)
     /\ p = current /\ pc \in {"retire", "dispatch", "acquire", "release"} =>
          ~forking /\ ~ready /\ waits = {}

(* A resource's owner pointer and the holder's list agree, nobody holds a  *)
(* resource twice, and the owner has not been freed.  fcfs_release and the *)
(* other release() callbacks assert the first part.                        *)
OwnerHolds ==
  /\ \A r \in Resources, p \in Procs : owner[r] = p <=> Holds(p, r)
  /\ \A p \in Procs : NoRepeats([k \in DOMAIN holding[p] |-> holding[p][k].res])
  /\ \A r \in Resources :
       owner[r] # NULL => status[owner[r]] # "EXIT" \/ pc = "abort"

(* No wake-up is lost.  While a process waits for r, either r is held, or  *)
(* some process that is neither blocked nor gone asks for r as the next    *)
(* thing it does: it was woken when r was released, or overtook the one    *)
(* that was.  Every release() wakes one waiter only, so a woken process    *)
(* that would not ask again, or an owner that would leave without          *)
(* releasing, would strand the others.                                     *)
NoLostWakeup ==
  pc # "abort" =>
  \A r \in Resources :
    waitqueue[r] # <<>> /\ owner[r] = NULL =>
      \E p \in Procs : status[p] \notin {"BLOCKED", "EXIT"} /\ Requests(p, r)

(* A process that reaches its lifespan exits without tripping over the     *)
(* assertions of __exit_process if and only if its script is well formed.  *)
ExitIffWellFormed ==
  \A p \in Procs :
    status[p] = "EXIT" => (WellFormed(script[p]) <=> ~(pc = "abort" /\ p = prev))

(* When the simulation quits, whoever has not exited is deadlocked: it     *)
(* waits for a resource whose owner waits as well (for well-formed         *)
(* scripts, so that every owner comes to its release).                     *)
StuckOnlyByDeadlock ==
  pc = "done" =>
  \A p \in Procs : status[p] # "EXIT" =>
    \E r \in Resources : /\ InQueue(p, waitqueue[r])
                         /\ owner[r] # NULL
                         /\ status[owner[r]] = "BLOCKED"

(* The CPU idles only when nothing is ready ("No process is ready to run   *)
(* at this moment", sched.c:351): a schedule() callback never overlooks a  *)
(* ready process.                                                          *)
IdleOnlyWhenNothingReady ==
  pc = "dispatch" /\ current = NULL => readyqueue = <<>>

(* rr_schedule and stcf_schedule put current back into the ready queue     *)
(* without looking whether it waits for a resource (pa2.c:304, pa2.c:267). *)
Relinking == {"rr", "stcf"}

(* The loop of __do_simulation ends only in its quit branch (sched.c:354)  *)
(* or in a failed assertion: under the schedulers that relink nobody who   *)
(* waits it always comes there, deadlocked scripts included; under rr and  *)
(* stcf it does unless they relink somebody, after which nothing is said.  *)
Termination ==
  (sched \in Relinking => [](pc # "corrupt")) => <>(pc \in Ends)

-----------------------------------------------------------------------------
(* Whatever the scheduler, the simulator plays its script as TaskSystem    *)
(* says, when the script is well formed.                                   *)
Tasks == INSTANCE TaskSystem WITH
  now <- ticks,
  cpu <- IF pc = "release" THEN "used" ELSE "free",
  ran <- age,
  own <- owner,
  exited <- { p \in Procs : status[p] = "EXIT" }

(* The detailed simulator implements the abstract task system: progress,   *)
(* exclusive use for exactly the scripted ticks, and exit, are the same    *)
(* under all eight schedulers.                                             *)
ImplementsTaskSystem == Tasks!Spec

-----------------------------------------------------------------------------
(* Three statements of the sources that do not hold of every simulation.   *)

(* sched.h:81-83: "When the current is blocked (i.e., waiting for some      *)
(* resources), however, you should not put it back into the ready queue    *)
(* since it is not ready but is waiting for the resource!!"                *)
NeverLinkedTwice == pc # "corrupt"

(* sched.c:353: "Quit simulation if no pending process exists".            *)
QuitsWithNothingPending ==
  pc = "done" => \A p \in Procs : status[p] = "EXIT"

(* process.h:35-36: "The process will be exited when age == lifespan".     *)
NeverOutlives == \A p \in Procs : age[p] <= lifespan(p)
=============================================================================
