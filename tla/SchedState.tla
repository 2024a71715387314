----------------------------- MODULE SchedState -----------------------------
(***************************************************************************)
(* The state that the scheduling framework (os-pa2/sched.c) and the        *)
(* scheduling policies (os-pa2/pa2.c) share: the processes of the loaded   *)
(* script, the ready queue, the fork queue and the resources with their    *)
(* owner and wait queue.                                                   *)
(*                                                                         *)
(* A process is its position in the script file, 1..N: the fork queue      *)
(* keeps the file's order, and the pid written in the file is only used to *)
(* print.  NULL, the C null pointer, is 0.                                 *)
(*                                                                         *)
(* A list of processes (struct list_head) is the sequence of its members.  *)
(* That is what the list is as long as no process is linked into two lists *)
(* at once; DoublyLinked below says when this stops being true, and the    *)
(* simulator halts there.                                                  *)
(***************************************************************************)
EXTENDS Integers, SequencesExt

CONSTANTS
  N,           (* number of processes the script describes                 *)
  Resources,   (* the resources; the code has 16, NR_RESOURCES             *)
  Scripts,     (* the process scripts the simulator may be started with    *)
  Schedulers,  (* the schedulers it may be started with (main's options)   *)
  MAX_PRIO,    (* priority ceiling, process.h                              *)
  MAX_TC,      (* "no candidate yet" of stcf_schedule                      *)
  UINT_MOD     (* 2^width of unsigned int: where --duration wraps          *)

NULL == 0
Procs == 1..N

(* The schedulers that serve resources through fcfs_acquire/fcfs_release. *)
FcfsSchedulers == {"fifo", "sjf", "stcf", "rr"}
(* The schedulers that serve resources through prio_acquire/prio_release. *)
PrioSchedulers == {"prio", "pa"}
AllSchedulers == FcfsSchedulers \union PrioSchedulers \union {"pcp", "pip"}

(* struct resource_schedule: one `acquire' line of the script. *)
ResourceSchedule == [res : Resources, at : Nat, duration : Nat]

(* One `process' ... `end' block of the script. *)
ProcessDesc ==
  [start : Nat, lifespan : Nat, prio : Nat, acquires : Seq(ResourceSchedule)]

ASSUME NAssumption == N \in Nat \ {0}
ASSUME NumberAssumption == /\ MAX_PRIO \in Nat
                           /\ MAX_TC \in Nat
                           /\ UINT_MOD \in Nat \ {0}
ASSUME ScriptsAssumption == Scripts \subseteq [Procs -> ProcessDesc]
ASSUME SchedulersAssumption == Schedulers \subseteq AllSchedulers

VARIABLES
  sched,         (* the scheduler chosen on the command line               *)
  script,        (* the loaded script: lifespan, prio_orig, __starts_at    *)
  pc,            (* which step of __do_simulation's loop comes next        *)
  ticks,         (* the tick counter                                       *)
  current,       (* the process on the CPU, or NULL                        *)
  prev,          (* the one of the previous tick, local to the loop        *)
  forkqueue,     (* __forkqueue: processes not created yet                 *)
  readyqueue,    (* readyqueue                                             *)
  waitqueue,     (* waitqueue[r]: processes blocked on resource r          *)
  owner,         (* owner[r]: the process holding r, or NULL               *)
  status,        (* status[p]                                              *)
  age,           (* age[p]: ticks p has run                                *)
  prio,          (* prio[p]: effective priority                            *)
  to_acquire,    (* __resources_to_acquire[p]                              *)
  holding        (* __resources_holding[p]                                 *)

vars == <<sched, script, pc, ticks, current, prev, forkqueue, readyqueue,
          waitqueue, owner, status, age, prio, to_acquire, holding>>

Statuses == {"READY", "RUNNING", "BLOCKED", "EXIT"}

lifespan(p) == script[p].lifespan
prio_orig(p) == script[p].prio

(* What is left to run, as long as age has not passed lifespan. *)
Remaining(p) == lifespan(p) - age[p]
Unfinished(p) == age[p] < lifespan(p)

(* list_empty(&p->list) is false for p: it is linked into this queue. *)
InQueue(p, q) == \E k \in DOMAIN q : q[k] = p

(* p's only list node is linked into the ready queue ready while a wait   *)
(* queue still reaches it.                                                 *)
LinkedTwice(p, ready) ==
  InQueue(p, ready) /\ \E r \in Resources : InQueue(p, waitqueue[r])
=============================================================================
