----------------------------- MODULE TaskSystem -----------------------------
(***************************************************************************)
(* What the simulator of os-pa2 promises whichever scheduler it runs: the  *)
(* meaning of a process script (README.md, "Scheduling simulator" and      *)
(* "Simulating resources").  There are no queues, no priorities and no     *)
(* blocked processes here, only time, the progress of each process and the *)
(* resources:                                                              *)
(*   - one process at most makes one tick of progress per tick;            *)
(*   - it makes it only while it has every resource its script gives to    *)
(*     that tick of its life, and nobody else has any of those;            *)
(*   - it gives a resource back at the end of the tick in which its use    *)
(*     ends, not earlier and not later;                                    *)
(*   - it exits once it has run for its lifespan, with nothing in hand.    *)
(***************************************************************************)
EXTENDS Integers, Sequences

CONSTANTS Procs, Resources, Scripts, NULL

VARIABLES
  script,      (* the script being played                                  *)
  now,         (* time                                                     *)
  cpu,         (* "used" once a process has made progress at this tick     *)
  ran,         (* ran[p]: the ticks p has run                              *)
  own,         (* own[r]: who has r, or NULL                               *)
  exited       (* the processes that have exited                           *)

tvars == <<script, now, cpu, ran, own, exited>>

Uses(p) == { script[p].acquires[i] : i \in DOMAIN script[p].acquires }

(* The script gives r to p for the tick of its life after n ticks. *)
Needs(p, r, n) ==
  \E u \in Uses(p) : u.res = r /\ u.at <= n /\ n < u.at + u.duration

Present(p) == script[p].start <= now /\ p \notin exited

Init ==
  /\ script \in Scripts
  /\ now = 0
  /\ cpu = "free"
  /\ ran = [p \in Procs |-> 0]
  /\ own = [r \in Resources |-> NULL]
  /\ exited = {}

Get(p, r) ==
  /\ cpu = "free" /\ Present(p) /\ own[r] = NULL
  /\ \E u \in Uses(p) : u.res = r /\ u.at = ran[p]
  /\ own' = [own EXCEPT ![r] = p]
  /\ UNCHANGED <<script, now, cpu, ran, exited>>

Work(p) ==
  /\ cpu = "free" /\ Present(p) /\ ran[p] < script[p].lifespan
  /\ \A r \in Resources : Needs(p, r, ran[p]) => own[r] = p
  /\ ran' = [ran EXCEPT ![p] = @ + 1]
  /\ cpu' = "used"
  /\ UNCHANGED <<script, now, own, exited>>

Return(p, r) ==
  /\ cpu = "used" /\ own[r] = p
  /\ \E u \in Uses(p) : u.res = r /\ u.at + u.duration = ran[p]
  /\ own' = [own EXCEPT ![r] = NULL]
  /\ UNCHANGED <<script, now, cpu, ran, exited>>

Clock ==
  /\ \A r \in Resources : own[r] # NULL => Needs(own[r], r, ran[own[r]])
  /\ now' = now + 1
  /\ cpu' = "free"
  /\ UNCHANGED <<script, ran, own, exited>>

Exit(p) ==
  /\ cpu = "free" /\ Present(p) /\ ran[p] = script[p].lifespan
  /\ \A r \in Resources : own[r] # p
  /\ exited' = exited \union {p}
  /\ UNCHANGED <<script, now, cpu, ran, own>>

Next ==
  \/ Clock
  \/ \E p \in Procs : Work(p) \/ Exit(p) \/ \E r \in Resources : Get(p, r) \/ Return(p, r)

Spec == Init /\ [][Next]_tvars
=============================================================================
