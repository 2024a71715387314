-------------------------- MODULE SimulatorProofs ---------------------------
(***************************************************************************)
(* What TLAPS proves about the simulator, for every number of processes,   *)
(* every set of resources, every script and every one of the eight         *)
(* schedulers.                                                             *)
(***************************************************************************)
EXTENDS Simulator, ListLemmas

-----------------------------------------------------------------------------
(* Lists.                                                                  *)

(* The processes linked into a list after list_del_init and list_add_tail. *)
LEMMA InRemoveAt ==
  ASSUME NEW S, NEW q \in Seq(S), NEW i \in DOMAIN q, NEW p,
         InQueue(p, RemoveAt(q, i))
  PROVE  InQueue(p, q)
<1>1. /\ Len(q) \in Nat /\ DOMAIN q = 1..Len(q)
      /\ DOMAIN RemoveAt(q, i) = 1..(Len(q) - 1)
  BY RemoveAtSeq, LenProperties
<1>2. PICK k \in 1..(Len(q) - 1) : RemoveAt(q, i)[k] = p
  BY <1>1 DEF InQueue
<1>3. p = q[k] \/ p = q[k + 1]
  BY <1>2, RemoveAtSeq
<1>4. k \in DOMAIN q /\ k + 1 \in DOMAIN q
  BY <1>1
<1> QED BY <1>3, <1>4 DEF InQueue

LEMMA InAppend ==
  ASSUME NEW S, NEW q \in Seq(S), NEW e \in S, NEW p
  PROVE  InQueue(p, Append(q, e)) <=> InQueue(p, q) \/ p = e
<1>1. /\ Len(q) \in Nat /\ DOMAIN q = 1..Len(q)
      /\ DOMAIN Append(q, e) = 1..(Len(q) + 1)
  BY AppendProperties, LenProperties
<1>2. /\ \A k \in 1..Len(q) : Append(q, e)[k] = q[k]
      /\ Append(q, e)[Len(q) + 1] = e
  BY AppendProperties
<1>3. \A k \in 1..(Len(q) + 1) : k \in 1..Len(q) \/ k = Len(q) + 1
  BY <1>1
<1>4. \A k \in 1..Len(q) : k \in 1..(Len(q) + 1)
  BY <1>1
<1>5. Len(q) + 1 \in 1..(Len(q) + 1)
  BY <1>1
<1> QED BY <1>1, <1>2, <1>3, <1>4, <1>5 DEF InQueue

-----------------------------------------------------------------------------
(* Types.                                                                  *)

(* The process of the tick is on the CPU and in no wait queue while it     *)
(* acquires, runs and releases.                                            *)
AtWork ==
  pc \in {"acquire", "release"} =>
  /\ current # NULL
  /\ status[current] = "RUNNING"
  /\ \A r \in Resources : ~InQueue(current, waitqueue[r])

LEMMA ScriptType ==
  ASSUME TypeOK, NEW p \in Procs
  PROVE  /\ script[p] \in ProcessDesc
         /\ lifespan(p) \in Nat /\ prio_orig(p) \in Nat
         /\ script[p].acquires \in Seq(ResourceSchedule)
BY ScriptsAssumption DEF TypeOK, ProcessDesc, lifespan, prio_orig

LEMMA InitType == Init => TypeOK /\ AtWork
<1> SUFFICES ASSUME Init PROVE TypeOK /\ AtWork
  OBVIOUS
<1>1. script \in [Procs -> ProcessDesc]
  BY ScriptsAssumption DEF Init
<1>2. forkqueue \in Seq(Procs)
  <2>1. N \in Nat /\ forkqueue \in [1..N -> Procs]
    BY NAssumption DEF Init, Procs
  <2> QED BY <2>1, SeqDef
<1>3. <<>> \in Seq(Procs) /\ <<>> \in Seq(ResourceSchedule)
  BY EmptySeq
<1>4. /\ prio \in [Procs -> Nat]
      /\ to_acquire \in [Procs -> Seq(ResourceSchedule)]
  BY <1>1 DEF Init, ProcessDesc
<1> QED BY <1>2, <1>3, <1>4 DEF Init, TypeOK, AtWork, Phases, Statuses

LEMMA SwitchType ==
  ASSUME TypeOK, NEW i \in DOMAIN readyqueue, NEW requeue \in Seq(Procs),
         Switch(i, requeue)
  PROVE  current' \in Procs /\ readyqueue' \in Seq(Procs)
<1>1. readyqueue \in Seq(Procs)
  BY DEF TypeOK
<1>2. RemoveAt(readyqueue, i) \in Seq(Procs)
  BY <1>1, RemoveAtSeq
<1>3. readyqueue[i] \in Procs
  BY <1>1, ElementOfSeq, LenProperties
<1>4. RemoveAt(readyqueue, i) \o requeue \in Seq(Procs)
  BY <1>2, ConcatProperties
<1> QED BY <1>3, <1>4 DEF Switch

(* schedule() picks a process, and keeps the ready queue a list of them.   *)
LEMMA ScheduleType ==
  ASSUME TypeOK, schedule
  PROVE  /\ current' \in Procs \union {NULL}
         /\ readyqueue' \in Seq(Procs)
         /\ prio' \in [Procs -> Nat]
<1>1. /\ readyqueue \in Seq(Procs) /\ prio \in [Procs -> Nat]
      /\ current \in Procs \union {NULL}
  BY DEF TypeOK
<1>2. <<>> \in Seq(Procs) /\ CurrentIfAlive \in Seq(Procs) /\ CurrentIfRunnable \in Seq(Procs)
  <2>1. \A p \in Procs : <<p>> \in Seq(Procs)
    OBVIOUS
  <2>2. <<>> \in Seq(Procs)
    BY EmptySeq
  <2> QED BY <1>1, <2>1, <2>2 DEF CurrentIfAlive, CurrentIfRunnable, CanStay, OnCpu
<1>3. ASSUME Stay \/ PickNobody
      PROVE  current' \in Procs \union {NULL} /\ readyqueue' \in Seq(Procs)
  BY <1>1, <1>3 DEF Stay, PickNobody
<1>4. ASSUME NEW i \in DOMAIN readyqueue,
             Switch(i, <<>>) \/ Switch(i, CurrentIfAlive) \/ Switch(i, CurrentIfRunnable)
      PROVE  current' \in Procs \union {NULL} /\ readyqueue' \in Seq(Procs)
  BY <1>2, <1>4, SwitchType
<1>5. readyqueue # <<>> => 1 \in DOMAIN readyqueue
  BY <1>1, EmptySeq, LenProperties
<1>6. AgedPrio \in [Procs -> Nat]
  BY <1>1 DEF AgedPrio
<1>7. CASE fifo_schedule
  BY <1>1, <1>3, <1>4, <1>5, <1>7 DEF fifo_schedule
<1>8. CASE sjf_schedule
  BY <1>1, <1>3, <1>4, <1>8 DEF sjf_schedule
<1>9. CASE stcf_schedule
  BY <1>1, <1>3, <1>4, <1>9 DEF stcf_schedule
<1>10. CASE rr_schedule
  BY <1>1, <1>3, <1>4, <1>5, <1>10 DEF rr_schedule
<1>11. CASE prio_schedule
  BY <1>1, <1>3, <1>4, <1>11 DEF prio_schedule
<1>12. CASE pa_schedule
  <2>1. CASE CanStay /\ readyqueue = <<>> /\ Stay /\ UNCHANGED prio
    BY <1>1, <1>3, <2>1
  <2>2. CASE ~CanStay /\ PickNobody /\ UNCHANGED prio
    BY <1>1, <1>3, <2>2
  <2>3. ASSUME NEW i \in DOMAIN readyqueue,
               \/ Stay /\ prio' = AgedPrio
               \/ /\ Switch(i, CurrentIfRunnable)
                  /\ prio' = [AgedPrio EXCEPT ![readyqueue[i]] = prio_orig(readyqueue[i])]
        PROVE  /\ current' \in Procs \union {NULL} /\ readyqueue' \in Seq(Procs)
               /\ prio' \in [Procs -> Nat]
    <3>1. readyqueue[i] \in Procs
      BY <1>1, ElementOfSeq, LenProperties
    <3>2. prio_orig(readyqueue[i]) \in Nat
      BY <3>1, ScriptType
    <3> QED BY <1>3, <1>4, <1>6, <2>3, <3>2
  <2>4. CASE \E i \in DOMAIN readyqueue :
               LET next == readyqueue[i] IN
               /\ FirstHighest(readyqueue, AgedPrio, i)
               /\ \/ CanStay /\ prio[current] > AgedPrio[next] /\ Stay /\ prio' = AgedPrio
                  \/ /\ ~(CanStay /\ prio[current] > AgedPrio[next])
                     /\ Switch(i, CurrentIfRunnable)
                     /\ prio' = [AgedPrio EXCEPT ![next] = prio_orig(next)]
    <3>1. PICK i \in DOMAIN readyqueue :
                 \/ Stay /\ prio' = AgedPrio
                 \/ /\ Switch(i, CurrentIfRunnable)
                    /\ prio' = [AgedPrio EXCEPT ![readyqueue[i]] = prio_orig(readyqueue[i])]
      BY <2>4
    <3> QED BY <2>3, <3>1
  <2> QED BY <1>12, <2>1, <2>2, <2>4, Zenon DEF pa_schedule
<1> QED BY <1>7, <1>8, <1>9, <1>10, <1>11, <1>12 DEF schedule

-----------------------------------------------------------------------------
(* The outcomes of acquire() and release(), whoever the scheduler is.      *)

LEMMA AcquireOutcome ==
  ASSUME TypeOK, NEW r \in Resources, current \in Procs, acquire(r)
  PROVE  /\ Take(r) \/ Wait(r)
         /\ prio' \in [Procs -> Nat]
<1>1. /\ prio \in [Procs -> Nat] /\ prio[current] \in Nat /\ MAX_PRIO \in Nat
      /\ (prio' = prio) => prio' \in [Procs -> Nat]
  BY NumberAssumption DEF TypeOK
<1>2. CASE (Take(r) \/ Wait(r)) /\ UNCHANGED prio
  BY <1>1, <1>2
<1>3. CASE pcp_acquire(r)
  <2>1. (Take(r) \/ Wait(r)) /\ (UNCHANGED prio \/ prio' = [prio EXCEPT ![current] = MAX_PRIO])
    BY <1>3 DEF pcp_acquire
  <2> QED BY <1>1, <2>1
<1>4. CASE pip_acquire(r)
  <2>1. /\ Take(r) \/ Wait(r)
        /\ UNCHANGED prio \/ prio' = [prio EXCEPT ![owner[r]] = prio[current]]
    BY <1>4 DEF pip_acquire
  <2> QED BY <1>1, <2>1
<1> QED BY <1>2, <1>3, <1>4 DEF acquire, fcfs_acquire, prio_acquire

LEMMA ReleaseOutcome ==
  ASSUME TypeOK, NEW r \in Resources, current \in Procs, release(r)
  PROVE  /\ Disown(r)
         /\ WakeNobody(r) \/ \E i \in DOMAIN waitqueue[r] : Wake(r, i)
         /\ prio' \in [Procs -> Nat]
<1>1. /\ prio \in [Procs -> Nat] /\ waitqueue[r] \in Seq(Procs)
      /\ prio_orig(current) \in Nat
  BY ScriptType DEF TypeOK
<1>2. waitqueue[r] # <<>> => 1 \in DOMAIN waitqueue[r]
  BY <1>1, EmptySeq, LenProperties
<1>3. CASE fcfs_release(r)
  BY <1>1, <1>2, <1>3 DEF fcfs_release
<1>4. CASE prio_release(r)
  BY <1>1, <1>4 DEF prio_release, WakeHighest
<1>5. CASE pcp_release(r) \/ pip_release(r)
  <2>1. Disown(r) /\ WakeHighest(r) /\ prio' = [prio EXCEPT ![current] = prio_orig(current)]
    BY <1>5 DEF pcp_release, pip_release, DropPriority
  <2> QED BY <1>1, <2>1 DEF WakeHighest
<1> QED BY <1>3, <1>4, <1>5 DEF release

-----------------------------------------------------------------------------
(* Types are kept.                                                         *)

LEMMA ListType ==
  ASSUME TypeOK
  PROVE  /\ \A i \in DOMAIN forkqueue :
              forkqueue[i] \in Procs /\ RemoveAt(forkqueue, i) \in Seq(Procs)
         /\ \A r \in Resources : \A i \in DOMAIN waitqueue[r] :
              waitqueue[r][i] \in Procs /\ RemoveAt(waitqueue[r], i) \in Seq(Procs)
         /\ \A p \in Procs : \A i \in DOMAIN to_acquire[p] :
              /\ to_acquire[p][i] \in ResourceSchedule
              /\ RemoveAt(to_acquire[p], i) \in Seq(ResourceSchedule)
         /\ \A p \in Procs : \A i \in DOMAIN holding[p] :
              /\ holding[p][i] \in ResourceSchedule
              /\ RemoveAt(holding[p], i) \in Seq(ResourceSchedule)
<1>1. ASSUME NEW S, NEW q \in Seq(S), NEW i \in DOMAIN q
      PROVE  q[i] \in S /\ RemoveAt(q, i) \in Seq(S)
  BY RemoveAtSeq, ElementOfSeq, LenProperties
<1>2. /\ forkqueue \in Seq(Procs)
      /\ \A r \in Resources : waitqueue[r] \in Seq(Procs)
      /\ \A p \in Procs : to_acquire[p] \in Seq(ResourceSchedule)
      /\ \A p \in Procs : holding[p] \in Seq(ResourceSchedule)
  BY DEF TypeOK
<1> QED BY <1>1, <1>2

(* The duration of an entry wraps around, and stays an unsigned int.       *)
LEMMA ChargeType ==
  ASSUME NEW rs \in ResourceSchedule
  PROVE  Charge(rs) \in ResourceSchedule /\ Charge(rs).res = rs.res
<1>1. UINT_MOD \in Nat \ {0} /\ rs.duration \in Nat
  BY NumberAssumption DEF ResourceSchedule
<1>2. (rs.duration - 1) % UINT_MOD \in Nat
  BY <1>1
<1> QED BY <1>2 DEF Charge, ResourceSchedule

LEMMA ChargeAllType ==
  ASSUME NEW q \in Seq(ResourceSchedule)
  PROVE  [k \in DOMAIN q |-> Charge(q[k])] \in Seq(ResourceSchedule)
<1>1. Len(q) \in Nat /\ DOMAIN q = 1..Len(q)
  BY LenProperties
<1>2. \A k \in 1..Len(q) : Charge(q[k]) \in ResourceSchedule
  BY ElementOfSeq, ChargeType
<1>3. [k \in DOMAIN q |-> Charge(q[k])] \in [1..Len(q) -> ResourceSchedule]
  BY <1>1, <1>2
<1> QED BY <1>1, <1>3, SeqDef

LEMMA TypeStep ==
  ASSUME TypeOK, AtWork, [Next]_vars
  PROVE  TypeOK'
<1> USE DEF TypeOK
<1>1. CASE ForkOnSchedule
  <2>1. PICK i \in DOMAIN forkqueue :
          /\ forkqueue' = RemoveAt(forkqueue, i)
          /\ readyqueue' = Append(readyqueue, forkqueue[i])
          /\ status' = [status EXCEPT ![forkqueue[i]] = "READY"]
    BY <1>1 DEF ForkOnSchedule
  <2>2. forkqueue' \in Seq(Procs) /\ forkqueue[i] \in Procs
    BY <2>1, ListType
  <2>3. readyqueue' \in Seq(Procs)
    BY <2>1, <2>2, AppendProperties
  <2> QED BY <1>1, <2>1, <2>2, <2>3 DEF ForkOnSchedule, Statuses
<1>2. CASE ForkDone
  BY <1>2 DEF ForkDone, Phases
<1>3. CASE Schedule
  <2>1. /\ current' \in Procs \union {NULL}
        /\ readyqueue' \in Seq(Procs)
        /\ prio' \in [Procs -> Nat]
    BY <1>3, ScheduleType DEF Schedule
  <2>2. prev' \in Procs \union {NULL} /\ pc' \in Phases \union Halts
    BY <1>3 DEF Schedule, Phases, Halts, Ends
  <2> QED BY <1>3, <2>1, <2>2 DEF Schedule
<1>4. CASE Retire
  <2>1. pc' \in Phases \union Halts
    BY <1>4 DEF Retire, Phases, Halts, Ends
  <2>2. status' \in [Procs -> Statuses]
    BY <1>4 DEF Retire, Statuses
  <2> QED BY <1>4, <2>1, <2>2 DEF Retire
<1>5. CASE Dispatch
  <2>1. pc' \in Phases \union Halts
    BY <1>5 DEF Dispatch, Phases, Halts, Ends
  <2>2. status' \in [Procs -> Statuses]
    BY <1>5 DEF Dispatch, Statuses
  <2>3. ticks' \in Nat
    BY <1>5 DEF Dispatch
  <2> QED BY <1>5, <2>1, <2>2, <2>3 DEF Dispatch
<1>6. CASE Acquire
  <2>1. current \in Procs
    BY <1>6 DEF Acquire, AtWork
  <2>2. PICK i \in DOMAIN to_acquire[current] :
          /\ acquire(to_acquire[current][i].res)
          /\ \/ /\ to_acquire' = [to_acquire EXCEPT ![current] = RemoveAt(@, i)]
                /\ holding' = [holding EXCEPT ![current] = Append(@, to_acquire[current][i])]
                /\ UNCHANGED <<pc, ticks>>
             \/ /\ pc' = "fork"
                /\ ticks' = ticks + 1
                /\ UNCHANGED <<to_acquire, holding>>
    BY <1>6 DEF Acquire
  <2> DEFINE rs == to_acquire[current][i]
  <2>3. /\ rs \in ResourceSchedule /\ rs.res \in Resources
        /\ RemoveAt(to_acquire[current], i) \in Seq(ResourceSchedule)
    BY <2>1, ListType DEF ResourceSchedule
  <2>4. Take(rs.res) \/ Wait(rs.res)
    BY <2>1, <2>2, <2>3, AcquireOutcome
  <2>5. prio' \in [Procs -> Nat]
    BY <2>1, <2>2, <2>3, AcquireOutcome
  <2>6. Append(waitqueue[rs.res], current) \in Seq(Procs)
    BY <2>1, <2>3, AppendProperties
  <2>7. Append(holding[current], rs) \in Seq(ResourceSchedule)
    BY <2>1, <2>3, AppendProperties
  <2>8. /\ owner' \in [Resources -> Procs \union {NULL}]
        /\ status' \in [Procs -> Statuses]
        /\ waitqueue' \in [Resources -> Seq(Procs)]
    BY <2>1, <2>3, <2>4, <2>6, ZenonT(60) DEF Take, Wait, Statuses
  <2>9. /\ to_acquire' \in [Procs -> Seq(ResourceSchedule)]
        /\ holding' \in [Procs -> Seq(ResourceSchedule)]
    BY <2>1, <2>2, <2>3, <2>7
  <2>10. pc' \in Phases \union Halts /\ ticks' \in Nat
    BY <1>6 DEF Acquire, Phases
  <2> QED BY <1>6, <2>5, <2>8, <2>9, <2>10 DEF Acquire
<1>7. CASE Run
  <2>1. current \in Procs
    BY <1>7 DEF Run, AtWork
  <2>2. holding' \in [Procs -> Seq(ResourceSchedule)]
    BY <1>7, <2>1, ChargeAllType DEF Run
  <2>3. age' \in [Procs -> Nat]
    <3>1. age' = [age EXCEPT ![current] = age[current] + 1]
      BY <1>7 DEF Run
    <3> QED BY <2>1, <3>1
  <2> QED BY <1>7, <2>2, <2>3 DEF Run, Phases
<1>8. CASE Release
  <2>1. current \in Procs
    BY <1>8 DEF Release, AtWork
  <2>2. PICK i \in DOMAIN holding[current] :
          /\ release(holding[current][i].res)
          /\ holding' = [holding EXCEPT ![current] = RemoveAt(@, i)]
    BY <1>8 DEF Release
  <2> DEFINE r == holding[current][i].res
  <2>3. r \in Resources /\ RemoveAt(holding[current], i) \in Seq(ResourceSchedule)
    BY <2>1, ListType DEF ResourceSchedule
  <2>4. /\ Disown(r)
        /\ WakeNobody(r) \/ \E k \in DOMAIN waitqueue[r] : Wake(r, k)
        /\ prio' \in [Procs -> Nat]
    BY <2>1, <2>2, <2>3, ReleaseOutcome
  <2>5. owner' \in [Resources -> Procs \union {NULL}]
    BY <2>4 DEF Disown
  <2>6. /\ status' \in [Procs -> Statuses]
        /\ waitqueue' \in [Resources -> Seq(Procs)]
        /\ readyqueue' \in Seq(Procs)
    <3>1. CASE WakeNobody(r)
      BY <3>1 DEF WakeNobody
    <3>2. ASSUME NEW k \in DOMAIN waitqueue[r], Wake(r, k)
          PROVE  /\ status' \in [Procs -> Statuses]
                 /\ waitqueue' \in [Resources -> Seq(Procs)]
                 /\ readyqueue' \in Seq(Procs)
      <4>1. waitqueue[r][k] \in Procs /\ RemoveAt(waitqueue[r], k) \in Seq(Procs)
        BY <2>3, ListType
      <4>2. Append(readyqueue, waitqueue[r][k]) \in Seq(Procs)
        BY <4>1, AppendProperties
      <4> QED BY <2>3, <3>2, <4>1, <4>2 DEF Wake, Statuses
    <3> QED BY <2>4, <3>1, <3>2
  <2>7. holding' \in [Procs -> Seq(ResourceSchedule)]
    BY <2>2, <2>3
  <2> QED BY <1>8, <2>4, <2>5, <2>6, <2>7 DEF Release
<1>9. CASE Tick
  BY <1>9 DEF Tick, Phases
<1>10. CASE Ended \/ UNCHANGED vars
  BY <1>10 DEF Ended, vars
<1> QED BY <1>1, <1>2, <1>3, <1>4, <1>5, <1>6, <1>7, <1>8, <1>9, <1>10 DEF Next

-----------------------------------------------------------------------------
(* What a step of __run_current_acquire and one of __run_current_release   *)
(* amount to: the resource is taken, or waited for; it is given up, and    *)
(* one waiter is woken, or there is none.                                  *)

LEMMA AcquireStep ==
  ASSUME TypeOK, AtWork, Acquire
  PROVE  /\ current \in Procs
         /\ \E i \in DOMAIN to_acquire[current] :
              LET rs == to_acquire[current][i] IN
              /\ FirstDue(current, i)
              /\ rs \in ResourceSchedule /\ rs.res \in Resources
              /\ \/ /\ Take(rs.res)
                    /\ to_acquire' = [to_acquire EXCEPT ![current] = RemoveAt(@, i)]
                    /\ holding' = [holding EXCEPT ![current] = Append(@, rs)]
                    /\ pc' = pc
                 \/ /\ Wait(rs.res)
                    /\ UNCHANGED <<to_acquire, holding>>
                    /\ pc' = "fork"
<1>1. current \in Procs
  BY DEF Acquire, AtWork, TypeOK
<1>2. PICK i \in DOMAIN to_acquire[current] :
        /\ FirstDue(current, i)
        /\ acquire(to_acquire[current][i].res)
        /\ \/ /\ owner[to_acquire[current][i].res] = NULL
              /\ to_acquire' = [to_acquire EXCEPT ![current] = RemoveAt(@, i)]
              /\ holding' = [holding EXCEPT ![current] = Append(@, to_acquire[current][i])]
              /\ pc' = pc
           \/ /\ owner[to_acquire[current][i].res] # NULL
              /\ pc' = "fork"
              /\ UNCHANGED <<to_acquire, holding>>
  BY DEF Acquire
<1> DEFINE rs == to_acquire[current][i]
<1>3. rs \in ResourceSchedule /\ rs.res \in Resources
  BY <1>1, ListType DEF ResourceSchedule
<1>4. Take(rs.res) \/ Wait(rs.res)
  BY <1>1, <1>2, <1>3, AcquireOutcome
<1>5. /\ owner[rs.res] = NULL => Take(rs.res)
      /\ owner[rs.res] # NULL => Wait(rs.res)
  BY <1>4 DEF Take, Wait
<1> QED BY <1>1, <1>2, <1>3, <1>5

LEMMA ReleaseStep ==
  ASSUME TypeOK, AtWork, Release
  PROVE  /\ current \in Procs
         /\ \E i \in DOMAIN holding[current] :
              LET r == holding[current][i].res IN
              /\ r \in Resources
              /\ Disown(r)
              /\ WakeNobody(r) \/ \E k \in DOMAIN waitqueue[r] : Wake(r, k)
              /\ holding' = [holding EXCEPT ![current] = RemoveAt(@, i)]
<1>1. current \in Procs
  BY DEF Release, AtWork, TypeOK
<1>2. PICK i \in DOMAIN holding[current] :
        /\ release(holding[current][i].res)
        /\ holding' = [holding EXCEPT ![current] = RemoveAt(@, i)]
  BY DEF Release
<1>3. holding[current][i].res \in Resources
  BY <1>1, ListType DEF ResourceSchedule
<1> QED BY <1>1, <1>2, <1>3, ReleaseOutcome

-----------------------------------------------------------------------------
LEMMA AtWorkStep ==
  ASSUME TypeOK, AtWork, [Next]_vars
  PROVE  AtWork'
<1>1. CASE ForkOnSchedule
  BY <1>1 DEF AtWork, ForkOnSchedule
<1>2. CASE ForkDone
  BY <1>2 DEF AtWork, ForkDone
<1>3. CASE Schedule
  BY <1>3 DEF AtWork, Schedule
<1>4. CASE Retire
  BY <1>4 DEF AtWork, Retire
<1>5. CASE Dispatch
  BY <1>5 DEF AtWork, Dispatch, TypeOK, InQueue
<1>6. CASE Acquire
  <2>1. UNCHANGED <<status, waitqueue, pc, current>> \/ pc' = "fork"
    BY <1>6, AcquireStep DEF Take, Acquire
  <2> QED BY <2>1 DEF AtWork, InQueue
<1>7. CASE Run
  BY <1>7 DEF AtWork, Run, InQueue
<1>8. CASE Release
  <2>1. /\ current' = current /\ current \in Procs /\ current # NULL
        /\ status[current] = "RUNNING"
        /\ \A r \in Resources : ~InQueue(current, waitqueue[r])
    BY <1>8, ReleaseStep DEF Release, AtWork
  <2>2. PICK r \in Resources : WakeNobody(r) \/ \E k \in DOMAIN waitqueue[r] : Wake(r, k)
    BY <1>8, ReleaseStep
  <2>3. CASE WakeNobody(r)
    BY <2>1, <2>3 DEF AtWork, WakeNobody, InQueue
  <2>4. ASSUME NEW k \in DOMAIN waitqueue[r], Wake(r, k)
        PROVE  AtWork'
    <3>1. waitqueue[r][k] # current
      BY <2>1 DEF InQueue
    <3>2. status'[current] = "RUNNING"
      BY <2>1, <2>4, <3>1 DEF Wake, TypeOK
    <3>3. ~InQueue(current, RemoveAt(waitqueue[r], k))
      BY <2>1, InRemoveAt DEF TypeOK
    <3>4. \A s \in Resources : ~InQueue(current, waitqueue'[s])
      BY <2>1, <2>4, <3>3 DEF Wake, TypeOK
    <3> QED BY <2>1, <3>2, <3>4 DEF AtWork, InQueue
  <2> QED BY <2>2, <2>3, <2>4
<1>9. CASE Tick
  BY <1>9 DEF AtWork, Tick
<1>10. CASE Ended \/ UNCHANGED vars
  BY <1>10 DEF Ended, vars, AtWork, InQueue
<1> QED BY <1>1, <1>2, <1>3, <1>4, <1>5, <1>6, <1>7, <1>8, <1>9, <1>10 DEF Next

(* The types are right in every simulation: no step takes a process that   *)
(* is not there off a list or blocks the null pointer.                     *)
THEOREM TypeCorrect == Spec => []TypeOK
<1>1. Init => TypeOK /\ AtWork
  BY InitType
<1>2. TypeOK /\ AtWork /\ [Next]_vars => TypeOK' /\ AtWork'
  BY TypeStep, AtWorkStep
<1> QED BY <1>1, <1>2, PTL DEF Spec

-----------------------------------------------------------------------------
(* Owners and holders.                                                     *)

Lists(q, r) == \E k \in DOMAIN q : q[k].res = r
OnceEach(q) == \A j, k \in DOMAIN q : q[j].res = q[k].res => j = k

LEMMA ListsRemoveAt ==
  ASSUME NEW S, NEW q \in Seq(S), NEW i \in DOMAIN q, OnceEach(q)
  PROVE  /\ OnceEach(RemoveAt(q, i))
         /\ \A r : Lists(RemoveAt(q, i), r) <=> Lists(q, r) /\ r # q[i].res
<1>1. /\ Len(q) \in Nat /\ DOMAIN q = 1..Len(q) /\ i \in 1..Len(q)
      /\ DOMAIN RemoveAt(q, i) = 1..(Len(q) - 1)
  BY RemoveAtSeq, LenProperties
<1> DEFINE from(k) == IF k < i THEN k ELSE k + 1
<1>2. \A k \in 1..(Len(q) - 1) :
        from(k) \in 1..Len(q) /\ from(k) # i /\ RemoveAt(q, i)[k] = q[from(k)]
  <2>1. \A k \in 1..(Len(q) - 1) : from(k) \in 1..Len(q) /\ from(k) # i
    BY <1>1
  <2>2. \A k \in 1..(Len(q) - 1) :
          RemoveAt(q, i)[k] = IF k < i THEN q[k] ELSE q[k + 1]
    BY RemoveAtSeq
  <2> QED BY <2>1, <2>2
<1>3. \A j, k \in 1..(Len(q) - 1) : from(j) = from(k) => j = k
  BY <1>1
<1>4. \A j \in 1..Len(q) : j # i => \E k \in 1..(Len(q) - 1) : from(k) = j
  <2> SUFFICES ASSUME NEW j \in 1..Len(q), j # i
               PROVE  \E k \in 1..(Len(q) - 1) : from(k) = j
    OBVIOUS
  <2>1. CASE j < i
    <3>1. j \in 1..(Len(q) - 1) /\ from(j) = j
      BY <1>1, <2>1
    <3> QED BY <3>1
  <2>2. CASE j > i
    <3>1. j - 1 \in 1..(Len(q) - 1) /\ from(j - 1) = j
      BY <1>1, <2>2
    <3> QED BY <3>1
  <2> QED BY <1>1, <2>1, <2>2
<1> HIDE DEF from
<1>5. OnceEach(RemoveAt(q, i))
  BY <1>1, <1>2, <1>3 DEF OnceEach
<1>6. ASSUME NEW r
      PROVE  Lists(RemoveAt(q, i), r) <=> Lists(q, r) /\ r # q[i].res
  <2>1. ASSUME Lists(RemoveAt(q, i), r)
        PROVE  Lists(q, r) /\ r # q[i].res
    <3>1. PICK k \in 1..(Len(q) - 1) : RemoveAt(q, i)[k].res = r
      BY <1>1, <2>1 DEF Lists
    <3>2. from(k) \in DOMAIN q /\ from(k) # i /\ q[from(k)].res = r
      BY <1>1, <1>2, <3>1
    <3> QED BY <3>2 DEF OnceEach, Lists
  <2>2. ASSUME Lists(q, r), r # q[i].res
        PROVE  Lists(RemoveAt(q, i), r)
    <3>1. PICK j \in 1..Len(q) : q[j].res = r
      BY <1>1, <2>2 DEF Lists
    <3>2. PICK k \in 1..(Len(q) - 1) : from(k) = j
      BY <1>4, <2>2, <3>1
    <3> QED BY <1>1, <1>2, <3>1, <3>2 DEF Lists
  <2> QED BY <2>1, <2>2
<1> QED BY <1>5, <1>6

LEMMA ListsAppend ==
  ASSUME NEW S, NEW q \in Seq(S), NEW e \in S, OnceEach(q), ~Lists(q, e.res)
  PROVE  /\ OnceEach(Append(q, e))
         /\ \A r : Lists(Append(q, e), r) <=> Lists(q, r) \/ r = e.res
<1>1. /\ Len(q) \in Nat /\ DOMAIN q = 1..Len(q)
      /\ DOMAIN Append(q, e) = 1..(Len(q) + 1)
  BY AppendProperties, LenProperties
<1>2. /\ \A k \in 1..Len(q) : Append(q, e)[k] = q[k]
      /\ Append(q, e)[Len(q) + 1] = e
  BY AppendProperties
<1>3. \A k \in 1..(Len(q) + 1) : k \in 1..Len(q) \/ k = Len(q) + 1
  BY <1>1
<1>4. /\ \A k \in 1..Len(q) : k \in 1..(Len(q) + 1)
      /\ Len(q) + 1 \in 1..(Len(q) + 1)
  BY <1>1
<1>5. OnceEach(Append(q, e))
  BY <1>1, <1>2, <1>3 DEF OnceEach, Lists
<1>6. ASSUME NEW r
      PROVE  Lists(Append(q, e), r) <=> Lists(q, r) \/ r = e.res
  <2>1. ASSUME Lists(Append(q, e), r)
        PROVE  Lists(q, r) \/ r = e.res
    <3>1. PICK k \in 1..(Len(q) + 1) : Append(q, e)[k].res = r
      BY <1>1, <2>1 DEF Lists
    <3> QED BY <1>1, <1>2, <1>3, <3>1 DEF Lists
  <2>2. Lists(q, r) => Lists(Append(q, e), r)
    BY <1>1, <1>2, <1>4 DEF Lists
  <2>3. r = e.res => Lists(Append(q, e), r)
    BY <1>1, <1>2, <1>4 DEF Lists
  <2> QED BY <2>1, <2>2, <2>3
<1> QED BY <1>5, <1>6

LEMMA ListsCharge ==
  ASSUME NEW q \in Seq(ResourceSchedule)
  PROVE  /\ OnceEach(q) => OnceEach([k \in DOMAIN q |-> Charge(q[k])])
         /\ \A r : Lists([k \in DOMAIN q |-> Charge(q[k])], r) <=> Lists(q, r)
<1> DEFINE c == [k \in DOMAIN q |-> Charge(q[k])]
<1>1. \A k \in DOMAIN q : q[k] \in ResourceSchedule
  BY ElementOfSeq, LenProperties
<1>2. \A k \in DOMAIN q : Charge(q[k]).res = q[k].res
  BY <1>1, ChargeType
<1>3. DOMAIN c = DOMAIN q /\ \A k \in DOMAIN q : c[k].res = q[k].res
  BY <1>2
<1> HIDE DEF c
<1>4. OnceEach(q) => OnceEach(c)
  BY <1>3 DEF OnceEach
<1>5. ASSUME NEW r
      PROVE  Lists(c, r) <=> Lists(q, r)
  BY <1>3 DEF Lists
<1> QED BY <1>4, <1>5 DEF c

(* OwnerHolds, part by part. *)
Agree == \A r \in Resources, p \in Procs : owner[r] = p <=> Lists(holding[p], r)
HeldOnce == \A p \in Procs : OnceEach(holding[p])
OwnerStays == \A r \in Resources :
                owner[r] # NULL => status[owner[r]] # "EXIT" \/ pc = "abort"

LEMMA OwnerParts == OwnerHolds <=> Agree /\ HeldOnce /\ OwnerStays
BY DEF OwnerHolds, Agree, HeldOnce, OwnerStays, Holds, Lists, NoRepeats, OnceEach

LEMMA OwnerStep ==
  ASSUME TypeOK, AtWork, OwnerHolds, [Next]_vars
  PROVE  OwnerHolds'
<1>0. Agree /\ HeldOnce /\ OwnerStays
  BY OwnerParts
<1> SUFFICES (Agree /\ HeldOnce /\ OwnerStays)'
  BY OwnerParts, PTL
<1>1. CASE UNCHANGED <<owner, holding>> /\ OwnerStays'
  BY <1>0, <1>1 DEF Agree, HeldOnce
<1>2. CASE ForkOnSchedule
  <2>1. OwnerStays'
    BY <1>0, <1>2 DEF OwnerStays, ForkOnSchedule, TypeOK
  <2> QED BY <1>1, <1>2, <2>1 DEF ForkOnSchedule
<1>3. CASE ForkDone \/ Tick
  BY <1>0, <1>1, <1>3 DEF OwnerStays, ForkDone, Tick
<1>4. CASE Schedule
  BY <1>0, <1>1, <1>4 DEF OwnerStays, Schedule
<1>5. CASE Retire
  <2>1. CASE pc' = "abort"
    BY <1>1, <1>5, <2>1 DEF OwnerStays, Retire
  <2>2. CASE pc' # "abort" /\ status' = [status EXCEPT ![prev] = "EXIT"] /\ CanExit(prev)
    <3>1. \A r \in Resources : ~Lists(holding[prev], r)
      BY <2>2 DEF CanExit, Lists
    <3>2. \A r \in Resources : owner[r] # NULL => owner[r] \in Procs /\ owner[r] # prev
      BY <1>0, <3>1 DEF Agree, TypeOK
    <3>3. OwnerStays'
      BY <1>0, <1>5, <2>2, <3>2 DEF OwnerStays, Retire, TypeOK
    <3> QED BY <1>1, <1>5, <3>3 DEF Retire
  <2>3. CASE \/ UNCHANGED status
             \/ status' = [status EXCEPT ![prev] = IF @ = "RUNNING" THEN "READY" ELSE @]
    <3>1. OwnerStays'
      BY <1>0, <1>5, <2>3 DEF OwnerStays, Retire, TypeOK
    <3> QED BY <1>1, <1>5, <3>1 DEF Retire
  <2> QED BY <1>5, <2>1, <2>2, <2>3 DEF Retire
<1>6. CASE Dispatch
  <2>1. OwnerStays'
    BY <1>0, <1>6 DEF OwnerStays, Dispatch, TypeOK
  <2> QED BY <1>1, <1>6, <2>1 DEF Dispatch
<1>7. CASE Acquire
  <2>1. PICK i \in DOMAIN to_acquire[current] :
          LET rs == to_acquire[current][i] IN
          /\ rs \in ResourceSchedule /\ rs.res \in Resources
          /\ \/ /\ Take(rs.res)
                /\ holding' = [holding EXCEPT ![current] = Append(@, rs)]
                /\ pc' = pc
             \/ /\ Wait(rs.res)
                /\ holding' = holding
    BY <1>7, AcquireStep
  <2> DEFINE rs == to_acquire[current][i]
  <2>2. current \in Procs /\ current # NULL /\ status[current] = "RUNNING"
    BY <1>7, AcquireStep DEF AtWork, Acquire
  <2>3. CASE Wait(rs.res) /\ holding' = holding
    <3>1. OwnerStays'
      BY <1>0, <1>7, <2>3 DEF OwnerStays, Wait, TypeOK, Acquire
    <3> QED BY <1>1, <2>3, <3>1 DEF Wait
  <2>4. CASE /\ Take(rs.res)
             /\ holding' = [holding EXCEPT ![current] = Append(@, rs)]
             /\ pc' = pc
    <3>1. /\ holding[current] \in Seq(ResourceSchedule) /\ OnceEach(holding[current])
          /\ ~Lists(holding[current], rs.res)
      BY <1>0, <2>1, <2>2, <2>4 DEF Agree, HeldOnce, Take, TypeOK
    <3>2. /\ OnceEach(Append(holding[current], rs))
          /\ \A r : Lists(Append(holding[current], rs), r)
                    <=> Lists(holding[current], r) \/ r = rs.res
      BY <2>1, <3>1, ListsAppend
    <3>3. /\ holding'[current] = Append(holding[current], rs)
          /\ \A p \in Procs : p # current => holding'[p] = holding[p]
          /\ owner'[rs.res] = current
          /\ \A r \in Resources : r # rs.res => owner'[r] = owner[r]
          /\ owner[rs.res] = NULL
      BY <2>1, <2>2, <2>4 DEF Take, TypeOK
    <3>4. HeldOnce'
      BY <1>0, <3>2, <3>3 DEF HeldOnce
    <3>5. Agree'
      <4> SUFFICES ASSUME NEW r \in Resources, NEW p \in Procs
                   PROVE  owner'[r] = p <=> Lists(holding'[p], r)
        BY DEF Agree
      <4>1. owner[r] = p <=> Lists(holding[p], r)
        BY <1>0 DEF Agree
      <4>2. p # NULL
        BY DEF Procs, NULL
      <4>3. CASE p = current
        BY <2>2, <3>2, <3>3, <4>1, <4>2, <4>3
      <4>4. CASE p # current
        <5>1. holding'[p] = holding[p]
          BY <3>3, <4>4
        <5>2. owner'[r] = p <=> owner[r] = p
          BY <3>3, <4>2, <4>4
        <5> QED BY <4>1, <5>1, <5>2
      <4> QED BY <4>3, <4>4
    <3>6. OwnerStays'
      BY <1>0, <2>2, <2>4, <3>3 DEF OwnerStays, Take
    <3> QED BY <3>4, <3>5, <3>6
  <2> QED BY <2>1, <2>3, <2>4
<1>8. CASE Run
  <2>1. /\ current \in Procs
        /\ holding[current] \in Seq(ResourceSchedule)
        /\ holding' = [holding EXCEPT ![current] =
                         [k \in DOMAIN holding[current] |-> Charge(holding[current][k])]]
    BY <1>8 DEF Run, AtWork, TypeOK
  <2>2. \A p \in Procs : /\ OnceEach(holding[p]) => OnceEach(holding'[p])
                         /\ \A r : Lists(holding'[p], r) <=> Lists(holding[p], r)
    BY <2>1, ListsCharge DEF TypeOK
  <2>3. Agree' /\ HeldOnce'
    BY <1>0, <1>8, <2>2 DEF Agree, HeldOnce, Run
  <2>4. OwnerStays'
    BY <1>0, <1>8 DEF OwnerStays, Run
  <2> QED BY <2>3, <2>4
<1>9. CASE Release
  <2>1. PICK i \in DOMAIN holding[current] :
          LET r == holding[current][i].res IN
          /\ r \in Resources
          /\ Disown(r)
          /\ WakeNobody(r) \/ \E k \in DOMAIN waitqueue[r] : Wake(r, k)
          /\ holding' = [holding EXCEPT ![current] = RemoveAt(@, i)]
    BY <1>9, ReleaseStep
  <2> DEFINE s == holding[current][i].res
  <2>2. current \in Procs /\ current # NULL
    BY <1>9, ReleaseStep DEF AtWork, Release
  <2>3. /\ OnceEach(RemoveAt(holding[current], i))
        /\ \A r : Lists(RemoveAt(holding[current], i), r)
                  <=> Lists(holding[current], r) /\ r # s
    BY <1>0, <2>2, ListsRemoveAt DEF HeldOnce, TypeOK
  <2>4. /\ holding'[current] = RemoveAt(holding[current], i)
        /\ \A p \in Procs : p # current => holding'[p] = holding[p]
        /\ owner'[s] = NULL
        /\ \A r \in Resources : r # s => owner'[r] = owner[r]
        /\ owner[s] = current
    BY <2>1, <2>2 DEF Disown, TypeOK
  <2>5. HeldOnce'
    BY <1>0, <2>3, <2>4 DEF HeldOnce
  <2>6. Agree'
    <3> SUFFICES ASSUME NEW r \in Resources, NEW p \in Procs
                 PROVE  owner'[r] = p <=> Lists(holding'[p], r)
      BY DEF Agree
    <3>1. owner[r] = p <=> Lists(holding[p], r)
      BY <1>0, SMTT(40) DEF Agree
    <3>2. p # NULL
      BY DEF Procs, NULL
    <3> QED BY <2>3, <2>4, <3>1, <3>2
  <2>7. \A p \in Procs : status[p] # "EXIT" => status'[p] # "EXIT"
    BY <2>1 DEF WakeNobody, Wake, TypeOK
  <2>8. OwnerStays'
    BY <1>0, <1>9, <2>4, <2>7, ZenonT(60) DEF OwnerStays, Release, TypeOK
  <2> QED BY <2>5, <2>6, <2>8
<1>10. CASE Ended \/ UNCHANGED vars
  BY <1>0, <1>1, <1>10 DEF Ended, vars, OwnerStays
<1> QED BY <1>2, <1>3, <1>4, <1>5, <1>6, <1>7, <1>8, <1>9, <1>10 DEF Next

(* The owner pointers, the holders' lists and the life of the processes    *)
(* agree in every simulation, so the assertion of every release() callback *)
(* holds and no resource is left to a process that has been freed.         *)
THEOREM OwnershipAgrees == Spec => []OwnerHolds
<1>1. Init => TypeOK /\ AtWork /\ OwnerHolds
  <2>1. Init => OwnerHolds
    BY DEF Init, OwnerHolds, Holds, NoRepeats, Procs, NULL
  <2> QED BY <2>1, InitType
<1>2. TypeOK /\ AtWork /\ OwnerHolds /\ [Next]_vars => (TypeOK /\ AtWork /\ OwnerHolds)'
  BY TypeStep, AtWorkStep, OwnerStep
<1> QED BY <1>1, <1>2, PTL DEF Spec

-----------------------------------------------------------------------------
(* Wake-ups.                                                               *)

(* A process that waits for r was refused r: the next entry it has to      *)
(* acquire is the one for r, and stays so while it waits.                  *)
WaitersRequest ==
  \A r \in Resources : \A p \in Procs : InQueue(p, waitqueue[r]) => Requests(p, r)

LEMMA FirstDueUnique ==
  ASSUME TypeOK, NEW p \in Procs, NEW i, NEW j, FirstDue(p, i), FirstDue(p, j)
  PROVE  i = j
<1>1. i \in Nat \ {0} /\ j \in Nat \ {0}
  <2>1. to_acquire[p] \in Seq(ResourceSchedule)
    BY DEF TypeOK
  <2>2. DOMAIN to_acquire[p] = 1..Len(to_acquire[p]) /\ Len(to_acquire[p]) \in Nat
    BY <2>1, LenProperties
  <2> QED BY <2>2 DEF FirstDue
<1>2. ~(i < j) /\ ~(j < i)
  BY <1>1 DEF FirstDue
<1> QED BY <1>1, <1>2

(* What p asks for depends on its list and its age alone. *)
LEMMA RequestsKept ==
  ASSUME NEW p, NEW r, to_acquire'[p] = to_acquire[p], age'[p] = age[p],
         Requests(p, r)
  PROVE  Requests(p, r)'
BY DEF Requests, FirstDue

LEMMA WaitersStep ==
  ASSUME TypeOK, AtWork, WaitersRequest, [Next]_vars
  PROVE  WaitersRequest'
<1> SUFFICES ASSUME NEW r \in Resources, NEW p \in Procs, InQueue(p, waitqueue'[r])
             PROVE  Requests(p, r)'
  BY DEF WaitersRequest, InQueue
<1>1. CASE UNCHANGED <<waitqueue, to_acquire, age>>
  BY <1>1, RequestsKept DEF WaitersRequest
<1>2. CASE ForkOnSchedule \/ ForkDone \/ Schedule \/ Retire \/ Dispatch \/ Tick
           \/ Ended \/ UNCHANGED vars
  BY <1>1, <1>2 DEF ForkOnSchedule, ForkDone, Schedule, Retire, Dispatch, Tick, Ended, vars
<1>3. CASE Acquire
  <2>1. PICK i \in DOMAIN to_acquire[current] :
          LET rs == to_acquire[current][i] IN
          /\ FirstDue(current, i)
          /\ rs.res \in Resources
          /\ \/ /\ Take(rs.res)
                /\ to_acquire' = [to_acquire EXCEPT ![current] = RemoveAt(@, i)]
             \/ /\ Wait(rs.res)
                /\ to_acquire' = to_acquire
    BY <1>3, AcquireStep
  <2> DEFINE s == to_acquire[current][i].res
  <2>2. /\ current \in Procs /\ age' = age
        /\ ~InQueue(current, waitqueue[r])
    BY <1>3, AcquireStep DEF Acquire, AtWork
  <2>3. CASE /\ Take(s)
             /\ to_acquire' = [to_acquire EXCEPT ![current] = RemoveAt(@, i)]
    <3>1. InQueue(p, waitqueue[r])
      BY <2>3 DEF Take
    <3>2. p # current /\ Requests(p, r)
      BY <2>2, <3>1 DEF WaitersRequest
    <3>3. to_acquire'[p] = to_acquire[p]
      BY <2>2, <2>3, <3>2 DEF TypeOK
    <3> QED BY <2>2, <3>2, <3>3, RequestsKept
  <2>4. CASE Wait(s) /\ to_acquire' = to_acquire
    <3>1. InQueue(p, waitqueue[r]) \/ (p = current /\ r = s)
      <4>1. r # s => waitqueue'[r] = waitqueue[r]
        BY <2>4 DEF Wait, TypeOK
      <4>2. r = s => waitqueue'[r] = Append(waitqueue[r], current)
        BY <2>4 DEF Wait, TypeOK
      <4>3. waitqueue[r] \in Seq(Procs)
        BY DEF TypeOK
      <4>4. InQueue(p, Append(waitqueue[r], current)) => InQueue(p, waitqueue[r]) \/ p = current
        BY <2>2, <4>3, InAppend
      <4> QED BY <4>1, <4>2, <4>4
    <3>2. Requests(p, r)
      <4>1. p = current /\ r = s => Requests(p, r)
        BY <2>1 DEF Requests
      <4> QED BY <3>1, <4>1 DEF WaitersRequest
    <3> QED BY <2>2, <2>4, <3>2, RequestsKept
  <2> QED BY <2>1, <2>3, <2>4
<1>4. CASE Run
  <2>1. /\ InQueue(p, waitqueue[r]) /\ p # current
        /\ to_acquire' = to_acquire
        /\ age' = [age EXCEPT ![current] = age[current] + 1]
    BY <1>4 DEF Run, AtWork
  <2>2. Requests(p, r) /\ age'[p] = age[p]
    BY <2>1 DEF WaitersRequest, TypeOK
  <2> QED BY <2>1, <2>2, RequestsKept
<1>5. CASE Release
  <2>1. to_acquire' = to_acquire /\ age' = age
    BY <1>5 DEF Release
  <2>2. PICK s \in Resources : WakeNobody(s) \/ \E k \in DOMAIN waitqueue[s] : Wake(s, k)
    BY <1>5, ReleaseStep
  <2>3. InQueue(p, waitqueue[r])
    <3>1. CASE WakeNobody(s)
      BY <3>1 DEF WakeNobody
    <3>2. ASSUME NEW k \in DOMAIN waitqueue[s], Wake(s, k)
          PROVE  InQueue(p, waitqueue[r])
      <4>1. r # s => waitqueue'[r] = waitqueue[r]
        BY <3>2 DEF Wake, TypeOK
      <4>2. r = s => waitqueue'[r] = RemoveAt(waitqueue[r], k)
        BY <3>2 DEF Wake, TypeOK
      <4>3. waitqueue[r] \in Seq(Procs) /\ k \in DOMAIN waitqueue[s]
        BY DEF TypeOK
      <4> QED BY <4>1, <4>2, <4>3, InRemoveAt
    <3> QED BY <2>2, <3>1, <3>2
  <2> QED BY <2>1, <2>3, RequestsKept DEF WaitersRequest
<1> QED BY <1>2, <1>3, <1>4, <1>5 DEF Next

LEMMA WakeupStep ==
  ASSUME TypeOK, AtWork, WaitersRequest, NoLostWakeup, [Next]_vars
  PROVE  NoLostWakeup'
<1> DEFINE Asks(p, r) == status[p] \notin {"BLOCKED", "EXIT"} /\ Requests(p, r)
<1> SUFFICES ASSUME pc' # "abort", NEW r \in Resources,
                    waitqueue'[r] # <<>>, owner'[r] = NULL
             PROVE  \E p \in Procs : status'[p] \notin {"BLOCKED", "EXIT"} /\ Requests(p, r)'
  BY DEF NoLostWakeup
(* The steps that leave the wait queue of r, its owner, and one of those *)
(* that ask for r as they are.                                           *)
<1>1. ASSUME NEW w \in Procs, Asks(w, r), to_acquire'[w] = to_acquire[w],
             age'[w] = age[w], status'[w] \notin {"BLOCKED", "EXIT"}
      PROVE  \E p \in Procs : status'[p] \notin {"BLOCKED", "EXIT"} /\ Requests(p, r)'
  BY <1>1, RequestsKept
<1>2. ASSUME pc # "abort", waitqueue'[r] = waitqueue[r], owner'[r] = owner[r]
      PROVE  \E w \in Procs : Asks(w, r)
  BY <1>2 DEF NoLostWakeup
<1>3. CASE ForkOnSchedule
  <2>1. PICK w \in Procs : Asks(w, r)
    BY <1>2, <1>3 DEF ForkOnSchedule
  <2>2. status'[w] \notin {"BLOCKED", "EXIT"}
    BY <1>3, <2>1 DEF ForkOnSchedule, TypeOK
  <2> QED BY <1>1, <1>3, <2>1, <2>2 DEF ForkOnSchedule
<1>4. CASE ForkDone \/ Schedule \/ Tick
  <2>1. PICK w \in Procs : Asks(w, r)
    BY <1>2, <1>4 DEF ForkDone, Schedule, Tick
  <2> QED BY <1>1, <1>4, <2>1 DEF ForkDone, Schedule, Tick
<1>5. CASE Retire
  <2>1. PICK w \in Procs : Asks(w, r)
    BY <1>2, <1>5 DEF Retire
  <2>2. CASE status' = [status EXCEPT ![prev] = "EXIT"] /\ CanExit(prev)
    <3>1. ~Requests(prev, r)
      BY <2>2 DEF CanExit, Requests, FirstDue
    <3>2. w # prev /\ status'[w] = status[w]
      BY <2>1, <2>2, <3>1 DEF TypeOK
    <3> QED BY <1>1, <1>5, <2>1, <3>2 DEF Retire
  <2>3. CASE \/ UNCHANGED status
             \/ status' = [status EXCEPT ![prev] = IF @ = "RUNNING" THEN "READY" ELSE @]
    <3>1. status'[w] \notin {"BLOCKED", "EXIT"}
      BY <2>1, <2>3 DEF TypeOK
    <3> QED BY <1>1, <1>5, <2>1, <3>1 DEF Retire
  <2> QED BY <1>5, <2>2, <2>3 DEF Retire
<1>6. CASE Dispatch
  <2>1. PICK w \in Procs : Asks(w, r)
    BY <1>2, <1>6 DEF Dispatch
  <2>2. status'[w] \notin {"BLOCKED", "EXIT"}
    BY <1>6, <2>1 DEF Dispatch, TypeOK
  <2> QED BY <1>1, <1>6, <2>1, <2>2 DEF Dispatch
<1>7. CASE Acquire
  <2>1. PICK i \in DOMAIN to_acquire[current] :
          LET rs == to_acquire[current][i] IN
          /\ FirstDue(current, i)
          /\ rs.res \in Resources
          /\ \/ /\ Take(rs.res)
                /\ to_acquire' = [to_acquire EXCEPT ![current] = RemoveAt(@, i)]
             \/ /\ Wait(rs.res)
                /\ to_acquire' = to_acquire
    BY <1>7, AcquireStep
  <2> DEFINE s == to_acquire[current][i].res
  <2>2. current \in Procs /\ current # NULL /\ age' = age /\ pc # "abort"
    BY <1>7, AcquireStep DEF Acquire, AtWork
  <2>3. r # s
    <3>1. Take(s) => owner'[s] # NULL
      BY <2>1, <2>2 DEF Take, TypeOK
    <3>2. Wait(s) => owner'[s] # NULL
      BY DEF Wait
    <3> QED BY <2>1, <3>1, <3>2
  <2>4. waitqueue'[r] = waitqueue[r] /\ owner'[r] = owner[r]
    BY <2>1, <2>3 DEF Take, Wait, TypeOK
  <2>5. PICK w \in Procs : Asks(w, r)
    BY <1>2, <2>2, <2>4
  <2>6. w # current
    <3>1. PICK j \in DOMAIN to_acquire[w] : FirstDue(w, j) /\ to_acquire[w][j].res = r
      BY <2>5 DEF Requests
    <3> QED BY <2>1, <2>2, <2>3, <3>1, FirstDueUnique
  <2>7. to_acquire'[w] = to_acquire[w] /\ status'[w] = status[w]
    BY <2>1, <2>2, <2>6 DEF Take, Wait, TypeOK
  <2> QED BY <1>1, <2>2, <2>5, <2>7
<1>8. CASE Run
  <2>1. PICK w \in Procs : Asks(w, r)
    BY <1>2, <1>8 DEF Run
  <2>2. w # current
    BY <1>8, <2>1 DEF Run, NothingDue, Requests, FirstDue
  <2>3. age'[w] = age[w]
    BY <1>8, <2>2 DEF Run, TypeOK
  <2> QED BY <1>1, <1>8, <2>1, <2>3 DEF Run
<1>9. CASE Release
  <2>1. PICK s \in Resources :
          Disown(s) /\ (WakeNobody(s) \/ \E k \in DOMAIN waitqueue[s] : Wake(s, k))
    BY <1>9, ReleaseStep
  <2>2. to_acquire' = to_acquire /\ age' = age /\ pc # "abort"
    BY <1>9 DEF Release
  <2>3. CASE r = s
    <3>1. ~WakeNobody(s)
      BY <2>3 DEF WakeNobody
    <3>2. PICK k \in DOMAIN waitqueue[s] : Wake(s, k)
      BY <2>1, <3>1
    <3>3. waitqueue[s][k] \in Procs /\ Requests(waitqueue[s][k], r)
      BY <2>3, ListType DEF WaitersRequest, InQueue
    <3>4. status'[waitqueue[s][k]] = "READY"
      BY <3>2, <3>3 DEF Wake, TypeOK
    <3> QED BY <2>2, <3>3, <3>4, RequestsKept
  <2>4. CASE r # s
    <3>1. waitqueue'[r] = waitqueue[r] /\ owner'[r] = owner[r]
      BY <2>1, <2>4 DEF Disown, WakeNobody, Wake, TypeOK
    <3>2. PICK w \in Procs : Asks(w, r)
      BY <1>2, <2>2, <3>1
    <3>3. status'[w] \notin {"BLOCKED", "EXIT"}
      BY <2>1, <3>2 DEF WakeNobody, Wake, TypeOK
    <3> QED BY <1>1, <2>2, <3>2, <3>3
  <2> QED BY <2>3, <2>4
<1>10. CASE Ended \/ UNCHANGED vars
  <2>1. UNCHANGED vars
    BY <1>10 DEF Ended
  <2>2. PICK w \in Procs : Asks(w, r)
    BY <1>2, <2>1 DEF vars
  <2> QED BY <1>1, <2>1, <2>2 DEF vars
<1> QED BY <1>3, <1>4, <1>5, <1>6, <1>7, <1>8, <1>9, <1>10 DEF Next

(* No wake-up is lost: a free resource with processes waiting for it is    *)
(* about to be asked for by a process that can run.  Every release() wakes *)
(* one waiter only and does not hand it the resource; this is why that is  *)
(* enough.                                                                 *)
THEOREM NoWakeupLost == Spec => []NoLostWakeup
<1> DEFINE IInv == TypeOK /\ AtWork /\ WaitersRequest /\ NoLostWakeup
<1>1. Init => IInv
  <2>1. Init => WaitersRequest /\ NoLostWakeup
    BY DEF Init, WaitersRequest, NoLostWakeup, InQueue
  <2> QED BY <2>1, InitType
<1>2. IInv /\ [Next]_vars => IInv'
  BY TypeStep, AtWorkStep, WaitersStep, WakeupStep
<1>3. IInv => NoLostWakeup
  OBVIOUS
<1> QED BY <1>1, <1>2, <1>3, PTL DEF Spec
=============================================================================
