---------------------------- MODULE PolicyProofs ----------------------------
(***************************************************************************)
(* What TLAPS proves about the eight scheduling policies: that each keeps  *)
(* the promise PolicyProps states for it, for every number of processes,   *)
(* every set of resources and every script; and which process prio and PIP *)
(* grant a resource to.                                                    *)
(***************************************************************************)
EXTENDS PolicyProps, GrantOrder, TaskProofs

-----------------------------------------------------------------------------
(* Uses that overlap.                                                      *)

(* What p holds is held for an entry of its script that is not to be       *)
(* acquired any more, and that covers the last tick of p's age at least.   *)
LEMMA HeldFor ==
  ASSUME TaskInv, NEW p \in Procs, WellFormed(script[p]), NEW r \in Resources, owner[r] = p
  PROVE  \E i \in DOMAIN script[p].acquires :
           LET u == script[p].acquires[i] IN
           /\ u.res = r /\ u.at \in Nat /\ u.duration \in Nat
           /\ u.at + u.duration <= lifespan(p)
           /\ NoRepeats(script[p].acquires) => u \notin ToSet(to_acquire[p])
           /\ IF Releasing(p) THEN u.at < age[p] /\ age[p] <= u.at + u.duration
              ELSE u.at <= age[p] /\ age[p] < u.at + u.duration
<1> DEFINE uses == script[p].acquires
<1>0. /\ TypeOK /\ OwnerHolds /\ uses \in Seq(ResourceSchedule)
      /\ age[p] \in Nat
      /\ PlayedBy(uses, to_acquire[p], holding[p], age[p], Releasing(p))
  <2>1. TypeOK
    BY DEF TaskInv, PlaceInv
  <2> QED BY <2>1, ScriptType DEF TaskInv, Played, TypeOK
<1>1. PICK k \in DOMAIN holding[p] : holding[p][k].res = r
  BY <1>0 DEF OwnerHolds, Holds
<1> DEFINE h == holding[p][k]
<1>2. h \in ToSet(holding[p]) /\ h \in ResourceSchedule /\ h.res = r
  BY <1>0, <1>1, ElementOfSeq, LenProperties DEF ToSet, TypeOK
<1> HIDE DEF h
<1>3. PICK u \in ToSet(uses) :
        Matches(u, h, age[p]) /\ (NoRepeats(uses) => u \notin ToSet(to_acquire[p]))
  BY <1>0, <1>2 DEF PlayedBy
<1>4. PICK i \in DOMAIN uses : u = uses[i]
  BY DEF ToSet
<1>5. /\ u.at \in Nat /\ u.duration \in Nat /\ u.duration > 0
      /\ u.at + u.duration <= lifespan(p)
  BY <1>0, WellUsed DEF lifespan
<1>6. u.res = r /\ u.at = h.at /\ u.at + u.duration = age[p] + Rest(h, age[p])
  BY <1>2, <1>3, <1>5 DEF Matches, Eff
<1>7. h.duration \in Nat /\ UINT_MOD \in Nat
  BY <1>2, NumberAssumption DEF ResourceSchedule
<1>8. CASE Releasing(p)
  <2>1. h.at < age[p]
    BY <1>0, <1>2, <1>8 DEF PlayedBy
  <2>2. Rest(h, age[p]) \in Nat
    BY <1>7 DEF Rest
  <2> QED BY <1>0, <1>3, <1>4, <1>5, <1>6, <1>8, <2>1, <2>2
<1>9. CASE ~Releasing(p)
  <2>1. h.at <= age[p] /\ Rest(h, age[p]) > 0
    BY <1>0, <1>2, <1>9 DEF PlayedBy
  <2>2. Rest(h, age[p]) \in Nat
    BY <1>7 DEF Rest
  <2> QED BY <1>0, <1>3, <1>4, <1>5, <1>6, <1>9, <2>1, <2>2
<1> QED BY <1>8, <1>9

(* Two uses that overlap are not the same entry twice, ... *)
LEMMA Distinct ==
  ASSUME TypeOK, NEW p \in Procs, WellFormed(script[p]),
         \A i, j \in DOMAIN script[p].acquires :
           i # j /\ script[p].acquires[i] = script[p].acquires[j]
             => ~Overlap(script[p].acquires[i], script[p].acquires[j])
  PROVE  NoRepeats(script[p].acquires)
<1> DEFINE uses == script[p].acquires
<1> SUFFICES ASSUME NEW i \in DOMAIN uses, NEW j \in DOMAIN uses, uses[i] = uses[j], i # j
             PROVE  FALSE
  BY DEF NoRepeats
<1>1. uses \in Seq(ResourceSchedule)
  BY ScriptType
<1>2. uses[i].at \in Nat /\ uses[i].duration \in Nat /\ uses[i].duration > 0
  BY <1>1, WellUsed DEF ToSet
<1> QED BY <1>2 DEF Overlap

(* ... so what p holds and asks for at the same time are two entries of    *)
(* its script that overlap.                                                *)
LEMMA HoldsAndAsks ==
  ASSUME TaskInv, NEW p \in Procs, WellFormed(script[p]), NoRepeats(script[p].acquires),
         ~Releasing(p), NEW r \in Resources, owner[r] = p, NEW s \in Resources, Requests(p, s)
  PROVE  \E i, j \in DOMAIN script[p].acquires :
           /\ i # j /\ script[p].acquires[i].res = r /\ script[p].acquires[j].res = s
           /\ Overlap(script[p].acquires[i], script[p].acquires[j])
<1> DEFINE uses == script[p].acquires
<1>0. /\ TypeOK /\ uses \in Seq(ResourceSchedule) /\ age[p] \in Nat
      /\ PlayedBy(uses, to_acquire[p], holding[p], age[p], Releasing(p))
  <2>1. TypeOK
    BY DEF TaskInv, PlaceInv
  <2> QED BY <2>1, ScriptType DEF TaskInv, Played, TypeOK
<1>1. PICK i \in DOMAIN uses :
        /\ uses[i].res = r /\ uses[i].at \in Nat /\ uses[i].duration \in Nat
        /\ uses[i] \notin ToSet(to_acquire[p])
        /\ uses[i].at <= age[p] /\ age[p] < uses[i].at + uses[i].duration
  BY HeldFor
<1>2. PICK k \in DOMAIN to_acquire[p] : to_acquire[p][k].at = age[p] /\ to_acquire[p][k].res = s
  BY DEF Requests, FirstDue
<1>3. to_acquire[p][k] \in ToSet(to_acquire[p])
  BY DEF ToSet
<1>4. PICK j \in DOMAIN uses : uses[j] = to_acquire[p][k]
  BY <1>0, <1>3 DEF PlayedBy, ToSet
<1>5. uses[j].at \in Nat /\ uses[j].duration \in Nat /\ uses[j].duration > 0
  BY <1>0, WellUsed DEF ToSet
<1>6. i # j
  BY <1>1, <1>3, <1>4
<1>7. Overlap(uses[i], uses[j])
  <2>1. uses[j].at = age[p]
    BY <1>2, <1>4
  <2> QED BY <1>0, <1>1, <1>5, <2>1 DEF Overlap
<1> QED BY <1>1, <1>2, <1>4, <1>6, <1>7

(* Somebody who uses one resource at a time asks for nothing while it      *)
(* holds something, ...                                                    *)
LEMMA OneInHand ==
  ASSUME TaskInv, NEW p \in Procs, WellFormed(script[p]), OneAtATime(p),
         NEW r \in Resources, owner[r] = p
  PROVE  /\ ~Releasing(p) => \A s \in Resources : ~Requests(p, s)
         /\ \A s \in Resources : owner[s] = p => s = r
<1>1. TypeOK /\ NoRepeats(script[p].acquires)
  BY Distinct DEF OneAtATime, TaskInv, PlaceInv
<1>2. ASSUME ~Releasing(p), NEW s \in Resources, Requests(p, s)
      PROVE  FALSE
  BY <1>1, <1>2, HoldsAndAsks DEF OneAtATime
<1>3. ASSUME NEW s \in Resources, owner[s] = p
      PROVE  s = r
  <2> DEFINE uses == script[p].acquires
  <2>1. PICK i \in DOMAIN uses :
          /\ uses[i].res = r /\ uses[i].at \in Nat /\ uses[i].duration \in Nat
          /\ IF Releasing(p) THEN uses[i].at < age[p] /\ age[p] <= uses[i].at + uses[i].duration
             ELSE uses[i].at <= age[p] /\ age[p] < uses[i].at + uses[i].duration
    BY HeldFor
  <2>2. PICK j \in DOMAIN uses :
          /\ uses[j].res = s /\ uses[j].at \in Nat /\ uses[j].duration \in Nat
          /\ IF Releasing(p) THEN uses[j].at < age[p] /\ age[p] <= uses[j].at + uses[j].duration
             ELSE uses[j].at <= age[p] /\ age[p] < uses[j].at + uses[j].duration
    BY <1>3, HeldFor
  <2>3. age[p] \in Nat
    BY <1>1 DEF TypeOK
  <2>4. Overlap(uses[i], uses[j])
    BY <2>1, <2>2, <2>3 DEF Overlap
  <2> QED BY <2>1, <2>2, <2>4 DEF OneAtATime
<1> QED BY <1>2, <1>3

(* ... and somebody who does not ask again for what it is using asks for   *)
(* nothing that it holds.                                                  *)
LEMMA NotAgain ==
  ASSUME TaskInv, NEW p \in Procs, WellFormed(script[p]), NoReacquire,
         NEW r \in Resources, owner[r] = p, ~Releasing(p)
  PROVE  ~Requests(p, r)
<1>1. TypeOK /\ NoRepeats(script[p].acquires)
  BY Distinct DEF NoReacquire, TaskInv, PlaceInv
<1> QED BY <1>1, HoldsAndAsks DEF NoReacquire

-----------------------------------------------------------------------------
(* No deadlock without overlapping uses: the owner somebody stuck would    *)
(* wait for would have to wait as well, for something it asks for while it *)
(* holds the other.  So every simulation of scripts that use one resource  *)
(* at a time exits all of its processes, whatever the scheduler, unless    *)
(* rr or stcf destroys its lists.                                          *)
THEOREM NobodyIsStuck ==
  ASSUME ShortLives, Fitting
  PROVE  Spec => []EveryoneExits
<1>1. TaskInv => EveryoneExits
  <2> SUFFICES ASSUME TaskInv, pc = "done", AllWellFormed, NoOverlap,
                      NEW p \in Procs, status[p] # "EXIT"
               PROVE  FALSE
    BY DEF EveryoneExits
  <2>1. PICK r \in Resources : owner[r] \in Procs /\ status[owner[r]] = "BLOCKED"
    BY Stuck DEF AllWellFormed, WellFormed, lifespan
  <2> DEFINE q == owner[r]
  <2>2. PICK s \in Resources : InQueue(q, waitqueue[s])
    BY <2>1 DEF TaskInv, PlaceInv, PlaceParts, Intact, StatusSays
  <2>3. Requests(q, s)
    BY <2>1, <2>2 DEF TaskInv, WaitersRequest
  <2>4. WellFormed(script[q]) /\ OneAtATime(q) /\ ~Releasing(q)
    BY <2>1 DEF AllWellFormed, NoOverlap, Releasing
  <2> QED BY <2>1, <2>3, <2>4, OneInHand
<1> QED BY <1>1, TaskAlways, PTL

-----------------------------------------------------------------------------
(* Shortest time to completion first.                                      *)

(* The ready queue after a process was taken off it. *)
LEMMA SwitchTo ==
  ASSUME TypeOK, NEW i \in DOMAIN readyqueue, NEW requeue,
         \/ requeue = <<>>
         \/ requeue = <<current>> /\ current \in Procs,
         Switch(i, requeue)
  PROVE  /\ current' = readyqueue[i] /\ current' \in Procs
         /\ InQueue(current', readyqueue)
         /\ \A p : InQueue(p, readyqueue') =>
              InQueue(p, readyqueue) \/ (requeue = <<current>> /\ p = current)
<1>1. /\ readyqueue \in Seq(Procs) /\ readyqueue[i] \in Procs
      /\ RemoveAt(readyqueue, i) \in Seq(Procs)
  BY ElementOfSeq, LenProperties, RemoveAtSeq DEF TypeOK
<1>2. InQueue(readyqueue[i], readyqueue)
  BY DEF InQueue
<1>3. \A p : InQueue(p, RemoveAt(readyqueue, i)) => InQueue(p, readyqueue)
  BY <1>1, InRemoveAt
<1>4. CASE requeue = <<>>
  BY <1>1, <1>2, <1>3, <1>4, QueueConcat DEF Switch
<1>5. CASE requeue = <<current>> /\ current \in Procs
  <2>1. readyqueue' = Append(RemoveAt(readyqueue, i), current)
    BY <1>1, <1>5, QueueConcat DEF Switch
  <2>2. \A p : InQueue(p, readyqueue') <=> InQueue(p, RemoveAt(readyqueue, i)) \/ p = current
    BY <1>1, <1>5, <2>1, InAppend
  <2>3. current' = readyqueue[i]
    BY DEF Switch
  <2> QED BY <1>1, <1>2, <1>3, <1>5, <2>2, <2>3
<1> QED BY <1>4, <1>5

LEMMA ShortestPicked ==
  ASSUME TypeOK, PlaceParts, ShortLives, sched = "stcf", Schedule
  PROVE  /\ pc' # "corrupt" /\ current' # NULL =>
              \A p \in Procs : InQueue(p, readyqueue') => Remaining(current') <= Remaining(p)
         /\ CanStay /\ current' # current =>
              current' # NULL /\ Remaining(current') < Remaining(current)
<1>0. /\ stcf_schedule /\ age \in [Procs -> Nat]
      /\ pc = "schedule" /\ (pc' # "corrupt" => \A p \in Procs : ~LinkedTwice(p, readyqueue'))
      /\ waitqueue' = waitqueue
  BY DEF Schedule, schedule, TypeOK
<1>1. \A p \in Procs : Remaining(p) \in Int /\ Remaining(p) < MAX_TC
  <2> SUFFICES ASSUME NEW p \in Procs PROVE Remaining(p) \in Int /\ Remaining(p) < MAX_TC
    OBVIOUS
  <2>1. lifespan(p) \in Nat /\ age[p] \in Nat /\ MAX_TC \in Nat
    BY <1>0, ScriptType, NumberAssumption
  <2>2. lifespan(p) < MAX_TC
    BY DEF ShortLives, TypeOK, lifespan
  <2> QED BY <2>1, <2>2 DEF Remaining
<1>2. readyqueue \in Seq(Procs) /\ \A j \in DOMAIN readyqueue : readyqueue[j] \in Procs
  BY ElementOfSeq, LenProperties DEF TypeOK
<1>3. CASE ~CanStay /\ PickNobody
  BY <1>3 DEF PickNobody
<1>4. CASE /\ CanStay \/ readyqueue # <<>>
           /\ \A j \in DOMAIN readyqueue : Remaining(readyqueue[j]) >= TimeToBeat
           /\ Stay
  <2>1. CanStay
    <3>1. CASE readyqueue # <<>>
      <4>1. 1 \in DOMAIN readyqueue
        BY <1>2, <3>1
      <4>2. Remaining(readyqueue[1]) < MAX_TC /\ Remaining(readyqueue[1]) >= TimeToBeat
        BY <1>1, <1>2, <1>4, <4>1
      <4> QED BY <1>1, <1>2, <4>1, <4>2, NumberAssumption DEF TimeToBeat
    <3> QED BY <1>4, <3>1
  <2>2. \A p \in Procs : InQueue(p, readyqueue) => Remaining(current) <= Remaining(p)
    BY <1>1, <1>4, <2>1 DEF TimeToBeat, InQueue, CanStay, OnCpu, TypeOK
  <2> QED BY <1>4, <2>2 DEF Stay
<1>5. CASE \E i \in DOMAIN readyqueue :
             FirstShortestToComplete(i) /\ Switch(i, CurrentIfAlive)
  <2>1. PICK i \in DOMAIN readyqueue :
               FirstShortestToComplete(i) /\ Switch(i, CurrentIfAlive)
    BY <1>5
  <2>2. \/ CurrentIfAlive = <<>>
        \/ CurrentIfAlive = <<current>> /\ current \in Procs
    BY DEF CurrentIfAlive, TypeOK
  <2>3. /\ current' = readyqueue[i] /\ current' \in Procs
        /\ \A p : InQueue(p, readyqueue') =>
              InQueue(p, readyqueue) \/ (CurrentIfAlive = <<current>> /\ p = current)
    BY <2>1, <2>2, SwitchTo
  <2>4. \A p : InQueue(p, readyqueue) => Remaining(current') <= Remaining(p)
    BY <2>1, <2>3 DEF FirstShortestToComplete, InQueue
  <2>5. CASE CanStay
    <3>1. Remaining(current') < Remaining(current)
      BY <2>1, <2>3, <2>5 DEF FirstShortestToComplete, TimeToBeat
    <3>2. current \in Procs
      BY <2>5 DEF CanStay, OnCpu, TypeOK
    <3> QED BY <1>1, <2>3, <2>4, <3>1, <3>2 DEF Procs, NULL
  <2>6. CASE ~CanStay /\ CurrentIfAlive = <<>>
    BY <2>3, <2>4, <2>6
  <2>7. CASE ~CanStay /\ CurrentIfAlive = <<current>> /\ current \in Procs
    <3>1. status[current] = "BLOCKED"
      <4>1. Unfinished(current) /\ current # NULL
        BY <2>7 DEF CurrentIfAlive
      <4> QED BY <2>7, <4>1 DEF CanStay, OnCpu
    <3>2. \E r \in Resources : InQueue(current, waitqueue[r])
      BY <1>0, <2>7, <3>1 DEF PlaceParts, Intact, StatusSays
    <3>3. readyqueue' = Append(RemoveAt(readyqueue, i), current)
      BY <1>2, <2>1, <2>7, QueueConcat, RemoveAtSeq DEF Switch
    <3>4. InQueue(current, readyqueue')
      BY <1>2, <2>7, <3>3, RemoveAtSeq, InAppend
    <3>5. pc' = "corrupt"
      BY <1>0, <2>7, <3>2, <3>4 DEF LinkedTwice
    <3> QED BY <2>7, <3>5
  <2> QED BY <2>2, <2>5, <2>6, <2>7
<1> QED BY <1>0, <1>3, <1>4, <1>5 DEF stcf_schedule

(* The process on the CPU has the least to go from schedule() on, until it *)
(* ages: nothing becomes ready in between.                                 *)
ShortestRuns ==
  sched = "stcf" /\ pc \in {"retire", "dispatch", "acquire"} /\ current # NULL =>
    \A p \in Procs : InQueue(p, readyqueue) => Remaining(current) <= Remaining(p)

LEMMA ShortestStep ==
  ASSUME TypeOK, AtWork, PlaceParts, ShortLives, ShortestRuns, [Next]_vars
  PROVE  ShortestRuns'
<1>1. CASE ForkOnSchedule \/ ForkDone
  BY <1>1 DEF ForkOnSchedule, ForkDone, ShortestRuns
<1>2. CASE Schedule
  <2>1. sched' = sched /\ age' = age /\ script' = script /\ pc' \in {"corrupt", "retire"}
    BY <1>2 DEF Schedule
  <2>2. sched = "stcf" /\ pc' # "corrupt" /\ current' # NULL =>
          \A p \in Procs : InQueue(p, readyqueue') => Remaining(current') <= Remaining(p)
    BY <1>2, ShortestPicked
  <2> QED BY <2>1, <2>2 DEF ShortestRuns, Remaining, lifespan
<1>3. CASE Retire \/ Dispatch \/ Acquire
  BY <1>3 DEF Retire, Dispatch, Acquire, ShortestRuns, Remaining, lifespan
<1>4. CASE Run \/ Release \/ Tick
  BY <1>4 DEF Run, Release, Tick, ShortestRuns
<1>5. CASE Ended \/ UNCHANGED vars
  BY <1>5 DEF Ended, vars, ShortestRuns, Remaining, lifespan
<1> QED BY <1>1, <1>2, <1>3, <1>4, <1>5 DEF Next

(* stcf_schedule compares at some of its exits only, and puts current back *)
(* in one of them only; still, whoever starts a tick has the least left to *)
(* run of all that could, and a process that could go on loses the CPU     *)
(* only to one with strictly less left.                                    *)
THEOREM ShortestFirst ==
  ASSUME ShortLives
  PROVE  Spec => StcfLeastRemaining
<1>1. Init => ShortestRuns
  BY DEF Init, ShortestRuns
<1>2. PlaceInv /\ ShortestRuns /\ [Next]_vars => ShortestRuns'
  BY ShortestStep DEF PlaceInv
<1>3. ASSUME PlaceInv, PlaceInv', ShortestRuns, ShortestRuns', [Next]_vars
      PROVE  [ sched = "stcf" =>
                 /\ pc' = "acquire" => HasLeastRemaining'
                 /\ CanStay /\ current' # current
                      => current' # NULL /\ Remaining(current') < Remaining(current) ]_vars
  <2>1. CASE UNCHANGED vars
    BY <2>1
  <2>2. ASSUME sched = "stcf", Next
        PROVE  /\ pc' = "acquire" => HasLeastRemaining'
               /\ CanStay /\ current' # current
                    => current' # NULL /\ Remaining(current') < Remaining(current)
    <3>1. ASSUME pc' = "acquire" PROVE HasLeastRemaining'
      <4>1. sched' = "stcf"
        BY <2>2 DEF Next, ForkOnSchedule, ForkDone, Schedule, Retire, Dispatch, Acquire, Run,
                    Release, Tick, Ended, vars
      <4>2. current' # NULL /\ readyqueue' \in Seq(Procs)
        BY <1>3, <3>1 DEF PlaceInv, AtWork, TypeOK
      <4>3. \A k \in DOMAIN readyqueue' : readyqueue'[k] \in Procs /\ InQueue(readyqueue'[k], readyqueue')
        BY <4>2, ElementOfSeq, LenProperties DEF InQueue
      <4> QED BY <1>3, <3>1, <4>1, <4>2, <4>3 DEF ShortestRuns, HasLeastRemaining
    <3>2. ASSUME CanStay, current' # current
          PROVE  current' # NULL /\ Remaining(current') < Remaining(current)
      <4>1. Schedule
        BY <2>2, <3>2 DEF Next, ForkOnSchedule, ForkDone, Retire, Dispatch, Acquire, Run,
                          Release, Tick, Ended, vars
      <4> QED BY <1>3, <2>2, <3>2, <4>1, ShortestPicked DEF PlaceInv
    <3> QED BY <3>1, <3>2
  <2> QED BY <1>3, <2>1, <2>2
<1> QED BY <1>1, <1>2, <1>3, PlaceAlways, PTL DEF Spec, StcfLeastRemaining

-----------------------------------------------------------------------------
(* Priorities.                                                             *)

(* What happens to a priority, unless processes age. *)
LEMMA PriorityStep ==
  ASSUME TypeOK, AtWork, sched # "pa", [Next]_vars
  PROVE  \/ prio' = prio
         \/ /\ sched = "pcp" /\ Acquire /\ pc' = pc
            /\ prio' = [prio EXCEPT ![current] = MAX_PRIO]
         \/ /\ sched = "pip" /\ Acquire /\ pc' = "fork"
            /\ \E r \in Resources :
                 /\ Wait(r) /\ prio[owner[r]] < prio[current]
                 /\ prio' = [prio EXCEPT ![owner[r]] = prio[current]]
         \/ /\ sched \in {"pcp", "pip"} /\ Release
            /\ prio' = [prio EXCEPT ![current] = prio_orig(current)]
<1>1. CASE ForkOnSchedule \/ ForkDone \/ Retire \/ Dispatch \/ Run \/ Tick \/ Ended \/ UNCHANGED vars
  BY <1>1 DEF ForkOnSchedule, ForkDone, Retire, Dispatch, Run, Tick, Ended, vars
<1>2. CASE Schedule
  BY <1>2 DEF Schedule, schedule, fifo_schedule, sjf_schedule, stcf_schedule, rr_schedule,
              prio_schedule
<1>3. CASE Acquire
  <2>1. PICK i \in DOMAIN to_acquire[current] :
          /\ acquire(to_acquire[current][i].res)
          /\ \/ owner[to_acquire[current][i].res] = NULL /\ UNCHANGED pc
             \/ owner[to_acquire[current][i].res] # NULL /\ pc' = "fork"
    BY <1>3 DEF Acquire
  <2> DEFINE r == to_acquire[current][i].res
  <2>2. r \in Resources
    BY <1>3, ListType DEF ResourceSchedule, Acquire, AtWork, TypeOK
  <2> HIDE DEF r
  <2>3. acquire(r) /\ (owner[r] # NULL => pc' = "fork") /\ (owner[r] = NULL => pc' = pc)
    BY <2>1 DEF r
  <2>4. CASE sched \in FcfsSchedulers \/ sched \in PrioSchedulers
    BY <2>3, <2>4 DEF acquire, fcfs_acquire, prio_acquire, pcp_acquire, pip_acquire,
                      FcfsSchedulers, PrioSchedulers
  <2>5. CASE sched = "pcp"
    BY <1>3, <2>3, <2>5 DEF acquire, pcp_acquire, FcfsSchedulers, PrioSchedulers, Take, Wait
  <2>6. CASE sched = "pip"
    <3>1. pip_acquire(r)
      BY <2>3, <2>6 DEF acquire, FcfsSchedulers, PrioSchedulers
    <3>2. \/ prio' = prio
          \/ /\ Wait(r) /\ prio[owner[r]] < prio[current]
             /\ prio' = [prio EXCEPT ![owner[r]] = prio[current]]
      BY <3>1 DEF pip_acquire
    <3>3. Wait(r) => pc' = "fork"
      BY <2>3 DEF Wait
    <3> QED BY <1>3, <2>2, <2>6, <3>2, <3>3
  <2> QED BY <2>3, <2>4, <2>5, <2>6 DEF acquire
<1>4. CASE Release
  <2>1. PICK i \in DOMAIN holding[current] : release(holding[current][i].res)
    BY <1>4 DEF Release
  <2> QED BY <1>4, <2>1 DEF release, fcfs_release, prio_release, pcp_release, pip_release,
                            DropPriority
<1> QED BY <1>1, <1>2, <1>3, <1>4 DEF Next

(* "Maximum value for priority" (process.h:64): pcp_acquire would lower    *)
(* a priority above it.                                                    *)
BelowCeiling ==
  "pcp" \in Schedulers => \A s \in Scripts : \A p \in Procs : s[p].prio <= MAX_PRIO

Ceiling == sched = "pcp" => \A p \in Procs : prio[p] <= MAX_PRIO

LEMMA CeilingStep ==
  ASSUME TypeOK, AtWork, BelowCeiling, Ceiling, [Next]_vars
  PROVE  Ceiling'
<1>1. sched' = sched
  BY DEF Next, ForkOnSchedule, ForkDone, Schedule, Retire, Dispatch, Acquire, Run,
         Release, Tick, Ended, vars
<1> SUFFICES ASSUME sched = "pcp", NEW p \in Procs PROVE prio'[p] <= MAX_PRIO
  BY <1>1 DEF Ceiling
<1>2. prio[p] <= MAX_PRIO /\ prio \in [Procs -> Nat] /\ MAX_PRIO \in Nat
  BY NumberAssumption DEF Ceiling, TypeOK
<1>3. prio_orig(p) <= MAX_PRIO
  BY DEF BelowCeiling, TypeOK, prio_orig
<1>4. \/ prio' = prio
      \/ prio' = [prio EXCEPT ![current] = MAX_PRIO]
      \/ prio' = [prio EXCEPT ![current] = prio_orig(current)]
  BY PriorityStep
<1> QED BY <1>2, <1>3, <1>4

LEMMA HighestPicked ==
  ASSUME TypeOK, sched \in {"prio", "pcp", "pip"}, Schedule
  PROVE  current' # NULL =>
           \A p \in Procs : InQueue(p, readyqueue') => prio[current'] >= prio[p]
<1>0. prio_schedule /\ prio \in [Procs -> Nat]
  BY DEF Schedule, schedule, TypeOK
<1>1. \A k \in DOMAIN readyqueue : readyqueue[k] \in Procs
  BY ElementOfSeq, LenProperties DEF TypeOK
<1>2. CASE CanStay /\ readyqueue = <<>> /\ Stay
  BY <1>2, QueueEmpty DEF Stay
<1>3. CASE ~CanStay /\ PickNobody
  BY <1>3 DEF PickNobody
<1>4. CASE \E i \in DOMAIN readyqueue :
          /\ FirstHighest(readyqueue, prio, i)
          /\ \/ CanStay /\ prio[current] > prio[readyqueue[i]] /\ Stay
             \/ /\ ~(CanStay /\ prio[current] > prio[readyqueue[i]])
                /\ Switch(i, CurrentIfRunnable)
  <2>1. PICK i \in DOMAIN readyqueue :
          /\ FirstHighest(readyqueue, prio, i)
          /\ \/ CanStay /\ prio[current] > prio[readyqueue[i]] /\ Stay
             \/ /\ ~(CanStay /\ prio[current] > prio[readyqueue[i]])
                /\ Switch(i, CurrentIfRunnable)
    BY <1>4
  <2>2. \A p \in Procs : InQueue(p, readyqueue) => prio[readyqueue[i]] >= prio[p]
    BY <2>1 DEF FirstHighest, InQueue
  <2>3. CASE CanStay /\ prio[current] > prio[readyqueue[i]] /\ Stay
    <3>1. current \in Procs
      BY <2>3 DEF CanStay, OnCpu, TypeOK
    <3> QED BY <1>0, <1>1, <2>2, <2>3, <3>1 DEF Stay
  <2>4. CASE ~(CanStay /\ prio[current] > prio[readyqueue[i]]) /\ Switch(i, CurrentIfRunnable)
    <3>1. \/ CurrentIfRunnable = <<>>
          \/ CurrentIfRunnable = <<current>> /\ current \in Procs /\ CanStay
      BY CurrentIf DEF CanStay, OnCpu, TypeOK
    <3>2. /\ current' = readyqueue[i]
          /\ \A p : InQueue(p, readyqueue') =>
               InQueue(p, readyqueue) \/ (CurrentIfRunnable = <<current>> /\ p = current)
      BY <2>4, <3>1, SwitchTo
    <3>3. CurrentIfRunnable = <<current>> => prio[current] <= prio[readyqueue[i]]
      BY <1>0, <1>1, <2>4, <3>1
    <3> QED BY <2>2, <3>2, <3>3
  <2> QED BY <2>1, <2>3, <2>4
<1> QED BY <1>0, <1>2, <1>3, <1>4 DEF prio_schedule

(* The process on the CPU has the highest priority from schedule() on,     *)
(* until it is refused a resource or lets one go.                          *)
HighestStays ==
  sched \in {"prio", "pcp", "pip"} /\ pc \in {"retire", "dispatch", "acquire"} /\ current # NULL =>
    \A p \in Procs : InQueue(p, readyqueue) => prio[current] >= prio[p]

LEMMA HighestStep ==
  ASSUME TypeOK, AtWork, Ceiling, HighestStays, [Next]_vars
  PROVE  HighestStays'
<1>1. CASE ForkOnSchedule \/ ForkDone \/ Run \/ Release \/ Tick
  BY <1>1 DEF ForkOnSchedule, ForkDone, Run, Release, Tick, HighestStays
<1>2. CASE Schedule
  <2>1. sched' = sched
    BY <1>2 DEF Schedule
  <2>2. sched \in {"prio", "pcp", "pip"} => prio' = prio
    BY <1>2 DEF Schedule, schedule, prio_schedule
  <2> QED BY <1>2, <2>1, <2>2, HighestPicked DEF HighestStays
<1>3. CASE Retire \/ Dispatch
  BY <1>3 DEF Retire, Dispatch, HighestStays
<1>4. CASE Acquire
  <2>1. /\ sched' = sched /\ current' = current /\ readyqueue' = readyqueue /\ pc = "acquire"
        /\ current \in Procs
    BY <1>4 DEF Acquire, AtWork, TypeOK
  <2> SUFFICES ASSUME sched \in {"prio", "pcp", "pip"}, pc' # "fork",
                      NEW p \in Procs, InQueue(p, readyqueue)
               PROVE  prio'[current] >= prio'[p]
    BY <2>1 DEF HighestStays
  <2>2. prio[current] >= prio[p] /\ prio \in [Procs -> Nat] /\ MAX_PRIO \in Nat
    BY <2>1, NumberAssumption DEF HighestStays, TypeOK, NULL, Procs
  <2>3. prio' = prio \/ (sched = "pcp" /\ prio' = [prio EXCEPT ![current] = MAX_PRIO])
    BY <2>1, PriorityStep DEF Release
  <2> QED BY <2>1, <2>2, <2>3 DEF Ceiling
<1>5. CASE Ended \/ UNCHANGED vars
  BY <1>5 DEF Ended, vars, HighestStays
<1> QED BY <1>1, <1>2, <1>3, <1>4, <1>5 DEF Next

LEMMA HighestAlways ==
  ASSUME BelowCeiling
  PROVE  Spec => []HighestStays
<1>1. Init => TypeOK /\ AtWork /\ Ceiling /\ HighestStays
  <2> SUFFICES ASSUME Init PROVE Ceiling /\ HighestStays
    BY InitType
  <2>1. TypeOK
    BY InitType
  <2>2. \A p \in Procs : prio[p] = script[p].prio
    BY DEF Init
  <2> QED BY <2>1, <2>2 DEF Init, Ceiling, HighestStays, BelowCeiling, TypeOK
<1>2. TypeOK /\ AtWork /\ Ceiling /\ HighestStays /\ [Next]_vars
        => (TypeOK /\ AtWork /\ Ceiling /\ HighestStays)'
  BY TypeStep, AtWorkStep, CeilingStep, HighestStep
<1> QED BY <1>1, <1>2, PTL DEF Spec

(* Under prio, PCP and PIP no ready process has a higher priority than the *)
(* one that starts a tick, the boosts included: prio_schedule is asked at  *)
(* every tick, and nothing becomes ready or is boosted before the tick     *)
(* runs but the process itself.                                            *)
THEOREM HighestPriorityRuns ==
  ASSUME BelowCeiling
  PROVE  Spec => []HighestRuns
<1>1. TypeOK /\ AtWork /\ HighestStays => HighestRuns
  <2> SUFFICES ASSUME TypeOK, AtWork, HighestStays, sched \in {"prio", "pcp", "pip"},
                      pc = "acquire", NEW k \in DOMAIN readyqueue
               PROVE  prio[current] >= prio[readyqueue[k]]
    BY DEF HighestRuns
  <2>1. readyqueue[k] \in Procs /\ InQueue(readyqueue[k], readyqueue)
    BY ElementOfSeq, LenProperties DEF TypeOK, InQueue
  <2> QED BY <2>1 DEF HighestStays, AtWork
<1>2. Init => TypeOK /\ AtWork
  BY InitType
<1>3. TypeOK /\ AtWork /\ [Next]_vars => (TypeOK /\ AtWork)'
  BY TypeStep, AtWorkStep
<1> QED BY <1>1, <1>2, <1>3, HighestAlways, PTL DEF Spec

-----------------------------------------------------------------------------
(* Policies under which nobody ever waits.                                 *)

NonPreemptive == sched \in {"fifo", "sjf"} /\ AllWellFormed /\ NoReacquire
Ceilinged ==
  sched = "pcp" /\ AllWellFormed /\ NoOverlap /\ \A p \in Procs : prio_orig(p) < MAX_PRIO

(* Nobody is blocked, and whoever holds something has the CPU.             *)
HoldersRun ==
  /\ \A p \in Procs : status[p] # "BLOCKED"
  /\ \A r \in Resources : owner[r] \in {NULL, current}

(* PCP: the holder of a resource is at the ceiling, and nobody else is.    *)
Boosted ==
  \A p \in Procs :
    prio[p] = IF \E r \in Resources : owner[r] = p THEN MAX_PRIO ELSE prio_orig(p)

LEMMA Fixed ==
  ASSUME [Next]_vars
  PROVE  sched' = sched /\ script' = script
BY DEF Next, ForkOnSchedule, ForkDone, Schedule, Retire, Dispatch, Acquire, Run,
       Release, Tick, Ended, vars

(* A simulation goes on only as long as its lists are intact. *)
LEMMA IntactBefore ==
  ASSUME [Next]_vars, Intact'
  PROVE  Intact
<1> SUFFICES ASSUME ~Intact PROVE ~Intact'
  OBVIOUS
<1>1. pc \in {"corrupt", "abort"}
  BY DEF Intact
<1>2. pc' = pc
  BY <1>1 DEF Next, ForkOnSchedule, ForkDone, Schedule, Retire, Dispatch, Acquire, Run,
              Release, Tick, Ended, vars
<1> QED BY <1>1, <1>2 DEF Intact

(* What it holds will be given back before it has run for its lifespan, so *)
(* the holder can stay on the CPU, and does.                               *)
LEMMA HolderStays ==
  ASSUME TaskInv, HoldersRun, NonPreemptive \/ (Ceilinged /\ Boosted), Schedule,
         NEW r \in Resources, owner[r] # NULL
  PROVE  current' = current
<1>0. /\ TypeOK /\ CurrentDetached /\ pc = "schedule" /\ Intact /\ schedule
      /\ AllWellFormed
  BY DEF TaskInv, PlaceInv, InPlace, Schedule, Intact, NonPreemptive, Ceilinged
<1>1. current \in Procs /\ owner[r] = current
  BY <1>0 DEF HoldersRun, TypeOK
<1>2. PICK i \in DOMAIN script[current].acquires :
        LET u == script[current].acquires[i] IN
        /\ u.at \in Nat /\ u.duration \in Nat /\ u.at + u.duration <= lifespan(current)
        /\ age[current] < u.at + u.duration
  BY <1>0, <1>1, HeldFor DEF AllWellFormed, Releasing
<1>3. age[current] \in Nat /\ lifespan(current) \in Nat
  BY <1>0, <1>1, ScriptType DEF TypeOK
<1>4. CanStay
  BY <1>1, <1>2, <1>3 DEF CanStay, OnCpu, Unfinished, HoldersRun, Procs, NULL
<1>5. CASE NonPreemptive
  BY <1>0, <1>4, <1>5 DEF NonPreemptive, schedule, fifo_schedule, sjf_schedule, Stay
<1>6. CASE Ceilinged /\ Boosted
  <2>1. prio_schedule
    BY <1>0, <1>6 DEF Ceilinged, schedule
  <2>2. ASSUME NEW k \in DOMAIN readyqueue
        PROVE  prio[current] > prio[readyqueue[k]]
    <3>1. readyqueue[k] \in Procs /\ readyqueue[k] # current
      <4>1. readyqueue[k] \in Procs
        BY <1>0, ElementOfSeq, LenProperties DEF TypeOK
      <4>2. InQueue(readyqueue[k], readyqueue) /\ current # NULL
        BY <1>1 DEF InQueue, Procs, NULL
      <4> QED BY <1>0, <4>1, <4>2 DEF CurrentDetached
    <3>2. \A s \in Resources : owner[s] # readyqueue[k]
      BY <3>1 DEF HoldersRun, Procs, NULL
    <3>3. prio[current] = MAX_PRIO /\ prio[readyqueue[k]] = prio_orig(readyqueue[k])
      BY <1>1, <1>6, <3>1, <3>2 DEF Boosted
    <3>4. prio_orig(readyqueue[k]) < MAX_PRIO /\ MAX_PRIO \in Nat
          /\ prio_orig(readyqueue[k]) \in Nat
      BY <1>0, <1>6, <3>1, ScriptType, NumberAssumption DEF Ceilinged
    <3> QED BY <3>3, <3>4
  <2> QED BY <1>4, <2>1, <2>2 DEF prio_schedule, Stay
<1> QED BY <1>5, <1>6

LEMMA HoldersStep ==
  ASSUME TaskInv, HoldersRun, NonPreemptive \/ (Ceilinged /\ Boosted), [Next]_vars
  PROVE  HoldersRun'
<1>0. TypeOK /\ AtWork /\ AllWellFormed
  BY DEF TaskInv, PlaceInv, NonPreemptive, Ceilinged
<1>1. status \in [Procs -> Statuses] /\ owner \in [Resources -> Procs \union {NULL}]
  BY <1>0 DEF TypeOK
<1>2. CASE ForkOnSchedule
  BY <1>1, <1>2 DEF ForkOnSchedule, HoldersRun
<1>3. CASE ForkDone \/ Run \/ Tick \/ Ended \/ UNCHANGED vars
  BY <1>3 DEF ForkDone, Run, Tick, Ended, vars, HoldersRun
<1>4. CASE Schedule
  <2>1. status' = status /\ owner' = owner
    BY <1>4 DEF Schedule
  <2>2. \A r \in Resources : owner[r] # NULL => current' = current
    BY <1>4, HolderStays
  <2> QED BY <2>1, <2>2 DEF HoldersRun
<1>5. CASE Retire
  BY <1>1, <1>5 DEF Retire, HoldersRun
<1>6. CASE Dispatch
  BY <1>1, <1>6 DEF Dispatch, HoldersRun
<1>7. CASE Acquire
  <2>1. PICK i \in DOMAIN to_acquire[current] :
          LET r == to_acquire[current][i].res IN
          /\ FirstDue(current, i) /\ r \in Resources /\ (Take(r) \/ Wait(r))
    BY <1>0, <1>7, AcquireStep
  <2> DEFINE r == to_acquire[current][i].res
  <2>2. Requests(current, r) /\ current \in Procs /\ pc = "acquire" /\ current' = current
    BY <1>0, <1>7, <2>1, AcquireStep DEF Requests, Acquire
  <2> HIDE DEF r
  <2>3. CASE Take(r)
    BY <1>1, <2>2, <2>3 DEF Take, HoldersRun
  <2>4. CASE Wait(r)
    <3>1. owner[r] = current
      BY <2>1, <2>4 DEF Wait, HoldersRun, r
    <3>2. ~Releasing(current) /\ WellFormed(script[current])
      BY <1>0, <2>2 DEF Releasing, AllWellFormed
    <3>3. CASE NonPreemptive
      BY <2>1, <2>2, <3>1, <3>2, <3>3, NotAgain DEF NonPreemptive, r
    <3>4. CASE Ceilinged
      BY <2>1, <2>2, <3>1, <3>2, <3>4, OneInHand DEF Ceilinged, NoOverlap, r
    <3> QED BY <3>3, <3>4
  <2> QED BY <2>1, <2>3, <2>4 DEF r
<1>8. CASE Release
  <2>1. PICK r \in Resources :
          Disown(r) /\ (WakeNobody(r) \/ \E k \in DOMAIN waitqueue[r] : Wake(r, k))
    BY <1>0, <1>8, ReleaseStep
  <2>2. \A p \in Procs : status'[p] # "BLOCKED"
    BY <1>1, <2>1 DEF WakeNobody, Wake, HoldersRun
  <2>3. current' = current
    BY <1>8 DEF Release
  <2> QED BY <1>1, <2>1, <2>2, <2>3 DEF Disown, HoldersRun
<1> QED BY <1>2, <1>3, <1>4, <1>5, <1>6, <1>7, <1>8 DEF Next

LEMMA BoostedStep ==
  ASSUME TaskInv, HoldersRun, Ceilinged, Boosted, [Next]_vars
  PROVE  Boosted'
<1>0. /\ TypeOK /\ AtWork /\ AllWellFormed /\ NoOverlap /\ sched = "pcp"
      /\ prio \in [Procs -> Nat] /\ owner \in [Resources -> Procs \union {NULL}]
  BY DEF TaskInv, PlaceInv, Ceilinged, TypeOK
<1>1. script' = script
  BY Fixed
<1>2. CASE UNCHANGED <<prio, owner>>
  BY <1>1, <1>2 DEF Boosted, prio_orig
<1>3. CASE ForkOnSchedule \/ ForkDone \/ Retire \/ Dispatch \/ Run \/ Tick \/ Ended
  BY <1>2, <1>3 DEF ForkOnSchedule, ForkDone, Retire, Dispatch, Run, Tick, Ended, vars
<1>4. CASE Schedule
  BY <1>0, <1>2, <1>4 DEF Schedule, schedule, prio_schedule
<1>5. CASE Acquire
  <2>1. PICK i \in DOMAIN to_acquire[current] :
          FirstDue(current, i) /\ acquire(to_acquire[current][i].res)
    BY <1>5 DEF Acquire
  <2> DEFINE r == to_acquire[current][i].res
  <2>2. /\ Requests(current, r) /\ current \in Procs /\ pc = "acquire" /\ r \in Resources
        /\ ~Releasing(current)
    BY <1>0, <1>5, <2>1, AcquireStep, ListType
       DEF Requests, Acquire, ResourceSchedule, Releasing
  <2>3. pcp_acquire(r)
    BY <1>0, <2>1 DEF acquire, FcfsSchedulers, PrioSchedulers
  <2> HIDE DEF r
  <2>4. \A s \in Resources : owner[s] # current
    BY <1>0, <2>2, OneInHand DEF AllWellFormed, NoOverlap
  <2>5. owner[r] = NULL
    BY <2>2, <2>4 DEF HoldersRun
  <2>6. /\ owner' = [owner EXCEPT ![r] = current]
        /\ prio' = [prio EXCEPT ![current] = MAX_PRIO]
    BY <2>3, <2>5 DEF pcp_acquire, Take, Wait
  <2>7. ASSUME NEW p \in Procs
        PROVE  prio'[p] = IF \E s \in Resources : owner'[s] = p THEN MAX_PRIO ELSE prio_orig(p)
    <3>1. CASE p = current
      BY <1>0, <2>2, <2>6, <3>1
    <3>2. CASE p # current
      <4>1. \A s \in Resources : owner'[s] = p <=> owner[s] = p
        BY <1>0, <2>2, <2>5, <2>6, <3>2 DEF Procs, NULL
      <4> QED BY <1>0, <2>2, <2>6, <3>2, <4>1 DEF Boosted
    <3> QED BY <3>1, <3>2
  <2> QED BY <1>1, <2>7 DEF Boosted, prio_orig
<1>6. CASE Release
  <2>1. PICK i \in DOMAIN holding[current] : release(holding[current][i].res)
    BY <1>6 DEF Release
  <2> DEFINE r == holding[current][i].res
  <2>2. current \in Procs /\ r \in Resources
    BY <1>0, <1>6, <2>1, ReleaseStep, ListType DEF ResourceSchedule
  <2>3. DropPriority /\ Disown(r)
    BY <1>0, <2>1 DEF release, pcp_release, FcfsSchedulers, PrioSchedulers
  <2> HIDE DEF r
  <2>4. \A s \in Resources : owner[s] # NULL => s = r
    BY <1>0, <2>2, <2>3, OneInHand DEF AllWellFormed, NoOverlap, HoldersRun, Disown
  <2>5. \A s \in Resources : owner'[s] = NULL
    BY <1>0, <2>2, <2>3, <2>4 DEF Disown
  <2>6. ASSUME NEW p \in Procs
        PROVE  prio'[p] = prio_orig(p) /\ \A s \in Resources : owner'[s] # p
    <3>1. CASE p = current
      BY <1>0, <2>3, <2>5, <3>1 DEF DropPriority, Procs, NULL
    <3>2. CASE p # current
      <4>1. \A s \in Resources : owner[s] # p
        BY <3>2 DEF HoldersRun, Procs, NULL
      <4> QED BY <1>0, <2>3, <2>5, <3>2, <4>1 DEF DropPriority, Boosted, Procs, NULL
    <3> QED BY <3>1, <3>2
  <2> QED BY <1>1, <2>6 DEF Boosted, prio_orig
<1> QED BY <1>2, <1>3, <1>4, <1>5, <1>6 DEF Next, vars

(* The inductive invariant. *)
FreeRun ==
  /\ NonPreemptive => HoldersRun
  /\ Ceilinged => HoldersRun /\ Boosted

LEMMA FreeRunAlways ==
  ASSUME ShortLives, Fitting
  PROVE  Spec => []FreeRun
<1>1. Init => FreeRun
  <2> SUFFICES ASSUME Init PROVE HoldersRun /\ Boosted
    BY DEF FreeRun
  <2> QED BY DEF Init, HoldersRun, Boosted, prio_orig, Procs, NULL
<1>2. ASSUME TaskInv, FreeRun, [Next]_vars PROVE FreeRun'
  <2>1. (NonPreemptive' <=> NonPreemptive) /\ (Ceilinged' <=> Ceilinged)
    BY <1>2, Fixed DEF NonPreemptive, Ceilinged, AllWellFormed, NoReacquire, NoOverlap,
                       OneAtATime, prio_orig
  <2> QED BY <1>2, <2>1, HoldersStep, BoostedStep DEF FreeRun
<1> QED BY <1>1, <1>2, TaskAlways, PTL DEF Spec

(* FIFO and SJF because they are not preemptive, PCP because of the        *)
(* ceiling: no process is ever refused a resource, as long as none asks    *)
(* for what it is using (PCP: uses one resource at a time, below the       *)
(* ceiling), and under PCP whoever holds a resource has the CPU.           *)
THEOREM NobodyWaits ==
  ASSUME ShortLives, Fitting
  PROVE  Spec => []NeverBlocks
<1>1. FreeRun => NeverBlocks
  BY DEF FreeRun, NonPreemptive, Ceilinged, HoldersRun, NeverBlocks, Waiting
<1> QED BY <1>1, FreeRunAlways, PTL

-----------------------------------------------------------------------------
(* The order of creation.                                                  *)

(* Who is before whom in a list does not change when another one leaves... *)
LEMMA OrderRemoveAt ==
  ASSUME NEW S, NEW q \in Seq(S), NEW i \in DOMAIN q,
         NEW j \in DOMAIN RemoveAt(q, i), NEW k \in DOMAIN RemoveAt(q, i), j < k
  PROVE  \E a, b \in DOMAIN q \ {i} :
           a < b /\ RemoveAt(q, i)[j] = q[a] /\ RemoveAt(q, i)[k] = q[b]
<1>1. /\ Len(q) \in Nat /\ DOMAIN q = 1..Len(q) /\ i \in 1..Len(q)
      /\ DOMAIN RemoveAt(q, i) = 1..(Len(q) - 1)
      /\ \A n \in 1..(Len(q) - 1) :
           RemoveAt(q, i)[n] = IF n < i THEN q[n] ELSE q[n + 1]
  BY RemoveAtSeq, LenProperties
<1> DEFINE a == IF j < i THEN j ELSE j + 1
           b == IF k < i THEN k ELSE k + 1
<1>2. a \in DOMAIN q \ {i} /\ b \in DOMAIN q \ {i} /\ a < b
  BY <1>1
<1>3. RemoveAt(q, i)[j] = q[a] /\ RemoveAt(q, i)[k] = q[b]
  BY <1>1
<1> QED BY <1>2, <1>3

(* ... or joins at the tail. *)
LEMMA OrderAppend ==
  ASSUME NEW S, NEW q \in Seq(S), NEW e \in S,
         NEW j \in DOMAIN Append(q, e), NEW k \in DOMAIN Append(q, e), j < k
  PROVE  /\ j \in DOMAIN q /\ Append(q, e)[j] = q[j]
         /\ \/ k \in DOMAIN q /\ Append(q, e)[k] = q[k]
            \/ Append(q, e)[k] = e
OBVIOUS

(* The fork queue keeps the order of the script, nobody in it is overdue,  *)
(* and whoever has been created was to be created before them.             *)
ForkOrder ==
  /\ \A i, j \in DOMAIN forkqueue : i < j => forkqueue[i] < forkqueue[j]
  /\ \A p \in Procs : InQueue(p, forkqueue) =>
       script[p].start >= ticks /\ (pc # "fork" => script[p].start > ticks)
  /\ \A p, q \in Procs :
       ~InQueue(q, forkqueue) /\ InQueue(p, forkqueue) => CreatedBefore(q, p)

LEMMA ForkOrderStep ==
  ASSUME TypeOK, AtWork, ForkOrder, [Next]_vars
  PROVE  ForkOrder'
<1>0. /\ forkqueue \in Seq(Procs) /\ ticks \in Nat /\ script' = script
      /\ \A p \in Procs : script[p].start \in Nat
  <2>1. \A p \in Procs : script[p] \in ProcessDesc
    BY ScriptType
  <2> QED BY <2>1, Fixed DEF TypeOK, ProcessDesc
<1>1. CASE ForkOnSchedule
  <2>1. PICK i \in DOMAIN forkqueue :
          /\ Due(forkqueue[i]) /\ \A j \in 1..(i - 1) : ~Due(forkqueue[j])
          /\ forkqueue' = RemoveAt(forkqueue, i)
    BY <1>1 DEF ForkOnSchedule
  <2> DEFINE q0 == forkqueue[i]
  <2>2. /\ DOMAIN forkqueue = 1..Len(forkqueue) /\ Len(forkqueue) \in Nat
        /\ \A j \in DOMAIN forkqueue : forkqueue[j] \in Procs /\ InQueue(forkqueue[j], forkqueue)
    BY <1>0, ElementOfSeq, LenProperties DEF InQueue
  <2>3. NoRepeats(forkqueue)
    BY <2>2 DEF ForkOrder, NoRepeats, Procs
  <2>4. \A p : InQueue(p, forkqueue') <=> InQueue(p, forkqueue) /\ p # q0
    BY <1>0, <2>1, <2>3, QueueRemoveAt
  <2>5. ASSUME NEW j \in DOMAIN forkqueue', NEW k \in DOMAIN forkqueue', j < k
        PROVE  forkqueue'[j] < forkqueue'[k]
    BY <1>0, <2>1, <2>5, OrderRemoveAt DEF ForkOrder
  <2>6. pc' = pc /\ pc = "fork" /\ ticks' = ticks
    BY <1>1 DEF ForkOnSchedule
  <2>7. ASSUME NEW p \in Procs, InQueue(p, forkqueue), p # q0
        PROVE  CreatedBefore(q0, p)
    <3>1. PICK k \in DOMAIN forkqueue : forkqueue[k] = p
      BY <2>7 DEF InQueue
    <3>2. script[q0].start = ticks /\ script[p].start >= ticks /\ q0 \in Procs
      BY <1>0, <2>1, <2>2, <2>7 DEF ForkOrder, Due
    <3>3. CASE script[p].start = ticks
      <4>1. Due(p)
        BY <1>0, <3>3 DEF Due
      <4>2. ~(k < i) /\ k # i
        BY <2>1, <2>2, <2>7, <3>1, <4>1
      <4>3. i < k
        BY <2>2, <4>2
      <4> QED BY <3>1, <3>2, <3>3, <4>3 DEF ForkOrder, CreatedBefore
    <3>4. CASE script[p].start # ticks
      BY <1>0, <2>7, <3>2, <3>4 DEF CreatedBefore
    <3> QED BY <3>3, <3>4
  <2> HIDE DEF q0
  <2>8. ASSUME NEW p \in Procs, NEW q \in Procs, ~InQueue(q, forkqueue'), InQueue(p, forkqueue')
        PROVE  CreatedBefore(q, p)
    BY <2>4, <2>7, <2>8 DEF ForkOrder
  <2>9. \A p, q \in Procs : ~InQueue(q, forkqueue') /\ InQueue(p, forkqueue') => CreatedBefore(q, p)'
    BY <1>0, <2>8 DEF CreatedBefore
  <2>10. \A p \in Procs : InQueue(p, forkqueue') => script'[p].start >= ticks'
    BY <1>0, <2>4, <2>6 DEF ForkOrder
  <2> QED BY <2>5, <2>6, <2>9, <2>10 DEF ForkOrder
<1>2. CASE ForkDone
  <2>1. \A p \in Procs : InQueue(p, forkqueue) => script[p].start > ticks
    BY <1>0, <1>2 DEF ForkDone, Due, InQueue
  <2>2. forkqueue' = forkqueue /\ ticks' = ticks
    BY <1>2 DEF ForkDone
  <2> QED BY <1>0, <2>1, <2>2 DEF ForkOrder, CreatedBefore
<1>3. CASE /\ forkqueue' = forkqueue /\ pc # "fork"
           /\ \/ ticks' = ticks
              \/ ticks' = ticks + 1 /\ pc' = "fork"
  BY <1>0, <1>3 DEF ForkOrder, CreatedBefore
<1>4. CASE Schedule \/ Retire \/ Dispatch \/ Run \/ Release \/ Tick
  BY <1>3, <1>4 DEF Schedule, Retire, Dispatch, Run, Release, Tick
<1>5. CASE Acquire
  <2>1. ticks' = ticks \/ (ticks' = ticks + 1 /\ pc' = "fork")
    BY <1>5 DEF Acquire
  <2> QED BY <1>3, <1>5, <2>1 DEF Acquire
<1>6. CASE Ended \/ UNCHANGED vars
  BY <1>6 DEF Ended, vars, ForkOrder, CreatedBefore
<1> QED BY <1>1, <1>2, <1>4, <1>5, <1>6 DEF Next

LEMMA ForkOrderAlways == Spec => []ForkOrder
<1>1. Init => TypeOK /\ AtWork /\ ForkOrder
  <2> SUFFICES ASSUME Init PROVE ForkOrder
    BY InitType
  <2>1. TypeOK
    BY InitType
  <2>2. \A p \in Procs : script[p].start \in Nat
    BY <2>1, ScriptType DEF ProcessDesc
  <2>3. /\ DOMAIN forkqueue = Procs /\ \A p \in Procs : forkqueue[p] = p
        /\ ticks = 0 /\ pc = "fork"
    BY DEF Init
  <2>4. \A p \in Procs : InQueue(p, forkqueue)
    BY <2>3 DEF InQueue
  <2> QED BY <2>2, <2>3, <2>4 DEF ForkOrder
<1>2. TypeOK /\ AtWork /\ ForkOrder /\ [Next]_vars => (TypeOK /\ AtWork /\ ForkOrder)'
  BY TypeStep, AtWorkStep, ForkOrderStep
<1> QED BY <1>1, <1>2, PTL DEF Spec

(* Where somebody is who has not exited, when nobody waits. *)
LEMMA Somewhere ==
  ASSUME TaskInv, AllWellFormed, Intact, \A p \in Procs : status[p] # "BLOCKED",
         NEW p \in Procs, status[p] # "EXIT"
  PROVE  \/ InQueue(p, forkqueue) \/ InQueue(p, readyqueue) \/ p = current
         \/ p = prev /\ pc = "retire"
<1>1. TypeOK /\ StatusSays /\ Lives
  BY DEF TaskInv, PlaceInv, PlaceParts, LifeInv
<1>2. status[p] \in {"READY", "RUNNING"}
  BY <1>1 DEF TypeOK, Statuses
<1>3. age[p] <= lifespan(p) /\ age[p] \in Nat /\ lifespan(p) \in Nat
  BY <1>1, ScriptType DEF Lives, Alive, AllWellFormed, WellFormed, lifespan, TypeOK
<1> QED BY <1>1, <1>2, <1>3 DEF StatusSays

-----------------------------------------------------------------------------
(* First in, first out.                                                    *)

InOrder(q) == \A i, j \in DOMAIN q : i < j => CreatedBefore(q[i], q[j])

(* The ready queue is in the order of creation, behind the process on the  *)
(* CPU, which is behind those that have exited.                            *)
FifoLine ==
  /\ InOrder(readyqueue)
  /\ current # NULL => \A p \in Procs : InQueue(p, readyqueue) => CreatedBefore(current, p)
  /\ pc = "retire" /\ prev # NULL /\ prev # current =>
       \A p \in Procs : InQueue(p, readyqueue) \/ p = current => CreatedBefore(prev, p)
FifoExits ==
  \A p, q \in Procs : status[p] = "EXIT" /\ status[q] # "EXIT" => CreatedBefore(p, q)

LEMMA FifoSchedule ==
  ASSUME TypeOK, FifoLine, fifo_schedule, prev' = current, script' = script
  PROVE  FifoLine'
<1>0. /\ readyqueue \in Seq(Procs) /\ current \in Procs \union {NULL}
      /\ Len(readyqueue) \in Nat /\ DOMAIN readyqueue = 1..Len(readyqueue)
      /\ \A k \in DOMAIN readyqueue :
           readyqueue[k] \in Procs /\ InQueue(readyqueue[k], readyqueue)
  BY ElementOfSeq, LenProperties DEF TypeOK, InQueue
<1>2. CASE CanStay /\ Stay
  BY <1>2 DEF Stay, FifoLine, InOrder, CreatedBefore
<1>3. CASE ~CanStay /\ PickNobody
  <2>1. readyqueue' = <<>> /\ current' = NULL
    BY <1>3 DEF PickNobody
  <2> QED BY <2>1, QueueEmpty DEF FifoLine, InOrder, Procs, NULL
<1>4. CASE ~CanStay /\ readyqueue # <<>> /\ Switch(1, <<>>)
  <2>1. 1 \in DOMAIN readyqueue
    BY <1>0, <1>4
  <2>2. current' = readyqueue[1] /\ readyqueue' = RemoveAt(readyqueue, 1)
    BY <1>0, <1>4, <2>1, QueueConcat, RemoveAtSeq DEF Switch
  <2>3. \A j, k \in DOMAIN readyqueue' : j < k => CreatedBefore(readyqueue'[j], readyqueue'[k])
    BY <1>0, <2>1, <2>2, OrderRemoveAt DEF FifoLine, InOrder
  <2>4. ASSUME NEW k \in DOMAIN readyqueue'
        PROVE  /\ k + 1 \in DOMAIN readyqueue /\ 1 < k + 1
               /\ readyqueue'[k] = readyqueue[k + 1]
    <3>1. Len(readyqueue') = Len(readyqueue) - 1 /\ readyqueue' \in Seq(Procs)
          /\ \A j \in 1..(Len(readyqueue) - 1) : readyqueue'[j] = readyqueue[j + 1]
      <4>1. /\ RemoveAt(readyqueue, 1) \in Seq(Procs)
            /\ Len(RemoveAt(readyqueue, 1)) = Len(readyqueue) - 1
            /\ \A j \in 1..(Len(readyqueue) - 1) :
                 RemoveAt(readyqueue, 1)[j] = IF j < 1 THEN readyqueue[j] ELSE readyqueue[j + 1]
        <5>1. readyqueue \in Seq(Procs)
          BY <1>0 DEF TypeOK
        <5> QED BY <2>1, <5>1, RemoveAtSeq
      <4>2. \A j \in 1..(Len(readyqueue) - 1) : ~(j < 1)
        OBVIOUS
      <4> QED BY <2>2, <4>1, <4>2
    <3>2. k \in 1..(Len(readyqueue) - 1)
      BY <3>1, LenProperties
    <3>3. k + 1 \in 1..Len(readyqueue) /\ 1 < k + 1
      BY <1>0, <3>2
    <3> QED BY <1>0, <3>1, <3>2, <3>3
  <2>5. \A p : InQueue(p, readyqueue') =>
          InQueue(p, readyqueue) /\ CreatedBefore(readyqueue[1], p)
    BY <1>0, <2>1, <2>4 DEF InQueue, FifoLine, InOrder
  <2>6. current # NULL => \A p \in Procs : InQueue(p, readyqueue) => CreatedBefore(current, p)
    BY DEF FifoLine
  <2>7. InQueue(readyqueue[1], readyqueue)
    BY <2>1 DEF InQueue
  <2>8. \A p \in Procs : InQueue(p, readyqueue') => CreatedBefore(current', p)
    BY <2>2, <2>5
  <2>9. prev' # NULL =>
          \A p \in Procs : InQueue(p, readyqueue') \/ p = current' => CreatedBefore(prev', p)
    BY <2>2, <2>5, <2>6, <2>7
  <2> QED BY <2>3, <2>8, <2>9 DEF FifoLine, InOrder, CreatedBefore
<1> QED BY <1>2, <1>3, <1>4 DEF fifo_schedule

(* Nobody is woken where nobody waits. *)
LEMMA NoneWoken ==
  ASSUME TypeOK, AtWork, Release, \A p \in Procs : status[p] # "BLOCKED"
  PROVE  UNCHANGED <<status, readyqueue>>
<1>1. PICK r \in Resources : WakeNobody(r) \/ \E k \in DOMAIN waitqueue[r] : Wake(r, k)
  BY ReleaseStep
<1>2. ASSUME NEW k \in DOMAIN waitqueue[r], Wake(r, k) PROVE FALSE
  BY <1>2, ListType DEF Wake
<1> QED BY <1>1, <1>2 DEF WakeNobody

LEMMA FifoLineStep ==
  ASSUME TaskInv, ForkOrder, sched = "fifo", Intact, \A p \in Procs : status[p] # "BLOCKED",
         FifoLine, [Next]_vars
  PROVE  FifoLine'
<1>0. /\ TypeOK /\ AtWork /\ CurrentDetached /\ Apart /\ script' = script
      /\ current \in Procs \union {NULL}
  BY Fixed DEF TaskInv, PlaceInv, InPlace, PlaceParts, TypeOK
<1>1. CASE ForkOnSchedule
  <2>1. PICK i \in DOMAIN forkqueue : readyqueue' = Append(readyqueue, forkqueue[i])
    BY <1>1 DEF ForkOnSchedule
  <2> DEFINE p == forkqueue[i]
  <2>2. p \in Procs /\ InQueue(p, forkqueue) /\ readyqueue \in Seq(Procs)
    BY <1>0, ListType DEF InQueue, TypeOK
  <2> HIDE DEF p
  <2>3. \A j \in DOMAIN readyqueue : readyqueue[j] \in Procs /\ InQueue(readyqueue[j], readyqueue)
    BY <2>2, ElementOfSeq, LenProperties DEF InQueue
  <2>4. \A q \in Procs : InQueue(q, readyqueue) => CreatedBefore(q, p)
    BY <1>0, <2>2 DEF Apart, ForkOrder
  <2>5. current # NULL => CreatedBefore(current, p)
    BY <1>0, <2>2 DEF CurrentDetached, ForkOrder
  <2>6. readyqueue' = Append(readyqueue, p)
    BY <2>1 DEF p
  <2>7. \A q : InQueue(q, readyqueue') <=> InQueue(q, readyqueue) \/ q = p
    BY <2>2, <2>6, InAppend
  <2>8. ASSUME NEW j \in DOMAIN readyqueue', NEW k \in DOMAIN readyqueue', j < k
        PROVE  CreatedBefore(readyqueue'[j], readyqueue'[k])
    <3>1. /\ j \in DOMAIN readyqueue /\ readyqueue'[j] = readyqueue[j]
          /\ \/ k \in DOMAIN readyqueue /\ readyqueue'[k] = readyqueue[k]
             \/ readyqueue'[k] = p
      BY <2>2, <2>6, <2>8, OrderAppend
    <3> QED BY <2>3, <2>4, <2>8, <3>1 DEF FifoLine, InOrder
  <2>9. current' = current /\ pc' = "fork"
    BY <1>1 DEF ForkOnSchedule
  <2>10. current # NULL => \A q \in Procs : InQueue(q, readyqueue') => CreatedBefore(current, q)
    BY <2>5, <2>7 DEF FifoLine
  <2> QED BY <1>0, <2>8, <2>9, <2>10 DEF FifoLine, InOrder, CreatedBefore
<1>2. CASE UNCHANGED <<readyqueue, current>> /\ pc' # "retire"
  BY <1>0, <1>2 DEF FifoLine, InOrder, CreatedBefore
<1>3. CASE Schedule
  <2>1. fifo_schedule /\ prev' = current
    BY <1>3 DEF Schedule, schedule
  <2> QED BY <1>0, <2>1, FifoSchedule
<1>4. CASE ForkDone \/ Retire \/ Dispatch \/ Run \/ Tick
  BY <1>2, <1>4 DEF ForkDone, Retire, Dispatch, Run, Tick
<1>5. CASE Acquire
  BY <1>0, <1>2, <1>5, AcquireStep DEF Acquire
<1>6. CASE Release
  BY <1>0, <1>2, <1>6, NoneWoken DEF Release
<1>7. CASE Ended \/ UNCHANGED vars
  BY <1>0, <1>7 DEF Ended, vars, FifoLine, InOrder, CreatedBefore
<1> QED BY <1>1, <1>3, <1>4, <1>5, <1>6, <1>7 DEF Next

LEMMA FifoExitsStep ==
  ASSUME TaskInv, ForkOrder, AllWellFormed, \A p \in Procs : status[p] # "BLOCKED",
         Intact => FifoLine, FifoExits, [Next]_vars
  PROVE  FifoExits'
<1>0. /\ TypeOK /\ AtWork /\ script' = script /\ status \in [Procs -> Statuses]
      /\ (Intact => StatusSays)
  BY Fixed DEF TaskInv, PlaceInv, PlaceParts, TypeOK
<1>1. CASE \A p \in Procs : status'[p] = "EXIT" <=> status[p] = "EXIT"
  BY <1>0, <1>1 DEF FifoExits, CreatedBefore
<1>2. CASE ForkOnSchedule
  <2>1. PICK i \in DOMAIN forkqueue : status' = [status EXCEPT ![forkqueue[i]] = "READY"]
    BY <1>2 DEF ForkOnSchedule
  <2>2. status[forkqueue[i]] # "EXIT"
    BY <1>0, <1>2, ListType DEF ForkOnSchedule, Intact, StatusSays, InQueue
  <2> QED BY <1>0, <1>1, <2>1, <2>2
<1>3. CASE ForkDone \/ Schedule \/ Run \/ Tick \/ Ended \/ UNCHANGED vars
  BY <1>1, <1>3 DEF ForkDone, Schedule, Run, Tick, Ended, vars
<1>4. CASE Retire
  <2>1. Intact /\ pc = "retire"
    BY <1>4 DEF Retire, Intact
  <2>2. CASE prev # NULL /\ Finished(prev)
    <3>0. status' = [status EXCEPT ![prev] = "EXIT"] /\ prev \in Procs
      BY <1>0, <1>4, <2>2 DEF Retire, TypeOK
    <3>1. /\ status[prev] = "RUNNING" /\ ~InQueue(prev, forkqueue) /\ ~Unfinished(prev)
      <4>1. PrevRan
        BY DEF TaskInv, PlaceInv, InPlace
      <4>2. ~Unfinished(prev)
        BY <1>0, <2>2, <3>0, ScriptType DEF Finished, Unfinished, TypeOK
      <4> QED BY <2>1, <2>2, <3>0, <4>1, <4>2 DEF PrevRan
    <3>2. prev # current /\ ~InQueue(prev, readyqueue)
      BY <2>1, <2>2, <3>1 DEF TaskInv, PlaceInv, InPlace, PrevRan
    <3>3. ASSUME NEW q \in Procs, status[q] # "EXIT", q # prev
          PROVE  CreatedBefore(prev, q)
      <4>1. InQueue(q, forkqueue) \/ InQueue(q, readyqueue) \/ q = current
        BY <2>1, <3>3, Somewhere
      <4> QED BY <2>1, <2>2, <3>0, <3>1, <3>2, <4>1, <3>3 DEF ForkOrder, FifoLine
    <3> QED BY <1>0, <3>0, <3>3 DEF FifoExits, CreatedBefore
  <2>3. CASE ~(prev # NULL /\ Finished(prev))
    BY <1>0, <1>1, <1>4, <2>3 DEF Retire
  <2> QED BY <2>2, <2>3
<1>5. CASE Dispatch
  <2>1. current # NULL => current \in Procs /\ status[current] # "EXIT"
    BY <1>0, <1>5 DEF Dispatch, Intact, StatusSays, TypeOK
  <2>2. status' = status \/ (current # NULL /\ status' = [status EXCEPT ![current] = "RUNNING"])
    BY <1>5 DEF Dispatch
  <2> QED BY <1>0, <1>1, <2>1, <2>2
<1>6. CASE Acquire
  <2>1. PICK r \in Resources : current \in Procs /\ (Take(r) \/ Wait(r))
    BY <1>0, <1>6, AcquireStep
  <2>2. status[current] = "RUNNING"
    BY <1>0, <1>6 DEF Acquire, AtWork
  <2> QED BY <1>0, <1>1, <2>1, <2>2 DEF Take, Wait
<1>7. CASE Release
  BY <1>0, <1>1, <1>7, NoneWoken
<1> QED BY <1>2, <1>3, <1>4, <1>5, <1>6, <1>7 DEF Next

(* FIFO lets processes exit in the order in which they were created, which *)
(* is not the order of the script: the fork queue is walked at every tick. *)
THEOREM FirstInFirstOut ==
  ASSUME ShortLives, Fitting
  PROVE  Spec => []FifoExitOrder
<1> DEFINE Fifo == sched = "fifo" /\ AllWellFormed /\ NoReacquire
           Inv == Fifo => (Intact => FifoLine) /\ FifoExits
<1>1. Init => Inv
  BY QueueEmpty DEF Init, FifoLine, InOrder, FifoExits
<1>2. TaskInv /\ ForkOrder /\ FreeRun /\ Inv /\ [Next]_vars => Inv'
  <2> SUFFICES ASSUME TaskInv, ForkOrder, FreeRun, Inv, [Next]_vars PROVE Inv'
    OBVIOUS
  <2>1. Fifo' <=> Fifo
    BY Fixed DEF AllWellFormed, NoReacquire
  <2>2. Fifo => \A p \in Procs : status[p] # "BLOCKED"
    BY DEF FreeRun, NonPreemptive, HoldersRun
  <2>3. Intact' => Intact
    BY IntactBefore
  <2>4. ASSUME Fifo PROVE (Intact' => FifoLine') /\ FifoExits'
    BY <2>2, <2>3, <2>4, FifoLineStep, FifoExitsStep
  <2> QED BY <2>1, <2>4
<1>3. TaskInv /\ Inv => FifoExitOrder
  <2> SUFFICES ASSUME TaskInv, Fifo, FifoExits, NEW p \in Procs, NEW q \in Procs,
                      status[p] = "EXIT", CreatedBefore(q, p), status[q] # "EXIT"
               PROVE  FALSE
    BY DEF FifoExitOrder
  <2>1. CreatedBefore(p, q)
    BY DEF FifoExits
  <2>2. script[p].start \in Nat /\ script[q].start \in Nat
    BY ScriptType DEF TaskInv, PlaceInv, ProcessDesc
  <2> QED BY <2>1, <2>2 DEF CreatedBefore, Procs
<1> QED BY <1>1, <1>2, <1>3, TaskAlways, ForkOrderAlways, FreeRunAlways, PTL DEF Spec

-----------------------------------------------------------------------------
(* Shortest job first.                                                     *)

(* The tick at which current got the CPU, if it never waits: it ages in    *)
(* each tick, in the middle of it.                                         *)
GotCpuAt == ticks - age[current] + (IF pc = "release" THEN 1 ELSE 0)

ShortestJob ==
  current # NULL =>
    \A p \in Procs :
      InQueue(p, readyqueue) /\ script[p].start <= GotCpuAt => lifespan(current) <= lifespan(p)

LEMMA ShortestJobStep ==
  ASSUME TaskInv, ForkOrder, sched = "sjf", Intact,
         \A p \in Procs : status[p] # "BLOCKED" /\ status'[p] # "BLOCKED",
         ShortestJob, [Next]_vars
  PROVE  ShortestJob'
<1>0. /\ TypeOK /\ AtWork /\ script' = script /\ ticks \in Nat
      /\ current \in Procs \union {NULL} /\ age \in [Procs -> Nat]
      /\ \A p \in Procs : script[p].start \in Nat
  <2>1. TypeOK
    BY DEF TaskInv, PlaceInv
  <2>2. \A p \in Procs : script[p] \in ProcessDesc
    BY <2>1, ScriptType
  <2> QED BY <2>1, <2>2, Fixed DEF TaskInv, PlaceInv, TypeOK, ProcessDesc
<1>1. CASE ForkOnSchedule
  <2>1. PICK i \in DOMAIN forkqueue : readyqueue' = Append(readyqueue, forkqueue[i])
    BY <1>1 DEF ForkOnSchedule
  <2> DEFINE p == forkqueue[i]
  <2>2. p \in Procs /\ InQueue(p, forkqueue) /\ readyqueue \in Seq(Procs)
    BY <1>0, ListType DEF InQueue, TypeOK
  <2>3. \A q : InQueue(q, readyqueue') <=> InQueue(q, readyqueue) \/ q = p
    BY <2>1, <2>2, InAppend
  <2> HIDE DEF p
  <2>4. /\ UNCHANGED <<current, age, ticks, pc>> /\ pc = "fork"
    BY <1>1 DEF ForkOnSchedule
  <2>5. script[p].start >= ticks
    BY <2>2 DEF ForkOrder
  <2>6. current # NULL => age[current] > 0
    <3>1. current # NULL => status[current] = "RUNNING"
      BY <1>0, <2>4 DEF TaskInv, PlaceInv, InPlace, CurrentRan
    <3> QED BY <2>4, <3>1 DEF TaskInv, LifeInv, Worked
  <2>7. current # NULL => ~(script[p].start <= GotCpuAt)
    BY <1>0, <2>2, <2>4, <2>5, <2>6 DEF GotCpuAt
  <2>8. current # NULL => \A q \in Procs :
          InQueue(q, readyqueue') /\ script[q].start <= GotCpuAt => lifespan(current) <= lifespan(q)
    BY <2>3, <2>7 DEF ShortestJob
  <2>9. GotCpuAt' = GotCpuAt
    BY <2>4 DEF GotCpuAt
  <2> QED BY <1>0, <2>4, <2>8, <2>9 DEF ShortestJob, lifespan
<1>2. CASE /\ readyqueue' = readyqueue
           /\ current' = current
           /\ current # NULL => GotCpuAt' = GotCpuAt
  BY <1>0, <1>2 DEF ShortestJob, lifespan
<1>3. CASE UNCHANGED <<readyqueue, current, age, ticks>> /\ pc # "release" /\ pc' # "release"
  <2>1. GotCpuAt' = GotCpuAt
    BY <1>3 DEF GotCpuAt
  <2> QED BY <1>2, <1>3, <2>1
<1>4. CASE ForkDone \/ Retire
  BY <1>3, <1>4 DEF ForkDone, Retire
<1>5. CASE Schedule
  <2>1. sjf_schedule /\ pc = "schedule" /\ pc' # "release" /\ UNCHANGED <<age, ticks>>
    BY <1>5 DEF Schedule, schedule
  <2>2. CASE CanStay /\ Stay
    BY <1>3, <2>1, <2>2 DEF Stay
  <2>3. CASE ~CanStay /\ PickNobody
    BY <2>3 DEF PickNobody, ShortestJob
  <2>4. ASSUME NEW i \in DOMAIN readyqueue, FirstShortestJob(i), Switch(i, <<>>)
        PROVE  ShortestJob'
    <3>1. /\ current' = readyqueue[i]
          /\ \A p : InQueue(p, readyqueue') => InQueue(p, readyqueue)
      <4>1. <<>> # <<current>>
        OBVIOUS
      <4> QED BY <1>0, <2>4, <4>1, SwitchTo
    <3>2. \A p \in Procs : InQueue(p, readyqueue') => lifespan(current') <= lifespan(p)
      BY <2>4, <3>1 DEF FirstShortestJob, InQueue
    <3> QED BY <1>0, <3>2 DEF ShortestJob, lifespan
  <2> QED BY <2>1, <2>2, <2>3, <2>4 DEF sjf_schedule
<1>6. CASE Dispatch
  <2>1. CASE current = NULL
    BY <1>6, <2>1 DEF Dispatch, ShortestJob
  <2>2. CASE current # NULL
    BY <1>3, <1>6, <2>2 DEF Dispatch
  <2> QED BY <2>1, <2>2
<1>7. CASE Acquire
  <2>1. PICK r \in Resources :
          current \in Procs /\ ((Take(r) /\ pc' = pc) \/ Wait(r))
    BY <1>0, <1>7, AcquireStep
  <2>2. ~Wait(r)
    BY <1>0, <2>1 DEF Wait, TypeOK
  <2>3. owner[r] = NULL /\ pc' = "acquire"
    BY <1>7, <2>1, <2>2 DEF Take, Acquire
  <2>4. ticks' = ticks
    BY <1>7, <2>3 DEF Acquire
  <2> QED BY <1>3, <1>7, <2>3, <2>4 DEF Acquire
<1>8. CASE Run
  <2>1. current \in Procs
    BY <1>0, <1>8 DEF Run, AtWork
  <2>2. GotCpuAt' = GotCpuAt
    BY <1>0, <1>8, <2>1 DEF Run, GotCpuAt
  <2> QED BY <1>2, <1>8, <2>2 DEF Run
<1>9. CASE Release
  <2>1. readyqueue' = readyqueue /\ current' = current
    BY <1>0, <1>9, NoneWoken DEF Release
  <2>2. GotCpuAt' = GotCpuAt
    BY <1>9 DEF Release, GotCpuAt
  <2> QED BY <1>2, <2>1, <2>2
<1>10. CASE Tick
  <2>1. current \in Procs
    BY <1>0, <1>10 DEF Tick, AtWork
  <2>2. GotCpuAt' = GotCpuAt
    BY <1>0, <1>10, <2>1 DEF Tick, GotCpuAt
  <2> QED BY <1>2, <1>10, <2>2 DEF Tick
<1>11. CASE Ended \/ UNCHANGED vars
  BY <1>0, <1>11 DEF Ended, vars, ShortestJob, GotCpuAt, lifespan
<1> QED BY <1>1, <1>4, <1>5, <1>6, <1>7, <1>8, <1>9, <1>10, <1>11 DEF Next

(* SJF runs a process that is no longer than any of those that existed     *)
(* when it got the CPU; later ones may be shorter, and wait.               *)
THEOREM ShortestJobFirst ==
  ASSUME ShortLives, Fitting
  PROVE  Spec => []SjfShortestAtDispatch
<1> DEFINE Sjf == sched = "sjf" /\ AllWellFormed /\ NoReacquire
           Inv == Sjf /\ Intact => ShortestJob
<1>1. Init => Inv
  BY DEF Init, ShortestJob
<1>2. TaskInv /\ ForkOrder /\ FreeRun /\ FreeRun' /\ Inv /\ [Next]_vars => Inv'
  <2> SUFFICES ASSUME TaskInv, ForkOrder, FreeRun, FreeRun', Inv, [Next]_vars PROVE Inv'
    OBVIOUS
  <2>1. Sjf' <=> Sjf
    BY Fixed DEF AllWellFormed, NoReacquire
  <2>2. Sjf => \A p \in Procs : status[p] # "BLOCKED" /\ status'[p] # "BLOCKED"
    <3>1. Sjf => \A p \in Procs : status[p] # "BLOCKED"
      BY DEF FreeRun, NonPreemptive, HoldersRun
    <3>2. Sjf' => \A p \in Procs : status'[p] # "BLOCKED"
      BY DEF FreeRun, NonPreemptive, HoldersRun
    <3> QED BY <2>1, <3>1, <3>2
  <2>3. Intact' => Intact
    BY IntactBefore
  <2>4. ASSUME Sjf, Intact' PROVE ShortestJob'
    BY <2>2, <2>3, <2>4, ShortestJobStep
  <2> QED BY <2>1, <2>4
<1>3. TaskInv /\ FreeRun /\ Inv => SjfShortestAtDispatch
  <2> SUFFICES ASSUME TaskInv, FreeRun, Sjf, Inv, current # NULL, pc = "acquire",
                      NEW q \in Procs, Live(q), script[q].start <= ticks - age[current]
               PROVE  lifespan(current) <= lifespan(q)
    BY DEF SjfShortestAtDispatch
  <2>1. \A p \in Procs : status[p] # "BLOCKED"
    BY DEF FreeRun, NonPreemptive, HoldersRun
  <2>2. Intact
    BY DEF Intact
  <2>3. InQueue(q, readyqueue) \/ q = current
    BY <2>1, <2>2, Somewhere DEF Live
  <2>4. TypeOK
    BY DEF TaskInv, PlaceInv
  <2>5. lifespan(q) \in Nat /\ GotCpuAt = ticks - age[current]
    BY <2>4, ScriptType, SMTT(40) DEF GotCpuAt, TypeOK
  <2> QED BY <2>2, <2>3, <2>5 DEF ShortestJob
<1> QED BY <1>1, <1>2, <1>3, TaskAlways, ForkOrderAlways, FreeRunAlways, PTL DEF Spec

-----------------------------------------------------------------------------
(* Priority inheritance.                                                   *)

Pip == sched = "pip" /\ AllWellFormed /\ NoOverlap

(* PipInherits, resource by resource. *)
Inherits ==
  \A p \in Procs :
    /\ \A r \in Resources, w \in Procs :
         owner[r] = p /\ InQueue(w, waitqueue[r]) /\ w # p => prio[p] >= prio[w]
    /\ prio[p] >= prio_orig(p)
    /\ \/ prio[p] = prio_orig(p)
       \/ \E r \in Resources, w \in Procs :
            owner[r] = p /\ InQueue(w, waitqueue[r]) /\ w # p /\ prio[p] = prio[w]

(* p asks for r as the next thing it does. *)
AboutToAsk(p, r) ==
  /\ Requests(p, r)
  /\ InQueue(p, readyqueue) \/ (p = current /\ pc \in {"retire", "dispatch", "acquire"})

(* A free resource that is waited for is about to be asked for by a        *)
(* process with at least the priority of all that wait: the one that was   *)
(* woken, which is ready or has the CPU.                                   *)
HighestWoken ==
  \A r \in Resources : owner[r] = NULL /\ waitqueue[r] # <<>> =>
    \E p \in Procs :
      /\ AboutToAsk(p, r)
      /\ \A w \in Procs : InQueue(w, waitqueue[r]) => prio[p] >= prio[w]

(* Who asks for something or waits holds nothing, and has its own priority. *)
LEMMA EmptyHanded ==
  ASSUME TaskInv, AllWellFormed, NoOverlap, Inherits, NEW p \in Procs, NEW r \in Resources,
         \/ InQueue(p, waitqueue[r])
         \/ Requests(p, r) /\ ~Releasing(p)
  PROVE  (\A s \in Resources : owner[s] # p) /\ prio[p] = prio_orig(p)
<1>1. Requests(p, r) /\ ~Releasing(p)
  BY DEF TaskInv, WaitersRequest, PlaceInv, AtWork, Releasing
<1>2. \A s \in Resources : owner[s] # p
  BY <1>1, OneInHand DEF AllWellFormed, NoOverlap
<1> QED BY <1>2 DEF Inherits

LEMMA PipAcquire ==
  ASSUME TypeOK, AtWork, sched = "pip", Acquire
  PROVE  /\ current \in Procs /\ pc = "acquire"
         /\ UNCHANGED <<readyqueue, current, age>>
         /\ \A p \in Procs : p # current => to_acquire'[p] = to_acquire[p]
         /\ \E r \in Resources : /\ Requests(current, r)
                                 /\ pip_acquire(r)
<1>1. PICK i \in DOMAIN to_acquire[current] :
        /\ FirstDue(current, i) /\ acquire(to_acquire[current][i].res)
        /\ \/ to_acquire' = [to_acquire EXCEPT ![current] = RemoveAt(@, i)]
           \/ to_acquire' = to_acquire
  BY DEF Acquire
<1>2. current \in Procs /\ pc = "acquire" /\ UNCHANGED <<readyqueue, current, age>>
  BY DEF Acquire, AtWork, TypeOK
<1>3. to_acquire[current][i].res \in Resources
  BY <1>1, <1>2, ListType DEF ResourceSchedule
<1>4. pip_acquire(to_acquire[current][i].res)
  BY <1>1 DEF acquire, FcfsSchedulers, PrioSchedulers
<1>5. \A p \in Procs : p # current => to_acquire'[p] = to_acquire[p]
  BY <1>1, <1>2 DEF TypeOK
<1> QED BY <1>1, <1>2, <1>3, <1>4, <1>5 DEF Requests

LEMMA PipRelease ==
  ASSUME TypeOK, AtWork, sched = "pip", Release
  PROVE  /\ current \in Procs /\ pc = "release" /\ pc' = pc
         /\ UNCHANGED <<current, age, to_acquire>>
         /\ \E r \in Resources : DropPriority /\ Disown(r) /\ WakeHighest(r)
<1>1. PICK i \in DOMAIN holding[current] : release(holding[current][i].res)
  BY DEF Release
<1>2. current \in Procs /\ pc = "release" /\ pc' = pc /\ UNCHANGED <<current, age, to_acquire>>
  BY DEF Release, AtWork, TypeOK
<1>3. holding[current][i].res \in Resources
  BY <1>1, <1>2, ListType DEF ResourceSchedule
<1> QED BY <1>1, <1>2, <1>3 DEF release, pip_release, FcfsSchedulers, PrioSchedulers

LEMMA InheritsStep ==
  ASSUME TaskInv, Pip, HighestStays, HighestWoken, Inherits, [Next]_vars
  PROVE  Inherits'
<1>0. /\ TypeOK /\ AtWork /\ AllWellFormed /\ NoOverlap /\ sched = "pip" /\ script' = script
      /\ prio \in [Procs -> Nat] /\ owner \in [Resources -> Procs \union {NULL}]
      /\ waitqueue \in [Resources -> Seq(Procs)]
      /\ \A p \in Procs : prio_orig(p) \in Nat
  <2>1. TypeOK /\ AtWork
    BY DEF TaskInv, PlaceInv
  <2> QED BY <2>1, Fixed, ScriptType DEF Pip, TypeOK
<1>1. CASE UNCHANGED <<prio, owner, waitqueue>>
  BY <1>0, <1>1 DEF Inherits, prio_orig
<1>2. CASE ForkOnSchedule \/ ForkDone \/ Retire \/ Dispatch \/ Run \/ Tick \/ Ended
  BY <1>1, <1>2 DEF ForkOnSchedule, ForkDone, Retire, Dispatch, Run, Tick, Ended, vars
<1>3. CASE Schedule
  BY <1>0, <1>1, <1>3 DEF Schedule, schedule, prio_schedule
<1>4. CASE Acquire
  <2>1. PICK r \in Resources : Requests(current, r) /\ pip_acquire(r)
    BY <1>0, <1>4, PipAcquire
  <2>2. current \in Procs /\ pc = "acquire"
    BY <1>0, <1>4, PipAcquire
  <2>3. /\ \A s \in Resources : owner[s] # current
        /\ prio[current] = prio_orig(current)
    BY <1>0, <2>1, <2>2, EmptyHanded DEF Releasing
  <2>4. CASE Take(r)
    <3>1. prio' = prio /\ waitqueue' = waitqueue /\ owner' = [owner EXCEPT ![r] = current]
          /\ owner[r] = NULL
      BY <2>1, <2>4 DEF Take, Wait, pip_acquire
    <3>2. ASSUME NEW w \in Procs, InQueue(w, waitqueue[r])
          PROVE  prio[current] >= prio[w]
      <4>1. waitqueue[r] # <<>>
        BY <3>2, QueueEmpty
      <4>2. PICK p \in Procs :
              /\ InQueue(p, readyqueue) \/ p = current
              /\ \A v \in Procs : InQueue(v, waitqueue[r]) => prio[p] >= prio[v]
        BY <3>1, <4>1 DEF HighestWoken, AboutToAsk
      <4>3. prio[current] >= prio[p]
        BY <1>0, <2>2, <4>2 DEF HighestStays, Procs, NULL
      <4> QED BY <1>0, <2>2, <3>2, <4>2, <4>3
    <3>3. ASSUME NEW p \in Procs, p # current
          PROVE  \A s \in Resources : owner'[s] = p <=> owner[s] = p
      BY <1>0, <3>1, <3>3 DEF Procs, NULL
    <3>4. \A s \in Resources : owner'[s] = current <=> s = r
      BY <1>0, <2>3, <3>1
    <3>5. ASSUME NEW p \in Procs
          PROVE  /\ \A s \in Resources, w \in Procs :
                      owner'[s] = p /\ InQueue(w, waitqueue'[s]) /\ w # p => prio'[p] >= prio'[w]
                 /\ prio'[p] >= prio_orig(p)
                 /\ \/ prio'[p] = prio_orig(p)
                    \/ \E s \in Resources, w \in Procs :
                         /\ owner'[s] = p /\ InQueue(w, waitqueue'[s])
                         /\ w # p /\ prio'[p] = prio'[w]
      <4>1. CASE p = current
        BY <1>0, <2>3, <3>1, <3>2, <3>4, <4>1
      <4>2. CASE p # current
        BY <1>0, <3>1, <3>3, <4>2 DEF Inherits
      <4> QED BY <4>1, <4>2
    <3> QED BY <1>0, <3>5 DEF Inherits, prio_orig
  <2>5. CASE Wait(r)
    <3> DEFINE q == owner[r]
    <3>1. /\ q \in Procs /\ q # current /\ owner' = owner
          /\ waitqueue' = [waitqueue EXCEPT ![r] = Append(waitqueue[r], current)]
      BY <1>0, <2>3, <2>5 DEF Wait
    <3>2. \A s \in Resources : owner[s] = q => s = r
      BY <1>0, <3>1, OneInHand DEF AllWellFormed, NoOverlap
    <3> HIDE DEF q
    <3>3. /\ IF prio[q] < prio[current] THEN prio' = [prio EXCEPT ![q] = prio[current]]
                                         ELSE prio' = prio
          /\ owner[r] = q
      BY <2>1, <2>5 DEF Wait, Take, pip_acquire, q
    <3>4. /\ \A p \in Procs : p # q => prio'[p] = prio[p]
          /\ prio'[q] >= prio[q] /\ prio'[q] >= prio[current]
          /\ prio'[q] = prio[q] \/ prio'[q] = prio[current]
      BY <1>0, <2>2, <3>1, <3>3
    <3>5. /\ \A w : InQueue(w, waitqueue'[r]) <=> InQueue(w, waitqueue[r]) \/ w = current
          /\ \A s \in Resources : s # r => waitqueue'[s] = waitqueue[s]
      BY <1>0, <2>2, <3>1, InAppend
    <3>6. \A s \in Resources, w \in Procs : InQueue(w, waitqueue[s]) => w # q
      BY <1>0, <3>3, EmptyHanded
    <3>7. \A w \in Procs : InQueue(w, waitqueue'[r]) => w # q /\ prio'[w] = prio[w]
      BY <3>1, <3>4, <3>5, <3>6
    <3>8. /\ \A s \in Resources, w \in Procs :
               owner'[s] = q /\ InQueue(w, waitqueue'[s]) /\ w # q => prio'[q] >= prio'[w]
          /\ prio'[q] >= prio_orig(q)
          /\ \/ prio'[q] = prio_orig(q)
             \/ \E s \in Resources, w \in Procs :
                  /\ owner'[s] = q /\ InQueue(w, waitqueue'[s])
                  /\ w # q /\ prio'[q] = prio'[w]
      <4>0. prio'[q] \in Nat /\ prio[q] \in Nat
        BY <1>0, <2>2, <3>1, <3>3
      <4>1. ASSUME NEW w \in Procs, InQueue(w, waitqueue'[r]) PROVE prio'[q] >= prio'[w]
        <5>1. CASE w = current
          BY <1>0, <3>4, <3>7, <4>1, <5>1
        <5>2. CASE w # current
          <6>1. prio[q] >= prio[w]
            BY <3>1, <3>3, <3>5, <3>7, <4>1, <5>2 DEF Inherits
          <6> QED BY <1>0, <3>4, <3>7, <4>0, <4>1, <6>1
        <5> QED BY <5>1, <5>2
      <4>2. prio'[q] >= prio_orig(q)
        <5>1. prio[q] >= prio_orig(q)
          BY <3>1 DEF Inherits
        <5> QED BY <1>0, <3>1, <3>4, <4>0, <5>1
      <4>3. CASE prio'[q] = prio[current]
        BY <2>2, <3>1, <3>3, <3>5, <3>7, <4>1, <4>2, <4>3, <3>2
      <4>4. CASE prio'[q] = prio[q]
        <5>1. \/ prio[q] = prio_orig(q)
              \/ \E w \in Procs : InQueue(w, waitqueue[r]) /\ w # q /\ prio[q] = prio[w]
          BY <3>1, <3>2 DEF Inherits
        <5> QED BY <3>1, <3>2, <3>3, <3>5, <3>7, <4>1, <4>2, <4>4, <5>1
      <4> QED BY <3>4, <4>3, <4>4
    <3>9. ASSUME NEW p \in Procs, p # q
          PROVE  /\ \A s \in Resources, w \in Procs :
                      owner'[s] = p /\ InQueue(w, waitqueue'[s]) /\ w # p => prio'[p] >= prio'[w]
                 /\ prio'[p] >= prio_orig(p)
                 /\ \/ prio'[p] = prio_orig(p)
                    \/ \E s \in Resources, w \in Procs :
                         /\ owner'[s] = p /\ InQueue(w, waitqueue'[s])
                         /\ w # p /\ prio'[p] = prio'[w]
      <4>1. \A s \in Resources : owner[s] = p => waitqueue'[s] = waitqueue[s]
        BY <3>3, <3>5, <3>9
      <4>2. \A s \in Resources, w \in Procs : InQueue(w, waitqueue[s]) => prio'[w] = prio[w]
        BY <3>4, <3>6
      <4> QED BY <3>1, <3>4, <3>9, <4>1, <4>2 DEF Inherits
    <3> QED BY <1>0, <3>8, <3>9, SMTT(40) DEF Inherits, prio_orig
  <2> QED BY <2>1, <2>4, <2>5 DEF pip_acquire
<1>5. CASE Release
  <2>1. PICK r \in Resources : DropPriority /\ Disown(r) /\ WakeHighest(r)
    BY <1>0, <1>5, PipRelease
  <2>2. current \in Procs
    BY <1>0, <1>5, PipRelease
  <2>3. \A s \in Resources : owner[s] = current => s = r
    BY <1>0, <2>1, <2>2, OneInHand DEF AllWellFormed, NoOverlap, Disown
  <2>4. /\ \A s \in Resources : owner'[s] # current
        /\ \A s \in Resources, p \in Procs : owner'[s] = p => owner[s] = p /\ s # r
        /\ \A s \in Resources, p \in Procs : p # current /\ owner[s] = p => owner'[s] = p
    BY <1>0, <2>1, <2>2, <2>3 DEF Disown, Procs, NULL
  <2>5. prio'[current] = prio_orig(current) /\ \A p \in Procs : p # current => prio'[p] = prio[p]
    BY <1>0, <2>1, <2>2 DEF DropPriority
  <2>6. \A s \in Resources : s # r => waitqueue'[s] = waitqueue[s]
    BY <1>0, <2>1 DEF WakeHighest, WakeNobody, Wake
  <2>7. \A s \in Resources, w \in Procs : InQueue(w, waitqueue[s]) => w # current
    BY <1>0, <1>5 DEF Release, AtWork
  <2>8. ASSUME NEW p \in Procs
        PROVE  /\ \A s \in Resources, w \in Procs :
                    owner'[s] = p /\ InQueue(w, waitqueue'[s]) /\ w # p => prio'[p] >= prio'[w]
               /\ prio'[p] >= prio_orig(p)
               /\ \/ prio'[p] = prio_orig(p)
                  \/ \E s \in Resources, w \in Procs :
                       /\ owner'[s] = p /\ InQueue(w, waitqueue'[s])
                       /\ w # p /\ prio'[p] = prio'[w]
    <3>1. CASE p = current
      BY <1>0, <2>4, <2>5, <3>1
    <3>2. CASE p # current
      <4>1. \A s \in Resources : owner[s] = p => owner'[s] = p /\ waitqueue'[s] = waitqueue[s]
        BY <2>4, <2>6, <3>2
      <4>2. \A s \in Resources : owner'[s] = p => owner[s] = p
        BY <2>4
      <4> QED BY <2>5, <2>7, <3>2, <4>1, <4>2 DEF Inherits
    <3> QED BY <3>1, <3>2
  <2> QED BY <1>0, <2>8 DEF Inherits, prio_orig
<1> QED BY <1>1, <1>2, <1>3, <1>4, <1>5 DEF Next, vars

(* Only what a process holds gives it another priority. *)
LEMMA FreePriority ==
  ASSUME TaskInv, sched = "pip", [Next]_vars,
         NEW v \in Procs, \A s \in Resources : owner[s] # v
  PROVE  prio'[v] = prio[v]
<1>1. TypeOK /\ AtWork /\ prio \in [Procs -> Nat]
  BY DEF TaskInv, PlaceInv, TypeOK
<1>2. CASE prio' = prio
  BY <1>2
<1>3. CASE \E r \in Resources : Wait(r) /\ prio' = [prio EXCEPT ![owner[r]] = prio[current]]
  BY <1>1, <1>3
<1>4. CASE Release /\ prio' = [prio EXCEPT ![current] = prio_orig(current)]
  <2>1. \E r \in Resources : owner[r] = current
    BY <1>1, <1>4, ReleaseStep DEF Disown
  <2> QED BY <1>1, <1>4, <2>1
<1> QED BY <1>1, <1>2, <1>3, <1>4, PriorityStep

(* Whoever is about to ask for a resource does nothing else before it does *)
(* ask, and is answered.                                                   *)
Answered(p, r) == Acquire /\ p = current /\ (Take(r) \/ Wait(r))
LEMMA AsksOn ==
  ASSUME TaskInv, sched \in {"prio", "pip"}, Intact, Intact', [Next]_vars,
         NEW p \in Procs, NEW r \in Resources, AboutToAsk(p, r), ~Answered(p, r)
  PROVE  AboutToAsk(p, r)'
<1>0. /\ TypeOK /\ AtWork /\ Once /\ CurrentDetached
      /\ readyqueue \in Seq(Procs)
  BY DEF TaskInv, PlaceInv, PlaceParts, InPlace, TypeOK
<1>1. CASE ForkOnSchedule
  <2>1. PICK i \in DOMAIN forkqueue : readyqueue' = Append(readyqueue, forkqueue[i])
    BY <1>1 DEF ForkOnSchedule
  <2>2. InQueue(p, readyqueue) => InQueue(p, readyqueue')
    BY <1>0, <2>1, ListType, InAppend
  <2>3. Requests(p, r)' /\ pc = "fork"
    BY <1>1, RequestsKept DEF ForkOnSchedule, AboutToAsk
  <2> QED BY <2>2, <2>3 DEF AboutToAsk
<1>2. CASE ForkDone \/ Retire \/ Dispatch \/ Tick \/ Ended \/ UNCHANGED vars
  <2>1. UNCHANGED <<to_acquire, age, readyqueue, current>>
    BY <1>2 DEF ForkDone, Retire, Dispatch, Tick, Ended, vars
  <2>2. Requests(p, r)'
    BY <2>1, RequestsKept DEF AboutToAsk
  <2>3. CASE InQueue(p, readyqueue)
    BY <2>1, <2>2, <2>3 DEF AboutToAsk
  <2>4. CASE p = current /\ pc \in {"retire", "dispatch", "acquire"}
    <3>1. p # NULL
      BY DEF Procs, NULL
    <3>2. pc' \in {"retire", "dispatch", "acquire"}
      BY <1>2, <2>4, <3>1 DEF ForkDone, Retire, Dispatch, Tick, Ended, vars, Intact, Halts, Ends
    <3> QED BY <2>1, <2>2, <2>4, <3>2 DEF AboutToAsk
  <2> QED BY <2>3, <2>4 DEF AboutToAsk
<1>3. CASE Schedule
  <2>1. /\ Requests(p, r)' /\ InQueue(p, readyqueue) /\ pc' = "retire"
        /\ prio_schedule
    BY <1>0, <1>3, RequestsKept DEF Schedule, schedule, AboutToAsk, Intact
  <2>2. CASE Stay \/ PickNobody
    BY <2>1, <2>2 DEF Stay, PickNobody, AboutToAsk
  <2>3. ASSUME NEW i \in DOMAIN readyqueue, Switch(i, CurrentIfRunnable)
        PROVE  AboutToAsk(p, r)'
    <3>1. p = readyqueue[i] \/ InQueue(p, RemoveAt(readyqueue, i))
      BY <1>0, <2>1, QueueRemoveAt DEF Once
    <3>2. RemoveAt(readyqueue, i) \in Seq(Procs)
      BY <1>0, RemoveAtSeq
    <3>3. \/ CurrentIfRunnable = <<>>
          \/ CurrentIfRunnable = <<current>> /\ current \in Procs
      BY <1>0, CurrentIf DEF CanStay, OnCpu, TypeOK
    <3>4. InQueue(p, RemoveAt(readyqueue, i)) => InQueue(p, readyqueue')
      <4>1. PICK rest \in Seq(Procs) : rest = RemoveAt(readyqueue, i)
        BY <3>2
      <4>2. readyqueue' = rest \o CurrentIfRunnable
        BY <2>3, <4>1 DEF Switch
      <4>3. readyqueue' = rest \/ \E e \in Procs : readyqueue' = Append(rest, e)
        BY <3>3, <4>2, QueueConcat
      <4>4. \A e \in Procs : InQueue(p, Append(rest, e)) <=> InQueue(p, rest) \/ p = e
        BY InAppend
      <4>5. InQueue(p, rest) => InQueue(p, readyqueue')
        BY <4>3, <4>4, Zenon
      <4> QED BY <4>1, <4>5
    <3>5. current' = readyqueue[i]
      BY <2>3 DEF Switch
    <3>6. InQueue(p, readyqueue') \/ p = current'
      BY <3>1, <3>4, <3>5
    <3> QED BY <2>1, <3>6 DEF AboutToAsk
  <2> QED BY <2>1, <2>2, <2>3 DEF prio_schedule
<1>4. CASE Acquire
  <2>1. /\ current \in Procs /\ pc = "acquire"
        /\ UNCHANGED <<readyqueue, current, age>>
    BY <1>0, <1>4, AcquireStep DEF Acquire
  <2>2. PICK s \in Resources : Requests(current, s) /\ (Take(s) \/ Wait(s))
    BY <1>0, <1>4, AcquireStep DEF Requests
  <2>3. s # r \/ p # current
    BY <1>4, <2>2 DEF Answered
  <2>4. p # current
    BY <1>0, <2>1, <2>2, <2>3, FirstDueUnique DEF AboutToAsk, Requests
  <2>5. to_acquire'[p] = to_acquire[p]
    BY <1>0, <1>4, <2>1, <2>4, AcquireStep DEF TypeOK
  <2> QED BY <2>1, <2>4, <2>5, RequestsKept DEF AboutToAsk
<1>5. CASE Run
  <2>1. p # current
    BY <1>5 DEF Run, NothingDue, Requests, FirstDue, AboutToAsk
  <2>2. age'[p] = age[p] /\ UNCHANGED <<to_acquire, readyqueue, current>> /\ pc = "acquire"
    BY <1>0, <1>5, <2>1 DEF Run, TypeOK
  <2> QED BY <2>1, <2>2, RequestsKept DEF AboutToAsk
<1>6. CASE Release
  <2>1. pc = "release" /\ UNCHANGED <<age, to_acquire>> /\ InQueue(p, readyqueue)
    BY <1>6 DEF Release, AboutToAsk
  <2>2. InQueue(p, readyqueue')
    <3>1. PICK s \in Resources :
            WakeNobody(s) \/ \E k \in DOMAIN waitqueue[s] : Wake(s, k)
      BY <1>0, <1>6, ReleaseStep
    <3>2. CASE WakeNobody(s)
      BY <2>1, <3>2 DEF WakeNobody
    <3>3. ASSUME NEW k \in DOMAIN waitqueue[s], Wake(s, k) PROVE InQueue(p, readyqueue')
      <4>1. readyqueue' = Append(readyqueue, waitqueue[s][k]) /\ waitqueue[s][k] \in Procs
        BY <1>0, <3>3, ListType DEF Wake
      <4> QED BY <1>0, <2>1, <4>1, InAppend
    <3> QED BY <3>1, <3>2, <3>3
  <2> QED BY <2>1, <2>2, RequestsKept DEF AboutToAsk
<1> QED BY <1>1, <1>2, <1>3, <1>4, <1>5, <1>6 DEF Next

(* A resource that is free has been before, with the same waiting for it,  *)
(* or it was released just now.                                            *)
LEMMA FreeOrReleased ==
  ASSUME TypeOK, AtWork, [Next]_vars, NEW r \in Resources, owner'[r] = NULL
  PROVE  \/ owner[r] = NULL /\ waitqueue'[r] = waitqueue[r]
         \/ owner[r] # NULL /\ Release
<1>0. /\ waitqueue \in [Resources -> Seq(Procs)]
      /\ owner \in [Resources -> Procs \union {NULL}]
  BY DEF TypeOK
<1>1. CASE Acquire
  <2>1. PICK s \in Resources : Take(s) \/ Wait(s)
    BY <1>0, <1>1, AcquireStep
  <2>2. current \in Procs
    BY <1>0, <1>1, AcquireStep
  <2>3. CASE Take(s)
    BY <1>0, <2>2, <2>3 DEF Take, Procs, NULL
  <2>4. CASE Wait(s)
    BY <1>0, <2>4 DEF Wait
  <2> QED BY <2>1, <2>3, <2>4
<1>2. CASE Release
  <2>1. PICK s \in Resources :
          /\ Disown(s)
          /\ WakeNobody(s) \/ \E k \in DOMAIN waitqueue[s] : Wake(s, k)
    BY <1>0, <1>2, ReleaseStep
  <2>2. s # r => waitqueue'[r] = waitqueue[r] /\ owner'[r] = owner[r]
    BY <1>0, <2>1 DEF Disown, WakeNobody, Wake
  <2>3. owner[s] # NULL
    BY <1>0, <1>2, <2>1 DEF Disown, AtWork, Release
  <2> QED BY <1>2, <2>2, <2>3
<1>3. CASE UNCHANGED <<owner, waitqueue>>
  BY <1>3
<1> QED BY <1>1, <1>2, <1>3 DEF Next, ForkOnSchedule, ForkDone, Schedule, Retire, Dispatch,
                                Run, Tick, Ended, vars

LEMMA WokenStep ==
  ASSUME TaskInv, Pip, Intact, Intact', Inherits, HighestWoken, [Next]_vars
  PROVE  HighestWoken'
<1>0. /\ TypeOK /\ AtWork /\ sched = "pip" /\ Once /\ CurrentDetached /\ AllWellFormed /\ NoOverlap
      /\ readyqueue \in Seq(Procs) /\ waitqueue \in [Resources -> Seq(Procs)]
      /\ owner \in [Resources -> Procs \union {NULL}] /\ prio \in [Procs -> Nat]
  BY DEF TaskInv, PlaceInv, Pip, PlaceParts, InPlace, TypeOK
<1> SUFFICES ASSUME NEW r \in Resources, owner'[r] = NULL, waitqueue'[r] # <<>>
             PROVE  \E p \in Procs :
                      /\ AboutToAsk(p, r)'
                      /\ \A w \in Procs : InQueue(w, waitqueue'[r]) => prio'[p] >= prio'[w]
  BY DEF HighestWoken, AboutToAsk
<1>1. \/ owner[r] = NULL /\ waitqueue'[r] = waitqueue[r]
      \/ owner[r] # NULL /\ Release
  BY <1>0, FreeOrReleased
<1>2. CASE owner[r] = NULL /\ waitqueue'[r] = waitqueue[r]
  <2>1. PICK p \in Procs :
          /\ AboutToAsk(p, r)
          /\ \A w \in Procs : InQueue(w, waitqueue[r]) => prio[p] >= prio[w]
    BY <1>2 DEF HighestWoken
  <2>2. AboutToAsk(p, r)'
    <3>1. Answered(p, r) => owner'[r] # NULL
      BY <1>0, <1>2 DEF Answered, Acquire, AtWork, Take, Wait, Procs, NULL
    <3> QED BY <1>0, <2>1, <3>1, AsksOn
  <2>3. Requests(p, r) /\ ~Releasing(p)
    BY <1>0, <2>1 DEF AboutToAsk, Releasing, CurrentDetached, Procs, NULL
  <2>4. prio'[p] = prio[p]
    BY <1>0, <2>3, EmptyHanded, FreePriority
  <2>5. \A w \in Procs : InQueue(w, waitqueue[r]) => prio'[w] = prio[w]
    BY <1>0, EmptyHanded, FreePriority
  <2> QED BY <1>2, <2>1, <2>2, <2>4, <2>5
<1>3. CASE owner[r] # NULL /\ Release
  <2>1. PICK s \in Resources : Disown(s) /\ WakeHighest(s)
    BY <1>0, <1>3, PipRelease
  <2>2. s = r
    BY <1>0, <1>3, <2>1 DEF Disown
  <2>3. PICK i \in DOMAIN waitqueue[r] : FirstHighest(waitqueue[r], prio, i) /\ Wake(r, i)
    BY <1>0, <2>1, <2>2 DEF WakeHighest, WakeNobody
  <2> PICK p \in Procs : p = waitqueue[r][i]
    BY <1>0, ListType
  <2>4. InQueue(p, waitqueue[r]) /\ readyqueue' = Append(readyqueue, p)
    BY <2>3 DEF InQueue, Wake
  <2>5. \A w : InQueue(w, waitqueue'[r]) => InQueue(w, waitqueue[r])
    BY <1>0, <2>3, InRemoveAt DEF Wake
  <2>6. \A w \in Procs : InQueue(w, waitqueue[r]) => prio[p] >= prio[w]
    BY <2>3 DEF FirstHighest, InQueue
  <2>7. Requests(p, r)'
    <3>1. Requests(p, r)
      BY <2>4 DEF TaskInv, WaitersRequest
    <3>2. UNCHANGED <<age, to_acquire>>
      BY <1>3 DEF Release
    <3> QED BY <3>1, <3>2, RequestsKept
  <2>8. \A w \in Procs : InQueue(w, waitqueue[r]) => prio'[w] = prio[w]
    BY <1>0, EmptyHanded, FreePriority
  <2>9. ASSUME NEW w \in Procs, InQueue(w, waitqueue'[r]) PROVE prio'[p] >= prio'[w]
    <3>1. InQueue(w, waitqueue[r])
      BY <2>5, <2>9
    <3>2. prio'[p] = prio[p] /\ prio'[w] = prio[w]
      BY <2>4, <2>8, <3>1
    <3> QED BY <2>6, <3>1, <3>2
  <2>10. InQueue(p, readyqueue')
    BY <1>0, <2>4, InAppend
  <2>11. AboutToAsk(p, r)'
    BY <2>7, <2>10 DEF AboutToAsk
  <2> QED BY <2>4, <2>9, <2>11
<1> QED BY <1>1, <1>2, <1>3

(* Processes that use one resource at a time. *)
OneResource ==
  \A s \in Scripts : \A p \in Procs : \A i, j \in DOMAIN s[p].acquires :
    i # j => ~Overlap(s[p].acquires[i], s[p].acquires[j])

(* Under priority inheritance a process has exactly the highest of its own *)
(* priority and those of the processes that wait for what it holds:        *)
(* pip_acquire raises the owner, pip_release lowers it again, and a waiter *)
(* that takes the resource later needs no raise, because it was the        *)
(* highest when it was woken.  pip_release lowers to the original          *)
(* priority, whatever the process still holds: hence one at a time.        *)
THEOREM PrioritiesInherited ==
  ASSUME ShortLives, Fitting, WellFormedScripts, OneResource
  PROVE  Spec => []PipInherits
<1> DEFINE Inv == sched = "pip" => HighestStays /\ Inherits /\ (Intact => HighestWoken)
<1>1. ASSUME TypeOK, sched = "pip" PROVE Pip
  BY <1>1 DEF Pip, AllWellFormed, NoOverlap, OneAtATime, WellFormedScripts, OneResource, TypeOK
<1>2. TaskInv /\ Init => Inv
  <2> SUFFICES ASSUME TaskInv, Init PROVE Inv
    OBVIOUS
  <2>1. /\ \A p \in Procs : prio[p] = prio_orig(p) /\ prio_orig(p) \in Nat
        /\ \A r \in Resources : waitqueue[r] = <<>>
    BY ScriptType DEF Init, prio_orig, TaskInv, PlaceInv
  <2>2. HighestStays
    BY DEF Init, HighestStays
  <2>3. Inherits /\ HighestWoken
    BY <2>1, QueueEmpty DEF Inherits, HighestWoken
  <2> QED BY <2>2, <2>3
<1>3. TaskInv /\ Inv /\ [Next]_vars => Inv'
  <2> SUFFICES ASSUME TaskInv, Inv, [Next]_vars, sched = "pip"
               PROVE  HighestStays' /\ Inherits' /\ (Intact' => HighestWoken')
    BY Fixed
  <2>1. TypeOK /\ AtWork /\ Pip /\ Ceiling
    BY <1>1 DEF TaskInv, PlaceInv, Ceiling
  <2>2. HighestStays'
    BY <2>1, HighestStep
  <2>3. Inherits'
    <3>1. CASE Intact
      BY <2>1, <3>1, InheritsStep
    <3>2. CASE ~Intact
      <4>1. UNCHANGED vars
        BY <3>2 DEF Intact, Next, ForkOnSchedule, ForkDone, Schedule, Retire, Dispatch,
                    Acquire, Run, Release, Tick, Ended
      <4> QED BY <4>1 DEF vars, Inherits, prio_orig
    <3> QED BY <3>1, <3>2
  <2>4. Intact' => HighestWoken'
    BY <2>1, IntactBefore, WokenStep
  <2> QED BY <2>2, <2>3, <2>4
<1>4. TaskInv /\ Inv => PipInherits
  <2> SUFFICES ASSUME Inherits PROVE PipInherits
    BY DEF PipInherits
  <2>1. \A p, w \in Procs :
          w \in InheritedFrom(p) \ {p} <=>
            w # p /\ \E r \in Resources : owner[r] = p /\ InQueue(w, waitqueue[r])
    BY DEF InheritedFrom
  <2>2. \A p \in Procs : InheritedFrom(p) \subseteq Procs
    BY DEF InheritedFrom
  <2> QED BY <2>1, <2>2 DEF Inherits, PipInherits
<1> QED BY <1>2, <1>3, <1>4, TaskAlways, PTL DEF Spec

-----------------------------------------------------------------------------
(* Aging.                                                                  *)

(* One of finitely many has the most. *)
LEMMA HighestExists ==
  ASSUME NEW S, IsFiniteSet(S), S # {}, NEW f, \A p \in S : f[p] \in Nat
  PROVE  \E p \in S : \A q \in S : f[q] <= f[p]
<1> DEFINE Bad(U) == \A p \in U : \E q \in U : ~(f[q] <= f[p])
           B == { U \in SUBSET S : U # {} /\ Bad(U) }
<1>1. ASSUME B # {} PROVE FALSE
  <2>1. PICK U \in B : \A V \in B : V \subseteq U => V = U
    <3>1. B \in SUBSET (SUBSET S)
      OBVIOUS
    <3> HIDE DEF B
    <3> QED BY <1>1, <3>1, LeastSubset
  <2>2. U \subseteq S /\ U # {} /\ Bad(U)
    OBVIOUS
  <2>3. PICK x \in U : TRUE
    BY <2>2
  <2>4. f[x] \in Nat /\ \A q \in U : f[q] \in Nat
    BY <2>2
  <2>5. U \ {x} # {}
    BY <2>2, <2>4
  <2>6. U \ {x} \notin B
    BY <2>1, <2>3
  <2>7. PICK p \in U \ {x} : \A q \in U \ {x} : f[q] <= f[p]
    BY <2>2, <2>5, <2>6
  <2>8. \A q \in U : f[q] <= f[p] \/ q = x
    BY <2>7
  <2> HIDE DEF B
  <2>9. CASE f[x] <= f[p]
    BY <2>2, <2>8, <2>7, <2>9
  <2>10. CASE f[p] <= f[x]
    <3>1. \A q \in U : f[q] <= f[x]
      BY <2>4, <2>7, <2>8, <2>10
    <3> QED BY <2>2, <2>3, <3>1
  <2> QED BY <2>4, <2>7, <2>9, <2>10
<1>2. S \notin B
  BY <1>1
<1> QED BY <1>2

(* The highest priority of the script. *)
LEMMA TopExists ==
  ASSUME TypeOK
  PROVE  /\ TopPrio \in Nat
         /\ \A p \in Procs : prio_orig(p) <= TopPrio
<1>0. \A p \in Procs : prio_orig(p) \in Nat
  BY ScriptType
<1> DEFINE f == [p \in Procs |-> prio_orig(p)]
<1>1. IsFiniteSet(Procs) /\ Procs # {}
  <2>1. 1 \in Int /\ N \in Int /\ 1 \in 1..N
    BY NAssumption
  <2>2. IsFiniteSet(1..N)
    BY <2>1, FS_Interval
  <2> QED BY <2>1, <2>2 DEF Procs
<1>2. PICK p \in Procs : \A q \in Procs : f[q] <= f[p]
  <2>1. \A p \in Procs : f[p] \in Nat
    BY <1>0
  <2> HIDE DEF f
  <2> QED BY <1>1, <2>1, HighestExists
<1>3. \E m \in { prio_orig(q) : q \in Procs } : \A q \in Procs : prio_orig(q) <= m
  BY <1>2
<1>4. TopPrio \in { prio_orig(q) : q \in Procs } /\ \A q \in Procs : prio_orig(q) <= TopPrio
  BY <1>3 DEF TopPrio
<1> QED BY <1>0, <1>4

LEMMA ProcsFinite == IsFiniteSet(Procs) /\ Cardinality(Procs) = N
<1>1. 1 \in Int /\ N \in Int /\ N - 1 + 1 = N /\ ~(1 > N)
  BY NAssumption
<1>2. IsFiniteSet(1..N) /\ Cardinality(1..N) = N - 1 + 1
  BY <1>1, FS_Interval
<1> QED BY <1>1, <1>2 DEF Procs

(* The processes that are k units or more past the top of the script. *)
Past(k) == { p \in Procs : prio[p] >= TopPrio + k }

(* Only a process in the ready queue has aged, and the further past the    *)
(* top, the fewer are that far: each scheduling moment at which the ready  *)
(* ones gain a unit takes one of those that were furthest back to its      *)
(* original priority, or none of them gets past the top.                   *)
Aged ==
  sched = "pa" =>
    /\ \A p \in Procs : ~InQueue(p, readyqueue) => prio[p] = prio_orig(p)
    /\ \A k \in 1..N : Cardinality(Past(k)) <= N - k

(* The elements of S where f is at least n. *)
AtLeast(S, f, n) == { p \in S : f[p] >= n }

(* That argument about two vectors of numbers f and g: g is f one unit     *)
(* older, but for x, which was the highest and is not past the top now.    *)
LEMMA FewerAreFurther ==
  ASSUME NEW S, IsFiniteSet(S), NEW m \in Nat, Cardinality(S) = m,
         NEW f \in [S -> Nat], NEW g \in [S -> Nat], NEW top \in Nat, NEW x \in S,
         \A k \in 1..m : Cardinality(AtLeast(S, f, top + k)) <= m - k,
         g[x] <= top,
         \A p \in S : g[p] <= top \/ (g[p] = f[p] + 1 /\ f[x] >= f[p])
  PROVE  \A k \in 1..m : Cardinality(AtLeast(S, g, top + k)) <= m - k
<1> SUFFICES ASSUME NEW k \in 1..m
             PROVE  Cardinality(AtLeast(S, g, top + k)) <= m - k
  OBVIOUS
<1> DEFINE F == AtLeast(S, f, top + (k - 1))
           G == AtLeast(S, g, top + k)
<1>1. F \in SUBSET S /\ G \in SUBSET S
  BY DEF AtLeast
<1>2. /\ IsFiniteSet(F) /\ IsFiniteSet(G)
      /\ Cardinality(F) \in Nat /\ Cardinality(G) \in Nat
      /\ Cardinality(F) <= m
  BY <1>1, FS_Subset, FS_CardinalityType
<1>3. Cardinality(F) <= m - (k - 1)
  <2>1. CASE k = 1
    BY <1>2, <2>1
  <2>2. CASE k # 1
    <3>1. k - 1 \in 1..m
      BY <2>2
    <3> QED BY <3>1
  <2> QED BY <2>1, <2>2
<1>4. CASE G = {}
  <2>1. Cardinality(G) = 0
    BY <1>4, FS_EmptySet
  <2> QED BY <2>1
<1>5. CASE G # {}
  <2>1. \A p \in G : p \in F /\ x \in F /\ p # x
    BY DEF AtLeast
  <2>2. x \in F /\ G \subseteq F \ {x}
    BY <1>5, <2>1
  <2> HIDE DEF F, G
  <2>3. IsFiniteSet(F \ {x}) /\ Cardinality(F \ {x}) = Cardinality(F) - 1
    BY <1>2, <2>2, FS_RemoveElement
  <2>4. Cardinality(G) <= Cardinality(F \ {x})
    BY <2>2, <2>3, FS_Subset
  <2>5. Cardinality(G) <= m - k
    BY <1>2, <1>3, <2>3, <2>4
  <2> QED BY <2>5 DEF G
<1> QED BY <1>4, <1>5

(* What a scheduling moment does to the priorities: nothing, or that. *)
LEMMA AgingSchedule ==
  ASSUME PlaceInv, sched = "pa", Schedule, NEW top \in Nat,
         \A p \in Procs : prio_orig(p) <= top,
         \A p \in Procs : ~InQueue(p, readyqueue) => prio[p] = prio_orig(p)
  PROVE  /\ \A p \in Procs : ~InQueue(p, readyqueue') => prio'[p] = prio_orig(p)
         /\ \/ prio' = prio
            \/ \E x \in Procs :
                 /\ prio'[x] <= top
                 /\ \A p \in Procs : \/ prio'[p] <= top
                                      \/ (prio'[p] = prio[p] + 1 /\ prio[x] >= prio[p])
<1>0. /\ TypeOK /\ pa_schedule /\ pc = "schedule" /\ CurrentDetached
      /\ prio \in [Procs -> Nat] /\ readyqueue \in Seq(Procs)
      /\ \A p \in Procs : prio_orig(p) \in Nat
  BY ScriptType DEF PlaceInv, InPlace, Schedule, schedule, TypeOK
<1>1. CASE prio' = prio /\ (Stay \/ PickNobody)
  BY <1>1 DEF Stay, PickNobody
<1>2. ASSUME NEW i \in DOMAIN readyqueue, FirstHighest(readyqueue, AgedPrio, i),
             \/ /\ CanStay /\ prio[current] > AgedPrio[readyqueue[i]]
                /\ Stay /\ prio' = AgedPrio
             \/ /\ Switch(i, CurrentIfRunnable)
                /\ prio' = [AgedPrio EXCEPT ![readyqueue[i]] = prio_orig(readyqueue[i])]
      PROVE  /\ \A p \in Procs : ~InQueue(p, readyqueue') => prio'[p] = prio_orig(p)
             /\ \E x \in Procs :
                  /\ prio'[x] <= top
                  /\ \A p \in Procs : \/ prio'[p] <= top
                                       \/ (prio'[p] = prio[p] + 1 /\ prio[x] >= prio[p])
  <2>1. PICK x \in Procs : x = readyqueue[i]
    BY <1>0, ElementOfSeq, LenProperties
  <2>2. InQueue(x, readyqueue)
    BY <2>1 DEF InQueue
  <2>3. \A p \in Procs :
          /\ AgedPrio[p] = IF InQueue(p, readyqueue) THEN prio[p] + 1 ELSE prio_orig(p)
          /\ AgedPrio[p] \in Nat
    BY <1>0 DEF AgedPrio
  <2>4. \A p \in Procs : InQueue(p, readyqueue) => AgedPrio[x] >= AgedPrio[p]
    BY <1>2, <2>1 DEF FirstHighest, InQueue
  <2>5. \A p \in Procs : InQueue(p, readyqueue) => prio[x] >= prio[p]
    BY <1>0, <2>2, <2>3, <2>4
  <2>6. CASE CanStay /\ prio[current] > AgedPrio[x] /\ Stay /\ prio' = AgedPrio
    <3>1. current \in Procs /\ ~InQueue(current, readyqueue)
      BY <1>0, <2>6 DEF CanStay, OnCpu, CurrentDetached, Intact, TypeOK
    <3>2. AgedPrio[x] < top
      BY <1>0, <2>2, <2>3, <2>6, <3>1
    <3>3. \A p \in Procs : AgedPrio[p] <= top
      <4>1. ASSUME NEW p \in Procs, InQueue(p, readyqueue) PROVE AgedPrio[p] <= top
        <5>1. AgedPrio[p] <= AgedPrio[x]
          BY <2>4, <4>1
        <5> QED BY <2>3, <3>2, <5>1
      <4>2. ASSUME NEW p \in Procs, ~InQueue(p, readyqueue) PROVE AgedPrio[p] <= top
        BY <2>3, <4>2
      <4> QED BY <4>1, <4>2
    <3>4. \A p \in Procs : ~InQueue(p, readyqueue') => prio'[p] = prio_orig(p)
      BY <2>3, <2>6 DEF Stay
    <3> QED BY <2>6, <3>3, <3>4
  <2>7. CASE Switch(i, CurrentIfRunnable) /\ prio' = [AgedPrio EXCEPT ![x] = prio_orig(x)]
    <3>1. prio'[x] = prio_orig(x) /\ \A p \in Procs : p # x => prio'[p] = AgedPrio[p]
      BY <1>0, <2>7 DEF AgedPrio
    <3>2. \A p \in Procs : p # x /\ InQueue(p, readyqueue) => InQueue(p, readyqueue')
      <4>1. /\ RemoveAt(readyqueue, i) \in Seq(Procs)
            /\ \A p \in Procs : p # x /\ p \in ToSet(readyqueue) =>
                  p \in ToSet(RemoveAt(readyqueue, i))
        BY <1>0, <2>1, RemoveAtSeq, SetRemoveAt
      <4>2. \A q, p : InQueue(p, q) <=> p \in ToSet(q)
        BY DEF InQueue, ToSet
      <4>3. \/ CurrentIfRunnable = <<>>
            \/ CurrentIfRunnable = <<current>> /\ current \in Procs
        BY <1>0, CurrentIf DEF CanStay, OnCpu, TypeOK
      <4>4. \A p : InQueue(p, RemoveAt(readyqueue, i)) => InQueue(p, readyqueue')
        <5>1. readyqueue' = RemoveAt(readyqueue, i) \o CurrentIfRunnable
          BY <2>7 DEF Switch
        <5>2. CASE CurrentIfRunnable = <<>>
          BY <4>1, <5>1, <5>2, QueueConcat
        <5>3. CASE CurrentIfRunnable = <<current>> /\ current \in Procs
          <6>1. readyqueue' = Append(RemoveAt(readyqueue, i), current)
            BY <4>1, <5>1, <5>3, QueueConcat
          <6> QED BY <4>1, <5>3, <6>1, InAppend
        <5> QED BY <4>3, <5>2, <5>3
      <4> QED BY <4>1, <4>2, <4>4
    <3>3. \A p \in Procs : ~InQueue(p, readyqueue') => prio'[p] = prio_orig(p)
      BY <2>3, <3>1, <3>2
    <3>4. \A p \in Procs : \/ prio'[p] <= top
                            \/ (prio'[p] = prio[p] + 1 /\ prio[x] >= prio[p])
      BY <2>3, <2>5, <3>1
    <3> QED BY <3>1, <3>3, <3>4
  <2> QED BY <1>2, <2>1, <2>6, <2>7
<1> QED BY <1>0, <1>1, <1>2 DEF pa_schedule

(* Nothing else touches a priority, or takes a process off the ready queue. *)
LEMMA AgesOnlyWhenScheduled ==
  ASSUME TypeOK, AtWork, sched = "pa", [Next]_vars, ~Schedule
  PROVE  /\ prio' = prio
         /\ \A p : InQueue(p, readyqueue) => InQueue(p, readyqueue')
<1>1. CASE ForkOnSchedule
  BY <1>1, ListType, InAppend DEF ForkOnSchedule, TypeOK
<1>2. CASE Acquire
  <2>1. readyqueue' = readyqueue
    BY <1>2 DEF Acquire
  <2>2. prio' = prio
    BY <1>2 DEF Acquire, acquire, prio_acquire, FcfsSchedulers, PrioSchedulers
  <2> QED BY <2>1, <2>2
<1>3. CASE Release
  <2>1. prio' = prio
    BY <1>3 DEF Release, release, prio_release, FcfsSchedulers, PrioSchedulers
  <2>2. PICK s \in Resources :
          WakeNobody(s) \/ \E k \in DOMAIN waitqueue[s] : Wake(s, k)
    BY <1>3, ReleaseStep
  <2>3. CASE WakeNobody(s)
    BY <2>1, <2>3 DEF WakeNobody
  <2>4. ASSUME NEW k \in DOMAIN waitqueue[s], Wake(s, k)
        PROVE  \A p : InQueue(p, readyqueue) => InQueue(p, readyqueue')
    <3>1. readyqueue' = Append(readyqueue, waitqueue[s][k]) /\ waitqueue[s][k] \in Procs
      BY <2>4, ListType DEF Wake
    <3> QED BY <3>1, InAppend DEF TypeOK
  <2> QED BY <2>1, <2>2, <2>3, <2>4
<1>4. CASE UNCHANGED <<prio, readyqueue>>
  BY <1>4
<1> QED BY <1>1, <1>2, <1>3, <1>4 DEF Next, ForkDone, Retire, Dispatch, Run, Tick, Ended, vars

LEMMA AgedStep ==
  ASSUME PlaceInv, Aged, [Next]_vars
  PROVE  Aged'
<1> SUFFICES ASSUME sched = "pa"
             PROVE  /\ \A p \in Procs : ~InQueue(p, readyqueue') => prio'[p] = prio_orig(p)
                    /\ \A k \in 1..N :
                         Cardinality({ p \in Procs : prio'[p] >= TopPrio + k }) <= N - k
  <2>1. sched' = sched /\ script' = script
    BY Fixed
  <2>2. TopPrio' = TopPrio
    BY <2>1 DEF TopPrio, prio_orig
  <2>3. \A k \in 1..N : Past(k)' = { p \in Procs : prio'[p] >= TopPrio + k }
    BY <2>2 DEF Past
  <2> QED BY <2>1, <2>3 DEF Aged, prio_orig
<1>1. /\ TypeOK /\ AtWork /\ TopPrio \in Nat /\ prio \in [Procs -> Nat] /\ N \in Nat
      /\ \A p \in Procs : prio_orig(p) <= TopPrio
  BY TopExists, NAssumption DEF PlaceInv, TypeOK
<1>2. /\ \A p \in Procs : ~InQueue(p, readyqueue) => prio[p] = prio_orig(p)
      /\ \A k \in 1..N : Cardinality({ p \in Procs : prio[p] >= TopPrio + k }) <= N - k
  BY DEF Aged, Past
<1>3. CASE Schedule
  <2>1. prio' \in [Procs -> Nat]
    BY <1>1, <1>3, ScheduleType DEF Schedule
  <2>2. /\ \A p \in Procs : ~InQueue(p, readyqueue') => prio'[p] = prio_orig(p)
        /\ \/ prio' = prio
           \/ \E x \in Procs :
                /\ prio'[x] <= TopPrio
                /\ \A p \in Procs : \/ prio'[p] <= TopPrio
                                     \/ (prio'[p] = prio[p] + 1 /\ prio[x] >= prio[p])
    BY <1>1, <1>2, <1>3, AgingSchedule
  <2>3. CASE prio' = prio
    BY <1>2, <2>2, <2>3
  <2>4. ASSUME NEW x \in Procs, prio'[x] <= TopPrio,
               \A p \in Procs : \/ prio'[p] <= TopPrio
                                \/ (prio'[p] = prio[p] + 1 /\ prio[x] >= prio[p])
        PROVE  \A k \in 1..N : Cardinality({ p \in Procs : prio'[p] >= TopPrio + k }) <= N - k
    <3>1. IsFiniteSet(Procs) /\ Cardinality(Procs) = N /\ N \in Nat
      BY <1>1, ProcsFinite
    <3>2. PICK g \in [Procs -> Nat] : g = prio'
      BY <2>1
    <3>3. /\ g[x] <= TopPrio
          /\ \A p \in Procs : \/ g[p] <= TopPrio
                               \/ (g[p] = prio[p] + 1 /\ prio[x] >= prio[p])
      BY <2>4, <3>2
    <3>4. \A k \in 1..N : Cardinality(AtLeast(Procs, prio, TopPrio + k)) <= N - k
      BY <1>2 DEF AtLeast
    <3>5. \A k \in 1..N : Cardinality(AtLeast(Procs, g, TopPrio + k)) <= N - k
      BY <1>1, <3>1, <3>3, <3>4, FewerAreFurther
    <3>6. \A k \in 1..N : AtLeast(Procs, g, TopPrio + k) = { p \in Procs : prio'[p] >= TopPrio + k }
      BY <3>2 DEF AtLeast
    <3> QED BY <3>5, <3>6
  <2> QED BY <2>2, <2>3, <2>4
<1>4. CASE ~Schedule
  BY <1>1, <1>2, <1>4, AgesOnlyWhenScheduled
<1> QED BY <1>3, <1>4

(* Nobody starves under aging: no process waits at so many scheduling      *)
(* moments that it gets N units past the highest priority of the script,   *)
(* whatever the other processes do and ask for.                            *)
THEOREM AgingIsBounded ==
  ASSUME ShortLives
  PROVE  Spec => []AgingBoundsWait
<1>1. PlaceInv /\ Init => Aged
  <2> SUFFICES ASSUME PlaceInv, Init PROVE Aged
    OBVIOUS
  <2>1. /\ \A p \in Procs : prio[p] = prio_orig(p)
        /\ TopPrio \in Nat /\ \A p \in Procs : prio_orig(p) <= TopPrio
        /\ \A p \in Procs : prio_orig(p) \in Nat
    BY TopExists, ScriptType DEF Init, prio_orig, PlaceInv
  <2>2. ASSUME NEW k \in 1..N PROVE Cardinality(Past(k)) <= N - k
    <3>1. Past(k) = {}
      BY <2>1 DEF Past
    <3> QED BY <3>1, FS_EmptySet, NAssumption
  <2> QED BY <2>1, <2>2 DEF Aged
<1>2. PlaceInv /\ Aged /\ [Next]_vars => Aged'
  BY AgedStep
<1>3. PlaceInv /\ Aged => AgingBoundsWait
  <2> SUFFICES ASSUME PlaceInv, Aged, sched = "pa", NEW p \in Procs
               PROVE  prio[p] <= TopPrio + (N - 1)
    BY DEF AgingBoundsWait
  <2>1. TopPrio \in Nat /\ prio[p] \in Nat /\ N \in Nat /\ N \in 1..N
    BY TopExists, NAssumption DEF PlaceInv, TypeOK
  <2>2. IsFiniteSet(Past(N)) /\ Cardinality(Past(N)) \in Nat /\ Cardinality(Past(N)) <= 0
    <3>1. Past(N) \in SUBSET Procs
      BY DEF Past
    <3>2. IsFiniteSet(Past(N))
      BY <3>1, ProcsFinite, FS_Subset
    <3>3. Cardinality(Past(N)) <= N - N
      BY <2>1 DEF Aged
    <3> QED BY <2>1, <3>2, <3>3, FS_CardinalityType
  <2>3. Past(N) = {}
    BY <2>2, FS_EmptySet
  <2>4. ~(prio[p] >= TopPrio + N)
    BY <2>3 DEF Past
  <2> QED BY <2>1, <2>4
<1> QED BY <1>1, <1>2, <1>3, PlaceAlways, PTL DEF Spec

-----------------------------------------------------------------------------
(* Fair shares.                                                            *)

Twins(p, q) ==
  /\ script[p].start = script[q].start
  /\ sched = "rr" \/ (sched = "prio" /\ prio_orig(p) = prio_orig(q))

(* p is not ahead of q, its twin, and at most a tick behind. *)
Even(p, q) == Twins(p, q) => age[p] <= age[q] /\ age[q] <= age[p] + 1

(* Nobody uses anything. *)
NoneUsed ==
  NoResources =>
    \A p \in Procs : to_acquire[p] = <<>> /\ holding[p] = <<>> /\ status[p] # "BLOCKED"

(* A process ages in the middle of a tick, after the one it was created in. *)
Grown ==
  \A p \in Procs : age[p] > 0 =>
    script[p].start < ticks \/ (pc = "release" /\ script[p].start <= ticks)

(* The twins in the ready queue take turns; current is the first of them   *)
(* until it has run, and the last of them afterwards.                      *)
FairLine ==
  /\ \A i, j \in DOMAIN readyqueue : i < j => Even(readyqueue[i], readyqueue[j])
  /\ current # NULL => \A k \in DOMAIN readyqueue :
       IF pc \in {"retire", "dispatch", "acquire"} THEN Even(current, readyqueue[k])
                                                  ELSE Even(readyqueue[k], current)

LEMMA NoneUsedStep ==
  ASSUME TypeOK, AtWork, NoneUsed, [Next]_vars
  PROVE  NoneUsed'
<1> SUFFICES ASSUME NoResources
             PROVE  \A p \in Procs :
                      to_acquire'[p] = <<>> /\ holding'[p] = <<>> /\ status'[p] # "BLOCKED"
  BY Fixed DEF NoneUsed, NoResources
<1>1. \A p \in Procs : to_acquire[p] = <<>> /\ holding[p] = <<>> /\ status[p] # "BLOCKED"
  BY DEF NoneUsed
<1>2. DOMAIN <<>> = {}
  OBVIOUS
<1>3. ~Acquire /\ ~Release
  <2>1. Acquire \/ Release => current \in Procs
    BY DEF Acquire, Release, AtWork, TypeOK
  <2> QED BY <1>1, <1>2, <2>1 DEF Acquire, Release
<1>4. CASE Run
  <2>1. current \in Procs
    BY <1>4 DEF Run, AtWork, TypeOK
  <2>2. [k \in DOMAIN holding[current] |-> Charge(holding[current][k])] = <<>>
    BY <1>1, <1>2, <2>1
  <2>3. /\ UNCHANGED <<to_acquire, status>>
        /\ holding' = [holding EXCEPT ![current] =
                         [k \in DOMAIN holding[current] |-> Charge(holding[current][k])]]
    BY <1>4 DEF Run
  <2> QED BY <1>1, <2>1, <2>2, <2>3 DEF TypeOK
<1>5. CASE Retire
  BY <1>1, <1>5 DEF Retire, TypeOK
<1>6. CASE Dispatch
  BY <1>1, <1>6 DEF Dispatch, TypeOK
<1>7. CASE ForkOnSchedule
  BY <1>1, <1>7 DEF ForkOnSchedule, TypeOK
<1>8. CASE UNCHANGED <<to_acquire, holding, status>>
  BY <1>1, <1>8
<1> QED BY <1>3, <1>4, <1>5, <1>6, <1>7, <1>8 DEF Next, ForkDone, Schedule, Tick, Ended, vars

LEMMA GrownStep ==
  ASSUME TypeOK, AtWork, CurrentDetached, Created, Grown, [Next]_vars
  PROVE  Grown'
<1>0. /\ age \in [Procs -> Nat] /\ ticks \in Nat /\ script' = script
      /\ \A p \in Procs : script[p].start \in Nat
  BY Fixed, ScriptType DEF TypeOK, ProcessDesc
<1>1. CASE Run
  <2>1. current \in Procs /\ pc' = "release" /\ ticks' = ticks
        /\ \A p \in Procs : p # current => age'[p] = age[p]
    BY <1>0, <1>1 DEF Run, AtWork, TypeOK
  <2>2. script[current].start <= ticks
    BY <1>1, <2>1 DEF Run, Created, CurrentDetached, Intact, Procs, NULL
  <2>3. pc = "acquire"
    BY <1>1 DEF Run
  <2> QED BY <1>0, <2>1, <2>2, <2>3 DEF Grown
<1>2. CASE Tick
  BY <1>0, <1>2 DEF Tick, Grown
<1>3. CASE /\ age' = age /\ ticks' \in {ticks, ticks + 1}
           /\ pc # "release" \/ (pc' = pc /\ ticks' = ticks)
  BY <1>0, <1>3 DEF Grown
<1> QED BY <1>0, <1>1, <1>2, <1>3 DEF Next, ForkOnSchedule, ForkDone, Schedule, Retire, Dispatch,
                                  Acquire, Release, Ended, vars, Halts, Ends

(* The processes in the ready queue keep their order when one of them is   *)
(* taken out of it and current goes to its tail.                           *)
LEMMA SwitchOrder ==
  ASSUME readyqueue \in Seq(Procs), NEW i \in DOMAIN readyqueue, NEW requeue,
         requeue = <<>> \/ (requeue = <<current>> /\ current \in Procs),
         Switch(i, requeue)
  PROVE  /\ \A j, k \in DOMAIN readyqueue' : j < k =>
              \/ \E a, b \in DOMAIN readyqueue \ {i} :
                   a < b /\ readyqueue'[j] = readyqueue[a] /\ readyqueue'[k] = readyqueue[b]
              \/ /\ requeue = <<current>> /\ readyqueue'[k] = current
                 /\ \E a \in DOMAIN readyqueue : readyqueue'[j] = readyqueue[a]
         /\ \A k \in DOMAIN readyqueue' :
              \/ \E b \in DOMAIN readyqueue \ {i} : readyqueue'[k] = readyqueue[b]
              \/ requeue = <<current>> /\ readyqueue'[k] = current
<1> DEFINE r == RemoveAt(readyqueue, i)
<1>1. r \in Seq(Procs)
  BY RemoveAtSeq
<1>2. \A k \in DOMAIN r : \E b \in DOMAIN readyqueue \ {i} : r[k] = readyqueue[b]
  <2>1. /\ Len(readyqueue) \in Nat /\ DOMAIN readyqueue = 1..Len(readyqueue)
        /\ DOMAIN r = 1..(Len(readyqueue) - 1)
        /\ \A n \in 1..(Len(readyqueue) - 1) : r[n] = IF n < i THEN readyqueue[n] ELSE readyqueue[n + 1]
    BY RemoveAtSeq, LenProperties
  <2> HIDE DEF r
  <2> SUFFICES ASSUME NEW k \in DOMAIN r PROVE \E b \in DOMAIN readyqueue \ {i} : r[k] = readyqueue[b]
    OBVIOUS
  <2>2. CASE k < i
    <3>1. k \in DOMAIN readyqueue \ {i} /\ r[k] = readyqueue[k]
      BY <2>1, <2>2
    <3> QED BY <3>1
  <2>3. CASE ~(k < i)
    <3>1. k + 1 \in DOMAIN readyqueue \ {i} /\ r[k] = readyqueue[k + 1]
      BY <2>1, <2>3
    <3> QED BY <3>1
  <2> QED BY <2>2, <2>3
<1>3. \A j, k \in DOMAIN r : j < k =>
        \E a, b \in DOMAIN readyqueue \ {i} : a < b /\ r[j] = readyqueue[a] /\ r[k] = readyqueue[b]
  BY OrderRemoveAt
<1> HIDE DEF r
<1>4. CASE requeue = <<>>
  <2>1. readyqueue' = r
    BY <1>1, <1>4, QueueConcat DEF r, Switch
  <2> QED BY <1>2, <1>3, <2>1
<1>5. CASE requeue = <<current>> /\ current \in Procs
  <2>1. readyqueue' = Append(r, current)
    BY <1>1, <1>5, QueueConcat DEF r, Switch
  <2>2. /\ Len(r) \in Nat /\ DOMAIN r = 1..Len(r) /\ DOMAIN readyqueue' = 1..(Len(r) + 1)
        /\ \A k \in 1..Len(r) : readyqueue'[k] = r[k]
        /\ readyqueue'[Len(r) + 1] = current
    BY <1>1, <1>5, <2>1, AppendProperties, LenProperties
  <2>3. \A k \in DOMAIN readyqueue' : \/ (k \in DOMAIN r /\ readyqueue'[k] = r[k])
                                     \/ (k = Len(r) + 1 /\ readyqueue'[k] = current)
    BY <2>2
  <2>4. \A j, k \in DOMAIN readyqueue' : j < k => j \in DOMAIN r /\ readyqueue'[j] = r[j]
    BY <2>2
  <2>5. ASSUME NEW j \in DOMAIN readyqueue', NEW k \in DOMAIN readyqueue', j < k
        PROVE  \/ \E a, b \in DOMAIN readyqueue \ {i} :
                    a < b /\ readyqueue'[j] = readyqueue[a] /\ readyqueue'[k] = readyqueue[b]
               \/ /\ requeue = <<current>> /\ readyqueue'[k] = current
                  /\ \E a \in DOMAIN readyqueue : readyqueue'[j] = readyqueue[a]
    <3>1. CASE k \in DOMAIN r /\ readyqueue'[k] = r[k]
      BY <1>3, <2>4, <2>5, <3>1
    <3>2. CASE readyqueue'[k] = current
      BY <1>2, <1>5, <2>4, <2>5, <3>2
    <3> QED BY <2>3, <3>1, <3>2
  <2>6. ASSUME NEW k \in DOMAIN readyqueue'
        PROVE  \/ \E b \in DOMAIN readyqueue \ {i} : readyqueue'[k] = readyqueue[b]
               \/ requeue = <<current>> /\ readyqueue'[k] = current
    BY <1>2, <1>5, <2>3
  <2> QED BY <2>5, <2>6
<1> QED BY <1>4, <1>5

(* Fair schedulers pick the first of the twins. *)
LEMMA FairSwitch ==
  ASSUME TypeOK, FairLine, pc = "schedule", pc' = "retire",
         UNCHANGED <<age, script, sched>>,
         NEW i \in DOMAIN readyqueue, NEW requeue, Switch(i, requeue),
         requeue = <<>> \/ (requeue = <<current>> /\ current \in Procs),
         \A j \in DOMAIN readyqueue : j < i => ~Twins(readyqueue[i], readyqueue[j])
  PROVE  FairLine'
<1>0. /\ readyqueue \in Seq(Procs) /\ age \in [Procs -> Nat]
      /\ DOMAIN readyqueue \subseteq Nat
      /\ \A k \in DOMAIN readyqueue : readyqueue[k] \in Procs
  <2>1. readyqueue \in Seq(Procs) /\ age \in [Procs -> Nat]
    BY DEF TypeOK
  <2>2. DOMAIN readyqueue \subseteq Nat
    BY <2>1, LenProperties
  <2>3. \A k \in DOMAIN readyqueue : readyqueue[k] \in Procs
    BY <2>1, ElementOfSeq, LenProperties
  <2> QED BY <2>1, <2>2, <2>3
<1>1. current' = readyqueue[i] /\ readyqueue' = RemoveAt(readyqueue, i) \o requeue
  BY DEF Switch
<1>2. \A j, k \in DOMAIN readyqueue' : j < k =>
        \/ \E a, b \in DOMAIN readyqueue \ {i} :
             a < b /\ readyqueue'[j] = readyqueue[a] /\ readyqueue'[k] = readyqueue[b]
        \/ /\ requeue = <<current>> /\ readyqueue'[k] = current
           /\ \E a \in DOMAIN readyqueue : readyqueue'[j] = readyqueue[a]
  BY <1>0, SwitchOrder
<1>3. \A k \in DOMAIN readyqueue' :
        \/ \E b \in DOMAIN readyqueue \ {i} : readyqueue'[k] = readyqueue[b]
        \/ requeue = <<current>> /\ readyqueue'[k] = current
  BY <1>0, SwitchOrder
<1>4. requeue = <<current>> =>
        current # NULL /\ \A a \in DOMAIN readyqueue : Even(readyqueue[a], current)
  <2>1. requeue = <<current>> => requeue # <<>>
    OBVIOUS
  <2> QED BY <2>1 DEF FairLine, Procs, NULL
<1>5. \A a, b \in DOMAIN readyqueue : a < b => Even(readyqueue[a], readyqueue[b])
  BY DEF FairLine
<1>6. \A j, k \in DOMAIN readyqueue' : j < k => Even(readyqueue'[j], readyqueue'[k])
  BY <1>2, <1>4, <1>5
<1>7. \A b \in DOMAIN readyqueue \ {i} : Even(readyqueue[i], readyqueue[b])
  <2> SUFFICES ASSUME NEW b \in DOMAIN readyqueue \ {i} PROVE Even(readyqueue[i], readyqueue[b])
    OBVIOUS
  <2>1. CASE i < b
    BY <1>5, <2>1
  <2>2. CASE b < i
    BY <2>2 DEF Even
  <2> QED BY <1>0, <2>1, <2>2
<1>8. \A k \in DOMAIN readyqueue' : Even(current', readyqueue'[k])
  BY <1>1, <1>3, <1>4, <1>7
<1> QED BY <1>6, <1>8 DEF FairLine, Even, Twins, prio_orig, lifespan

LEMMA FairSchedule ==
  ASSUME TypeOK, FairLine, Schedule, pc' = "retire",
         \A p \in Procs : status[p] # "BLOCKED",
         sched = "rr" \/ (sched = "prio" /\ \A p \in Procs : prio[p] = prio_orig(p))
  PROVE  FairLine'
<1>0. /\ pc = "schedule" /\ schedule /\ UNCHANGED <<age, script, sched>>
      /\ \A k \in DOMAIN readyqueue : readyqueue[k] \in Procs
      /\ current \in Procs \union {NULL} /\ prio \in [Procs -> Nat]
      /\ DOMAIN <<>> = {}
  BY ElementOfSeq, LenProperties DEF Schedule, TypeOK
<1>1. ASSUME readyqueue = <<>>, readyqueue' = readyqueue PROVE FairLine'
  BY <1>0, <1>1 DEF FairLine
<1>2. CASE sched = "rr"
  <2>1. rr_schedule
    BY <1>0, <1>2 DEF schedule
  <2>2. CASE (CanStay /\ readyqueue = <<>> /\ Stay) \/ (~CanStay /\ PickNobody)
    BY <1>1, <2>2 DEF Stay, PickNobody
  <2>3. CASE readyqueue # <<>> /\ Switch(1, CurrentIfAlive)
    <3>1. 1 \in DOMAIN readyqueue /\ DOMAIN readyqueue \subseteq Nat \ {0}
      <4>1. readyqueue \in Seq(Procs)
        BY DEF TypeOK
      <4>2. /\ Len(readyqueue) \in Nat /\ DOMAIN readyqueue = 1..Len(readyqueue)
            /\ Len(readyqueue) # 0
        BY <2>3, <4>1, LenProperties, EmptySeq
      <4> QED BY <4>2
    <3>2. \A j \in DOMAIN readyqueue : ~(j < 1)
      BY <3>1
    <3>3. CurrentIfAlive = <<>> \/ (CurrentIfAlive = <<current>> /\ current \in Procs)
      BY <1>0 DEF CurrentIfAlive
    <3> QED BY <1>0, <2>3, <3>1, <3>2, <3>3, FairSwitch
  <2> QED BY <2>1, <2>2, <2>3 DEF rr_schedule
<1>3. CASE sched = "prio" /\ \A p \in Procs : prio[p] = prio_orig(p)
  <2>1. prio_schedule
    BY <1>0, <1>3 DEF schedule
  <2>2. CASE (CanStay /\ readyqueue = <<>> /\ Stay) \/ (~CanStay /\ PickNobody)
    BY <1>1, <2>2 DEF Stay, PickNobody
  <2>3. ASSUME NEW i \in DOMAIN readyqueue, FirstHighest(readyqueue, prio, i),
               CanStay, prio[current] > prio[readyqueue[i]], Stay
        PROVE  FairLine'
    <3>1. current \in Procs /\ current' = current /\ readyqueue' = readyqueue
      BY <1>0, <2>3 DEF CanStay, OnCpu, Stay
    <3>2. \A k \in DOMAIN readyqueue : ~Twins(current, readyqueue[k])
      <4> SUFFICES ASSUME NEW k \in DOMAIN readyqueue, Twins(current, readyqueue[k]) PROVE FALSE
        OBVIOUS
      <4>1. prio_orig(current) = prio_orig(readyqueue[k])
        BY <1>3 DEF Twins
      <4>2. prio[current] = prio[readyqueue[k]] /\ prio[readyqueue[i]] >= prio[readyqueue[k]]
        BY <1>0, <1>3, <2>3, <3>1, <4>1 DEF FirstHighest
      <4> QED BY <1>0, <2>3, <3>1, <4>2
    <3>3. \A k \in DOMAIN readyqueue : Even(current, readyqueue[k])
      BY <3>2 DEF Even
    <3> QED BY <1>0, <3>1, <3>3 DEF FairLine, Even, Twins, prio_orig
  <2>4. ASSUME NEW i \in DOMAIN readyqueue, FirstHighest(readyqueue, prio, i),
               Switch(i, CurrentIfRunnable)
        PROVE  FairLine'
    <3>1. CurrentIfRunnable = <<>> \/ (CurrentIfRunnable = <<current>> /\ current \in Procs)
      BY <1>0, CurrentIf DEF CanStay, OnCpu
    <3>2. ASSUME NEW j \in DOMAIN readyqueue, j < i, Twins(readyqueue[i], readyqueue[j])
          PROVE  FALSE
      <4>1. prio_orig(readyqueue[i]) = prio_orig(readyqueue[j])
        BY <1>3, <3>2 DEF Twins
      <4>2. prio[readyqueue[i]] = prio[readyqueue[j]] /\ prio[readyqueue[i]] > prio[readyqueue[j]]
        BY <1>0, <1>3, <2>4, <3>2, <4>1 DEF FirstHighest
      <4> QED BY <1>0, <4>2
    <3> QED BY <1>0, <2>4, <3>1, <3>2, FairSwitch
  <2> QED BY <2>1, <2>2, <2>3, <2>4 DEF prio_schedule
<1> QED BY <1>2, <1>3

LEMMA FairStep ==
  ASSUME TypeOK, AtWork, CurrentDetached, ForkOrder, Grown, Intact, Intact', FairLine,
         \A p \in Procs : status[p] # "BLOCKED" /\ to_acquire[p] = <<>> /\ holding[p] = <<>>,
         sched = "rr" \/ (sched = "prio" /\ \A p \in Procs : prio[p] = prio_orig(p)),
         [Next]_vars
  PROVE  FairLine'
<1>0. /\ age \in [Procs -> Nat] /\ readyqueue \in Seq(Procs) /\ ticks \in Nat
      /\ current \in Procs \union {NULL} /\ script' = script /\ sched' = sched
      /\ \A k \in DOMAIN readyqueue :
           readyqueue[k] \in Procs /\ InQueue(readyqueue[k], readyqueue)
      /\ \A p \in Procs : script[p].start \in Nat
  BY Fixed, ElementOfSeq, LenProperties, ScriptType DEF TypeOK, InQueue, ProcessDesc
<1>1. ~Acquire /\ ~Release
  <2>1. Acquire \/ Release => current \in Procs
    BY <1>0 DEF Acquire, Release, AtWork
  <2>2. DOMAIN <<>> = {}
    OBVIOUS
  <2> QED BY <2>1, <2>2 DEF Acquire, Release
<1>2. CASE ForkOnSchedule
  <2>1. PICK i \in DOMAIN forkqueue : readyqueue' = Append(readyqueue, forkqueue[i])
    BY <1>2 DEF ForkOnSchedule
  <2>2. PICK p \in Procs : p = forkqueue[i] /\ InQueue(p, forkqueue)
    BY ListType DEF InQueue
  <2>3. pc = "fork" /\ pc' = pc /\ UNCHANGED <<age, current>>
    BY <1>2 DEF ForkOnSchedule
  <2>4. \A q \in Procs : script[q].start = script[p].start => age[q] = 0
    BY <1>0, <2>2, <2>3 DEF ForkOrder, Grown
  <2>5. \A q \in Procs : Even(q, p) /\ Even(p, q)
    BY <2>2, <2>4 DEF Even, Twins
  <2>6. \A j, k \in DOMAIN readyqueue' : j < k =>
          /\ j \in DOMAIN readyqueue /\ readyqueue'[j] = readyqueue[j]
          /\ (k \in DOMAIN readyqueue /\ readyqueue'[k] = readyqueue[k]) \/ readyqueue'[k] = p
    BY <1>0, <2>1, <2>2, OrderAppend
  <2>7. \A j, k \in DOMAIN readyqueue' : j < k => Even(readyqueue'[j], readyqueue'[k])
    BY <1>0, <2>5, <2>6 DEF FairLine
  <2>8. \A k \in DOMAIN readyqueue' :
          (k \in DOMAIN readyqueue /\ readyqueue'[k] = readyqueue[k]) \/ readyqueue'[k] = p
    BY <1>0, <2>1, <2>2, AppendProperties, LenProperties
  <2>9. current # NULL => \A k \in DOMAIN readyqueue' : Even(readyqueue'[k], current)
    BY <1>0, <2>3, <2>5, <2>8 DEF FairLine
  <2> QED BY <1>0, <2>3, <2>7, <2>9 DEF FairLine, Even, Twins, prio_orig
<1>3. CASE /\ UNCHANGED <<readyqueue, current, age>>
           /\ \/ current = NULL
              \/ pc \in {"retire", "dispatch", "acquire"} <=> pc' \in {"retire", "dispatch", "acquire"}
  BY <1>0, <1>3 DEF FairLine, Even, Twins, prio_orig
<1>4. CASE ForkDone \/ Tick
  BY <1>3, <1>4 DEF ForkDone, Tick
<1>5. CASE Retire
  BY <1>3, <1>5 DEF Retire, Intact
<1>6. CASE Dispatch
  BY <1>3, <1>6 DEF Dispatch
<1>7. CASE Ended \/ UNCHANGED vars
  BY <1>3, <1>7 DEF Ended, vars
<1>8. CASE Schedule
  BY <1>8, FairSchedule DEF Schedule, Intact
<1>9. CASE Run
  <2>1. /\ current \in Procs /\ pc = "acquire" /\ pc' = "release"
        /\ UNCHANGED <<readyqueue, current>> /\ current # NULL
        /\ age'[current] = age[current] + 1
        /\ \A p \in Procs : p # current => age'[p] = age[p]
    BY <1>0, <1>9 DEF Run, AtWork
  <2>2. ~InQueue(current, readyqueue)
    BY <2>1 DEF CurrentDetached
  <2>3. \A k \in DOMAIN readyqueue :
          /\ readyqueue[k] # current /\ age'[readyqueue[k]] = age[readyqueue[k]]
          /\ Even(current, readyqueue[k])
    BY <1>0, <2>1, <2>2 DEF FairLine
  <2>4. ASSUME NEW k \in DOMAIN readyqueue, Twins(readyqueue[k], current)
        PROVE  age'[readyqueue[k]] <= age'[current] /\ age'[current] <= age'[readyqueue[k]] + 1
    <3>1. age[current] <= age[readyqueue[k]] /\ age[readyqueue[k]] <= age[current] + 1
      BY <2>3, <2>4 DEF Even, Twins
    <3> QED BY <1>0, <2>1, <2>3, <3>1
  <2>5. \A i, j \in DOMAIN readyqueue : i < j /\ Twins(readyqueue[i], readyqueue[j]) =>
          /\ age'[readyqueue[i]] <= age'[readyqueue[j]]
          /\ age'[readyqueue[j]] <= age'[readyqueue[i]] + 1
    BY <2>3 DEF FairLine, Even
  <2> QED BY <1>0, <2>1, <2>4, <2>5 DEF FairLine, Even, Twins, prio_orig
<1> QED BY <1>1, <1>2, <1>4, <1>5, <1>6, <1>7, <1>8, <1>9 DEF Next

(* Without resources to wait for, round-robin shares the CPU evenly among  *)
(* the processes created together, and priority scheduling among those     *)
(* that also have the same priority: none gets more than a tick ahead of   *)
(* another, whatever else arrives, exits or preempts them meanwhile.       *)
THEOREM SharesAreFair ==
  ASSUME ShortLives
  PROVE  Spec => []FairShare
<1> DEFINE Base == PlaceInv /\ LifeInv /\ ForkOrder
           Fair == NoResources /\ sched \in {"rr", "prio"}
           Line == (\A p \in Procs : prio[p] = prio_orig(p)) /\ (Intact => FairLine)
           Inv == NoneUsed /\ Grown /\ (Fair => Line /\ (~Intact => FairShare))
<1>1. ASSUME Base, NoneUsed, Fair, Line, Intact PROVE FairShare
  <2>1. TypeOK /\ InPlace /\ StatusSays /\ FairLine /\ age \in [Procs -> Nat]
        /\ \A p \in Procs : status[p] # "BLOCKED"
    BY <1>1 DEF PlaceInv, PlaceParts, TypeOK, NoneUsed
  <2>2. ASSUME NEW p \in Procs, Live(p), Unfinished(p)
        PROVE  InQueue(p, readyqueue) \/ (p = current /\ current # NULL)
    <3>1. status[p] \in {"READY", "RUNNING"}
      BY <2>1, <2>2 DEF Live, TypeOK, Statuses
    <3>2. p # NULL
      BY DEF Procs, NULL
    <3>3. CASE status[p] = "RUNNING"
      BY <2>1, <2>2, <3>2, <3>3 DEF StatusSays, InPlace, PrevRan
    <3>4. CASE status[p] = "READY"
      <4>1. ~(age[p] > lifespan(p))
        BY <2>1, <2>2, ScriptType DEF Unfinished
      <4> QED BY <2>1, <2>2, <3>2, <3>4, <4>1 DEF StatusSays, Live
    <3> QED BY <3>1, <3>3, <3>4
  <2>3. ASSUME NEW p \in Procs, NEW q \in Procs, Peers(p, q), Twins(p, q)
        PROVE  age[p] <= age[q] + 1 /\ age[q] <= age[p] + 1
    <3>1. Twins(q, p)
      BY <2>3 DEF Twins
    <3>2. /\ InQueue(p, readyqueue) \/ (p = current /\ current # NULL)
          /\ InQueue(q, readyqueue) \/ (q = current /\ current # NULL)
      BY <2>2, <2>3 DEF Peers
    <3>3. \A k \in DOMAIN readyqueue : current # NULL =>
            Even(current, readyqueue[k]) \/ Even(readyqueue[k], current)
      BY <2>1 DEF FairLine
    <3>4. CASE p = q
      BY <2>1, <3>4
    <3>5. CASE \/ p = current /\ current # NULL /\ InQueue(q, readyqueue)
               \/ q = current /\ current # NULL /\ InQueue(p, readyqueue)
      <4>1. Even(p, q) \/ Even(q, p)
        BY <3>3, <3>5 DEF InQueue
      <4> QED BY <2>1, <2>3, <3>1, <4>1 DEF Even
    <3>6. CASE InQueue(p, readyqueue) /\ InQueue(q, readyqueue) /\ p # q
      <4>1. PICK i \in DOMAIN readyqueue, j \in DOMAIN readyqueue :
              p = readyqueue[i] /\ q = readyqueue[j]
        BY <3>6 DEF InQueue
      <4>2. i \in Nat /\ j \in Nat /\ i # j
        <5>1. DOMAIN readyqueue = 1..Len(readyqueue) /\ Len(readyqueue) \in Nat
          <6>1. readyqueue \in Seq(Procs)
            BY <2>1 DEF TypeOK
          <6> QED BY <6>1, LenProperties
        <5> QED BY <3>6, <4>1, <5>1
      <4>3. Even(p, q) \/ Even(q, p)
        BY <2>1, <4>1, <4>2 DEF FairLine
      <4> QED BY <2>1, <2>3, <3>1, <4>3 DEF Even
    <3> QED BY <3>2, <3>4, <3>5, <3>6
  <2>4. \A p, q \in Procs :
          /\ Peers(p, q)
          /\ sched = "rr" \/ (sched = "prio" /\ prio_orig(p) = prio_orig(q))
          => Twins(p, q)
    BY DEF Twins, Peers
  <2>5. \A p \in Procs : age[p] \in Nat
    BY <2>1
  <2> QED BY <2>3, <2>4, <2>5 DEF FairShare
<1>2. Base /\ Init => Inv
  <2> SUFFICES ASSUME Base, Init PROVE Inv
    OBVIOUS
  <2>1. /\ \A p \in Procs : prio[p] = prio_orig(p) /\ age[p] = 0 /\ InQueue(p, forkqueue)
        /\ readyqueue = <<>> /\ current = NULL /\ DOMAIN <<>> = {}
    BY DEF Init, prio_orig, InQueue
  <2>2. NoneUsed
    BY DEF Init, NoneUsed, NoResources
  <2>3. Grown /\ FairLine /\ FairShare
    BY <2>1 DEF Grown, FairLine, FairShare, Peers, Live
  <2> QED BY <2>1, <2>2, <2>3
<1>3. Base /\ Inv /\ [Next]_vars => Inv'
  <2> SUFFICES ASSUME Base, Inv, [Next]_vars PROVE Inv'
    OBVIOUS
  <2>1. NoneUsed'
    BY NoneUsedStep DEF PlaceInv
  <2>2. Grown'
    BY GrownStep DEF PlaceInv, InPlace, LifeInv
  <2>3. Fair' <=> Fair
    BY Fixed DEF NoResources
  <2>4. ASSUME Fair PROVE Line' /\ (~Intact' => FairShare')
    <3>1. \A p \in Procs : prio'[p] = prio_orig(p)'
      <4>1. prio' = prio
        BY <2>4, PriorityStep DEF PlaceInv
      <4> QED BY <2>4, <4>1, Fixed DEF prio_orig
    <3>2. ASSUME Intact' PROVE FairLine'
      <4>1. \A p \in Procs : status[p] # "BLOCKED" /\ to_acquire[p] = <<>> /\ holding[p] = <<>>
        BY <2>4 DEF NoneUsed
      <4>2. Intact /\ FairLine
        BY <2>4, <3>2, IntactBefore
      <4>3. sched = "rr" \/ (sched = "prio" /\ \A p \in Procs : prio[p] = prio_orig(p))
        BY <2>4
      <4> QED BY <3>2, <4>1, <4>2, <4>3, FairStep DEF PlaceInv, InPlace
    <3>3. ASSUME ~Intact' PROVE FairShare'
      <4>1. FairShare
        BY <1>1, <2>4
      <4>2. Schedule \/ Retire \/ UNCHANGED vars
        BY <3>3 DEF Next, ForkOnSchedule, ForkDone, Dispatch, Acquire, Run, Release, Tick,
                    Ended, Intact, Halts, Ends
      <4>3. /\ UNCHANGED <<age, forkqueue>>
            /\ \A p \in Procs : status'[p] # "EXIT" => status[p] # "EXIT"
        <5>1. CASE Schedule \/ UNCHANGED vars
          BY <5>1 DEF Schedule, vars
        <5>2. CASE Retire
          BY <5>2 DEF Retire, PlaceInv, TypeOK
        <5> QED BY <4>2, <5>1, <5>2
      <4>4. \A p, q \in Procs : Peers(p, q)' => Peers(p, q)
        BY <4>3, Fixed DEF Peers, Live, Unfinished, lifespan
      <4> QED BY <4>1, <4>3, <4>4, Fixed DEF FairShare, prio_orig, NoResources
    <3> QED BY <3>1, <3>2, <3>3
  <2> QED BY <2>1, <2>2, <2>3, <2>4
<1>4. Base /\ Inv => FairShare
  BY <1>1 DEF FairShare
<1> QED BY <1>2, <1>3, <1>4, PlaceAlways, LifeAlways, ForkOrderAlways, PTL DEF Spec

-----------------------------------------------------------------------------
(* Who gets a resource that is released.                                   *)

(* A process is never below the priority of its script ...                 *)
KeepsOwn == \A p \in Procs : prio[p] >= prio_orig(p)

LEMMA KeepsOwnStep ==
  ASSUME TypeOK, AtWork, sched \in {"prio", "pip"}, KeepsOwn, [Next]_vars
  PROVE  KeepsOwn'
<1>1. /\ prio \in [Procs -> Nat] /\ current \in Procs \union {NULL}
      /\ owner \in [Resources -> Procs \union {NULL}]
      /\ \A p \in Procs : prio_orig(p) \in Nat
  BY ScriptType DEF TypeOK, prio_orig
<1>2. \A p \in Procs : prio_orig(p)' = prio_orig(p)
  BY Fixed DEF prio_orig
<1>3. ASSUME NEW p \in Procs PROVE prio'[p] >= prio_orig(p)
  <2>1. prio[p] >= prio_orig(p)
    BY DEF KeepsOwn
  <2>2. CASE prio' = prio
    BY <2>1, <2>2
  <2>3. CASE \E r \in Resources :
               prio[owner[r]] < prio[current] /\ prio' = [prio EXCEPT ![owner[r]] = prio[current]]
             /\ Acquire
    <3>1. current \in Procs
      BY <2>3, AcquireStep
    <3> QED BY <1>1, <2>1, <2>3, <3>1
  <2>4. CASE prio' = [prio EXCEPT ![current] = prio_orig(current)]
    BY <1>1, <2>1, <2>4
  <2> QED BY <2>2, <2>3, <2>4, PriorityStep
<1> QED BY <1>2, <1>3 DEF KeepsOwn

(* ... and the one that is woken to take a resource keeps a priority that  *)
(* is at least that of the others that wait: it may rise by then, and so   *)
(* may theirs, by inheritance, but not their own.                          *)
TopWoken ==
  \A r \in Resources : owner[r] = NULL /\ waitqueue[r] # <<>> =>
    \E p \in Procs :
      /\ AboutToAsk(p, r)
      /\ \A w \in Procs : InQueue(w, waitqueue[r]) => prio[p] >= prio_orig(w)

(* Only a release lowers a priority, and only that of the running process. *)
LEMMA KeepsPriority ==
  ASSUME TypeOK, AtWork, sched \in {"prio", "pip"}, [Next]_vars,
         NEW p \in Procs, ~(Release /\ p = current)
  PROVE  prio'[p] >= prio[p]
<1>1. prio \in [Procs -> Nat] /\ owner \in [Resources -> Procs \union {NULL}]
  BY DEF TypeOK
<1>2. CASE prio' = prio
  BY <1>1, <1>2
<1>3. CASE \E r \in Resources :
             /\ prio[owner[r]] < prio[current]
             /\ prio' = [prio EXCEPT ![owner[r]] = prio[current]]
             /\ Acquire
  <2>1. current \in Procs
    BY <1>3, AcquireStep
  <2> QED BY <1>1, <1>3, <2>1
<1>4. CASE Release /\ prio' = [prio EXCEPT ![current] = prio_orig(current)]
  BY <1>1, <1>4
<1> QED BY <1>2, <1>3, <1>4, PriorityStep

LEMMA WakesHighest ==
  ASSUME TypeOK, AtWork, sched \in {"prio", "pip"}, Release
  PROVE  \E r \in Resources : Disown(r) /\ WakeHighest(r)
<1>1. PICK i \in DOMAIN holding[current] : release(holding[current][i].res)
  BY DEF Release
<1>2. current \in Procs
  BY DEF Release, AtWork, TypeOK
<1>3. holding[current][i].res \in Resources
  BY <1>1, <1>2, ListType DEF ResourceSchedule, TypeOK
<1> QED BY <1>1, <1>3 DEF release, pip_release, prio_release, FcfsSchedulers, PrioSchedulers

LEMMA TopWokenStep ==
  ASSUME TaskInv, sched \in {"prio", "pip"}, Intact, Intact', KeepsOwn, TopWoken, [Next]_vars
  PROVE  TopWoken'
<1>0. /\ TypeOK /\ AtWork /\ Once /\ Apart /\ CurrentDetached
      /\ readyqueue \in Seq(Procs) /\ waitqueue \in [Resources -> Seq(Procs)]
      /\ owner \in [Resources -> Procs \union {NULL}] /\ prio \in [Procs -> Nat]
      /\ \A p \in Procs : prio_orig(p) \in Nat /\ prio_orig(p)' = prio_orig(p)
  BY ScriptType, Fixed DEF TaskInv, PlaceInv, PlaceParts, InPlace, TypeOK, prio_orig
<1> SUFFICES ASSUME NEW r \in Resources, owner'[r] = NULL, waitqueue'[r] # <<>>
             PROVE  \E p \in Procs :
                      /\ AboutToAsk(p, r)'
                      /\ \A w \in Procs : InQueue(w, waitqueue'[r]) => prio'[p] >= prio_orig(w)
  BY <1>0, ZenonT(60) DEF TopWoken, AboutToAsk
<1>1. \/ owner[r] = NULL /\ waitqueue'[r] = waitqueue[r]
      \/ owner[r] # NULL /\ Release
  BY <1>0, FreeOrReleased
<1>2. CASE owner[r] = NULL /\ waitqueue'[r] = waitqueue[r]
  <2>1. PICK p \in Procs :
          /\ AboutToAsk(p, r)
          /\ \A w \in Procs : InQueue(w, waitqueue[r]) => prio[p] >= prio_orig(w)
    BY <1>2 DEF TopWoken
  <2>2. AboutToAsk(p, r)'
    <3>1. Answered(p, r) => owner'[r] # NULL
      BY <1>0, <1>2 DEF Answered, Acquire, AtWork, Take, Wait, Procs, NULL
    <3> QED BY <1>0, <2>1, <3>1, AsksOn
  <2>3. prio'[p] >= prio[p]
    <3>1. ~(Release /\ p = current)
      BY <1>0, <2>1 DEF AboutToAsk, Release, CurrentDetached, Procs, NULL
    <3> QED BY <1>0, <3>1, KeepsPriority
  <2>4. prio'[p] \in Nat /\ prio[p] \in Nat
    BY <1>0, TypeStep DEF TypeOK
  <2>5. ASSUME NEW w \in Procs, InQueue(w, waitqueue'[r]) PROVE prio'[p] >= prio_orig(w)
    <3>1. prio[p] >= prio_orig(w) /\ prio_orig(w) \in Nat
      BY <1>0, <1>2, <2>1, <2>5
    <3> QED BY <2>3, <2>4, <3>1
  <2> QED BY <2>2, <2>5
<1>3. CASE owner[r] # NULL /\ Release
  <2>1. PICK s \in Resources : Disown(s) /\ WakeHighest(s)
    BY <1>0, <1>3, WakesHighest
  <2>2. s = r
    BY <1>0, <1>3, <2>1 DEF Disown
  <2>3. PICK i \in DOMAIN waitqueue[r] : FirstHighest(waitqueue[r], prio, i) /\ Wake(r, i)
    BY <1>0, <2>1, <2>2 DEF WakeHighest, WakeNobody
  <2> PICK p \in Procs : p = waitqueue[r][i]
    BY <1>0, ListType
  <2>4. InQueue(p, waitqueue[r]) /\ readyqueue' = Append(readyqueue, p)
    BY <2>3 DEF InQueue, Wake
  <2>5. \A w : InQueue(w, waitqueue'[r]) => InQueue(w, waitqueue[r])
    BY <1>0, <2>3, InRemoveAt DEF Wake
  <2>6. AboutToAsk(p, r)'
    <3>1. Requests(p, r)
      BY <2>4 DEF TaskInv, WaitersRequest
    <3>2. UNCHANGED <<age, to_acquire>>
      BY <1>3 DEF Release
    <3>3. Requests(p, r)' /\ InQueue(p, readyqueue')
      BY <1>0, <2>4, <3>1, <3>2, RequestsKept, InAppend
    <3> QED BY <3>3 DEF AboutToAsk
  <2>7. prio'[p] >= prio[p]
    <3>1. p # current
      BY <1>0, <1>3, <2>4 DEF AtWork, Release
    <3> QED BY <1>0, <3>1, KeepsPriority
  <2>8. ASSUME NEW w \in Procs, InQueue(w, waitqueue'[r]) PROVE prio'[p] >= prio_orig(w)
    <3>1. prio[p] >= prio[w]
      BY <2>3, <2>5, <2>8 DEF FirstHighest, InQueue
    <3>2. prio[w] >= prio_orig(w) /\ prio[p] \in Nat /\ prio[w] \in Nat /\ prio_orig(w) \in Nat
      BY <1>0 DEF KeepsOwn
    <3>3. prio'[p] \in Nat
      BY <1>0, TypeStep DEF TypeOK
    <3> QED BY <2>7, <3>1, <3>2, <3>3
  <2> QED BY <2>6, <2>8
<1> QED BY <1>1, <1>2, <1>3

(* A request that is pending is that of a process that waits, or of one    *)
(* that was woken and is about to ask again.                               *)
IsPending(p, r) == InQueue(p, waitqueue[r]) \/ AboutToAsk(p, r)
PendingAsked ==
  \A r \in Resources :
    /\ asked[r] \in Seq(Procs) /\ NoRepeats(asked[r])
    /\ Intact => \A p \in Procs : InQueue(p, asked[r]) => IsPending(p, r)

LEMMA StaysPending ==
  ASSUME TaskInv, sched \in {"prio", "pip"}, Intact, Intact', [Next]_vars,
         NEW p \in Procs, NEW r \in Resources, IsPending(p, r), ~(Granted(r) /\ owner'[r] = p)
  PROVE  IsPending(p, r)'
<1>0. /\ TypeOK /\ AtWork /\ readyqueue \in Seq(Procs)
      /\ waitqueue \in [Resources -> Seq(Procs)]
      /\ owner \in [Resources -> Procs \union {NULL}]
  BY DEF TaskInv, PlaceInv, TypeOK
<1>1. CASE InQueue(p, waitqueue[r])
  <2>1. CASE Acquire
    <3>1. PICK s \in Resources : Take(s) \/ Wait(s)
      BY <1>0, <2>1, AcquireStep
    <3>2. current \in Procs
      BY <1>0, <2>1, AcquireStep
    <3>3. waitqueue'[r] = waitqueue[r] \/ waitqueue'[r] = Append(waitqueue[r], current)
      BY <1>0, <3>1 DEF Take, Wait
    <3>4. PICK x \in Procs : x = current
      BY <3>2
    <3>5. PICK q \in Seq(Procs) : q = waitqueue[r]
      BY <1>0
    <3>6. InQueue(p, Append(q, x))
      BY <1>1, <3>5, InAppend
    <3>7. InQueue(p, waitqueue'[r])
      BY <1>1, <3>3, <3>4, <3>5, <3>6
    <3> QED BY <3>7 DEF IsPending
  <2>2. CASE Release
    <3>1. PICK s \in Resources : WakeNobody(s) \/ \E k \in DOMAIN waitqueue[s] : Wake(s, k)
      BY <1>0, <2>2, ReleaseStep
    <3>2. CASE WakeNobody(s)
      BY <1>1, <3>2 DEF WakeNobody, IsPending
    <3>3. ASSUME NEW k \in DOMAIN waitqueue[s], Wake(s, k) PROVE IsPending(p, r)'
      <4>1. NoRepeats(waitqueue[s]) /\ Requests(p, r)
        BY <1>1 DEF TaskInv, PlaceInv, PlaceParts, Once, WaitersRequest
      <4>2. Requests(p, r)'
        BY <2>2, <4>1, RequestsKept DEF Release
      <4>3. PICK x \in Procs : x = waitqueue[s][k]
        BY <1>0, ListType
      <4>4. CASE s # r
        BY <1>0, <1>1, <3>3, <4>4 DEF Wake, IsPending
      <4>5. CASE s = r /\ p # x
        BY <1>0, <1>1, <3>3, <4>1, <4>3, <4>5, QueueRemoveAt DEF Wake, IsPending
      <4>6. CASE p = x
        <5>1. InQueue(p, readyqueue')
          BY <1>0, <3>3, <4>3, <4>6, InAppend DEF Wake
        <5> QED BY <4>2, <5>1 DEF IsPending, AboutToAsk
      <4> QED BY <4>4, <4>5, <4>6
    <3> QED BY <3>1, <3>2, <3>3
  <2>3. CASE UNCHANGED waitqueue
    BY <1>1, <2>3 DEF IsPending
  <2> QED BY <2>1, <2>2, <2>3 DEF Next, ForkOnSchedule, ForkDone, Schedule, Retire, Dispatch,
                                  Run, Tick, Ended, vars
<1>2. CASE AboutToAsk(p, r) /\ ~Answered(p, r)
  BY <1>2, AsksOn DEF IsPending
<1>3. CASE Answered(p, r)
  <2>1. p = current /\ Acquire
    BY <1>3 DEF Answered
  <2>2. CASE Take(r)
    BY <1>0, <2>1, <2>2 DEF Take, Granted, Procs, NULL
  <2>3. CASE Wait(r)
    <3>1. waitqueue'[r] = Append(waitqueue[r], p)
      BY <1>0, <2>1, <2>3 DEF Wait
    <3> QED BY <1>0, <3>1, InAppend DEF IsPending
  <2> QED BY <1>3, <2>2, <2>3 DEF Answered
<1> QED BY <1>1, <1>2, <1>3 DEF IsPending

(* Taking one out of a queue. *)
LEMMA WithoutOne ==
  ASSUME NEW q \in Seq(Procs), NoRepeats(q), NEW p
  PROVE  /\ Without(q, p) \in Seq(Procs) /\ NoRepeats(Without(q, p))
         /\ \A x : InQueue(x, Without(q, p)) => InQueue(x, q) /\ x # p
<1>1. CASE InQueue(p, q)
  <2>1. PICK i \in DOMAIN q : i = CHOOSE j \in DOMAIN q : q[j] = p
    BY <1>1 DEF InQueue
  <2>2. q[i] = p /\ Without(q, p) = RemoveAt(q, i)
    BY <1>1, <2>1 DEF InQueue, Without
  <2> QED BY <2>2, QueueRemoveAt, RemoveAtSeq
<1>2. CASE ~InQueue(p, q)
  BY <1>2 DEF Without
<1> QED BY <1>1, <1>2

LEMMA WatchedStep ==
  ASSUME [GNext]_gvars
  PROVE  [Next]_vars
BY DEF GNext, gvars

LEMMA PendingStep ==
  ASSUME TaskInv, sched \in {"prio", "pip"}, PendingAsked, [GNext]_gvars, Intact' => Intact
  PROVE  PendingAsked'
<1>0. /\ TypeOK /\ AtWork /\ current \in Procs \union {NULL}
      /\ waitqueue \in [Resources -> Seq(Procs)]
      /\ owner \in [Resources -> Procs \union {NULL}]
  BY DEF TaskInv, PlaceInv, TypeOK
<1>1. [Next]_vars
  BY WatchedStep
<1> SUFFICES ASSUME NEW r \in Resources
             PROVE  /\ asked'[r] \in Seq(Procs) /\ NoRepeats(asked'[r])
                    /\ Intact' => \A p \in Procs : InQueue(p, asked'[r]) => IsPending(p, r)'
  BY DEF PendingAsked
<1>2. /\ asked[r] \in Seq(Procs) /\ NoRepeats(asked[r])
      /\ Intact => \A p \in Procs : InQueue(p, asked[r]) => IsPending(p, r)
  BY DEF PendingAsked
<1>3. CASE UNCHANGED gvars
  <2>1. asked' = asked
    BY <1>3 DEF gvars
  <2>2. \A p \in Procs : IsPending(p, r)' <=> IsPending(p, r)
    BY <1>3 DEF gvars, vars, IsPending, AboutToAsk, Requests, FirstDue
  <2> QED BY <1>2, <2>1, <2>2
<1>4. CASE GNext
  <2>1. asked'[r] = Pending(r)
    BY <1>4 DEF GNext
  <2>2. CASE Granted(r)
    <3>1. asked'[r] = Without(asked[r], owner'[r])
      BY <2>1, <2>2 DEF Pending
    <3>2. /\ asked'[r] \in Seq(Procs) /\ NoRepeats(asked'[r])
          /\ \A x : InQueue(x, asked'[r]) => InQueue(x, asked[r]) /\ x # owner'[r]
      BY <1>2, <3>1, WithoutOne
    <3> QED BY <1>1, <1>2, <3>2, StaysPending
  <2>3. CASE ~Granted(r) /\ asked'[r] = asked[r]
    BY <1>1, <1>2, <2>3, StaysPending
  <2>4. CASE /\ ~Granted(r) /\ asked'[r] = Append(asked[r], current)
             /\ InQueue(current, waitqueue'[r]) /\ ~InQueue(current, asked[r])
    <3>1. current \in Procs
      <4>1. TypeOK'
        BY <1>0, <1>1, TypeStep
      <4>2. \A k \in DOMAIN waitqueue'[r] : waitqueue'[r][k] \in Procs
        BY <4>1, ListType DEF TypeOK
      <4> QED BY <2>4, <4>2 DEF InQueue
    <3>2. /\ asked'[r] \in Seq(Procs) /\ NoRepeats(asked'[r])
          /\ \A x : InQueue(x, asked'[r]) <=> InQueue(x, asked[r]) \/ x = current
      BY <1>2, <2>4, <3>1, QueueAppend, AppendProperties
    <3>3. ASSUME NEW x \in Procs, x = current PROVE IsPending(x, r)'
      BY <2>4, <3>3 DEF IsPending
    <3> QED BY <1>1, <1>2, <2>4, <3>2, <3>3, StaysPending
  <2> QED BY <2>1, <2>2, <2>3, <2>4 DEF Pending
<1> QED BY <1>3, <1>4

(* No request that is pending for a resource belongs to a process whose    *)
(* script gives it a higher priority than the process has to which the     *)
(* resource goes: the waiter of the highest priority is woken, the         *)
(* schedulers run nobody of a lower priority before it, and whoever takes  *)
(* the resource from under it must have as much.                           *)
THEOREM GrantsToTheHighest ==
  ASSUME ShortLives, Fitting
  PROVE  GSpec => GrantToHighest
<1> DEFINE Inv == sched \in {"prio", "pip"} =>
                    HighestStays /\ KeepsOwn /\ (Intact => TopWoken) /\ PendingAsked
           Highest == \A r \in Resources : PriorityServed /\ Granted(r) =>
                        \A k \in DOMAIN asked[r] : prio_orig(asked[r][k]) <= prio[owner'[r]]
<1>1. GSpec => Spec
  <2>1. [GNext]_gvars => [Next]_vars
    BY WatchedStep
  <2> QED BY <2>1, PTL DEF GSpec, GInit, Spec
<1>2. TaskInv /\ GInit => Inv
  <2> SUFFICES ASSUME TaskInv, GInit PROVE Inv
    OBVIOUS
  <2>1. /\ \A p \in Procs : prio[p] = prio_orig(p) /\ prio_orig(p) \in Nat
        /\ \A r \in Resources : waitqueue[r] = <<>> /\ asked[r] = <<>>
    <3>1. \A p \in Procs : prio_orig(p) \in Nat
      BY ScriptType DEF TaskInv, PlaceInv
    <3> QED BY <3>1 DEF GInit, Init, prio_orig
  <2>2. HighestStays /\ KeepsOwn /\ TopWoken
    BY <2>1 DEF GInit, Init, HighestStays, KeepsOwn, TopWoken
  <2>3. \A r \in Resources : asked[r] \in Seq(Procs) /\ NoRepeats(asked[r])
    <3>1. <<>> \in Seq(Procs)
      OBVIOUS
    <3> QED BY <2>1, <3>1, QueueEmpty, Zenon
  <2>4. \A r \in Resources, p \in Procs : ~InQueue(p, asked[r])
    BY <2>1, QueueEmpty
  <2> QED BY <2>2, <2>3, <2>4 DEF PendingAsked
<1>3. TaskInv /\ Inv /\ [GNext]_gvars => Inv'
  <2> SUFFICES ASSUME TaskInv, Inv, [GNext]_gvars PROVE Inv'
    OBVIOUS
  <2>1. TypeOK /\ AtWork /\ [Next]_vars
    BY WatchedStep DEF TaskInv, PlaceInv
  <2>2. sched' = sched
    BY <2>1, Fixed
  <2> SUFFICES ASSUME sched \in {"prio", "pip"}
               PROVE  HighestStays' /\ KeepsOwn' /\ (Intact' => TopWoken') /\ PendingAsked'
    BY <2>2
  <2>3. HighestStays'
    BY <2>1, HighestStep DEF Ceiling
  <2> QED BY <2>1, <2>3, IntactBefore, KeepsOwnStep, TopWokenStep, PendingStep
<1>4. TaskInv /\ Inv /\ [GNext]_gvars => [Highest]_gvars
  <2> SUFFICES ASSUME TaskInv, Inv, GNext,
                      NEW r \in Resources, PriorityServed, Granted(r), NEW k \in DOMAIN asked[r]
               PROVE  prio_orig(asked[r][k]) <= prio[owner'[r]]
    OBVIOUS
  <2>1. /\ TypeOK /\ AtWork /\ sched \in {"prio", "pip"} /\ HighestStays /\ KeepsOwn
        /\ PendingAsked
        /\ waitqueue \in [Resources -> Seq(Procs)] /\ asked[r] \in Seq(Procs)
        /\ owner \in [Resources -> Procs \union {NULL}]
        /\ \A p \in Procs : prio[p] \in Nat /\ prio_orig(p) \in Nat
    BY ScriptType DEF TaskInv, PlaceInv, TypeOK, PriorityServed, PendingAsked, prio_orig
  <2>2. Acquire /\ current \in Procs /\ pc = "acquire" /\ owner'[r] = current
    <3>1. Acquire
      <4>1. CASE Release
        <5>1. PICK s \in Resources : Disown(s)
          BY <2>1, <4>1, ReleaseStep
        <5> QED BY <2>1, <5>1 DEF Disown, Granted, NULL
      <4>2. CASE UNCHANGED owner
        BY <4>2 DEF Granted
      <4> QED BY <4>1, <4>2 DEF GNext, Next, ForkOnSchedule, ForkDone, Schedule, Retire,
                                Dispatch, Run, Tick, Ended, vars
    <3>2. PICK s \in Resources : Take(s) \/ Wait(s)
      BY <2>1, <3>1, AcquireStep
    <3> QED BY <2>1, <3>1, <3>2, AcquireStep DEF Acquire, Take, Wait, Granted
  <2>3. Intact /\ TopWoken
    BY <2>1, <2>2 DEF Intact
  <2>4. ASSUME NEW q \in Procs, AboutToAsk(q, r) PROVE prio[q] <= prio[current]
    <3>1. InQueue(q, readyqueue) => prio[current] >= prio[q]
      BY <2>1, <2>2 DEF HighestStays, Procs, NULL
    <3> QED BY <2>1, <2>2, <2>4, <3>1 DEF AboutToAsk
  <2>5. PICK p \in Procs : p = asked[r][k] /\ IsPending(p, r)
    <3>1. asked[r][k] \in Procs
      BY <2>1, ListType
    <3>2. InQueue(asked[r][k], asked[r])
      BY DEF InQueue
    <3> QED BY <2>1, <2>3, <3>1, <3>2 DEF PendingAsked
  <2>6. CASE AboutToAsk(p, r)
    <3>1. prio_orig(p) <= prio[p] /\ prio[p] <= prio[current]
      BY <2>1, <2>4, <2>5, <2>6 DEF KeepsOwn
    <3>2. prio_orig(p) \in Nat /\ prio[p] \in Nat /\ prio[current] \in Nat
      BY <2>1, <2>2
    <3> QED BY <2>2, <2>5, <3>1, <3>2
  <2>7. CASE InQueue(p, waitqueue[r])
    <3>1. owner[r] = NULL /\ waitqueue[r] # <<>>
      BY <2>7, QueueEmpty DEF Granted
    <3>2. PICK q \in Procs : AboutToAsk(q, r) /\ prio[q] >= prio_orig(p)
      BY <2>3, <2>7, <3>1 DEF TopWoken
    <3>3. prio[q] <= prio[current]
      BY <2>4, <3>2
    <3> QED BY <2>1, <2>2, <2>5, <3>2, <3>3
  <2> QED BY <2>5, <2>6, <2>7 DEF IsPending
<1> QED BY <1>1, <1>2, <1>3, <1>4, TaskAlways, PTL DEF GSpec, GrantToHighest
=============================================================================
