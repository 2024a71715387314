----------------------------- MODULE TaskProofs -----------------------------
(***************************************************************************)
(* What TLAPS proves about the life of a process in the simulator: where   *)
(* its list node is, what it holds and still has to acquire at each age,   *)
(* how it exits, and that all of this is what the abstract TaskSystem      *)
(* says, for every script and every scheduler.  The last two sections say  *)
(* that the simulation comes to an end, and that until then it goes on, as *)
(* long as no scheduler has put a process that waits into the ready queue. *)
(***************************************************************************)
EXTENDS SimulatorProofs

-----------------------------------------------------------------------------
(* Queues without repeats.                                                 *)

LEMMA QueueRemoveAt ==
  ASSUME NEW S, NEW q \in Seq(S), NEW i \in DOMAIN q, NoRepeats(q)
  PROVE  /\ NoRepeats(RemoveAt(q, i))
         /\ \A p : InQueue(p, RemoveAt(q, i)) <=> InQueue(p, q) /\ p # q[i]
BY RemoveAtOnce DEF NoRepeats, InQueue

LEMMA QueueAppend ==
  ASSUME NEW S, NEW q \in Seq(S), NEW e \in S
  PROVE  /\ \A p : InQueue(p, Append(q, e)) <=> InQueue(p, q) \/ p = e
         /\ NoRepeats(q) /\ ~InQueue(e, q) => NoRepeats(Append(q, e))
BY AppendOnce DEF NoRepeats, InQueue

LEMMA QueueConcat ==
  ASSUME NEW S, NEW q \in Seq(S), NEW e \in S
  PROVE  q \o <<>> = q /\ q \o <<e>> = Append(q, e)
OBVIOUS

LEMMA QueueEmpty == NoRepeats(<<>>) /\ \A p : ~InQueue(p, <<>>)
BY DEF NoRepeats, InQueue

-----------------------------------------------------------------------------
(* stcf_schedule takes MAX_TC for infinity (pa2.c): with a longer lifespan *)
(* it keeps a process that has exited on the CPU.  Lifespans below it are  *)
(* what the theorems about every scheduler assume of the scripts.          *)
ShortLives ==
  "stcf" \in Schedulers => \A s \in Scripts : \A p \in Procs : s[p].lifespan < MAX_TC

LEMMA CurrentIf ==
  ASSUME TypeOK
  PROVE  /\ CanStay => CurrentIfAlive = <<current>> /\ CurrentIfRunnable = <<current>>
         /\ ~CanStay => CurrentIfRunnable = <<>>
         /\ \/ CurrentIfAlive = CurrentIfRunnable
            \/ /\ current # NULL /\ status[current] = "BLOCKED"
               /\ CurrentIfAlive = <<current>>
BY DEF CurrentIfAlive, CurrentIfRunnable, CanStay, OnCpu

(* What a schedule() callback does, whoever the scheduler is: it keeps a   *)
(* current that can go on, finds nobody, or takes one process off the      *)
(* ready queue and puts current back if it can go on; rr and stcf also put *)
(* a blocked one back.                                                     *)
LEMMA ScheduleOutcome ==
  ASSUME TypeOK, ShortLives, schedule
  PROVE  \/ CanStay /\ Stay
         \/ ~CanStay /\ PickNobody
         \/ \E i \in DOMAIN readyqueue : Switch(i, CurrentIfRunnable)
         \/ /\ sched \in Relinking /\ current # NULL /\ status[current] = "BLOCKED"
            /\ \E i \in DOMAIN readyqueue : Switch(i, <<current>>)
<1>1. readyqueue \in Seq(Procs) /\ (readyqueue # <<>> => 1 \in DOMAIN readyqueue)
  BY EmptySeq, LenProperties DEF TypeOK
<1>2. ASSUME NEW i \in DOMAIN readyqueue, ~CanStay, Switch(i, <<>>)
      PROVE  Switch(i, CurrentIfRunnable)
  BY <1>2, CurrentIf
<1>3. ASSUME NEW i \in DOMAIN readyqueue, Switch(i, CurrentIfAlive)
      PROVE  \/ Switch(i, CurrentIfRunnable)
             \/ current # NULL /\ status[current] = "BLOCKED" /\ Switch(i, <<current>>)
  BY <1>3, CurrentIf
<1>4. CASE fifo_schedule
  BY <1>1, <1>2, <1>4 DEF fifo_schedule
<1>5. CASE sjf_schedule
  BY <1>2, <1>5 DEF sjf_schedule
<1>6. CASE sched = "stcf" /\ stcf_schedule
  <2>1. ASSUME readyqueue # <<>>, ~CanStay,
               \A j \in DOMAIN readyqueue : Remaining(readyqueue[j]) >= TimeToBeat
        PROVE  FALSE
    <3>1. readyqueue[1] \in Procs /\ TimeToBeat = MAX_TC
      BY <1>1, <2>1, ElementOfSeq, LenProperties DEF TimeToBeat
    <3>2. lifespan(readyqueue[1]) < MAX_TC
      BY <1>6, <3>1 DEF ShortLives, TypeOK, lifespan
    <3>3. lifespan(readyqueue[1]) \in Nat /\ age[readyqueue[1]] \in Nat
      BY <3>1, ScriptType DEF TypeOK
    <3>4. Remaining(readyqueue[1]) >= MAX_TC
      BY <1>1, <2>1, <3>1
    <3> QED BY <3>2, <3>3, <3>4, NumberAssumption DEF Remaining
  <2> QED BY <1>3, <1>6, <2>1 DEF stcf_schedule, Relinking
<1>7. CASE sched = "rr" /\ rr_schedule
  BY <1>1, <1>3, <1>7 DEF rr_schedule, Relinking
<1>8. CASE prio_schedule
  BY <1>8 DEF prio_schedule
<1>9. CASE pa_schedule
  BY <1>9 DEF pa_schedule
<1> QED BY <1>4, <1>5, <1>6, <1>7, <1>8, <1>9 DEF schedule

-----------------------------------------------------------------------------
(* The place of a process.                                                 *)

Intact == pc \notin {"corrupt", "abort"}

(* The strengthening of OnePlace.  A process on the CPU is in no list even *)
(* between its ticks... *)
CurrentDetached ==
  Intact /\ current # NULL => ~InQueue(current, forkqueue) /\ ~InQueue(current, readyqueue)

(* ... where it is known by its status to have run or blocked; ...         *)
CurrentRan ==
  pc \in {"fork", "schedule"} /\ current # NULL => status[current] \in {"RUNNING", "BLOCKED"}

(* ... and one that ran in the tick before is back in the ready queue or   *)
(* on the CPU exactly if it has some of its life left.                     *)
PrevRan ==
  pc = "retire" /\ prev # NULL =>
    /\ status[prev] \in {"RUNNING", "BLOCKED"}
    /\ ~InQueue(prev, forkqueue)
    /\ status[prev] = "RUNNING" =>
         IF Unfinished(prev) THEN prev = current \/ InQueue(prev, readyqueue)
         ELSE prev # current /\ ~InQueue(prev, readyqueue)

InPlace == CurrentDetached /\ CurrentRan /\ PrevRan

(* OnePlace, part by part. *)
Once ==
  /\ NoRepeats(forkqueue) /\ NoRepeats(readyqueue)
  /\ \A r \in Resources : NoRepeats(waitqueue[r])

Apart ==
  \A p \in Procs :
    /\ ~(InQueue(p, forkqueue) /\ InQueue(p, readyqueue))
    /\ \A r \in Resources : InQueue(p, waitqueue[r]) =>
         /\ ~InQueue(p, forkqueue) /\ ~InQueue(p, readyqueue)
         /\ status[p] = "BLOCKED"
         /\ \A s \in Resources : InQueue(p, waitqueue[s]) => r = s

StatusSays ==
  \A p \in Procs :
    /\ status[p] = "BLOCKED" => \E r \in Resources : InQueue(p, waitqueue[r])
    /\ status[p] = "RUNNING" => p = current \/ (p = prev /\ pc = "retire")
    /\ status[p] = "EXIT" => ~InQueue(p, forkqueue) /\ ~InQueue(p, readyqueue) /\ p # current
    /\ status[p] = "READY" =>
         \/ InQueue(p, forkqueue) \/ InQueue(p, readyqueue) \/ p = current
         \/ age[p] > lifespan(p)

OnTheCpu ==
  pc \in {"retire", "dispatch", "acquire", "release"} /\ current # NULL =>
    status[current] # "BLOCKED"

PlaceParts == Intact => Once /\ Apart /\ StatusSays /\ OnTheCpu

LEMMA PlaceByParts == 
  ASSUME TypeOK, CurrentDetached
  PROVE  OnePlace <=> PlaceParts
<1> USE DEF Procs, NULL
<1>1. ASSUME OnePlace, Intact PROVE Once /\ Apart /\ StatusSays /\ OnTheCpu
  <2>1. Once /\ Apart /\ StatusSays
    BY <1>1 DEF OnePlace, Intact, Once, Apart, StatusSays
  <2>2. OnTheCpu
    <3> SUFFICES ASSUME pc \in {"retire", "dispatch", "acquire", "release"}, current # NULL
                 PROVE  status[current] # "BLOCKED"
      BY DEF OnTheCpu
    <3>1. current \in Procs
      BY DEF TypeOK
    <3> QED BY <1>1, <3>1 DEF OnePlace, Intact
  <2> QED BY <2>1, <2>2
<1>2. ASSUME PlaceParts, Intact PROVE OnePlace
  <2>1. Once /\ Apart /\ StatusSays /\ OnTheCpu
    BY <1>2 DEF PlaceParts
  <2> SUFFICES ASSUME NEW p \in Procs
               PROVE  /\ ~(InQueue(p, forkqueue) /\ InQueue(p, readyqueue))
                      /\ InQueue(p, forkqueue) \/ InQueue(p, readyqueue) =>
                           {r \in Resources : InQueue(p, waitqueue[r])} = {}
                      /\ \A r, s \in {r \in Resources : InQueue(p, waitqueue[r])} : r = s
                      /\ status[p] = "BLOCKED" <=>
                           {r \in Resources : InQueue(p, waitqueue[r])} # {}
                      /\ p = current /\ pc \in {"retire", "dispatch", "acquire", "release"} =>
                           /\ ~InQueue(p, forkqueue) /\ ~InQueue(p, readyqueue)
                           /\ {r \in Resources : InQueue(p, waitqueue[r])} = {}
    BY <2>1 DEF OnePlace, Once, StatusSays
  <2>2. /\ ~(InQueue(p, forkqueue) /\ InQueue(p, readyqueue))
        /\ \A r \in Resources : InQueue(p, waitqueue[r]) =>
             /\ ~InQueue(p, forkqueue) /\ ~InQueue(p, readyqueue)
             /\ status[p] = "BLOCKED"
             /\ \A s \in Resources : InQueue(p, waitqueue[s]) => r = s
    BY <2>1 DEF Apart
  <2>3. status[p] = "BLOCKED" => \E r \in Resources : InQueue(p, waitqueue[r])
    BY <2>1 DEF StatusSays
  <2>4. p = current /\ pc \in {"retire", "dispatch", "acquire", "release"} =>
          /\ ~InQueue(p, forkqueue) /\ ~InQueue(p, readyqueue)
          /\ status[p] # "BLOCKED"
    BY <2>1, <1>2 DEF OnTheCpu, CurrentDetached
  <2> QED BY <2>2, <2>3, <2>4
<1> QED BY <1>1, <1>2 DEF OnePlace, PlaceParts, Intact

LEMMA PlaceStep ==
  ASSUME TypeOK, AtWork, ShortLives, InPlace, PlaceParts, [Next]_vars
  PROVE  InPlace' /\ PlaceParts'
<1> SUFFICES ASSUME Intact'
             PROVE  InPlace' /\ (Once /\ Apart /\ StatusSays /\ OnTheCpu)'
  BY DEF InPlace, CurrentDetached, CurrentRan, PrevRan, PlaceParts, Intact
<1>0. /\ forkqueue \in Seq(Procs) /\ readyqueue \in Seq(Procs)
      /\ \A r \in Resources : waitqueue[r] \in Seq(Procs)
      /\ current \in Procs \union {NULL} /\ prev \in Procs \union {NULL}
      /\ status \in [Procs -> Statuses] /\ pc \in Phases \union Halts
  BY DEF TypeOK
<1> DEFINE Parts == Intact /\ Once /\ Apart /\ StatusSays /\ OnTheCpu
<1>1. pc # "corrupt" /\ pc # "abort" => Parts
  BY DEF PlaceParts, Intact
<1>2. CASE ForkOnSchedule
  <2>1. PICK i \in DOMAIN forkqueue :
          /\ forkqueue' = RemoveAt(forkqueue, i)
          /\ readyqueue' = Append(readyqueue, forkqueue[i])
          /\ status' = [status EXCEPT ![forkqueue[i]] = "READY"]
    BY <1>2 DEF ForkOnSchedule
  <2> DEFINE p == forkqueue[i]
  <2>2. /\ pc = "fork" /\ Parts
        /\ UNCHANGED <<script, pc, current, prev, waitqueue, age>>
    BY <1>1, <1>2 DEF ForkOnSchedule
  <2>3. p \in Procs /\ InQueue(p, forkqueue)
    BY ListType DEF InQueue
  <2>4. /\ ~InQueue(p, readyqueue) /\ p # current
        /\ \A r \in Resources : ~InQueue(p, waitqueue[r])
    BY <2>2, <2>3 DEF Apart, InPlace, CurrentDetached, Procs, NULL
  <2> HIDE DEF p
  <2>5. /\ NoRepeats(forkqueue')
        /\ \A q : InQueue(q, forkqueue') <=> InQueue(q, forkqueue) /\ q # p
    BY <1>0, <2>1, <2>2, QueueRemoveAt DEF Once, p
  <2>6. /\ NoRepeats(readyqueue')
        /\ \A q : InQueue(q, readyqueue') <=> InQueue(q, readyqueue) \/ q = p
    BY <1>0, <2>1, <2>2, <2>3, <2>4, QueueAppend DEF Once, p
  <2>7. status'[p] = "READY" /\ \A q \in Procs : q # p => status'[q] = status[q]
    BY <1>0, <2>1, <2>3 DEF p
  <2>8. InPlace'
    BY <1>0, <2>2, <2>4, <2>5, <2>6, <2>7 DEF InPlace, CurrentDetached, CurrentRan, PrevRan
  <2>9. Once' /\ OnTheCpu'
    BY <2>2, <2>5, <2>6 DEF Once, OnTheCpu
  <2>10. Apart'
    BY <2>2, <2>4, <2>5, <2>6, <2>7 DEF Apart
  <2>11. StatusSays'
    BY <2>2, <2>4, <2>5, <2>6, <2>7 DEF StatusSays, lifespan
  <2> QED BY <2>8, <2>9, <2>10, <2>11
<1>3. CASE ForkDone
  BY <1>1, <1>3 DEF ForkDone, InPlace, CurrentDetached, CurrentRan, PrevRan, Once, Apart,
                    StatusSays, OnTheCpu, lifespan, Intact
<1>4. CASE Schedule
  <2>1. /\ pc = "schedule" /\ Parts /\ schedule /\ prev' = current
        /\ UNCHANGED <<script, forkqueue, waitqueue, status, age>>
        /\ pc' = "retire" /\ \A p \in Procs : ~LinkedTwice(p, readyqueue')
    BY <1>1, <1>4 DEF Schedule, Intact
  <2>2. /\ current # NULL => /\ ~InQueue(current, forkqueue) /\ ~InQueue(current, readyqueue)
                             /\ status[current] \in {"RUNNING", "BLOCKED"}
    BY <2>1 DEF InPlace, CurrentDetached, CurrentRan
  <2>3. CASE CanStay /\ Stay
    <3>1. /\ current' = current /\ readyqueue' = readyqueue /\ current # NULL
          /\ status[current] # "BLOCKED" /\ Unfinished(current)
      BY <2>3 DEF Stay, CanStay, OnCpu
    <3>2. InPlace'
      BY <2>1, <2>2, <3>1 DEF InPlace, CurrentDetached, CurrentRan, PrevRan, Unfinished, lifespan
    <3>3. (Once /\ Apart /\ StatusSays /\ OnTheCpu)'
      BY <2>1, <3>1 DEF Once, Apart, StatusSays, OnTheCpu, lifespan
    <3> QED BY <3>2, <3>3
  <2>4. CASE ~CanStay /\ PickNobody
    <3>1. current' = NULL /\ readyqueue' = readyqueue /\ \A p : ~InQueue(p, readyqueue)
      BY <2>4, QueueEmpty DEF PickNobody
    <3>2. current # NULL /\ status[current] = "RUNNING" => ~Unfinished(current)
      BY <2>2, <2>4 DEF CanStay, OnCpu
    <3>3. InPlace'
      BY <2>1, <2>2, <3>1, <3>2
         DEF InPlace, CurrentDetached, CurrentRan, PrevRan, Unfinished, lifespan
    <3>4. (Once /\ Apart /\ OnTheCpu)'
      BY <2>1, <3>1 DEF Once, Apart, OnTheCpu
    <3>5. StatusSays'
      BY <2>1, <2>2, <3>1 DEF StatusSays, lifespan, NULL, Procs
    <3> QED BY <3>3, <3>4, <3>5
  <2>5. ASSUME NEW i \in DOMAIN readyqueue, Switch(i, CurrentIfRunnable)
        PROVE  InPlace' /\ (Once /\ Apart /\ StatusSays /\ OnTheCpu)'
    <3> DEFINE next == readyqueue[i]
    <3>1. next \in Procs /\ InQueue(next, readyqueue)
      BY <1>0, ElementOfSeq, LenProperties DEF InQueue
    <3>2. /\ next # current /\ ~InQueue(next, forkqueue) /\ next # NULL
          /\ status[next] # "BLOCKED" /\ \A r \in Resources : ~InQueue(next, waitqueue[r])
          /\ status[next] # "EXIT" /\ status[next] # "RUNNING"
      <4>1. next # NULL
        BY <3>1 DEF Procs, NULL
      <4>2. next # current
        BY <2>2, <3>1, <4>1
      <4> QED BY <2>1, <3>1, <4>1, <4>2 DEF Apart, StatusSays
    <3> HIDE DEF next
    <3>3. RemoveAt(readyqueue, i) \in Seq(Procs)
      BY <1>0, RemoveAtSeq
    <3>4. /\ NoRepeats(RemoveAt(readyqueue, i))
          /\ \A p : InQueue(p, RemoveAt(readyqueue, i)) <=> InQueue(p, readyqueue) /\ p # next
      BY <1>0, <2>1, QueueRemoveAt DEF Once, next
    <3>5. /\ NoRepeats(readyqueue')
          /\ \A p : InQueue(p, readyqueue') <=>
                      \/ InQueue(p, readyqueue) /\ p # next
                      \/ p = current /\ CanStay
      <4>1. CASE CanStay
        <5>1. current # NULL /\ current \in Procs
          BY <1>0, <4>1 DEF CanStay, OnCpu
        <5>2. readyqueue' = Append(RemoveAt(readyqueue, i), current)
          BY <2>5, <3>3, <4>1, <5>1, CurrentIf, QueueConcat DEF Switch
        <5>3. ~InQueue(current, RemoveAt(readyqueue, i))
          BY <2>2, <3>4, <5>1
        <5> QED BY <3>3, <3>4, <4>1, <5>1, <5>2, <5>3, QueueAppend
      <4>2. CASE ~CanStay
        <5>1. readyqueue' = RemoveAt(readyqueue, i)
          BY <2>5, <3>3, <4>2, CurrentIf, QueueConcat DEF Switch
        <5> QED BY <3>4, <4>2, <5>1
      <4> QED BY <4>1, <4>2
    <3>6. current' = next
      BY <2>5 DEF Switch, next
    <3>7. CurrentDetached' /\ CurrentRan'
      BY <2>1, <3>2, <3>5, <3>6 DEF CurrentDetached, CurrentRan
    <3>8. PrevRan'
      <4>1. current # NULL /\ status[current] = "RUNNING" => (Unfinished(current) <=> CanStay)
        BY DEF CanStay, OnCpu
      <4> QED BY <2>1, <2>2, <3>2, <3>5, <3>6, <4>1 DEF PrevRan, Unfinished, lifespan
    <3>9. Once' /\ OnTheCpu'
      BY <2>1, <3>2, <3>5, <3>6 DEF Once, OnTheCpu
    <3>10. Apart'
      <4>1. CanStay => status[current] # "BLOCKED" /\ ~InQueue(current, forkqueue)
        BY <2>2 DEF CanStay, OnCpu
      <4> QED BY <2>1, <3>5, <4>1 DEF Apart
    <3>11. StatusSays'
      <4>1. CanStay => current # NULL
        BY DEF CanStay, OnCpu
      <4>2. \A p \in Procs : status[p] = "READY" => p # current
        BY <2>2 DEF Procs, NULL
      <4>3. \A p \in Procs : status[p] = "EXIT" => p # current /\ p # next
        BY <2>1, <3>2 DEF StatusSays
      <4> QED BY <2>1, <2>2, <3>2, <3>5, <3>6, <4>1, <4>2, <4>3 DEF StatusSays, lifespan
    <3> QED BY <3>7, <3>8, <3>9, <3>10, <3>11 DEF InPlace
  <2>6. ASSUME NEW i \in DOMAIN readyqueue, current # NULL, status[current] = "BLOCKED",
               Switch(i, <<current>>)
        PROVE  FALSE
    <3>1. current \in Procs /\ RemoveAt(readyqueue, i) \in Seq(Procs)
      BY <1>0, <2>6, RemoveAtSeq
    <3>2. readyqueue' = Append(RemoveAt(readyqueue, i), current)
      BY <2>6, <3>1, QueueConcat DEF Switch
    <3>3. InQueue(current, readyqueue')
      BY <3>1, <3>2, QueueAppend
    <3>4. \E r \in Resources : InQueue(current, waitqueue[r])
      BY <2>1, <2>6, <3>1 DEF StatusSays
    <3> QED BY <2>1, <3>1, <3>3, <3>4 DEF LinkedTwice
  <2> QED BY <2>1, <2>3, <2>4, <2>5, <2>6, ScheduleOutcome
<1>5. CASE Retire
  <2>1. /\ pc = "retire" /\ Parts /\ pc' = "dispatch"
        /\ UNCHANGED <<script, current, prev, forkqueue, readyqueue, waitqueue, age>>
    BY <1>1, <1>5 DEF Retire, Intact
  <2>2. InPlace'
    BY <2>1 DEF InPlace, CurrentDetached, CurrentRan, PrevRan, Intact
  <2>3. Once'
    BY <2>1 DEF Once
  <2>4. CASE prev # NULL /\ Finished(prev) /\ status' = [status EXCEPT ![prev] = "EXIT"]
    <3>1. CanExit(prev) /\ prev \in Procs
      BY <1>0, <1>5, <2>1, <2>4 DEF Retire, TypeOK, Finished
    <3>2. /\ ~InQueue(prev, forkqueue) /\ ~InQueue(prev, readyqueue)
          /\ \A r \in Resources : ~InQueue(prev, waitqueue[r])
      BY <3>1 DEF CanExit
    <3>3. status[prev] = "RUNNING"
      BY <2>1, <2>4, <3>1, <3>2 DEF InPlace, PrevRan, StatusSays
    <3>4. prev # current
      <4>1. ~Unfinished(prev)
        BY <2>4, <3>1, ScriptType DEF Unfinished, Finished, TypeOK
      <4> QED BY <2>1, <2>4, <3>3, <4>1 DEF InPlace, PrevRan
    <3>5. status'[prev] = "EXIT" /\ \A p \in Procs : p # prev => status'[p] = status[p]
      BY <1>0, <2>4, <3>1
    <3>6. Apart'
      BY <2>1, <3>2, <3>5 DEF Apart
    <3>7. StatusSays'
      BY <2>1, <3>2, <3>4, <3>5 DEF StatusSays, lifespan
    <3>8. OnTheCpu'
      BY <1>0, <2>1, <3>4, <3>5 DEF OnTheCpu
    <3> QED BY <2>2, <2>3, <3>6, <3>7, <3>8
  <2>5. CASE /\ prev # NULL /\ ~Finished(prev)
             /\ status' = [status EXCEPT ![prev] = IF @ = "RUNNING" THEN "READY" ELSE @]
    <3>1. prev \in Procs
      BY <1>0, <2>5
    <3>2. /\ status'[prev] = IF status[prev] = "RUNNING" THEN "READY" ELSE status[prev]
          /\ \A p \in Procs : p # prev => status'[p] = status[p]
      BY <1>0, <2>5, <3>1
    <3>3. status[prev] = "RUNNING" =>
            prev = current \/ InQueue(prev, readyqueue) \/ age[prev] > lifespan(prev)
      <4>1. ~Unfinished(prev) => age[prev] > lifespan(prev)
        BY <2>5, <3>1, ScriptType DEF Unfinished, Finished, TypeOK
      <4> QED BY <2>1, <2>5, <4>1 DEF InPlace, PrevRan
    <3>4. Apart'
      BY <2>1, <3>2 DEF Apart
    <3>5. StatusSays'
      BY <2>1, <3>2, <3>3 DEF StatusSays, lifespan
    <3>6. OnTheCpu'
      BY <1>0, <2>1, <3>2 DEF OnTheCpu
    <3> QED BY <2>2, <2>3, <3>4, <3>5, <3>6
  <2>6. CASE prev = NULL /\ UNCHANGED status
    <3>1. (Apart /\ StatusSays /\ OnTheCpu)'
      BY <2>1, <2>6 DEF Apart, StatusSays, OnTheCpu, lifespan, Procs, NULL
    <3> QED BY <2>2, <2>3, <3>1
  <2> QED BY <1>5, <2>4, <2>5, <2>6 DEF Retire
<1>6. CASE Dispatch
  <2>1. /\ pc = "dispatch" /\ Parts
        /\ UNCHANGED <<script, current, prev, forkqueue, readyqueue, waitqueue, age>>
    BY <1>1, <1>6 DEF Dispatch
  <2>2. Once'
    BY <2>1 DEF Once
  <2>3. CASE /\ current # NULL /\ pc' = "acquire"
             /\ status' = [status EXCEPT ![current] = "RUNNING"]
    <3>1. /\ status'[current] = "RUNNING" /\ current \in Procs
          /\ \A p \in Procs : p # current => status'[p] = status[p]
      BY <1>0, <2>3
    <3>2. InPlace'
      BY <2>1, <2>3 DEF InPlace, CurrentDetached, CurrentRan, PrevRan, Intact
    <3>3. \A r \in Resources : ~InQueue(current, waitqueue[r])
      BY <2>1, <2>3, <3>1 DEF Apart, OnTheCpu
    <3>4. Apart'
      BY <2>1, <3>1, <3>3 DEF Apart
    <3>5. StatusSays' /\ OnTheCpu'
      BY <2>1, <3>1 DEF StatusSays, OnTheCpu, lifespan
    <3> QED BY <2>2, <3>2, <3>4, <3>5
  <2>4. CASE current = NULL /\ pc' \in {"fork", "done"} /\ UNCHANGED status
    BY <2>1, <2>2, <2>4 DEF InPlace, CurrentDetached, CurrentRan, PrevRan, Intact, Apart,
                            StatusSays, OnTheCpu, lifespan
  <2> QED BY <1>6, <2>3, <2>4 DEF Dispatch
<1>7. CASE Acquire
  <2>1. PICK i \in DOMAIN to_acquire[current] :
          LET rs == to_acquire[current][i] IN
          /\ rs.res \in Resources
          /\ \/ Take(rs.res) /\ pc' = pc
             \/ Wait(rs.res) /\ pc' = "fork"
    BY <1>7, AcquireStep
  <2> DEFINE r == to_acquire[current][i].res
  <2>2. /\ pc = "acquire" /\ Parts /\ current \in Procs /\ current # NULL
        /\ UNCHANGED <<script, current, prev, forkqueue, readyqueue, age>>
        /\ status[current] = "RUNNING"
        /\ \A s \in Resources : ~InQueue(current, waitqueue[s])
    BY <1>1, <1>7, AcquireStep DEF Acquire, AtWork
  <2>3. ~InQueue(current, forkqueue) /\ ~InQueue(current, readyqueue)
    BY <2>2 DEF InPlace, CurrentDetached
  <2>4. CASE Take(r) /\ pc' = pc
    BY <2>2, <2>4 DEF Take, InPlace, CurrentDetached, CurrentRan, PrevRan, Intact, Once,
                      Apart, StatusSays, OnTheCpu, lifespan
  <2>5. CASE Wait(r) /\ pc' = "fork"
    <3>1. /\ status'[current] = "BLOCKED"
          /\ \A p \in Procs : p # current => status'[p] = status[p]
      BY <1>0, <2>2, <2>5 DEF Wait
    <3>2. /\ waitqueue'[r] = Append(waitqueue[r], current)
          /\ \A s \in Resources : s # r => waitqueue'[s] = waitqueue[s]
      BY <2>1, <2>5 DEF Wait, TypeOK
    <3>3. /\ NoRepeats(waitqueue'[r])
          /\ \A p : InQueue(p, waitqueue'[r]) <=> InQueue(p, waitqueue[r]) \/ p = current
      BY <1>0, <2>1, <2>2, <3>2, QueueAppend DEF Once
    <3> HIDE DEF r
    <3>4. \A p : \A s \in Resources :
            InQueue(p, waitqueue'[s]) <=> InQueue(p, waitqueue[s]) \/ (p = current /\ s = r)
      BY <3>2, <3>3
    <3>5. InPlace'
      BY <2>2, <2>3, <2>5, <3>1 DEF InPlace, CurrentDetached, CurrentRan, PrevRan, Intact
    <3>6. Once' /\ OnTheCpu'
      BY <2>1, <2>2, <2>5, <3>2, <3>3 DEF Once, OnTheCpu
    <3>7. Apart'
      BY <2>2, <2>3, <3>1, <3>4 DEF Apart
    <3>8. StatusSays'
      BY <2>1, <2>2, <3>1, <3>4 DEF StatusSays, lifespan, r
    <3> QED BY <3>5, <3>6, <3>7, <3>8
  <2> QED BY <2>1, <2>4, <2>5
<1>8. CASE Run
  <2>1. /\ pc = "acquire" /\ Parts /\ current \in Procs /\ pc' = "release"
        /\ UNCHANGED <<script, current, prev, forkqueue, readyqueue, waitqueue, status>>
        /\ \A p \in Procs : age'[p] >= age[p]
    <3>1. current \in Procs /\ age \in [Procs -> Nat]
      BY <1>0, <1>8 DEF Run, AtWork, TypeOK
    <3>2. age' = [age EXCEPT ![current] = age[current] + 1]
      BY <1>8 DEF Run
    <3>3. \A p \in Procs : age'[p] >= age[p]
      BY <3>1, <3>2
    <3> QED BY <1>1, <1>8, <3>1, <3>3 DEF Run
  <2>2. (Once /\ Apart /\ OnTheCpu)'
    BY <2>1 DEF Once, Apart, OnTheCpu
  <2>3. InPlace'
    BY <2>1 DEF InPlace, CurrentDetached, CurrentRan, PrevRan, Intact
  <2>4. StatusSays'
    <3>1. \A p \in Procs : age[p] > lifespan(p) => age'[p] > lifespan(p)'
      <4>1. \A p \in Procs : lifespan(p)' = lifespan(p)
        BY <2>1 DEF lifespan
      <4>2. \A p \in Procs : age[p] \in Nat /\ age'[p] \in Nat /\ lifespan(p) \in Nat
        BY ScriptType, TypeStep DEF TypeOK
      <4> QED BY <2>1, <4>1, <4>2
    <3> QED BY <2>1, <3>1 DEF StatusSays
  <2> QED BY <2>2, <2>3, <2>4
<1>9. CASE Release
  <2>1. PICK r \in Resources : WakeNobody(r) \/ \E k \in DOMAIN waitqueue[r] : Wake(r, k)
    BY <1>9, ReleaseStep
  <2>2. /\ pc = "release" /\ Parts /\ current \in Procs /\ current # NULL
        /\ UNCHANGED <<script, pc, current, prev, forkqueue, age>>
        /\ \A s \in Resources : ~InQueue(current, waitqueue[s])
    BY <1>1, <1>9, ReleaseStep DEF Release, AtWork
  <2>3. CASE WakeNobody(r)
    BY <2>2, <2>3 DEF WakeNobody, InPlace, CurrentDetached, CurrentRan, PrevRan, Intact, Once,
                      Apart, StatusSays, OnTheCpu, lifespan
  <2>4. ASSUME NEW k \in DOMAIN waitqueue[r], Wake(r, k)
        PROVE  InPlace' /\ (Once /\ Apart /\ StatusSays /\ OnTheCpu)'
    <3> DEFINE w == waitqueue[r][k]
    <3>1. w \in Procs /\ InQueue(w, waitqueue[r])
      BY ListType DEF InQueue
    <3>2. /\ ~InQueue(w, forkqueue) /\ ~InQueue(w, readyqueue) /\ w # current
          /\ status[w] = "BLOCKED"
          /\ \A s \in Resources : InQueue(w, waitqueue[s]) => r = s
      BY <2>2, <3>1 DEF Apart
    <3> HIDE DEF w
    <3>3. /\ waitqueue'[r] = RemoveAt(waitqueue[r], k)
          /\ \A s \in Resources : s # r => waitqueue'[s] = waitqueue[s]
          /\ readyqueue' = Append(readyqueue, w)
          /\ status'[w] = "READY" /\ \A p \in Procs : p # w => status'[p] = status[p]
      BY <2>4, <3>1 DEF Wake, TypeOK, w
    <3>4. /\ NoRepeats(waitqueue'[r])
          /\ \A p : InQueue(p, waitqueue'[r]) <=> InQueue(p, waitqueue[r]) /\ p # w
      BY <1>0, <2>2, <3>3, QueueRemoveAt DEF Once, w
    <3>5. /\ NoRepeats(readyqueue')
          /\ \A p : InQueue(p, readyqueue') <=> InQueue(p, readyqueue) \/ p = w
      BY <1>0, <2>2, <3>1, <3>2, <3>3, QueueAppend DEF Once
    <3>6. \A p : \A s \in Resources :
            InQueue(p, waitqueue'[s]) <=> InQueue(p, waitqueue[s]) /\ p # w
      BY <3>2, <3>3, <3>4
    <3>7. InPlace'
      BY <2>2, <3>2, <3>5 DEF InPlace, CurrentDetached, CurrentRan, PrevRan, Intact
    <3>8. Once' /\ OnTheCpu'
      BY <2>2, <3>2, <3>3, <3>4, <3>5 DEF Once, OnTheCpu
    <3>9. Apart'
      BY <2>2, <3>2, <3>3, <3>5, <3>6 DEF Apart
    <3>10. StatusSays'
      BY <2>2, <3>2, <3>3, <3>5, <3>6 DEF StatusSays, lifespan
    <3> QED BY <3>7, <3>8, <3>9, <3>10
  <2> QED BY <2>1, <2>3, <2>4
<1>10. CASE Tick
  <2>1. /\ pc = "release" /\ Parts /\ pc' = "fork" /\ status[current] = "RUNNING"
        /\ UNCHANGED <<script, current, prev, forkqueue, readyqueue, waitqueue, status, age>>
    BY <1>1, <1>10 DEF Tick, AtWork
  <2> QED BY <2>1 DEF InPlace, CurrentDetached, CurrentRan, PrevRan, Intact, Once, Apart,
                      StatusSays, OnTheCpu, lifespan
<1>11. CASE Ended \/ UNCHANGED vars
  <2>1. UNCHANGED vars /\ Parts
    BY <1>1, <1>11 DEF Ended, vars, Intact
  <2> QED BY <2>1 DEF vars, InPlace, CurrentDetached, CurrentRan, PrevRan, Intact, Once, Apart,
                      StatusSays, OnTheCpu, lifespan, Unfinished
<1> QED BY <1>2, <1>3, <1>4, <1>5, <1>6, <1>7, <1>8, <1>9, <1>10, <1>11 DEF Next

(* The inductive invariant. *)
PlaceInv == TypeOK /\ AtWork /\ InPlace /\ PlaceParts

LEMMA PlaceInit == Init => PlaceInv
<1> SUFFICES ASSUME Init PROVE PlaceInv
  OBVIOUS
<1>1. TypeOK /\ AtWork
  BY InitType
<1>2. \A p \in Procs : InQueue(p, forkqueue)
  BY DEF Init, InQueue
<1>3. Once /\ Apart /\ StatusSays /\ OnTheCpu
  BY <1>2, QueueEmpty DEF Init, Once, Apart, StatusSays, OnTheCpu, NoRepeats
<1>4. InPlace
  BY DEF Init, InPlace, CurrentDetached, CurrentRan, PrevRan
<1> QED BY <1>1, <1>3, <1>4 DEF PlaceInv, PlaceParts

LEMMA PlaceNext ==
  ASSUME ShortLives, PlaceInv, [Next]_vars
  PROVE  PlaceInv'
BY PlaceStep, TypeStep, AtWorkStep DEF PlaceInv

LEMMA PlaceAlways ==
  ASSUME ShortLives
  PROVE  Spec => []PlaceInv
<1>1. PlaceInv /\ [Next]_vars => PlaceInv'
  BY PlaceNext
<1> QED BY <1>1, PlaceInit, PTL DEF Spec

(* The list node of a process is in one list at most, and its status says  *)
(* in which: list_move_tail, list_del_init and list_add_tail are used      *)
(* right by every scheduler, until one puts a blocked process into the     *)
(* ready queue.                                                            *)
THEOREM ListedOnce ==
  ASSUME ShortLives
  PROVE  Spec => []OnePlace
<1>1. PlaceInv => OnePlace
  BY PlaceByParts DEF PlaceInv, InPlace
<1> QED BY <1>1, PlaceAlways, PTL

-----------------------------------------------------------------------------
(* The CPU idles only when nothing is ready, and the simulation quits only *)
(* when nothing is to be forked either.                                    *)
NobodyElse ==
  /\ pc \in {"retire", "dispatch"} /\ current = NULL => readyqueue = <<>>
  /\ pc = "done" => current = NULL /\ readyqueue = <<>> /\ forkqueue = <<>>

LEMMA NobodyStep ==
  ASSUME TypeOK, AtWork, ShortLives, InPlace, NobodyElse, [Next]_vars
  PROVE  NobodyElse'
<1>1. CASE Schedule
  <2>1. ASSUME current' = NULL, pc' = "retire" PROVE readyqueue' = <<>>
    <3>1. CASE CanStay /\ Stay
      BY <2>1, <3>1 DEF CanStay, OnCpu, Stay
    <3>2. CASE ~CanStay /\ PickNobody
      BY <3>2 DEF PickNobody
    <3>3. ASSUME NEW i \in DOMAIN readyqueue, NEW q, Switch(i, q)
          PROVE  FALSE
      <4>1. readyqueue[i] \in Procs
        BY ElementOfSeq, LenProperties DEF TypeOK
      <4> QED BY <2>1, <3>3, <4>1 DEF Switch, Procs, NULL
    <3> QED BY <1>1, <3>1, <3>2, <3>3, ScheduleOutcome DEF Schedule
  <2> QED BY <1>1, <2>1 DEF Schedule, NobodyElse
<1>2. CASE Retire \/ Dispatch
  BY <1>2 DEF Retire, Dispatch, NobodyElse
<1>3. CASE ForkOnSchedule \/ ForkDone \/ Acquire \/ Run \/ Release \/ Tick
  BY <1>3 DEF ForkOnSchedule, ForkDone, Acquire, Run, Release, Tick, NobodyElse
<1>4. CASE Ended \/ UNCHANGED vars
  BY <1>4 DEF Ended, vars, NobodyElse
<1> QED BY <1>1, <1>2, <1>3, <1>4 DEF Next

LEMMA NobodyAlways ==
  ASSUME ShortLives
  PROVE  Spec => []NobodyElse
<1>1. Init => NobodyElse
  BY DEF Init, NobodyElse
<1>2. PlaceInv /\ NobodyElse /\ [Next]_vars => NobodyElse'
  BY NobodyStep DEF PlaceInv
<1> QED BY <1>1, <1>2, PlaceAlways, PTL DEF Spec

(* Nobody is ready but processes with MAX_TC ticks or more to go, which    *)
(* stcf_schedule never picks.                                              *)
OnlyEndlessReady ==
  sched = "stcf" /\ \A k \in DOMAIN readyqueue : Remaining(readyqueue[k]) >= MAX_TC

LEMMA IdleStep ==
  LET Idle == pc \in {"retire", "dispatch"} /\ current = NULL =>
                readyqueue = <<>> \/ OnlyEndlessReady
  IN  TypeOK /\ Idle /\ [Next]_vars => Idle'
<1> DEFINE Idle == pc \in {"retire", "dispatch"} /\ current = NULL =>
                     readyqueue = <<>> \/ OnlyEndlessReady
<1> SUFFICES ASSUME TypeOK, Idle, [Next]_vars PROVE Idle'
  OBVIOUS
<1>1. ASSUME NEW i \in DOMAIN readyqueue, NEW q, Switch(i, q), current' = NULL PROVE FALSE
  <2>1. readyqueue[i] \in Procs
    BY ElementOfSeq, LenProperties DEF TypeOK
  <2> QED BY <1>1, <2>1 DEF Switch, Procs, NULL
<1>2. 1 \in DOMAIN readyqueue \/ readyqueue = <<>>
  BY EmptySeq, LenProperties DEF TypeOK
<1>3. ASSUME Schedule, current' = NULL PROVE readyqueue' = <<>> \/ OnlyEndlessReady'
  <2>1. schedule /\ UNCHANGED <<sched, script, age>>
    BY <1>3 DEF Schedule
  <2>2. CASE PickNobody
    BY <2>2 DEF PickNobody
  <2>3. CASE CanStay /\ Stay
    BY <1>3, <2>3 DEF CanStay, OnCpu, Stay
  <2>4. CASE fifo_schedule \/ sjf_schedule \/ rr_schedule
    BY <1>1, <1>2, <1>3, <2>2, <2>3, <2>4 DEF fifo_schedule, sjf_schedule, rr_schedule
  <2>5. CASE prio_schedule \/ pa_schedule
    BY <1>1, <1>3, <2>2, <2>3, <2>5 DEF prio_schedule, pa_schedule
  <2>6. CASE sched = "stcf" /\ stcf_schedule
    <3>1. ASSUME \A j \in DOMAIN readyqueue : Remaining(readyqueue[j]) >= TimeToBeat, Stay
          PROVE  OnlyEndlessReady'
      <4>1. current = NULL /\ readyqueue' = readyqueue
        BY <1>3, <3>1 DEF Stay
      <4>2. TimeToBeat = MAX_TC
        BY <4>1 DEF TimeToBeat, CanStay, OnCpu
      <4> QED BY <2>1, <2>6, <3>1, <4>1, <4>2 DEF OnlyEndlessReady, Remaining, lifespan
    <3> QED BY <1>1, <1>3, <2>2, <2>6, <3>1 DEF stcf_schedule
  <2> QED BY <2>1, <2>4, <2>5, <2>6 DEF schedule
<1>4. CASE Schedule
  BY <1>3, <1>4
<1>5. CASE Retire
  BY <1>5 DEF Retire, OnlyEndlessReady, Remaining, lifespan
<1>6. CASE ForkOnSchedule \/ ForkDone \/ Dispatch \/ Acquire \/ Run \/ Release \/ Tick
  BY <1>6 DEF ForkOnSchedule, ForkDone, Dispatch, Acquire, Run, Release, Tick
<1>7. CASE Ended \/ UNCHANGED vars
  BY <1>7 DEF Ended, vars, OnlyEndlessReady, Remaining, lifespan
<1> QED BY <1>4, <1>5, <1>6, <1>7 DEF Next

(* No schedule() callback overlooks a ready process, so that "No process   *)
(* is ready to run at this moment" (sched.c:351) is true when it is        *)
(* printed, whatever the scripts and whoever schedules, but for one case:  *)
(* stcf and lifespans of MAX_TC or more.                                   *)
THEOREM NeverIdlesInVain == Spec => [](IdleOnlyWhenNothingReady \/ OnlyEndlessReady)
<1> DEFINE Idle == pc \in {"retire", "dispatch"} /\ current = NULL =>
                     readyqueue = <<>> \/ OnlyEndlessReady
<1>1. Init => Idle
  BY DEF Init
<1>2. TypeOK /\ Idle /\ [Next]_vars => Idle'
  BY IdleStep
<1>3. Idle => IdleOnlyWhenNothingReady \/ OnlyEndlessReady
  BY DEF IdleOnlyWhenNothingReady
<1> QED BY <1>1, <1>2, <1>3, TypeCorrect, PTL DEF Spec

-----------------------------------------------------------------------------
(* What a process still has to acquire, what it holds and what it has      *)
(* given back, entry by entry of its script.                               *)

LEMMA SetRemoveAt ==
  ASSUME NEW S, NEW q \in Seq(S), NEW i \in DOMAIN q
  PROVE  /\ ToSet(RemoveAt(q, i)) \subseteq ToSet(q)
         /\ \A e \in ToSet(q) : e = q[i] \/ e \in ToSet(RemoveAt(q, i))
<1> DEFINE rest == RemoveAt(q, i)
<1>1. /\ Len(q) \in Nat /\ DOMAIN q = 1..Len(q) /\ i \in 1..Len(q)
      /\ DOMAIN rest = 1..(Len(q) - 1)
      /\ \A j \in 1..(Len(q) - 1) : rest[j] = IF j < i THEN q[j] ELSE q[j + 1]
  BY RemoveAtSeq, LenProperties
<1> HIDE DEF rest
<1>2. \A j \in DOMAIN rest : rest[j] \in ToSet(q)
  BY <1>1 DEF ToSet
<1>3. ASSUME NEW k \in DOMAIN q, k # i PROVE q[k] \in ToSet(rest)
  <2>1. CASE k < i
    <3>1. k \in DOMAIN rest /\ rest[k] = q[k]
      BY <1>1, <2>1
    <3> QED BY <3>1 DEF ToSet
  <2>2. CASE k > i
    <3>1. k - 1 \in DOMAIN rest /\ rest[k - 1] = q[k]
      BY <1>1, <2>2
    <3> QED BY <3>1 DEF ToSet
  <2> QED BY <1>1, <1>3, <2>1, <2>2
<1> QED BY <1>2, <1>3 DEF ToSet, rest

LEMMA SetAppend ==
  ASSUME NEW S, NEW q \in Seq(S), NEW e \in S
  PROVE  ToSet(Append(q, e)) = ToSet(q) \union {e}
<1>1. \A p : InQueue(p, Append(q, e)) <=> InQueue(p, q) \/ p = e
  BY QueueAppend
<1>2. \A p, s : InQueue(p, s) <=> p \in ToSet(s)
  BY DEF InQueue, ToSet
<1> QED BY <1>1, <1>2

(* The ticks for which the code lets a process keep a resource: a duration *)
(* of 0 wraps around.                                                      *)
Eff(u) == IF u.duration = 0 THEN UINT_MOD ELSE u.duration

(* What is left of them for the entry h that a process of age n holds.     *)
Rest(h, n) == IF h.at = n /\ h.duration = 0 THEN UINT_MOD ELSE h.duration

(* h is held for the entry u of the script. *)
Matches(u, h, n) == u.res = h.res /\ u.at = h.at /\ u.at + Eff(u) = n + Rest(h, n)

(* Every entry of the script is still to be acquired, or is held, with as  *)
(* much of its duration left as the age of the process says, or has been   *)
(* used up; and nothing else is to be acquired or held.                    *)
PlayedBy(uses, todo, held, n, releasing) ==
  /\ \A u \in ToSet(todo) : u \in ToSet(uses) /\ u.at >= n
  /\ NoRepeats(uses) => NoRepeats(todo)
  /\ \A h \in ToSet(held) :
       /\ h.duration < UINT_MOD
       /\ IF releasing THEN h.at < n ELSE h.at <= n /\ Rest(h, n) > 0
       /\ \E u \in ToSet(uses) : Matches(u, h, n) /\ (NoRepeats(uses) => u \notin ToSet(todo))
  /\ \A u \in ToSet(uses) :
       \/ u \in ToSet(todo)
       \/ \E h \in ToSet(held) : Matches(u, h, n)
       \/ u.at + Eff(u) <= n

LEMMA PlayBegins ==
  ASSUME NEW uses
  PROVE  (\A u \in ToSet(uses) : u.at >= 0) => PlayedBy(uses, uses, <<>>, 0, FALSE)
<1>1. ToSet(<<>>) = {}
  BY DEF ToSet
<1> QED BY <1>1 DEF PlayedBy

(* The assumption that durations are unsigned ints. *)
LEMMA PlayTake ==
  ASSUME NEW uses \in Seq(ResourceSchedule), NEW todo \in Seq(ResourceSchedule),
         NEW held \in Seq(ResourceSchedule), NEW n \in Nat, NEW i \in DOMAIN todo,
         todo[i].at = n, todo[i].duration < UINT_MOD,
         PlayedBy(uses, todo, held, n, FALSE)
  PROVE  PlayedBy(uses, RemoveAt(todo, i), Append(held, todo[i]), n, FALSE)
<1> DEFINE e == todo[i]
<1>1. e \in ResourceSchedule /\ e \in ToSet(todo) /\ e \in ToSet(uses)
  BY ElementOfSeq, LenProperties DEF ToSet, PlayedBy
<1>2. /\ ToSet(RemoveAt(todo, i)) \subseteq ToSet(todo)
      /\ \A u \in ToSet(todo) : u = e \/ u \in ToSet(RemoveAt(todo, i))
      /\ ToSet(Append(held, e)) = ToSet(held) \union {e}
  BY <1>1, SetRemoveAt, SetAppend
<1>3. NoRepeats(todo) =>
        NoRepeats(RemoveAt(todo, i)) /\ e \notin ToSet(RemoveAt(todo, i))
  <2>1. \A p, s : InQueue(p, s) <=> p \in ToSet(s)
    BY DEF InQueue, ToSet
  <2> QED BY <2>1, QueueRemoveAt
<1>4. /\ e.at = n /\ e.duration < UINT_MOD /\ e.duration \in Nat /\ UINT_MOD \in Nat \ {0}
  BY <1>1, NumberAssumption DEF ResourceSchedule
<1> HIDE DEF e
<1>5. Matches(e, e, n) /\ Rest(e, n) > 0
  BY <1>4 DEF Matches, Rest, Eff
<1>6. \A h \in ToSet(Append(held, e)) :
       /\ h.duration < UINT_MOD
       /\ h.at <= n /\ Rest(h, n) > 0
       /\ \E u \in ToSet(uses) :
            Matches(u, h, n) /\ (NoRepeats(uses) => u \notin ToSet(RemoveAt(todo, i)))
  <2>1. ASSUME NEW h \in ToSet(held)
        PROVE  /\ h.duration < UINT_MOD
               /\ h.at <= n /\ Rest(h, n) > 0
               /\ \E u \in ToSet(uses) :
                    Matches(u, h, n) /\ (NoRepeats(uses) => u \notin ToSet(RemoveAt(todo, i)))
    BY <1>2 DEF PlayedBy
  <2>2. NoRepeats(uses) => e \notin ToSet(RemoveAt(todo, i))
    BY <1>3 DEF PlayedBy
  <2> QED BY <1>1, <1>2, <1>4, <1>5, <2>1, <2>2
<1>7. \A u \in ToSet(uses) :
       \/ u \in ToSet(RemoveAt(todo, i))
       \/ \E h \in ToSet(Append(held, e)) : Matches(u, h, n)
       \/ u.at + Eff(u) <= n
  BY <1>2, <1>5 DEF PlayedBy
<1>8. /\ \A u \in ToSet(RemoveAt(todo, i)) : u \in ToSet(uses) /\ u.at >= n
      /\ NoRepeats(uses) => NoRepeats(RemoveAt(todo, i))
  BY <1>2, <1>3 DEF PlayedBy
<1> QED BY <1>6, <1>7, <1>8 DEF PlayedBy, e

(* --duration, of an unsigned int. *)
LEMMA Wraps ==
  ASSUME NEW m \in Nat \ {0}
  PROVE  \A a \in Int : -m <= a /\ a < m => a % m = IF a < 0 THEN m + a ELSE a
OBVIOUS

LEMMA PlayRun ==
  ASSUME NEW uses \in Seq(ResourceSchedule), NEW todo \in Seq(ResourceSchedule),
         NEW held \in Seq(ResourceSchedule), NEW n \in Nat,
         \A k \in DOMAIN todo : todo[k].at # n,
         PlayedBy(uses, todo, held, n, FALSE)
  PROVE  PlayedBy(uses, todo, [k \in DOMAIN held |-> Charge(held[k])], n + 1, TRUE)
<1> DEFINE charged == [k \in DOMAIN held |-> Charge(held[k])]
<1>1. /\ \A u \in ToSet(uses) : u \in ResourceSchedule
      /\ \A u \in ToSet(todo) : u \in ResourceSchedule
      /\ \A h \in ToSet(held) : h \in ResourceSchedule
  BY ElementOfSeq, LenProperties DEF ToSet
<1>2. UINT_MOD \in Nat \ {0}
  BY NumberAssumption
<1>3. /\ \A h \in ToSet(held) : Charge(h) \in ToSet(charged)
      /\ \A c \in ToSet(charged) : \E h \in ToSet(held) : c = Charge(h)
  BY DEF ToSet
<1> HIDE DEF charged
<1>4. ASSUME NEW h \in ToSet(held)
      PROVE  /\ Charge(h).res = h.res /\ Charge(h).at = h.at
             /\ Charge(h).at < n + 1 /\ Charge(h).duration < UINT_MOD
             /\ Rest(Charge(h), n + 1) = Rest(h, n) - 1
  <2>1. /\ h.duration \in Nat /\ h.at \in Nat /\ h.duration < UINT_MOD
        /\ h.at <= n /\ Rest(h, n) > 0
    BY <1>1 DEF ResourceSchedule, PlayedBy
  <2>2. /\ Charge(h).res = h.res /\ Charge(h).at = h.at
        /\ Charge(h).duration = (h.duration - 1) % UINT_MOD
    BY <1>1 DEF Charge, ResourceSchedule
  <2>3. (h.duration - 1) % UINT_MOD = Rest(h, n) - 1
    <3>1. /\ h.duration - 1 \in Int /\ -UINT_MOD <= h.duration - 1
          /\ h.duration - 1 < UINT_MOD
      BY <1>2, <2>1
    <3>2. (h.duration - 1) % UINT_MOD =
            IF h.duration - 1 < 0 THEN UINT_MOD + (h.duration - 1) ELSE h.duration - 1
      BY <1>2, <3>1, Wraps
    <3>3. Rest(h, n) = IF h.duration = 0 THEN UINT_MOD ELSE h.duration
      BY <2>1 DEF Rest
    <3> QED BY <1>2, <2>1, <3>2, <3>3
  <2>4. Rest(h, n) <= UINT_MOD /\ Rest(h, n) \in Nat
    BY <1>2, <2>1 DEF Rest
  <2>5. Rest(Charge(h), n + 1) = Charge(h).duration
    BY <2>1, <2>2 DEF Rest
  <2> QED BY <1>2, <2>1, <2>2, <2>3, <2>4, <2>5
<1>5. ASSUME NEW u \in ToSet(uses), NEW h \in ToSet(held), Matches(u, h, n)
      PROVE  Matches(u, Charge(h), n + 1)
  <2>1. Rest(h, n) \in Nat /\ u.at \in Nat /\ Eff(u) \in Nat
    BY <1>1, <1>2 DEF Rest, Eff, ResourceSchedule
  <2> QED BY <1>4, <1>5, <2>1 DEF Matches
<1>6. /\ \A u \in ToSet(todo) : u \in ToSet(uses) /\ u.at >= n + 1
      /\ NoRepeats(uses) => NoRepeats(todo)
  <2>1. \A u \in ToSet(todo) : u.at \in Nat /\ u.at # n
    BY <1>1 DEF ToSet, ResourceSchedule
  <2> QED BY <2>1 DEF PlayedBy
<1>7. \A c \in ToSet(charged) :
       /\ c.duration < UINT_MOD
       /\ c.at < n + 1
       /\ \E u \in ToSet(uses) :
            Matches(u, c, n + 1) /\ (NoRepeats(uses) => u \notin ToSet(todo))
  <2> SUFFICES ASSUME NEW h \in ToSet(held)
               PROVE  /\ Charge(h).duration < UINT_MOD
                      /\ Charge(h).at < n + 1
                      /\ \E u \in ToSet(uses) : /\ Matches(u, Charge(h), n + 1)
                                                /\ NoRepeats(uses) => u \notin ToSet(todo)
    BY <1>3
  <2>1. PICK u \in ToSet(uses) : Matches(u, h, n) /\ (NoRepeats(uses) => u \notin ToSet(todo))
    BY DEF PlayedBy
  <2> QED BY <1>4, <1>5, <2>1
<1>8. \A u \in ToSet(uses) :
       \/ u \in ToSet(todo)
       \/ \E c \in ToSet(charged) : Matches(u, c, n + 1)
       \/ u.at + Eff(u) <= n + 1
  <2> SUFFICES ASSUME NEW u \in ToSet(uses)
               PROVE  \/ u \in ToSet(todo)
                      \/ \E c \in ToSet(charged) : Matches(u, c, n + 1)
                      \/ u.at + Eff(u) <= n + 1
    OBVIOUS
  <2>1. u.at + Eff(u) <= n => u.at + Eff(u) <= n + 1
    BY <1>1, <1>2 DEF Eff, ResourceSchedule
  <2>2. \/ u \in ToSet(todo)
        \/ \E h \in ToSet(held) : Matches(u, h, n)
        \/ u.at + Eff(u) <= n
    BY DEF PlayedBy
  <2> QED BY <1>3, <1>5, <2>1, <2>2
<1> QED BY <1>6, <1>7, <1>8 DEF PlayedBy, charged

LEMMA PlayRelease ==
  ASSUME NEW uses \in Seq(ResourceSchedule), NEW todo \in Seq(ResourceSchedule),
         NEW held \in Seq(ResourceSchedule), NEW n \in Nat, NEW i \in DOMAIN held,
         held[i].duration = 0,
         PlayedBy(uses, todo, held, n, TRUE)
  PROVE  PlayedBy(uses, todo, RemoveAt(held, i), n, TRUE)
<1>1. /\ ToSet(RemoveAt(held, i)) \subseteq ToSet(held)
      /\ \A h \in ToSet(held) : h = held[i] \/ h \in ToSet(RemoveAt(held, i))
  BY SetRemoveAt
<1>2. held[i] \in ResourceSchedule /\ held[i] \in ToSet(held)
  BY ElementOfSeq, LenProperties DEF ToSet
<1>3. Rest(held[i], n) = 0
  BY <1>2 DEF PlayedBy, Rest, ResourceSchedule
<1>4. \A u \in ToSet(uses) : Matches(u, held[i], n) => u.at + Eff(u) <= n
  BY <1>3 DEF Matches
<1> QED BY <1>1, <1>4 DEF PlayedBy

LEMMA PlayTick ==
  ASSUME NEW uses, NEW todo, NEW held \in Seq(ResourceSchedule), NEW n \in Nat,
         \A k \in DOMAIN held : held[k].duration # 0,
         PlayedBy(uses, todo, held, n, TRUE)
  PROVE  PlayedBy(uses, todo, held, n, FALSE)
<1>1. ASSUME NEW h \in ToSet(held)
      PROVE  h.at <= n /\ Rest(h, n) > 0
  <2>1. h \in ResourceSchedule /\ h.duration # 0
    BY ElementOfSeq, LenProperties DEF ToSet
  <2>2. h.at < n
    BY DEF PlayedBy
  <2> QED BY <2>1, <2>2 DEF Rest, ResourceSchedule
<1> QED BY <1>1 DEF PlayedBy

(* __run_current_release works on what p holds. *)
Releasing(p) == pc = "release" /\ p = current

Played ==
  \A p \in Procs :
    PlayedBy(script[p].acquires, to_acquire[p], holding[p], age[p], Releasing(p))

(* Lifespans and durations are unsigned ints (process.h, resource.h). *)
Fitting ==
  \A s \in Scripts : \A p \in Procs :
    /\ s[p].lifespan < UINT_MOD
    /\ \A i \in DOMAIN s[p].acquires : s[p].acquires[i].duration < UINT_MOD

LEMMA PlayedSame ==
  ASSUME Played, NEW p \in Procs, UNCHANGED <<script, to_acquire, holding, age>>,
         Releasing(p)' <=> Releasing(p)
  PROVE  PlayedBy(script[p].acquires, to_acquire[p], holding[p], age[p], Releasing(p))'
BY DEF Played, PlayedBy

LEMMA PlayedStep ==
  ASSUME TypeOK, AtWork, Fitting, Played, [Next]_vars
  PROVE  Played'
<1> SUFFICES ASSUME NEW p \in Procs
             PROVE  PlayedBy(script[p].acquires, to_acquire[p], holding[p], age[p], Releasing(p))'
  BY DEF Played
<1> DEFINE uses == script[p].acquires
<1>0. /\ uses \in Seq(ResourceSchedule) /\ to_acquire[p] \in Seq(ResourceSchedule)
      /\ holding[p] \in Seq(ResourceSchedule) /\ age[p] \in Nat
      /\ PlayedBy(uses, to_acquire[p], holding[p], age[p], Releasing(p))
  BY ScriptType DEF TypeOK, Played
<1>1. CASE ForkOnSchedule \/ ForkDone \/ Schedule \/ Retire \/ Dispatch \/ Ended \/ UNCHANGED vars
  <2>1. UNCHANGED <<script, to_acquire, holding, age>>
    BY <1>1 DEF ForkOnSchedule, ForkDone, Schedule, Retire, Dispatch, Ended, vars
  <2>2. Releasing(p)' <=> Releasing(p)
    <3>1. CASE ForkOnSchedule \/ ForkDone \/ Schedule \/ Retire \/ Dispatch
      BY <3>1 DEF ForkOnSchedule, ForkDone, Schedule, Retire, Dispatch, Releasing
    <3>2. CASE Ended \/ UNCHANGED vars
      BY <3>2 DEF Ended, vars, Releasing
    <3> QED BY <1>1, <3>1, <3>2
  <2> QED BY <2>1, <2>2, PlayedSame
<1>2. CASE Acquire
  <2>1. PICK i \in DOMAIN to_acquire[current] :
          LET rs == to_acquire[current][i] IN
          /\ FirstDue(current, i)
          /\ \/ /\ to_acquire' = [to_acquire EXCEPT ![current] = RemoveAt(@, i)]
                /\ holding' = [holding EXCEPT ![current] = Append(@, rs)]
                /\ pc' = pc
             \/ /\ UNCHANGED <<to_acquire, holding>>
                /\ pc' = "fork"
    BY <1>2, AcquireStep
  <2>2. /\ pc = "acquire" /\ current \in Procs
        /\ UNCHANGED <<script, current, age>>
    BY <1>2, AcquireStep DEF Acquire
  <2>3. CASE UNCHANGED <<to_acquire, holding>> /\ pc' = "fork"
    BY <2>2, <2>3, PlayedSame DEF Releasing
  <2>4. CASE /\ to_acquire' = [to_acquire EXCEPT ![current] = RemoveAt(@, i)]
             /\ holding' = [holding EXCEPT ![current] = Append(@, to_acquire[current][i])]
             /\ pc' = pc
    <3>1. ~Releasing(p) /\ ~Releasing(p)'
      BY <2>2, <2>4 DEF Releasing
    <3>2. PlayedBy(uses, to_acquire[p], holding[p], age[p], FALSE)
      BY <1>0, <3>1 DEF PlayedBy
    <3>3. PlayedBy(uses, to_acquire'[p], holding'[p], age[p], FALSE)
      <4>1. CASE p # current
        <5>1. to_acquire'[p] = to_acquire[p] /\ holding'[p] = holding[p]
          BY <2>2, <2>4, <4>1 DEF TypeOK
        <5> QED BY <3>2, <5>1
      <4>2. CASE p = current
        <5>1. /\ to_acquire'[p] = RemoveAt(to_acquire[p], i)
              /\ holding'[p] = Append(holding[p], to_acquire[p][i])
          BY <2>2, <2>4, <4>2 DEF TypeOK
        <5>2. i \in DOMAIN to_acquire[p] /\ to_acquire[p][i].at = age[p]
          BY <2>1, <4>2 DEF FirstDue
        <5>3. to_acquire[p][i].duration < UINT_MOD
          <6>1. to_acquire[p][i] \in ToSet(uses)
            BY <3>2, <5>2 DEF PlayedBy, ToSet
          <6> QED BY <6>1 DEF Fitting, TypeOK, ToSet
        <5> HIDE DEF uses
        <5> QED BY <1>0, <3>2, <5>1, <5>2, <5>3, PlayTake
      <4> QED BY <4>1, <4>2
    <3> QED BY <2>2, <3>1, <3>3 DEF PlayedBy
  <2> QED BY <2>1, <2>3, <2>4
<1>3. CASE Run
  <2>1. /\ pc = "acquire" /\ current \in Procs /\ NothingDue(current)
        /\ pc' = "release"
        /\ age' = [age EXCEPT ![current] = age[current] + 1]
        /\ holding' = [holding EXCEPT ![current] =
                         [k \in DOMAIN holding[current] |-> Charge(holding[current][k])]]
        /\ UNCHANGED <<script, current, to_acquire>>
    BY <1>3 DEF Run, AtWork, TypeOK
  <2>2. PlayedBy(uses, to_acquire[p], holding[p], age[p], FALSE)
    BY <1>0, <2>1 DEF PlayedBy, Releasing
  <2>3. CASE p # current
    <3>1. age'[p] = age[p] /\ holding'[p] = holding[p] /\ ~Releasing(p)'
      BY <2>1, <2>3 DEF TypeOK, Releasing
    <3> QED BY <2>1, <2>2, <3>1 DEF PlayedBy
  <2>4. CASE p = current
    <3>1. /\ age'[p] = age[p] + 1 /\ Releasing(p)'
          /\ holding'[p] = [k \in DOMAIN holding[p] |-> Charge(holding[p][k])]
      BY <2>1, <2>4 DEF TypeOK, Releasing
    <3>2. \A k \in DOMAIN to_acquire[p] : to_acquire[p][k].at # age[p]
      BY <2>1, <2>4 DEF NothingDue
    <3> HIDE DEF uses
    <3>3. PlayedBy(uses, to_acquire[p], [k \in DOMAIN holding[p] |-> Charge(holding[p][k])],
                   age[p] + 1, TRUE)
      BY <1>0, <2>2, <3>2, PlayRun
    <3>4. PlayedBy(uses, to_acquire[p], holding'[p], age'[p], TRUE)
      BY <3>1, <3>3
    <3> QED BY <2>1, <3>1, <3>4 DEF PlayedBy, uses
  <2> QED BY <2>3, <2>4
<1>4. CASE Release
  <2>1. PICK i \in DOMAIN holding[current] :
          /\ FirstUsedUp(current, i)
          /\ holding' = [holding EXCEPT ![current] = RemoveAt(@, i)]
    BY <1>4 DEF Release
  <2>2. /\ pc = "release" /\ pc' = pc /\ current \in Procs
        /\ UNCHANGED <<script, current, age, to_acquire>>
    BY <1>4, ReleaseStep DEF Release
  <2>3. CASE p # current
    <3>1. holding'[p] = holding[p] /\ ~Releasing(p) /\ ~Releasing(p)'
      BY <2>1, <2>2, <2>3 DEF TypeOK, Releasing
    <3> QED BY <1>0, <2>2, <3>1 DEF PlayedBy
  <2>4. CASE p = current
    <3>1. /\ holding'[p] = RemoveAt(holding[p], i) /\ Releasing(p) /\ Releasing(p)'
          /\ i \in DOMAIN holding[p] /\ holding[p][i].duration = 0
      BY <2>1, <2>2, <2>4 DEF TypeOK, Releasing, FirstUsedUp
    <3>2. PlayedBy(uses, to_acquire[p], holding[p], age[p], TRUE)
      BY <1>0, <3>1 DEF PlayedBy
    <3> HIDE DEF uses
    <3>3. PlayedBy(uses, to_acquire[p], holding'[p], age[p], TRUE)
      BY <1>0, <3>1, <3>2, PlayRelease
    <3> QED BY <2>2, <3>1, <3>3 DEF PlayedBy, uses
  <2> QED BY <2>3, <2>4
<1>5. CASE Tick
  <2>1. /\ pc = "release" /\ pc' = "fork"
        /\ \A i \in DOMAIN holding[current] : holding[current][i].duration # 0
        /\ UNCHANGED <<script, current, age, to_acquire, holding>>
    BY <1>5 DEF Tick
  <2>2. CASE p # current
    <3>1. ~Releasing(p) /\ ~Releasing(p)'
      BY <2>1, <2>2 DEF Releasing
    <3> QED BY <2>1, <3>1, PlayedSame
  <2>3. CASE p = current
    <3>1. Releasing(p) /\ ~Releasing(p)'
      BY <2>1, <2>3 DEF Releasing
    <3>2. PlayedBy(uses, to_acquire[p], holding[p], age[p], TRUE)
      BY <1>0, <3>1 DEF PlayedBy
    <3> HIDE DEF uses
    <3>3. PlayedBy(uses, to_acquire[p], holding[p], age[p], FALSE)
      BY <1>0, <2>1, <2>3, <3>2, PlayTick
    <3> QED BY <2>1, <3>1, <3>3 DEF PlayedBy, uses
  <2> QED BY <2>2, <2>3
<1> QED BY <1>1, <1>2, <1>3, <1>4, <1>5 DEF Next

(* What a list of uses contains. *)
LEMMA UsesType ==
  ASSUME NEW uses \in Seq(ResourceSchedule)
  PROVE  \A u \in ToSet(uses) :
           u \in ResourceSchedule /\ u.at \in Nat /\ u.duration \in Nat
<1> SUFFICES ASSUME NEW i \in DOMAIN uses
             PROVE  /\ uses[i] \in ResourceSchedule
                    /\ uses[i].at \in Nat /\ uses[i].duration \in Nat
  BY DEF ToSet
<1>1. uses[i] \in ResourceSchedule
  BY ElementOfSeq, LenProperties
<1> QED BY <1>1 DEF ResourceSchedule

LEMMA PlayedInit == Init => Played
<1> SUFFICES ASSUME Init, NEW p \in Procs
             PROVE  PlayedBy(script[p].acquires, to_acquire[p], holding[p], age[p], Releasing(p))
  BY DEF Played
<1>1. script[p].acquires \in Seq(ResourceSchedule)
  <2>1. TypeOK
    BY InitType
  <2> QED BY <2>1, ScriptType
<1>2. \A u \in ToSet(script[p].acquires) : u.at >= 0
  BY <1>1, UsesType
<1>3. PlayedBy(script[p].acquires, script[p].acquires, <<>>, 0, FALSE)
  BY <1>2, PlayBegins
<1>4. ~Releasing(p)
  BY DEF Init, Releasing
<1> QED BY <1>3, <1>4 DEF Init, PlayedBy

LEMMA PlayedAlways ==
  ASSUME Fitting
  PROVE  Spec => []Played
<1>1. Init => TypeOK /\ AtWork /\ Played
  BY InitType, PlayedInit
<1>2. TypeOK /\ AtWork /\ Played /\ [Next]_vars => (TypeOK /\ AtWork /\ Played)'
  BY TypeStep, AtWorkStep, PlayedStep
<1> QED BY <1>1, <1>2, PTL DEF Spec

-----------------------------------------------------------------------------
(* How long a process lives.                                               *)

(* A process that has been forked was due. *)
Created == \A p \in Procs : ~InQueue(p, forkqueue) => script[p].start <= ticks

(* A process that can still run, now or when it is woken, ...              *)
Alive(p) ==
  \/ InQueue(p, forkqueue) \/ InQueue(p, readyqueue) \/ status[p] = "BLOCKED"
  \/ p = current /\ pc \in {"retire", "dispatch", "acquire"}

(* ... has ticks of its lifespan left; with a lifespan of 0, it has not    *)
(* run.                                                                    *)
Lives ==
  Intact =>
  \A p \in Procs : lifespan(p) > 0 =>
    age[p] <= lifespan(p) /\ (Alive(p) => Unfinished(p))
InTime == Intact => \A p \in Procs : Alive(p) => age[p] <= lifespan(p)

(* One that ran has aged. *)
Worked ==
  /\ pc = "release" => age[current] > 0
  /\ pc \in {"fork", "schedule"} /\ current # NULL =>
       (status[current] = "RUNNING" => age[current] > 0)
  /\ pc = "retire" /\ prev # NULL => (status[prev] = "RUNNING" => age[prev] > 0)

LEMMA CreatedStep ==
  ASSUME TypeOK, Created, [Next]_vars
  PROVE  Created'
<1>1. CASE ForkOnSchedule
  <2>1. PICK i \in DOMAIN forkqueue :
          Due(forkqueue[i]) /\ forkqueue' = RemoveAt(forkqueue, i)
    BY <1>1 DEF ForkOnSchedule
  <2>2. ASSUME NEW p \in Procs, InQueue(p, forkqueue)
        PROVE  p = forkqueue[i] \/ InQueue(p, forkqueue')
    <3>1. p \in ToSet(forkqueue) /\ (p \in ToSet(forkqueue') => InQueue(p, forkqueue'))
      BY <2>2 DEF ToSet, InQueue
    <3> QED BY <2>1, <3>1, SetRemoveAt DEF TypeOK
  <2>3. ticks' = ticks /\ script' = script
    BY <1>1 DEF ForkOnSchedule
  <2>4. ASSUME NEW p \in Procs, ~InQueue(p, forkqueue')
        PROVE  script[p].start <= ticks
    <3>1. p = forkqueue[i] \/ ~InQueue(p, forkqueue)
      BY <2>2, <2>4
    <3> QED BY <2>1, <3>1 DEF Created, Due
  <2> QED BY <2>3, <2>4 DEF Created
<1>2. CASE ticks' = ticks /\ UNCHANGED <<script, forkqueue>>
  BY <1>2 DEF Created
<1>3. CASE ticks' = ticks + 1 /\ UNCHANGED <<script, forkqueue>>
  <2>1. \A p \in Procs : script[p].start \in Nat
    BY ScriptType DEF ProcessDesc
  <2> QED BY <1>3, <2>1, SMTT(40) DEF Created, TypeOK
<1> QED BY <1>1, <1>2, <1>3 DEF Next, ForkDone, Schedule, Retire, Dispatch, Acquire, Run,
                                Release, Tick, Ended, vars

(* Where schedule() takes processes from and puts them, unless it relinks  *)
(* a current that waits.                                                   *)
LEMMA ScheduleMoves ==
  ASSUME TypeOK, ShortLives, InPlace, PlaceParts, Schedule
  PROVE  /\ pc = "schedule"
         /\ \/ /\ sched \in Relinking /\ pc' = "corrupt"
               /\ current \in Procs /\ status[current] = "BLOCKED"
               /\ LinkedTwice(current, readyqueue')
            \/ /\ pc' = "retire"
               /\ \A p \in Procs :
                    /\ InQueue(p, readyqueue') =>
                         InQueue(p, readyqueue) \/ (p = current /\ CanStay)
                    /\ p = current' => InQueue(p, readyqueue) \/ (p = current /\ CanStay)
<1>0. pc = "schedule" /\ Intact /\ Apart /\ StatusSays
  BY DEF Schedule, Intact, PlaceParts
<1>1. /\ schedule
      /\ pc' = IF \E p \in Procs : LinkedTwice(p, readyqueue') THEN "corrupt" ELSE "retire"
      /\ UNCHANGED <<waitqueue, status>>
  BY DEF Schedule
<1>2. readyqueue \in Seq(Procs) /\ current \in Procs \union {NULL}
  BY DEF TypeOK
<1>3. ASSUME NEW i \in DOMAIN readyqueue
      PROVE  /\ readyqueue[i] \in Procs /\ InQueue(readyqueue[i], readyqueue)
             /\ RemoveAt(readyqueue, i) \in Seq(Procs)
             /\ \A p \in Procs : InQueue(p, RemoveAt(readyqueue, i)) => InQueue(p, readyqueue)
  <2>1. readyqueue[i] \in Procs /\ RemoveAt(readyqueue, i) \in Seq(Procs)
    BY <1>2, <1>3, ElementOfSeq, LenProperties, RemoveAtSeq
  <2>2. InQueue(readyqueue[i], readyqueue)
    BY DEF InQueue
  <2> QED BY <1>2, <2>1, <2>2, InRemoveAt
<1> DEFINE Moves ==
      \A p \in Procs :
        /\ InQueue(p, readyqueue') => InQueue(p, readyqueue) \/ (p = current /\ CanStay)
        /\ p = current' => InQueue(p, readyqueue) \/ (p = current /\ CanStay)
<1>4. ASSUME CanStay, Stay PROVE Moves
  BY <1>4 DEF Stay
<1>5. ASSUME PickNobody PROVE Moves
  BY <1>5 DEF PickNobody, Procs, NULL
<1>6. ASSUME NEW i \in DOMAIN readyqueue, Switch(i, CurrentIfRunnable)
      PROVE  Moves
  <2>1. CASE CanStay
    <3>1. readyqueue' = Append(RemoveAt(readyqueue, i), current) /\ current \in Procs
      BY <1>2, <1>3, <1>6, <2>1, CurrentIf, QueueConcat DEF Switch, CanStay, OnCpu
    <3> QED BY <1>3, <1>6, <2>1, <3>1, InAppend DEF Switch
  <2>2. CASE ~CanStay
    <3>1. readyqueue' = RemoveAt(readyqueue, i)
      BY <1>3, <1>6, <2>2, CurrentIf, QueueConcat DEF Switch
    <3> QED BY <1>3, <1>6, <3>1 DEF Switch
  <2> QED BY <2>1, <2>2
<1>7. ASSUME NEW i \in DOMAIN readyqueue, current # NULL, status[current] = "BLOCKED",
             Switch(i, <<current>>), sched \in Relinking
      PROVE  /\ pc' = "corrupt" /\ current \in Procs
             /\ LinkedTwice(current, readyqueue')
  <2>1. readyqueue' = Append(RemoveAt(readyqueue, i), current) /\ current \in Procs
    BY <1>2, <1>3, <1>7, QueueConcat DEF Switch
  <2>2. InQueue(current, readyqueue')
    BY <1>3, <2>1, InAppend
  <2>3. \E r \in Resources : InQueue(current, waitqueue[r])
    BY <1>0, <1>7, <2>1 DEF StatusSays
  <2> QED BY <1>1, <2>1, <2>2, <2>3 DEF LinkedTwice
<1>8. ASSUME Moves PROVE pc' = "retire"
  <2>1. ASSUME NEW p \in Procs, LinkedTwice(p, readyqueue') PROVE FALSE
    <3>1. InQueue(p, readyqueue) \/ (p = current /\ CanStay)
      BY <1>8, <2>1 DEF LinkedTwice
    <3>2. ~InQueue(p, readyqueue) /\ status[p] = "BLOCKED"
      BY <1>0, <2>1 DEF LinkedTwice, Apart
    <3> QED BY <3>1, <3>2 DEF CanStay, OnCpu
  <2> QED BY <1>1, <2>1
<1>9. \/ Moves
      \/ /\ current # NULL /\ status[current] = "BLOCKED" /\ sched \in Relinking
         /\ \E i \in DOMAIN readyqueue : Switch(i, <<current>>)
  <2> HIDE DEF Moves
  <2> QED BY <1>1, <1>4, <1>5, <1>6, ScheduleOutcome
<1>10. CASE Moves
  BY <1>0, <1>8, <1>10
<1>11. CASE /\ current # NULL /\ status[current] = "BLOCKED" /\ sched \in Relinking
            /\ \E i \in DOMAIN readyqueue : Switch(i, <<current>>)
  <2> HIDE DEF Moves
  <2> QED BY <1>0, <1>7, <1>11
<1> QED BY <1>9, <1>10, <1>11

(* The model stops following the program only when rr or stcf has put a    *)
(* process into the ready queue that waits for a resource, which was on    *)
(* the CPU at the tick before.                                             *)
Relinked ==
  /\ sched \in Relinking /\ prev \in Procs /\ status[prev] = "BLOCKED"
  /\ LinkedTwice(prev, readyqueue)

LEMMA RelinkedStep ==
  ASSUME TypeOK, ShortLives, InPlace, PlaceParts, [Next]_vars, pc = "corrupt" => Relinked
  PROVE  pc' = "corrupt" => Relinked'
<1> SUFFICES ASSUME pc' = "corrupt" PROVE Relinked'
  OBVIOUS
<1>1. CASE Schedule
  <2>1. /\ sched \in Relinking /\ current \in Procs /\ status[current] = "BLOCKED"
        /\ LinkedTwice(current, readyqueue')
    BY <1>1, ScheduleMoves
  <2>2. prev' = current /\ UNCHANGED <<sched, status, waitqueue>>
    BY <1>1 DEF Schedule
  <2> QED BY <2>1, <2>2 DEF Relinked, LinkedTwice
<1>2. CASE Ended \/ UNCHANGED vars
  BY <1>2 DEF Ended, vars, Relinked, LinkedTwice
<1>3. CASE Release
  BY <1>3 DEF Release
<1> QED BY <1>1, <1>2, <1>3 DEF Next, ForkOnSchedule, ForkDone, Retire, Dispatch, Acquire, Run,
                                Tick

LEMMA RelinkedAlways ==
  ASSUME ShortLives
  PROVE  Spec => [](pc = "corrupt" => Relinked)
<1>1. Init => (pc = "corrupt" => Relinked)
  BY DEF Init
<1>2. PlaceInv /\ (pc = "corrupt" => Relinked) /\ [Next]_vars => (pc = "corrupt" => Relinked)'
  BY RelinkedStep DEF PlaceInv
<1> QED BY <1>1, <1>2, PlaceAlways, PTL DEF Spec

(* Nobody comes to life again, and Run alone makes a process older. *)
LEMMA AliveStep ==
  ASSUME TypeOK, AtWork, ShortLives, InPlace, PlaceParts, [Next]_vars, Intact, Intact',
         NEW p \in Procs
  PROVE  \/ age'[p] = age[p] /\ (Alive(p)' => Alive(p) \/ Unfinished(p))
         \/ age'[p] = age[p] + 1 /\ Alive(p) /\ ~Alive(p)'
<1>1. ASSUME age' = age, Alive(p)' => Alive(p) \/ Unfinished(p)
      PROVE  age'[p] = age[p] /\ (Alive(p)' => Alive(p) \/ Unfinished(p))
  BY <1>1
<1> USE DEF Alive
<1>3. /\ forkqueue \in Seq(Procs) /\ readyqueue \in Seq(Procs)
      /\ \A r \in Resources : waitqueue[r] \in Seq(Procs)
      /\ status \in [Procs -> Statuses]
  BY DEF TypeOK
<1>4. CASE ForkOnSchedule
  <2>1. PICK i \in DOMAIN forkqueue :
          /\ forkqueue' = RemoveAt(forkqueue, i)
          /\ readyqueue' = Append(readyqueue, forkqueue[i])
          /\ status' = [status EXCEPT ![forkqueue[i]] = "READY"]
    BY <1>4 DEF ForkOnSchedule
  <2>2. forkqueue[i] \in Procs /\ InQueue(forkqueue[i], forkqueue)
    BY ListType DEF InQueue
  <2>3. /\ InQueue(p, forkqueue') => InQueue(p, forkqueue)
        /\ InQueue(p, readyqueue') => InQueue(p, readyqueue) \/ InQueue(p, forkqueue)
        /\ status'[p] = "BLOCKED" => status[p] = "BLOCKED"
    BY <1>3, <2>1, <2>2, InRemoveAt, InAppend
  <2>4. pc' = "fork"
    BY <1>4 DEF ForkOnSchedule
  <2> QED BY <1>1, <1>4, <2>3, <2>4 DEF ForkOnSchedule
<1>5. CASE ForkDone \/ Tick
  <2>1. /\ UNCHANGED <<forkqueue, readyqueue, status, current, age>>
        /\ pc' \in {"schedule", "fork"}
    BY <1>5 DEF ForkDone, Tick
  <2> QED BY <1>1, <1>5, <2>1
<1>6. CASE Schedule
  <2>1. /\ InQueue(p, readyqueue') => InQueue(p, readyqueue) \/ (p = current /\ CanStay)
        /\ p = current' => InQueue(p, readyqueue) \/ (p = current /\ CanStay)
    BY <1>6, ScheduleMoves DEF Intact
  <2>2. p = current /\ CanStay => Unfinished(p)
    BY DEF CanStay
  <2> QED BY <1>1, <1>6, <2>1, <2>2 DEF Schedule
<1>7. CASE Retire \/ Dispatch
  <2>1. /\ status'[p] = "BLOCKED" => status[p] = "BLOCKED"
        /\ UNCHANGED <<forkqueue, readyqueue, current, age>>
        /\ pc \in {"retire", "dispatch"}
    BY <1>3, <1>7 DEF Retire, Dispatch
  <2> QED BY <1>1, <1>7, <2>1
<1>8. CASE Acquire
  <2>1. PICK r \in Resources : Take(r) \/ Wait(r)
    BY <1>8, AcquireStep
  <2>2. /\ pc = "acquire" /\ UNCHANGED <<forkqueue, readyqueue, current, age>>
        /\ current \in Procs
    BY <1>8, AcquireStep DEF Acquire
  <2>3. status'[p] = "BLOCKED" => status[p] = "BLOCKED" \/ p = current
    BY <1>3, <2>1, <2>2 DEF Take, Wait
  <2> QED BY <1>1, <1>8, <2>2, <2>3
<1>9. CASE Run
  <2>1. /\ pc = "acquire" /\ pc' = "release" /\ current \in Procs /\ current # NULL
        /\ status[current] = "RUNNING"
        /\ age' = [age EXCEPT ![current] = age[current] + 1]
        /\ UNCHANGED <<forkqueue, readyqueue, current, status>>
    BY <1>9 DEF Run, AtWork, TypeOK
  <2>2. CASE p = current
    <3>1. age'[p] = age[p] + 1 /\ Alive(p)
      BY <2>1, <2>2 DEF TypeOK
    <3>2. ~Alive(p)'
      BY <2>1, <2>2 DEF InPlace, CurrentDetached, Intact
    <3> QED BY <3>1, <3>2
  <2>3. CASE p # current
    <3>1. age'[p] = age[p] /\ (Alive(p)' => Alive(p))
      BY <2>1, <2>3 DEF TypeOK
    <3> QED BY <3>1
  <2> QED BY <2>2, <2>3
<1>10. CASE Release
  <2>1. PICK r \in Resources : WakeNobody(r) \/ \E k \in DOMAIN waitqueue[r] : Wake(r, k)
    BY <1>10, ReleaseStep
  <2>2. UNCHANGED <<pc, forkqueue, current, age>>
    BY <1>10 DEF Release
  <2>3. CASE WakeNobody(r)
    BY <1>1, <1>10, <2>2, <2>3 DEF WakeNobody
  <2>4. ASSUME NEW k \in DOMAIN waitqueue[r], Wake(r, k)
        PROVE  age'[p] = age[p] /\ (Alive(p)' => Alive(p) \/ Unfinished(p))
    <3>1. waitqueue[r][k] \in Procs /\ status[waitqueue[r][k]] = "BLOCKED"
      BY <2>4, ListType DEF Wake
    <3>2. /\ InQueue(p, readyqueue') => InQueue(p, readyqueue) \/ status[p] = "BLOCKED"
          /\ status'[p] = "BLOCKED" => status[p] = "BLOCKED"
      BY <1>3, <2>4, <3>1, InAppend DEF Wake
    <3> QED BY <1>1, <1>10, <2>2, <3>2
  <2> QED BY <2>1, <2>3, <2>4
<1>11. CASE Ended \/ UNCHANGED vars
  BY <1>1, <1>11 DEF Ended, vars
<1> QED BY <1>4, <1>5, <1>6, <1>7, <1>8, <1>9, <1>10, <1>11 DEF Next

LEMMA LivesStep ==
  ASSUME TypeOK, AtWork, ShortLives, InPlace, PlaceParts, Lives, InTime, [Next]_vars
  PROVE  Lives' /\ InTime'
<1> SUFFICES ASSUME Intact', NEW p \in Procs
             PROVE  /\ lifespan(p)' > 0 =>
                         age'[p] <= lifespan(p)' /\ (Alive(p)' => Unfinished(p)')
                    /\ Alive(p)' => age'[p] <= lifespan(p)'
  BY DEF Lives, InTime
<1>1. script' = script /\ lifespan(p)' = lifespan(p)
  BY DEF Next, ForkOnSchedule, ForkDone, Schedule, Retire, Dispatch, Acquire, Run, Release,
         Tick, Ended, vars, lifespan
<1>2. CASE Intact
  <2>1. \/ age'[p] = age[p] /\ (Alive(p)' => Alive(p) \/ Unfinished(p))
        \/ age'[p] = age[p] + 1 /\ Alive(p) /\ ~Alive(p)'
    BY <1>2, AliveStep
  <2>2. age[p] \in Nat /\ lifespan(p) \in Nat
    BY ScriptType DEF TypeOK
  <2>3. /\ lifespan(p) > 0 => age[p] <= lifespan(p) /\ (Alive(p) => Unfinished(p))
        /\ Alive(p) => age[p] <= lifespan(p)
    BY <1>2 DEF Lives, InTime
  <2> HIDE DEF Alive
  <2> QED BY <1>1, <2>1, <2>2, <2>3 DEF Unfinished
<1>3. CASE ~Intact
  BY <1>3 DEF Next, ForkOnSchedule, ForkDone, Schedule, Retire, Dispatch, Acquire, Run,
              Release, Tick, Ended, vars, Intact
<1> QED BY <1>2, <1>3

LEMMA WorkedStep ==
  ASSUME TypeOK, AtWork, Worked, [Next]_vars
  PROVE  Worked'
<1>0. /\ age \in [Procs -> Nat] /\ status \in [Procs -> Statuses]
      /\ current \in Procs \union {NULL}
  BY DEF TypeOK
<1>1. CASE ForkOnSchedule
  <2>1. PICK p : status' = [status EXCEPT ![p] = "READY"]
    BY <1>1 DEF ForkOnSchedule
  <2> QED BY <1>0, <1>1, <2>1 DEF Worked, ForkOnSchedule
<1>2. CASE ForkDone \/ Schedule \/ Retire \/ Dispatch
  BY <1>2 DEF ForkDone, Schedule, Retire, Dispatch, Worked
<1>3. CASE Acquire
  <2>1. \/ pc' = "acquire"
        \/ pc' = "fork" /\ \E r \in Resources : Wait(r)
    BY <1>3, AcquireStep DEF Acquire
  <2>2. current' = current /\ current \in Procs
    BY <1>3, AcquireStep DEF Acquire
  <2> QED BY <1>0, <2>1, <2>2 DEF Wait, Worked
<1>4. CASE Run
  <2>1. /\ pc' = "release" /\ current' = current /\ current \in Procs
        /\ age' = [age EXCEPT ![current] = age[current] + 1]
    BY <1>0, <1>4 DEF Run, AtWork
  <2>2. age'[current] > 0
    BY <1>0, <2>1
  <2> QED BY <2>1, <2>2 DEF Worked
<1>5. CASE Release
  BY <1>5 DEF Release, Worked
<1>6. CASE Tick
  BY <1>6 DEF Tick, Worked
<1>7. CASE Ended \/ UNCHANGED vars
  BY <1>7 DEF Ended, vars, Worked
<1> QED BY <1>1, <1>2, <1>3, <1>4, <1>5, <1>6, <1>7 DEF Next

(* The inductive invariant about scripts, besides PlaceInv. *)
LifeInv == Created /\ Lives /\ InTime /\ Worked

LEMMA LifeAlways ==
  ASSUME ShortLives
  PROVE  Spec => []LifeInv
<1>1. Init => LifeInv
  <2> SUFFICES ASSUME Init PROVE LifeInv
    OBVIOUS
  <2>1. \A p \in Procs : InQueue(p, forkqueue)
    BY DEF Init, InQueue
  <2>2. Created /\ Worked
    BY <2>1 DEF Init, Created, Worked
  <2>3. Lives /\ InTime
    <3>1. TypeOK
      BY InitType
    <3>2. \A p \in Procs : lifespan(p) \in Nat /\ age[p] = 0
      BY <3>1, ScriptType DEF Init
    <3> QED BY <3>2 DEF Lives, InTime, Unfinished
  <2> QED BY <2>2, <2>3 DEF LifeInv
<1>2. PlaceInv /\ LifeInv /\ [Next]_vars => LifeInv'
  BY CreatedStep, LivesStep, WorkedStep DEF PlaceInv, LifeInv
<1> QED BY <1>1, <1>2, PlaceAlways, PTL DEF Spec

LEMMA OwnerAlways == Spec => [](OwnerHolds /\ WaitersRequest)
<1>1. Init => TypeOK /\ AtWork /\ WaitersRequest
  <2>1. Init => WaitersRequest
    BY DEF Init, WaitersRequest, InQueue
  <2> QED BY <2>1, InitType
<1>2. TypeOK /\ AtWork /\ WaitersRequest /\ [Next]_vars => (TypeOK /\ AtWork /\ WaitersRequest)'
  BY TypeStep, AtWorkStep, WaitersStep
<1> QED BY <1>1, <1>2, OwnershipAgrees, PTL DEF Spec

(* Everything above at once. *)
TaskInv ==
  PlaceInv /\ NobodyElse /\ LifeInv /\ Played /\ OwnerHolds /\ WaitersRequest /\ NoLostWakeup

LEMMA TaskAlways ==
  ASSUME ShortLives, Fitting
  PROVE  Spec => []TaskInv
<1>1. PlaceInv /\ NobodyElse /\ LifeInv /\ Played /\ OwnerHolds /\ WaitersRequest /\ NoLostWakeup
        => TaskInv
  BY DEF TaskInv
<1> QED BY <1>1, PlaceAlways, NobodyAlways, LifeAlways, PlayedAlways, OwnerAlways,
           NoWakeupLost, PTL

-----------------------------------------------------------------------------
(* Exit.                                                                   *)

(* A process that has come to its lifespan trips over no assertion of      *)
(* __exit_process if and only if its script is well formed.                *)
LEMMA ExitChecks ==
  ASSUME Fitting, TaskInv, pc = "retire", prev # NULL, Finished(prev)
  PROVE  CanExit(prev) <=> WellFormed(script[prev])
<1> DEFINE p == prev
           uses == script[p].acquires
<1>0. /\ TypeOK /\ InPlace /\ Once /\ Apart /\ StatusSays /\ Worked /\ Played /\ WaitersRequest
  BY DEF TaskInv, PlaceInv, PlaceParts, Intact, LifeInv
<1>1. /\ p \in Procs /\ age[p] \in Nat /\ lifespan(p) \in Nat /\ age[p] = lifespan(p)
      /\ uses \in Seq(ResourceSchedule)
      /\ to_acquire[p] \in Seq(ResourceSchedule) /\ holding[p] \in Seq(ResourceSchedule)
      /\ lifespan(p) < UINT_MOD /\ UINT_MOD \in Nat
      /\ script[p].lifespan = lifespan(p)
  <2>1. p \in Procs
    BY <1>0 DEF TypeOK
  <2>2. script[p].lifespan < UINT_MOD
    BY <1>0, <2>1 DEF Fitting, TypeOK
  <2>3. script[p].lifespan = lifespan(p) /\ age[p] = lifespan(p)
    BY DEF Finished, lifespan
  <2>4. lifespan(p) \in Nat /\ uses \in Seq(ResourceSchedule)
    BY <1>0, <2>1, ScriptType
  <2>5. /\ age[p] \in Nat /\ to_acquire[p] \in Seq(ResourceSchedule)
        /\ holding[p] \in Seq(ResourceSchedule)
    BY <1>0, <2>1 DEF TypeOK
  <2> QED BY <2>1, <2>2, <2>3, <2>4, <2>5, NumberAssumption
<1>2. PlayedBy(uses, to_acquire[p], holding[p], age[p], FALSE)
  BY <1>0, <1>1 DEF Played, PlayedBy, Releasing
<1>3. \A u \in ToSet(uses) : u.at \in Nat /\ u.duration \in Nat
  BY <1>1, UsesType
<1>4. status[p] \in {"RUNNING", "BLOCKED"}
  BY <1>0 DEF InPlace, PrevRan
<1> HIDE DEF uses, p
<1>5. ASSUME CanExit(p) PROVE WellFormed(script[p])
  <2>1. status[p] = "RUNNING"
    BY <1>0, <1>1, <1>4, <1>5 DEF CanExit, StatusSays
  <2>2. age[p] > 0
    BY <1>0, <2>1 DEF Worked, p
  <2>3. to_acquire[p] = <<>> /\ holding[p] = <<>>
    BY <1>5 DEF CanExit
  <2>4. ASSUME NEW u \in ToSet(uses)
        PROVE  u.duration > 0 /\ u.at + u.duration <= lifespan(p)
    <3>1. u.at + Eff(u) <= lifespan(p)
      BY <1>1, <1>2, <2>3 DEF PlayedBy, ToSet
    <3> QED BY <1>1, <1>3, <3>1 DEF Eff
  <2>5. \A i \in DOMAIN script[p].acquires : script[p].acquires[i] \in ToSet(uses)
    BY DEF ToSet, uses
  <2> QED BY <1>1, <2>2, <2>4, <2>5 DEF WellFormed
<1>6. ASSUME WellFormed(script[p]) PROVE CanExit(p)
  <2>1. \A u \in ToSet(uses) : u.duration > 0 /\ u.at + u.duration <= lifespan(p)
    BY <1>1, <1>6 DEF WellFormed, ToSet, uses
  <2>2. ASSUME NEW i \in DOMAIN to_acquire[p] PROVE FALSE
    <3>1. to_acquire[p][i] \in ToSet(uses) /\ to_acquire[p][i].at >= age[p]
      BY <1>2 DEF PlayedBy, ToSet
    <3> QED BY <1>1, <1>3, <2>1, <3>1
  <2>3. ASSUME NEW i \in DOMAIN holding[p] PROVE FALSE
    <3> DEFINE h == holding[p][i]
    <3>1. h \in ToSet(holding[p]) /\ h \in ResourceSchedule
      BY <1>1, ElementOfSeq, LenProperties DEF ToSet
    <3> HIDE DEF h
    <3>2. PICK u \in ToSet(uses) : Matches(u, h, age[p])
      BY <1>2, <3>1 DEF PlayedBy
    <3>3. Rest(h, age[p]) > 0
      BY <1>2, <3>1 DEF PlayedBy
    <3>4. Rest(h, age[p]) \in Nat
      BY <1>1, <3>1 DEF Rest, ResourceSchedule
    <3>5. u.at + u.duration = age[p] + Rest(h, age[p])
      BY <1>3, <2>1, <3>2 DEF Matches, Eff
    <3> QED BY <1>1, <1>3, <2>1, <3>3, <3>4, <3>5
  <2>4. to_acquire[p] = <<>> /\ holding[p] = <<>>
    <3>1. ASSUME NEW q \in Seq(ResourceSchedule), \A i \in DOMAIN q : FALSE
          PROVE  q = <<>>
      <4>1. Len(q) \in Nat /\ DOMAIN q = 1..Len(q)
        BY LenProperties
      <4>2. Len(q) = 0
        BY <3>1, <4>1
      <4> QED BY <4>2, EmptySeq
    <3> QED BY <1>1, <2>2, <2>3, <3>1
  <2>5. status[p] # "BLOCKED"
    <3> SUFFICES ASSUME status[p] = "BLOCKED" PROVE FALSE
      OBVIOUS
    <3>1. PICK r \in Resources : InQueue(p, waitqueue[r])
      BY <1>0, <1>1 DEF StatusSays
    <3> QED BY <1>0, <1>1, <2>2, <3>1 DEF WaitersRequest, Requests
  <2>6. /\ ~InQueue(p, forkqueue) /\ ~InQueue(p, readyqueue)
        /\ \A r \in Resources : ~InQueue(p, waitqueue[r])
    <3>1. ~Unfinished(p)
      BY <1>1 DEF Unfinished
    <3> QED BY <1>0, <1>1, <1>4, <2>5, <3>1 DEF InPlace, PrevRan, Apart, p
  <2> QED BY <2>4, <2>6 DEF CanExit
<1> QED BY <1>5, <1>6 DEF p

LEMMA ExitStep ==
  ASSUME Fitting, TaskInv, ExitIffWellFormed, [Next]_vars
  PROVE  ExitIffWellFormed'
<1> SUFFICES ASSUME NEW p \in Procs, status'[p] = "EXIT"
             PROVE  WellFormed(script'[p]) <=> ~(pc' = "abort" /\ p = prev')
  BY DEF ExitIffWellFormed
<1>0. /\ TypeOK /\ AtWork /\ status \in [Procs -> Statuses]
      /\ status[p] = "EXIT" => (WellFormed(script[p]) <=> ~(pc = "abort" /\ p = prev))
  BY DEF TaskInv, PlaceInv, TypeOK, ExitIffWellFormed
<1>1. CASE Retire
  <2>1. /\ pc = "retire" /\ UNCHANGED <<script, prev>>
    BY <1>1 DEF Retire
  <2>2. CASE prev # NULL /\ Finished(prev)
    <3>1. /\ status' = [status EXCEPT ![prev] = "EXIT"]
          /\ pc' = IF CanExit(prev) THEN "dispatch" ELSE "abort"
      BY <1>1, <2>2 DEF Retire
    <3>2. CanExit(prev) <=> WellFormed(script[prev])
      BY <2>1, <2>2, ExitChecks
    <3>3. CASE p = prev
      BY <2>1, <3>1, <3>2, <3>3
    <3>4. CASE p # prev
      <4>1. status[p] = "EXIT"
        BY <1>0, <3>1, <3>4
      <4> QED BY <1>0, <2>1, <3>4, <4>1
    <3> QED BY <3>3, <3>4
  <2>3. CASE ~(prev # NULL /\ Finished(prev))
    <3>1. /\ pc' = "dispatch"
          /\ \/ status' = status
             \/ status' = [status EXCEPT ![prev] = IF @ = "RUNNING" THEN "READY" ELSE @]
      BY <1>1, <2>3 DEF Retire
    <3>2. status[p] = "EXIT"
      BY <1>0, <3>1
    <3> QED BY <1>0, <2>1, <3>1, <3>2
  <2> QED BY <2>2, <2>3
<1>2. ASSUME status[p] = "EXIT", script' = script, pc # "abort", pc' # "abort"
      PROVE  WellFormed(script'[p]) <=> ~(pc' = "abort" /\ p = prev')
  BY <1>0, <1>2
<1>3. CASE ForkOnSchedule
  BY <1>0, <1>2, <1>3 DEF ForkOnSchedule
<1>4. CASE ForkDone \/ Tick
  BY <1>2, <1>4 DEF ForkDone, Tick
<1>5. CASE Schedule
  BY <1>2, <1>5 DEF Schedule
<1>6. CASE Dispatch
  BY <1>0, <1>2, <1>6 DEF Dispatch
<1>7. CASE Acquire
  <2>1. PICK r \in Resources : Take(r) \/ Wait(r)
    BY <1>0, <1>7, AcquireStep
  <2>2. status[p] = "EXIT"
    BY <1>0, <2>1 DEF Take, Wait
  <2>3. pc = "acquire" /\ pc' \in {"acquire", "fork"} /\ script' = script
    BY <1>7 DEF Acquire
  <2> QED BY <1>2, <2>2, <2>3
<1>8. CASE Run
  BY <1>2, <1>8 DEF Run
<1>9. CASE Release
  <2>1. PICK r \in Resources : WakeNobody(r) \/ \E k \in DOMAIN waitqueue[r] : Wake(r, k)
    BY <1>0, <1>9, ReleaseStep
  <2>2. status[p] = "EXIT"
    BY <1>0, <2>1 DEF WakeNobody, Wake
  <2> QED BY <1>2, <1>9, <2>2 DEF Release
<1>10. CASE Ended \/ UNCHANGED vars
  BY <1>0, <1>10 DEF Ended, vars
<1> QED BY <1>1, <1>3, <1>4, <1>5, <1>6, <1>7, <1>8, <1>9, <1>10 DEF Next

(* The assertions of __exit_process fire for the malformed scripts and for *)
(* no other, whatever the scheduler and the rest of the simulation do: a   *)
(* process with a well-formed script comes to its last tick with nothing   *)
(* in hand, nothing left to acquire and its list node in no list.          *)
THEOREM ExitsIffWellFormed ==
  ASSUME ShortLives, Fitting
  PROVE  Spec => []ExitIffWellFormed
<1>1. Init => ExitIffWellFormed
  BY DEF Init, ExitIffWellFormed
<1>2. TaskInv /\ ExitIffWellFormed /\ [Next]_vars => ExitIffWellFormed'
  BY ExitStep
<1> QED BY <1>1, <1>2, TaskAlways, PTL DEF Spec

-----------------------------------------------------------------------------
(* Deadlock.                                                               *)

(* What the README of os-pa2 asks of a script. *)
WellFormedScripts == \A s \in Scripts : \A p \in Procs : WellFormed(s[p])

LEMMA Stuck ==
  ASSUME TaskInv, pc = "done", \A p \in Procs : lifespan(p) > 0
  PROVE  \A p \in Procs : status[p] # "EXIT" =>
           \E r \in Resources : /\ InQueue(p, waitqueue[r])
                                /\ owner[r] \in Procs
                                /\ status[owner[r]] = "BLOCKED"
<1>0. /\ TypeOK /\ Apart /\ StatusSays /\ NobodyElse /\ Lives /\ OwnerHolds /\ NoLostWakeup
      /\ Intact /\ current = NULL /\ readyqueue = <<>> /\ forkqueue = <<>>
  BY DEF TaskInv, PlaceInv, PlaceParts, Intact, LifeInv, NobodyElse
<1>1. ASSUME NEW p \in Procs, status[p] \notin {"EXIT", "BLOCKED"}
      PROVE  FALSE
  <2>1. status[p] \in {"READY", "RUNNING"}
    BY <1>0, <1>1 DEF TypeOK, Statuses
  <2>2. status[p] # "RUNNING"
    BY <1>0 DEF StatusSays, Procs, NULL
  <2>3. age[p] > lifespan(p)
    BY <1>0, <2>1, <2>2, QueueEmpty DEF StatusSays, Procs, NULL
  <2>4. age[p] <= lifespan(p) /\ age[p] \in Nat /\ lifespan(p) \in Nat
    BY <1>0, ScriptType DEF Lives, Alive, TypeOK
  <2> QED BY <2>3, <2>4
<1> SUFFICES ASSUME NEW p \in Procs, status[p] # "EXIT"
             PROVE  \E r \in Resources : /\ InQueue(p, waitqueue[r])
                                         /\ owner[r] \in Procs
                                         /\ status[owner[r]] = "BLOCKED"
  OBVIOUS
<1>2. PICK r \in Resources : InQueue(p, waitqueue[r])
  BY <1>0, <1>1 DEF StatusSays
<1>3. owner[r] # NULL
  <2>1. waitqueue[r] # <<>>
    BY <1>2, QueueEmpty
  <2> QED BY <1>0, <1>1, <2>1 DEF NoLostWakeup
<1>4. owner[r] \in Procs /\ status[owner[r]] # "EXIT"
  BY <1>0, <1>3 DEF TypeOK, OwnerHolds
<1> QED BY <1>1, <1>2, <1>4

(* Whoever has not exited when the simulation quits is part of a deadlock: *)
(* it waits for a resource whose owner waits as well.                      *)
THEOREM StuckInDeadlock ==
  ASSUME ShortLives, Fitting, WellFormedScripts
  PROVE  Spec => []StuckOnlyByDeadlock
<1>1. TaskInv => StuckOnlyByDeadlock
  <2> SUFFICES ASSUME TaskInv, pc = "done"
               PROVE  \A p \in Procs : status[p] # "EXIT" =>
                        \E r \in Resources : /\ InQueue(p, waitqueue[r])
                                             /\ owner[r] # NULL
                                             /\ status[owner[r]] = "BLOCKED"
    BY DEF StuckOnlyByDeadlock
  <2>1. \A p \in Procs : lifespan(p) > 0
    BY DEF TaskInv, PlaceInv, TypeOK, WellFormedScripts, WellFormed, lifespan
  <2>2. \A q \in Procs : q # NULL
    BY DEF Procs, NULL
  <2> QED BY <2>1, <2>2, Stuck
<1> QED BY <1>1, TaskAlways, PTL

-----------------------------------------------------------------------------
(* The simulator implements TaskSystem.                                    *)

LEMMA WellUsed ==
  ASSUME NEW d, WellFormed(d), d.acquires \in Seq(ResourceSchedule),
         NEW u \in ToSet(d.acquires)
  PROVE  /\ u.at \in Nat /\ u.duration \in Nat /\ u.duration > 0
         /\ u.at + u.duration <= d.lifespan
<1>1. PICK i \in DOMAIN d.acquires : u = d.acquires[i]
  BY DEF ToSet
<1>2. u \in ResourceSchedule
  BY <1>1, ElementOfSeq, LenProperties
<1> QED BY <1>1, <1>2 DEF WellFormed, ResourceSchedule

LEMMA TaskBegins == Init => Tasks!Init
BY DEF Init, Tasks!Init

(* What p holds is what its script gives it for this tick, until it is     *)
(* given back.                                                             *)
LEMMA HeldIsNeeded ==
  ASSUME TaskInv, WellFormedScripts, NEW p \in Procs, NEW r \in Resources, owner[r] = p,
         pc # "release" \/ p # current
           \/ \A i \in DOMAIN holding[p] : holding[p][i].duration # 0
  PROVE  Tasks!Needs(p, r, age[p])
<1> DEFINE uses == script[p].acquires
<1>0. /\ TypeOK /\ OwnerHolds
      /\ PlayedBy(uses, to_acquire[p], holding[p], age[p], Releasing(p))
  BY DEF TaskInv, PlaceInv, Played
<1>1. PICK k \in DOMAIN holding[p] : holding[p][k].res = r
  BY <1>0 DEF OwnerHolds, Holds
<1> DEFINE h == holding[p][k]
<1>2. h \in ToSet(holding[p]) /\ h \in ResourceSchedule /\ h.res = r /\ age[p] \in Nat
  BY <1>0, <1>1, ElementOfSeq, LenProperties DEF ToSet, TypeOK
<1>3. pc # "release" \/ p # current \/ h.duration # 0
  BY <1>1
<1> HIDE DEF h, uses
<1>4. PICK u \in ToSet(uses) : Matches(u, h, age[p])
  BY <1>0, <1>2 DEF PlayedBy
<1>5. h.at <= age[p] /\ Rest(h, age[p]) > 0 /\ Rest(h, age[p]) \in Nat
  BY <1>0, <1>2, <1>3, NumberAssumption DEF PlayedBy, Rest, Releasing, ResourceSchedule
<1>6. u.at \in Nat /\ u.duration \in Nat /\ u.duration > 0 /\ u \in Tasks!Uses(p)
  <2>1. uses \in Seq(ResourceSchedule)
    BY <1>0, ScriptType DEF uses
  <2>2. u \in ResourceSchedule
    BY <2>1, <1>4, ElementOfSeq, LenProperties DEF ToSet
  <2>3. WellFormed(script[p])
    BY <1>0 DEF WellFormedScripts, TypeOK
  <2>4. \E i \in DOMAIN script[p].acquires : u = script[p].acquires[i]
    BY <1>4 DEF ToSet, uses
  <2> QED BY <2>2, <2>3, <2>4 DEF WellFormed, ResourceSchedule, Tasks!Uses
<1>7. u.res = r /\ u.at <= age[p] /\ age[p] < u.at + u.duration
  BY <1>2, <1>4, <1>5, <1>6 DEF Matches, Eff
<1> QED BY <1>6, <1>7 DEF Tasks!Needs

LEMMA TaskStep ==
  ASSUME ShortLives, Fitting, WellFormedScripts, TaskInv, [Next]_vars
  PROVE  [Tasks!Next]_Tasks!tvars
<1> DEFINE cpu == IF pc = "release" THEN "used" ELSE "free"
           exited == { p \in Procs : status[p] = "EXIT" }
<1>0. /\ TypeOK /\ AtWork /\ status \in [Procs -> Statuses]
      /\ \A p \in Procs : WellFormed(script[p])
      /\ OwnerHolds /\ Created
  BY DEF TaskInv, PlaceInv, LifeInv, TypeOK, WellFormedScripts
<1>1. ASSUME UNCHANGED <<script, ticks, age, owner>>, cpu' = cpu,
             \A p \in Procs : status'[p] = "EXIT" <=> status[p] = "EXIT"
      PROVE  UNCHANGED Tasks!tvars
  BY <1>1 DEF Tasks!tvars
(* A tick that ends, or passes without progress. *)
<1>2. ASSUME UNCHANGED <<script, age, owner>>, ticks' = ticks + 1, pc' # "release",
             \A p \in Procs : status'[p] = "EXIT" <=> status[p] = "EXIT",
             \A r \in Resources : owner[r] # NULL => Tasks!Needs(owner[r], r, age[owner[r]])
      PROVE  Tasks!Next
  <2>1. Tasks!Clock
    BY <1>2 DEF Tasks!Clock
  <2> QED BY <2>1 DEF Tasks!Next
<1>3. ASSUME pc # "release"
      PROVE  \A r \in Resources : owner[r] # NULL => Tasks!Needs(owner[r], r, age[owner[r]])
  BY <1>0, <1>3, HeldIsNeeded DEF TypeOK
<1>4. pc \in {"acquire", "release"} =>
        /\ current \in Procs /\ status[current] = "RUNNING"
        /\ script[current].start <= ticks
  BY <1>0 DEF AtWork, TypeOK, TaskInv, PlaceInv, InPlace, CurrentDetached, Intact, Created
<1>5. CASE ForkOnSchedule
  <2>1. PICK i \in DOMAIN forkqueue : status' = [status EXCEPT ![forkqueue[i]] = "READY"]
    BY <1>5 DEF ForkOnSchedule
  <2>2. forkqueue[i] \in Procs /\ InQueue(forkqueue[i], forkqueue)
    BY <1>0, ListType DEF InQueue
  <2>3. status[forkqueue[i]] # "EXIT"
    BY <1>5, <2>2 DEF ForkOnSchedule, TaskInv, PlaceInv, PlaceParts, Intact, StatusSays
  <2> QED BY <1>0, <1>1, <1>5, <2>1, <2>2, <2>3 DEF ForkOnSchedule
<1>6. CASE ForkDone \/ Schedule
  BY <1>1, <1>6 DEF ForkDone, Schedule
<1>7. CASE Retire
  <2>1. /\ pc = "retire" /\ pc' # "release" /\ UNCHANGED <<script, ticks, age, owner>>
    BY <1>7 DEF Retire
  <2>2. CASE prev # NULL /\ Finished(prev)
    <3>1. prev \in Procs /\ CanExit(prev) /\ status' = [status EXCEPT ![prev] = "EXIT"]
      BY <1>0, <1>7, <2>1, <2>2, ExitChecks DEF Retire, TypeOK
    <3>2. script[prev].start <= ticks
      BY <1>0, <3>1 DEF CanExit, Created
    <3>3. status[prev] # "EXIT"
      BY <2>1, <2>2 DEF TaskInv, PlaceInv, InPlace, PrevRan
    <3>4. \A r \in Resources : owner[r] # prev
      BY <1>0, <3>1 DEF OwnerHolds, Holds, CanExit
    <3>5. exited' = exited \union {prev}
      BY <1>0, <3>1
    <3>6. \E p \in Procs : Tasks!Exit(p)
      BY <2>1, <2>2, <3>1, <3>2, <3>3, <3>4, <3>5
         DEF Tasks!Exit, Tasks!Present, Finished, lifespan
    <3> QED BY <3>6 DEF Tasks!Next
  <2>3. CASE ~(prev # NULL /\ Finished(prev))
    <3>1. \/ status' = status
          \/ status' = [status EXCEPT ![prev] = IF @ = "RUNNING" THEN "READY" ELSE @]
      BY <1>7, <2>3 DEF Retire
    <3>2. \A p \in Procs : status'[p] = "EXIT" <=> status[p] = "EXIT"
      BY <1>0, <3>1
    <3> QED BY <1>1, <2>1, <3>2
  <2> QED BY <2>2, <2>3
<1>8. CASE Dispatch
  <2>1. /\ pc = "dispatch" /\ pc' # "release" /\ UNCHANGED <<script, age, owner>>
    BY <1>8 DEF Dispatch
  <2>2. CASE current # NULL
    <3>1. status' = [status EXCEPT ![current] = "RUNNING"] /\ ticks' = ticks /\ current \in Procs
      BY <1>0, <1>8, <2>2 DEF Dispatch, TypeOK
    <3>2. status[current] # "EXIT"
      BY <2>1, <3>1 DEF TaskInv, PlaceInv, PlaceParts, Intact, StatusSays
    <3> QED BY <1>0, <1>1, <2>1, <3>1, <3>2
  <2>3. CASE current = NULL
    <3>1. status' = status /\ ticks' \in {ticks, ticks + 1}
      BY <1>8, <2>3 DEF Dispatch
    <3> QED BY <1>1, <1>2, <1>3, <2>1, <3>1
  <2> QED BY <2>2, <2>3
<1>9. CASE Acquire
  <2>1. PICK i \in DOMAIN to_acquire[current] :
          LET rs == to_acquire[current][i] IN
          /\ FirstDue(current, i)
          /\ rs.res \in Resources
          /\ \/ Take(rs.res) /\ pc' = pc
             \/ Wait(rs.res) /\ pc' = "fork"
    BY <1>0, <1>9, AcquireStep
  <2> DEFINE rs == to_acquire[current][i]
  <2>2. /\ pc = "acquire" /\ current \in Procs /\ UNCHANGED <<script, age>>
        /\ status[current] = "RUNNING" /\ script[current].start <= ticks
        /\ owner[rs.res] = NULL => ticks' = ticks
    <3>1. pc = "acquire" /\ UNCHANGED <<script, age>>
      BY <1>9 DEF Acquire
    <3>2. PICK k \in DOMAIN to_acquire[current] :
            /\ FirstDue(current, k)
            /\ owner[to_acquire[current][k].res] = NULL => ticks' = ticks
      BY <1>9 DEF Acquire
    <3>3. k = i
      BY <1>0, <1>4, <2>1, <3>1, <3>2, FirstDueUnique
    <3> QED BY <1>4, <3>1, <3>2, <3>3
  <2>3. CASE Take(rs.res) /\ pc' = pc
    <3>1. rs \in Tasks!Uses(current) /\ rs.at = age[current]
      <4>1. rs \in ToSet(to_acquire[current])
        BY DEF ToSet
      <4>2. rs \in ToSet(script[current].acquires)
        BY <2>2, <4>1 DEF TaskInv, Played, PlayedBy
      <4> QED BY <2>1, <4>2 DEF FirstDue, ToSet, Tasks!Uses
    <3>2. Tasks!Get(current, rs.res)
      BY <2>2, <2>3, <3>1 DEF Tasks!Get, Tasks!Present, Take
    <3> QED BY <2>1, <2>2, <3>2 DEF Tasks!Next
  <2>4. CASE Wait(rs.res) /\ pc' = "fork"
    <3>1. /\ owner' = owner
          /\ \A p \in Procs : status'[p] = "EXIT" <=> status[p] = "EXIT"
      BY <1>0, <2>2, <2>4 DEF Wait
    <3>2. ticks' = ticks + 1
      BY <1>9, <2>4 DEF Acquire
    <3> QED BY <1>2, <1>3, <2>2, <2>4, <3>1, <3>2
  <2> QED BY <2>1, <2>3, <2>4
<1>10. CASE Run
  <2>1. /\ pc = "acquire" /\ pc' = "release" /\ NothingDue(current)
        /\ age' = [age EXCEPT ![current] = @ + 1]
        /\ UNCHANGED <<script, ticks, owner, status>>
    BY <1>10 DEF Run
  <2>2. ASSUME NEW r \in Resources, Tasks!Needs(current, r, age[current])
        PROVE  owner[r] = current
    <3>1. PICK u \in Tasks!Uses(current) :
            u.res = r /\ u.at <= age[current] /\ age[current] < u.at + u.duration
      BY <2>2 DEF Tasks!Needs
    <3>2. u \in ToSet(script[current].acquires)
      BY <3>1 DEF ToSet, Tasks!Uses
    <3>3. u.at \in Nat /\ u.duration \in Nat /\ u.duration > 0 /\ age[current] \in Nat
      <4>1. script[current].acquires \in Seq(ResourceSchedule) /\ WellFormed(script[current])
        BY <1>0, <1>4, <2>1, ScriptType
      <4> QED BY <1>0, <1>4, <2>1, <3>2, <4>1, WellUsed DEF TypeOK
    <3>4. PlayedBy(script[current].acquires, to_acquire[current], holding[current],
                   age[current], Releasing(current))
      BY <1>4, <2>1 DEF TaskInv, Played
    <3>5. u \notin ToSet(to_acquire[current])
      BY <2>1, <3>1, <3>3, <3>4 DEF PlayedBy, NothingDue, ToSet
    <3>6. ~(u.at + Eff(u) <= age[current])
      BY <3>1, <3>3 DEF Eff
    <3>7. \E h \in ToSet(holding[current]) : h.res = r
      BY <3>1, <3>2, <3>4, <3>5, <3>6 DEF PlayedBy, Matches
    <3>8. Holds(current, r)
      BY <3>7 DEF ToSet, Holds
    <3> QED BY <1>0, <1>4, <2>1, <3>8 DEF OwnerHolds
  <2>3. age[current] < script[current].lifespan
    <3>1. lifespan(current) > 0
      BY <1>0, <1>4, <2>1 DEF WellFormed, lifespan
    <3> QED BY <1>4, <2>1, <3>1
            DEF TaskInv, LifeInv, Lives, Alive, Intact, Unfinished, lifespan
  <2>4. Tasks!Work(current)
    BY <1>4, <2>1, <2>2, <2>3 DEF Tasks!Work, Tasks!Present
  <2> QED BY <1>4, <2>1, <2>4 DEF Tasks!Next
<1>11. CASE Release
  <2>1. PICK i \in DOMAIN holding[current] :
          LET r == holding[current][i].res IN
          /\ r \in Resources
          /\ Disown(r)
          /\ WakeNobody(r) \/ \E k \in DOMAIN waitqueue[r] : Wake(r, k)
          /\ holding[current][i].duration = 0
    <3>1. PICK i \in DOMAIN holding[current] :
            /\ FirstUsedUp(current, i)
            /\ release(holding[current][i].res)
      BY <1>11 DEF Release
    <3>2. current \in Procs
      BY <1>0, <1>11, ReleaseStep
    <3>3. holding[current][i].res \in Resources
      BY <1>0, <3>2, ListType DEF ResourceSchedule
    <3> QED BY <1>0, <3>1, <3>2, <3>3, ReleaseOutcome DEF FirstUsedUp
  <2> DEFINE h == holding[current][i]
  <2>2. /\ pc = "release" /\ pc' = pc /\ current \in Procs
        /\ UNCHANGED <<script, ticks, age>>
    BY <1>4, <1>11 DEF Release
  <2>3. PICK u \in ToSet(script[current].acquires) :
          h.at < age[current] /\ Matches(u, h, age[current])
    <3>1. PlayedBy(script[current].acquires, to_acquire[current], holding[current],
                   age[current], Releasing(current))
      BY <2>2 DEF TaskInv, Played
    <3>2. h \in ToSet(holding[current])
      BY DEF ToSet
    <3> QED BY <2>2, <3>1, <3>2 DEF PlayedBy, Releasing
  <2>4. u \in Tasks!Uses(current) /\ u.res = h.res /\ u.at + u.duration = age[current]
    <3>1. /\ script[current].acquires \in Seq(ResourceSchedule) /\ WellFormed(script[current])
          /\ age[current] \in Nat
      BY <1>0, <2>2, ScriptType DEF TypeOK
    <3>2. u.duration \in Nat /\ u.duration > 0
      BY <3>1, WellUsed
    <3>3. h \in ResourceSchedule
      BY <1>0, <2>2, ListType
    <3>4. Rest(h, age[current]) = 0
      BY <2>1, <2>3, <3>1, <3>3 DEF Rest, ResourceSchedule
    <3>5. u \in Tasks!Uses(current)
      BY SMTT(40) DEF ToSet, Tasks!Uses
    <3> QED BY <2>3, <3>1, <3>2, <3>4, <3>5 DEF Matches, Eff
  <2>5. \A p \in Procs : status'[p] = "EXIT" <=> status[p] = "EXIT"
    BY <1>0, <2>1 DEF WakeNobody, Wake
  <2>6. Tasks!Return(current, h.res)
    BY <2>1, <2>2, <2>4, <2>5 DEF Tasks!Return, Disown
  <2> QED BY <2>1, <2>2, <2>6 DEF Tasks!Next
<1>12. CASE Tick
  <2>1. /\ pc = "release" /\ pc' = "fork" /\ ticks' = ticks + 1
        /\ \A i \in DOMAIN holding[current] : holding[current][i].duration # 0
        /\ UNCHANGED <<script, age, owner, status>>
    BY <1>12 DEF Tick
  <2>2. \A r \in Resources : owner[r] # NULL => Tasks!Needs(owner[r], r, age[owner[r]])
    <3> SUFFICES ASSUME NEW r \in Resources, owner[r] # NULL
                 PROVE  Tasks!Needs(owner[r], r, age[owner[r]])
      OBVIOUS
    <3>1. owner[r] \in Procs
      BY <1>0 DEF TypeOK
    <3> QED BY <2>1, <3>1, HeldIsNeeded
  <2> QED BY <1>2, <2>1, <2>2
<1>13. CASE Ended \/ UNCHANGED vars
  BY <1>1, <1>13 DEF Ended, vars
<1> QED BY <1>5, <1>6, <1>7, <1>8, <1>9, <1>10, <1>11, <1>12, <1>13 DEF Next

(* Whatever the scheduler, the simulator plays the script as TaskSystem    *)
(* says: one process at most makes progress at a tick, with every resource *)
(* its script gives to that tick in its hands alone; it gives each back at *)
(* the end of the tick in which its use ends; and it exits once it has run *)
(* for its lifespan.                                                       *)
THEOREM PlaysTheScript ==
  ASSUME ShortLives, Fitting, WellFormedScripts
  PROVE  Spec => ImplementsTaskSystem
<1>1. TaskInv /\ [Next]_vars => [Tasks!Next]_Tasks!tvars
  BY TaskStep
<1> QED BY <1>1, TaskBegins, TaskAlways, PTL DEF Spec, ImplementsTaskSystem, Tasks!Spec

-----------------------------------------------------------------------------
(* What a simulation has before it.                                        *)

(* What each process has before it: ticks to live, entries to acquire and  *)
(* to give back, to be forked, to be refused a resource, and to wait for   *)
(* its start.                                                              *)
TicksToLive ==
  [p \in Procs |-> IF age[p] <= lifespan(p) THEN (lifespan(p) + 1) - age[p] ELSE 0]
EntriesToAcquire == [p \in Procs |-> Len(to_acquire[p])]
EntriesToRelease == [p \in Procs |-> Len(holding[p])]
ToBeForked == [p \in Procs |-> IF InQueue(p, forkqueue) THEN 1 ELSE 0]
ToBeRefused == [p \in Procs |-> IF status[p] = "BLOCKED" THEN 0 ELSE 1]
TicksToStart == [p \in Procs |-> IF Due(p) THEN 0 ELSE script[p].start - ticks]

(* The simulation still runs, and its lists are intact. *)
Playing == IF pc \in Halts THEN 0 ELSE 1
PhasesToCome ==
  CASE pc = "release" -> 6 [] pc = "fork" -> 5 [] pc = "schedule" -> 4
    [] pc = "retire" -> 3 [] pc = "dispatch" -> 2 [] pc = "acquire" -> 1
    [] OTHER -> 0

(* What the simulation has before it, what matters more first. *)
Lifetimes == <<Playing>> \o TicksToLive
Requesting == Lifetimes \o EntriesToAcquire
Working == Requesting \o EntriesToRelease
Forks == Working \o ToBeForked
Refusals == Forks \o ToBeRefused
Arrivals == Refusals \o TicksToStart
Ahead == Arrivals \o <<PhasesToCome>>

AheadCounts ==
  /\ <<Playing>> \in [1..1 -> Nat] /\ <<PhasesToCome>> \in [1..1 -> Nat]
  /\ TicksToLive \in [1..N -> Nat] /\ EntriesToAcquire \in [1..N -> Nat]
  /\ EntriesToRelease \in [1..N -> Nat] /\ ToBeForked \in [1..N -> Nat]
  /\ ToBeRefused \in [1..N -> Nat] /\ TicksToStart \in [1..N -> Nat]

LEMMA AheadTypes == TypeOK => AheadCounts
<1> SUFFICES ASSUME TypeOK PROVE AheadCounts
  OBVIOUS
<1>1. Playing \in Nat /\ PhasesToCome \in Nat
  BY DEF Playing, PhasesToCome
<1>2. /\ <<Playing>> \in [1..1 -> Nat] /\ <<PhasesToCome>> \in [1..1 -> Nat]
  BY <1>1
<1>3. TicksToLive \in [1..N -> Nat]
  <2>1. \A p \in Procs : lifespan(p) \in Nat /\ age[p] \in Nat
    BY ScriptType DEF TypeOK
  <2>2. \A p \in Procs : age[p] <= lifespan(p) => (lifespan(p) + 1) - age[p] \in Nat
    BY <2>1
  <2> QED BY <2>2 DEF TicksToLive, Procs
<1>4. EntriesToAcquire \in [1..N -> Nat] /\ EntriesToRelease \in [1..N -> Nat]
  <2>1. \A p \in Procs : /\ to_acquire[p] \in Seq(ResourceSchedule)
                         /\ holding[p] \in Seq(ResourceSchedule)
    BY DEF TypeOK
  <2>2. \A p \in Procs : Len(to_acquire[p]) \in Nat /\ Len(holding[p]) \in Nat
    BY <2>1, LenProperties
  <2> QED BY <2>2 DEF EntriesToAcquire, EntriesToRelease, Procs
<1>5. ToBeForked \in [1..N -> Nat] /\ ToBeRefused \in [1..N -> Nat]
  BY DEF ToBeForked, ToBeRefused, Procs
<1>6. TicksToStart \in [1..N -> Nat]
  <2>1. \A p \in Procs : script[p].start \in Nat
    BY ScriptType DEF ProcessDesc
  <2>2. \A p \in Procs : ~Due(p) => script[p].start - ticks \in Nat
    BY <2>1, SMTT(40) DEF Due, TypeOK
  <2> QED BY <2>2 DEF TicksToStart, Procs
<1> QED BY <1>2, <1>3, <1>4, <1>5, <1>6 DEF AheadCounts

AheadSums ==
  /\ Lifetimes \in [1..(1 + N) -> Nat] /\ Requesting \in [1..(1 + 2 * N) -> Nat]
  /\ Working \in [1..(1 + 3 * N) -> Nat] /\ Forks \in [1..(1 + 4 * N) -> Nat]
  /\ Refusals \in [1..(1 + 5 * N) -> Nat] /\ Arrivals \in [1..(1 + 6 * N) -> Nat]
  /\ Ahead \in [1..(2 + 6 * N) -> Nat]

LEMMA AheadParts == AheadCounts => AheadSums
<1> SUFFICES ASSUME AheadCounts PROVE AheadSums
  OBVIOUS
<1>0. N \in Nat
  BY NAssumption
<1>1. ASSUME NEW m \in Nat, NEW n \in Nat, NEW k, k = m + n,
             NEW s \in [1..m -> Nat], NEW t \in [1..n -> Nat]
      PROVE  s \o t \in [1..k -> Nat]
  BY <1>1, ConcatVectors
<1>2. Lifetimes \in [1..(1 + N) -> Nat]
  BY <1>0, <1>1 DEF Lifetimes, AheadCounts
<1>3. Requesting \in [1..(1 + 2 * N) -> Nat]
  <2>1. 1 + N \in Nat /\ 1 + 2 * N = (1 + N) + N
    BY <1>0
  <2> QED BY <1>0, <1>1, <1>2, <2>1 DEF Requesting, AheadCounts
<1>4. Working \in [1..(1 + 3 * N) -> Nat]
  <2>1. 1 + 2 * N \in Nat /\ 1 + 3 * N = (1 + 2 * N) + N
    BY <1>0
  <2> QED BY <1>0, <1>1, <1>3, <2>1 DEF Working, AheadCounts
<1>5. Forks \in [1..(1 + 4 * N) -> Nat]
  <2>1. 1 + 3 * N \in Nat /\ 1 + 4 * N = (1 + 3 * N) + N
    BY <1>0
  <2> QED BY <1>0, <1>1, <1>4, <2>1 DEF Forks, AheadCounts
<1>6. Refusals \in [1..(1 + 5 * N) -> Nat]
  <2>1. 1 + 4 * N \in Nat /\ 1 + 5 * N = (1 + 4 * N) + N
    BY <1>0
  <2> QED BY <1>0, <1>1, <1>5, <2>1 DEF Refusals, AheadCounts
<1>7. Arrivals \in [1..(1 + 6 * N) -> Nat]
  <2>1. 1 + 5 * N \in Nat /\ 1 + 6 * N = (1 + 5 * N) + N
    BY <1>0
  <2> QED BY <1>0, <1>1, <1>6, <2>1 DEF Arrivals, AheadCounts
<1>8. Ahead \in [1..(2 + 6 * N) -> Nat]
  <2>1. 1 + 6 * N \in Nat /\ 2 + 6 * N = (1 + 6 * N) + 1
    BY <1>0
  <2> QED BY <1>1, <1>7, <2>1 DEF Ahead, AheadCounts
<1> QED BY <1>2, <1>3, <1>4, <1>5, <1>6, <1>7, <1>8 DEF AheadSums

(* One of two sequences of numbers is nowhere above the other, and below   *)
(* it somewhere.                                                           *)
Falls(g, f) ==
  (\A p \in Procs : g[p] <= f[p]) /\ \E p \in Procs : g[p] < f[p]

(* What is ahead goes down if one of its parts falls and none before that  *)
(* part changes.                                                           *)
LEMMA AheadFalls ==
  ASSUME AheadCounts, AheadCounts', AheadSums, AheadSums'
  PROVE  /\ Playing' < Playing => LexBelow(Ahead', Ahead)
         /\ Playing' = Playing /\ Falls(TicksToLive', TicksToLive) => LexBelow(Ahead', Ahead)
         /\ UNCHANGED <<Playing, TicksToLive>> =>
              /\ Falls(EntriesToAcquire', EntriesToAcquire) => LexBelow(Ahead', Ahead)
              /\ UNCHANGED EntriesToAcquire =>
                   /\ Falls(EntriesToRelease', EntriesToRelease) => LexBelow(Ahead', Ahead)
                   /\ UNCHANGED EntriesToRelease =>
                        /\ Falls(ToBeForked', ToBeForked) => LexBelow(Ahead', Ahead)
                        /\ UNCHANGED ToBeForked =>
                             /\ Falls(ToBeRefused', ToBeRefused) => LexBelow(Ahead', Ahead)
                             /\ /\ UNCHANGED ToBeRefused
                                /\ \A p \in Procs : TicksToStart'[p] <= TicksToStart[p]
                                /\ \/ PhasesToCome' < PhasesToCome
                                   \/ \E p \in Procs : TicksToStart'[p] < TicksToStart[p]
                                => LexBelow(Ahead', Ahead)
<1>0. /\ N \in Nat /\ 1 + N \in Nat /\ 1 + 2 * N \in Nat /\ 1 + 3 * N \in Nat
      /\ 1 + 4 * N \in Nat /\ 1 + 5 * N \in Nat /\ 1 + 6 * N \in Nat /\ Procs = 1..N
  BY NAssumption DEF Procs
<1>1. ASSUME NEW m \in Nat, NEW n \in Nat,
             NEW s \in [1..m -> Nat], NEW s1 \in [1..m -> Nat],
             NEW t \in [1..n -> Nat], NEW t1 \in [1..n -> Nat]
      PROVE  /\ LexBelow(s1, s) => LexBelow(s1 \o t1, s \o t)
             /\ s1 = s /\ LexBelow(t1, t) => LexBelow(s1 \o t1, s \o t)
  BY <1>1, ConcatBelow
<1>2. ASSUME NEW f \in [1..N -> Nat], NEW g \in [1..N -> Nat], \A p \in Procs : g[p] <= f[p]
      PROVE  /\ g = f \/ LexBelow(g, f)
             /\ Falls(g, f) => LexBelow(g, f)
  <2>1. g = f \/ LexBelow(g, f)
    <3>1. \A i \in 1..N : g[i] <= f[i]
      BY <1>0, <1>2
    <3> QED BY <1>0, <3>1, PointwiseBelow
  <2>2. ASSUME NEW p \in Procs, g[p] < f[p] PROVE g # f
    BY <1>0, <2>2
  <2> QED BY <2>1, <2>2 DEF Falls
<1>3. ASSUME NEW i \in Nat, NEW j \in Nat, j < i PROVE LexBelow(<<j>>, <<i>>)
  <2>1. DOMAIN <<i>> = 1..1 /\ <<i>>[1] = i /\ <<j>>[1] = j /\ 1 \in 1..1 /\ 1..(1 - 1) = {}
    OBVIOUS
  <2> QED BY <1>3, <2>1 DEF LexBelow
<1> DEFINE A0 == LexBelow(<<Playing>>', <<Playing>>)
           A1 == LexBelow(Lifetimes', Lifetimes)
           A2 == LexBelow(Requesting', Requesting)
           A3 == LexBelow(Working', Working)
           A4 == LexBelow(Forks', Forks)
           A5 == LexBelow(Refusals', Refusals)
           A6 == LexBelow(Arrivals', Arrivals)
           A7 == LexBelow(Ahead', Ahead)
<1>4. (A0 => A1) /\ (Playing' = Playing /\ LexBelow(TicksToLive', TicksToLive) => A1)
  BY <1>0, <1>1 DEF AheadCounts, Lifetimes
<1>5. /\ A1 => A2
      /\ Lifetimes' = Lifetimes /\ LexBelow(EntriesToAcquire', EntriesToAcquire) => A2
  BY <1>0, <1>1 DEF AheadCounts, AheadSums, Requesting
<1>6. /\ A2 => A3
      /\ Requesting' = Requesting /\ LexBelow(EntriesToRelease', EntriesToRelease) => A3
  BY <1>0, <1>1 DEF AheadCounts, AheadSums, Working
<1>7. /\ A3 => A4
      /\ Working' = Working /\ LexBelow(ToBeForked', ToBeForked) => A4
  BY <1>0, <1>1 DEF AheadCounts, AheadSums, Forks
<1>8. /\ A4 => A5
      /\ Forks' = Forks /\ LexBelow(ToBeRefused', ToBeRefused) => A5
  BY <1>0, <1>1 DEF AheadCounts, AheadSums, Refusals
<1>9. /\ A5 => A6
      /\ Refusals' = Refusals /\ LexBelow(TicksToStart', TicksToStart) => A6
  BY <1>0, <1>1 DEF AheadCounts, AheadSums, Arrivals
<1>10. /\ A6 => A7
       /\ Arrivals' = Arrivals /\ LexBelow(<<PhasesToCome>>', <<PhasesToCome>>) => A7
  BY <1>0, <1>1 DEF AheadCounts, AheadSums, Ahead
<1>11. /\ UNCHANGED <<Playing, TicksToLive>> => Lifetimes' = Lifetimes
       /\ Lifetimes' = Lifetimes /\ EntriesToAcquire' = EntriesToAcquire
            => Requesting' = Requesting
       /\ Requesting' = Requesting /\ EntriesToRelease' = EntriesToRelease => Working' = Working
       /\ Working' = Working /\ ToBeForked' = ToBeForked => Forks' = Forks
       /\ Forks' = Forks /\ ToBeRefused' = ToBeRefused => Refusals' = Refusals
       /\ Refusals' = Refusals /\ TicksToStart' = TicksToStart => Arrivals' = Arrivals
  BY DEF Lifetimes, Requesting, Working, Forks, Refusals, Arrivals
<1>12. /\ Playing' < Playing => A0
       /\ PhasesToCome' < PhasesToCome => LexBelow(<<PhasesToCome>>', <<PhasesToCome>>)
  <2>1. Playing \in Nat /\ Playing' \in Nat /\ PhasesToCome \in Nat /\ PhasesToCome' \in Nat
    BY DEF Playing, PhasesToCome
  <2> QED BY <1>3, <2>1
<1>13. /\ Falls(TicksToLive', TicksToLive) => LexBelow(TicksToLive', TicksToLive)
       /\ Falls(EntriesToAcquire', EntriesToAcquire)
            => LexBelow(EntriesToAcquire', EntriesToAcquire)
       /\ Falls(EntriesToRelease', EntriesToRelease)
            => LexBelow(EntriesToRelease', EntriesToRelease)
       /\ Falls(ToBeForked', ToBeForked) => LexBelow(ToBeForked', ToBeForked)
       /\ Falls(ToBeRefused', ToBeRefused) => LexBelow(ToBeRefused', ToBeRefused)
  BY <1>2 DEF AheadCounts, Falls
<1>14. (\A p \in Procs : TicksToStart'[p] <= TicksToStart[p]) =>
         /\ TicksToStart' = TicksToStart \/ LexBelow(TicksToStart', TicksToStart)
         /\ (\E p \in Procs : TicksToStart'[p] < TicksToStart[p])
              => LexBelow(TicksToStart', TicksToStart)
  BY <1>2 DEF AheadCounts, Falls
<1> HIDE DEF A0, A1, A2, A3, A4, A5, A6, A7
<1>15. A0 \/ A1 \/ A2 \/ A3 \/ A4 \/ A5 \/ A6 => A7
  BY <1>4, <1>5, <1>6, <1>7, <1>8, <1>9, <1>10
<1>16. Playing' < Playing => A7
  BY <1>12, <1>15
<1>17. Playing' = Playing /\ Falls(TicksToLive', TicksToLive) => A7
  BY <1>4, <1>13, <1>15
<1>18. UNCHANGED <<Playing, TicksToLive>> /\ Falls(EntriesToAcquire', EntriesToAcquire) => A7
  BY <1>5, <1>11, <1>13, <1>15
<1>19. ASSUME UNCHANGED <<Playing, TicksToLive, EntriesToAcquire>>
       PROVE  Falls(EntriesToRelease', EntriesToRelease) => A7
  BY <1>6, <1>11, <1>13, <1>15, <1>19
<1>20. ASSUME UNCHANGED <<Playing, TicksToLive, EntriesToAcquire, EntriesToRelease>>
       PROVE  Falls(ToBeForked', ToBeForked) => A7
  BY <1>7, <1>11, <1>13, <1>15, <1>20
<1>21. ASSUME UNCHANGED <<Playing, TicksToLive, EntriesToAcquire, EntriesToRelease, ToBeForked>>
       PROVE  Falls(ToBeRefused', ToBeRefused) => A7
  BY <1>8, <1>11, <1>13, <1>15, <1>21
<1>22. ASSUME UNCHANGED <<Playing, TicksToLive, EntriesToAcquire, EntriesToRelease,
                          ToBeForked, ToBeRefused>>,
              \A p \in Procs : TicksToStart'[p] <= TicksToStart[p]
       PROVE  /\ (\E p \in Procs : TicksToStart'[p] < TicksToStart[p]) => A7
              /\ PhasesToCome' < PhasesToCome => A7
  <2>1. Refusals' = Refusals
    BY <1>11, <1>22
  <2>2. LexBelow(TicksToStart', TicksToStart) => A7
    BY <1>9, <1>15, <2>1
  <2>3. TicksToStart' = TicksToStart /\ PhasesToCome' < PhasesToCome => A7
    BY <1>10, <1>11, <1>12, <2>1
  <2> QED BY <1>14, <1>22, <2>2, <2>3
<1>23. A7 <=> LexBelow(Ahead', Ahead)
  BY DEF A7
<1> HIDE DEF Falls
<1> QED BY <1>16, <1>17, <1>18, <1>19, <1>20, <1>21, <1>22, <1>23

(* Nothing is due from the end of __fork_on_schedule to the next tick. *)
ForkedInTime ==
  pc \in {"schedule", "retire", "dispatch"} => \A i \in DOMAIN forkqueue : ~Due(forkqueue[i])

LEMMA ForkedStep == ForkedInTime /\ [Next]_vars => ForkedInTime'
<1> SUFFICES ASSUME ForkedInTime, [Next]_vars PROVE ForkedInTime'
  OBVIOUS
<1>1. CASE ForkDone \/ Schedule \/ Retire
  BY <1>1 DEF ForkDone, Schedule, Retire, ForkedInTime, Due
<1>2. CASE ForkOnSchedule \/ Dispatch \/ Acquire \/ Run \/ Release \/ Tick
  BY <1>2 DEF ForkOnSchedule, Dispatch, Acquire, Run, Release, Tick, ForkedInTime
<1>3. CASE Ended \/ UNCHANGED vars
  BY <1>3 DEF Ended, vars, ForkedInTime, Due
<1> QED BY <1>1, <1>2, <1>3 DEF Next

AheadInv ==
  /\ PlaceInv /\ NobodyElse /\ LifeInv /\ ForkedInTime
  /\ AheadCounts /\ AheadSums

LEMMA AheadAlways ==
  ASSUME ShortLives
  PROVE  Spec => []AheadInv
<1>1. Init => ForkedInTime
  BY DEF Init, ForkedInTime
<1>2. PlaceInv => AheadCounts /\ AheadSums
  BY AheadTypes, AheadParts DEF PlaceInv
<1>3. PlaceInv /\ NobodyElse /\ LifeInv /\ ForkedInTime /\ AheadCounts /\ AheadSums <=> AheadInv
  BY DEF AheadInv
<1> QED BY <1>1, <1>2, <1>3, ForkedStep, PlaceAlways, NobodyAlways, LifeAlways, PTL DEF Spec

(* A step that leaves the other components alone. *)
LEMMA AheadSame ==
  ASSUME script' = script
  PROVE  /\ UNCHANGED age => UNCHANGED TicksToLive
         /\ UNCHANGED to_acquire => UNCHANGED EntriesToAcquire
         /\ UNCHANGED holding => UNCHANGED EntriesToRelease
         /\ UNCHANGED forkqueue => UNCHANGED ToBeForked
         /\ UNCHANGED status => UNCHANGED ToBeRefused
         /\ UNCHANGED ticks => UNCHANGED TicksToStart
BY DEF TicksToLive, EntriesToAcquire, EntriesToRelease, ToBeForked, ToBeRefused, TicksToStart,
       lifespan, Due

LEMMA TicksPass ==
  ASSUME TypeOK, script' = script, ticks' = ticks + 1
  PROVE  /\ \A p \in Procs : TicksToStart'[p] <= TicksToStart[p]
         /\ \A p \in Procs : ~Due(p) => TicksToStart'[p] < TicksToStart[p]
<1>1. ticks \in Nat /\ \A p \in Procs : script[p].start \in Nat
  BY ScriptType DEF ProcessDesc, TypeOK
<1>2. ASSUME NEW p \in Procs
      PROVE  /\ TicksToStart[p] = IF script[p].start <= ticks THEN 0 ELSE script[p].start - ticks
             /\ TicksToStart'[p] =
                  IF script[p].start <= ticks + 1 THEN 0 ELSE script[p].start - (ticks + 1)
  BY DEF TicksToStart, Due
<1>3. ASSUME NEW p \in Procs
      PROVE  TicksToStart'[p] <= TicksToStart[p] /\ (~Due(p) => TicksToStart'[p] < TicksToStart[p])
  <2>1. script[p].start \in Nat
    BY <1>1
  <2> QED BY <1>1, <1>2, <2>1 DEF Due
<1> QED BY <1>3

LEMMA AheadGoesDown ==
  ASSUME ShortLives, AheadInv, AheadInv', Next, pc \notin Halts
  PROVE  LexBelow(Ahead', Ahead)
<1>0. /\ TypeOK /\ AtWork /\ TypeOK' /\ AheadCounts /\ AheadCounts' /\ AheadSums /\ AheadSums'
      /\ pc # "corrupt" /\ pc # "abort" /\ pc # "done"
  BY DEF AheadInv, PlaceInv, Halts, Ends
<1>1. /\ forkqueue \in Seq(Procs) /\ age \in [Procs -> Nat] /\ status \in [Procs -> Statuses]
      /\ to_acquire \in [Procs -> Seq(ResourceSchedule)]
      /\ holding \in [Procs -> Seq(ResourceSchedule)] /\ ticks \in Nat
      /\ current \in Procs \union {NULL}
  BY <1>0 DEF TypeOK
<1>2. PlaceParts /\ InPlace /\ Once /\ Apart /\ StatusSays /\ OnTheCpu
  BY <1>0 DEF AheadInv, PlaceInv, PlaceParts, Intact
<1>3. CASE pc' \in Halts
  <2>1. Playing' < Playing
    BY <1>3 DEF Playing
  <2> QED BY <1>0, <2>1, AheadFalls
<1>4. ASSUME pc' \notin Halts PROVE Playing' = Playing
  BY <1>4 DEF Playing
<1>5. CASE ForkOnSchedule
  <2>1. PICK i \in DOMAIN forkqueue : forkqueue' = RemoveAt(forkqueue, i)
    BY <1>5 DEF ForkOnSchedule
  <2>2. /\ UNCHANGED <<pc, script, age, to_acquire, holding>>
    BY <1>5 DEF ForkOnSchedule
  <2>3. /\ forkqueue[i] \in Procs /\ InQueue(forkqueue[i], forkqueue)
        /\ \A p : InQueue(p, forkqueue') <=> InQueue(p, forkqueue) /\ p # forkqueue[i]
    <3>1. forkqueue[i] \in Procs /\ InQueue(forkqueue[i], forkqueue)
      BY <1>0, ListType DEF InQueue
    <3> QED BY <1>1, <1>2, <2>1, <3>1, QueueRemoveAt DEF Once
  <2>4. Falls(ToBeForked', ToBeForked)
    <3>1. \A p \in Procs : ToBeForked[p] = (IF InQueue(p, forkqueue) THEN 1 ELSE 0)
                        /\ ToBeForked'[p] = (IF InQueue(p, forkqueue') THEN 1 ELSE 0)
      BY DEF ToBeForked
    <3> HIDE DEF InQueue
    <3> QED BY <2>3, <3>1 DEF Falls
  <2>5. UNCHANGED <<Playing, TicksToLive, EntriesToAcquire, EntriesToRelease>>
    BY <2>2, AheadSame DEF Playing
  <2> QED BY <1>0, <2>4, <2>5, AheadFalls
<1>6. ASSUME UNCHANGED <<script, age, to_acquire, holding, forkqueue>>,
             \/ UNCHANGED status
             \/ \A p \in Procs : status'[p] = "BLOCKED" <=> status[p] = "BLOCKED",
             UNCHANGED ticks \/ ticks' = ticks + 1,
             pc' \notin Halts, PhasesToCome' < PhasesToCome
      PROVE  LexBelow(Ahead', Ahead)
  <2>1. UNCHANGED <<Playing, TicksToLive, EntriesToAcquire, EntriesToRelease, ToBeForked>>
    BY <1>4, <1>6, AheadSame
  <2>2. UNCHANGED ToBeRefused
    BY <1>6 DEF ToBeRefused
  <2>3. \A p \in Procs : TicksToStart'[p] <= TicksToStart[p]
    <3>1. CASE UNCHANGED ticks
      <4>1. TicksToStart' = TicksToStart /\ \A p \in Procs : TicksToStart[p] \in Nat
        BY <1>0, <1>6, <3>1, AheadSame DEF AheadCounts, Procs
      <4> QED BY <4>1
    <3>2. CASE ticks' = ticks + 1
      BY <1>0, <1>6, <3>2, TicksPass
    <3> QED BY <1>6, <3>1, <3>2
  <2> QED BY <1>0, <1>6, <2>1, <2>2, <2>3, AheadFalls
<1>7. CASE ForkDone
  <2>1. PhasesToCome' < PhasesToCome /\ pc' \notin Halts
    BY <1>7 DEF ForkDone, PhasesToCome, Halts, Ends
  <2> QED BY <1>6, <1>7, <2>1 DEF ForkDone
<1>8. CASE Schedule /\ pc' \notin Halts
  <2>1. PhasesToCome' < PhasesToCome
    BY <1>8 DEF Schedule, PhasesToCome, Halts, Ends
  <2> QED BY <1>6, <1>8, <2>1 DEF Schedule
<1>9. CASE Retire /\ pc' \notin Halts
  <2>1. /\ UNCHANGED <<script, age, to_acquire, holding, forkqueue, ticks>>
        /\ PhasesToCome' < PhasesToCome
    BY <1>9 DEF Retire, PhasesToCome, Halts, Ends
  <2>2. \A p \in Procs : status'[p] = "BLOCKED" <=> status[p] = "BLOCKED"
    <3>1. CASE prev # NULL /\ Finished(prev) /\ status' = [status EXCEPT ![prev] = "EXIT"]
      <4>1. CanExit(prev) /\ prev \in Procs
        BY <1>0, <1>9, <3>1 DEF Retire, TypeOK, Halts, Ends
      <4>2. status[prev] # "BLOCKED"
        BY <1>2, <4>1 DEF CanExit, StatusSays
      <4> QED BY <1>1, <3>1, <4>1, <4>2
    <3>2. CASE status' = [status EXCEPT ![prev] = IF @ = "RUNNING" THEN "READY" ELSE @]
      BY <1>1, <3>2
    <3>3. CASE UNCHANGED status
      BY <3>3
    <3> QED BY <1>9, <3>1, <3>2, <3>3 DEF Retire
  <2> QED BY <1>6, <1>9, <2>1, <2>2
<1>10. CASE Dispatch /\ pc' \notin Halts
  <2>1. UNCHANGED <<script, age, to_acquire, holding, forkqueue>> /\ pc = "dispatch"
    BY <1>10 DEF Dispatch
  <2>2. CASE current # NULL
    <3>1. /\ status' = [status EXCEPT ![current] = "RUNNING"] /\ pc' = "acquire" /\ ticks' = ticks
      BY <1>10, <2>2 DEF Dispatch
    <3>2. PhasesToCome' < PhasesToCome
      BY <2>1, <3>1 DEF PhasesToCome
    <3>3. \A p \in Procs : status'[p] = "BLOCKED" <=> status[p] = "BLOCKED"
      BY <1>1, <1>2, <2>1, <2>2, <3>1 DEF OnTheCpu
    <3> QED BY <1>6, <1>10, <2>1, <3>1, <3>2, <3>3
  <2>3. CASE current = NULL
    <3>1. readyqueue = <<>>
      BY <2>1, <2>3 DEF AheadInv, NobodyElse
    <3>2. ticks' = ticks + 1 /\ UNCHANGED status /\ forkqueue # <<>>
      BY <1>10, <2>3, <3>1 DEF Dispatch, Halts, Ends
    <3>3. 1 \in DOMAIN forkqueue
      <4>1. forkqueue \in Seq(Procs) /\ forkqueue # <<>>
        BY <1>1, <3>2
      <4>2. Len(forkqueue) \in Nat /\ Len(forkqueue) # 0 /\ DOMAIN forkqueue = 1..Len(forkqueue)
        BY <4>1, EmptySeq, LenProperties
      <4> QED BY <4>2
    <3>4. forkqueue[1] \in Procs /\ ~Due(forkqueue[1])
      BY <1>0, <2>1, <3>3, ListType DEF AheadInv, ForkedInTime
    <3>5. /\ \A p \in Procs : TicksToStart'[p] <= TicksToStart[p]
          /\ \E p \in Procs : TicksToStart'[p] < TicksToStart[p]
      BY <1>0, <2>1, <3>2, <3>4, TicksPass
    <3>6. UNCHANGED <<Playing, TicksToLive, EntriesToAcquire, EntriesToRelease, ToBeForked,
                      ToBeRefused>>
      BY <1>4, <1>10, <2>1, <3>2, AheadSame
    <3> QED BY <1>0, <3>5, <3>6, AheadFalls
  <2> QED BY <2>2, <2>3
<1>11. CASE Acquire
  <2>1. current \in Procs /\ pc = "acquire" /\ UNCHANGED <<script, age, forkqueue>>
    BY <1>0, <1>11, AcquireStep DEF Acquire
  <2>2. PICK i \in DOMAIN to_acquire[current] :
              LET rs == to_acquire[current][i] IN
              \/ /\ to_acquire' = [to_acquire EXCEPT ![current] = RemoveAt(@, i)]
                 /\ pc' = pc
              \/ /\ Wait(rs.res)
                 /\ UNCHANGED <<to_acquire, holding>>
                 /\ pc' = "fork"
    BY <1>0, <1>11, AcquireStep
  <2>3. CASE to_acquire' = [to_acquire EXCEPT ![current] = RemoveAt(@, i)] /\ pc' = pc
    <3>1. Len(RemoveAt(to_acquire[current], i)) = Len(to_acquire[current]) - 1
      BY <1>1, <2>1, RemoveAtSeq
    <3>2. \A p \in Procs : EntriesToAcquire[p] \in Nat
      BY <1>0 DEF AheadCounts, Procs
    <3>3. /\ EntriesToAcquire'[current] = EntriesToAcquire[current] - 1
          /\ \A p \in Procs : p # current => EntriesToAcquire'[p] = EntriesToAcquire[p]
      BY <1>1, <2>1, <2>3, <3>1 DEF EntriesToAcquire
    <3>4. Falls(EntriesToAcquire', EntriesToAcquire)
      BY <2>1, <3>2, <3>3 DEF Falls
    <3>5. UNCHANGED <<Playing, TicksToLive>>
      BY <2>1, <2>3, AheadSame DEF Playing
    <3> QED BY <1>0, <3>4, <3>5, AheadFalls
  <2>4. CASE /\ Wait(to_acquire[current][i].res) /\ UNCHANGED <<to_acquire, holding>>
             /\ pc' = "fork"
    <3>1. status' = [status EXCEPT ![current] = "BLOCKED"] /\ status[current] = "RUNNING"
      BY <1>0, <2>1, <2>4 DEF Wait, AtWork
    <3>2. \A p \in Procs :
            /\ ToBeRefused[p] = (IF status[p] = "BLOCKED" THEN 0 ELSE 1)
            /\ ToBeRefused'[p] = (IF status'[p] = "BLOCKED" THEN 0 ELSE 1)
      BY DEF ToBeRefused
    <3>3. Falls(ToBeRefused', ToBeRefused)
      <4>1. ToBeRefused'[current] = 0 /\ ToBeRefused[current] = 1
        BY <1>1, <2>1, <3>1, <3>2
      <4>2. \A p \in Procs : p # current => ToBeRefused'[p] = ToBeRefused[p]
        BY <1>1, <3>1, <3>2
      <4>3. \A p \in Procs : ToBeRefused[p] \in Nat
        BY <3>2
      <4> QED BY <2>1, <4>1, <4>2, <4>3 DEF Falls
    <3>4. UNCHANGED <<Playing, TicksToLive, EntriesToAcquire, EntriesToRelease, ToBeForked>>
      BY <2>1, <2>4, AheadSame DEF Playing, Halts, Ends
    <3> QED BY <1>0, <3>3, <3>4, AheadFalls
  <2> QED BY <2>2, <2>3, <2>4
<1>12. CASE Run
  <2>1. /\ current \in Procs /\ pc = "acquire" /\ pc' = "release" /\ script' = script
        /\ age' = [age EXCEPT ![current] = age[current] + 1]
    BY <1>0, <1>12 DEF Run, AtWork, TypeOK
  <2>2. age[current] \in Nat /\ lifespan(current) \in Nat /\ age[current] <= lifespan(current)
    <3>1. age[current] \in Nat /\ lifespan(current) \in Nat
      BY <1>0, <1>1, <2>1, ScriptType
    <3>2. Alive(current)
      BY <2>1 DEF Alive
    <3> QED BY <2>1, <3>1, <3>2 DEF AheadInv, LifeInv, InTime, Intact
  <2>3. \A p \in Procs :
          /\ TicksToLive[p] = IF age[p] <= lifespan(p) THEN (lifespan(p) + 1) - age[p] ELSE 0
          /\ TicksToLive'[p] = IF age'[p] <= lifespan(p) THEN (lifespan(p) + 1) - age'[p] ELSE 0
    BY <2>1 DEF TicksToLive, lifespan
  <2>4. TicksToLive'[current] < TicksToLive[current]
    <3>1. age'[current] = age[current] + 1
      BY <1>1, <2>1
    <3> QED BY <2>1, <2>2, <2>3, <3>1
  <2>5. \A p \in Procs : p # current => TicksToLive'[p] = TicksToLive[p]
    BY <1>1, <2>1, <2>3
  <2>6. Falls(TicksToLive', TicksToLive)
    <3>1. \A p \in Procs : TicksToLive[p] \in Nat
      BY <1>0 DEF AheadCounts, Procs
    <3>2. ASSUME NEW p \in Procs PROVE TicksToLive'[p] <= TicksToLive[p]
      <4>1. TicksToLive'[p] \in Nat /\ TicksToLive[p] \in Nat
        BY <1>0 DEF AheadCounts, Procs
      <4> QED BY <2>4, <2>5, <4>1
    <3> QED BY <2>1, <2>4, <3>2 DEF Falls
  <2>7. Playing' = Playing
    BY <2>1 DEF Playing, Halts, Ends
  <2> QED BY <1>0, <2>6, <2>7, AheadFalls
<1>13. CASE Release
  <2>1. current \in Procs /\ UNCHANGED <<pc, script, age, to_acquire>>
    BY <1>0, <1>13, ReleaseStep DEF Release
  <2>2. PICK i \in DOMAIN holding[current] :
          holding' = [holding EXCEPT ![current] = RemoveAt(@, i)]
    BY <1>13 DEF Release
  <2>3. Len(RemoveAt(holding[current], i)) = Len(holding[current]) - 1
    BY <1>1, <2>1, RemoveAtSeq
  <2>4. /\ EntriesToRelease'[current] = EntriesToRelease[current] - 1
        /\ \A p \in Procs : p # current => EntriesToRelease'[p] = EntriesToRelease[p]
    BY <1>1, <2>1, <2>2, <2>3 DEF EntriesToRelease
  <2>5. Falls(EntriesToRelease', EntriesToRelease)
    <3>1. \A p \in Procs : EntriesToRelease[p] \in Nat
      BY <1>0 DEF AheadCounts, Procs
    <3> QED BY <2>1, <2>4, <3>1 DEF Falls
  <2>6. UNCHANGED <<Playing, TicksToLive, EntriesToAcquire>>
    BY <2>1, AheadSame DEF Playing
  <2> QED BY <1>0, <2>5, <2>6, AheadFalls
<1>14. CASE Tick
  <2>1. PhasesToCome' < PhasesToCome /\ pc' \notin Halts
    BY <1>14 DEF Tick, PhasesToCome, Halts, Ends
  <2> QED BY <1>6, <1>14, <2>1 DEF Tick
<1>15. CASE Ended
  BY <1>15 DEF Ended
<1> QED BY <1>3, <1>5, <1>7, <1>8, <1>9, <1>10, <1>11, <1>12, <1>13, <1>14, <1>15 DEF Next

(* What a process has before it is used up by the steps of the framework   *)
(* and never grows back without something that counts for more being used  *)
(* up, whatever the script says (malformed ones too) and whoever           *)
(* schedules: so there are finitely many steps (LexWellFounded) before the *)
(* program ends or the model ceases to follow it.  Only rr and stcf can    *)
(* bring the second about; of what the program does then nothing is said.  *)
SimulationProgresses == [][pc \notin Ends => LexBelow(Ahead', Ahead)]_vars
THEOREM SimulationsComeToAnEnd ==
  ASSUME ShortLives
  PROVE  Spec => /\ [](Ahead \in [1..(2 + 6 * N) -> Nat])
                 /\ SimulationProgresses
                 /\ [](pc = "corrupt" => sched \in Relinking)
<1>1. AheadInv => Ahead \in [1..(2 + 6 * N) -> Nat]
  BY DEF AheadInv, AheadSums
<1>2. AheadInv /\ AheadInv' /\ [Next]_vars => [pc \notin Ends => LexBelow(Ahead', Ahead)]_vars
  <2>1. Next /\ pc = "corrupt" => UNCHANGED vars
    BY DEF Next, ForkOnSchedule, ForkDone, Schedule, Retire, Dispatch, Acquire, Run, Release,
           Tick, Ended
  <2> QED BY <2>1, AheadGoesDown DEF Halts
<1>3. (pc = "corrupt" => Relinked) => (pc = "corrupt" => sched \in Relinking)
  BY DEF Relinked
<1> QED BY <1>1, <1>2, <1>3, AheadAlways, RelinkedAlways, PTL DEF Spec, SimulationProgresses

-----------------------------------------------------------------------------
(* There is always a step to take.                                         *)

(* So the scans of a queue find somebody. *)
LEMMA ScanFindsHighest ==
  ASSUME NEW q \in Seq(Procs), q # <<>>, NEW pr \in [Procs -> Nat]
  PROVE  \E i \in DOMAIN q : FirstHighest(q, pr, i)
<1> DEFINE v == [i \in 1..Len(q) |-> 0 - pr[q[i]]]
<1>1. /\ Len(q) \in Nat /\ Len(q) # 0 /\ DOMAIN q = 1..Len(q)
      /\ \A i \in 1..Len(q) : pr[q[i]] \in Nat
  <2>1. Len(q) \in Nat /\ Len(q) # 0 /\ DOMAIN q = 1..Len(q)
    BY EmptySeq, LenProperties
  <2>2. \A i \in 1..Len(q) : q[i] \in Procs
    BY <2>1, ElementOfSeq
  <2> QED BY <2>1, <2>2
<1>2. v \in [1..Len(q) -> Int]
  BY <1>1
<1> HIDE DEF v
<1>3. PICK i \in 1..Len(q) : \A j \in 1..Len(q) : v[i] <= v[j] /\ (j < i => v[i] < v[j])
  BY <1>1, <1>2, FirstSmallest
<1>4. ASSUME NEW j \in 1..Len(q) PROVE pr[q[i]] >= pr[q[j]] /\ (j < i => pr[q[i]] > pr[q[j]])
  <2>1. v[i] = 0 - pr[q[i]] /\ v[j] = 0 - pr[q[j]]
    BY DEF v
  <2> QED BY <1>1, <1>3, <2>1
<1> QED BY <1>1, <1>4 DEF FirstHighest

LEMMA ScanFindsShortest ==
  ASSUME TypeOK, readyqueue # <<>>
  PROVE  /\ \E i \in DOMAIN readyqueue : FirstShortestJob(i)
         /\ \/ \E i \in DOMAIN readyqueue : FirstShortestToComplete(i)
            \/ \A j \in DOMAIN readyqueue : Remaining(readyqueue[j]) >= TimeToBeat
<1>1. /\ Len(readyqueue) \in Nat /\ Len(readyqueue) # 0 /\ DOMAIN readyqueue = 1..Len(readyqueue)
      /\ \A i \in 1..Len(readyqueue) : readyqueue[i] \in Procs
  BY EmptySeq, LenProperties, ElementOfSeq DEF TypeOK
<1>2. \A p \in Procs : lifespan(p) \in Nat /\ Remaining(p) \in Int
  <2>1. \A p \in Procs : lifespan(p) \in Nat /\ age[p] \in Nat
    BY ScriptType DEF TypeOK
  <2> QED BY <2>1 DEF Remaining
<1>3. TimeToBeat \in Int
  BY <1>2, NumberAssumption DEF TimeToBeat, CanStay, OnCpu, TypeOK
<1> DEFINE v == [i \in 1..Len(readyqueue) |-> lifespan(readyqueue[i])]
           w == [i \in 1..Len(readyqueue) |-> Remaining(readyqueue[i])]
<1>4. v \in [1..Len(readyqueue) -> Int] /\ w \in [1..Len(readyqueue) -> Int]
  BY <1>1, <1>2
<1> HIDE DEF v, w
<1>5. PICK i \in 1..Len(readyqueue) :
        \A j \in 1..Len(readyqueue) : v[i] <= v[j] /\ (j < i => v[i] < v[j])
  BY <1>1, <1>4, FirstSmallest
<1>6. PICK k \in 1..Len(readyqueue) :
        \A j \in 1..Len(readyqueue) : w[k] <= w[j] /\ (j < k => w[k] < w[j])
  BY <1>1, <1>4, FirstSmallest
<1>7. FirstShortestJob(i)
  BY <1>1, <1>5 DEF FirstShortestJob, v
<1>8. Remaining(readyqueue[k]) < TimeToBeat => FirstShortestToComplete(k)
  BY <1>1, <1>6 DEF FirstShortestToComplete, w
<1>9. Remaining(readyqueue[k]) >= TimeToBeat =>
        \A j \in DOMAIN readyqueue : Remaining(readyqueue[j]) >= TimeToBeat
  <2> SUFFICES ASSUME Remaining(readyqueue[k]) >= TimeToBeat, NEW j \in DOMAIN readyqueue
               PROVE  Remaining(readyqueue[j]) >= TimeToBeat
    OBVIOUS
  <2>1. Remaining(readyqueue[k]) <= Remaining(readyqueue[j])
    BY <1>1, <1>6 DEF w
  <2>2. Remaining(readyqueue[k]) \in Int /\ Remaining(readyqueue[j]) \in Int
    BY <1>1, <1>2
  <2> QED BY <1>3, <2>1, <2>2
<1>10. Remaining(readyqueue[k]) \in Int
  BY <1>1, <1>2
<1> QED BY <1>1, <1>3, <1>7, <1>8, <1>9, <1>10

-----------------------------------------------------------------------------
(* When each step can be taken, read off the actions.                      *)

CanFork ==
  \E i \in DOMAIN forkqueue :
    Due(forkqueue[i]) /\ \A j \in 1..(i - 1) : ~Due(forkqueue[j])
CanEndForking == \A i \in DOMAIN forkqueue : ~Due(forkqueue[i])

(* The scheduler comes to a decision. *)
CanSchedule ==
  \/ sched \in {"fifo", "rr"}
  \/ /\ sched = "sjf"
     /\ CanStay \/ readyqueue = <<>> \/ \E i \in DOMAIN readyqueue : FirstShortestJob(i)
  \/ /\ sched = "stcf"
     /\ \/ ~CanStay /\ readyqueue = <<>>
        \/ /\ CanStay \/ readyqueue # <<>>
           /\ \A j \in DOMAIN readyqueue : Remaining(readyqueue[j]) >= TimeToBeat
        \/ \E i \in DOMAIN readyqueue : FirstShortestToComplete(i)
  \/ /\ sched \in {"prio", "pcp", "pip"}
     /\ readyqueue = <<>> \/ \E i \in DOMAIN readyqueue : FirstHighest(readyqueue, prio, i)
  \/ /\ sched = "pa"
     /\ readyqueue = <<>> \/ \E i \in DOMAIN readyqueue : FirstHighest(readyqueue, AgedPrio, i)

(* The assertions of __do_simulation. *)
CanDispatch ==
  current # NULL => /\ ~InQueue(current, readyqueue)
                    /\ \A r \in Resources : ~InQueue(current, waitqueue[r])

CanAcquire == \E i \in DOMAIN to_acquire[current] : FirstDue(current, i)

(* The assertions of the release() callbacks: current owns the resource,   *)
(* and the process that is woken was blocked.                              *)
CanWake(r) ==
  \/ waitqueue[r] = <<>>
  \/ \E k \in DOMAIN waitqueue[r] :
       /\ IF sched \in FcfsSchedulers THEN k = 1 ELSE FirstHighest(waitqueue[r], prio, k)
       /\ status[waitqueue[r][k]] = "BLOCKED"
CanRelease ==
  \E i \in DOMAIN holding[current] :
    LET r == holding[current][i].res IN
    FirstUsedUp(current, i) /\ owner[r] = current /\ CanWake(r)
CanTick == \A i \in DOMAIN holding[current] : holding[current][i].duration # 0

GoesOn ==
  /\ pc = "fork" => CanFork \/ CanEndForking
  /\ pc = "schedule" => CanSchedule
  /\ pc = "dispatch" => CanDispatch
  /\ pc = "acquire" => CanAcquire \/ NothingDue(current)
  /\ pc = "release" => CanRelease \/ CanTick
  /\ pc = "corrupt" => Relinked

(* As long as no scheduler has relinked a process that waits, no assertion *)
(* of the framework or of a scheduler but those of __exit_process fails,   *)
(* and every scan finds what it looks for, for every script.  Under all    *)
(* schedulers but rr and stcf a simulation comes to a stop in its ends     *)
(* only; under these two it does, or the model stops where one of them has *)
(* put the process of the last tick, which waits, into the ready queue.    *)
THEOREM SimulationGoesOn ==
  ASSUME ShortLives
  PROVE  Spec => []GoesOn
<1>1. ASSUME PlaceInv, OwnerHolds, pc = "corrupt" => Relinked PROVE GoesOn
  <2>0. /\ TypeOK /\ AtWork /\ CurrentDetached /\ PlaceParts
    BY <1>1 DEF PlaceInv, InPlace
  <2>1. ASSUME pc = "fork", ~CanEndForking PROVE CanFork
    <3> DEFINE S == { i \in DOMAIN forkqueue : Due(forkqueue[i]) }
    <3>1. Len(forkqueue) \in Nat /\ DOMAIN forkqueue = 1..Len(forkqueue)
      BY <2>0, LenProperties DEF TypeOK
    <3>2. S \in SUBSET (1..Len(forkqueue)) /\ S # {}
      BY <2>1, <3>1 DEF CanEndForking
    <3>3. PICK i \in S : \A j \in 1..(i - 1) : j \notin S
      <4> HIDE DEF S
      <4> QED BY <3>1, <3>2, FirstOfAll
    <3>4. \A j \in 1..(i - 1) : j \in DOMAIN forkqueue
      BY <3>1
    <3> QED BY <3>3, <3>4 DEF CanFork
  <2>2. ASSUME pc = "schedule" PROVE CanSchedule
    <3>1. sched \in AllSchedulers /\ readyqueue \in Seq(Procs) /\ prio \in [Procs -> Nat]
      BY <2>0, SchedulersAssumption DEF TypeOK
    <3>2. AgedPrio \in [Procs -> Nat]
      BY <3>1 DEF AgedPrio
    <3>3. readyqueue # <<>> =>
            /\ \E i \in DOMAIN readyqueue : FirstHighest(readyqueue, prio, i)
            /\ \E i \in DOMAIN readyqueue : FirstHighest(readyqueue, AgedPrio, i)
      BY <3>1, <3>2, ScanFindsHighest
    <3>4. readyqueue # <<>> =>
            /\ \E i \in DOMAIN readyqueue : FirstShortestJob(i)
            /\ \/ \E i \in DOMAIN readyqueue : FirstShortestToComplete(i)
               \/ \A j \in DOMAIN readyqueue : Remaining(readyqueue[j]) >= TimeToBeat
      BY <2>0, ScanFindsShortest
    <3>5. readyqueue = <<>> => DOMAIN readyqueue = {}
      OBVIOUS
    <3> QED BY <3>1, <3>3, <3>4, <3>5
            DEF CanSchedule, AllSchedulers, FcfsSchedulers, PrioSchedulers
  <2>3. ASSUME pc = "dispatch" PROVE CanDispatch
    <3> SUFFICES ASSUME current # NULL
                 PROVE  /\ ~InQueue(current, readyqueue)
                        /\ \A r \in Resources : ~InQueue(current, waitqueue[r])
      BY DEF CanDispatch
    <3>1. current \in Procs /\ Intact
      BY <2>0, <2>3 DEF TypeOK, Intact
    <3>2. status[current] # "BLOCKED"
      BY <2>0, <2>3, <3>1 DEF PlaceParts, OnTheCpu
    <3> QED BY <2>0, <3>1, <3>2 DEF CurrentDetached, PlaceParts, Apart
  <2>4. ASSUME pc = "acquire", ~NothingDue(current) PROVE CanAcquire
    <3> DEFINE S == { i \in DOMAIN to_acquire[current] : to_acquire[current][i].at = age[current] }
               n == Len(to_acquire[current])
    <3>1. to_acquire[current] \in Seq(ResourceSchedule)
      BY <2>0, <2>4 DEF AtWork, TypeOK
    <3>2. n \in Nat /\ DOMAIN to_acquire[current] = 1..n
      BY <3>1, LenProperties
    <3>3. S \in SUBSET (1..n) /\ S # {}
      BY <2>4, <3>2 DEF NothingDue
    <3>4. PICK i \in S : \A j \in 1..(i - 1) : j \notin S
      <4> HIDE DEF S, n
      <4> QED BY <3>2, <3>3, FirstOfAll
    <3>5. \A j \in 1..(i - 1) : j \in DOMAIN to_acquire[current]
      <4> HIDE DEF n
      <4> QED BY <3>2, <3>3
    <3> QED BY <3>4, <3>5 DEF CanAcquire, FirstDue
  <2>5. ASSUME pc = "release", ~CanTick PROVE CanRelease
    <3> DEFINE S == { i \in DOMAIN holding[current] : holding[current][i].duration = 0 }
               n == Len(holding[current])
    <3>1. current \in Procs /\ current # NULL /\ holding[current] \in Seq(ResourceSchedule)
      BY <2>0, <2>5 DEF AtWork, TypeOK
    <3>2. n \in Nat /\ DOMAIN holding[current] = 1..n
      BY <3>1, LenProperties
    <3>3. S \in SUBSET (1..n) /\ S # {}
      BY <2>5, <3>2 DEF CanTick
    <3>4. PICK i \in S : \A j \in 1..(i - 1) : j \notin S
      <4> HIDE DEF S, n
      <4> QED BY <3>2, <3>3, FirstOfAll
    <3>5. \A j \in 1..(i - 1) : j \in DOMAIN holding[current]
      <4> HIDE DEF n
      <4> QED BY <3>2, <3>3
    <3>6. FirstUsedUp(current, i)
      BY <3>4, <3>5 DEF FirstUsedUp
    <3> DEFINE r == holding[current][i].res
    <3>7. r \in Resources /\ owner[r] = current
      <4>1. i \in DOMAIN holding[current] /\ holding[current][i] \in ResourceSchedule
        BY <2>0, <3>1, <3>4, ListType
      <4>2. r \in Resources /\ Holds(current, r)
        BY <4>1 DEF ResourceSchedule, Holds
      <4> QED BY <1>1, <3>1, <4>2 DEF OwnerHolds
    <3> HIDE DEF r, S
    <3>8. CanWake(r)
      <4> SUFFICES ASSUME waitqueue[r] # <<>> PROVE CanWake(r)
        BY DEF CanWake
      <4>1. waitqueue[r] \in Seq(Procs) /\ prio \in [Procs -> Nat]
        BY <2>0, <3>7 DEF TypeOK
      <4>2. 1 \in DOMAIN waitqueue[r]
        <5>1. /\ Len(waitqueue[r]) \in Nat /\ Len(waitqueue[r]) # 0
              /\ DOMAIN waitqueue[r] = 1..Len(waitqueue[r])
          BY <4>1, EmptySeq, LenProperties
        <5> QED BY <5>1
      <4>3. \E k \in DOMAIN waitqueue[r] : FirstHighest(waitqueue[r], prio, k)
        BY <4>1, ScanFindsHighest
      <4>4. ASSUME NEW k \in DOMAIN waitqueue[r] PROVE status[waitqueue[r][k]] = "BLOCKED"
        <5>1. waitqueue[r][k] \in Procs /\ InQueue(waitqueue[r][k], waitqueue[r])
          BY <2>0, <3>7, ListType DEF InQueue
        <5> QED BY <2>0, <2>5, <3>7, <5>1 DEF PlaceParts, Intact, Apart
      <4> QED BY <4>2, <4>3, <4>4 DEF CanWake
    <3>9. i \in DOMAIN holding[current]
      BY <3>4 DEF S
    <3> QED BY <3>6, <3>7, <3>8, <3>9 DEF CanRelease, r
  <2> QED BY <1>1, <2>1, <2>2, <2>3, <2>4, <2>5 DEF GoesOn
<1> QED BY <1>1, PlaceAlways, OwnershipAgrees, RelinkedAlways, PTL
=============================================================================
