------------------------------- MODULE MCSim --------------------------------
(***************************************************************************)
(* Small instances of the simulator for TLC: families of scripts with N    *)
(* processes over the resources "a" and "b".  Given its script and         *)
(* scheduler a simulation is deterministic, so what the runs explore is    *)
(* every script of a family under every scheduler of the run.              *)
(***************************************************************************)
EXTENDS PolicyProps

Use(r, at, d) == [res |-> r, at |-> at, duration |-> d]
Desc(s, l, p, a) == [start |-> s, lifespan |-> l, prio |-> p, acquires |-> a]

Everything == AllSchedulers
RoundRobin == {"rr"}
Inheritance == {"pip"}
Aging == {"pa"}
Stcf == {"stcf"}

(* Overlapping uses, in both orders, and a resource asked for while held.  *)
NestedUses ==
  { <<>>,
    <<Use("a", 0, 3), Use("b", 1, 1)>>,
    <<Use("b", 0, 2), Use("a", 1, 2)>>,
    <<Use("a", 0, 1), Use("b", 0, 2)>>,
    <<Use("b", 1, 2), Use("a", 1, 1)>> }

NestedScripts ==
  [1..3 -> { Desc(0, 3, p, a) : p \in {0, 1}, a \in NestedUses }
           \union { Desc(s, 3, 2, <<Use("a", 0, 2), Use("b", 1, 1)>>) : s \in {1, 2} }
           \union { Desc(0, 2, 1, <<Use("a", 0, 2), Use("a", 1, 1)>>) }]

(* A process that waits for "a" is asked for "b" by one of a high priority *)
(* after another has been woken to take "a".                               *)
OvertakenScripts ==
  { <<Desc(0, 4, 0, <<Use("a", 0, 3)>>), Desc(0, 4, 0, <<Use("b", 0, 4), Use("a", 1, 1)>>),
      Desc(4, 2, 1, <<Use("a", 0, 1)>>), Desc(t, 2, 2, <<Use("b", 0, 1)>>)>> : t \in 4..9 }

(* The first process takes both resources in its first tick and gives one  *)
(* back before the other.  Those that come later ask for one resource      *)
(* only: nobody waits for somebody who waits.                              *)
ReleasedEarly ==
  { Desc(0, 4, 0, a) : a \in { <<Use("a", 0, 4), Use("b", 0, 2)>>,
                               <<Use("b", 0, 4), Use("a", 0, 2)>> } }
LateComers ==
  { Desc(s, 2, p, a) : s \in {1, 2}, p \in {1, 2},
                       a \in {<<>>, <<Use("a", 0, 1)>>, <<Use("b", 0, 1)>>} }
ReleasedEarlyScripts ==
  { <<d, e, f>> : d \in ReleasedEarly, e \in LateComers, f \in LateComers }

(* One resource at a time. *)
SingleUses ==
  { <<>>, <<Use("a", 0, 2)>>, <<Use("a", 1, 1), Use("b", 2, 1)>>,
    <<Use("b", 2, 1), Use("b", 0, 2)>> }

SingleScripts ==
  [1..3 -> { Desc(0, 3, p, a) : p \in {0, 1}, a \in SingleUses }
           \union { Desc(s, 3, 2, a) : s \in {1, 2}, a \in SingleUses }]

(* No resources: arrivals, lifespans and priorities. *)
PlainScripts ==
  [1..4 -> { Desc(s, l, p, <<>>) : s \in {0, 1}, l \in {1, 3}, p \in {0, 2} }]
  \union
  { Append(d, Desc(3, 1, 0, <<>>)) :
      d \in [1..3 -> { Desc(s, l, 0, <<>>) : s \in 0..2, l \in 1..3 }] }

(* Priorities at the ceiling. *)
CeilingScripts ==
  [1..3 -> { Desc(0, 2, p, <<>>) : p \in {MAX_PRIO - 1, MAX_PRIO} }]

(* Lifespans around the constant stcf_schedule takes for infinity. *)
LongScripts ==
  [1..2 -> { Desc(0, l, 0, <<>>) : l \in {1, MAX_TC} }]

MalformedUses ==
  { <<Use("a", 0, 1)>>, <<Use("a", 0, 0)>>, <<Use("a", 2, 1)>>,
    <<Use("a", 1, 2)>>, <<Use("b", 0, 1), Use("a", 1, 1)>> }
MalformedScripts ==
  [1..3 -> { Desc(0, l, 0, a) : l \in {0, 2}, a \in MalformedUses }]

(* Well-formed scripts without overlapping uses, and malformed ones. *)
UsesScripts == SingleScripts \union MalformedScripts

-----------------------------------------------------------------------------
(* The file that describes a script, as those in testcases/ are written,   *)
(* and files with one line more.                                           *)
Loading == INSTANCE Loader

Number(r) == CHOOSE i \in 1..2 : <<"a", "b">>[i] = r
Written(d) ==
  <<<<"process", "1">>, <<"start", ToString(d.start)>>,
    <<"lifespan", ToString(d.lifespan)>>, <<"prio", ToString(d.prio)>>>>
  \o [k \in DOMAIN d.acquires |->
       <<"acquire", ToString(Number(d.acquires[k].res)), ToString(d.acquires[k].at),
         ToString(d.acquires[k].duration), "#", "use">>]
  \o <<<<"end">>, <<>>>>
WrittenFile == FlattenSeq([p \in Procs |-> Written(script[p])])
OneLineMore ==
  { InsertAt(WrittenFile, i, l) :
      i \in {1, 4, Len(Written(script[1])) - 1, Len(Written(script[1])) + 1},
      l \in { <<"process", "7">>, <<"end">>, <<"lifespan", "5", "#end">>, <<"prio">>,
              <<"acquire", "2", "x", "1">>, <<"acquire", "2">>, <<"nice", "1">>, <<"#end">> } }

(* A simulation begins with the processes that its file describes, in the  *)
(* order of their blocks; and a file with one line more, in the wrong      *)
(* place perhaps, is loaded, or refused, as the reading of the whole file  *)
(* says.  Loading knows nothing of schedulers, so one is enough, and two    *)
(* different processes are enough for a line too many.                     *)
Beginning == sched = "fifo" /\ pc = "fork" /\ ticks = 0 /\ forkqueue = [p \in Procs |-> p]
Numbered(d) ==
  [d EXCEPT !.acquires = [k \in DOMAIN @ |-> [@[k] EXCEPT !.res = Number(@)]]]
ScriptsLoad ==
  Beginning =>
    /\ Loading!Load(WrittenFile).forkqueue = [p \in Procs |-> Numbered(script[p])]
    /\ script[2] = script[3] => \A file \in OneLineMore : Loading!LoadsAsDescribed(file)
=============================================================================
