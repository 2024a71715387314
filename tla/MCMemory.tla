------------------------------ MODULE MCMemory ------------------------------
(* TLC instances of the virtual memory simulator. *)
EXTENDS MemoryProps

Off == {FALSE}
On == {TRUE}
OnOrOff == BOOLEAN

Careful == Rules
Careless == {}
NotMapped == Rules \ {"mapped"}
NotFrames == Rules \ {"frames"}
NotWrite == Rules \ {"write"}
NotFree == Rules \ {"free"}
NotOthers == Rules \ {"others"}
(* Which of the new pids a fork takes makes no difference: the next one. *)
PidsInOrder == \A p \in 1..created : p = child \/ pid[p] = p - 1
=============================================================================
