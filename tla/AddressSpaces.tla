--------------------------- MODULE AddressSpaces ----------------------------
(***************************************************************************)
(* What the virtual memory simulator of os-pa3 promises its user (README,  *)
(* "Problem Specification"): every process has pages of its own, each of   *)
(* which may be read, or read and written; a fork gives the child the      *)
(* pages of its parent with the same rights; and an access is granted      *)
(* exactly if the rights allow it.  There are no frames, page tables,      *)
(* faults, shared pages or TLB here.                                       *)
(***************************************************************************)
EXTENDS Integers

CONSTANTS Procs, Vpns, Commands, READ, NoCommand

VARIABLES
  asked,       (* the command in hand                                      *)
  answer,      (* what an access was told                                  *)
  running,     (* the process the commands are for                         *)
  names,       (* names[p]: the pid of p, for the processes that exist     *)
  rights       (* rights[p][v]: "none", "r" or "rw"                        *)

avars == <<asked, answer, running, names, rights>>

Init ==
  /\ asked = NoCommand
  /\ answer = "none"
  /\ running = 1
  /\ names = [p \in {1} |-> 0]
  /\ rights = [p \in Procs |-> [v \in Vpns |-> "none"]]

Mine(v) == rights[running][v]

Done == asked' = NoCommand

Ask ==
  /\ asked = NoCommand
  /\ asked' \in Commands
  /\ answer' = "none"
  /\ UNCHANGED <<running, names, rights>>

Allowed == IF asked.rw = READ THEN Mine(asked.vpn) # "none" ELSE Mine(asked.vpn) = "rw"

Access ==
  /\ asked.op = "access"
  /\ answer' = IF Allowed THEN "granted" ELSE "denied"
  /\ Done
  /\ UNCHANGED <<running, names, rights>>

Allocate ==
  /\ asked.op = "alloc" /\ Mine(asked.vpn) = "none"
  /\ rights' = [rights EXCEPT ![running][asked.vpn] =
                  IF asked.rw = READ THEN "r" ELSE "rw"]
  /\ Done
  /\ UNCHANGED <<answer, running, names>>

(* The page is gone at once; the command may take longer.                  *)
Free ==
  /\ asked.op = "free" /\ Mine(asked.vpn) # "none"
  /\ rights' = [rights EXCEPT ![running][asked.vpn] = "none"]
  /\ Done \/ UNCHANGED asked
  /\ UNCHANGED <<answer, running, names>>

NothingToFree ==
  /\ asked.op = "free" /\ Mine(asked.vpn) = "none"
  /\ Done
  /\ answer' \in {answer, "denied"}
  /\ UNCHANGED <<running, names, rights>>

Switch ==
  /\ asked.op = "switch"
  /\ \E p \in DOMAIN names \ {running} : names[p] = asked.pid /\ running' = p
  /\ Done
  /\ UNCHANGED <<answer, names, rights>>

Fork ==
  /\ asked.op = "switch"
  /\ \A p \in DOMAIN names : names[p] # asked.pid
  /\ \E child \in Procs \ DOMAIN names :
       /\ running' = child
       /\ names' = [p \in DOMAIN names \union {child} |->
                      IF p = child THEN asked.pid ELSE names[p]]
       /\ rights' = [rights EXCEPT ![child] = rights[running]]
  /\ Done
  /\ UNCHANGED answer

Next ==
  Ask \/ Access \/ Allocate \/ Free \/ NothingToFree \/ Switch \/ Fork

Spec == Init /\ [][Next]_avars
=============================================================================
