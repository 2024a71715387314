---------------------------- MODULE MemoryProps -----------------------------
(***************************************************************************)
(* What is right about the virtual memory simulator, and what a user has   *)
(* to do for it (VirtualMemory!MayAsk).                                    *)
(***************************************************************************)
EXTENDS VirtualMemory, FiniteSets

Stopped == pc \in {"exit", "abort", "crash"}

(* The mappings of the frame f. *)
Mappings(f) ==
  { m \in Procs \X Vpns :
      pagetable[m[1]][m[2]].valid /\ pagetable[m[1]][m[2]].pfn = f }

(* Type correctness of the simulator's state.                              *)
TypeOK ==
  /\ use_tlb \in BOOLEAN
  /\ pc \in {"command", "translate", "fault", "alloc", "free", "untlb", "switch",
             "fork", "exit", "abort", "crash", "corrupt"}
  /\ command \in Commands \union {NoCommand}
  /\ retries \in 0..2
  /\ reply \in {"none", "granted", "denied", "silent"}
  /\ created \in Procs
  /\ pid \in [Procs -> Pids]
  /\ current \in 1..created /\ ptbr \in 1..created
  /\ processes \in Seq(1..created)
  /\ child \in Procs \union {NOBODY}
  /\ directories \in [Procs -> SUBSET (0..(NR_PTES_PER_PAGE - 1))]
  /\ pagetable \in [Procs -> [Vpns -> PTE]]
  /\ mapcounts \in [Frames -> 0..(UINT_MOD - 1)]
  /\ tlb \in Seq(TlbEntry)

-----------------------------------------------------------------------------
(* README.md:29: "mapcounts[] is an array that is supposed to     *)
(* contain the numbers of PTE mappings to each page frame": through        *)
(* allocation, free, fork and both kinds of copy-on-write fault.           *)
MapcountsCount == \A f \in Frames : mapcounts[f] = Cardinality(Mappings(f))

(* A frame that several pages map, of one process or of two, is writable   *)
(* through none of them.                                                   *)
SharedIsReadOnly ==
  \A f \in Frames : Cardinality(Mappings(f)) > 1 =>
    \A m \in Mappings(f) : ~MayWrite(pagetable[m[1]][m[2]].rw)

(* No step makes a page that was allocated for reading writable, in any    *)
(* process, whatever is forked, copied, freed or faulted around it.        *)
BecomesWritable(p, v) ==
  /\ pagetable[p][v].valid /\ pagetable'[p][v].valid
  /\ pagetable[p][v].private = ACCESS_READ
  /\ MayWrite(pagetable'[p][v].rw) \/ pagetable'[p][v].private # ACCESS_READ
ReadOnlyStays == [][\A p \in Procs, v \in Vpns : ~BecomesWritable(p, v)]_vars

(* The running process and the list hold every process once.               *)
EveryProcessOnce ==
  pc \notin {"corrupt", "fork"} =>
    /\ \A p \in 1..created :
         p # current <=> \E k \in DOMAIN processes : processes[k] = p
    /\ Len(processes) = created - 1

(* An entry of the TLB that grants writes agrees with the page table of    *)
(* the running process: a write never goes to another frame, nor around a  *)
(* copy-on-write.                                                          *)
WriteHitsAgree ==
  pc = "command" =>
  \A i \in DOMAIN tlb : MayWrite(tlb[i].rw) =>
    LET pte == pagetable[current][tlb[i].vpn] IN
    pte.valid /\ MayWrite(pte.rw) /\ pte.pfn = tlb[i].pfn

(* Every command is finished: the translation is not retried for ever, and *)
(* the loop over the page table comes to an end.  Nothing is said of a     *)
(* program that has left its data structures.  With the TLB this does not  *)
(* hold: free_page may search it for ever.                                 *)
CommandsEnd == [](pc # "corrupt") => ((pc # "command") ~> (pc = "command" \/ Stopped))

-----------------------------------------------------------------------------
(* The simulator gives a careful user what AddressSpaces promises, with    *)
(* the TLB and without.                                                    *)
Exists(p) == p \in 1..created /\ p # child
Spaces == INSTANCE AddressSpaces WITH
  READ <- ACCESS_READ,
  asked <- command,
  answer <- reply,
  running <- current,
  names <- [p \in { q \in Procs : Exists(q) } |-> pid[p]],
  rights <- [p \in Procs |-> [v \in Vpns |->
    IF ~Exists(p) \/ ~pagetable[p][v].valid THEN "none"
    ELSE IF pagetable[p][v].private = ACCESS_READ THEN "r" ELSE "rw"]]

(* Accesses are granted and denied as the rights of the page demand,       *)
(* before and after forks and copies.                                      *)
ImplementsAddressSpaces == Spaces!Spec

-----------------------------------------------------------------------------
(* Statements of the sources that do not hold for every user.              *)

(* README.md:33: "subsequent accesses to the freed VPN should be denied by *)
(* MMU".  A page that is not there is never granted.                       *)
GrantsAbsent ==
  /\ pc \in {"translate", "fault"} /\ command.op = "access"
  /\ reply' \in {"granted", "silent"}
  /\ ~pagetable[current][command.vpn].valid
AbsentIsDenied == [][~GrantsAbsent]_vars

(* handle_page_fault handles the cases "0. page directory is invalid" ...  *)
(* and returns "@false otherwise" (pa3.c:216-226).                         *)
FaultsReturn == pc # "crash"

(* vm.c:314: "write [vpn] : Equivalent to access @vpn w".  Both are denied *)
(* only on pages without the right to write.                               *)
DeniesWritable ==
  /\ command.op = "access" /\ reply = "none" /\ reply' = "denied"
  /\ pagetable[current][command.vpn].valid
  /\ pagetable[current][command.vpn].private # ACCESS_READ
WritesGranted == [][~DeniesWritable]_vars

(* README.md:48: "TLB is a cache of the page table.  This implies, when    *)
(* something is changed in the page table, corresponding TLB should be     *)
(* also updated."                                                          *)
TlbAgrees ==
  pc = "command" =>
  \A i \in DOMAIN tlb :
    LET pte == pagetable[current][tlb[i].vpn] IN
    pte.valid /\ pte.pfn = tlb[i].pfn

(* pa3.c:91: "TLB is big enough to cache all the entries of the current    *)
(* page table".                                                            *)
TlbHasRoom == Len(tlb) < NR_TLB_ENTRIES

(* README.md:70: "Find the target process from the `processes` list, and   *)
(* if it exists, do the context switching".  The head of the list is never *)
(* taken for a process.                                                    *)
SwitchesToListed == pc # "corrupt"

(* vm.c:305: "Fork @pid if there is no process with the pid".              *)
UniquePids ==
  \A p, q \in 1..created : Exists(p) /\ Exists(q) /\ pid[p] = pid[q] => p = q
=============================================================================
