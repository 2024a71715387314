--------------------------- MODULE VirtualMemory ----------------------------
(***************************************************************************)
(* The virtual memory simulator of os-pa3: the command loop and the MMU of *)
(* vm.c, and the operating system's part in pa3.c - page allocation, the   *)
(* page fault handler with copy-on-write, context switch and fork - with   *)
(* the TLB.                                                                *)
(*                                                                         *)
(* pc names what the program does next:                                    *)
(*   "command"    wait for the next command                                *)
(*   "translate"  ask the MMU        "fault"  call handle_page_fault       *)
(*   "alloc"      call alloc_page    "free"   call free_page               *)
(*   "untlb"      the second half of free_page: the search of the TLB      *)
(*   "switch"     call switch_process                                      *)
(*   "fork"       its loop that duplicates the page table                  *)
(* and ends in                                                             *)
(*   "exit"       a failed `alloc' left the command loop                   *)
(*   "abort"      an assertion failed                                      *)
(*   "crash"      a null page directory was dereferenced                   *)
(*   "corrupt"    the head of the process list was taken for a process, or *)
(*                memory behind a page table for a part of it: what the    *)
(*                program does after that is not modelled                  *)
(*                                                                         *)
(* A definition named X_Y is the mutation Y of X; no specification uses it. *)
(***************************************************************************)
EXTENDS Integers, SequencesExt

CONSTANTS
  NR_PTES_PER_PAGE,  (* entries of a page directory, and directories       *)
  NR_PAGEFRAMES,
  Vpns,              (* the page numbers that commands name                *)
  Pids,              (* the process ids that commands name; 0 is init's    *)
  MaxProcs,          (* bound on the number of processes                   *)
  TlbOptions,        (* is the TLB in use?  FALSE, or TRUE with option -t  *)
  UINT_MOD,          (* 2^width of unsigned int: where mapcounts wrap      *)
  Discipline         (* the rules the user keeps to: see MayAsk            *)

ACCESS_READ == 1
ACCESS_WRITE == 2
READ_WRITE == 3

Procs == 1..MaxProcs
NOBODY == 0
Frames == 0..(NR_PAGEFRAMES - 1)
NR_TLB_ENTRIES == NR_PTES_PER_PAGE * NR_PTES_PER_PAGE

Rules == {"range", "mapped", "frames", "write", "free", "others"}

ASSUME SizeAssumption ==
  /\ NR_PTES_PER_PAGE \in Nat \ {0}
  /\ NR_PAGEFRAMES \in Nat \ {0}
  /\ MaxProcs \in Nat \ {0}
  /\ Vpns \subseteq 0..(NR_TLB_ENTRIES - 1)
ASSUME PidAssumption == 0 \in Pids /\ Pids \subseteq Nat
ASSUME WidthAssumption == UINT_MOD \in Nat /\ UINT_MOD > 2 * (MaxProcs + 1)
ASSUME OptionAssumption == TlbOptions \subseteq BOOLEAN /\ Discipline \subseteq Rules

(* struct pte.  Fresh directories hold NoPage: malloc does not promise it, *)
(* but the program frees nothing, so its memory comes zero-filled.         *)
PTE == [valid : BOOLEAN, rw : 0..3, pfn : Frames, private : 0..3]
NoPage == [valid |-> FALSE, rw |-> 0, pfn |-> 0, private |-> 0]

TlbEntry == [rw : 0..3, vpn : Vpns, pfn : Frames]

(* The commands that change something.  `alloc' makes its flags from       *)
(* ACCESS_READ up (__make_rwflag), and so does `access': "access v w" asks *)
(* for READ_WRITE, "write v" for ACCESS_WRITE.                             *)
Commands ==
  [op : {"alloc"}, vpn : Vpns, rw : {ACCESS_READ, READ_WRITE}]
  \union [op : {"free"}, vpn : Vpns]
  \union [op : {"access"}, vpn : Vpns, rw : {ACCESS_READ, ACCESS_WRITE, READ_WRITE}]
  \union [op : {"switch"}, pid : Pids]

NoCommand == [op |-> "none"]

VARIABLES
  use_tlb,       (* print_tlb_result                                       *)
  pc,
  command,       (* the command being executed, NoCommand between commands *)
  retries,       (* nr_retries of __access_memory                          *)
  reply,         (* what the program said to the last command              *)
  created,       (* processes 1..created exist; 1 is init                  *)
  pid,           (* pid[p]                                                 *)
  current,
  ptbr,          (* whose page table the MMU walks                         *)
  processes,     (* the list of the processes that are not running         *)
  child,         (* the process being forked, or NOBODY                    *)
  directories,   (* directories[p]: the outer_ptes that are not NULL       *)
  pagetable,     (* pagetable[p][vpn]                                      *)
  mapcounts,
  tlb            (* the valid entries at the front of the array            *)

vars == <<use_tlb, pc, command, retries, reply, created, pid, current, ptbr,
          processes, child, directories, pagetable, mapcounts, tlb>>
procVars == <<created, pid, current, ptbr, processes, child>>
pageVars == <<directories, pagetable, mapcounts>>

Directory(vpn) == vpn \div NR_PTES_PER_PAGE
MayWrite(rw) == rw \in {ACCESS_WRITE, READ_WRITE}      \* rw & ACCESS_WRITE

(* The page table entry of the command's page in the process p. *)
Pte(p) == pagetable[p][command.vpn]
HasDirectory(p) == Directory(command.vpn) \in directories[p]

(* An unsigned count read through an int pointer. *)
AsInt(n) == IF 2 * n >= UINT_MOD THEN n - UINT_MOD ELSE n

Goto(step) == pc' = step /\ UNCHANGED command
Done == pc' = "command" /\ command' = NoCommand
Reply(answer) == Done /\ reply' = answer

Init ==
  /\ use_tlb \in TlbOptions
  /\ pc = "command"
  /\ command = NoCommand
  /\ retries = 0
  /\ reply = "none"
  /\ created = 1
  /\ pid = [p \in Procs |-> 0]
  /\ current = 1
  /\ ptbr = 1
  /\ processes = <<>>
  /\ child = NOBODY
  /\ directories = [p \in Procs |-> {}]
  /\ pagetable = [p \in Procs |-> [v \in Vpns |-> NoPage]]
  /\ mapcounts = [f \in Frames |-> 0]
  /\ tlb = <<>>

-----------------------------------------------------------------------------
(* The user.  Without a Discipline every command may come at any time.     *)

FreeFrames == { f \in Frames : mapcounts[f] = 0 }

(* What a careful user does not do:                                        *)
(*   "range"   name a page beyond the page table (CommandBeyond);          *)
(*   "mapped"  write a page that is not allocated;                         *)
(*   "frames"  write a shared page when there is no frame for the copy;    *)
(*   "write"   write with "access v w";                                    *)
(*   "free"    free a page that has the first and another entry in the TLB; *)
(*   "others"  switch to the process that is running.                      *)
MayAsk(c) ==
  /\ "mapped" \in Discipline /\ c.op = "access" /\ MayWrite(c.rw)
       => pagetable[current][c.vpn].valid
  /\ "frames" \in Discipline /\ c.op = "access" /\ MayWrite(c.rw)
       => FreeFrames # {} \/ mapcounts[pagetable[current][c.vpn].pfn] <= 1
  /\ "write" \in Discipline /\ c.op = "access" => c.rw # READ_WRITE
  /\ "free" \in Discipline /\ c.op = "free"
       => \A i \in 2..Len(tlb) : ~(tlb[1].vpn = c.vpn /\ tlb[i].vpn = c.vpn)
  /\ "others" \in Discipline /\ c.op = "switch" => c.pid # pid[current]
  (* the bound on the number of processes *)
  /\ c.op = "switch" =>
       created < MaxProcs \/ \E k \in DOMAIN processes : pid[processes[k]] = c.pid

Command ==
  /\ pc = "command"
  /\ \E c \in Commands :
       /\ MayAsk(c)
       /\ command' = c
       /\ pc' = IF c.op = "switch" THEN "switch" ELSE "translate"
  /\ retries' = 0
  /\ reply' = "none"
  /\ UNCHANGED <<use_tlb, procVars, pageVars, tlb>>

(* A command for a page beyond the page table.  An access fails the        *)
(* assertion of __access_memory; `alloc' and `free' have no such check,    *)
(* and __translate takes what is behind outer_ptes for a directory.        *)
CommandBeyond ==
  /\ pc = "command"
  /\ "range" \notin Discipline
  /\ pc' \in {"abort", "corrupt"}
  /\ retries' = 0
  /\ reply' = "none"
  /\ UNCHANGED <<use_tlb, command, procVars, pageVars, tlb>>

-----------------------------------------------------------------------------
(* The MMU: __translate for the command in hand.                           *)

(* `alloc' and `free' translate for reading to see if the page is there. *)
Wanted == IF command.op = "access" THEN command.rw ELSE ACCESS_READ

(* i is the first entry of vpn that has one of the rights.                 *)
Matches(i, vpn, rights) == tlb[i].vpn = vpn /\ tlb[i].rw \in rights
FirstMatch(i, vpn, rights) ==
  /\ i \in DOMAIN tlb
  /\ Matches(i, vpn, rights)
  /\ \A j \in 1..(i - 1) : ~Matches(j, vpn, rights)

(* lookup_tlb: the first entry of the page with at least the rights wanted. *)
lookup_tlb(i) == use_tlb /\ FirstMatch(i, command.vpn, Wanted..READ_WRITE)

Walkable ==
  /\ HasDirectory(ptbr)
  /\ Pte(ptbr).valid
  /\ MayWrite(Wanted) => MayWrite(Pte(ptbr).rw)

(* insert_tlb: the first entry of the same page and rights is updated, or  *)
(* one is added at the end, and the one after it is made invalid.  After   *)
(* the last one of the array comes, in the program as it is built, the     *)
(* flag print_tlb_result.                                                  *)
insert_tlb(vpn, rw, pfn) ==
  LET known == \E i \in DOMAIN tlb : FirstMatch(i, vpn, {rw}) IN
  /\ tlb' = IF known THEN [ i \in DOMAIN tlb |->
                            IF FirstMatch(i, vpn, {rw}) THEN [tlb[i] EXCEPT !.pfn = pfn]
                            ELSE tlb[i] ]
            ELSE Append(tlb, [rw |-> rw, vpn |-> vpn, pfn |-> pfn])
  /\ use_tlb' = (known \/ Len(tlb) + 1 < NR_TLB_ENTRIES)

(* What the caller of __translate does with a translation...               *)
Translated ==
  \/ command.op = "access" /\ Reply("granted")
  \/ command.op = "alloc" /\ Goto("exit") /\ UNCHANGED reply  \* already allocated
  \/ command.op = "free" /\ Goto("free") /\ UNCHANGED reply

(* ... and without one. *)
Untranslated_NotCounted ==
  \/ command.op = "access" /\ Goto("fault") /\ UNCHANGED <<retries, reply>>
  \/ command.op = "alloc" /\ Goto("alloc") /\ UNCHANGED <<retries, reply>>
  \/ command.op = "free" /\ Reply("denied") /\ UNCHANGED retries
Untranslated ==
  \/ command.op = "access" /\ Goto("fault") /\ retries' = retries + 1 /\ UNCHANGED reply
  \/ command.op = "alloc" /\ Goto("alloc") /\ UNCHANGED <<retries, reply>>
  \/ command.op = "free" /\ Reply("denied") /\ UNCHANGED retries

Translate ==
  /\ pc = "translate"
  /\ \/ \E i \in DOMAIN tlb :
          /\ lookup_tlb(i)
          /\ Translated
          /\ UNCHANGED <<use_tlb, retries, tlb>>
     \/ /\ \A i \in DOMAIN tlb : ~lookup_tlb(i)
        /\ Walkable
        /\ Translated
        /\ IF use_tlb THEN insert_tlb(command.vpn, Pte(ptbr).rw, Pte(ptbr).pfn)
                      ELSE UNCHANGED <<use_tlb, tlb>>
        /\ UNCHANGED retries
     \/ /\ \A i \in DOMAIN tlb : ~lookup_tlb(i)
        /\ ~Walkable
        /\ Untranslated
        /\ UNCHANGED <<use_tlb, tlb>>
  /\ UNCHANGED <<procVars, pageVars>>

-----------------------------------------------------------------------------
(* The operating system's part.                                            *)

(* The free frame with the smallest number, when counts are the mapcounts. *)
SmallestFree(f, counts) ==
  f \in Frames /\ counts[f] = 0 /\ \A g \in Frames : g < f => counts[g] # 0
NoneFree(counts) == \A f \in Frames : counts[f] # 0

Incremented(counts, f) == [counts EXCEPT ![f] = (@ + 1) % UINT_MOD]
Decremented_Signed(counts, f) == [counts EXCEPT ![f] = @ - 1]
Decremented(counts, f) == [counts EXCEPT ![f] = (@ - 1) % UINT_MOD]

(* __access_memory after handle_page_fault returned true: the translation  *)
(* is tried once more, and after that the access counts as done.           *)
Retry ==
  \/ retries < 2 /\ Goto("translate") /\ UNCHANGED reply
  \/ retries >= 2 /\ Reply("silent")

(* The page is the process's alone: it may write again. *)
TakeOver ==
  /\ pagetable' = [pagetable EXCEPT ![current][command.vpn].rw = READ_WRITE,
                                    ![current][command.vpn].private = ACCESS_WRITE]
  /\ UNCHANGED mapcounts

CopyPage_NoDecrement(old) ==
  \E f \in Frames :
    /\ SmallestFree(f, mapcounts)
    /\ mapcounts' = Incremented(mapcounts, f)
    /\ pagetable' = [pagetable EXCEPT ![current][command.vpn] =
         [valid |-> TRUE, rw |-> READ_WRITE, pfn |-> f, private |-> ACCESS_WRITE]]

(* The page is shared: alloc_page maps a frame in its place.  Its -1 when  *)
(* no frame is free, an unsigned int, is not the -1 it is compared with.   *)
CopyPage(old) ==
  LET counts == Decremented(mapcounts, old) IN
  \/ \E f \in Frames :
       /\ SmallestFree(f, counts)
       /\ mapcounts' = Incremented(counts, f)
       /\ pagetable' = [pagetable EXCEPT ![current][command.vpn] =
            [valid |-> TRUE, rw |-> READ_WRITE, pfn |-> f, private |-> ACCESS_WRITE]]
  \/ /\ NoneFree(counts)
     /\ mapcounts' = counts
     /\ pagetable' = [pagetable EXCEPT ![current][command.vpn].rw = READ_WRITE]

(* handle_page_fault *)
ForWriting == command.rw = ACCESS_WRITE
WasWritable_Always(pte) == TRUE
WasWritable(pte) == pte.private # ACCESS_READ
Fault ==
  LET pte == Pte(current)
      mapcnt == AsInt(mapcounts[pte.pfn])
      copies == ForWriting /\ HasDirectory(current) /\ WasWritable(pte)
  IN
  /\ pc = "fault"
  /\ \/ ForWriting /\ ~HasDirectory(current)
        /\ Goto("crash") /\ UNCHANGED <<reply, pagetable, mapcounts>>
     \/ copies /\ mapcnt = 1 /\ TakeOver /\ Retry
     \/ copies /\ mapcnt >= 2 /\ CopyPage(pte.pfn) /\ Retry
     \/ copies /\ mapcnt <= 0 /\ Reply("denied") /\ UNCHANGED <<pagetable, mapcounts>>
     \/ ~copies /\ (ForWriting => HasDirectory(current))
        /\ Reply("denied") /\ UNCHANGED <<pagetable, mapcounts>>
  /\ UNCHANGED <<use_tlb, retries, procVars, directories, tlb>>

(* alloc_page for `alloc' *)
AllocPage ==
  /\ pc = "alloc"
  /\ \/ \E f \in Frames :
          /\ SmallestFree(f, mapcounts)
          /\ mapcounts' = Incremented(mapcounts, f)
          /\ directories' = [directories EXCEPT ![current] = @ \union {Directory(command.vpn)}]
          /\ pagetable' = [pagetable EXCEPT ![current][command.vpn] =
               [valid |-> TRUE, rw |-> command.rw, pfn |-> f, private |-> command.rw]]
          /\ Done
     \/ /\ NoneFree(mapcounts)              \* "memory is full": end of the loop
        /\ Goto("exit")
        /\ UNCHANGED pageVars
  /\ UNCHANGED <<use_tlb, retries, reply, procVars, tlb>>

(* free_page ... *)
FreePage ==
  /\ pc = "free"
  /\ mapcounts' = Decremented(mapcounts, Pte(current).pfn)
  /\ pagetable' = [pagetable EXCEPT ![current][command.vpn] = NoPage]
  /\ IF tlb = <<>> THEN Done ELSE Goto("untlb")
  /\ UNCHANGED <<use_tlb, retries, reply, procVars, directories, tlb>>

(* ... and its search of the TLB, which never leaves the first entry.      *)
SearchTlb ==
  /\ pc = "untlb"
  /\ \/ /\ tlb[1].vpn = command.vpn
        /\ tlb' = Tail(tlb)
        /\ Done
     \/ /\ tlb[1].vpn # command.vpn
        /\ UNCHANGED <<tlb, pc, command>>
  /\ UNCHANGED <<use_tlb, retries, reply, procVars, pageVars>>

-----------------------------------------------------------------------------
(* switch_process                                                          *)

IsTarget(k) == k \in DOMAIN processes /\ pid[processes[k]] = command.pid
FirstTarget(k) == IsTarget(k) /\ \A j \in 1..(k - 1) : ~IsTarget(j)

(* From the label CHANGECUR on; list is `processes' without the next one.  *)
ChangeCurrent_NoFlush(next, list) ==
  /\ processes' = Append(list, current)
  /\ current' = next
  /\ ptbr' = next
  /\ pid' = [pid EXCEPT ![next] = command.pid]
  /\ Done
  /\ UNCHANGED tlb
ChangeCurrent_CurrentLost(next, list) ==
  /\ processes' = list
  /\ current' = next
  /\ ptbr' = next
  /\ pid' = [pid EXCEPT ![next] = command.pid]
  /\ Done
  /\ tlb' = <<>>

ChangeCurrent(next, list) ==
  /\ processes' = Append(list, current)
  /\ current' = next
  /\ ptbr' = next
  /\ pid' = [pid EXCEPT ![next] = command.pid]
  /\ Done
  /\ tlb' = <<>>

(* The process is in the list. *)
SwitchTo ==
  /\ pc = "switch"
  /\ \E k \in DOMAIN processes :
       FirstTarget(k) /\ ChangeCurrent(processes[k], RemoveAt(processes, k))
  /\ UNCHANGED <<use_tlb, retries, reply, created, child, pageVars>>

(* It is not.  After the traversal the loop variable points at the head of *)
(* the list as if it were a process; what is read for its pid is part of   *)
(* init's page table in the program as it is built: half of the pointer to *)
(* the third directory, 0 while that directory does not exist.  Whether it *)
(* does is left open: otherwise a process is forked.                       *)
TakeListHead ==
  /\ pc = "switch"
  /\ processes # <<>> /\ \A k \in DOMAIN processes : ~IsTarget(k)
  /\ command.pid = 0
  /\ Goto("corrupt")
  /\ UNCHANGED <<use_tlb, retries, reply, procVars, pageVars, tlb>>

StartFork ==
  /\ pc = "switch"
  /\ \A k \in DOMAIN processes : ~IsTarget(k)
  /\ created' = created + 1
  /\ child' = created + 1
  /\ Goto("fork")
  /\ UNCHANGED <<use_tlb, retries, reply, pid, current, ptbr, processes,
                 pageVars, tlb>>

(* The loop over the page table: the next valid entry loses the right to   *)
(* write and is copied to the child.                                       *)
ToCopy == { v \in Vpns : pagetable[current][v].valid /\ ~pagetable[child][v].valid }

Shared_SavedLate(pte) == [pte EXCEPT !.rw = ACCESS_READ, !.private = ACCESS_READ]
Shared(pte) ==
  [pte EXCEPT !.private = IF pte.rw = ACCESS_WRITE THEN pte.rw ELSE @,
              !.rw = ACCESS_READ]

ForkPage_ParentKeepsWriting ==
  /\ pc = "fork"
  /\ \E v \in ToCopy :
       /\ \A u \in ToCopy : v <= u
       /\ mapcounts' = Incremented(mapcounts, pagetable[current][v].pfn)
       /\ pagetable' = [pagetable EXCEPT ![child][v] = Shared(pagetable[current][v])]
  /\ UNCHANGED <<use_tlb, pc, command, retries, reply, procVars, directories, tlb>>

ForkPage ==
  /\ pc = "fork"
  /\ \E v \in ToCopy :
       LET pte == Shared(pagetable[current][v]) IN
       /\ \A u \in ToCopy : v <= u
       /\ mapcounts' = Incremented(mapcounts, pte.pfn)
       /\ pagetable' = [pagetable EXCEPT ![current][v] = pte, ![child][v] = pte]
  /\ UNCHANGED <<use_tlb, pc, command, retries, reply, procVars, directories, tlb>>

ForkDone ==
  /\ pc = "fork"
  /\ ToCopy = {}
  /\ directories' = [directories EXCEPT ![child] = directories[current]]
  /\ ChangeCurrent(child, processes)
  /\ child' = NOBODY
  /\ UNCHANGED <<use_tlb, retries, reply, created, pagetable, mapcounts>>

-----------------------------------------------------------------------------
Ended == pc \in {"exit", "abort", "crash", "corrupt"} /\ UNCHANGED vars

(* The steps of the program between two commands. *)
Step ==
  \/ Translate \/ Fault \/ AllocPage \/ FreePage \/ SearchTlb
  \/ SwitchTo \/ TakeListHead \/ StartFork \/ ForkPage \/ ForkDone

Next == Command \/ CommandBeyond \/ Step \/ Ended

(* The program takes its next step; the user need not say anything, which  *)
(* is also the end of the input and "exit".                                *)
Spec == Init /\ [][Next]_vars /\ WF_vars(Step)
=============================================================================
