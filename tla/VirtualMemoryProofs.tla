------------------------ MODULE VirtualMemoryProofs -------------------------
(***************************************************************************)
(* What TLAPS proves about the virtual memory simulator, for every number  *)
(* of pages, frames and processes, with the TLB and without.               *)
(*   For every user: types, rights, no process is lost, and every command  *)
(*   ends unless it searches the TLB for ever.                             *)
(*   For the user who keeps to three of the rules of MayAsk (Careful): the *)
(*   counts of the frames, copy-on-write and the TLB.                      *)
(*   For the user who keeps to all five (Strict): the simulator implements *)
(*   AddressSpaces.                                                        *)
(***************************************************************************)
EXTENDS MemoryProps, ListLemmas

-----------------------------------------------------------------------------
(* Types.                                                                  *)

LEMMA CommandFields ==
  ASSUME NEW c \in Commands
  PROVE  /\ c.op \in {"alloc", "free", "access", "switch"}
         /\ c.op # "switch" => c.vpn \in Vpns
         /\ c.op = "alloc" => c.rw \in {ACCESS_READ, READ_WRITE}
         /\ c.op = "access" => c.rw \in {ACCESS_READ, ACCESS_WRITE, READ_WRITE}
         /\ c.op = "switch" => c.pid \in Pids
BY DEF Commands

LEMMA DirectoryType ==
  ASSUME NEW v \in Vpns
  PROVE  Directory(v) \in 0..(NR_PTES_PER_PAGE - 1)
<1> DEFINE n == NR_PTES_PER_PAGE
<1>1. n \in Nat \ {0} /\ v \in Nat /\ v < n * n
  BY SizeAssumption DEF NR_TLB_ENTRIES
<1>2. v \div n \in Nat /\ n * (v \div n) <= v
  BY <1>1
<1>3. v \div n < n
  BY <1>1, <1>2
<1> QED BY <1>1, <1>2, <1>3 DEF Directory

(* What the command in hand, the retries and the process being forked are  *)
(* at each place of the program.                                           *)
InHand ==
  /\ pc \in {"translate", "fault", "alloc", "free", "untlb"} =>
       command \in Commands /\ command.op # "switch"
  /\ pc = "fault" => command.op = "access"
  /\ pc = "alloc" => command.op = "alloc"
  /\ pc \in {"switch", "fork"} => command \in Commands /\ command.op = "switch"
  /\ pc = "translate" => retries < 2
  /\ pc = "untlb" => tlb # <<>>
  /\ pc = "switch" => created < MaxProcs \/ \E k \in DOMAIN processes : IsTarget(k)
  /\ IF pc = "fork" THEN child = created /\ current # child ELSE child = NOBODY

LEMMA InitType == Init => TypeOK /\ InHand
<1> SUFFICES ASSUME Init PROVE TypeOK /\ InHand
  OBVIOUS
<1>1. /\ 1 \in Procs /\ 0 \in Frames /\ 0 \in Pids
      /\ 0 \in 0..(UINT_MOD - 1)
  BY SizeAssumption, PidAssumption, WidthAssumption DEF Procs, Frames
<1>2. NoPage \in PTE
  BY <1>1 DEF NoPage, PTE
<1>3. /\ processes \in Seq(1..created)
      /\ tlb \in Seq(TlbEntry)
  BY EmptySeq DEF Init
<1>4. TypeOK
  BY <1>1, <1>2, <1>3, OptionAssumption DEF Init, TypeOK
<1>5. InHand
  BY DEF Init, InHand
<1> QED BY <1>4, <1>5

(* The entry the MMU is asked for, and the frame and the rights it has.    *)
LEMMA EntryType ==
  ASSUME TypeOK, command.vpn \in Vpns
  PROVE  /\ current \in Procs /\ ptbr \in Procs
         /\ Pte(current) \in PTE /\ Pte(ptbr) \in PTE
<1>1. current \in Procs /\ ptbr \in Procs
  BY SizeAssumption DEF TypeOK, Procs
<1> QED BY <1>1 DEF TypeOK, Pte

LEMMA CountTypes ==
  ASSUME NEW counts \in [Frames -> 0..(UINT_MOD - 1)], NEW f \in Frames
  PROVE  /\ Incremented(counts, f) \in [Frames -> 0..(UINT_MOD - 1)]
         /\ Decremented(counts, f) \in [Frames -> 0..(UINT_MOD - 1)]
<1>1. UINT_MOD \in Nat \ {0} /\ counts[f] \in Int
  BY WidthAssumption, SizeAssumption
<1>2. /\ (counts[f] + 1) % UINT_MOD \in 0..(UINT_MOD - 1)
      /\ (counts[f] - 1) % UINT_MOD \in 0..(UINT_MOD - 1)
  BY <1>1
<1> QED BY <1>2 DEF Incremented, Decremented

(* What insert_tlb leaves in the TLB.                                      *)
LEMMA InsertType ==
  ASSUME TypeOK, NEW vpn \in Vpns, NEW rw \in 0..3, NEW pfn \in Frames,
         insert_tlb(vpn, rw, pfn)
  PROVE  tlb' \in Seq(TlbEntry) /\ use_tlb' \in BOOLEAN
<1>1. /\ tlb \in Seq(TlbEntry) /\ Len(tlb) \in Nat /\ DOMAIN tlb = 1..Len(tlb)
      /\ \A i \in DOMAIN tlb : tlb[i] \in TlbEntry
  BY LenProperties, ElementOfSeq DEF TypeOK
<1> DEFINE known == \E i \in DOMAIN tlb : FirstMatch(i, vpn, {rw})
           entry == [rw |-> rw, vpn |-> vpn, pfn |-> pfn]
           updated == [ i \in DOMAIN tlb |->
                          IF FirstMatch(i, vpn, {rw}) THEN [tlb[i] EXCEPT !.pfn = pfn]
                          ELSE tlb[i] ]
<1>2. /\ tlb' = IF known THEN updated ELSE Append(tlb, entry)
      /\ use_tlb' = (known \/ Len(tlb) + 1 < NR_TLB_ENTRIES)
  BY DEF insert_tlb
<1>3. updated \in Seq(TlbEntry)
  <2>1. \A i \in DOMAIN tlb : [tlb[i] EXCEPT !.pfn = pfn] \in TlbEntry
    BY <1>1 DEF TlbEntry
  <2>2. updated \in [1..Len(tlb) -> TlbEntry]
    BY <1>1, <2>1
  <2> HIDE DEF updated
  <2> QED BY <1>1, <2>2, SeqDef
<1>4. Append(tlb, entry) \in Seq(TlbEntry)
  <2>1. entry \in TlbEntry
    BY DEF TlbEntry
  <2> QED BY <1>1, <2>1, AppendProperties
<1>5. use_tlb' \in BOOLEAN
  <2> HIDE DEF known
  <2> QED BY <1>2
<1> HIDE DEF known, updated, entry
<1> QED BY <1>2, <1>3, <1>4, <1>5

(* A page that is taken over or copied.                                    *)
LEMMA CopyType ==
  ASSUME TypeOK, command.vpn \in Vpns,
         TakeOver \/ CopyPage(Pte(current).pfn)
  PROVE  /\ pagetable' \in [Procs -> [Vpns -> PTE]]
         /\ mapcounts' \in [Frames -> 0..(UINT_MOD - 1)]
<1> DEFINE old == Pte(current).pfn
           counts == Decremented(mapcounts, old)
<1>1. /\ current \in Procs /\ pagetable \in [Procs -> [Vpns -> PTE]]
      /\ Pte(current) \in PTE /\ old \in Frames
      /\ mapcounts \in [Frames -> 0..(UINT_MOD - 1)]
      /\ counts \in [Frames -> 0..(UINT_MOD - 1)]
  BY EntryType, CountTypes DEF TypeOK, PTE
<1>2. ASSUME NEW e \in PTE, pagetable' = [pagetable EXCEPT ![current][command.vpn] = e]
      PROVE  pagetable' \in [Procs -> [Vpns -> PTE]]
  BY <1>1, <1>2
<1>3. CASE TakeOver
  <2>1. pagetable' = [pagetable EXCEPT ![current][command.vpn] =
          [Pte(current) EXCEPT !.rw = READ_WRITE, !.private = ACCESS_WRITE]]
    BY <1>1, <1>3 DEF TakeOver, Pte
  <2>2. ASSUME NEW e \in PTE
        PROVE  [e EXCEPT !.rw = READ_WRITE, !.private = ACCESS_WRITE] \in PTE
    <3> DEFINE writable == [e EXCEPT !.rw = READ_WRITE]
    <3>1. writable \in PTE
      BY DEF PTE, READ_WRITE
    <3>2. [e EXCEPT !.rw = READ_WRITE, !.private = ACCESS_WRITE]
            = [writable EXCEPT !.private = ACCESS_WRITE]
      BY DEF PTE
    <3> HIDE DEF writable
    <3> QED BY <3>1, <3>2 DEF PTE, ACCESS_WRITE
  <2> QED BY <1>1, <1>2, <1>3, <2>1, <2>2 DEF TakeOver
<1>4. ASSUME NEW f \in Frames,
             mapcounts' = Incremented(counts, f),
             pagetable' = [pagetable EXCEPT ![current][command.vpn] =
               [valid |-> TRUE, rw |-> READ_WRITE, pfn |-> f, private |-> ACCESS_WRITE]]
      PROVE  /\ pagetable' \in [Procs -> [Vpns -> PTE]]
             /\ mapcounts' \in [Frames -> 0..(UINT_MOD - 1)]
  <2>1. [valid |-> TRUE, rw |-> READ_WRITE, pfn |-> f, private |-> ACCESS_WRITE] \in PTE
    BY DEF PTE, READ_WRITE, ACCESS_WRITE
  <2> QED BY <1>1, <1>2, <1>4, <2>1, CountTypes
<1>5. CASE mapcounts' = counts
           /\ pagetable' = [pagetable EXCEPT ![current][command.vpn].rw = READ_WRITE]
  <2>1. pagetable' = [pagetable EXCEPT ![current][command.vpn] =
          [Pte(current) EXCEPT !.rw = READ_WRITE]]
    BY <1>1, <1>5 DEF Pte
  <2>2. \A e \in PTE : [e EXCEPT !.rw = READ_WRITE] \in PTE
    BY DEF PTE, READ_WRITE
  <2> QED BY <1>1, <1>2, <1>5, <2>1, <2>2
<1>6. CASE CopyPage(old)
  <2> HIDE DEF old
  <2>1. \/ \E f \in Frames :
             /\ mapcounts' = Incremented(counts, f)
             /\ pagetable' = [pagetable EXCEPT ![current][command.vpn] =
                  [valid |-> TRUE, rw |-> READ_WRITE, pfn |-> f, private |-> ACCESS_WRITE]]
        \/ /\ mapcounts' = counts
           /\ pagetable' = [pagetable EXCEPT ![current][command.vpn].rw = READ_WRITE]
    BY <1>6, Zenon DEF CopyPage
  <2> HIDE DEF counts
  <2> QED BY <1>4, <1>5, <2>1
<1> QED BY <1>3, <1>6

(* A page that is shared with the child.                                   *)
LEMMA SharedType ==
  ASSUME NEW e \in PTE
  PROVE  /\ Shared(e) \in PTE
         /\ Shared(e).valid = e.valid /\ Shared(e).rw = ACCESS_READ
         /\ Shared(e).private = IF e.rw = ACCESS_WRITE THEN e.rw ELSE e.private
<1> DEFINE right == IF e.rw = ACCESS_WRITE THEN e.rw ELSE e.private
           kept == [e EXCEPT !.private = right]
<1>1. right \in 0..3 /\ ACCESS_READ \in 0..3
  BY DEF PTE, ACCESS_READ
<1> HIDE DEF right
<1>2. kept \in PTE
  BY <1>1 DEF PTE
<1>3. Shared(e) = [kept EXCEPT !.rw = ACCESS_READ]
  BY DEF Shared, PTE, right
<1>4. Shared(e) \in PTE
  <2> HIDE DEF kept
  <2> QED BY <1>1, <1>2, <1>3 DEF PTE
<1>5. /\ Shared(e).valid = e.valid /\ Shared(e).rw = ACCESS_READ
      /\ Shared(e).private = right
  BY <1>3 DEF PTE
<1> QED BY <1>4, <1>5 DEF right

(* The processes of a context switch.                                      *)
LEMMA ChangeType ==
  ASSUME TypeOK, NEW next \in 1..created, NEW list \in Seq(1..created),
         command.pid \in Pids, ChangeCurrent(next, list), created' = created
  PROVE  /\ processes' \in Seq(1..created')
         /\ current' \in 1..created' /\ ptbr' \in 1..created'
         /\ pid' \in [Procs -> Pids]
         /\ tlb' \in Seq(TlbEntry)
<1>1. Append(list, current) \in Seq(1..created)
  BY AppendProperties DEF TypeOK
<1>2. tlb' = <<>> /\ <<>> \in Seq(TlbEntry)
  BY EmptySeq DEF ChangeCurrent
<1>3. pid' = [pid EXCEPT ![next] = command.pid] /\ pid \in [Procs -> Pids]
  BY DEF ChangeCurrent, TypeOK
<1> QED BY <1>1, <1>2, <1>3 DEF ChangeCurrent

Places == {"command", "translate", "fault", "alloc", "free", "untlb", "switch",
           "fork", "exit", "abort", "crash", "corrupt"}

(* A command for a page beyond the table changes nothing the program has.  *)
LEMMA BeyondTheTable ==
  ASSUME CommandBeyond
  PROVE  /\ pc = "command" /\ pc' \in {"abort", "corrupt"} /\ "range" \notin Discipline
         /\ retries' = 0 /\ reply' = "none"
         /\ UNCHANGED <<use_tlb, command, procVars, pageVars, tlb>>
BY Zenon DEF CommandBeyond

LEMMA TypeStep ==
  ASSUME TypeOK, InHand, [Next]_vars
  PROVE  TypeOK'
<1>1. CASE Command
  <2>1. PICK c \in Commands :
          /\ command' = c
          /\ pc' = IF c.op = "switch" THEN "switch" ELSE "translate"
    BY <1>1, Zenon DEF Command
  <2>2. command' \in Commands /\ pc' \in Places
    BY <2>1 DEF Places
  <2>3. UNCHANGED <<use_tlb, procVars, pageVars, tlb>> /\ retries' = 0 /\ reply' = "none"
    BY <1>1 DEF Command
  <2> QED BY <2>2, <2>3 DEF TypeOK, procVars, pageVars, Places
<1>2. CASE Translate
  <2>1. /\ pc = "translate" /\ retries < 2 /\ command \in Commands
        /\ command.op # "switch" /\ command.vpn \in Vpns
        /\ UNCHANGED <<procVars, pageVars>>
    BY <1>2, CommandFields DEF Translate, InHand
  <2>2. ASSUME Translated
        PROVE  /\ pc' \in Places /\ command' \in {command, NoCommand}
               /\ reply' \in {reply, "granted"}
    BY <2>2 DEF Translated, Reply, Goto, Done, Places
  <2>3. ASSUME Untranslated
        PROVE  /\ pc' \in Places /\ command' \in {command, NoCommand}
               /\ reply' \in {reply, "denied"} /\ retries' \in 0..2
    BY <2>1, <2>3 DEF Untranslated, Reply, Goto, Done, Places, TypeOK
  <2>4. Translated \/ Untranslated
    BY <1>2 DEF Translate
  <2>5. pc' \in Places /\ command' \in {command, NoCommand}
        /\ reply' \in {reply, "granted", "denied"}
    BY <2>2, <2>3, <2>4
  <2>6. retries' \in 0..2
    BY <1>2, <2>3 DEF Translate, TypeOK
  <2>7. tlb' \in Seq(TlbEntry) /\ use_tlb' \in BOOLEAN
    <3>1. Pte(ptbr) \in PTE
      BY <2>1, EntryType
    <3>2. Pte(ptbr).rw \in 0..3 /\ Pte(ptbr).pfn \in Frames
      BY <3>1 DEF PTE
    <3>3. insert_tlb(command.vpn, Pte(ptbr).rw, Pte(ptbr).pfn)
            => tlb' \in Seq(TlbEntry) /\ use_tlb' \in BOOLEAN
      BY <2>1, <3>2, InsertType
    <3>4. UNCHANGED <<use_tlb, tlb>>
          \/ insert_tlb(command.vpn, Pte(ptbr).rw, Pte(ptbr).pfn)
      BY <1>2, Zenon DEF Translate
    <3> QED BY <3>3, <3>4 DEF TypeOK
  <2> QED BY <2>1, <2>5, <2>6, <2>7 DEF TypeOK, procVars, pageVars, Places
<1>3. CASE Fault
  <2>1. /\ pc = "fault" /\ command \in Commands /\ command.op = "access"
        /\ command.vpn \in Vpns
        /\ UNCHANGED <<use_tlb, retries, procVars, directories, tlb>>
    BY <1>3, CommandFields DEF Fault, InHand
  <2>2. /\ \/ Goto("crash") /\ UNCHANGED reply
           \/ Retry
           \/ Reply("denied")
        /\ \/ UNCHANGED <<pagetable, mapcounts>>
           \/ TakeOver \/ CopyPage(Pte(current).pfn)
    BY <1>3 DEF Fault
  <2>3. /\ pc' \in Places /\ command' \in {command, NoCommand}
        /\ reply' \in {reply, "denied", "silent"}
    BY <2>2 DEF Retry, Reply, Goto, Done, Places
  <2>4. /\ pagetable' \in [Procs -> [Vpns -> PTE]]
        /\ mapcounts' \in [Frames -> 0..(UINT_MOD - 1)]
    BY <2>1, <2>2, CopyType DEF TypeOK
  <2> QED BY <2>1, <2>3, <2>4 DEF TypeOK, procVars, Places
<1>4. CASE AllocPage
  <2>1. /\ pc = "alloc" /\ command \in Commands /\ command.op = "alloc"
        /\ command.vpn \in Vpns /\ command.rw \in {ACCESS_READ, READ_WRITE}
        /\ UNCHANGED <<use_tlb, retries, reply, procVars, tlb>>
    BY <1>4, CommandFields DEF AllocPage, InHand
  <2>2. current \in Procs
    BY <2>1, EntryType
  <2>3. pc' \in Places /\ command' \in {command, NoCommand}
    BY <1>4 DEF AllocPage, Done, Goto, Places
  <2>4. ASSUME NEW f \in Frames,
               mapcounts' = Incremented(mapcounts, f),
               directories' = [directories EXCEPT ![current] = @ \union {Directory(command.vpn)}],
               pagetable' = [pagetable EXCEPT ![current][command.vpn] =
                 [valid |-> TRUE, rw |-> command.rw, pfn |-> f, private |-> command.rw]]
        PROVE  /\ directories' \in [Procs -> SUBSET (0..(NR_PTES_PER_PAGE - 1))]
               /\ pagetable' \in [Procs -> [Vpns -> PTE]]
               /\ mapcounts' \in [Frames -> 0..(UINT_MOD - 1)]
    <3>1. Directory(command.vpn) \in 0..(NR_PTES_PER_PAGE - 1)
      BY <2>1, DirectoryType
    <3>2. [valid |-> TRUE, rw |-> command.rw, pfn |-> f, private |-> command.rw] \in PTE
      BY <2>1 DEF PTE, ACCESS_READ, READ_WRITE
    <3>3. directories' \in [Procs -> SUBSET (0..(NR_PTES_PER_PAGE - 1))]
      BY <2>2, <2>4, <3>1 DEF TypeOK
    <3>4. pagetable' \in [Procs -> [Vpns -> PTE]]
      BY <2>1, <2>2, <2>4, <3>2 DEF TypeOK
    <3> QED BY <2>4, <3>3, <3>4, CountTypes DEF TypeOK
  <2>5. /\ directories' \in [Procs -> SUBSET (0..(NR_PTES_PER_PAGE - 1))]
        /\ pagetable' \in [Procs -> [Vpns -> PTE]]
        /\ mapcounts' \in [Frames -> 0..(UINT_MOD - 1)]
    BY <1>4, <2>4 DEF AllocPage, TypeOK, pageVars
  <2> QED BY <2>1, <2>3, <2>5 DEF TypeOK, procVars, Places
<1>5. CASE FreePage
  <2>1. /\ pc = "free" /\ command.vpn \in Vpns
        /\ UNCHANGED <<use_tlb, retries, reply, procVars, directories, tlb>>
    BY <1>5, CommandFields DEF FreePage, InHand
  <2>2. current \in Procs /\ Pte(current) \in PTE
    BY <2>1, EntryType
  <2>3. pc' \in Places /\ command' \in {command, NoCommand}
    BY <1>5 DEF FreePage, Done, Goto, Places
  <2>4. mapcounts' \in [Frames -> 0..(UINT_MOD - 1)]
    <3>1. Pte(current).pfn \in Frames
      BY <2>2 DEF PTE
    <3> QED BY <1>5, <3>1, CountTypes DEF FreePage, TypeOK
  <2>5. pagetable' \in [Procs -> [Vpns -> PTE]]
    <3>1. NoPage \in PTE
      BY SizeAssumption DEF NoPage, PTE, Frames
    <3> QED BY <1>5, <2>1, <2>2, <3>1 DEF FreePage, TypeOK
  <2> QED BY <2>1, <2>3, <2>4, <2>5 DEF TypeOK, procVars, Places
<1>6. CASE SearchTlb
  <2>1. pc = "untlb" /\ tlb # <<>>
    BY <1>6 DEF SearchTlb, InHand
  <2>2. Tail(tlb) \in Seq(TlbEntry)
    BY <2>1, HeadTailProperties DEF TypeOK
  <2>3. /\ tlb' \in Seq(TlbEntry)
        /\ pc' \in Places /\ command' \in {command, NoCommand}
    BY <1>6, <2>1, <2>2 DEF SearchTlb, Done, TypeOK, Places
  <2>4. UNCHANGED <<use_tlb, retries, reply, procVars, pageVars>>
    BY <1>6 DEF SearchTlb
  <2> QED BY <2>3, <2>4 DEF TypeOK, procVars, pageVars, Places
<1>7. CASE SwitchTo
  <2>1. command.pid \in Pids /\ created' = created
        /\ UNCHANGED <<use_tlb, retries, reply, created, child, pageVars>>
    BY <1>7, CommandFields DEF SwitchTo, InHand
  <2>2. PICK k \in DOMAIN processes :
          ChangeCurrent(processes[k], RemoveAt(processes, k))
    BY <1>7 DEF SwitchTo
  <2>3. processes[k] \in 1..created /\ RemoveAt(processes, k) \in Seq(1..created)
    BY RemoveAtSeq, ElementOfSeq, LenProperties DEF TypeOK
  <2>4. /\ processes' \in Seq(1..created')
        /\ current' \in 1..created' /\ ptbr' \in 1..created'
        /\ pid' \in [Procs -> Pids]
        /\ tlb' \in Seq(TlbEntry)
    BY <2>1, <2>2, <2>3, ChangeType
  <2>5. pc' \in Places /\ command' = NoCommand
    BY <2>2 DEF ChangeCurrent, Done, Places
  <2> QED BY <2>1, <2>4, <2>5 DEF TypeOK, pageVars, Places
<1>8. CASE TakeListHead
  BY <1>8 DEF TakeListHead, Goto, TypeOK, procVars, pageVars
<1>9. CASE StartFork
  <2>1. /\ created < MaxProcs /\ created \in 1..MaxProcs
        /\ created' = created + 1 /\ child' = created + 1
    BY <1>9 DEF StartFork, InHand, IsTarget, TypeOK, Procs
  <2>2. created' \in Procs /\ child' \in Procs
    BY <2>1, SizeAssumption DEF Procs
  <2>3. current' \in 1..created' /\ ptbr' \in 1..created'
    BY <1>9, <2>1 DEF StartFork, TypeOK
  <2>4. processes' \in Seq(1..created')
    <3>1. Len(processes) \in Nat /\ processes \in [1..Len(processes) -> 1..created]
      BY LenProperties DEF TypeOK
    <3>2. \A p \in 1..created : p \in 1..created'
      BY <2>1
    <3>3. processes \in [1..Len(processes) -> 1..created']
      BY <3>1, <3>2
    <3>4. processes \in Seq(1..created')
      BY <3>1, <3>3, SeqDef
    <3> QED BY <1>9, <3>4 DEF StartFork
  <2> QED BY <1>9, <2>2, <2>3, <2>4 DEF StartFork, Goto, TypeOK, pageVars
<1>10. CASE ForkPage
  <2>1. child \in Procs /\ current \in Procs
    BY <1>10, SizeAssumption DEF ForkPage, InHand, TypeOK, Procs
  <2>2. PICK v \in Vpns :
          /\ mapcounts' = Incremented(mapcounts, Shared(pagetable[current][v]).pfn)
          /\ pagetable' = [pagetable EXCEPT ![current][v] = Shared(pagetable[current][v]),
                                            ![child][v] = Shared(pagetable[current][v])]
    BY <1>10, Zenon DEF ForkPage, ToCopy
  <2>3. Shared(pagetable[current][v]) \in PTE
    BY <2>1, SharedType DEF TypeOK
  <2>4. pagetable' \in [Procs -> [Vpns -> PTE]]
    BY <2>1, <2>2, <2>3 DEF TypeOK
  <2>5. mapcounts' \in [Frames -> 0..(UINT_MOD - 1)]
    <3>1. Shared(pagetable[current][v]).pfn \in Frames
      BY <2>3 DEF PTE
    <3> QED BY <2>2, <3>1, CountTypes DEF TypeOK
  <2>6. UNCHANGED <<use_tlb, pc, command, retries, reply, procVars, directories, tlb>>
    BY <1>10 DEF ForkPage
  <2> QED BY <2>4, <2>5, <2>6 DEF TypeOK, procVars
<1>11. CASE ForkDone
  <2>1. /\ command.pid \in Pids /\ created' = created
        /\ child = created /\ created \in Procs /\ current \in 1..created
    BY <1>11, CommandFields DEF ForkDone, InHand, TypeOK
  <2>2. child \in 1..created /\ child \in Procs /\ current \in Procs
    BY <2>1, SizeAssumption DEF Procs
  <2>3. ChangeCurrent(child, processes) /\ processes \in Seq(1..created)
    BY <1>11 DEF ForkDone, TypeOK
  <2>4. /\ processes' \in Seq(1..created')
        /\ current' \in 1..created' /\ ptbr' \in 1..created'
        /\ pid' \in [Procs -> Pids]
        /\ tlb' \in Seq(TlbEntry)
    BY <2>1, <2>2, <2>3, ChangeType
  <2>5. directories' \in [Procs -> SUBSET (0..(NR_PTES_PER_PAGE - 1))]
    BY <1>11, <2>2 DEF ForkDone, TypeOK
  <2>6. pc' \in Places /\ command' = NoCommand
    BY <2>3 DEF ChangeCurrent, Done, Places
  <2> QED BY <1>11, <2>4, <2>5, <2>6 DEF ForkDone, TypeOK, Places
<1>12. CASE Ended \/ UNCHANGED vars
  BY <1>12 DEF Ended, vars, TypeOK
<1>13. CASE CommandBeyond
  BY <1>13, BeyondTheTable DEF TypeOK, procVars, pageVars
<1> QED BY <1>1, <1>2, <1>3, <1>4, <1>5, <1>6, <1>7, <1>8, <1>9, <1>10, <1>11, <1>12, <1>13
    DEF Next, Step

LEMMA InHandStep ==
  ASSUME TypeOK, InHand, [Next]_vars
  PROVE  InHand'
<1>1. CASE Command
  <2>1. PICK c \in Commands :
          /\ MayAsk(c)
          /\ command' = c
          /\ pc' = IF c.op = "switch" THEN "switch" ELSE "translate"
    BY <1>1, Zenon DEF Command
  <2>2. /\ retries' = 0 /\ tlb' = tlb /\ created' = created /\ child' = child
        /\ current' = current /\ processes' = processes /\ pid' = pid /\ pc = "command"
    BY <1>1 DEF Command, procVars
  <2>3. c.op = "switch" => created < MaxProcs \/ \E k \in DOMAIN processes : pid[processes[k]] = c.pid
    BY <2>1 DEF MayAsk
  <2>4. c.op = "switch" => created' < MaxProcs \/ \E k \in DOMAIN processes' : IsTarget(k)'
    BY <2>1, <2>2, <2>3 DEF IsTarget
  <2> QED BY <2>1, <2>2, <2>4 DEF InHand
<1>2. CASE Translate
  <2>1. /\ pc = "translate" /\ command \in Commands /\ command.op # "switch"
        /\ UNCHANGED procVars /\ child = NOBODY
    BY <1>2 DEF Translate, InHand
  <2>2. \/ Translated \/ Untranslated
    BY <1>2 DEF Translate
  <2>3. /\ pc' \in {"exit", "command", "free", "fault", "alloc"}
        /\ pc' \in {"free", "fault", "alloc"} => command' = command
        /\ pc' = "fault" => command.op = "access"
        /\ pc' = "alloc" => command.op = "alloc"
    BY <2>2 DEF Translated, Untranslated, Reply, Goto, Done
  <2> QED BY <2>1, <2>3 DEF InHand, procVars
<1>3. CASE Fault
  <2>1. /\ pc = "fault" /\ command \in Commands /\ command.op # "switch"
        /\ UNCHANGED procVars /\ child = NOBODY /\ UNCHANGED retries
    BY <1>3, CommandFields DEF Fault, InHand
  <2>2. Goto("crash") \/ Retry \/ Reply("denied")
    BY <1>3 DEF Fault
  <2>3. /\ pc' \in {"crash", "command", "translate"}
        /\ pc' = "translate" => command' = command /\ retries < 2
    BY <2>2 DEF Retry, Reply, Goto, Done
  <2> QED BY <2>1, <2>3 DEF InHand, procVars
<1>4. CASE AllocPage
  <2>1. UNCHANGED procVars /\ child = NOBODY /\ pc' \in {"command", "exit"}
    BY <1>4 DEF AllocPage, InHand, Done, Goto
  <2> QED BY <2>1 DEF InHand, procVars
<1>5. CASE FreePage
  <2>1. /\ pc = "free" /\ command \in Commands /\ command.op # "switch"
        /\ UNCHANGED procVars /\ child = NOBODY /\ tlb' = tlb
    BY <1>5 DEF FreePage, InHand
  <2>2. pc' \in {"command", "untlb"} /\ (pc' = "untlb" => tlb # <<>> /\ command' = command)
    BY <1>5 DEF FreePage, Done, Goto
  <2> QED BY <2>1, <2>2 DEF InHand, procVars
<1>6. CASE SearchTlb
  <2>1. /\ pc = "untlb" /\ tlb # <<>> /\ command \in Commands /\ command.op # "switch"
        /\ UNCHANGED procVars /\ child = NOBODY
    BY <1>6 DEF SearchTlb, InHand
  <2>2. pc' = "command" \/ UNCHANGED <<tlb, pc, command>>
    BY <1>6 DEF SearchTlb, Done
  <2> QED BY <2>1, <2>2 DEF InHand, procVars
<1>7. CASE SwitchTo
  <2>1. pc' = "command" /\ child' = NOBODY
    BY <1>7 DEF SwitchTo, ChangeCurrent, Done, InHand
  <2> QED BY <2>1 DEF InHand
<1>8. CASE TakeListHead
  <2>1. pc' = "corrupt" /\ child' = NOBODY
    BY <1>8 DEF TakeListHead, Goto, procVars, InHand
  <2> QED BY <2>1 DEF InHand
<1>9. CASE StartFork
  <2>1. /\ pc' = "fork" /\ child' = created' /\ created' = created + 1
        /\ command' = command /\ command \in Commands /\ command.op = "switch"
        /\ current' = current
    BY <1>9 DEF StartFork, Goto, InHand
  <2>2. current # created + 1
    BY SizeAssumption DEF TypeOK, Procs
  <2> QED BY <2>1, <2>2 DEF InHand
<1>10. CASE ForkPage
  <2>1. pc = "fork" /\ UNCHANGED <<pc, command, procVars>>
    BY <1>10 DEF ForkPage
  <2> QED BY <2>1 DEF InHand, procVars
<1>11. CASE ForkDone
  <2>1. pc' = "command" /\ child' = NOBODY
    BY <1>11 DEF ForkDone, ChangeCurrent, Done
  <2> QED BY <2>1 DEF InHand
<1>12. CASE Ended \/ UNCHANGED vars
  BY <1>12 DEF Ended, vars, InHand, IsTarget
<1>13. CASE CommandBeyond
  <2>1. pc' \in {"abort", "corrupt"} /\ child' = child /\ child = NOBODY
    BY <1>13, BeyondTheTable DEF procVars, InHand
  <2> QED BY <2>1 DEF InHand
<1> QED BY <1>1, <1>2, <1>3, <1>4, <1>5, <1>6, <1>7, <1>8, <1>9, <1>10, <1>11, <1>12, <1>13
    DEF Next, Step

(* The simulator's state is always well typed, whatever the user asks for: *)
(* no command finds more retries, directories or entries than there are.   *)
THEOREM TypeCorrect == Spec => []TypeOK
<1>1. Init => TypeOK /\ InHand
  BY InitType
<1>2. TypeOK /\ InHand /\ [Next]_vars => (TypeOK /\ InHand)'
  BY TypeStep, InHandStep
<1> QED BY <1>1, <1>2, PTL DEF Spec

-----------------------------------------------------------------------------
(* A page allocated for reading stays so.                                  *)

(* A page is valid only below a directory, and only of a process that      *)
(* exists; the child's pages are the parent's.  `alloc' has found nothing. *)
Tables ==
  /\ ptbr = current
  /\ \A p \in Procs, v \in Vpns : pagetable[p][v].valid =>
       /\ p <= created
       /\ p # child => Directory(v) \in directories[p]
       /\ p = child => pagetable[current][v].valid
  /\ pc = "alloc" => ~pagetable[current][command.vpn].valid

(* The MMU's right to write goes with the right the page was allocated     *)
(* with.                                                                   *)
RightsAgree ==
  \A p \in Procs, v \in Vpns :
    pagetable[p][v].valid /\ pagetable[p][v].private = ACCESS_READ
      => ~MayWrite(pagetable[p][v].rw)

Inv == TypeOK /\ InHand /\ Tables /\ RightsAgree

LEMMA TablesInit == Init => Tables /\ RightsAgree
<1> SUFFICES ASSUME Init PROVE Tables /\ RightsAgree
  OBVIOUS
<1>1. \A p \in Procs, v \in Vpns : ~pagetable[p][v].valid
  BY DEF Init, NoPage
<1> QED BY <1>1 DEF Init, Tables, RightsAgree

(* `alloc' goes on when the page is not there.                             *)
LEMMA WalkFindsNothing ==
  ASSUME Inv, Translate, pc' = "alloc"
  PROVE  command' = command /\ ~pagetable[current][command.vpn].valid
<1>1. /\ pc = "translate" /\ command \in Commands /\ command.op # "switch"
      /\ command.vpn \in Vpns /\ current \in Procs /\ ptbr = current
  BY CommandFields, EntryType DEF Inv, Translate, InHand, Tables
<1>2. ~Translated
  BY DEF Translated, Goto, Reply, Done
<1>3. ~Walkable /\ Untranslated
  BY <1>2 DEF Translate
<1>4. command.op = "alloc" /\ command' = command
  BY <1>3 DEF Untranslated, Goto, Reply, Done
<1>5. ~MayWrite(Wanted)
  BY <1>4 DEF Wanted, MayWrite, ACCESS_READ, ACCESS_WRITE, READ_WRITE
<1>6. ~HasDirectory(current) \/ ~Pte(current).valid
  BY <1>1, <1>3, <1>5 DEF Walkable
<1>7. current # child
  BY <1>1 DEF Inv, InHand, NOBODY, Procs
<1> QED BY <1>1, <1>4, <1>6, <1>7 DEF Inv, Tables, HasDirectory, Pte

(* The entry a fault leaves: nobody may write what was allocated for       *)
(* reading, and no other page changes.                                     *)
LEMMA FaultEntry ==
  ASSUME Inv, Fault
  PROVE  /\ command.vpn \in Vpns /\ current \in Procs
         /\ \/ UNCHANGED pagetable
            \/ /\ HasDirectory(current)
               /\ pagetable[current][command.vpn].private # ACCESS_READ
               /\ \E e \in PTE :
                    /\ pagetable' = [pagetable EXCEPT ![current][command.vpn] = e]
                    /\ e.private # ACCESS_READ
<1>1. /\ command.vpn \in Vpns /\ current \in Procs /\ Pte(current) \in PTE
      /\ pagetable \in [Procs -> [Vpns -> PTE]]
      /\ Pte(current) = pagetable[current][command.vpn]
  BY CommandFields, EntryType DEF Inv, Fault, InHand, TypeOK, Pte
<1> DEFINE copies == ForWriting /\ HasDirectory(current) /\ WasWritable(Pte(current))
<1>2. UNCHANGED pagetable \/ (copies /\ (TakeOver \/ CopyPage(Pte(current).pfn)))
  BY DEF Fault
<1>3. ASSUME copies, TakeOver
      PROVE  \E e \in PTE :
               /\ pagetable' = [pagetable EXCEPT ![current][command.vpn] = e]
               /\ e.private # ACCESS_READ
  <2> DEFINE e == [Pte(current) EXCEPT !.rw = READ_WRITE, !.private = ACCESS_WRITE]
  <2>1. pagetable' = [pagetable EXCEPT ![current][command.vpn] = e]
    BY <1>1, <1>3 DEF TakeOver
  <2>2. e.private # ACCESS_READ
    BY <1>1 DEF PTE, ACCESS_READ, ACCESS_WRITE
  <2>3. e \in PTE
    <3>1. pagetable' \in [Procs -> [Vpns -> PTE]]
      BY <1>1, <1>3, CopyType DEF Inv
    <3>2. pagetable'[current][command.vpn] = e
      BY <1>1, <2>1
    <3> HIDE DEF e
    <3> QED BY <1>1, <3>1, <3>2
  <2> HIDE DEF e
  <2> QED BY <2>1, <2>2, <2>3
<1>4. ASSUME copies, CopyPage(Pte(current).pfn)
      PROVE  \E e \in PTE :
               /\ pagetable' = [pagetable EXCEPT ![current][command.vpn] = e]
               /\ e.private # ACCESS_READ
  <2>1. \E e : pagetable' = [pagetable EXCEPT ![current][command.vpn] = e]
                /\ e.private # ACCESS_READ
    <3>1. \/ \E f \in Frames :
               pagetable' = [pagetable EXCEPT ![current][command.vpn] =
                  [valid |-> TRUE, rw |-> READ_WRITE, pfn |-> f, private |-> ACCESS_WRITE]]
          \/ pagetable' = [pagetable EXCEPT ![current][command.vpn].rw = READ_WRITE]
      BY <1>4, Zenon DEF CopyPage
    <3>2. ASSUME NEW f \in Frames,
                 pagetable' = [pagetable EXCEPT ![current][command.vpn] =
                    [valid |-> TRUE, rw |-> READ_WRITE, pfn |-> f, private |-> ACCESS_WRITE]]
          PROVE  \E e : pagetable' = [pagetable EXCEPT ![current][command.vpn] = e]
                         /\ e.private # ACCESS_READ
      <4> DEFINE e == [valid |-> TRUE, rw |-> READ_WRITE, pfn |-> f, private |-> ACCESS_WRITE]
      <4>1. pagetable' = [pagetable EXCEPT ![current][command.vpn] = e]
        BY <3>2
      <4>2. e.private # ACCESS_READ
        BY DEF ACCESS_READ, ACCESS_WRITE
      <4> HIDE DEF e
      <4> QED BY <4>1, <4>2
    <3>3. ASSUME pagetable' = [pagetable EXCEPT ![current][command.vpn].rw = READ_WRITE]
          PROVE  \E e : pagetable' = [pagetable EXCEPT ![current][command.vpn] = e]
                         /\ e.private # ACCESS_READ
      <4> DEFINE e == [Pte(current) EXCEPT !.rw = READ_WRITE]
      <4>1. pagetable' = [pagetable EXCEPT ![current][command.vpn] = e]
        BY <1>1, <3>3
      <4>2. e.private # ACCESS_READ
        BY <1>1, <1>4 DEF PTE, WasWritable
      <4> HIDE DEF e
      <4> QED BY <4>1, <4>2
    <3> QED BY <3>1, <3>2, <3>3
  <2>2. PICK e : pagetable' = [pagetable EXCEPT ![current][command.vpn] = e]
                 /\ e.private # ACCESS_READ
    BY <2>1
  <2>3. pagetable' \in [Procs -> [Vpns -> PTE]]
    BY <1>1, <1>4, CopyType DEF Inv
  <2>4. e \in PTE
    BY <1>1, <2>2, <2>3
  <2> QED BY <2>2, <2>4
<1>5. copies => HasDirectory(current) /\ pagetable[current][command.vpn].private # ACCESS_READ
  BY <1>1 DEF WasWritable
<1> HIDE DEF copies
<1> QED BY <1>1, <1>2, <1>3, <1>4, <1>5

(* Every way a step can change one page.                                   *)
LEMMA PageWritten ==
  ASSUME Inv, NEW p \in Procs, NEW v \in Vpns, NEW e \in PTE,
         pagetable' = [pagetable EXCEPT ![p][v] = e],
         e.valid /\ e.private = ACCESS_READ => ~MayWrite(e.rw),
         pagetable[p][v].valid /\ e.valid =>
           (pagetable[p][v].private = ACCESS_READ => e.private = ACCESS_READ)
  PROVE  /\ RightsAgree'
         /\ \A q \in Procs, u \in Vpns : ~BecomesWritable(q, u)
<1>1. pagetable \in [Procs -> [Vpns -> PTE]]
  BY DEF Inv, TypeOK
<1>2. \A q \in Procs, u \in Vpns :
        pagetable'[q][u] = IF q = p /\ u = v THEN e ELSE pagetable[q][u]
  BY <1>1
<1>3. \A q \in Procs, u \in Vpns :
        pagetable[q][u].valid /\ pagetable[q][u].private = ACCESS_READ
          => ~MayWrite(pagetable[q][u].rw)
  BY DEF Inv, RightsAgree
<1>4. RightsAgree'
  BY <1>2, <1>3 DEF RightsAgree, MayWrite
<1> QED BY <1>2, <1>3, <1>4 DEF BecomesWritable

LEMMA NoPageWritten ==
  ASSUME Inv, UNCHANGED pagetable
  PROVE  /\ RightsAgree'
         /\ \A q \in Procs, u \in Vpns : ~BecomesWritable(q, u)
BY DEF Inv, RightsAgree, BecomesWritable, MayWrite

LEMMA RightsStep ==
  ASSUME Inv, [Next]_vars
  PROVE  /\ RightsAgree'
         /\ \A p \in Procs, v \in Vpns : ~BecomesWritable(p, v)
<1> USE DEF Inv
<1>1. CASE Command \/ CommandBeyond \/ Translate \/ SearchTlb \/ SwitchTo \/ TakeListHead
           \/ StartFork \/ ForkDone \/ Ended \/ UNCHANGED vars
  <2>1. UNCHANGED pagetable
    BY <1>1 DEF Command, CommandBeyond, Translate, SearchTlb, SwitchTo, TakeListHead, StartFork,
                ForkDone, Ended, vars, pageVars
  <2> QED BY <2>1, NoPageWritten
<1>2. CASE Fault
  <2>1. /\ command.vpn \in Vpns /\ current \in Procs
        /\ \/ UNCHANGED pagetable
           \/ /\ pagetable[current][command.vpn].private # ACCESS_READ
              /\ \E e \in PTE :
                   /\ pagetable' = [pagetable EXCEPT ![current][command.vpn] = e]
                   /\ e.private # ACCESS_READ
    BY <1>2, FaultEntry
  <2> QED BY <2>1, PageWritten, NoPageWritten
<1>3. CASE AllocPage
  <2>1. /\ command.vpn \in Vpns /\ current \in Procs
        /\ command.rw \in {ACCESS_READ, READ_WRITE}
        /\ ~pagetable[current][command.vpn].valid
    BY <1>3, CommandFields, EntryType DEF AllocPage, InHand, Tables
  <2>2. ASSUME NEW f \in Frames,
               pagetable' = [pagetable EXCEPT ![current][command.vpn] =
                 [valid |-> TRUE, rw |-> command.rw, pfn |-> f, private |-> command.rw]]
        PROVE  \E e \in PTE :
                 /\ pagetable' = [pagetable EXCEPT ![current][command.vpn] = e]
                 /\ e.private = ACCESS_READ => ~MayWrite(e.rw)
    <3> DEFINE e == [valid |-> TRUE, rw |-> command.rw, pfn |-> f, private |-> command.rw]
    <3>1. e \in PTE
      BY <2>1 DEF PTE, ACCESS_READ, READ_WRITE
    <3>2. e.private = ACCESS_READ => ~MayWrite(e.rw)
      BY DEF MayWrite, ACCESS_READ, ACCESS_WRITE, READ_WRITE
    <3>3. pagetable' = [pagetable EXCEPT ![current][command.vpn] = e]
      BY <2>2
    <3> HIDE DEF e
    <3> QED BY <3>1, <3>2, <3>3
  <2>3. \/ UNCHANGED pagetable
        \/ \E e \in PTE :
             /\ pagetable' = [pagetable EXCEPT ![current][command.vpn] = e]
             /\ e.private = ACCESS_READ => ~MayWrite(e.rw)
    BY <1>3, <2>2 DEF AllocPage, pageVars
  <2> QED BY <2>1, <2>3, PageWritten, NoPageWritten
<1>4. CASE FreePage
  <2>1. /\ command.vpn \in Vpns /\ current \in Procs
        /\ pagetable' = [pagetable EXCEPT ![current][command.vpn] = NoPage]
    BY <1>4, CommandFields, EntryType DEF FreePage, InHand
  <2>2. NoPage \in PTE /\ ~NoPage.valid
    BY SizeAssumption DEF NoPage, PTE, Frames
  <2> QED BY <2>1, <2>2, PageWritten
<1>5. CASE ForkPage
  <2>1. /\ child \in Procs /\ current \in Procs /\ current # child
        /\ pagetable \in [Procs -> [Vpns -> PTE]]
    BY <1>5, SizeAssumption DEF ForkPage, InHand, TypeOK, Procs
  <2>2. PICK v \in Vpns :
          /\ pagetable[current][v].valid /\ ~pagetable[child][v].valid
          /\ pagetable' = [pagetable EXCEPT ![current][v] = Shared(pagetable[current][v]),
                                            ![child][v] = Shared(pagetable[current][v])]
    BY <1>5, Zenon DEF ForkPage, ToCopy
  <2> DEFINE old == pagetable[current][v]
             e == Shared(old)
  <2>3. /\ old \in PTE /\ e \in PTE /\ e.rw = ACCESS_READ
        /\ e.private = IF old.rw = ACCESS_WRITE THEN old.rw ELSE old.private
    BY <2>1, SharedType
  <2>4. old.private = ACCESS_READ => ~MayWrite(old.rw)
    BY <2>1, <2>2 DEF RightsAgree
  <2>5. old.private = ACCESS_READ => e.private = ACCESS_READ
    BY <2>3, <2>4 DEF MayWrite
  <2>6. ~MayWrite(e.rw)
    BY <2>3 DEF MayWrite, ACCESS_READ, ACCESS_WRITE, READ_WRITE
  <2>7. \A q \in Procs, u \in Vpns :
          pagetable'[q][u] = IF q \in {current, child} /\ u = v THEN e ELSE pagetable[q][u]
    BY <2>1, <2>2
  <2> HIDE DEF e
  <2>8. RightsAgree'
    BY <2>6, <2>7 DEF RightsAgree, MayWrite
  <2>9. ASSUME NEW q \in Procs, NEW u \in Vpns
        PROVE  ~BecomesWritable(q, u)
    <3>1. CASE q = current /\ u = v
      BY <2>5, <2>6, <2>7, <3>1 DEF BecomesWritable
    <3>2. CASE q = child /\ u = v
      BY <2>2, <3>2 DEF BecomesWritable
    <3>3. CASE ~(q \in {current, child} /\ u = v)
      BY <2>7, <3>3 DEF BecomesWritable, RightsAgree
    <3> QED BY <3>1, <3>2, <3>3
  <2> QED BY <2>8, <2>9
<1> QED BY <1>1, <1>2, <1>3, <1>4, <1>5 DEF Next, Step

(* A page of the running process becomes another, valid below a directory. *)
LEMMA TablesWritten ==
  ASSUME Inv, NEW v \in Vpns, NEW e \in PTE,
         current # child, pc' # "alloc",
         pagetable' = [pagetable EXCEPT ![current][v] = e],
         UNCHANGED procVars,
         \A p \in Procs : directories[p] \subseteq directories'[p],
         e.valid => Directory(v) \in directories'[current],
         child = NOBODY
  PROVE  Tables'
<1>1. /\ current \in Procs /\ current <= created
      /\ pagetable \in [Procs -> [Vpns -> PTE]]
  BY SizeAssumption DEF Inv, TypeOK, Procs
<1>2. \A q \in Procs, u \in Vpns :
        pagetable'[q][u] = IF q = current /\ u = v THEN e ELSE pagetable[q][u]
  BY <1>1
<1>3. /\ current' = current /\ ptbr' = ptbr /\ created' = created /\ child' = NOBODY
      /\ ptbr = current
  BY DEF procVars, Inv, Tables
<1>4. NOBODY \notin Procs
  BY SizeAssumption DEF NOBODY, Procs
<1>5. ASSUME NEW q \in Procs, NEW u \in Vpns, pagetable'[q][u].valid
      PROVE  q <= created /\ Directory(u) \in directories'[q]
  <2>1. CASE q = current /\ u = v
    BY <1>1, <1>2, <1>5, <2>1
  <2>2. CASE ~(q = current /\ u = v)
    <3>1. pagetable[q][u].valid /\ q # child
      BY <1>2, <1>4, <1>5, <2>2
    <3> QED BY <3>1 DEF Inv, Tables
  <2> QED BY <2>1, <2>2
<1> QED BY <1>3, <1>4, <1>5 DEF Tables

LEMMA TablesStep ==
  ASSUME Inv, [Next]_vars
  PROVE  Tables'
<1> USE DEF Inv
<1>1. /\ current \in Procs /\ current \in 1..created /\ created \in 1..MaxProcs
      /\ ptbr = current /\ NOBODY \notin Procs
      /\ pagetable \in [Procs -> [Vpns -> PTE]]
      /\ directories \in [Procs -> SUBSET (0..(NR_PTES_PER_PAGE - 1))]
  BY SizeAssumption DEF TypeOK, Tables, Procs, NOBODY
<1>2. ASSUME UNCHANGED <<procVars, pageVars>>, pc' = "alloc" =>
               ~pagetable[current][command'.vpn].valid
      PROVE  Tables'
  BY <1>2 DEF Tables, procVars, pageVars
<1>3. CASE Command \/ SearchTlb \/ TakeListHead
  <2>1. pc' # "alloc" /\ UNCHANGED <<procVars, pageVars>>
    BY <1>3 DEF Command, SearchTlb, TakeListHead, Done, Goto
  <2> QED BY <1>2, <2>1
<1>4. CASE Translate
  <2>1. UNCHANGED <<procVars, pageVars>>
    BY <1>4 DEF Translate
  <2> QED BY <1>2, <1>4, <2>1, WalkFindsNothing
<1>5. CASE Fault
  <2>1. /\ pc = "fault" /\ child = NOBODY /\ pc' # "alloc"
        /\ UNCHANGED <<procVars, directories>>
    BY <1>5 DEF Fault, InHand, Retry, Goto, Reply, Done
  <2>2. /\ command.vpn \in Vpns
        /\ \/ UNCHANGED pagetable
           \/ /\ HasDirectory(current)
              /\ \E e \in PTE :
                   pagetable' = [pagetable EXCEPT ![current][command.vpn] = e]
    BY <1>5, FaultEntry
  <2>3. CASE UNCHANGED pagetable
    BY <2>1, <2>3 DEF Tables, procVars
  <2>4. CASE HasDirectory(current) /\ \E e \in PTE :
               pagetable' = [pagetable EXCEPT ![current][command.vpn] = e]
    BY <1>1, <2>1, <2>2, <2>4, TablesWritten DEF HasDirectory
  <2> QED BY <2>2, <2>3, <2>4
<1>6. CASE AllocPage
  <2>1. /\ pc = "alloc" /\ child = NOBODY /\ pc' # "alloc" /\ UNCHANGED procVars
        /\ command.vpn \in Vpns /\ command.rw \in {ACCESS_READ, READ_WRITE}
    BY <1>6, CommandFields DEF AllocPage, InHand, Done, Goto
  <2>2. CASE UNCHANGED pageVars
    BY <2>1, <2>2 DEF Tables, procVars, pageVars
  <2>3. ASSUME NEW f \in Frames,
               directories' = [directories EXCEPT ![current] = @ \union {Directory(command.vpn)}],
               pagetable' = [pagetable EXCEPT ![current][command.vpn] =
                 [valid |-> TRUE, rw |-> command.rw, pfn |-> f, private |-> command.rw]]
        PROVE  Tables'
    <3> DEFINE e == [valid |-> TRUE, rw |-> command.rw, pfn |-> f, private |-> command.rw]
    <3>1. e \in PTE
      BY <2>1 DEF PTE, ACCESS_READ, READ_WRITE
    <3>2. pagetable' = [pagetable EXCEPT ![current][command.vpn] = e]
      BY <2>3
    <3>3. /\ \A p \in Procs : directories[p] \subseteq directories'[p]
          /\ Directory(command.vpn) \in directories'[current]
      BY <1>1, <2>3
    <3> HIDE DEF e
    <3> QED BY <1>1, <2>1, <3>1, <3>2, <3>3, TablesWritten
  <2> QED BY <1>6, <2>2, <2>3 DEF AllocPage
<1>7. CASE FreePage
  <2>1. /\ pc = "free" /\ child = NOBODY /\ pc' # "alloc" /\ command.vpn \in Vpns
        /\ UNCHANGED <<procVars, directories>>
        /\ pagetable' = [pagetable EXCEPT ![current][command.vpn] = NoPage]
    BY <1>7, CommandFields DEF FreePage, InHand, Done, Goto
  <2>2. NoPage \in PTE /\ ~NoPage.valid
    BY SizeAssumption DEF NoPage, PTE, Frames
  <2> QED BY <1>1, <2>1, <2>2, TablesWritten
<1>8. CASE SwitchTo
  <2>1. /\ pc' = "command" /\ ptbr' = current'
        /\ UNCHANGED <<created, child, pageVars>> /\ child = NOBODY
    BY <1>8 DEF SwitchTo, ChangeCurrent, Done, InHand
  <2> QED BY <1>1, <2>1 DEF Tables, pageVars
<1>9. CASE StartFork
  <2>1. /\ pc' = "fork" /\ created' = created + 1 /\ child' = created + 1
        /\ UNCHANGED <<current, ptbr, pageVars>> /\ child = NOBODY
    BY <1>9 DEF StartFork, Goto, InHand
  <2>2. ASSUME NEW p \in Procs, NEW v \in Vpns, pagetable[p][v].valid
        PROVE  p <= created /\ Directory(v) \in directories[p] /\ p \in Int
    BY <1>1, <2>1, <2>2, SizeAssumption DEF Tables, Procs
  <2> QED BY <1>1, <2>1, <2>2 DEF Tables, pageVars
<1>10. CASE ForkPage
  <2>1. /\ pc = "fork" /\ child \in Procs /\ current # child /\ child = created
        /\ UNCHANGED <<pc, procVars, directories>>
    BY <1>10, SizeAssumption DEF ForkPage, InHand, TypeOK, Procs
  <2>2. PICK v \in Vpns :
          /\ pagetable[current][v].valid
          /\ pagetable' = [pagetable EXCEPT ![current][v] = Shared(pagetable[current][v]),
                                            ![child][v] = Shared(pagetable[current][v])]
    BY <1>10, Zenon DEF ForkPage, ToCopy
  <2> DEFINE e == Shared(pagetable[current][v])
  <2>3. e.valid
    BY <1>1, <2>2, SharedType
  <2>4. \A q \in Procs, u \in Vpns :
          pagetable'[q][u] = IF q \in {current, child} /\ u = v THEN e ELSE pagetable[q][u]
    BY <1>1, <2>1, <2>2
  <2> HIDE DEF e
  <2>5. ASSUME NEW q \in Procs, NEW u \in Vpns, pagetable'[q][u].valid
        PROVE  /\ q <= created
               /\ q # child => Directory(u) \in directories[q]
               /\ q = child => pagetable'[current][u].valid
    <3>1. CASE u = v /\ q = current
      BY <1>1, <2>2, <2>3, <2>4, <3>1 DEF Tables
    <3>2. CASE u = v /\ q = child
      BY <1>1, <2>1, <2>3, <2>4, <3>2
    <3>3. CASE u = v /\ q \notin {current, child}
      BY <2>4, <2>5, <3>3 DEF Tables
    <3>4. CASE u # v
      BY <1>1, <2>4, <2>5, <3>4 DEF Tables
    <3> QED BY <3>1, <3>2, <3>3, <3>4
  <2> QED BY <1>1, <2>1, <2>5 DEF Tables, procVars
<1>11. CASE ForkDone
  <2>1. /\ pc = "fork" /\ child = created /\ current # child
        /\ pc' = "command" /\ ptbr' = current' /\ child' = NOBODY
        /\ UNCHANGED <<created, pagetable>>
        /\ directories' = [directories EXCEPT ![child] = directories[current]]
    BY <1>11 DEF ForkDone, ChangeCurrent, Done, InHand
  <2>2. ASSUME NEW p \in Procs, NEW v \in Vpns, pagetable[p][v].valid
        PROVE  p <= created /\ Directory(v) \in directories'[p]
    <3>1. CASE p = child
      <4>1. pagetable[current][v].valid
        BY <2>2, <3>1 DEF Tables
      <4> QED BY <1>1, <2>1, <2>2, <3>1, <4>1 DEF Tables
    <3>2. CASE p # child
      BY <1>1, <2>1, <2>2, <3>2 DEF Tables
    <3> QED BY <3>1, <3>2
  <2> QED BY <1>1, <2>1, <2>2 DEF Tables
<1>12. CASE Ended \/ UNCHANGED vars
  BY <1>12 DEF Ended, vars, Tables
<1>13. CASE CommandBeyond
  BY <1>2, <1>13, BeyondTheTable
<1> QED BY <1>3, <1>4, <1>5, <1>6, <1>7, <1>8, <1>9, <1>10, <1>11, <1>12, <1>13
    DEF Next, Step

LEMMA Invariant == Spec => []Inv
<1>1. Init => Inv
  BY InitType, TablesInit DEF Inv
<1>2. Inv /\ [Next]_vars => Inv'
  BY TypeStep, InHandStep, TablesStep, RightsStep DEF Inv
<1> QED BY <1>1, <1>2, PTL DEF Spec

(* No fault, allocation, free or fork gives the right to write a page that *)
(* was allocated for reading, for any number of processes, pages and       *)
(* frames, and whatever the user asks for.                                 *)
THEOREM ReadOnlyPages == Spec => ReadOnlyStays
<1>1. Inv /\ [Next]_vars => [\A p \in Procs, v \in Vpns : ~BecomesWritable(p, v)]_vars
  BY RightsStep
<1> QED BY <1>1, Invariant, PTL DEF Spec, ReadOnlyStays

-----------------------------------------------------------------------------
(* The processes.                                                          *)

(* The list holds every other process once; a fork adds the child last.    *)
Listed ==
  /\ \A i, j \in DOMAIN processes : processes[i] = processes[j] => i = j
  /\ \A p \in 1..created :
       (\E k \in DOMAIN processes : processes[k] = p) <=> p \notin {current, child}
  /\ Len(processes) = created - (IF pc = "fork" THEN 2 ELSE 1)

LEMMA ListedInit == Init => Listed
<1> SUFFICES ASSUME Init PROVE Listed
  OBVIOUS
<1>1. processes = <<>> /\ DOMAIN processes = {} /\ Len(processes) = 0
  BY DEF Init
<1>2. created = 1 /\ current = 1 /\ child = NOBODY /\ pc = "command"
  BY DEF Init
<1> QED BY <1>1, <1>2 DEF Listed, NOBODY

LEMMA ListedStep ==
  ASSUME TypeOK, InHand, Listed, [Next]_vars
  PROVE  Listed'
<1>1. /\ processes \in Seq(1..created) /\ current \in 1..created
      /\ created \in 1..MaxProcs /\ MaxProcs \in Nat
      /\ Len(processes) \in Nat /\ DOMAIN processes = 1..Len(processes)
  BY SizeAssumption, LenProperties DEF TypeOK, Procs
<1>2. ASSUME UNCHANGED procVars, pc' = "fork" <=> pc = "fork"
      PROVE  Listed'
  BY <1>2 DEF Listed, procVars
<1>3. CASE Command \/ Translate \/ Fault \/ AllocPage \/ FreePage
           \/ SearchTlb \/ TakeListHead \/ ForkPage
  <2>1. UNCHANGED procVars
    BY <1>3 DEF Command, Translate, Fault, AllocPage, FreePage, SearchTlb,
                TakeListHead, ForkPage
  <2>2. CASE Command
    BY <1>2, <2>1, <2>2 DEF Command
  <2>3. CASE Translate
    BY <1>2, <2>1, <2>3 DEF Translate, Translated, Untranslated, Goto, Reply, Done
  <2>4. CASE Fault
    BY <1>2, <2>1, <2>4 DEF Fault, Retry, Goto, Reply, Done
  <2>5. CASE AllocPage \/ FreePage \/ SearchTlb \/ TakeListHead \/ ForkPage
    BY <1>2, <2>1, <2>5 DEF AllocPage, FreePage, SearchTlb, TakeListHead, ForkPage,
                            Goto, Done
  <2> QED BY <1>3, <2>2, <2>3, <2>4, <2>5
<1>4. CASE SwitchTo
  <2>1. PICK k \in DOMAIN processes :
          ChangeCurrent(processes[k], RemoveAt(processes, k))
    BY <1>4 DEF SwitchTo
  <2> DEFINE next == processes[k]
             rest == RemoveAt(processes, k)
  <2>2. /\ pc' = "command" /\ child = NOBODY /\ child' = NOBODY /\ created' = created
        /\ processes' = Append(rest, current) /\ current' = next /\ pc = "switch"
    BY <1>4, <2>1 DEF SwitchTo, ChangeCurrent, Done, InHand
  <2>3. next \in 1..created /\ next # current
    BY <1>1 DEF Listed
  <2>4. /\ rest \in Seq(1..created) /\ Len(rest) = Len(processes) - 1
        /\ \A i, j \in DOMAIN rest : rest[i] = rest[j] => i = j
        /\ \A p : (\E i \in DOMAIN rest : rest[i] = p)
                    <=> (\E i \in DOMAIN processes : processes[i] = p) /\ p # next
    BY <1>1, RemoveAtSeq, RemoveAtOnce DEF Listed
  <2> HIDE DEF next, rest
  <2>5. ~(\E i \in DOMAIN rest : rest[i] = current)
    BY <1>1, <2>4 DEF Listed
  <2>6. /\ \A i, j \in DOMAIN Append(rest, current) :
             Append(rest, current)[i] = Append(rest, current)[j] => i = j
        /\ \A p : (\E i \in DOMAIN Append(rest, current) : Append(rest, current)[i] = p)
                    <=> (\E i \in DOMAIN rest : rest[i] = p) \/ p = current
    <3>1. rest \in Seq(1..created) /\ current \in 1..created
      BY <1>1, <2>4
    <3>2. \A i, j \in DOMAIN rest : rest[i] = rest[j] => i = j
      BY <2>4
    <3> QED BY <2>5, <3>1, <3>2, AppendOnce, ZenonT(60)
  <2>7. Len(processes') = created - 1
    <3>1. Len(Append(rest, current)) = Len(rest) + 1
      <4>1. rest \in Seq(1..created) /\ current \in 1..created
        BY <1>1, <2>4
      <4> QED BY <4>1, AppendProperties
    <3>2. Len(processes) = created - 1
      BY <2>2 DEF Listed
    <3> QED BY <1>1, <2>2, <2>4, <3>1, <3>2
  <2>8. ASSUME NEW p \in 1..created
        PROVE  (\E i \in DOMAIN processes' : processes'[i] = p) <=> p \notin {next, NOBODY}
    <3>1. p # NOBODY
      BY DEF NOBODY
    <3>2. (\E i \in DOMAIN processes : processes[i] = p) <=> p # current
      BY <2>2, <3>1 DEF Listed
    <3>3. (\E i \in DOMAIN processes' : processes'[i] = p)
            <=> ((\E i \in DOMAIN processes : processes[i] = p) /\ p # next) \/ p = current
      BY <2>2, <2>4, <2>6, Zenon
    <3> QED BY <2>3, <3>1, <3>2, <3>3
  <2> QED BY <2>2, <2>6, <2>7, <2>8 DEF Listed
<1>5. CASE StartFork
  <2>1. /\ pc' = "fork" /\ pc = "switch" /\ child = NOBODY
        /\ child' = created + 1 /\ created' = created + 1
        /\ UNCHANGED <<current, processes>>
    BY <1>5 DEF StartFork, Goto, InHand
  <2>2. \A k \in DOMAIN processes : processes[k] \in 1..created
    BY <1>1, ElementOfSeq
  <2>3. ASSUME NEW p \in 1..(created + 1)
        PROVE  (\E k \in DOMAIN processes : processes[k] = p) <=> p \notin {current, created + 1}
    <3>1. CASE p = created + 1
      BY <1>1, <2>2, <3>1
    <3>2. CASE p # created + 1
      <4>1. p \in 1..created /\ p # NOBODY
        BY <1>1, <3>2 DEF NOBODY
      <4> QED BY <2>1, <3>2, <4>1 DEF Listed
    <3> QED BY <3>1, <3>2
  <2>4. Len(processes) = created + 1 - 2
    BY <1>1, <2>1 DEF Listed
  <2> QED BY <1>1, <2>1, <2>3, <2>4 DEF Listed
<1>6. CASE ForkDone
  <2>1. /\ pc' = "command" /\ pc = "fork" /\ child = created /\ child' = NOBODY
        /\ created' = created /\ current # child /\ current' = child
        /\ processes' = Append(processes, current)
    BY <1>6 DEF ForkDone, ChangeCurrent, Done, InHand
  <2>2. ~(\E i \in DOMAIN processes : processes[i] = current)
    BY <1>1 DEF Listed
  <2>3. /\ \A i, j \in DOMAIN Append(processes, current) :
             Append(processes, current)[i] = Append(processes, current)[j] => i = j
        /\ \A p : (\E i \in DOMAIN Append(processes, current) :
                       Append(processes, current)[i] = p)
                    <=> (\E i \in DOMAIN processes : processes[i] = p) \/ p = current
        /\ Len(Append(processes, current)) = Len(processes) + 1
    BY <1>1, <2>2, AppendOnce, AppendProperties, SMTT(40) DEF Listed
  <2>4. ASSUME NEW p \in 1..created
        PROVE  (\E i \in DOMAIN processes' : processes'[i] = p) <=> p \notin {child, NOBODY}
    <3>1. (\E i \in DOMAIN processes : processes[i] = p) <=> p \notin {current, child}
      BY DEF Listed
    <3>2. (\E i \in DOMAIN processes' : processes'[i] = p)
            <=> (\E i \in DOMAIN processes : processes[i] = p) \/ p = current
      BY <2>1, <2>3, Zenon
    <3>3. p # NOBODY
      BY DEF NOBODY
    <3> QED BY <2>1, <3>1, <3>2, <3>3
  <2>5. Len(processes') = created - 1
    BY <1>1, <2>1, <2>3 DEF Listed
  <2> QED BY <2>1, <2>3, <2>4, <2>5 DEF Listed
<1>7. CASE Ended \/ UNCHANGED vars
  BY <1>7 DEF Ended, vars, Listed
<1>8. CASE CommandBeyond
  BY <1>2, <1>8, BeyondTheTable
<1> QED BY <1>3, <1>4, <1>5, <1>6, <1>7, <1>8 DEF Next, Step

(* Between forks, the running process and the list hold every process      *)
(* once, however often and to whomever the user switches.                  *)
THEOREM NobodyLost == Spec => []EveryProcessOnce
<1>1. Init => Listed
  BY ListedInit
<1>2. TypeOK /\ InHand /\ Listed /\ [Next]_vars => Listed'
  BY ListedStep
<1>3. Inv /\ Listed => EveryProcessOnce
  <2> SUFFICES ASSUME Inv, Listed, pc \notin {"corrupt", "fork"}
               PROVE  /\ \A p \in 1..created :
                           p # current <=> \E k \in DOMAIN processes : processes[k] = p
                      /\ Len(processes) = created - 1
    BY DEF EveryProcessOnce
  <2>1. child = NOBODY /\ NOBODY \notin 1..created
    BY DEF Inv, InHand, NOBODY
  <2> QED BY <2>1 DEF Listed
<1>4. Inv => TypeOK /\ InHand
  BY DEF Inv
<1> QED BY <1>1, <1>2, <1>3, <1>4, Invariant, PTL DEF Spec

-----------------------------------------------------------------------------
(* Page tables, frames and counts.  The lemmas of this part are about any  *)
(* page table t and any counts c; the state comes after them.              *)

PageTables == [Procs -> [Vpns -> PTE]]
FrameCounts == [Frames -> 0..(UINT_MOD - 1)]

Maps(e, f) == e.valid /\ e.pfn = f
MappingsIn(t, f) == { m \in Procs \X Vpns : Maps(t[m[1]][m[2]], f) }

(* A frame is mapped for one page number only, and one that two processes  *)
(* map is writable through neither.                                        *)
Apart(t) ==
  \A p, q \in Procs, u, v \in Vpns :
    t[p][u].valid /\ t[q][v].valid /\ t[p][u].pfn = t[q][v].pfn =>
      u = v /\ (p # q => ~MayWrite(t[p][u].rw))

(* The page table and the counts go together. *)
Consistent(t, c) ==
  /\ t \in PageTables /\ c \in FrameCounts
  /\ \A p \in Procs, v \in Vpns : t[p][v].valid => t[p][v].rw \in 1..3
  /\ Apart(t)
  /\ \A f \in Frames : c[f] = Cardinality(MappingsIn(t, f))

LEMMA SetsFinite ==
  /\ IsFiniteSet(Procs) /\ Cardinality(Procs) = MaxProcs
  /\ IsFiniteSet(Procs \X Vpns)
<1>1. IsFiniteSet(Procs) /\ Cardinality(Procs) = MaxProcs
  <2>1. 1 \in Int /\ MaxProcs \in Int /\ ~(1 > MaxProcs) /\ MaxProcs - 1 + 1 = MaxProcs
    BY SizeAssumption
  <2> QED BY <2>1, FS_Interval DEF Procs
<1>2. IsFiniteSet(Vpns)
  <2>1. NR_TLB_ENTRIES \in Int
    BY SizeAssumption DEF NR_TLB_ENTRIES
  <2>2. IsFiniteSet(0..(NR_TLB_ENTRIES - 1))
    BY <2>1, FS_Interval
  <2>3. Vpns \in SUBSET (0..(NR_TLB_ENTRIES - 1))
    BY SizeAssumption
  <2> QED BY <2>2, <2>3, FS_Subset
<1> QED BY <1>1, <1>2, FS_Product

LEMMA MappingsFinite ==
  ASSUME NEW t, NEW f
  PROVE  /\ IsFiniteSet(MappingsIn(t, f))
         /\ Cardinality(MappingsIn(t, f)) \in Nat
<1>1. MappingsIn(t, f) \in SUBSET (Procs \X Vpns)
  BY DEF MappingsIn
<1> QED BY <1>1, SetsFinite, FS_Subset, FS_CardinalityType

(* No more mappings of a frame than processes.                             *)
LEMMA MappingsBound ==
  ASSUME NEW t, NEW f, Apart(t)
  PROVE  Cardinality(MappingsIn(t, f)) <= MaxProcs
<1>1. CASE MappingsIn(t, f) = {}
  <2>1. Cardinality(MappingsIn(t, f)) = 0
    BY <1>1, FS_EmptySet
  <2> QED BY <2>1, SizeAssumption
<1>2. CASE MappingsIn(t, f) # {}
  <2>1. PICK m \in MappingsIn(t, f) : TRUE
    BY <1>2
  <2>2. \A n \in MappingsIn(t, f) : n = <<n[1], n[2]>> /\ n[1] \in Procs /\ n[2] = m[2]
    BY <2>1 DEF MappingsIn, Maps, Apart
  <2> DEFINE S == Procs \X {m[2]}
  <2>3. MappingsIn(t, f) \in SUBSET S
    BY <2>2
  <2>4. IsFiniteSet({m[2]}) /\ Cardinality({m[2]}) = 1
    BY FS_Singleton
  <2>5. IsFiniteSet(S) /\ Cardinality(S) = MaxProcs * 1
    BY <2>4, SetsFinite, FS_Product
  <2> HIDE DEF S
  <2>6. Cardinality(MappingsIn(t, f)) <= Cardinality(S)
    BY <2>3, <2>5, FS_Subset
  <2> QED BY <2>5, <2>6, SizeAssumption
<1> QED BY <1>1, <1>2

(* What writing the entry of a page does to the mappings of a frame.       *)
LEMMA MappingsWritten ==
  ASSUME NEW t \in PageTables, NEW p \in Procs, NEW v \in Vpns, NEW e, NEW f
  PROVE  LET u == [t EXCEPT ![p][v] = e]
             before == Cardinality(MappingsIn(t, f))
             after == Cardinality(MappingsIn(u, f))
         IN  /\ Maps(t[p][v], f) /\ Maps(e, f) => after = before
             /\ ~Maps(t[p][v], f) /\ ~Maps(e, f) => after = before
             /\ Maps(t[p][v], f) /\ ~Maps(e, f) => after = before - 1
             /\ ~Maps(t[p][v], f) /\ Maps(e, f) => after = before + 1
<1> DEFINE u == [t EXCEPT ![p][v] = e]
           m == <<p, v>>
<1>1. /\ \A n \in Procs \X Vpns :
           u[n[1]][n[2]] = IF n = m THEN e ELSE t[n[1]][n[2]]
      /\ m \in Procs \X Vpns /\ m[1] = p /\ m[2] = v
  BY DEF PageTables
<1>2. /\ m \in MappingsIn(t, f) <=> Maps(t[p][v], f)
      /\ MappingsIn(u, f) = IF Maps(e, f) THEN MappingsIn(t, f) \union {m}
                                          ELSE MappingsIn(t, f) \ {m}
  <2> HIDE DEF u, m
  <2> QED BY <1>1 DEF MappingsIn
<1>3. /\ Cardinality(MappingsIn(t, f) \union {m}) =
           IF m \in MappingsIn(t, f) THEN Cardinality(MappingsIn(t, f))
                                     ELSE Cardinality(MappingsIn(t, f)) + 1
      /\ Cardinality(MappingsIn(t, f) \ {m}) =
           IF m \in MappingsIn(t, f) THEN Cardinality(MappingsIn(t, f)) - 1
                                     ELSE Cardinality(MappingsIn(t, f))
  BY MappingsFinite, FS_AddElement, FS_RemoveElement
<1> HIDE DEF m, u
<1>4. /\ Maps(t[p][v], f) /\ Maps(e, f) =>
           Cardinality(MappingsIn(u, f)) = Cardinality(MappingsIn(t, f))
      /\ ~Maps(t[p][v], f) /\ ~Maps(e, f) =>
           Cardinality(MappingsIn(u, f)) = Cardinality(MappingsIn(t, f))
      /\ Maps(t[p][v], f) /\ ~Maps(e, f) =>
           Cardinality(MappingsIn(u, f)) = Cardinality(MappingsIn(t, f)) - 1
      /\ ~Maps(t[p][v], f) /\ Maps(e, f) =>
           Cardinality(MappingsIn(u, f)) = Cardinality(MappingsIn(t, f)) + 1
  BY <1>2, <1>3
<1> QED BY <1>4 DEF u

(* The counts of a consistent table are far from where they wrap around.   *)
LEMMA CountBounds ==
  ASSUME NEW t, NEW c, Consistent(t, c), NEW f \in Frames
  PROVE  /\ c[f] \in 0..MaxProcs
         /\ AsInt(c[f]) = c[f]
         /\ c[f] = Cardinality(MappingsIn(t, f))
         /\ \A p \in Procs, v \in Vpns : Maps(t[p][v], f) => c[f] >= 1
<1>1. c[f] \in 0..MaxProcs /\ c[f] = Cardinality(MappingsIn(t, f))
  BY MappingsBound, MappingsFinite, SizeAssumption DEF Consistent
<1>2. AsInt(c[f]) = c[f]
  BY <1>1, WidthAssumption, SizeAssumption DEF AsInt
<1>3. ASSUME NEW p \in Procs, NEW v \in Vpns, Maps(t[p][v], f)
      PROVE  c[f] >= 1
  <2>1. <<p, v>> \in MappingsIn(t, f)
    BY <1>3 DEF MappingsIn
  <2>2. Cardinality(MappingsIn(t, f)) # 0
    BY <2>1, MappingsFinite, FS_EmptySet
  <2> QED BY <1>1, <2>2
<1> QED BY <1>1, <1>2, <1>3

(* A frame with one mapping has no other; one with more is read-only.      *)
LEMMA OneMapping ==
  ASSUME NEW t, NEW c, Consistent(t, c), NEW p \in Procs, NEW v \in Vpns,
         t[p][v].valid
  PROVE  /\ t[p][v].pfn \in Frames /\ t[p][v] \in PTE
         /\ c[t[p][v].pfn] = 1 =>
              \A q \in Procs, u \in Vpns :
                Maps(t[q][u], t[p][v].pfn) => q = p /\ u = v
         /\ c[t[p][v].pfn] >= 2 => ~MayWrite(t[p][v].rw)
<1> DEFINE f == t[p][v].pfn
           m == <<p, v>>
<1>1. f \in Frames /\ t[p][v] \in PTE
  BY DEF Consistent, PageTables, PTE
<1>2. m \in MappingsIn(t, f)
  BY DEF MappingsIn, Maps
<1>3. c[f] = Cardinality(MappingsIn(t, f)) /\ IsFiniteSet(MappingsIn(t, f))
  BY <1>1, MappingsFinite DEF Consistent
<1>4. ASSUME c[f] = 1
      PROVE  \A q \in Procs, u \in Vpns : Maps(t[q][u], f) => q = p /\ u = v
  <2>1. \E x : MappingsIn(t, f) = {x}
    BY <1>3, <1>4, FS_Singleton
  <2>2. \A n \in MappingsIn(t, f) : n = m
    BY <1>2, <2>1
  <2>3. \A q \in Procs, u \in Vpns : Maps(t[q][u], f) => <<q, u>> \in MappingsIn(t, f)
    BY DEF MappingsIn
  <2> QED BY <2>2, <2>3
<1>5. ASSUME c[f] >= 2
      PROVE  ~MayWrite(t[p][v].rw)
  <2>1. MappingsIn(t, f) # {m}
    <3>1. Cardinality({m}) = 1
      BY FS_Singleton
    <3> QED BY <1>3, <1>5, <3>1
  <2>2. PICK n \in MappingsIn(t, f) : n # m
    BY <1>2, <2>1
  <2>3. /\ n[1] \in Procs /\ n[2] \in Vpns /\ n = <<n[1], n[2]>>
        /\ t[n[1]][n[2]].valid /\ t[n[1]][n[2]].pfn = f
    BY <2>2 DEF MappingsIn, Maps
  <2>4. n[2] = v /\ n[1] # p
    BY <2>2, <2>3 DEF Consistent, Apart
  <2> QED BY <2>3, <2>4 DEF Consistent, Apart
<1> QED BY <1>1, <1>4, <1>5

LEMMA TableWritten ==
  ASSUME NEW t \in PageTables, NEW p \in Procs, NEW v \in Vpns, NEW e \in PTE
  PROVE  LET u == [t EXCEPT ![p][v] = e]
         IN  /\ u \in PageTables
             /\ \A q \in Procs, x \in Vpns :
                  u[q][x] = IF q = p /\ x = v THEN e ELSE t[q][x]
BY DEF PageTables

(* free_page: the mapping goes, and its count.                             *)
LEMMA PageRemoved ==
  ASSUME NEW t, NEW c, Consistent(t, c), NEW p \in Procs, NEW v \in Vpns,
         t[p][v].valid
  PROVE  Consistent([t EXCEPT ![p][v] = NoPage], Decremented(c, t[p][v].pfn))
<1> DEFINE u == [t EXCEPT ![p][v] = NoPage]
           g == t[p][v].pfn
           d == Decremented(c, g)
<1>1. /\ t \in PageTables /\ c \in FrameCounts /\ g \in Frames /\ Maps(t[p][v], g)
      /\ \A f \in Frames : f # g => ~Maps(t[p][v], f)
      /\ NoPage \in PTE /\ ~NoPage.valid /\ \A f : ~Maps(NoPage, f)
  BY OneMapping, SizeAssumption DEF Consistent, Maps, NoPage, PTE, Frames
<1>2. /\ u \in PageTables
      /\ \A q \in Procs, x \in Vpns :
           u[q][x] = IF q = p /\ x = v THEN NoPage ELSE t[q][x]
  BY <1>1, TableWritten
<1>3. d \in FrameCounts
  BY <1>1, CountTypes DEF FrameCounts
<1>4. \A f \in Frames : d[f] = IF f = g THEN c[f] - 1 ELSE c[f]
  <2>1. c[g] \in 1..MaxProcs
    BY <1>1, CountBounds
  <2>2. (c[g] - 1) % UINT_MOD = c[g] - 1
    BY <2>1, WidthAssumption, SizeAssumption
  <2> QED BY <1>1, <2>2 DEF Decremented, FrameCounts
<1>5. \A f \in Frames : d[f] = Cardinality(MappingsIn(u, f))
  <2> SUFFICES ASSUME NEW f \in Frames PROVE d[f] = Cardinality(MappingsIn(u, f))
    OBVIOUS
  <2>1. c[f] = Cardinality(MappingsIn(t, f))
    BY DEF Consistent
  <2>2. Cardinality(MappingsIn(u, f)) =
          IF f = g THEN Cardinality(MappingsIn(t, f)) - 1 ELSE Cardinality(MappingsIn(t, f))
    BY <1>1, MappingsWritten
  <2> HIDE DEF u, d, g
  <2> QED BY <1>4, <2>1, <2>2
<1>6. Apart(u)
  BY <1>1, <1>2 DEF Apart, Consistent
<1>7. \A q \in Procs, x \in Vpns : u[q][x].valid => u[q][x].rw \in 1..3
  BY <1>1, <1>2 DEF Consistent
<1> HIDE DEF u, d
<1>8. Consistent(u, d)
  BY <1>2, <1>3, <1>5, <1>6, <1>7 DEF Consistent
<1> QED BY <1>8 DEF u, d

LEMMA CountUp ==
  ASSUME NEW c \in FrameCounts, NEW g \in Frames, c[g] \in 0..MaxProcs
  PROVE  /\ Incremented(c, g) \in FrameCounts
         /\ \A f \in Frames : Incremented(c, g)[f] = IF f = g THEN c[f] + 1 ELSE c[f]
<1>1. (c[g] + 1) % UINT_MOD = c[g] + 1
  BY WidthAssumption, SizeAssumption
<1> QED BY <1>1, CountTypes DEF Incremented, FrameCounts

(* alloc_page: a frame that nobody maps gets a mapping, and a count.       *)
LEMMA PageAdded ==
  ASSUME NEW t, NEW c, Consistent(t, c), NEW p \in Procs, NEW v \in Vpns,
         ~t[p][v].valid,
         NEW e \in PTE, e.valid, e.rw \in 1..3, c[e.pfn] = 0
  PROVE  Consistent([t EXCEPT ![p][v] = e], Incremented(c, e.pfn))
<1> DEFINE u == [t EXCEPT ![p][v] = e]
           g == e.pfn
           d == Incremented(c, g)
<1>1. /\ t \in PageTables /\ c \in FrameCounts /\ g \in Frames /\ Maps(e, g)
      /\ \A f : ~Maps(t[p][v], f)
      /\ \A f : f # g => ~Maps(e, f)
  BY DEF Consistent, Maps, PTE
<1>2. /\ u \in PageTables
      /\ \A q \in Procs, x \in Vpns :
           u[q][x] = IF q = p /\ x = v THEN e ELSE t[q][x]
  BY <1>1, TableWritten
<1>3. /\ d \in FrameCounts
      /\ \A f \in Frames : d[f] = IF f = g THEN c[f] + 1 ELSE c[f]
  BY <1>1, CountUp, SizeAssumption
<1>4. \A q \in Procs, x \in Vpns : t[q][x].valid => t[q][x].pfn # g
  BY <1>1, CountBounds DEF Maps
<1>5. \A f \in Frames : d[f] = Cardinality(MappingsIn(u, f))
  <2> SUFFICES ASSUME NEW f \in Frames PROVE d[f] = Cardinality(MappingsIn(u, f))
    OBVIOUS
  <2>1. c[f] = Cardinality(MappingsIn(t, f))
    BY DEF Consistent
  <2>2. Cardinality(MappingsIn(u, f)) =
          IF f = g THEN Cardinality(MappingsIn(t, f)) + 1 ELSE Cardinality(MappingsIn(t, f))
    BY <1>1, MappingsWritten
  <2> HIDE DEF u, d, g
  <2> QED BY <1>3, <2>1, <2>2
<1>6. Apart(u)
  BY <1>1, <1>2, <1>4 DEF Apart, Consistent
<1>7. \A q \in Procs, x \in Vpns : u[q][x].valid => u[q][x].rw \in 1..3
  BY <1>1, <1>2 DEF Consistent
<1> HIDE DEF u, d
<1>8. Consistent(u, d)
  BY <1>2, <1>3, <1>5, <1>6, <1>7 DEF Consistent
<1> QED BY <1>8 DEF u, d

(* The rights of a mapping change; it may be written if it is the only one. *)
LEMMA RightsChanged ==
  ASSUME NEW t, NEW c, Consistent(t, c), NEW p \in Procs, NEW v \in Vpns,
         t[p][v].valid,
         NEW e \in PTE, e.valid, e.rw \in 1..3, e.pfn = t[p][v].pfn,
         MayWrite(e.rw) => c[e.pfn] = 1
  PROVE  Consistent([t EXCEPT ![p][v] = e], c)
<1> DEFINE u == [t EXCEPT ![p][v] = e]
<1>1. /\ t \in PageTables /\ c \in FrameCounts /\ e.pfn \in Frames
      /\ \A f : Maps(t[p][v], f) <=> Maps(e, f)
  BY DEF Consistent, Maps, PTE
<1>2. /\ u \in PageTables
      /\ \A q \in Procs, x \in Vpns :
           u[q][x] = IF q = p /\ x = v THEN e ELSE t[q][x]
  BY <1>1, TableWritten
<1>3. \A f \in Frames : c[f] = Cardinality(MappingsIn(u, f))
  <2> SUFFICES ASSUME NEW f \in Frames PROVE c[f] = Cardinality(MappingsIn(u, f))
    OBVIOUS
  <2>1. c[f] = Cardinality(MappingsIn(t, f))
    BY DEF Consistent
  <2>2. Cardinality(MappingsIn(u, f)) = Cardinality(MappingsIn(t, f))
    BY <1>1, MappingsWritten
  <2> HIDE DEF u
  <2> QED BY <2>1, <2>2
<1>4. MayWrite(e.rw) =>
        \A q \in Procs, x \in Vpns : t[q][x].valid /\ t[q][x].pfn = e.pfn => q = p /\ x = v
  BY OneMapping DEF Maps
<1>5. Apart(u)
  <2> SUFFICES ASSUME NEW q \in Procs, NEW r \in Procs, NEW x \in Vpns, NEW y \in Vpns,
                      u[q][x].valid, u[r][y].valid, u[q][x].pfn = u[r][y].pfn
               PROVE  x = y /\ (q # r => ~MayWrite(u[q][x].rw))
    BY DEF Apart
  <2>1. t[q][x].valid /\ t[r][y].valid /\ t[q][x].pfn = t[r][y].pfn
    BY <1>2
  <2>2. x = y /\ (q # r => ~MayWrite(t[q][x].rw))
    BY <2>1 DEF Consistent, Apart
  <2>3. CASE q = p /\ x = v
    BY <1>2, <1>4, <2>1, <2>2, <2>3
  <2>4. CASE ~(q = p /\ x = v)
    BY <1>2, <2>2, <2>4
  <2> QED BY <2>3, <2>4
<1>6. \A q \in Procs, x \in Vpns : u[q][x].valid => u[q][x].rw \in 1..3
  BY <1>1, <1>2 DEF Consistent
<1> HIDE DEF u
<1>7. Consistent(u, c)
  BY <1>1, <1>2, <1>3, <1>5, <1>6 DEF Consistent
<1> QED BY <1>7 DEF u

(* A fork: the child maps the frame of a page that nobody may write.       *)
LEMMA PageShared ==
  ASSUME NEW t, NEW c, Consistent(t, c), NEW p \in Procs, NEW v \in Vpns,
         t[p][v].valid, ~MayWrite(t[p][v].rw),
         NEW q \in Procs, q # p, ~t[q][v].valid
  PROVE  Consistent([t EXCEPT ![q][v] = t[p][v]], Incremented(c, t[p][v].pfn))
<1> DEFINE e == t[p][v]
           u == [t EXCEPT ![q][v] = e]
           g == e.pfn
           d == Incremented(c, g)
<1>1. /\ t \in PageTables /\ c \in FrameCounts /\ e \in PTE /\ g \in Frames /\ Maps(e, g)
      /\ e.valid /\ e.rw \in 1..3
      /\ \A f : ~Maps(t[q][v], f)
      /\ \A f : f # g => ~Maps(e, f)
  BY OneMapping DEF Consistent, Maps
<1>2. /\ u \in PageTables
      /\ \A r \in Procs, x \in Vpns :
           u[r][x] = IF r = q /\ x = v THEN e ELSE t[r][x]
  BY <1>1, TableWritten
<1>3. /\ d \in FrameCounts
      /\ \A f \in Frames : d[f] = IF f = g THEN c[f] + 1 ELSE c[f]
  BY <1>1, CountBounds, CountUp
<1>4. \A f \in Frames : d[f] = Cardinality(MappingsIn(u, f))
  <2> SUFFICES ASSUME NEW f \in Frames PROVE d[f] = Cardinality(MappingsIn(u, f))
    OBVIOUS
  <2>1. c[f] = Cardinality(MappingsIn(t, f))
    BY DEF Consistent
  <2>2. Cardinality(MappingsIn(u, f)) =
          IF f = g THEN Cardinality(MappingsIn(t, f)) + 1 ELSE Cardinality(MappingsIn(t, f))
    BY <1>1, MappingsWritten
  <2> HIDE DEF u, d, g
  <2> QED BY <1>3, <2>1, <2>2
<1>5. \A r \in Procs, x \in Vpns :
        t[r][x].valid /\ t[r][x].pfn = g => x = v /\ ~MayWrite(t[r][x].rw)
  BY <1>1 DEF Consistent, Apart
<1>6. Apart(u)
  <2> SUFFICES ASSUME NEW r \in Procs, NEW s \in Procs, NEW x \in Vpns, NEW y \in Vpns,
                      u[r][x].valid, u[s][y].valid, u[r][x].pfn = u[s][y].pfn
               PROVE  x = y /\ (r # s => ~MayWrite(u[r][x].rw))
    BY DEF Apart
  <2>1. CASE r = q /\ x = v
    BY <1>1, <1>2, <1>5, <2>1
  <2>2. CASE s = q /\ y = v
    BY <1>1, <1>2, <1>5, <2>2
  <2>3. CASE ~(r = q /\ x = v) /\ ~(s = q /\ y = v)
    BY <1>2, <2>3 DEF Consistent, Apart
  <2> QED BY <2>1, <2>2, <2>3
<1>7. \A r \in Procs, x \in Vpns : u[r][x].valid => u[r][x].rw \in 1..3
  BY <1>1, <1>2 DEF Consistent
<1> HIDE DEF u, d
<1>8. Consistent(u, d)
  BY <1>2, <1>3, <1>4, <1>6, <1>7 DEF Consistent
<1> QED BY <1>8 DEF u, d, g, e

-----------------------------------------------------------------------------
(* The user who writes only pages that are there, leaves a frame for the   *)
(* copy of a shared page, and frees no page twice in the TLB; nothing else *)
(* is asked of the Discipline.                                             *)
Careful == {"mapped", "frames", "free"} \subseteq Discipline

(* What that user's command needs is there until it is done. *)
Served ==
  /\ pc \in {"translate", "fault"} /\ command.op = "access" /\ MayWrite(command.rw) =>
       /\ pagetable[current][command.vpn].valid
       /\ FreeFrames # {} \/ mapcounts[pagetable[current][command.vpn].pfn] <= 1
  /\ pc \in {"free", "untlb"} => command.op = "free"
  /\ pc = "free" => pagetable[current][command.vpn].valid

(* An entry of the TLB has a page of the table to go with, and if it       *)
(* grants writes the same frame.                                           *)
Fits(x, table) ==
  /\ x.rw \in 1..3
  /\ table[x.vpn].valid
  /\ MayWrite(x.rw) => MayWrite(table[x.vpn].rw) /\ table[x.vpn].pfn = x.pfn

(* While free_page searches, the page's own entry need not fit, and there  *)
(* is no second one behind it.  During a fork no entry need fit: the end   *)
(* of the fork empties the TLB.                                            *)
TlbFits ==
  /\ pc # "fork" => \A i \in DOMAIN tlb :
       Fits(tlb[i], pagetable[current]) \/ (pc = "untlb" /\ tlb[i].vpn = command.vpn)
  /\ pc \in {"translate", "free", "untlb"} /\ command.op = "free" =>
       \A i \in DOMAIN tlb : ~(i # 1 /\ tlb[1].vpn = command.vpn /\ tlb[i].vpn = command.vpn)

CarefulInv ==
  /\ Inv
  /\ Consistent(pagetable, mapcounts)
  /\ Served
  /\ TlbFits

LEMMA CarefulInit == Init => Consistent(pagetable, mapcounts) /\ Served /\ TlbFits
<1> SUFFICES ASSUME Init PROVE Consistent(pagetable, mapcounts) /\ Served /\ TlbFits
  OBVIOUS
<1>1. /\ pagetable \in PageTables /\ mapcounts \in FrameCounts
  BY InitType DEF TypeOK, PageTables, FrameCounts
<1>2. \A p \in Procs, v \in Vpns : ~pagetable[p][v].valid
  BY DEF Init, NoPage
<1>3. \A f \in Frames : mapcounts[f] = Cardinality(MappingsIn(pagetable, f))
  <2>1. \A f : MappingsIn(pagetable, f) = {}
    BY <1>2 DEF MappingsIn, Maps
  <2>2. \A f \in Frames : mapcounts[f] = 0
    BY DEF Init
  <2> QED BY <2>1, <2>2, FS_EmptySet
<1>4. Consistent(pagetable, mapcounts)
  BY <1>1, <1>2, <1>3 DEF Consistent, Apart
<1>5. pc = "command" /\ tlb = <<>> /\ DOMAIN tlb = {}
  BY DEF Init
<1> QED BY <1>4, <1>5 DEF Served, TlbFits

(* What a page fault may do to the page of a write.                        *)
LEMMA FaultOfWrite ==
  ASSUME CarefulInv, Fault
  PROVE  \/ /\ UNCHANGED <<pagetable, mapcounts>>
            /\ pc' \in {"command", "crash"}
         \/ /\ pc = "fault" /\ ForWriting /\ command \in Commands
            /\ current \in Procs /\ command.vpn \in Vpns
            /\ pagetable[current][command.vpn].valid
            /\ pagetable[current][command.vpn].private # ACCESS_READ
            /\ mapcounts[pagetable[current][command.vpn].pfn] \in Nat
            /\ \/ /\ mapcounts[pagetable[current][command.vpn].pfn] = 1
                  /\ TakeOver
               \/ /\ mapcounts[pagetable[current][command.vpn].pfn] >= 2
                  /\ FreeFrames # {}
                  /\ CopyPage(pagetable[current][command.vpn].pfn)
            /\ Retry
<1> DEFINE pte == pagetable[current][command.vpn]
<1>1. /\ pc = "fault" /\ command \in Commands /\ command.op = "access"
      /\ command.vpn \in Vpns /\ current \in Procs /\ Pte(current) = pte
  BY CommandFields, EntryType DEF CarefulInv, Inv, Fault, InHand, Pte
<1>2. CASE ForWriting /\ HasDirectory(current) /\ WasWritable(pte)
  <2>1. pte.valid /\ (FreeFrames # {} \/ mapcounts[pte.pfn] <= 1)
    BY <1>1, <1>2 DEF CarefulInv, Served, ForWriting, MayWrite
  <2>2. /\ mapcounts[pte.pfn] \in 0..MaxProcs /\ mapcounts[pte.pfn] >= 1
        /\ AsInt(mapcounts[pte.pfn]) = mapcounts[pte.pfn]
    <3>1. pte.pfn \in Frames
      BY <1>1, <2>1, OneMapping DEF CarefulInv
    <3> QED BY <1>1, <2>1, <3>1, CountBounds DEF CarefulInv, Maps
  <2>3. \/ AsInt(mapcounts[pte.pfn]) = 1 /\ TakeOver /\ Retry
        \/ AsInt(mapcounts[pte.pfn]) >= 2 /\ CopyPage(pte.pfn) /\ Retry
        \/ AsInt(mapcounts[pte.pfn]) <= 0
    BY <1>1, <1>2 DEF Fault
  <2> HIDE DEF pte
  <2>4. \/ mapcounts[pte.pfn] = 1 /\ TakeOver /\ Retry
        \/ mapcounts[pte.pfn] >= 2 /\ CopyPage(pte.pfn) /\ Retry
    BY <2>2, <2>3
  <2>5. mapcounts[pte.pfn] \in Nat /\ pte.private # ACCESS_READ
    BY <1>2, <2>2 DEF WasWritable
  <2>6. mapcounts[pte.pfn] >= 2 => FreeFrames # {}
    BY <2>1, <2>2
  <2> QED BY <1>1, <1>2, <2>1, <2>4, <2>5, <2>6 DEF pte
<1>3. CASE ~(ForWriting /\ HasDirectory(current) /\ WasWritable(pte))
  BY <1>1, <1>3 DEF Fault, Goto, Reply, Done
<1> QED BY <1>2, <1>3

LEMMA TakenOver ==
  ASSUME NEW x \in PTE, x.valid
  PROVE  LET e == [x EXCEPT !.rw = READ_WRITE, !.private = ACCESS_WRITE]
         IN  /\ e \in PTE /\ e.valid /\ e.rw = READ_WRITE
             /\ e.private = ACCESS_WRITE /\ e.pfn = x.pfn
<1> DEFINE writable == [x EXCEPT !.rw = READ_WRITE]
           e == [x EXCEPT !.rw = READ_WRITE, !.private = ACCESS_WRITE]
<1>1. /\ writable \in PTE /\ writable.rw = READ_WRITE
      /\ writable.valid /\ writable.pfn = x.pfn
  BY DEF PTE, READ_WRITE
<1>2. e = [writable EXCEPT !.private = ACCESS_WRITE]
  OBVIOUS
<1> HIDE DEF writable, e
<1>3. /\ e \in PTE /\ e.valid /\ e.rw = READ_WRITE
      /\ e.private = ACCESS_WRITE /\ e.pfn = x.pfn
  BY <1>1, <1>2 DEF PTE, ACCESS_WRITE
<1> QED BY <1>3 DEF e

(* The entry it leaves.                                                    *)
LEMMA FaultWrites ==
  ASSUME CarefulInv, current \in Procs, command.vpn \in Vpns,
         pagetable[current][command.vpn].valid,
         mapcounts[pagetable[current][command.vpn].pfn] \in Nat,
         \/ /\ mapcounts[pagetable[current][command.vpn].pfn] = 1
            /\ TakeOver
         \/ /\ mapcounts[pagetable[current][command.vpn].pfn] >= 2
            /\ FreeFrames # {}
            /\ CopyPage(pagetable[current][command.vpn].pfn)
  PROVE  \E e \in PTE :
           /\ pagetable' = [pagetable EXCEPT ![current][command.vpn] = e]
           /\ e.valid /\ e.rw = READ_WRITE /\ e.private = ACCESS_WRITE
           /\ e.pfn = pagetable[current][command.vpn].pfn
              \/ ~MayWrite(pagetable[current][command.vpn].rw)
           /\ mapcounts'[e.pfn] = 1
           /\ Consistent(pagetable', mapcounts')
<1> DEFINE pte == pagetable[current][command.vpn]
           p == current
           v == command.vpn
<1>1. /\ Consistent(pagetable, mapcounts) /\ pagetable \in PageTables
      /\ mapcounts \in FrameCounts /\ pte \in PTE /\ pte.pfn \in Frames
  BY OneMapping DEF CarefulInv, Consistent
<1>2. CASE mapcounts[pte.pfn] = 1 /\ TakeOver
  <2> DEFINE e == [pte EXCEPT !.rw = READ_WRITE, !.private = ACCESS_WRITE]
  <2>1. /\ e \in PTE /\ e.valid /\ e.rw = READ_WRITE /\ e.private = ACCESS_WRITE
        /\ e.pfn = pte.pfn /\ e.rw \in 1..3
    <3>1. READ_WRITE \in 1..3
      BY DEF READ_WRITE
    <3> QED BY <1>1, <3>1, TakenOver
  <2>2. pagetable' = [pagetable EXCEPT ![p][v] = e] /\ mapcounts' = mapcounts
    BY <1>1, <1>2 DEF TakeOver, PageTables
  <2> HIDE DEF e
  <2>3. Consistent(pagetable', mapcounts')
    BY <1>1, <1>2, <2>1, <2>2, RightsChanged
  <2> QED BY <1>2, <2>1, <2>2, <2>3
<1>3. CASE mapcounts[pte.pfn] >= 2 /\ FreeFrames # {} /\ CopyPage(pte.pfn)
  <2> DEFINE old == pte.pfn
             counts == Decremented(mapcounts, old)
             t == [pagetable EXCEPT ![p][v] = NoPage]
  <2>1. Consistent(t, counts)
    BY <1>1, PageRemoved
  <2>2. /\ t \in PageTables /\ counts \in FrameCounts /\ ~t[p][v].valid
        /\ ~MayWrite(pte.rw)
    <3>1. t \in PageTables /\ counts \in FrameCounts
      BY <2>1 DEF Consistent
    <3>2. t[p][v] = NoPage
      BY <1>1 DEF PageTables
    <3>3. ~MayWrite(pte.rw)
      BY <1>1, <1>3, OneMapping
    <3> QED BY <3>1, <3>2, <3>3 DEF NoPage
  <2>3. \A f \in FreeFrames : counts[f] = 0
    BY <1>1, <1>3 DEF FreeFrames, Decremented, FrameCounts
  <2>4. PICK f \in Frames :
          /\ counts[f] = 0
          /\ mapcounts' = Incremented(counts, f)
          /\ pagetable' = [pagetable EXCEPT ![p][v] =
               [valid |-> TRUE, rw |-> READ_WRITE, pfn |-> f, private |-> ACCESS_WRITE]]
    <3>1. ~NoneFree(counts)
      BY <1>3, <2>3 DEF NoneFree, FreeFrames
    <3> QED BY <1>3, <3>1, Zenon DEF CopyPage, SmallestFree
  <2> DEFINE e == [valid |-> TRUE, rw |-> READ_WRITE, pfn |-> f, private |-> ACCESS_WRITE]
  <2>5. /\ e \in PTE /\ e.valid /\ e.rw = READ_WRITE /\ e.private = ACCESS_WRITE
        /\ e.pfn = f /\ e.rw \in 1..3
    BY DEF PTE, READ_WRITE, ACCESS_WRITE
  <2>6. pagetable' = [pagetable EXCEPT ![p][v] = e]
    BY <2>4
  <2>7. pagetable' = [t EXCEPT ![p][v] = e]
    BY <1>1, <2>6 DEF PageTables
  <2>8. mapcounts'[f] = 1
    BY <2>2, <2>4, CountUp, SizeAssumption
  <2> HIDE DEF e, t, counts, old
  <2>9. Consistent(pagetable', mapcounts')
    <3>1. Consistent([t EXCEPT ![p][v] = e], Incremented(counts, e.pfn))
      BY <2>1, <2>2, <2>4, <2>5, PageAdded
    <3> QED BY <2>4, <2>5, <2>7, <3>1
  <2> QED BY <2>2, <2>5, <2>6, <2>8, <2>9
<1> QED BY <1>2, <1>3

LEMMA ConsistentStep ==
  ASSUME CarefulInv, [Next]_vars
  PROVE  Consistent(pagetable', mapcounts')
<1> USE DEF CarefulInv
<1>1. /\ Consistent(pagetable, mapcounts) /\ pagetable \in PageTables
      /\ mapcounts \in FrameCounts /\ current \in Procs
  BY SizeAssumption DEF Inv, TypeOK, Consistent, Procs
<1>2. CASE Command \/ CommandBeyond \/ Translate \/ SearchTlb \/ SwitchTo \/ TakeListHead
           \/ StartFork \/ ForkDone \/ Ended \/ UNCHANGED vars
  <2>1. UNCHANGED <<pagetable, mapcounts>>
    BY <1>2 DEF Command, CommandBeyond, Translate, SearchTlb, SwitchTo, TakeListHead, StartFork,
                ForkDone, Ended, vars, pageVars
  <2> QED BY <1>1, <2>1
<1>3. CASE Fault
  BY <1>1, <1>3, FaultOfWrite, FaultWrites
<1>4. CASE AllocPage
  <2>1. /\ command.vpn \in Vpns /\ command.rw \in {ACCESS_READ, READ_WRITE}
        /\ ~pagetable[current][command.vpn].valid
    BY <1>4, CommandFields DEF AllocPage, Inv, InHand, Tables
  <2>2. CASE UNCHANGED pageVars
    BY <1>1, <2>2 DEF pageVars
  <2>3. ASSUME NEW f \in Frames, SmallestFree(f, mapcounts),
               mapcounts' = Incremented(mapcounts, f),
               pagetable' = [pagetable EXCEPT ![current][command.vpn] =
                 [valid |-> TRUE, rw |-> command.rw, pfn |-> f, private |-> command.rw]]
        PROVE  Consistent(pagetable', mapcounts')
    <3> DEFINE e == [valid |-> TRUE, rw |-> command.rw, pfn |-> f, private |-> command.rw]
    <3>1. e \in PTE /\ e.valid /\ e.rw \in 1..3 /\ e.pfn = f
      BY <2>1 DEF PTE, ACCESS_READ, READ_WRITE
    <3>2. pagetable' = [pagetable EXCEPT ![current][command.vpn] = e]
      BY <2>3
    <3>3. mapcounts[e.pfn] = 0
      BY <2>3, <3>1 DEF SmallestFree
    <3> HIDE DEF e
    <3>4. Consistent([pagetable EXCEPT ![current][command.vpn] = e],
                     Incremented(mapcounts, e.pfn))
      BY <1>1, <2>1, <3>1, <3>3, PageAdded
    <3> QED BY <2>3, <3>1, <3>2, <3>4
  <2> QED BY <1>4, <2>2, <2>3 DEF AllocPage
<1>5. CASE FreePage
  <2>1. /\ command.vpn \in Vpns /\ pagetable[current][command.vpn].valid
        /\ mapcounts' = Decremented(mapcounts, pagetable[current][command.vpn].pfn)
        /\ pagetable' = [pagetable EXCEPT ![current][command.vpn] = NoPage]
    BY <1>5, CommandFields DEF FreePage, Inv, InHand, Served, Pte
  <2> QED BY <1>1, <2>1, PageRemoved
<1>6. CASE ForkPage
  <2>1. /\ child \in Procs /\ current # child
    BY <1>6, SizeAssumption DEF ForkPage, Inv, InHand, TypeOK, Procs
  <2>2. PICK v \in Vpns :
          /\ pagetable[current][v].valid /\ ~pagetable[child][v].valid
          /\ mapcounts' = Incremented(mapcounts, Shared(pagetable[current][v]).pfn)
          /\ pagetable' = [pagetable EXCEPT ![current][v] = Shared(pagetable[current][v]),
                                            ![child][v] = Shared(pagetable[current][v])]
    BY <1>6, Zenon DEF ForkPage, ToCopy
  <2>3. PICK e \in PTE : e = Shared(pagetable[current][v])
    BY <1>1, SharedType DEF PageTables
  <2>4. /\ e.valid /\ e.rw \in 1..3 /\ ~MayWrite(e.rw)
        /\ e.pfn = pagetable[current][v].pfn
    <3>1. PICK x \in PTE : x = pagetable[current][v]
      BY <1>1 DEF PageTables
    <3>2. e.valid /\ e.rw = ACCESS_READ
      BY <2>2, <2>3, <3>1, SharedType
    <3>3. e.pfn = x.pfn
      BY <2>3, <3>1 DEF Shared, PTE
    <3> QED BY <3>1, <3>2, <3>3 DEF MayWrite, ACCESS_READ, ACCESS_WRITE, READ_WRITE
  <2> DEFINE t == [pagetable EXCEPT ![current][v] = e]
  <2>5. Consistent(t, mapcounts)
    BY <1>1, <2>2, <2>4, RightsChanged
  <2>6. t[current][v] = e /\ t[child][v] = pagetable[child][v]
    BY <1>1, <2>1 DEF PageTables
  <2>7. pagetable' = [t EXCEPT ![child][v] = e]
    BY <2>2, <2>3
  <2> HIDE DEF t
  <2>8. Consistent([t EXCEPT ![child][v] = t[current][v]],
                   Incremented(mapcounts, t[current][v].pfn))
    BY <1>1, <2>1, <2>2, <2>4, <2>5, <2>6, PageShared
  <2> QED BY <2>2, <2>3, <2>6, <2>7, <2>8
<1> QED BY <1>2, <1>3, <1>4, <1>5, <1>6 DEF Next, Step

(* A translation that is found shows a page that is there.                 *)
LEMMA FoundIsThere ==
  ASSUME CarefulInv, Translate, Translated
  PROVE  pagetable[current][command.vpn].valid
<1>1. pc = "translate" /\ ptbr = current
  BY DEF CarefulInv, Inv, Tables, Translate
<1>2. ASSUME NEW i \in DOMAIN tlb, lookup_tlb(i)
      PROVE  pagetable[current][command.vpn].valid
  BY <1>1, <1>2 DEF CarefulInv, TlbFits, Fits, lookup_tlb, FirstMatch, Matches
<1>3. CASE Walkable
  BY <1>1, <1>3 DEF Walkable, Pte
<1>4. ~Untranslated
  BY <1>1 DEF Translated, Untranslated, Goto, Reply, Done
<1> QED BY <1>2, <1>3, <1>4 DEF Translate

LEMMA ServedStep ==
  ASSUME Careful, CarefulInv, [Next]_vars
  PROVE  Served'
<1>1. /\ current \in Procs /\ pagetable \in PageTables
      /\ pc = "translate" => child = NOBODY
  BY SizeAssumption DEF CarefulInv, Inv, TypeOK, Consistent, Procs, InHand
<1>2. CASE Command
  <2>1. PICK c \in Commands :
          /\ MayAsk(c) /\ command' = c
          /\ pc' = IF c.op = "switch" THEN "switch" ELSE "translate"
    BY <1>2, Zenon DEF Command
  <2>2. UNCHANGED <<procVars, pageVars>>
    BY <1>2 DEF Command
  <2>3. c.op = "access" /\ MayWrite(c.rw) =>
          /\ pagetable[current][c.vpn].valid
          /\ FreeFrames # {} \/ mapcounts[pagetable[current][c.vpn].pfn] <= 1
    BY <2>1 DEF MayAsk, Careful
  <2> QED BY <2>1, <2>2, <2>3 DEF Served, procVars, pageVars, FreeFrames
<1>3. CASE Translate
  <2>1. UNCHANGED <<procVars, pageVars>> /\ pc = "translate"
    BY <1>3 DEF Translate
  <2>2. CASE Translated
    <3>1. pagetable[current][command.vpn].valid
      BY <1>3, <2>2, FoundIsThere
    <3>2. /\ pc' \in {"command", "exit", "free"}
          /\ pc' = "free" => command' = command /\ command.op = "free"
      BY <2>2 DEF Translated, Goto, Reply, Done
    <3> QED BY <2>1, <3>1, <3>2 DEF Served, procVars, pageVars
  <2>3. CASE Untranslated
    <3>1. /\ pc' \in {"command", "fault", "alloc"}
          /\ pc' = "fault" => command' = command
      BY <2>3 DEF Untranslated, Goto, Reply, Done
    <3> QED BY <2>1, <3>1 DEF CarefulInv, Served, procVars, pageVars, FreeFrames
  <2> QED BY <1>3, <2>2, <2>3 DEF Translate
<1>4. CASE Fault
  <2>1. UNCHANGED procVars
    BY <1>4 DEF Fault
  <2>2. CASE pc' \in {"command", "crash"}
    BY <2>2 DEF Served
  <2>3. CASE pc' \notin {"command", "crash"}
    <3>1. Retry /\ command.vpn \in Vpns
          /\ \E e \in PTE :
               /\ pagetable' = [pagetable EXCEPT ![current][command.vpn] = e]
               /\ e.valid /\ mapcounts'[e.pfn] = 1
      BY <1>4, <2>3, FaultOfWrite, FaultWrites
    <3>2. pc' = "translate" /\ command' = command
      BY <2>3, <3>1 DEF Retry, Goto, Reply, Done
    <3>3. /\ pagetable'[current][command.vpn].valid
          /\ mapcounts'[pagetable'[current][command.vpn].pfn] = 1
      BY <1>1, <3>1 DEF PageTables
    <3> QED BY <2>1, <3>2, <3>3 DEF Served, procVars
  <2> QED BY <2>2, <2>3
<1>5. CASE AllocPage \/ SwitchTo \/ TakeListHead \/ StartFork \/ ForkDone
  <2>1. pc' \in {"command", "exit", "corrupt", "fork"}
    BY <1>5 DEF AllocPage, SwitchTo, TakeListHead, StartFork, ForkDone, ChangeCurrent,
                Goto, Done
  <2> QED BY <2>1 DEF Served
<1>6. CASE FreePage
  <2>1. pc' \in {"command", "untlb"} /\ (pc' = "untlb" => command' = command)
        /\ command.op = "free"
    BY <1>6 DEF FreePage, Goto, Done, CarefulInv, Served
  <2> QED BY <2>1 DEF Served
<1>7. CASE SearchTlb
  <2>1. pc' \in {"command", "untlb"} /\ (pc' = "untlb" => command' = command)
        /\ command.op = "free"
    BY <1>7 DEF SearchTlb, Done, CarefulInv, Served
  <2> QED BY <2>1 DEF Served
<1>8. CASE ForkPage
  <2>1. pc' = "fork"
    BY <1>8 DEF ForkPage
  <2> QED BY <2>1 DEF Served
<1>9. CASE Ended \/ UNCHANGED vars
  BY <1>9 DEF Ended, vars, CarefulInv, Served, FreeFrames
<1>10. CASE CommandBeyond
  BY <1>10, BeyondTheTable DEF Served
<1> QED BY <1>2, <1>3, <1>4, <1>5, <1>6, <1>7, <1>8, <1>9, <1>10 DEF Next, Step

(* insert_tlb keeps every entry's page number and rights, and what it      *)
(* writes or adds agrees with the entry it was asked to insert.            *)
LEMMA Inserted ==
  ASSUME TypeOK, NEW vpn \in Vpns, NEW rw \in 0..3, NEW pfn \in Frames,
         insert_tlb(vpn, rw, pfn)
  PROVE  /\ \A i \in DOMAIN tlb' :
              \/ tlb'[i] = [rw |-> rw, vpn |-> vpn, pfn |-> pfn]
              \/ i \in DOMAIN tlb /\ tlb'[i] = tlb[i]
         /\ \A i \in DOMAIN tlb : i \in DOMAIN tlb' /\ tlb'[i].vpn = tlb[i].vpn
         /\ DOMAIN tlb' = DOMAIN tlb \/ DOMAIN tlb' = DOMAIN tlb \union {Len(tlb) + 1}
<1>1. /\ tlb \in Seq(TlbEntry) /\ Len(tlb) \in Nat /\ DOMAIN tlb = 1..Len(tlb)
      /\ \A i \in DOMAIN tlb : tlb[i] \in TlbEntry
  BY LenProperties, ElementOfSeq DEF TypeOK
<1> DEFINE known == \E i \in DOMAIN tlb : FirstMatch(i, vpn, {rw})
           entry == [rw |-> rw, vpn |-> vpn, pfn |-> pfn]
           updated == [ i \in DOMAIN tlb |->
                          IF FirstMatch(i, vpn, {rw}) THEN [tlb[i] EXCEPT !.pfn = pfn]
                          ELSE tlb[i] ]
<1>2. tlb' = IF known THEN updated ELSE Append(tlb, entry)
  BY DEF insert_tlb
<1>3. /\ DOMAIN updated = DOMAIN tlb
      /\ \A i \in DOMAIN tlb : updated[i] = entry \/ updated[i] = tlb[i]
      /\ \A i \in DOMAIN tlb : updated[i].vpn = tlb[i].vpn
  <2>1. ASSUME NEW i \in DOMAIN tlb
        PROVE  /\ updated[i] = entry \/ updated[i] = tlb[i]
               /\ updated[i].vpn = tlb[i].vpn
    <3>1. PICK x \in TlbEntry : x = tlb[i]
      BY <1>1
    <3>2. CASE FirstMatch(i, vpn, {rw})
      <4>1. x.vpn = vpn /\ x.rw = rw
        BY <3>1, <3>2 DEF FirstMatch, Matches
      <4>2. [x EXCEPT !.pfn = pfn] = entry
        BY <4>1 DEF TlbEntry
      <4>3. updated[i] = [x EXCEPT !.pfn = pfn]
        BY <3>1, <3>2
      <4> HIDE DEF updated
      <4> QED BY <3>1, <4>1, <4>2, <4>3
    <3>3. CASE ~FirstMatch(i, vpn, {rw})
      BY <3>3
    <3> QED BY <3>2, <3>3
  <2> QED BY <2>1
<1>4. /\ DOMAIN Append(tlb, entry) = DOMAIN tlb \union {Len(tlb) + 1}
      /\ Append(tlb, entry)[Len(tlb) + 1] = entry
      /\ \A i \in DOMAIN tlb : Append(tlb, entry)[i] = tlb[i]
  <2> HIDE DEF entry
  <2> QED BY <1>1, AppendProperties
<1> HIDE DEF known, entry, updated
<1>5. CASE known
  BY <1>2, <1>3, <1>5 DEF entry
<1>6. CASE ~known
  BY <1>2, <1>4, <1>6 DEF entry
<1> QED BY <1>5, <1>6

LEMMA TlbFitsStep ==
  ASSUME Careful, CarefulInv, [Next]_vars
  PROVE  TlbFits'
<1> DEFINE Page(v) == pagetable[current][v]
<1>1. /\ current \in Procs /\ pagetable \in PageTables /\ TypeOK /\ ptbr = current
      /\ DOMAIN tlb = 1..Len(tlb) /\ Len(tlb) \in Nat
      /\ \A i \in DOMAIN tlb : tlb[i] \in TlbEntry /\ tlb[i].vpn \in Vpns
  <2>1. /\ current \in Procs /\ pagetable \in PageTables /\ TypeOK /\ ptbr = current
        /\ tlb \in Seq(TlbEntry)
    BY SizeAssumption DEF CarefulInv, Inv, TypeOK, Consistent, Procs, Tables
  <2>2. /\ DOMAIN tlb = 1..Len(tlb) /\ Len(tlb) \in Nat
        /\ \A i \in DOMAIN tlb : tlb[i] \in TlbEntry
    BY <2>1, LenProperties, ElementOfSeq
  <2> QED BY <2>1, <2>2 DEF TlbEntry
<1>2. CASE Command
  <2>1. PICK c \in Commands :
          /\ MayAsk(c) /\ command' = c
          /\ pc' = IF c.op = "switch" THEN "switch" ELSE "translate"
    BY <1>2, Zenon DEF Command
  <2>2. UNCHANGED <<procVars, pageVars, tlb>> /\ pc = "command"
    BY <1>2 DEF Command
  <2>3. c.op = "free" => \A i \in 2..Len(tlb) : ~(tlb[1].vpn = c.vpn /\ tlb[i].vpn = c.vpn)
    BY <2>1 DEF MayAsk, Careful
  <2>4. \A i \in DOMAIN tlb : i # 1 => i \in 2..Len(tlb)
    BY <1>1
  <2>5. \A i \in DOMAIN tlb : Fits(tlb[i], pagetable[current])
    BY <2>2 DEF CarefulInv, TlbFits
  <2> QED BY <2>1, <2>2, <2>3, <2>4, <2>5 DEF TlbFits, procVars, pageVars
<1>3. CASE Translate
  <2>1. /\ UNCHANGED <<procVars, pageVars>> /\ pc = "translate" /\ command \in Commands
        /\ command.vpn \in Vpns
    BY <1>3, CommandFields DEF Translate, CarefulInv, Inv, InHand
  <2>2. /\ pc' \in {"command", "exit", "free", "fault", "alloc"}
        /\ pc' = "free" => command' = command
    BY <1>3 DEF Translate, Translated, Untranslated, Goto, Reply, Done
  <2>3. /\ \A i \in DOMAIN tlb : Fits(tlb[i], pagetable[current])
        /\ command.op = "free" =>
             \A i \in DOMAIN tlb : ~(i # 1 /\ tlb[1].vpn = command.vpn /\ tlb[i].vpn = command.vpn)
    BY <2>1 DEF CarefulInv, TlbFits
  <2>4. CASE UNCHANGED tlb
    BY <2>1, <2>2, <2>3, <2>4 DEF TlbFits, procVars, pageVars
  <2>5. CASE /\ \A i \in DOMAIN tlb : ~lookup_tlb(i)
             /\ Walkable /\ use_tlb
             /\ insert_tlb(command.vpn, Pte(ptbr).rw, Pte(ptbr).pfn)
    <3> DEFINE pte == pagetable[current][command.vpn]
    <3>1. /\ Pte(ptbr) = pte /\ pte.valid /\ pte \in PTE /\ pte.rw \in 1..3
          /\ pte.rw \in 0..3 /\ pte.pfn \in Frames
      BY <1>1, <2>1, <2>5, OneMapping DEF Walkable, Pte, CarefulInv, Consistent, PTE
    <3> DEFINE entry == [rw |-> pte.rw, vpn |-> command.vpn, pfn |-> pte.pfn]
    <3>2. Fits(entry, pagetable[current])
      BY <3>1 DEF Fits
    <3> HIDE DEF pte
    <3>3. /\ \A i \in DOMAIN tlb' :
               tlb'[i] = entry \/ (i \in DOMAIN tlb /\ tlb'[i] = tlb[i])
          /\ \A i \in DOMAIN tlb : i \in DOMAIN tlb' /\ tlb'[i].vpn = tlb[i].vpn
          /\ DOMAIN tlb' = DOMAIN tlb \/ DOMAIN tlb' = DOMAIN tlb \union {Len(tlb) + 1}
      BY <1>1, <2>1, <2>5, <3>1, Inserted
    <3>4. \A i \in DOMAIN tlb' : Fits(tlb'[i], pagetable[current])
      <4> HIDE DEF entry
      <4> QED BY <2>3, <3>2, <3>3
    <3>5. ASSUME command.op = "free", NEW i \in DOMAIN tlb', i # 1,
                 tlb'[1].vpn = command.vpn, tlb'[i].vpn = command.vpn
          PROVE  FALSE
      <4>1. CASE tlb = <<>>
        <5>1. Len(tlb) = 0 /\ DOMAIN tlb = {}
          BY <4>1
        <5> QED BY <3>3, <3>5, <5>1
      <4>2. CASE tlb # <<>>
        <5>1. 1 \in DOMAIN tlb
          BY <1>1, <4>2, EmptySeq
        <5>2. tlb[1].vpn = command.vpn /\ tlb[1].rw \in 1..3
          BY <2>3, <3>3, <3>5, <5>1 DEF Fits
        <5>3. tlb[1].rw \in Wanted..READ_WRITE
          BY <3>5, <5>2 DEF Wanted, ACCESS_READ, READ_WRITE
        <5>4. FirstMatch(1, command.vpn, Wanted..READ_WRITE)
          BY <5>1, <5>2, <5>3 DEF FirstMatch, Matches
        <5> QED BY <2>5, <5>1, <5>4 DEF lookup_tlb
      <4> QED BY <4>1, <4>2
    <3> QED BY <2>1, <2>2, <3>4, <3>5 DEF TlbFits, procVars, pageVars
  <2> QED BY <1>3, <2>4, <2>5 DEF Translate
<1>4. CASE Fault
  <2>1. /\ UNCHANGED <<procVars, tlb>> /\ pc = "fault"
        /\ command \in Commands /\ command.op = "access"
        /\ \A i \in DOMAIN tlb : Fits(tlb[i], pagetable[current])
    BY <1>4 DEF Fault, CarefulInv, Inv, InHand, TlbFits
  <2>2. /\ pc' \in {"command", "crash", "translate"}
        /\ pc' = "translate" => command' = command
    BY <1>4 DEF Fault, Retry, Goto, Reply, Done
  <2>3. CASE UNCHANGED pagetable
    BY <2>1, <2>2, <2>3 DEF TlbFits, procVars
  <2>4. CASE ~UNCHANGED pagetable
    <3> DEFINE old == pagetable[current][command.vpn]
    <3>1. /\ command.vpn \in Vpns
          /\ \E e \in PTE :
               /\ pagetable' = [pagetable EXCEPT ![current][command.vpn] = e]
               /\ e.valid /\ e.rw = READ_WRITE
               /\ e.pfn = old.pfn \/ ~MayWrite(old.rw)
      BY <1>4, <2>4, FaultOfWrite, FaultWrites
    <3>2. PICK e \in PTE :
            /\ pagetable' = [pagetable EXCEPT ![current][command.vpn] = e]
            /\ e.valid /\ e.rw = READ_WRITE
            /\ e.pfn = old.pfn \/ ~MayWrite(old.rw)
      BY <3>1
    <3>3. \A v \in Vpns : pagetable'[current][v] = IF v = command.vpn THEN e ELSE Page(v)
      BY <1>1, <3>2 DEF PageTables
    <3>4. MayWrite(e.rw)
      BY <3>2 DEF MayWrite
    <3>5. ASSUME NEW i \in DOMAIN tlb
          PROVE  Fits(tlb[i], pagetable'[current])
      <4>1. Fits(tlb[i], pagetable[current]) /\ tlb[i].vpn \in Vpns
        BY <1>1, <2>1
      <4> QED BY <3>2, <3>3, <3>4, <4>1 DEF Fits
    <3> QED BY <2>1, <2>2, <3>5 DEF TlbFits, procVars
  <2> QED BY <2>3, <2>4
<1>5. CASE AllocPage
  <2>1. /\ UNCHANGED <<procVars, tlb>> /\ pc = "alloc" /\ pc' \in {"command", "exit"}
        /\ \A i \in DOMAIN tlb : Fits(tlb[i], pagetable[current])
        /\ command.vpn \in Vpns /\ ~pagetable[current][command.vpn].valid
    BY <1>5, CommandFields
       DEF AllocPage, Goto, Done, CarefulInv, Inv, InHand, Tables, TlbFits
  <2>2. \/ UNCHANGED pagetable
        \/ \E e : pagetable' = [pagetable EXCEPT ![current][command.vpn] = e]
    BY <1>5, Zenon DEF AllocPage, pageVars
  <2>3. ASSUME NEW i \in DOMAIN tlb
        PROVE  Fits(tlb[i], pagetable'[current])
    <3>1. tlb[i].vpn \in Vpns /\ tlb[i].vpn # command.vpn /\ Fits(tlb[i], pagetable[current])
      BY <1>1, <2>1 DEF Fits
    <3>2. pagetable'[current][tlb[i].vpn] = pagetable[current][tlb[i].vpn]
      BY <1>1, <2>1, <2>2, <3>1 DEF PageTables
    <3> QED BY <3>1, <3>2 DEF Fits
  <2> QED BY <2>1, <2>3 DEF TlbFits, procVars
<1>6. CASE FreePage
  <2>1. /\ UNCHANGED <<procVars, tlb>> /\ pc = "free"
        /\ \A i \in DOMAIN tlb : Fits(tlb[i], pagetable[current])
        /\ command.vpn \in Vpns /\ command.op = "free"
        /\ \A i \in DOMAIN tlb : ~(i # 1 /\ tlb[1].vpn = command.vpn /\ tlb[i].vpn = command.vpn)
        /\ pagetable' = [pagetable EXCEPT ![current][command.vpn] = NoPage]
    BY <1>6, CommandFields DEF FreePage, CarefulInv, Served, Inv, InHand, TlbFits
  <2>2. IF tlb = <<>> THEN pc' = "command" ELSE pc' = "untlb" /\ command' = command
    BY <1>6 DEF FreePage, Goto, Done
  <2>3. ASSUME NEW i \in DOMAIN tlb
        PROVE  Fits(tlb[i], pagetable'[current]) \/ tlb[i].vpn = command.vpn
    <3>1. CASE tlb[i].vpn # command.vpn
      <4>1. pagetable'[current][tlb[i].vpn] = pagetable[current][tlb[i].vpn]
        BY <1>1, <2>1, <3>1 DEF PageTables
      <4> QED BY <2>1, <4>1 DEF Fits
    <3> QED BY <3>1
  <2>4. tlb = <<>> => DOMAIN tlb = {}
    OBVIOUS
  <2> QED BY <2>1, <2>2, <2>3, <2>4 DEF TlbFits, procVars
<1>7. CASE SearchTlb
  <2>1. /\ UNCHANGED <<procVars, pageVars>> /\ pc = "untlb" /\ tlb # <<>> /\ command.op = "free"
        /\ \A i \in DOMAIN tlb : Fits(tlb[i], pagetable[current]) \/ tlb[i].vpn = command.vpn
        /\ \A i \in DOMAIN tlb : ~(i # 1 /\ tlb[1].vpn = command.vpn /\ tlb[i].vpn = command.vpn)
    BY <1>7 DEF SearchTlb, CarefulInv, Inv, InHand, Served, TlbFits
  <2>2. CASE tlb[1].vpn = command.vpn /\ tlb' = Tail(tlb) /\ Done
    <3>1. /\ DOMAIN Tail(tlb) = 1..(Len(tlb) - 1)
          /\ \A i \in 1..(Len(tlb) - 1) : Tail(tlb)[i] = tlb[i + 1]
      BY <2>1, HeadTailProperties, LenProperties DEF CarefulInv, Inv, TypeOK
    <3>2. \A i \in 1..(Len(tlb) - 1) : i + 1 \in DOMAIN tlb /\ i + 1 # 1
      BY <1>1
    <3>3. \A i \in DOMAIN tlb' : Fits(tlb'[i], pagetable[current])
      BY <2>1, <2>2, <3>1, <3>2
    <3>4. pc' = "command"
      BY <2>2 DEF Done
    <3> QED BY <2>1, <3>3, <3>4 DEF TlbFits, procVars, pageVars
  <2>3. CASE UNCHANGED <<tlb, pc, command>>
    BY <2>1, <2>3 DEF TlbFits, procVars, pageVars
  <2> QED BY <1>7, <2>2, <2>3 DEF SearchTlb
<1>8. CASE SwitchTo \/ ForkDone
  <2>1. tlb' = <<>> /\ pc' = "command"
    BY <1>8 DEF SwitchTo, ForkDone, ChangeCurrent, Done
  <2>2. DOMAIN tlb' = {}
    BY <2>1
  <2> QED BY <2>1, <2>2 DEF TlbFits
<1>9. CASE TakeListHead
  <2>1. UNCHANGED <<procVars, pageVars, tlb>> /\ pc = "switch" /\ pc' = "corrupt"
    BY <1>9 DEF TakeListHead, Goto
  <2> QED BY <2>1 DEF CarefulInv, TlbFits, procVars, pageVars
<1>10. CASE StartFork \/ ForkPage
  <2>1. pc' = "fork"
    BY <1>10 DEF StartFork, ForkPage, Goto
  <2> QED BY <2>1 DEF TlbFits
<1>11. CASE Ended \/ UNCHANGED vars
  BY <1>11 DEF Ended, vars, CarefulInv, TlbFits
<1>12. CASE CommandBeyond
  <2>1. UNCHANGED <<procVars, pageVars, tlb>> /\ pc = "command" /\ pc' \in {"abort", "corrupt"}
    BY <1>12, BeyondTheTable
  <2> QED BY <2>1 DEF CarefulInv, TlbFits, procVars, pageVars
<1> QED BY <1>2, <1>3, <1>4, <1>5, <1>6, <1>7, <1>8, <1>9, <1>10, <1>11, <1>12 DEF Next, Step

LEMMA CarefulInvariant ==
  ASSUME Careful
  PROVE  Spec => []CarefulInv
<1>1. Init => Inv /\ Consistent(pagetable, mapcounts) /\ Served /\ TlbFits
  BY InitType, TablesInit, CarefulInit DEF Inv
<1>2. Inv /\ [Next]_vars => Inv'
  BY TypeStep, InHandStep, TablesStep, RightsStep DEF Inv
<1>3. CarefulInv /\ [Next]_vars => CarefulInv'
  BY <1>2, ConsistentStep, ServedStep, TlbFitsStep DEF CarefulInv
<1>4. Init => CarefulInv
  BY <1>1 DEF CarefulInv
<1> QED BY <1>3, <1>4, PTL DEF Spec

LEMMA MappingsOfTable == \A f : Mappings(f) = MappingsIn(pagetable, f)
BY DEF Mappings, MappingsIn, Maps

(* The count of every frame is the number of page table entries that map   *)
(* it, through allocation, free, fork and both kinds of page fault, for    *)
(* every number of processes, pages and frames: the careful user's.        *)
THEOREM MapcountsAreMappings ==
  ASSUME Careful
  PROVE  Spec => []MapcountsCount
<1>1. CarefulInv => MapcountsCount
  BY MappingsOfTable DEF CarefulInv, Consistent, MapcountsCount
<1> QED BY <1>1, CarefulInvariant, PTL

(* A frame that several pages map is writable through none of them.        *)
THEOREM CopyOnWriteIsSafe ==
  ASSUME Careful
  PROVE  Spec => []SharedIsReadOnly
<1>1. CarefulInv => SharedIsReadOnly
  <2> SUFFICES ASSUME CarefulInv, NEW f \in Frames, Cardinality(Mappings(f)) > 1,
                      NEW m \in Mappings(f)
               PROVE  ~MayWrite(pagetable[m[1]][m[2]].rw)
    BY DEF SharedIsReadOnly
  <2>1. /\ m[1] \in Procs /\ m[2] \in Vpns
        /\ pagetable[m[1]][m[2]].valid /\ pagetable[m[1]][m[2]].pfn = f
    BY DEF Mappings
  <2>2. mapcounts[f] = Cardinality(MappingsIn(pagetable, f)) /\ mapcounts[f] \in 0..MaxProcs
    BY CountBounds DEF CarefulInv
  <2>3. mapcounts[f] >= 2
    BY <2>2, MappingsOfTable, SizeAssumption
  <2> QED BY <2>1, <2>3, OneMapping DEF CarefulInv
<1> QED BY <1>1, CarefulInvariant, PTL

(* Between commands, an entry of the TLB that grants writes agrees with    *)
(* the page table: no write goes around a copy-on-write or to the frame of *)
(* a page that is gone.                                                    *)
THEOREM WritesAreSafe ==
  ASSUME Careful
  PROVE  Spec => []WriteHitsAgree
<1>1. CarefulInv => WriteHitsAgree
  BY DEF CarefulInv, TlbFits, Fits, WriteHitsAgree
<1> QED BY <1>1, CarefulInvariant, PTL

-----------------------------------------------------------------------------
(* The careful user gets what AddressSpaces promises.                      *)

(* The user who keeps to every rule of MayAsk. *)
Strict == Rules \subseteq Discipline

(* What the steps of a command have found out so far.                      *)
Conforms ==
  /\ pc = "command" => command = NoCommand
  /\ pc \in {"translate", "fault"} /\ command.op = "access" => command.rw # READ_WRITE
  /\ pc = "translate" =>
       \/ retries = 0
       \/ /\ command.op = "access" /\ MayWrite(command.rw)
          /\ MayWrite(pagetable[current][command.vpn].rw)
  /\ pc = "fault" =>
       /\ retries = 1
       /\ command.rw = ACCESS_READ => ~pagetable[current][command.vpn].valid
  /\ pc = "untlb" => ~pagetable[current][command.vpn].valid
  /\ pc = "switch" => command.pid # pid[current]
  /\ pc = "fork" =>
       /\ \A p \in 1..created : p # child => pid[p] # command.pid
       /\ \A v \in Vpns : pagetable[child][v].valid =>
            pagetable[child][v].private = pagetable[current][v].private

StrictInv == CarefulInv /\ Listed /\ Conforms

LEMMA StrictIsCareful == Strict => Careful
BY DEF Strict, Careful, Rules

(* The MMU finds a translation exactly if the page is there and has the    *)
(* right that is wanted, through the TLB as through the page table.        *)
LEMMA MmuAnswers ==
  ASSUME CarefulInv, Translate
  PROVE  LET pte == pagetable[current][command.vpn]
             right == pte.valid /\ (MayWrite(Wanted) => MayWrite(pte.rw))
         IN  \/ Translated /\ right
             \/ Untranslated /\ ~right
<1> DEFINE pte == pagetable[current][command.vpn]
           right == pte.valid /\ (MayWrite(Wanted) => MayWrite(pte.rw))
<1>1. /\ pc = "translate" /\ ptbr = current /\ command \in Commands
      /\ command.op # "switch" /\ command.vpn \in Vpns /\ current \in Procs
      /\ child # current /\ Pte(ptbr) = pte
  BY CommandFields, EntryType
     DEF CarefulInv, Inv, Tables, InHand, Translate, NOBODY, Procs, Pte
<1>2. Wanted \in 1..3
  BY <1>1, CommandFields DEF Wanted, ACCESS_READ, ACCESS_WRITE, READ_WRITE
<1>3. ASSUME NEW i \in DOMAIN tlb, lookup_tlb(i)
      PROVE  right
  <2>1. /\ tlb[i].vpn = command.vpn /\ tlb[i].rw \in Wanted..READ_WRITE
        /\ Fits(tlb[i], pagetable[current])
    BY <1>1, <1>3 DEF CarefulInv, TlbFits, lookup_tlb, FirstMatch, Matches
  <2>2. MayWrite(Wanted) => MayWrite(tlb[i].rw)
    BY <1>2, <2>1 DEF MayWrite, ACCESS_WRITE, READ_WRITE
  <2> QED BY <2>1, <2>2 DEF Fits
<1>4. Walkable <=> right
  BY <1>1 DEF Walkable, CarefulInv, Inv, Tables, HasDirectory
<1> HIDE DEF right, pte
<1>5. \/ Translated /\ right
      \/ Untranslated /\ ~right
  BY <1>3, <1>4 DEF Translate
<1> QED BY <1>5 DEF right, pte

LEMMA ConformsInit == Init => Conforms
BY DEF Init, Conforms

LEMMA ConformsStep ==
  ASSUME Strict, StrictInv, [Next]_vars
  PROVE  Conforms'
<1>1. /\ current \in Procs /\ pagetable \in PageTables /\ CarefulInv /\ TypeOK
      /\ current \in 1..created /\ created \in 1..MaxProcs /\ ptbr = current
  BY SizeAssumption DEF StrictInv, CarefulInv, Inv, TypeOK, Consistent, Procs, Tables
<1>2. CASE Command
  <2>1. PICK c \in Commands :
          /\ MayAsk(c) /\ command' = c
          /\ pc' = IF c.op = "switch" THEN "switch" ELSE "translate"
    BY <1>2, Zenon DEF Command
  <2>2. UNCHANGED <<procVars, pageVars>> /\ retries' = 0
    BY <1>2 DEF Command
  <2>3. /\ c.op = "access" => c.rw # READ_WRITE
        /\ c.op = "switch" => c.pid # pid[current]
    BY <2>1 DEF MayAsk, Strict, Rules
  <2> QED BY <2>1, <2>2, <2>3 DEF Conforms, procVars, pageVars
<1>3. CASE Translate
  <2> DEFINE pte == pagetable[current][command.vpn]
             right == pte.valid /\ (MayWrite(Wanted) => MayWrite(pte.rw))
  <2>1. /\ UNCHANGED <<procVars, pageVars>> /\ pc = "translate" /\ command \in Commands
    BY <1>3 DEF Translate, StrictInv, CarefulInv, Inv, InHand
  <2>2. \/ Translated /\ right
        \/ Untranslated /\ ~right
    BY <1>1, <1>3, MmuAnswers
  <2>3. CASE Translated
    <3>1. /\ pc' \in {"command", "exit", "free"}
          /\ pc' = "command" => command' = NoCommand
      BY <2>3 DEF Translated, Goto, Reply, Done
    <3> QED BY <3>1 DEF Conforms
  <2>4. CASE Untranslated /\ ~right
    <3>1. /\ pc' \in {"command", "fault", "alloc"}
          /\ pc' = "command" => command' = NoCommand
          /\ pc' = "fault" => command' = command /\ command.op = "access"
                              /\ retries' = retries + 1
      BY <2>4 DEF Untranslated, Goto, Reply, Done
    <3>2. ASSUME pc' = "fault"
          PROVE  /\ retries = 0 /\ command.rw # READ_WRITE
                 /\ command.rw = ACCESS_READ => ~pte.valid
      <4>1. command.op = "access" /\ Wanted = command.rw
        BY <3>1, <3>2 DEF Wanted
      <4>2. command.rw # READ_WRITE
        BY <2>1, <4>1 DEF StrictInv, Conforms
      <4>3. command.rw = ACCESS_READ => ~pte.valid
        BY <2>4, <4>1 DEF MayWrite, ACCESS_READ, ACCESS_WRITE, READ_WRITE
      <4>4. MayWrite(command.rw) => pte.valid
        BY <2>1, <4>1 DEF StrictInv, CarefulInv, Served
      <4>5. retries = 0
        BY <2>1, <2>4, <4>1, <4>4 DEF StrictInv, Conforms
      <4> QED BY <4>2, <4>3, <4>5
    <3>3. pc' = "fault" => retries' = 1
      BY <3>1, <3>2
    <3> QED BY <2>1, <3>1, <3>2, <3>3 DEF Conforms, procVars, pageVars
  <2> QED BY <2>2, <2>3, <2>4
<1>4. CASE Fault
  <2>1. UNCHANGED <<procVars, retries>> /\ pc = "fault" /\ command.op = "access"
        /\ command.rw # READ_WRITE
    BY <1>4 DEF Fault, StrictInv, CarefulInv, Inv, InHand, Conforms
  <2>2. /\ pc' \in {"command", "crash", "translate"}
        /\ pc' = "translate" => command' = command
        /\ pc' = "command" => command' = NoCommand
    BY <1>4 DEF Fault, Retry, Goto, Reply, Done
  <2>3. CASE pc' # "translate"
    BY <2>2, <2>3 DEF Conforms
  <2>4. CASE pc' = "translate"
    <3>1. /\ command.vpn \in Vpns /\ ForWriting
          /\ \E e \in PTE :
               /\ pagetable' = [pagetable EXCEPT ![current][command.vpn] = e]
               /\ e.rw = READ_WRITE
      BY <1>1, <1>4, <2>4, FaultOfWrite, FaultWrites
    <3>2. MayWrite(command.rw) /\ MayWrite(pagetable'[current][command.vpn].rw)
      BY <1>1, <3>1 DEF PageTables, MayWrite, ForWriting
    <3> QED BY <2>1, <2>2, <2>4, <3>2 DEF Conforms, procVars
  <2> QED BY <2>3, <2>4
<1>5. CASE AllocPage \/ SwitchTo \/ TakeListHead \/ ForkDone
  <2>1. /\ pc' \in {"command", "exit", "corrupt"}
        /\ pc' = "command" => command' = NoCommand
    BY <1>5 DEF AllocPage, SwitchTo, TakeListHead, ForkDone, ChangeCurrent, Goto, Done
  <2> QED BY <2>1 DEF Conforms
<1>6. CASE FreePage
  <2>1. /\ pc' \in {"command", "untlb"}
        /\ pc' = "untlb" => command' = command
        /\ pc' = "command" => command' = NoCommand
        /\ command.vpn \in Vpns /\ UNCHANGED procVars
        /\ pagetable' = [pagetable EXCEPT ![current][command.vpn] = NoPage]
    BY <1>6, CommandFields DEF FreePage, Goto, Done, StrictInv, CarefulInv, Inv, InHand
  <2>2. ~pagetable'[current][command.vpn].valid
    BY <1>1, <2>1 DEF PageTables, NoPage
  <2> QED BY <2>1, <2>2 DEF Conforms, procVars
<1>7. CASE SearchTlb
  <2>1. /\ pc = "untlb" /\ UNCHANGED <<procVars, pageVars>>
        /\ \/ pc' = "command" /\ command' = NoCommand
           \/ UNCHANGED <<pc, command>>
    BY <1>7 DEF SearchTlb, Done
  <2> QED BY <2>1 DEF StrictInv, Conforms, procVars, pageVars
<1>8. CASE StartFork
  <2>1. /\ pc' = "fork" /\ pc = "switch" /\ child' = created + 1 /\ created' = created + 1
        /\ UNCHANGED <<current, command, pid, pageVars>> /\ child = NOBODY
        /\ \A k \in DOMAIN processes : ~IsTarget(k)
        /\ command.pid # pid[current]
    BY <1>8 DEF StartFork, Goto, StrictInv, CarefulInv, Inv, InHand, Conforms
  <2>2. ASSUME NEW p \in 1..created', p # child'
        PROVE  pid[p] # command.pid
    <3>1. p \in 1..created /\ p # NOBODY
      BY <1>1, <2>1, <2>2 DEF NOBODY
    <3>2. p = current \/ \E k \in DOMAIN processes : processes[k] = p
      BY <2>1, <3>1 DEF StrictInv, Listed
    <3> QED BY <2>1, <3>2 DEF IsTarget
  <2>3. \A v \in Vpns : ~pagetable[created + 1][v].valid
    <3>1. created + 1 \in Procs
      <4>1. created < MaxProcs
        BY <2>1 DEF StrictInv, CarefulInv, Inv, InHand
      <4> QED BY <1>1, <4>1, SizeAssumption DEF Procs
    <3>2. ~(created + 1 <= created)
      BY <1>1
    <3> QED BY <3>1, <3>2 DEF StrictInv, CarefulInv, Inv, Tables
  <2> QED BY <2>1, <2>2, <2>3 DEF Conforms, pageVars
<1>9. CASE ForkPage
  <2>1. /\ pc = "fork" /\ UNCHANGED <<pc, command, procVars>>
        /\ child \in Procs /\ current # child
        /\ \A p \in 1..created : p # child => pid[p] # command.pid
        /\ \A v \in Vpns : pagetable[child][v].valid =>
             pagetable[child][v].private = pagetable[current][v].private
    BY <1>9, SizeAssumption
       DEF ForkPage, StrictInv, CarefulInv, Inv, InHand, TypeOK, Procs, Conforms
  <2>2. PICK v \in Vpns :
          pagetable' = [pagetable EXCEPT ![current][v] = Shared(pagetable[current][v]),
                                         ![child][v] = Shared(pagetable[current][v])]
    BY <1>9, Zenon DEF ForkPage, ToCopy
  <2>3. \A u \in Vpns : \/ pagetable'[child][u] = pagetable'[current][u]
                         \/ /\ pagetable'[child][u] = pagetable[child][u]
                            /\ pagetable'[current][u] = pagetable[current][u]
    BY <1>1, <2>1, <2>2 DEF PageTables
  <2> QED BY <2>1, <2>3 DEF Conforms, procVars
<1>10. CASE Ended \/ UNCHANGED vars
  BY <1>10 DEF Ended, vars, StrictInv, Conforms
<1>11. CASE CommandBeyond
  BY <1>11, BeyondTheTable DEF Strict, Rules
<1> QED BY <1>2, <1>3, <1>4, <1>5, <1>6, <1>7, <1>8, <1>9, <1>10, <1>11 DEF Next, Step

(* What AddressSpaces sees of the state: MemoryProps!Spaces names it so.    *)
NamesNow == [p \in { q \in Procs : Exists(q) } |-> pid[p]]
Right(e) == IF ~e.valid THEN "none" ELSE IF e.private = ACCESS_READ THEN "r" ELSE "rw"
RightsNow == [p \in Procs |-> [v \in Vpns |->
    IF ~Exists(p) \/ ~pagetable[p][v].valid THEN "none"
    ELSE IF pagetable[p][v].private = ACCESS_READ THEN "r" ELSE "rw"]]

LEMMA RightsAt ==
  ASSUME NEW p \in Procs, Exists(p), NEW v \in Vpns
  PROVE  RightsNow[p][v] = Right(pagetable[p][v])
BY DEF RightsNow, Right

(* A step that changes neither is a stutter of AddressSpaces if it changes *)
(* neither the command nor the answer nor the running process.             *)
LEMMA Stutters ==
  ASSUME UNCHANGED <<command, reply, current>>, NamesNow' = NamesNow, RightsNow' = RightsNow
  PROVE  UNCHANGED Spaces!avars
BY DEF Spaces!avars, NamesNow, RightsNow

LEMMA SameNames ==
  ASSUME UNCHANGED <<created, child, pid>>
  PROVE  NamesNow' = NamesNow /\ \A p : Exists(p)' = Exists(p)
BY DEF NamesNow, Exists

LEMMA SameRights ==
  ASSUME UNCHANGED <<created, child>>,
         \A p \in Procs, v \in Vpns :
           Exists(p) => Right(pagetable'[p][v]) = Right(pagetable[p][v])
  PROVE  RightsNow' = RightsNow
<1>1. \A p \in Procs : Exists(p)' <=> Exists(p)
  BY DEF Exists
<1>2. \A p \in Procs, v \in Vpns : RightsNow'[p][v] = RightsNow[p][v]
  BY <1>1 DEF RightsNow, Right
<1> QED BY <1>2 DEF RightsNow

(* The actions of AddressSpaces, in the terms of the state.                *)
LEMMA AbstractAsk ==
  ASSUME command = NoCommand, command' \in Commands, reply' = "none",
         current' = current, NamesNow' = NamesNow, RightsNow' = RightsNow
  PROVE  Spaces!Next
<1>1. Spaces!Ask
  BY DEF Spaces!Ask, NamesNow, RightsNow
<1> QED BY <1>1 DEF Spaces!Next

LEMMA AbstractAccess ==
  ASSUME command.op = "access", command' = NoCommand, current' = current,
         NamesNow' = NamesNow, RightsNow' = RightsNow,
         reply' = IF IF command.rw = ACCESS_READ
                     THEN RightsNow[current][command.vpn] # "none"
                     ELSE RightsNow[current][command.vpn] = "rw"
                  THEN "granted" ELSE "denied"
  PROVE  Spaces!Next
<1>1. Spaces!Access
  BY DEF Spaces!Access, Spaces!Allowed, Spaces!Mine, Spaces!Done, NamesNow, RightsNow
<1> QED BY <1>1 DEF Spaces!Next

LEMMA AbstractAllocate ==
  ASSUME command.op = "alloc", RightsNow[current][command.vpn] = "none",
         RightsNow' = [RightsNow EXCEPT ![current][command.vpn] =
                         IF command.rw = ACCESS_READ THEN "r" ELSE "rw"],
         command' = NoCommand, reply' = reply, current' = current, NamesNow' = NamesNow
  PROVE  Spaces!Next
<1>1. Spaces!Allocate
  BY DEF Spaces!Allocate, Spaces!Mine, Spaces!Done, NamesNow, RightsNow
<1> QED BY <1>1 DEF Spaces!Next

LEMMA AbstractFree ==
  ASSUME command.op = "free", RightsNow[current][command.vpn] # "none",
         RightsNow' = [RightsNow EXCEPT ![current][command.vpn] = "none"],
         command' \in {NoCommand, command},
         reply' = reply, current' = current, NamesNow' = NamesNow
  PROVE  Spaces!Next
<1>1. Spaces!Free
  BY DEF Spaces!Free, Spaces!Mine, Spaces!Done, NamesNow, RightsNow
<1> QED BY <1>1 DEF Spaces!Next

LEMMA AbstractNothingToFree ==
  ASSUME command.op = "free", RightsNow[current][command.vpn] = "none",
         command' = NoCommand, reply' \in {reply, "denied"},
         current' = current, NamesNow' = NamesNow, RightsNow' = RightsNow
  PROVE  Spaces!Next
<1>1. Spaces!NothingToFree
  BY DEF Spaces!NothingToFree, Spaces!Mine, Spaces!Done, NamesNow, RightsNow
<1> QED BY <1>1 DEF Spaces!Next

LEMMA AbstractSwitch ==
  ASSUME command.op = "switch", NEW p \in Procs, Exists(p), p # current,
         pid[p] = command.pid, current' = p,
         command' = NoCommand, reply' = reply, NamesNow' = NamesNow, RightsNow' = RightsNow
  PROVE  Spaces!Next
<1>1. p \in DOMAIN NamesNow \ {current} /\ NamesNow[p] = command.pid
  BY DEF NamesNow
<1>2. Spaces!Switch
  BY <1>1 DEF Spaces!Switch, Spaces!Done, NamesNow, RightsNow
<1> QED BY <1>2 DEF Spaces!Next

LEMMA AbstractFork ==
  ASSUME command.op = "switch", NEW c \in Procs, c \notin DOMAIN NamesNow,
         \A p \in DOMAIN NamesNow : NamesNow[p] # command.pid,
         current' = c,
         NamesNow' = [p \in DOMAIN NamesNow \union {c} |->
                        IF p = c THEN command.pid ELSE NamesNow[p]],
         RightsNow' = [RightsNow EXCEPT ![c] = RightsNow[current]],
         command' = NoCommand, reply' = reply
  PROVE  Spaces!Next
<1>1. Spaces!Fork
  BY DEF Spaces!Fork, Spaces!Done, NamesNow, RightsNow
<1> QED BY <1>1 DEF Spaces!Next

LEMMA RightsWritten ==
  ASSUME current \in Procs, Exists(current), UNCHANGED <<created, child>>,
         pagetable \in PageTables, NEW v \in Vpns, NEW e,
         pagetable' = [pagetable EXCEPT ![current][v] = e]
  PROVE  RightsNow' = [RightsNow EXCEPT ![current][v] = Right(e)]
<1>1. \A p \in Procs : Exists(p)' <=> Exists(p)
  BY DEF Exists
<1>2. \A p \in Procs, u \in Vpns :
        pagetable'[p][u] = IF p = current /\ u = v THEN e ELSE pagetable[p][u]
  BY DEF PageTables
<1> DEFINE written == [RightsNow EXCEPT ![current][v] = Right(e)]
<1>3. \A p \in Procs, u \in Vpns : RightsNow'[p][u] = written[p][u]
  BY <1>1, <1>2 DEF RightsNow, Right
<1>4. RightsNow' \in [Procs -> [Vpns -> {"none", "r", "rw"}]]
  BY DEF RightsNow
<1>5. written \in [Procs -> [Vpns -> {"none", "r", "rw"}]]
  <2>1. RightsNow \in [Procs -> [Vpns -> {"none", "r", "rw"}]]
    BY DEF RightsNow
  <2>2. Right(e) \in {"none", "r", "rw"}
    BY DEF Right
  <2>3. PICK r \in [Procs -> [Vpns -> {"none", "r", "rw"}]] : r = RightsNow
    BY <2>1
  <2> QED BY <2>2, <2>3
<1> HIDE DEF written
<1>6. PICK g \in [Procs -> [Vpns -> {"none", "r", "rw"}]],
           h \in [Procs -> [Vpns -> {"none", "r", "rw"}]] :
        g = RightsNow' /\ h = written
  BY <1>4, <1>5
<1>7. g = h
  <2>1. \A p \in Procs : g[p] = h[p]
    BY <1>3, <1>6
  <2> QED BY <2>1
<1> QED BY <1>6, <1>7 DEF written

(* A write that is denied was to a page without the right.                 *)
LEMMA FaultDenies ==
  ASSUME CarefulInv, Fault, Reply("denied"), command.rw = ACCESS_WRITE
  PROVE  ~pagetable[current][command.vpn].valid
         \/ pagetable[current][command.vpn].private = ACCESS_READ
<1> DEFINE pte == pagetable[current][command.vpn]
<1>1. /\ pc = "fault" /\ command \in Commands /\ command.vpn \in Vpns
      /\ current \in Procs /\ current # child /\ Pte(current) = pte
  BY CommandFields, EntryType
     DEF CarefulInv, Inv, Fault, InHand, Pte, NOBODY, Procs
<1> SUFFICES ASSUME pte.valid, pte.private # ACCESS_READ PROVE FALSE
  OBVIOUS
<1>2. ForWriting /\ HasDirectory(current) /\ WasWritable(pte)
  BY <1>1 DEF ForWriting, HasDirectory, WasWritable, CarefulInv, Inv, Tables
<1>3. pte.pfn \in Frames
  BY <1>1, OneMapping DEF CarefulInv
<1>4. AsInt(mapcounts[pte.pfn]) \in Nat /\ AsInt(mapcounts[pte.pfn]) >= 1
  BY <1>1, <1>3, CountBounds DEF CarefulInv, Maps
<1>5. pc' = "command" /\ command' = NoCommand /\ reply' = "denied"
  BY DEF Reply, Done
<1> HIDE DEF pte
<1>6. Retry /\ AsInt(mapcounts[pte.pfn]) >= 1
  BY <1>1, <1>2, <1>4, <1>5 DEF Fault, Goto
<1> QED BY <1>5, <1>6 DEF Retry, Goto, Reply

(* Every step of a careful user's simulator is one of AddressSpaces, or    *)
(* none.                                                                   *)
LEMMA SpacesStep ==
  ASSUME Strict, StrictInv, [Next]_vars
  PROVE  [Spaces!Next]_Spaces!avars
<1>1. /\ current \in Procs /\ pagetable \in PageTables /\ CarefulInv /\ TypeOK
      /\ current \in 1..created /\ created \in 1..MaxProcs /\ ptbr = current
  BY SizeAssumption DEF StrictInv, CarefulInv, Inv, TypeOK, Consistent, Procs, Tables
<1>2. /\ child # NOBODY => pc = "fork"
      /\ child # current
      /\ Exists(current)
  BY <1>1 DEF StrictInv, CarefulInv, Inv, InHand, Exists, NOBODY, Procs
<1>3. CASE Command
  <2>1. /\ UNCHANGED <<procVars, pageVars>> /\ command' \in Commands /\ reply' = "none"
        /\ command = NoCommand
    BY <1>3 DEF Command, StrictInv, Conforms
  <2>2. NamesNow' = NamesNow /\ RightsNow' = RightsNow
    BY <2>1, SameNames, SameRights DEF procVars, pageVars
  <2> QED BY <2>1, <2>2, AbstractAsk DEF procVars
<1>4. CASE Translate
  <2> DEFINE pte == pagetable[current][command.vpn]
             right == pte.valid /\ (MayWrite(Wanted) => MayWrite(pte.rw))
  <2>1. /\ UNCHANGED <<procVars, pageVars>> /\ pc = "translate" /\ command \in Commands
        /\ command.op # "switch" /\ command.vpn \in Vpns
    BY <1>4, CommandFields DEF Translate, StrictInv, CarefulInv, Inv, InHand
  <2>2. NamesNow' = NamesNow /\ RightsNow' = RightsNow /\ current' = current
    BY <2>1, SameNames, SameRights DEF procVars, pageVars
  <2>3. RightsNow[current][command.vpn] = Right(pte)
    BY <1>1, <1>2, <2>1, RightsAt
  <2>4. \/ Translated /\ right
        \/ Untranslated /\ ~right
    BY <1>1, <1>4, MmuAnswers
  <2>5. pte.private = ACCESS_READ /\ pte.valid => ~MayWrite(pte.rw)
    BY <1>1, <2>1 DEF StrictInv, CarefulInv, Inv, RightsAgree
  <2>6. CASE UNCHANGED <<command, reply>>
    BY <2>2, <2>6, Stutters
  <2>7. CASE command.op = "access" /\ Translated /\ right
    <3>1. reply' = "granted" /\ command' = NoCommand
      BY <2>7 DEF Translated, Reply, Done
    <3>2. Wanted = command.rw
      BY <2>7 DEF Wanted
    <3>3. command.rw \in {ACCESS_READ, ACCESS_WRITE, READ_WRITE}
      BY <2>1, <2>7, CommandFields
    <3>4. command.rw # ACCESS_READ => MayWrite(Wanted)
      BY <3>2, <3>3 DEF MayWrite
    <3>5. IF command.rw = ACCESS_READ THEN Right(pte) # "none" ELSE Right(pte) = "rw"
      BY <2>5, <2>7, <3>4 DEF Right
    <3> QED BY <2>2, <2>3, <2>7, <3>1, <3>5, AbstractAccess
  <2>8. CASE command.op = "free" /\ Untranslated /\ ~right
    <3>1. reply' = "denied" /\ command' = NoCommand
      BY <2>8 DEF Untranslated, Reply, Done
    <3>2. ~pte.valid
      BY <2>8 DEF Wanted, MayWrite, ACCESS_READ, ACCESS_WRITE, READ_WRITE
    <3>3. Right(pte) = "none"
      BY <3>2 DEF Right
    <3> QED BY <2>2, <2>3, <2>8, <3>1, <3>3, AbstractNothingToFree
  <2>9. \/ UNCHANGED <<command, reply>>
        \/ command.op = "access" /\ Translated /\ right
        \/ command.op = "free" /\ Untranslated /\ ~right
    BY <2>4 DEF Translated, Untranslated, Goto
  <2> QED BY <2>6, <2>7, <2>8, <2>9
<1>5. CASE Fault
  <2> DEFINE pte == pagetable[current][command.vpn]
  <2>1. /\ UNCHANGED procVars /\ pc = "fault" /\ command \in Commands
        /\ command.op = "access" /\ command.vpn \in Vpns /\ retries = 1
        /\ command.rw \in {ACCESS_READ, ACCESS_WRITE}
        /\ command.rw = ACCESS_READ => ~pte.valid
    BY <1>5, CommandFields DEF Fault, StrictInv, CarefulInv, Inv, InHand, Conforms
  <2>2. NamesNow' = NamesNow /\ current' = current
    BY <2>1, SameNames DEF procVars
  <2>3. RightsNow[current][command.vpn] = Right(pte)
    BY <1>1, <1>2, <2>1, RightsAt
  <2>4. CASE UNCHANGED pagetable /\ UNCHANGED <<command, reply>>
    <3>1. RightsNow' = RightsNow
      BY <2>1, <2>4, SameRights DEF procVars
    <3> QED BY <2>2, <2>4, <3>1, Stutters
  <2>5. CASE UNCHANGED pagetable /\ Reply("denied")
    <3>1. RightsNow' = RightsNow
      BY <2>1, <2>5, SameRights DEF procVars
    <3>2. IF command.rw = ACCESS_READ THEN Right(pte) = "none" ELSE Right(pte) # "rw"
      <4>1. CASE command.rw = ACCESS_READ
        BY <2>1, <4>1 DEF Right
      <4>2. CASE command.rw = ACCESS_WRITE
        BY <1>1, <1>5, <2>1, <2>5, <4>2, FaultDenies DEF Right
      <4> QED BY <2>1, <4>1, <4>2 DEF ACCESS_READ, ACCESS_WRITE
    <3> QED BY <2>1, <2>2, <2>3, <2>5, <3>1, <3>2, AbstractAccess DEF Reply, Done
  <2>6. CASE ~UNCHANGED pagetable
    <3>1. /\ pte.valid /\ pte.private # ACCESS_READ /\ Retry
          /\ \E e \in PTE :
               /\ pagetable' = [pagetable EXCEPT ![current][command.vpn] = e]
               /\ e.valid /\ e.private = ACCESS_WRITE
      BY <1>1, <1>5, <2>6, FaultOfWrite, FaultWrites
    <3>2. UNCHANGED <<command, reply>>
      BY <2>1, <3>1 DEF Retry, Goto
    <3>3. PICK e \in PTE :
               /\ pagetable' = [pagetable EXCEPT ![current][command.vpn] = e]
               /\ e.valid /\ e.private = ACCESS_WRITE
      BY <3>1
    <3>4. Right(e) = "rw" /\ Right(pte) = "rw"
      BY <3>1, <3>3 DEF Right, ACCESS_READ, ACCESS_WRITE
    <3>5. \A p \in Procs, v \in Vpns :
            pagetable'[p][v] = IF p = current /\ v = command.vpn THEN e ELSE pagetable[p][v]
      BY <1>1, <3>3 DEF PageTables
    <3>6. RightsNow' = RightsNow
      BY <2>1, <3>4, <3>5, SameRights DEF procVars
    <3> QED BY <2>2, <3>2, <3>6, Stutters
  <2>7. UNCHANGED pagetable =>
          UNCHANGED <<command, reply>> \/ Reply("denied")
    BY <1>5, <2>1 DEF Fault, Retry, Goto
  <2> QED BY <2>4, <2>5, <2>6, <2>7
<1>6. CASE AllocPage
  <2>1. /\ UNCHANGED <<reply, procVars>> /\ pc = "alloc" /\ command.op = "alloc"
        /\ command.vpn \in Vpns /\ command.rw \in {ACCESS_READ, READ_WRITE}
        /\ ~pagetable[current][command.vpn].valid
    BY <1>6, CommandFields DEF AllocPage, StrictInv, CarefulInv, Inv, InHand, Tables
  <2>2. NamesNow' = NamesNow /\ current' = current
    BY <2>1, SameNames DEF procVars
  <2>3. RightsNow[current][command.vpn] = "none"
    BY <1>1, <1>2, <2>1, RightsAt DEF Right
  <2>4. CASE Goto("exit") /\ UNCHANGED pageVars
    <3>1. RightsNow' = RightsNow
      BY <2>1, <2>4, SameRights DEF procVars, pageVars
    <3> QED BY <2>1, <2>2, <2>4, <3>1, Stutters DEF Goto
  <2>5. ASSUME NEW f \in Frames, Done,
               pagetable' = [pagetable EXCEPT ![current][command.vpn] =
                 [valid |-> TRUE, rw |-> command.rw, pfn |-> f, private |-> command.rw]]
        PROVE  Spaces!Next
    <3> DEFINE e == [valid |-> TRUE, rw |-> command.rw, pfn |-> f, private |-> command.rw]
    <3>1. Right(e) = IF command.rw = ACCESS_READ THEN "r" ELSE "rw"
      BY DEF Right
    <3>2. pagetable' = [pagetable EXCEPT ![current][command.vpn] = e]
      BY <2>5
    <3> HIDE DEF e
    <3>3. RightsNow' = [RightsNow EXCEPT ![current][command.vpn] = Right(e)]
      BY <1>1, <1>2, <2>1, <3>2, RightsWritten DEF procVars
    <3> QED BY <2>1, <2>2, <2>3, <2>5, <3>1, <3>3, AbstractAllocate DEF Done
  <2> QED BY <1>6, <2>4, <2>5 DEF AllocPage
<1>7. CASE FreePage
  <2>1. /\ UNCHANGED <<reply, procVars>> /\ pc = "free" /\ command.op = "free"
        /\ command.vpn \in Vpns /\ pagetable[current][command.vpn].valid
        /\ pagetable' = [pagetable EXCEPT ![current][command.vpn] = NoPage]
        /\ command' \in {command, NoCommand}
    BY <1>7, CommandFields DEF FreePage, StrictInv, CarefulInv, Inv, InHand, Served, Goto, Done
  <2>2. NamesNow' = NamesNow /\ current' = current
    BY <2>1, SameNames DEF procVars
  <2>3. RightsNow[current][command.vpn] # "none"
    BY <1>1, <1>2, <2>1, RightsAt DEF Right
  <2>4. Right(NoPage) = "none"
    BY DEF Right, NoPage
  <2>5. RightsNow' = [RightsNow EXCEPT ![current][command.vpn] = "none"]
    BY <1>1, <1>2, <2>1, <2>4, RightsWritten DEF procVars
  <2> QED BY <2>1, <2>2, <2>3, <2>5, AbstractFree
<1>8. CASE SearchTlb
  <2>1. /\ UNCHANGED <<reply, procVars, pageVars>> /\ pc = "untlb" /\ command.op = "free"
        /\ command.vpn \in Vpns /\ ~pagetable[current][command.vpn].valid
        /\ command' \in {command, NoCommand}
    BY <1>8, CommandFields
       DEF SearchTlb, StrictInv, CarefulInv, Inv, InHand, Served, Conforms, Done
  <2>2. NamesNow' = NamesNow /\ RightsNow' = RightsNow /\ current' = current
    BY <2>1, SameNames, SameRights DEF procVars, pageVars
  <2>3. RightsNow[current][command.vpn] = "none"
    BY <1>1, <1>2, <2>1, RightsAt DEF Right
  <2>4. CASE command' = command
    BY <2>1, <2>2, <2>4, Stutters
  <2>5. CASE command' = NoCommand
    BY <2>1, <2>2, <2>3, <2>5, AbstractNothingToFree
  <2> QED BY <2>1, <2>4, <2>5
<1>9. CASE SwitchTo
  <2>1. /\ UNCHANGED <<reply, created, child, pageVars>> /\ pc = "switch"
        /\ command.op = "switch" /\ child = NOBODY
    BY <1>9 DEF SwitchTo, StrictInv, CarefulInv, Inv, InHand
  <2>2. PICK k \in DOMAIN processes :
          /\ pid[processes[k]] = command.pid
          /\ ChangeCurrent(processes[k], RemoveAt(processes, k))
    BY <1>9 DEF SwitchTo, FirstTarget, IsTarget
  <2>3. processes[k] \in 1..created
    BY <1>1, <2>2, ElementOfSeq, LenProperties DEF TypeOK
  <2>4. /\ processes[k] \in Procs /\ Exists(processes[k]) /\ processes[k] # current
        /\ pid \in [Procs -> Pids]
    BY <1>1, <2>1, <2>2, <2>3, SizeAssumption
       DEF StrictInv, Listed, Exists, NOBODY, Procs, TypeOK
  <2>5. pid' = pid
    BY <2>2, <2>4 DEF ChangeCurrent
  <2>6. NamesNow' = NamesNow /\ RightsNow' = RightsNow
    BY <2>1, <2>5, SameNames, SameRights DEF pageVars
  <2> QED BY <2>1, <2>2, <2>4, <2>6, AbstractSwitch DEF ChangeCurrent, Done
<1>10. CASE TakeListHead
  <2>1. UNCHANGED <<command, reply, procVars, pageVars>>
    BY <1>10 DEF TakeListHead, Goto
  <2> QED BY <2>1, SameNames, SameRights, Stutters DEF procVars, pageVars
<1>11. CASE StartFork
  <2>1. /\ UNCHANGED <<command, reply, pid, current, pageVars>> /\ child = NOBODY
        /\ created' = created + 1 /\ child' = created + 1
    BY <1>11 DEF StartFork, Goto, StrictInv, CarefulInv, Inv, InHand
  <2>2. \A p \in Procs : Exists(p)' <=> Exists(p)
    BY <1>1, <2>1 DEF Exists, NOBODY, Procs
  <2>3. { q \in Procs : Exists(q) }' = { q \in Procs : Exists(q) }
    BY <2>2
  <2>4. NamesNow' = NamesNow
    BY <2>1, <2>3 DEF NamesNow
  <2>5. RightsNow' = RightsNow
    BY <2>1, <2>2 DEF RightsNow, pageVars
  <2> QED BY <2>1, <2>4, <2>5, Stutters
<1>12. CASE ForkPage
  <2>1. /\ UNCHANGED <<command, reply, procVars>> /\ child \in Procs /\ ~Exists(child)
    BY <1>12, SizeAssumption
       DEF ForkPage, StrictInv, CarefulInv, Inv, InHand, TypeOK, Procs, Exists
  <2>2. PICK v \in Vpns :
          pagetable' = [pagetable EXCEPT ![current][v] = Shared(pagetable[current][v]),
                                         ![child][v] = Shared(pagetable[current][v])]
    BY <1>12, Zenon DEF ForkPage, ToCopy
  <2>3. PICK x \in PTE : x = pagetable[current][v]
    BY <1>1 DEF PageTables
  <2>4. x.valid /\ x.private = ACCESS_READ => ~MayWrite(x.rw)
    BY <1>1, <2>3 DEF StrictInv, CarefulInv, Inv, RightsAgree
  <2>5. /\ Shared(x).valid = x.valid
        /\ Shared(x).private = IF x.rw = ACCESS_WRITE THEN x.rw ELSE x.private
    BY SharedType
  <2>6. Right(Shared(x)) = Right(x)
    BY <2>4, <2>5 DEF Right, MayWrite, ACCESS_READ, ACCESS_WRITE
  <2>7. \A p \in Procs, u \in Vpns : Exists(p) =>
          Right(pagetable'[p][u]) = Right(pagetable[p][u])
    <3>1. \A p \in Procs, u \in Vpns : p # child =>
            pagetable'[p][u] = IF p = current /\ u = v THEN Shared(x) ELSE pagetable[p][u]
      BY <1>1, <2>2, <2>3 DEF PageTables
    <3> QED BY <2>1, <2>3, <2>6, <3>1
  <2> QED BY <2>1, <2>7, SameNames, SameRights, Stutters DEF procVars
<1>13. CASE ForkDone
  <2>1. /\ UNCHANGED <<reply, created, pagetable>> /\ pc = "fork" /\ child = created
        /\ command.op = "switch" /\ child' = NOBODY /\ ToCopy = {}
        /\ ChangeCurrent(child, processes) /\ child \in Procs
        /\ \A p \in 1..created : p # child => pid[p] # command.pid
        /\ \A v \in Vpns : pagetable[child][v].valid =>
             pagetable[child][v].private = pagetable[current][v].private
    BY <1>1, <1>13, SizeAssumption
       DEF ForkDone, StrictInv, CarefulInv, Inv, InHand, Conforms, Procs
  <2>2. /\ current' = child /\ command' = NoCommand
        /\ pid' = [pid EXCEPT ![child] = command.pid] /\ pid \in [Procs -> Pids]
    BY <1>1, <2>1 DEF ChangeCurrent, Done, TypeOK
  <2>3. \A p \in Procs : /\ p = child => ~Exists(p) /\ Exists(p)'
                         /\ p # child => (Exists(p)' <=> Exists(p))
    BY <1>1, <2>1 DEF Exists, NOBODY, Procs
  <2>4. /\ DOMAIN NamesNow = { q \in Procs : Exists(q) }
        /\ \A p \in DOMAIN NamesNow : NamesNow[p] = pid[p]
    BY DEF NamesNow
  <2>5. child \notin DOMAIN NamesNow
    BY <2>1, <2>3, <2>4
  <2>6. \A p \in DOMAIN NamesNow : NamesNow[p] # command.pid
    BY <2>1, <2>3, <2>4 DEF Exists
  <2>7. NamesNow' = [p \in DOMAIN NamesNow \union {child} |->
                       IF p = child THEN command.pid ELSE NamesNow[p]]
    <3>1. { q \in Procs : Exists(q)' } = DOMAIN NamesNow \union {child}
      BY <2>1, <2>3, <2>4
    <3>2. NamesNow' = [p \in DOMAIN NamesNow \union {child} |-> pid'[p]]
      BY <3>1 DEF NamesNow
    <3>3. \A p \in DOMAIN NamesNow \union {child} :
            pid'[p] = IF p = child THEN command.pid ELSE NamesNow[p]
      BY <2>1, <2>2, <2>4, <2>5
    <3> QED BY <3>2, <3>3
  <2>8. RightsNow' = [RightsNow EXCEPT ![child] = RightsNow[current]]
    <3>1. ASSUME NEW v \in Vpns
          PROVE  Right(pagetable[child][v]) = Right(pagetable[current][v])
      <4>1. pagetable[child][v].valid <=> pagetable[current][v].valid
        BY <1>1, <2>1 DEF ToCopy, StrictInv, CarefulInv, Inv, Tables
      <4> QED BY <2>1, <4>1 DEF Right
    <3>2. \A v \in Vpns : RightsNow[current][v] = Right(pagetable[current][v])
      BY <1>1, <1>2, RightsAt
    <3>3. RightsNow[current] = [v \in Vpns |-> Right(pagetable[child][v])]
      BY <1>1, <3>1, <3>2 DEF RightsNow
    <3>4. RightsNow'[child] = [v \in Vpns |-> Right(pagetable[child][v])]
      BY <2>1, <2>3 DEF RightsNow, Right
    <3>5. \A p \in Procs : p # child => RightsNow'[p] = RightsNow[p]
      BY <2>1, <2>3 DEF RightsNow
    <3>6. /\ \E r : r = RightsNow /\ r = [p \in Procs |-> r[p]]
          /\ \E r : r = RightsNow' /\ r = [p \in Procs |-> r[p]]
      BY DEF RightsNow
    <3> QED BY <2>1, <3>3, <3>4, <3>5, <3>6
  <2> QED BY <2>1, <2>2, <2>5, <2>6, <2>7, <2>8, AbstractFork
<1>14. CASE Ended \/ UNCHANGED vars
  <2>1. UNCHANGED <<command, reply, procVars, pageVars>>
    BY <1>14 DEF Ended, vars, procVars, pageVars
  <2> QED BY <2>1, SameNames, SameRights, Stutters DEF procVars, pageVars
<1>15. CASE CommandBeyond
  BY <1>15, BeyondTheTable DEF Strict, Rules
<1> QED BY <1>3, <1>4, <1>5, <1>6, <1>7, <1>8, <1>9, <1>10, <1>11, <1>12, <1>13, <1>14, <1>15
    DEF Next, Step

LEMMA SpacesInit == Init => Spaces!Init
<1> SUFFICES ASSUME Init PROVE Spaces!Init
  OBVIOUS
<1>1. created = 1 /\ child = NOBODY /\ pid = [p \in Procs |-> 0]
      /\ pagetable = [p \in Procs |-> [v \in Vpns |-> NoPage]]
  BY DEF Init
<1>2. { q \in Procs : Exists(q) } = {1}
  BY <1>1, SizeAssumption DEF Exists, Procs, NOBODY
<1>3. NamesNow = [p \in {1} |-> 0]
  BY <1>1, <1>2, SizeAssumption DEF NamesNow, Procs
<1>4. RightsNow = [p \in Procs |-> [v \in Vpns |-> "none"]]
  BY <1>1 DEF RightsNow, NoPage
<1> QED BY <1>3, <1>4 DEF Init, Spaces!Init, NamesNow, RightsNow

LEMMA StrictInvariant ==
  ASSUME Strict
  PROVE  Spec => []StrictInv
<1>1. Spec => []CarefulInv
  BY StrictIsCareful, CarefulInvariant
<1>2. Init => Listed /\ Conforms
  BY ListedInit, ConformsInit
<1>3. CarefulInv /\ Listed /\ Conforms /\ [Next]_vars => Listed' /\ Conforms'
  BY ListedStep, ConformsStep DEF StrictInv, CarefulInv, Inv
<1> QED BY <1>1, <1>2, <1>3, PTL DEF Spec, StrictInv

(* Whatever the sequence of commands, faults, copies, forks and switches,  *)
(* with the TLB and without, the simulator of vm.c and pa3.c does what     *)
(* AddressSpaces says of private address spaces, if the user keeps to the  *)
(* rules of MayAsk.                                                        *)
THEOREM SpacesAreKept ==
  ASSUME Strict
  PROVE  Spec => ImplementsAddressSpaces
<1>1. Init => Spaces!Init
  BY SpacesInit
<1>2. StrictInv /\ [Next]_vars => [Spaces!Next]_Spaces!avars
  BY SpacesStep
<1>3. Spec => []StrictInv
  BY StrictInvariant
<1> QED BY <1>1, <1>2, <1>3, PTL DEF Spec, ImplementsAddressSpaces, Spaces!Spec
-----------------------------------------------------------------------------
(* Every command comes to an end, for every user, unless free_page's       *)
(* search of the TLB keeps it.                                             *)

(* How far the command in hand has come; a second translation comes before *)
(* the second fault, and the pages still to be shared come down to none.   *)
Phase ==
  CASE pc = "translate" -> 8 - 2 * retries
    [] pc = "fault" -> 9 - 2 * retries
    [] pc \in {"alloc", "free"} -> 4
    [] pc = "untlb" -> 3
    [] pc = "switch" -> 2
    [] pc = "fork" -> 1
    [] OTHER -> 0
PagesToShare == IF pc = "fork" THEN Cardinality(ToCopy) ELSE 0
ToGo == <<Phase, PagesToShare>>

PhaseAgrees ==
  /\ Phase \in Nat
  /\ pc = "translate" => Phase = 8 - 2 * retries
  /\ pc = "fault" => Phase = 9 - 2 * retries
  /\ pc \in {"alloc", "free"} => Phase = 4
  /\ pc = "untlb" => Phase = 3
  /\ pc = "switch" => Phase = 2
  /\ pc = "fork" => Phase = 1
  /\ pc \in {"command", "exit", "abort", "crash", "corrupt"} => Phase = 0

LEMMA PhaseAt == TypeOK => PhaseAgrees
<1> SUFFICES ASSUME TypeOK PROVE PhaseAgrees
  OBVIOUS
<1>1. retries \in 0..2 /\ pc \in Places
  BY DEF TypeOK, Places
<1> QED BY <1>1 DEF PhaseAgrees, Phase, Places

LEMMA FinitelyManyToCopy == IsFiniteSet(ToCopy) /\ Cardinality(ToCopy) \in Nat
<1>1. ToCopy \in SUBSET Vpns /\ IsFiniteSet(Vpns)
  <2>1. NR_TLB_ENTRIES \in Int
    BY SizeAssumption DEF NR_TLB_ENTRIES
  <2>2. IsFiniteSet(0..(NR_TLB_ENTRIES - 1))
    BY <2>1, FS_Interval
  <2>3. Vpns \in SUBSET (0..(NR_TLB_ENTRIES - 1))
    BY SizeAssumption
  <2> QED BY <2>2, <2>3, FS_Subset DEF ToCopy
<1> QED BY <1>1, FS_Subset, FS_CardinalityType

LEMMA ToGoType == TypeOK => ToGo \in [1..2 -> Nat]
<1> SUFFICES ASSUME TypeOK PROVE ToGo \in [1..2 -> Nat]
  OBVIOUS
<1>1. Phase \in Nat /\ PagesToShare \in Nat
  BY PhaseAt, FinitelyManyToCopy DEF PhaseAgrees, PagesToShare
<1> HIDE DEF Phase, PagesToShare
<1> QED BY <1>1 DEF ToGo

LEMMA ToGoLowers ==
  /\ Phase' < Phase => LexBelow(ToGo', ToGo)
  /\ Phase' = Phase /\ PagesToShare' < PagesToShare => LexBelow(ToGo', ToGo)
<1> HIDE DEF Phase, PagesToShare
<1>1. /\ ToGo[1] = Phase /\ ToGo[2] = PagesToShare /\ DOMAIN ToGo = 1..2
      /\ ToGo'[1] = Phase' /\ ToGo'[2] = PagesToShare'
  BY DEF ToGo
<1> HIDE DEF ToGo
<1>2. ASSUME Phase' < Phase PROVE LexBelow(ToGo', ToGo)
  BY <1>1, <1>2 DEF LexBelow
<1>3. ASSUME Phase' = Phase, PagesToShare' < PagesToShare PROVE LexBelow(ToGo', ToGo)
  <2>1. 2 \in DOMAIN ToGo /\ ToGo'[2] < ToGo[2] /\ \A j \in 1..(2 - 1) : ToGo'[j] = ToGo[j]
    BY <1>1, <1>3
  <2> QED BY <2>1 DEF LexBelow
<1> QED BY <1>2, <1>3

(* Sharing a page with the child leaves one less to be shared.             *)
LEMMA OnePageLess ==
  ASSUME TypeOK, InHand, ForkPage
  PROVE  Cardinality(ToCopy') < Cardinality(ToCopy)
<1>1. /\ child \in Procs /\ current \in Procs /\ current # child
      /\ UNCHANGED <<current, child>>
      /\ pagetable \in PageTables
  BY SizeAssumption DEF ForkPage, InHand, TypeOK, Procs, procVars, PageTables
<1>2. PICK v \in ToCopy :
        pagetable' = [pagetable EXCEPT ![current][v] = Shared(pagetable[current][v]),
                                       ![child][v] = Shared(pagetable[current][v])]
  BY Zenon DEF ForkPage
<1>3. /\ v \in Vpns /\ pagetable[current][v] \in PTE /\ pagetable[current][v].valid
      /\ Shared(pagetable[current][v]).valid
  BY <1>1, <1>2, SharedType DEF ToCopy, PageTables
<1>4. ToCopy' = ToCopy \ {v}
  <2>1. \A x \in Vpns :
          /\ pagetable'[current][x].valid = pagetable[current][x].valid
          /\ pagetable'[child][x].valid = IF x = v THEN TRUE ELSE pagetable[child][x].valid
    BY <1>1, <1>2, <1>3 DEF PageTables
  <2> QED BY <1>1, <1>3, <2>1 DEF ToCopy
<1>5. Cardinality(ToCopy \ {v}) = Cardinality(ToCopy) - 1
  BY <1>2, FinitelyManyToCopy, FS_RemoveElement
<1> QED BY <1>4, <1>5, FinitelyManyToCopy

LEMMA CommandLowers ==
  ASSUME TypeOK, InHand, PhaseAgrees, PhaseAgrees', Step
  PROVE  LexBelow(ToGo', ToGo) \/ UNCHANGED vars
<1> DEFINE Ends == pc' \in {"command", "exit", "crash", "corrupt"}
<1>1. Ends => Phase' = 0
  BY DEF PhaseAgrees
<1>2. CASE Translate
  <2>1. pc = "translate" /\ retries \in {0, 1} /\ Phase = 8 - 2 * retries
    BY <1>2 DEF PhaseAgrees, Translate, InHand, TypeOK
  <2>2. \/ Ends
        \/ pc' = "fault" /\ retries' = retries + 1
        \/ pc' \in {"alloc", "free"}
    BY <1>2 DEF Translate, Translated, Untranslated, Reply, Done, Goto
  <2>3. \/ Phase' = 0 \/ Phase' = 9 - 2 * (retries + 1) \/ Phase' = 4
    BY <1>1, <2>2 DEF PhaseAgrees
  <2> HIDE DEF Phase
  <2>4. Phase' < Phase
    BY <2>1, <2>3
  <2> QED BY <2>4, ToGoLowers
<1>3. CASE Fault
  <2>1. pc = "fault" /\ retries \in 0..2 /\ Phase = 9 - 2 * retries /\ retries' = retries
    BY <1>3 DEF PhaseAgrees, Fault, TypeOK
  <2>2. Ends \/ pc' = "translate"
    BY <1>3 DEF Fault, Retry, Reply, Done, Goto
  <2>3. Phase' = 0 \/ Phase' = 8 - 2 * retries
    BY <1>1, <2>1, <2>2 DEF PhaseAgrees
  <2> HIDE DEF Phase
  <2>4. Phase' < Phase
    BY <2>1, <2>3
  <2> QED BY <2>4, ToGoLowers
<1>4. CASE AllocPage \/ FreePage
  <2>1. pc \in {"alloc", "free"} /\ Phase = 4
    BY <1>4 DEF PhaseAgrees, AllocPage, FreePage
  <2>2. Ends \/ pc' = "untlb"
    BY <1>4 DEF AllocPage, FreePage, Done, Goto
  <2>3. Phase' = 0 \/ Phase' = 3
    BY <1>1, <2>2 DEF PhaseAgrees
  <2> HIDE DEF Phase
  <2> QED BY <2>1, <2>3, ToGoLowers
<1>5. CASE SearchTlb
  <2>1. pc = "untlb" /\ Phase = 3
    BY <1>5 DEF PhaseAgrees, SearchTlb
  <2>2. CASE tlb[1].vpn = command.vpn
    <3>1. Ends
      BY <1>5, <2>2 DEF SearchTlb, Done
    <3>2. Phase' = 0
      BY <1>1, <3>1
    <3> HIDE DEF Phase
    <3> QED BY <2>1, <3>2, ToGoLowers
  <2>3. CASE tlb[1].vpn # command.vpn
    <3>1. UNCHANGED <<use_tlb, tlb, pc, command, retries, reply, procVars, pageVars>>
      BY <1>5, <2>3 DEF SearchTlb
    <3> QED BY <3>1 DEF vars, procVars, pageVars
  <2> QED BY <2>2, <2>3
<1>6. CASE SwitchTo \/ TakeListHead \/ StartFork
  <2>1. pc = "switch" /\ Phase = 2
    BY <1>6 DEF PhaseAgrees, SwitchTo, TakeListHead, StartFork
  <2>2. Ends \/ pc' = "fork"
    BY <1>6, Zenon DEF SwitchTo, TakeListHead, StartFork, ChangeCurrent, Done, Goto
  <2>3. Phase' = 0 \/ Phase' = 1
    BY <1>1, <2>2 DEF PhaseAgrees
  <2> HIDE DEF Phase
  <2> QED BY <2>1, <2>3, ToGoLowers
<1>7. CASE ForkPage
  <2>1. pc = "fork" /\ pc' = "fork"
    BY <1>7 DEF ForkPage
  <2>2. Phase = 1 /\ Phase' = 1
    BY <2>1 DEF PhaseAgrees
  <2>3. PagesToShare' < PagesToShare
    BY <1>7, <2>1, OnePageLess DEF PagesToShare
  <2> QED BY <2>2, <2>3, ToGoLowers
<1>8. CASE ForkDone
  <2>1. pc = "fork" /\ pc' = "command"
    BY <1>8 DEF ForkDone, ChangeCurrent, Done
  <2>2. Phase = 1 /\ Phase' = 0
    BY <2>1 DEF PhaseAgrees
  <2> QED BY <2>2, ToGoLowers
<1> QED BY <1>2, <1>3, <1>4, <1>5, <1>6, <1>7, <1>8 DEF Step

(* When each step can be taken.                                            *)
CanTranslate == pc = "translate" /\ command.op \in {"access", "alloc", "free"}
CanHandleFault ==
  LET pte == Pte(current)
      mapcnt == AsInt(mapcounts[pte.pfn])
  IN
  /\ pc = "fault"
  /\ mapcnt \in Int
  /\ ForWriting /\ HasDirectory(current) /\ WasWritable(pte) /\ mapcnt >= 2 =>
       LET counts == Decremented(mapcounts, pte.pfn) IN
       (\E f \in Frames : SmallestFree(f, counts)) \/ NoneFree(counts)
CanAlloc == pc = "alloc" /\ ((\E f \in Frames : SmallestFree(f, mapcounts)) \/ NoneFree(mapcounts))
CanFree == pc = "free"
CanFind == pc = "untlb" /\ tlb # <<>> /\ tlb[1].vpn = command.vpn
CanSwitch == pc = "switch" /\ \E k \in DOMAIN processes : FirstTarget(k)
CanFork == pc = "switch" /\ created < MaxProcs /\ \A k \in DOMAIN processes : ~IsTarget(k)
CanShare == pc = "fork" /\ \E v \in ToCopy : \A u \in ToCopy : v <= u
CanEndFork == pc = "fork" /\ ToCopy = {}

(* The search that never ends: the first entry is another page's.          *)
SearchesForEver == pc = "untlb" /\ tlb # <<>> /\ tlb[1].vpn # command.vpn

CommandGoesOn ==
  pc \notin {"command", "corrupt"} /\ ~Stopped =>
    \/ CanTranslate \/ CanHandleFault \/ CanAlloc \/ CanFree \/ CanFind
    \/ CanSwitch \/ CanFork \/ CanShare \/ CanEndFork
    \/ SearchesForEver

LEMMA FrameOrNone ==
  ASSUME NEW counts \in FrameCounts
  PROVE  (\E f \in Frames : SmallestFree(f, counts)) \/ NoneFree(counts)
<1> DEFINE S == { f \in Frames : counts[f] = 0 }
<1>1. CASE S = {}
  BY <1>1 DEF NoneFree
<1>2. CASE S # {}
  <2>1. S \in SUBSET Nat
    BY SizeAssumption DEF Frames
  <2>2. PICK f \in S : \A g \in S : f <= g
    BY <1>2, <2>1, LeastNumber
  <2>3. \A g \in Frames : g \in Nat
    BY SizeAssumption DEF Frames
  <2>4. SmallestFree(f, counts)
    BY <2>2, <2>3 DEF SmallestFree
  <2> QED BY <2>2, <2>4
<1> QED BY <1>1, <1>2

LEMMA TypeGoesOn == TypeOK /\ InHand => CommandGoesOn
<1> SUFFICES ASSUME TypeOK, InHand, pc \notin {"command", "corrupt"}, ~Stopped
             PROVE  \/ CanTranslate \/ CanHandleFault \/ CanAlloc \/ CanFree \/ CanFind
                    \/ CanSwitch \/ CanFork \/ CanShare \/ CanEndFork
                    \/ SearchesForEver
  BY DEF CommandGoesOn
<1>1. mapcounts \in FrameCounts /\ UINT_MOD \in Nat
  BY WidthAssumption DEF TypeOK, FrameCounts
<1>2. CASE pc = "translate"
  BY <1>2, CommandFields DEF InHand, CanTranslate
<1>3. CASE pc = "fault"
  <2>1. command.vpn \in Vpns
    BY <1>3, CommandFields DEF InHand
  <2>2. Pte(current).pfn \in Frames
    BY <2>1, EntryType DEF PTE
  <2>3. mapcounts[Pte(current).pfn] \in Int
    BY <1>1, <2>2 DEF FrameCounts
  <2>4. AsInt(mapcounts[Pte(current).pfn]) \in Int
    BY <1>1, <2>3 DEF AsInt
  <2>5. Decremented(mapcounts, Pte(current).pfn) \in FrameCounts
    BY <1>1, <2>2, CountTypes DEF FrameCounts
  <2> QED BY <1>3, <2>4, <2>5, FrameOrNone DEF CanHandleFault
<1>4. CASE pc = "alloc"
  BY <1>1, <1>4, FrameOrNone DEF CanAlloc
<1>5. CASE pc = "free"
  BY <1>5 DEF CanFree
<1>6. CASE pc = "untlb"
  BY <1>6 DEF InHand, CanFind, SearchesForEver
<1>7. CASE pc = "switch"
  <2>1. CASE \A k \in DOMAIN processes : ~IsTarget(k)
    BY <1>7, <2>1 DEF CanFork, InHand
  <2>2. CASE \E k \in DOMAIN processes : IsTarget(k)
    <3> DEFINE S == { k \in DOMAIN processes : IsTarget(k) }
    <3>1. Len(processes) \in Nat /\ DOMAIN processes = 1..Len(processes)
      BY LenProperties DEF TypeOK
    <3>2. PICK k \in S : \A j \in 1..(k - 1) : j \notin S
      BY <2>2, <3>1, FirstOfAll
    <3>3. \A j \in 1..(k - 1) : ~IsTarget(j)
      BY <3>2 DEF IsTarget
    <3> QED BY <1>7, <3>2, <3>3 DEF CanSwitch, FirstTarget
  <2> QED BY <2>1, <2>2
<1>8. CASE pc = "fork"
  <2>1. CASE ToCopy = {}
    BY <1>8, <2>1 DEF CanEndFork
  <2>2. CASE ToCopy # {}
    <3>1. ToCopy \in SUBSET Nat
      <4>1. NR_TLB_ENTRIES \in Int
        BY SizeAssumption DEF NR_TLB_ENTRIES
      <4>2. Vpns \in SUBSET Nat
        BY <4>1, SizeAssumption
      <4> QED BY <4>2 DEF ToCopy
    <3> QED BY <1>8, <2>2, <3>1, LeastNumber DEF CanShare
  <2> QED BY <2>1, <2>2
<1> QED BY <1>2, <1>3, <1>4, <1>5, <1>6, <1>7, <1>8 DEF TypeOK, Stopped

(* Whatever the user asks for: every step that changes anything between a  *)
(* command and its end lowers the measure, so there are finitely many of   *)
(* them (LexWellFounded): the translation is not retried for ever, and the *)
(* loop over the page table ends.  And one of them can be taken - every    *)
(* case of a fault is handled, the traversals of the list, of the frames   *)
(* and of the page table find the first of what they look for - unless the *)
(* search of the TLB in free_page has met another page's entry.            *)
CommandProgresses == [][pc # "command" => LexBelow(ToGo', ToGo)]_vars
THEOREM CommandsComeToAnEnd ==
  Spec => []CommandGoesOn /\ [](ToGo \in [1..2 -> Nat]) /\ CommandProgresses
<1>1. Init => TypeOK /\ InHand
  BY InitType
<1>2. TypeOK /\ InHand /\ [Next]_vars => (TypeOK /\ InHand)'
  BY TypeStep, InHandStep
<1>3. TypeOK /\ InHand /\ PhaseAgrees /\ PhaseAgrees' /\ [Next]_vars
        => [pc # "command" => LexBelow(ToGo', ToGo)]_vars
  <2> SUFFICES ASSUME TypeOK, InHand, PhaseAgrees, PhaseAgrees', Next, pc # "command"
               PROVE  LexBelow(ToGo', ToGo) \/ UNCHANGED vars
    OBVIOUS
  <2>1. CASE Step
    BY <2>1, CommandLowers
  <2>2. CASE Command \/ CommandBeyond \/ Ended
    BY <2>2 DEF Command, CommandBeyond, Ended
  <2> QED BY <2>1, <2>2 DEF Next
<1>4. TypeOK /\ InHand => CommandGoesOn /\ ToGo \in [1..2 -> Nat] /\ PhaseAgrees
  BY TypeGoesOn, ToGoType, PhaseAt
<1> QED BY <1>1, <1>2, <1>3, <1>4, PTL DEF Spec, CommandProgresses

(* Without the TLB there is no such search: nothing puts an entry into it. *)
TlbUnused == ~use_tlb /\ tlb = <<>> /\ pc # "untlb"

(* So without the option -t every command ends, for every user: a step can *)
(* be taken until it has, and only finitely many can.                      *)
THEOREM WithoutTlbNobodySearches ==
  ASSUME TlbOptions \subseteq {FALSE}
  PROVE  Spec => []~SearchesForEver
<1>1. Init => TlbUnused
  BY DEF Init, TlbUnused
<1>2. TlbUnused /\ [Next]_vars => TlbUnused'
  <2> SUFFICES ASSUME TlbUnused, [Next]_vars PROVE TlbUnused'
    OBVIOUS
  <2>1. CASE Command
    BY <2>1, Zenon DEF Command, TlbUnused
  <2>2. CASE Translate
    <3>1. UNCHANGED <<use_tlb, tlb>>
      BY <2>2 DEF Translate, TlbUnused
    <3>2. pc' # "untlb"
      BY <2>2 DEF Translate, Translated, Untranslated, Reply, Done, Goto
    <3> QED BY <3>1, <3>2 DEF TlbUnused
  <2>3. CASE Fault
    BY <2>3 DEF Fault, Retry, Reply, Done, Goto, TlbUnused
  <2>4. CASE AllocPage \/ FreePage
    <3>1. UNCHANGED <<use_tlb, tlb>>
      BY <2>4 DEF AllocPage, FreePage
    <3>2. pc' # "untlb"
      BY <2>4 DEF AllocPage, FreePage, Done, Goto, TlbUnused
    <3> QED BY <3>1, <3>2 DEF TlbUnused
  <2>5. CASE SearchTlb
    BY <2>5 DEF SearchTlb, TlbUnused
  <2>6. CASE SwitchTo \/ ForkDone
    <3>1. pc' = "command" /\ tlb' = <<>> /\ use_tlb' = use_tlb
      BY <2>6, Zenon DEF SwitchTo, ForkDone, ChangeCurrent, Done
    <3> QED BY <3>1 DEF TlbUnused
  <2>7. CASE TakeListHead \/ StartFork
    BY <2>7 DEF TakeListHead, StartFork, Goto, TlbUnused
  <2>8. CASE ForkPage
    BY <2>8 DEF ForkPage, TlbUnused
  <2>9. CASE Ended \/ UNCHANGED vars
    BY <2>9 DEF Ended, vars, TlbUnused
  <2>10. CASE CommandBeyond
    BY <2>10, BeyondTheTable DEF TlbUnused
  <2> QED BY <2>1, <2>2, <2>3, <2>4, <2>5, <2>6, <2>7, <2>8, <2>9, <2>10 DEF Next, Step
<1>3. TlbUnused => ~SearchesForEver
  BY DEF TlbUnused, SearchesForEver
<1> QED BY <1>1, <1>2, <1>3, PTL DEF Spec
=============================================================================
