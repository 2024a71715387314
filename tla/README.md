# Verification of the OS programming assignments (2023-1-OS-PAs)

The repository holds three programs: a shell (`os-pa1`), a CPU-scheduling
simulator (`os-pa2`) and a virtual-memory simulator (`os-pa3`).  This directory
models them in TLA+, checks the models with TLC and proves theorems about them
with TLAPS.  All three programs are modelled, and below them the linked lists of
`list_head.h`, at the level of pointers.

## 1. Inventory

| component | state it keeps | operations | interacts through |
|---|---|---|---|
| **Scheduling framework**, `os-pa2/sched.c`, `process.h`, `resource.h` | `ticks`, `current`, `__forkqueue`, `readyqueue`, `resources[].owner/.waitqueue`, and per process `status`, `age`, `prio`, the lists of resources to acquire and held | load a script; per tick: fork what is due, schedule, retire the previous process, dispatch, acquire, run, release | calls the policy's `schedule()`, `acquire()`, `release()`; both sides move the *one* list node of a process between lists |
| **Scheduling policies**, `os-pa2/pa2.c` | none of their own: they work on `readyqueue`, `resources[]`, `current`, `prio`, `status` | `schedule`, `acquire`, `release` for FIFO, SJF, STCF, RR, priority, priority+aging, PCP, PIP | called by the framework |
| **Script loader**, `sched.c:74-228` | the block being read; fills `__forkqueue` | `__load_script` | runs before the loop |
| **Intrusive list**, `list_head.h` (identical in the three programs) | next/prev pointers; for hlists next/pprev and first | add, delete, move, rotate, replace, cut, splice, questions, loops, and the same for hlists | every queue of `os-pa2`, `processes` of `os-pa3` (`os-pa1` includes it only) |
| **Virtual memory**, `os-pa3/vm.c`, `pa3.c` | page tables, `mapcounts[]`, `processes`, `current`, `ptbr` | `alloc_page`, `free_page`, `handle_page_fault`, `switch_process`, `__translate`, `__access_memory` | command loop of `vm.c` calls the handlers of `pa3.c` |
| **TLB**, `os-pa3` | `tlb[]` | `lookup_tlb`, `insert_tlb`, invalidation in `free_page`, flush in `switch_process` | a cache of the page table of `current` |
| **Shell commands**, `os-pa1/pa1.c`, `mash.c` | working directory, children, pipe | `run_command`: exit, cd, external command, pipe of two commands | `fork`, `execvp`, `pipe`, `dup2`, `wait` |
| **Aliases**, `os-pa1/pa1.c` | the arrays `pp_keys`, `pp_vals`, `v_wordCnt`; the token array | `alias`, expansion of tokens | rewrites the tokens `run_command` executes |
| **Parsers**, `parser.c` (three) | none | split a line into tokens | feeds the others |

What is hard in them:

* *scheduling*: one list node per process that several functions relink; a
  `schedule()` that runs before the previous process is retired; wake-ups that
  hand nothing over, so that woken processes race with others for the resource;
  requests for several resources at one age of which only some succeed;
  priorities that are boosted and have to drop at the right moment; processes
  waiting for each other;
* *virtual memory*: reference counts against page tables of several processes,
  copy-on-write with its lost permission kept aside, a TLB that must never
  answer differently from the page table, running out of frames in the middle
  of a fault;
* *shell*: two children and a shell around one bounded pipe, failing forks,
  token arrays edited in place;
* *lists*: every function relies on what all earlier calls left in the pointers;
  loops whose body changes the list they walk.

What makes each correct, in short.  Scheduling: a process is in one place; the
owner pointer and the holder's list agree; no wake-up is lost; resources are
held exactly as long as the script says; every policy keeps its promise about
order, preemption, shares and starvation.  Virtual memory: `mapcounts` counts
the mappings; a frame that two processes share is never writable; a write
succeeds exactly where the page was allocated for writing; the TLB agrees with
the page table.  Shell: a command line terminates, the pipe delivers, descriptors
and children do not leak; alias expansion equals substitution.  Lists: after any
calls the pointers link the promised nodes in the promised order, both ways.

`PROJECT.json` lists every hazard with its line.

## 2. Modules

```
SchedState          constants, assumptions, variables, small helpers
  Policies          pa2.c: schedule(), acquire(), release() of 8 schedulers
    Simulator       sched.c: the main loop, one action per step; invariants
      PolicyProps   what each policy promises          <- MCSim      (TLC)
      GrantOrder    Simulator + who asked first        <- MCGrant    (TLC)
                    (MCGrant takes the instances of MCSim)
      SimulatorProofs  types, ownership, wake-ups                    (TLAPS)
        TaskProofs     lists, exits, deadlock, refinement            (TLAPS)
          PolicyProofs the policies' promises; also extends
                       PolicyProps and GrantOrder                    (TLAPS)
Loader              sched.c: reading a script          (used by MCSim)
TaskSystem          abstract specification, implemented by Simulator

VirtualMemory       vm.c and pa3.c: commands, MMU, TLB, faults, fork, switch
  MemoryProps       its properties                     <- MCMemory   (TLC)
    VirtualMemoryProofs  theorems                                    (TLAPS)
AddressSpaces       abstract specification, implemented by VirtualMemory

Aliases             pa1.c: the alias table, expansion in the token array
  Shell             mash.c and pa1.c: the shell, its children and the pipe
    ShellProps      its properties                     <- MCShell    (TLC)
      ShellProofs   theorems                                         (TLAPS)
CommandLines        abstract specification, implemented by Shell

ListHead            list_head.h: its functions on circular lists
  Lists             any program that uses them, loops included
    ListProps       its properties                     <- MCLists    (TLC)
      ListProofs    theorems                                         (TLAPS)
HashLists           the hlists of list_head.h, and any use of them;
                    extends ListHead                   <- MCLists    (TLC)
  HashProofs        theorems                                         (TLAPS)

ListLemmas          sequences, least elements, induction over a number: used
                    by all the proof modules
```

Sections 2.1 to 2.5 describe the families.  The simulators use lists as
sequences; that the functions of `list_head.h` make sequences of their pointers,
as long as no node is put on two lists, is what section 2.4 is about.

Definitions named `X_Y` (`Switch_NotDetached`) are mutations of `X`: the same
code with one mistake.  No specification uses them.  They document, for each
property, a mistake that it notices.

### 2.1 The scheduling simulator: state

| code | model |
|---|---|
| `struct process *` | the position of the process in the script, `1..N`; `NULL` is 0. Pids are only printed. |
| `__forkqueue`, `readyqueue`, `resources[r].waitqueue` | sequences `forkqueue`, `readyqueue`, `waitqueue[r]` |
| `resources[r].owner` | `owner[r]` |
| `p->status`, `age`, `prio` | `status[p]`, `age[p]`, `prio[p]` |
| `p->lifespan`, `prio_orig`, `__starts_at` | `script[p]`, fixed by the script |
| `p->__resources_to_acquire`, `__resources_holding` | `to_acquire[p]`, `holding[p]`: sequences of `[res, at, duration]` |
| `current`, `prev`, `ticks` | the same names |
| the place in the body of `__do_simulation` | `pc` |
| the scheduler option of `main`, the script file | `sched`, `script`, chosen in `Init` |

### Its actions

`Simulator` takes one tick of `__do_simulation` in these steps, in this order:

| action | code |
|---|---|
| `ForkOnSchedule`, `ForkDone` | `__fork_on_schedule`, one step per process |
| `Schedule` | `prev = current; current = sched->schedule()` |
| `Retire` | RUNNING back to READY, `__exit_process` with its three assertions |
| `Dispatch` | run the chosen process, idle, or quit |
| `Acquire` | `__run_current_acquire`, one step per entry due at this age |
| `Run` | the tick of progress, and charging it to every held resource |
| `Release` | `__run_current_release`, one step per used-up entry |
| `Tick` | the end of the loop body |

The policies are operators over the same variables, one for each callback.
Each scan of a queue ("keep the first of the best") is a condition on the index
it ends at.  `acquire()` returns true exactly when the resource had no owner,
so `Acquire` splits its two outcomes on that.

The assertions of the code are kept.  Those of `__exit_process` have an outcome
of their own (`pc = "abort"`), because scripts reach them.  Those of `Dispatch`
and of the `release()` callbacks are guards without an alternative: were one to
fail, TLC would report a deadlock.  Durations are unsigned: `Charge` wraps
modulo `UINT_MOD`.

The simulation is sequential, and deterministic once script and scheduler are
chosen; what the runs explore is every script of a family under every scheduler
of the run.  The interleavings that matter here are those of the *simulated*
processes, and the script and the policy choose them.

**Where the model stops.**  RR and STCF put a blocked process into the ready
queue.  Its node is then linked into two circular lists and neither is a list
any longer.  The model recognises the moment (`LinkedTwice`) and halts in
`pc = "corrupt"`.  The program does not end there.  What it does depends on the
pointers of nodes that are on no list and is not modelled; built and run, it
goes on to a normal end with some scripts (under STCF), fails the assertion on the
woken process (`pa2.c:111`) with others, and loops for ever under RR when two
processes take two resources in opposite orders.  So `Halts`, where the model takes no more steps, is not `Ends`,
where the program has ended, and every property and theorem about how simulations
end leaves the relinking ones aside.

### 2.2 The virtual-memory simulator

| code | model |
|---|---|
| `struct process *` | `1..MaxProcs` in the order of creation; 1 is `init` |
| `p->pid` | `pid[p]`; two processes may have the same |
| `outer_ptes[i] != NULL` | `i \in directories[p]` |
| `struct pte` | `pagetable[p][vpn]`, with `valid`, `rw`, `pfn`, `private` |
| `processes`, `current`, `ptbr`, `mapcounts[]` | the same names; `mapcounts` wraps modulo `UINT_MOD` |
| `tlb[]` up to the first invalid entry | the sequence `tlb` |
| `print_tlb_result` (option `-t`) | `use_tlb` |
| what is printed after an access | `reply` |
| a command of the user | `command`, any element of `Commands` |

A command is a sequence of steps, named by `pc`: `Translate` is `__translate`
with the branch its caller takes on the result (`__access_memory`,
`__alloc_page`, `__free_page`), `Fault` is `handle_page_fault` with the retry
decision of `__access_memory`, `AllocPage` and `FreePage`/`SearchTlb` are
`alloc_page` and `free_page`, and `switch_process` is `SwitchTo` or
`StartFork`, `ForkPage`, `ForkDone`.  The program is one thread; the steps are
separate because a command may end in each of them, or never.

Four outcomes end a behaviour of the model. `exit` is the loop left by `exit`, the
end of the input, or a failed `alloc`. `abort` is the assertion of `__access_memory`
about page numbers beyond the page table, and `crash` the null directory of a write
to an address range that was never allocated. `corrupt` is the list head taken for a
process in `switch_process`, or memory behind `outer_ptes` for a directory, when
`alloc` or `free` name such a page number (`CommandBeyond`): the program goes on, and
nothing is modelled of that. Lines of more than three words, which fail an assertion
in the command loop, are left out.

Two facts about the program as it is built enter the model: what follows `tlb[]` in memory is
`print_tlb_result`, so overflowing the TLB turns it off (`insert_tlb`); and the
word read as the pid of the list head is a part of `init`'s page table, 0 while
its third directory is missing (`TakeListHead`, left open). Fresh memory is zero:
the program never frees any.

**Discipline.**  The simulator is not right for every sequence of commands.
`MayAsk` names six rules a careful user keeps to: pages are named that are in the
page table; writes go to mapped pages; a write that needs a copy has a frame for it;
one writes with `write`, not with `access v w`; a page that has the first entry of
the TLB is not freed while it has another; one does not switch to the running process.
`Discipline` is the set of rules in force.  The passing runs say what holds with
all of them and what holds with none; the counterexamples below give up one rule
each, which shows that it is needed; without the first, `abort` and `corrupt` are
reached at once.

### 2.3 The shell

| code | model |
|---|---|
| the place of the shell in `main` and `run_command` | `pc`: `prompt`, `run`, `fork`, `fork2`, `wait2`, `waitany`, `wait`, `exited`, `smashed` |
| the tokens of the line | `line`, a sequence of words |
| `pp_keys`, `pp_vals`, `v_wordCnt`, `idx` | `aliases`, a sequence of `[key, vals]` |
| the working directory | `cwd` |
| what has become of a child | `state[c]`: `none`, `forked`, `expanding`, `running`, `zombie`, `reaped` |
| a child's copy of the token array, `nr_tokens`, `i` | `command[c]`: `tokens` (a function from slots), `base`, `nr`, `i` |
| the arguments of `execvp` | `argv[c]` |
| open ends of the pipe of each process | `ends[p]`, a subset of `{"r", "w"}` |
| the pipe (kernel) | `sent`, `got`: how many units were written and read |

`run_command` forks at most two children.  `first` is the one it forks first: it
runs the whole line, or what is to the right of `|`.  `second` runs what is to the
left.  A line that names a built-in command is `Exit`, `ChangeDirectory`,
`ListAliases` or `DefineAlias`; other lines are `RunProgram` or `OpenPipe`, then
`Fork`, `Fork2`, `Wait2`, `Wait`.  `ForkFails` and `Fork2Fails` are `fork()`
returning -1, which the code looks for in the wrong way (`pid < -1`) or not at all:
in the first case the line is dropped with both ends of the pipe open, in the second
`waitpid(-1)` takes any child (`waitany`).  A child is `Redirect` (dup2 and close),
then `Expand` or `Keep` for each token, then `Exec`; after that the program it runs
takes the steps `Write`, `Read` and `ProgramExits`.  The programs and the kernel's
pipe are external: a program writes a fixed amount and does or does not read its
input to the end; a writer waits while the pipe is full, a reader while it is
empty and somebody has the end for writing open.

The token array is kept as the code keeps it, because moving it in place is what
can go wrong: `SpacedBack` moves what is behind the alias, `Replaced` writes the
words into the gap, and `Argv` is what `execvp` finds up to the first `NULL`.  For
an alias without words the loop frees a token that it has copied to all slots
behind it: `FREED` stands for a pointer to it.  `smashed` is a write behind
`v_wordCnt` or the token array of the shell; a child that overruns its array dies.

`MayType` names the rules a careful user keeps to: `drained` (what is before a
pipe writes no more than the pipe holds, or what is behind reads it all), `words`
(no alias without words), `room` (the expanded line fits the token array),
`counts` (no more aliases than `v_wordCnt` has entries).  The fifth rule, `forks`,
is the system's: `fork()` does not fail.  As in 2.2, `Discipline` is the set of
rules in force.

Signals other than SIGPIPE, the terminal and what is printed are left out.

### 2.4 The lists

`ListHead` has one operator per function of `list_head.h`: it maps a memory `m`,
the `next` and `prev` of every node, to the memory after the call, one `EXCEPT`
per assignment, in the order of the code.  The three copies of the file are
identical; `PROJECT.json` refers to the one of `os-pa2`.  `container_of` is left out:
a node stands for what it is embedded in.

`Lists` is any program that uses them.  Beside `mem` it has the history variable
`lists`: for each head the sequence of nodes that the comments of the functions
promise.  The guards of its actions are what those comments ask for and no more:
a node that is added is not on a list (else something is lost), a list is not
spliced into itself, a head that was emptied by `list_splice` is initialised before
it is used again.  Nodes that were never initialised, or were deleted, have
pointers that mean nothing.

`loop` is a `list_for_each...` loop under way; every call may be made in its body.
`InBody` is what the comments allow there: the head stays what it is, and so does
the cursor, or, in the `safe` variants, the node that was read ahead (the cursor
may go, which is what these variants are for).  In the forward `safe` ones the node
read ahead may go as well, if the cursor stays and `list_safe_reset_next` follows.
That macro reads the *next* entry whatever the loop, and is meant for
`list_for_each_entry_safe` only; the reverse `safe` loops cannot repair a stale `n`.  All variants of the loops are instances of
`ForEach` and `ForEachFrom` (forwards or backwards, safe or not, from the head or
from a node).

`HashLists` is the same for hlists: `hmem` is the memory, `hashed` the history,
`unhashed` the nodes initialised and on no list, `fake` those after
`hlist_add_fake`.  `pprev` points to a cell, which is a head's `first` or a node's
`next`.  The loops over hlists, which no program here uses, are left out.

### 2.5 The loader

`Loader!Load` reads a script file line by line, as `__load_script` does.  A line is
the sequence of its words, cut at the first that begins with `#`.  The outcome is
`loaded`, or the first of: `abort` (an assertion about the number of words or an
`end` without a process), `crash` (a property outside of any block is written
through the null pointer), `failed` (an unknown property).  What it should be is
said without reading the file in order: `LoadsAsDescribed` finds the blocks, the
last value given for each property and the first faulty line, and the run `uses`
compares them for the file of every script, and with a line too many in it.

## 3. Runs

| run | instance | what it shows |
|---|---|---|
| `nested` | uses of two resources that overlap, in both orders, a resource asked for while held; all schedulers | `OnePlace`, `OwnerHolds`, `NoLostWakeup`; `StuckOnlyByDeadlock`: whoever is left at the end waits for a blocked owner; `GrantToHighest`: no pending request of a process with a higher priority of its own is passed over; `ImplementsTaskSystem` |
| `uses` | one resource at a time with staggered arrivals; malformed scripts (lifespan 0, duration 0, uses that end too late); all schedulers | `TypeOK`; `ScriptsLoad`: the simulation starts with what the file describes; `NeverBlocks`: under FIFO, SJF and PCP nobody waits for a resource; `PipInherits`: PIP gives exactly the inherited priority; `HighestRuns`; `EveryoneExits`; `ExitIffWellFormed`: the assertions of `__exit_process` fire exactly for malformed scripts; `Termination`: every simulation ends, except that nothing is said of one in which RR or STCF has relinked a process that waits |
| `plain` | 4 processes without resources, lifespans up to `MAX_TC - 1`; all schedulers | `FifoExitOrder`, `SjfShortestAtDispatch`, `StcfLeastRemaining` (and preemption only for less), `FairShare` of RR and of equal priorities, `AgingBoundsWait`, `IdleOnlyWhenNothingReady` |
| `vm_careful` | all rules, 3 processes, 2 frames, 2 pages in two directories, TLB on or off | `ImplementsAddressSpaces`; `WriteHitsAgree`: a cached right to write is never stale; `MapcountsCount`: reference counts equal mappings; `SharedIsReadOnly`: shared frames are writable for nobody |
| `vm_careless` | no rules (pages beyond the table too), 3 processes, 2 frames, 1 page, no TLB | `TypeOK`, wrapped counts included; `EveryProcessOnce`; `ReadOnlyStays`; `CommandsEnd`, as long as the program stays within its data structures |
| `shell` | all rules, 21 lines, 3 programs | `ImplementsCommandLines`; `PipesClosed`; `PromptReturns`: every line ends |
| `shell_careless` | no rules, the same lines, failing forks | `TypeOK`; `PromptAfterExit`: the prompt never overtakes a child; `AllCarried`: the end of the input never comes too early; `AliasesInOrder` |
| `lists` | 5 nodes, 2 heads of hlists, any calls | `WellLinked`, `QueriesAgree`; `VisitsAll`, `VisitsOnce`: a loop visits each node that stays, once; `WellHashed`: the same as the first two for hlists |

**Bounds of the scheduling runs**: 2 resources, 3 processes (4 where no resources
are used), lifespans up to 3, priorities 0 to 2.  Two processes are enough to
compete for a resource and for two to deadlock over two resources; the third is the
bystander that overtakes, inherits, starves or is woken second.  A third resource
or a longer life adds lengthier versions of the same situations.  `MAX_PRIO` has
its value from the code, and so has `MAX_TC`, except in `plain`, where it is 4: there
the lifespans, up to 3, come as near to STCF's infinity as is right
(`LongScripts` below goes one further).  `UINT_MOD` is 2^16 in place of 2^32:
no run gets near it except by wrapping below zero.  The scripts of `nested` and
`plain` are well formed.

**Bounds of the memory runs**: directories have 2 entries and there are 2 of
them, so the TLB has 4 slots.  Two pages suffice for one to be found behind the
other in the TLB; three processes for a frame to be shared by a parent, a child
and a grandchild; with as many frames as pages a copy meets full memory.
`MaxProcs` bounds forks: at the bound only switches to existing processes are
asked for.  In `vm_careful` new processes get their pids in order (the constraint
`PidsInOrder`), because a renamed pid makes no difference there.

**Bounds of the shell runs**: the pipe holds 1 unit, `src` writes 2, `echo` and
`cat` 1, and `cat` reads its input: so a writer fills the pipe, or just does not.
The token array has 8 slots (`MAX_NR_TOKENS`) and `v_wordCnt` 2 (`NR_WORDCNT`), small
enough for the lines to overrun both.  The lines have aliases of none, one and
several words, one that contains itself and two that contain each other, several
in one line and on both sides of a pipe; empty sides of a pipe; a program that is
not there.  `shell_careless` switches deadlock checking off: a writer that nobody
reads from is a real end there (see `pipe_hang`).

**Bounds of the lists run**: with 5 nodes there are two heads with three nodes, or
three heads with two: lists of none, one and several nodes, cut, spliced and
replaced at their beginning, middle and end.  Nodes are alike, and so are heads of
hlists, so they are symmetric.  The proofs of section 4 remove the bound.

### Disagreements between the code and what is said about it

Each of these has a run that TLC ends with a counterexample.

| run | statement | what happens |
|---|---|---|
| `rr_relinks_blocked` | `sched.h:81`: a blocked current must not go back into the ready queue | `rr_schedule` (and `stcf_schedule`) put it back |
| `pip_nested` | `os-pa2/README.md:76` and `:78`: the priority is set properly when a process that holds several resources others wait for releases one | `pip_release` (`pa2.c:532`) goes back to `prio_orig`: what was inherited through the other is lost |
| `vm_tlb_stale` | `pa3.c:89`, `os-pa3/README.md:48`: an entry is updated, the TLB agrees with the page table | a second entry is added, reads hit the old one |
| `pipe_hang` | `os-pa1/README.md:160`: the shell is sane after a pipe | the second child and the shell keep the end for reading open, so a writer into a full pipe whose reader is gone waits for ever, and the shell for it |

The scripts of `pip_nested` have a high process wait for a resource of a low one that
holds two, one of them for longer, and nobody who waits holds anything; so the
counterexample is the release.  Where the one who is waited for waits itself, PIP
does not pass the priority on either (`pip_acquire` raises the direct owner only,
`pa2.c:515`); `os-pa2/README.md` does not say that it should.

The following were found in the same way.  The property is in the module; the
last column says which configuration shows it, starting from an existing one: with
the rule named `NotX` given up, or with other constants.  Those of `shell` switch
deadlock checking off.

| property | statement | what happens | configuration |
|---|---|---|---|
| `EarlierOfEqualsFirst` | `os-pa2/README.md:60`: of equal priorities the earlier request is served | a process that never waited takes the resource before the woken one runs | `nested` |
| `GrantToHighestInherited` | `os-pa2/README.md:60`: the resource goes to the process with the highest priority | under PIP a process inherits a higher priority while it waits for a resource for which another was already woken | `nested`, `N = 4`, `OvertakenScripts`, `Inheritance` |
| `AgingStaysBelowCeiling` | `os-pa2/README.md:72`: boosted up to `MAX_PRIO` | aging has no cap | `plain`, `N = 3`, `CeilingScripts`, `Aging` |
| `QuitsWithNothingPending` | `sched.c:353`: quits if no pending process exists | deadlocked processes are still pending | `nested` |
| `NeverOutlives` | `process.h:35`: exits when `age == lifespan` | a process of lifespan 0 reaches age 1 and vanishes | `uses` |
| `IdleOnlyWhenNothingReady` | `sched.c:351`: idles when no process is ready | a process with `MAX_TC` (10^8) ticks left is never picked | `plain`, `N = 2`, `LongScripts`, `Stcf` |
| `AbsentIsDenied` | `os-pa3/README.md:33`: accesses to a freed page are denied | a write to it is handled as a copy-on-write of frame 0; with the TLB, the page's second entry survives the free | `vm_careless`, `NotMapped`; `vm_tlb_stale`, `NotFree` |
| `FaultsReturn` | `pa3.c:216-226`: "page directory is invalid" is a case, `@false` otherwise | the handler reads through the null directory | `vm_careless`, `NotMapped` |
| `WritesGranted` | `vm.c:314`: `write` is `access w` | `access v w` is denied where `write v` copies | `vm_careless`, `NotWrite` |
| `CommandsEnd` | `pa3.c:207`: works for any position in the TLB | the search never leaves the first entry | `vm_tlb_stale`, `NotFree` |
| `MapcountsCount` | `os-pa3/README.md:29`: `mapcounts` is the number of mappings | a copy that finds no frame has already given its reference back | `vm_careful`, 1 frame, 2 processes, `NotFrames` |
| `TlbHasRoom` | `pa3.c:91`: the TLB is big enough | two entries per page fill it | `vm_tlb_stale`, pages 0 and 1 |
| `SwitchesToListed` | `os-pa3/README.md:70`: the target is found in the list | the head of the list is taken for it | `vm_careless`, `NotOthers` |
| `UniquePids` | `vm.c:305`: forks if there is no process with the pid | the running process is not looked at | `vm_careless`, `NotOthers` |
| `NeverSmashed` | `os-pa1/README.md:123`: an unlimited number of aliases | the count of the 34th is written behind `v_wordCnt` | `shell`, `NotCounts` |
| `NoLineDropped` | `os-pa1/README.md:45`: a message if a command cannot be executed | if `fork()` fails nothing happens at all | `shell`, `NotForks` |
| `PipesClosed` | the same line | both ends of the pipe stay open | `shell`, `NotForks` |
| `ImplementsCommandLines` | `os-pa1/README.md`, aliases are replaced | an alias without words, or a line that outgrows the token array, is not executed as typed | `shell`, `NotWords`; `NotRoom` |

### Fairness

The `Spec` of `Simulator` (and `GSpec` of `GrantOrder`) has `WF_vars(Next)` and nothing else.  The program is one thread that
runs until it ends: it takes its next step as long as there is one.  No fairness
among simulated processes is assumed; starvation and its absence follow from the
policies.  `Termination` is the one liveness property.  Under
`fifo`, `sjf`, `prio`, `pa`, `pcp` and `pip` every simulation of the family comes to
its end: the loop quits when nothing is ready, deadlocked processes or not.  Under
`rr` and `stcf` the property has a hypothesis, that nobody who waits is ever put into
the ready queue; without it the program really can loop for ever (section 2.1).  `AgingBoundsWait` and `FairShare` are
bounded versions of liveness, stated as invariants.

The `Spec` of `VirtualMemory` has `WF_vars(Step)`: the program takes its next
step, while the user need not type a command.  `CommandsEnd` says that the loops
of a command come to an end: the retried translation, the duplication of the
page table.  It, too, says nothing of a program that has become `corrupt`.  The spinning search of `free_page` is a step that changes nothing,
so no fairness helps it.

The `Spec` of `Shell` has `WF_vars(ShellStep)` and `WF_vars(ChildStep(c))` for each
child: they are processes, and the operating system gives each its turn.  Reading
a line and the end of the input are not among these steps: users type when they
like.  `PromptReturns` rests on it.  `Lists` and `HashLists` have no fairness: they
are about what calls do, and no call need ever be made.

### The abstract specifications

`TaskSystem` says what playing a script means whoever schedules: at most one
process advances per tick; it advances only while it has every resource its
script gives to that tick of its life; a resource has one owner, for exactly the
ticks scripted; a process exits after its lifespan with nothing in hand.  It has
no queues, priorities or blocked processes.  Under the mapping in
`Simulator!Tasks` every action of the simulator is one of its steps or a stutter
(forking, scheduling, retiring without exit, dispatching and being refused are
stutters).  It is checked in `nested`, whose scripts are well formed; with a
malformed one the program keeps resources for ever.

`AddressSpaces` is what the user of the virtual-memory simulator may rely on:
each process has pages with a right (read, or read and write), a fork copies
them, and an access is granted exactly if the right allows it.  There are no
frames, faults, shared pages or TLB in it.  `MemoryProps!Spaces` maps the
concrete state: the right is in `private` (the `rw` of a page that was downgraded
by a fork is not it), a child exists once its page table is complete.

`CommandLines` is what the user of the shell may rely on, without processes, pipes
or token arrays: a line is one command or two, each word that is an alias is
replaced once, every command is tried with exactly these words, runs if there is
such a program and ends, and the next line is read when all have ended.
`ShellProps!Commanded` maps the shell to it: until a child has called `execvp` its
command is what substitution makes of its side of the line, from then on it is the
`argv` that it really passed; so the step `Exec` implements `Start` or `Refuse` only
if the in-place expansion equals substitution.

## 4. Theorems

All of them hold for every value of the constants, under the named `ASSUME`s of
the modules (constants have their types) and under the hypotheses that a theorem
states.  The hypotheses are these, and the code or its documents justify them:

| hypothesis | says | because |
|---|---|---|
| `ShortLives` | lifespans are below `MAX_TC` where `stcf` is one of the schedulers | `stcf_schedule` takes `MAX_TC` for infinity; with a longer lifespan a process that has exited stays on the CPU |
| `Fitting` | lifespans and durations are below `UINT_MOD` | they are unsigned ints (`process.h`, `resource.h`) |
| `WellFormedScripts` | what `os-pa2/README.md` asks of a script | malformed ones run into assertions (`ExitIffWellFormed`) |
| `BelowCeiling` | priorities are at most `MAX_PRIO` where `pcp` is one of the schedulers | `process.h:64`: the maximum |
| `OneResource` | the uses of a process do not overlap | `pip_release` lowers to `prio_orig` (see `pip_nested`) |
| `Careful`, `Strict`, `Keeping` | rules of `MayAsk` and `MayType` | the simulator and the shell are right for these users only |

The strengthenings named below were checked with TLC as invariants of the runs
before they were proved.

### The scheduling framework

`SimulatorProofs`, for every `N`, every set of resources, every script (malformed
ones included) and all eight schedulers:

* `TypeCorrect`: `Spec => []TypeOK`.  Inductive together with `AtWork`: while a
  process acquires, runs or releases it is on the CPU, `RUNNING` and in no wait
  queue.  Without that `Acquire` could append `NULL` to a wait queue.
* `OwnershipAgrees`: `Spec => []OwnerHolds`.  Owner pointers and the lists of
  holders agree, nobody holds a resource twice, nobody exits as an owner.  The
  last part rests on the assertion of `__exit_process` about held resources.
* `NoWakeupLost`: `Spec => []NoLostWakeup`.  The strengthening is
  `WaitersRequest`: whoever waits for `r` still has `r` as its next request.  So
  the process that `release()` wakes will ask again (it is the witness the
  property needs), and no step takes that witness away: only the running process
  changes its list or age, it cannot run past an entry that is due, and it exits
  only with nothing left to acquire.

`AcquireOutcome`, `ReleaseOutcome` and `ScheduleOutcome` reduce the schedulers'
callbacks to the cases the framework sees.

`TaskProofs` begins with one that needs no hypothesis:

* `NeverIdlesInVain`: `Spec => [](IdleOnlyWhenNothingReady \/ OnlyEndlessReady)`.  The
  CPU idles with somebody ready in one case only: under `stcf`, when everybody who
  is ready has `MAX_TC` ticks or more left, as in the row of `LongScripts` in
  section 3.

The next are under `ShortLives` and, but for the first, `Fitting`:

* `ListedOnce`: `Spec => []OnePlace`.  The invariant is `PlaceInv`: the parts of
  `OnePlace` (each queue without repetitions, `Once`; queues that share no process,
  `Apart`; the status that goes with each, `StatusSays`, `OnTheCpu`), and what
  happens to the process between two queues: `CurrentDetached`, `CurrentRan` and
  `PrevRan`, which says that after `schedule()` the process of the last tick is back
  in the ready queue exactly if it has ticks left.  It is the invariant with which
  retiring a process late, after the next was chosen, is right.
* `ExitsIffWellFormed`: `Spec => []ExitIffWellFormed`.  `Played` relates a process's
  lists at every age to its script: what is still to be acquired, what it holds and
  for how long, wrapped durations of 0 included.  `LifeInv` bounds its age.
* `StuckInDeadlock`: `Spec => []StuckOnlyByDeadlock`, for `WellFormedScripts`.  It
  puts together nearly everything above: a process that is left is blocked, its
  resource has an owner since otherwise someone was about to ask for it, and the
  owner has not exited and is in no other list.
* `PlaysTheScript`: `Spec => ImplementsTaskSystem`, for `WellFormedScripts`: each of
  the simulator's steps is one of `TaskSystem` or a stutter.

Two more need `ShortLives` only, and hold for malformed scripts too:

* `SimulationsComeToAnEnd`: every step before the end lowers `Ahead`, and the model
  halts elsewhere only under `rr` and `stcf` (`pc = "corrupt" => sched \in Relinking`).
  So under the other six schedulers no script keeps the loop busy for ever; under
  these two nothing is said of what comes after a relinking.  `Ahead` is a
  sequence of `2 + 6 N` natural numbers in their lexicographic order: whether the
  simulation is still playing; for each process the ticks it has to live, what it has
  to acquire, what to release, whether it is still to be forked or to be refused a
  resource, and the ticks before its start; and the phases left of the tick.
  `ListLemmas` proves the order well-founded (`LexWellFounded`), so there are finitely
  many such steps.  `ForkedInTime` is what a tick on an idle CPU needs: from the
  end of the forks to the next tick nobody is due, so an idle tick brings the next
  start nearer.
* `SimulationGoesOn`: `Spec => []GoesOn`, a step can be taken until the simulation has
  ended, or until the model halts because `rr` or `stcf` has just put the process of
  the last tick into the ready queue although it waits (`Relinked`, and no other
  case).  Up to there the guards that model the code's assertions
  (`__do_simulation`, the `release()` callbacks) do not fail, and each traversal of a
  queue finds the process it looks for (`ScanFindsHighest`, `ScanFindsShortest`).
  After it they can: the finding `rr_relinks_blocked`.

### The policies

`PolicyProofs` proves what each policy promises, for any number of processes and
under `ShortLives`:

| theorem | property | strengthening, and further hypotheses |
|---|---|---|
| `FirstInFirstOut` | `FifoExitOrder` | `FifoLine`: the ready queue is in the order of creation, behind the process on the CPU; `ForkOrder`; `Fitting` |
| `ShortestJobFirst` | `SjfShortestAtDispatch` | `ShortestJob`, about the moment the running process got the CPU; `Fitting` |
| `ShortestFirst` | `StcfLeastRemaining` | `ShortestRuns` |
| `SharesAreFair` | `FairShare` | `FairLine`: of two processes that came together the one behind is never ahead, and at most one tick behind |
| `HighestPriorityRuns` | `HighestRuns` | `HighestStays`, `Ceiling`; `BelowCeiling` in place of `ShortLives` |
| `AgingIsBounded` | `AgingBoundsWait` | `Aged`: at most `N - k` processes are `k` or more units past the highest priority of the script.  Each scheduling moment adds one unit to all that are ready and takes one that was furthest back to its own; the bound on the wait follows from counting |
| `NobodyWaits` | `NeverBlocks` | `HoldersRun`: under `fifo` and `sjf`, and at the ceiling of `pcp` (`Boosted`), the holder of a resource is the one on the CPU; `Fitting` |
| `PrioritiesInherited` | `PipInherits` | `Inherits` and `HighestWoken`: a free resource that is waited for is about to be asked for by a process at least as high as all that wait, so the next owner needs no raise; `Fitting`, `WellFormedScripts`, `OneResource` |
| `GrantsToTheHighest` | `GrantToHighest` | `KeepsOwn`, `TopWoken` and `PendingAsked`: whoever has been refused still waits, or is about to ask; `Fitting`.  Uses may overlap, and scripts may be malformed |
| `NobodyIsStuck` | `EveryoneExits` | the invariant of `StuckInDeadlock`; without overlap a waiter owns nothing; `Fitting` |

The first attempt to prove `GrantToHighest` compared the priorities that processes
have at the moment, inherited ones included.  That is not inductive, and with four
processes not true (`GrantToHighestInherited`, section 3); with three it cannot
be seen.  What the theorem says now of the waiting processes is about their own
priorities.

### Virtual memory

`VirtualMemoryProofs`, for every number of frames, pages and processes, with the TLB
and without.  The first three are for every `Discipline` - so for the user who
keeps to no rule, too:

* `TypeCorrect`: `Spec => []TypeOK`.  Inductive together with `InHand`, which says
  what command each place of the program has in hand, that a translation is tried
  only while `retries < 2`, that the TLB is searched only if it has a first entry,
  and that the child of a fork is the last process and not the running one.
* `ReadOnlyPages`: `Spec => ReadOnlyStays`.  `RightsAgree` says that a page whose
  `private` is `ACCESS_READ` has no right to write in its `rw`; fork keeps that
  because it saves `rw` in `private` only when it is `ACCESS_WRITE`.  The step
  that could break the property is `alloc` over a page that is already there; that
  the MMU finds every valid page needs `Tables`: `ptbr` is the running process's,
  and a valid page lies below a directory that exists.  While a fork is under way
  the child has pages and no directories yet, so `Tables` says there that its
  pages are the parent's.
* `NobodyLost`: `Spec => []EveryProcessOnce`.  `Listed` adds that no process is in
  the list twice and says what holds during a fork, when the list is short of both
  the parent and the child.

Three more are for the user who keeps to three of the six rules (`Careful`:
`mapped`, `frames` and `free`):

* `MapcountsAreMappings`: `Spec => []MapcountsCount`,
* `CopyOnWriteIsSafe`: `Spec => []SharedIsReadOnly`,
* `WritesAreSafe`: `Spec => []WriteHitsAgree`.

Their invariant is `CarefulInv`.  `Consistent` says that the count of each frame is
the cardinality of the set of page table entries that map it (not a count kept
beside it), that a frame serves one page number only, and that a shared one is
writable for nobody; each handler adds entries to that set or takes some away.
`Served` carries what the rules grant from the prompt to the step that needs it,
and `TlbFits` says how far the TLB may differ from the page table while `free_page`
searches and while a fork is under way.

* `CommandsComeToAnEnd`, for every user again: each step that changes anything
  between a command and its end lowers `ToGo` - at most two translations and two
  faults, and in a fork one page less to share - and until the end there is such a
  step, except when `free_page` searches the TLB and the first entry is another
  page's (`SearchesForEver`), or the program is `corrupt`.  The search is the only
  way in which a command that stays within the data structures can fail to end;
  `WithoutTlbNobodySearches` rules it out where the TLB is not in use.
* `SpacesAreKept`: `Spec => ImplementsAddressSpaces`, for the user who keeps to all
  six rules (`Strict`).  `Conforms` says what the earlier steps of a command have
  found out: that a second translation succeeds, that a fault that reads is one of a
  missing page, and how far the pages of the child are those of its parent.

### The shell

`ShellProofs`, for any lines, programs, sizes of the pipe and of the arrays, and any
`Discipline` where none is named:

* `TypeCorrect`: `Spec => []TypeOK`.  `InArray` says where in the token array a
  child that expands aliases is, so that it reads no slot beyond it.
* `PromptWaits`: `Spec => []PromptAfterExit`.  Inductive as `Accounted`, which says
  for each place of the shell which children there can be, and which of them it
  has waited for: in particular that `waitpid(-1)` runs only when there is no
  second child, so that the child it takes is the first, and that the `waitpid`
  after it, which fails, does not leave one behind.
* `AllIsCarried`: `Spec => []AllCarried`.  Inductive with `WriteEnds`: while the
  second child lives it has the end for writing open, so the first cannot see the
  end of its input before it is over.
* `NoPipeStaysOpen`: `Spec => []PipesClosed` if `"forks" \in Discipline`.
  `NothingOpen` says for each place which ends the shell has open.
* `AliasesKeepTheirOrder`: `Spec => AliasesInOrder`.  `OneEach` says that no two
  entries have the same key; without it overwriting the first of them would not be
  overwriting all.
* `LinesAreCarriedOut`: `Spec => ImplementsCommandLines`, for the user who keeps to
  the rules `words`, `room` and `counts`, if `fork()` does not fail (`Keeping`);
  `drained`, which the liveness of the run `shell` needs, is not asked for.  The
  core is `Expanded`: after `m` words the array of the child holds what the first
  `m` become and behind it the words that are left, wherever the loop is in the
  array.  `Flattens` describes the expansion of a line without recursion, as the
  sequence of its prefixes' expansions.  The proof showed that `CommandLines` had to
  say what `cd ~` does; the run could not tell, because `cd` without an argument is
  one of its lines too and has the same effect.

* `LinesComeToAnEnd`: for every user, and whichever `fork()` fails, each step while a
  line is carried out lowers `Measure`, seven natural numbers in lexicographic order:
  how far the shell is, how far each child, what each has still to expand, what the
  writer has still to write, and what is in the pipe.  `Paced` says that a child that
  is no program yet has written nothing.  The loop of the in-place expansion is
  covered, also for an alias that grows its line into the end of the array.
* `NobodyHangs`: `Spec => []NeverStuck` for the user of `Keeping` whose pipes are
  `drained`: while a line is carried out the shell or one of its children can take a
  step, whoever waits for whom and however full the pipe is.  The invariant `Flowing`
  puts together who has which end open, who has still to be waited for, and
  `Supplied`: what one side waits for comes from the other, or that one is over.

### The lists

`ListProofs`, for any set of nodes and lists of any length:

* `ListsStayLinked`: `Spec => []WellLinked`.  The inductive invariant is
  `Sound(mem, lists)`: every list consists of different nodes other than its head
  (`Proper`), its pointers form a ring in both directions (`Ring`), and no two rings
  share a node.  The proof has three layers.  `SetsLinks...` says which pointers a
  function writes.  `RingOf...` says what adding, deleting, replacing, cutting and
  splicing then do to the ring they are called on, wherever in it that happens.
  `StaysSound` says that rings which share no node with what was written stay what
  they are.  `StepOf...` combines them for each call; loops change no pointer.
* `QuestionsAreAnswered`: `Spec => []QueriesAgree`, from the same invariant.
* `LoopsMissNothing`: `Spec => []VisitsAll`, and `LoopsRepeatNothing`:
  `Spec => VisitsOnce`.  What a loop still has to visit (`todo`) and has visited
  (`done`) says nothing of where these nodes are, so `LoopInv` does: `todo` is behind
  the cursor in the direction of the loop and `done` is not.  The cursor that counts
  is `pos` while the body has not moved it (`Stands`), and in the safe variants also
  the node read ahead while that was not moved (`Faces`); one of the two always
  holds, and they are different claims, for a body may insert between `pos` and `n`.
  `CallsKeepOrder` has the other half: every call leaves the nodes that it does not
  move on their list in their order (`KeepsOrder`), wherever it adds, cuts or
  splices.  `NextInLoop` and `Arrival` say that `next` or `prev` of the cursor is the
  first node of what is left, which is where `Sound` is used.  In the reverse `safe`
  loops `n` is never stale, since nothing would read it again the right way.

`HashProofs`, for hlists with any number of nodes and heads:

* `HashListsStayLinked`: `HashSpec => []WellHashed`.  The inductive invariant `HashInv`
  says that each list is a `Chain` of different nodes from its head to `NULL`, each of
  which points back at the cell that points at it, that no two lists share a node,
  and what `next` and `pprev` of the nodes are that are on no list: `NULL`, or the
  node's own cell after `hlist_add_fake`.  `...Puts` and `...Takes` say which cells
  and which `pprev` a function writes, `ChainInsert` and `ChainRemove` what that does
  to the chain, `OthersLinked` and `StrangersKept` what stays as it is elsewhere.

### What the proofs rest on, and what is only model-checked

`ListLemmas` has what the proof modules share: removing and appending, flattening,
the lexicographic order on sequences of numbers and that it is well-founded, and
induction over a number in the form of a least element of a set of numbers, since
the library's induction theorems take an operator as a parameter.

Only model-checked:

* `ScriptsLoad`, since `Loader` reads the file by recursion.
* `Termination`, `CommandsEnd` and `PromptReturns` as they are stated: they are
  liveness under fairness, which is out of the prover's reach, as is `ENABLED`.
  What they say apart from fairness is proved, in two parts each: a measure goes down
  with each step (`SimulationsComeToAnEnd`, `CommandsComeToAnEnd`,
  `LinesComeToAnEnd`), and until the end there is a step (`SimulationGoesOn`,
  `CommandsComeToAnEnd`, `NobodyHangs`).  The guards in the second part are read off
  the actions; for the simulator and the virtual memory TLC has confirmed that each
  agrees with `ENABLED` of its action (with the constants of `nested`, `uses` and
  `vm_careless`, the last one also with the TLB).  The step from the two parts to
  the property is left to the reader.
* The three properties have no theorem of their name for that reason, and these
  theorems no run: a run would check what the liveness property already checks.

## 5. Not modelled

* How the three parsers split characters into words, opening files, printing, the
  parsing of options: sequential handling of text whose results are the models'
  inputs.
* `toy.c`, a test helper without state.
* The loops over hlists, which no program uses, and `container_of`.
* Signals other than SIGPIPE and the terminal, in the shell; what programs do other
  than reading, writing and ending.
* What the simulators do after `"corrupt"` and `"crash"`, and the shell after
  `"smashed"`: it depends on the layout of memory.  For the scheduling simulator this
  includes simulations that never end (section 2.1).
* Command lines of more than three words in the memory simulator: an assertion
  fails.

What could be done next: the contents of frames beside `VirtualMemory`, so that
"what a process reads is what it last wrote" is checked as such.
