----------------------------- MODULE ShellProofs ----------------------------
(***************************************************************************)
(* For every set of lines, every set of programs, every size of the pipe   *)
(* and of the arrays, and whatever rules the user keeps: the state has its *)
(* types, the prompt waits for the children, a reader of a pipe gets all   *)
(* its input, and aliases keep their order.  On a system whose fork() does *)
(* not fail the shell keeps no pipe open; and if the user keeps to the     *)
(* rules about aliases too, every line is carried out as CommandLines      *)
(* says.  A line comes to an end: whatever is typed, only finitely many    *)
(* steps can follow before the prompt, and for the user who keeps all the  *)
(* rules there always is a next one.                                       *)
(***************************************************************************)
EXTENDS ShellProps, ListLemmas

States == {"none", "forked", "expanding", "running", "zombie", "reaped"}
Waits == {"fork2", "wait2", "waitany", "wait"}

-----------------------------------------------------------------------------
(* Which child the shell has still to wait for, by where it is.            *)
Accounted ==
  /\ state \in [Children -> States]
  /\ pc \notin Waits => state["first"] = "none" /\ state["second"] = "none"
  /\ pc \in {"fork2", "waitany"} => state["second"] = "none"
  /\ pc = "wait" => state["second"] \in {"none", "reaped"}

(* The steps of a child leave the shell alone, and move the child only     *)
(* between the states of a child that has been forked and not waited for.  *)
LEMMA ChildrenLive ==
  ASSUME state \in [Children -> States], NEW c \in Children, ChildStep(c)
  PROVE /\ UNCHANGED <<pc, line, aliases>>
        /\ state[c] \in {"forked", "expanding", "running"}
        /\ state'[c] \in {"expanding", "running", "zombie"}
        /\ state' = [state EXCEPT ![c] = state'[c]]
<1>1. CASE Redirect(c) \/ Exec(c) \/ ProgramExits(c)
  BY <1>1 DEF Redirect, Exec, ProgramExits, shellVars, States, Children
<1>2. CASE Keep(c) \/ Write(c) \/ Read(c)
  BY <1>2 DEF Keep, Write, Read, shellVars, States, Children
<1>3. CASE Expand(c)
  <2>1. /\ state[c] = "expanding" /\ UNCHANGED <<pc, line, aliases>>
        /\ state' = state \/ state' = [state EXCEPT ![c] = "zombie"]
    BY <1>3, Zenon DEF Expand, shellVars
  <2>2. QED
    BY <2>1 DEF States, Children
<1>4. QED
  BY <1>1, <1>2, <1>3 DEF ChildStep

LEMMA AccountedInductive ==
  /\ Init => Accounted
  /\ Accounted /\ [Next]_vars => Accounted'
<1>1. Init => Accounted
  BY DEF Init, Accounted, States, Waits, Children
<1>2. ASSUME Accounted, [Next]_vars PROVE Accounted'
  <2> USE <1>2 DEF Accounted, States, Waits, Children
  <2>1. CASE ReadLine
    <3>1. pc = "prompt" /\ pc' \in {"run", "smashed"} /\ state' = state
      BY <2>1 DEF ReadLine, childVars
    <3>2. QED
      BY <3>1
  <2>2. CASE EndOfInput \/ Exit \/ ChangeDirectory \/ ListAliases \/ OpenPipe \/ RunProgram
    BY <2>2 DEF EndOfInput, Exit, ChangeDirectory, ListAliases, OpenPipe, RunProgram,
                RunsBuiltIn, Return, childVars
  <2>3. CASE DefineAlias
    <3>1. pc = "run" /\ pc' \in {"prompt", "smashed"} /\ state' = state
      BY <2>3 DEF DefineAlias, RunsBuiltIn, Return, childVars
    <3>2. QED
      BY <3>1
  <2>4. CASE Fork
    <3>1. /\ pc = "fork" /\ pc' \in {"fork2", "wait"}
          /\ state' = [state EXCEPT !["first"] = "forked"]
      BY <2>4 DEF Fork, Born
    <3>2. QED
      BY <3>1
  <2>5. CASE ForkFails \/ Fork2Fails
    BY <2>5 DEF ForkFails, Fork2Fails, Return, childVars
  <2>6. CASE Fork2
    BY <2>6 DEF Fork2, Born
  <2>7. CASE Wait2
    BY <2>7 DEF Wait2
  <2>8. CASE Wait
    <3>1. /\ pc = "wait" /\ pc' = "prompt"
          /\ state' = [c \in Children |-> IF Gone(c) THEN "none" ELSE state[c]]
      BY <2>8 DEF Wait, ForgetGone, Return
    <3>2. state'["first"] = "none" /\ state'["second"] = "none"
      BY <3>1 DEF Gone
    <3>3. QED
      BY <3>1, <3>2
  <2>9. CASE \E c \in Children : ChildStep(c)
    <3>1. PICK c \in Children : ChildStep(c)
      BY <2>9
    <3>2. /\ pc' = pc
          /\ state[c] \in {"forked", "expanding", "running"}
          /\ state'[c] \in {"expanding", "running", "zombie"}
          /\ state' = [state EXCEPT ![c] = state'[c]]
      BY <3>1, ChildrenLive
    <3>3. QED
      BY <3>2
  <2>10. CASE Ended \/ UNCHANGED vars
    BY <2>10 DEF Ended, vars
  <2>11. QED
    BY <2>1, <2>2, <2>3, <2>4, <2>5, <2>6, <2>7, <2>8, <2>9, <2>10 DEF Next, ShellStep
<1>3. QED
  BY <1>1, <1>2

LEMMA AlwaysAccounted == Spec => []Accounted
  BY AccountedInductive, PTL DEF Spec

(* The shell prompts only when there is neither a running nor a zombie     *)
(* child, also after a fork() that failed and a waitpid(-1) that took the  *)
(* child it was not meant for.                                             *)
THEOREM PromptWaits == Spec => []PromptAfterExit
<1>1. Accounted => PromptAfterExit
  BY DEF Accounted, PromptAfterExit, Waits, Children
<1>2. QED
  BY <1>1, AlwaysAccounted, PTL

-----------------------------------------------------------------------------
(* Who has the write end of a pipe: the shell until it has forked the      *)
(* writer, and the writer as long as it lives.  A reader that has seen the *)
(* end of its input is the last to have been there.                        *)
ReaderDone ==
  state["first"] \in {"zombie", "reaped"} /\ HasPipe(line)
    /\ Runs(argv["first"]) /\ Program("first").reads

WriteEnds ==
  /\ ends = [p \in Processes |-> ends[p]]
  /\ sent \in Int /\ got \in Int
  /\ HasPipe(line) /\ pc \in {"fork", "fork2"} => "w" \in ends["shell"]
  /\ pc \in {"fork2", "wait2", "waitany"} => HasPipe(line)
  /\ Alive("second") => "w" \in ends["second"]
  /\ argv = [c \in Children |-> argv[c]]
  /\ state["first"] \in {"none", "forked", "expanding"} => argv["first"] = <<>>

Carried ==
  /\ Accounted
  /\ WriteEnds
  /\ ReaderDone => got = sent /\ ~Alive("second") /\ pc # "fork2"

LEMMA CarriedByShell ==
  ASSUME Carried, ReadLine \/ EndOfInput \/ ShellStep PROVE WriteEnds' /\ (ReaderDone' =>
                                          got' = sent' /\ ~Alive("second")' /\ pc' # "fork2")
<1> USE DEF Carried, Accounted, WriteEnds, ReaderDone, Alive, States, Waits, Children, Processes
<1>0. ~HasPipe(<<>>)
  BY DEF HasPipe
<1>1. CASE ReadLine
  <2>1. /\ pc = "prompt" /\ pc' \in {"run", "smashed"}
        /\ UNCHANGED <<state, argv, ends, sent, got>>
    BY <1>1 DEF ReadLine, childVars
  <2>2. QED
    BY <2>1
<1>2. CASE EndOfInput \/ Exit \/ ChangeDirectory \/ ListAliases \/ DefineAlias
  <2>1. /\ pc \in {"prompt", "run"} /\ pc' \in {"prompt", "exited", "smashed"}
        /\ UNCHANGED <<state, argv, ends, sent, got>>
    BY <1>2 DEF EndOfInput, Exit, ChangeDirectory, ListAliases, DefineAlias, RunsBuiltIn,
                Return, childVars
  <2>2. QED
    BY <2>1
<1>3. CASE OpenPipe
  <2>1. /\ pc = "run" /\ pc' = "fork" /\ sent' = 0 /\ got' = 0
        /\ ends' = [ends EXCEPT !["shell"] = {"r", "w"}]
        /\ UNCHANGED <<line, state, argv>>
    BY <1>3 DEF OpenPipe
  <2>2. ends' = [p \in Processes |-> ends'[p]] /\ "w" \in ends'["shell"]
    BY <2>1
  <2>3. state'["first"] = "none" /\ state'["second"] = "none" /\ argv'["first"] = <<>>
    BY <2>1
  <2>4. QED
    BY <2>1, <2>2, <2>3
<1>4. CASE RunProgram
  <2>1. /\ pc = "run" /\ pc' = "fork" /\ ~HasPipe(line)
        /\ UNCHANGED <<line, state, argv, ends, sent, got>>
    BY <1>4 DEF RunProgram, childVars
  <2>2. QED
    BY <2>1
<1>5. CASE Fork
  <2>1. /\ pc = "fork" /\ pc' = IF HasPipe(line) THEN "fork2" ELSE "wait"
        /\ state' = [state EXCEPT !["first"] = "forked"]
        /\ ends' = [ends EXCEPT !["first"] = ends["shell"]]
        /\ UNCHANGED <<line, argv, sent, got>>
    BY <1>5 DEF Fork, Born
  <2>2. QED
    BY <2>1
<1>6. CASE ForkFails
  <2>1. /\ pc = "fork" /\ pc' = "prompt" /\ line' = <<>>
        /\ UNCHANGED <<state, argv, ends, sent, got>>
    BY <1>6 DEF ForkFails, Return, childVars
  <2>2. QED
    BY <2>1, <1>0
<1>7. CASE Fork2
  <2>1. /\ pc = "fork2" /\ pc' = "wait2"
        /\ state' = [state EXCEPT !["second"] = "forked"]
        /\ ends' = [ends EXCEPT !["second"] = ends["shell"]]
        /\ UNCHANGED <<line, argv, sent, got>>
    BY <1>7 DEF Fork2, Born
  <2>2. ~ReaderDone /\ ~ReaderDone'
    BY <2>1 DEF Program
  <2>3. QED
    BY <2>1, <2>2
<1>8. CASE Fork2Fails
  BY <1>8 DEF Fork2Fails, childVars, Program
<1>9. CASE Wait2
  <2>1. /\ pc \in {"wait2", "waitany"} /\ pc' = "wait"
        /\ ends' = [ends EXCEPT !["shell"] = @ \ {"w"}]
        /\ UNCHANGED <<line, argv, sent, got>>
    BY <1>9 DEF Wait2
  <2>2. PICK c \in Children : /\ state[c] = "zombie"
                              /\ state' = [state EXCEPT ![c] = "reaped"]
    BY <1>9 DEF Wait2
  <2>3. Alive("second")' => Alive("second")
    BY <2>2
  <2>4. ReaderDone' => ReaderDone
    BY <2>1, <2>2 DEF Program
  <2>5. QED
    BY <2>1, <2>2, <2>3, <2>4
<1>10. CASE Wait
  <2>1. /\ pc = "wait" /\ pc' = "prompt" /\ sent' = 0 /\ got' = 0
        /\ state' = [c \in Children |-> IF Gone(c) THEN "none" ELSE state[c]]
        /\ argv' = [c \in Children |-> IF Gone(c) THEN <<>> ELSE argv[c]]
    BY <1>10 DEF Wait, ForgetGone, Return
  <2>2. ends' = [p \in Processes |-> ends'[p]]
    BY <1>10 DEF Wait
  <2>3. argv' = [c \in Children |-> argv'[c]] /\ argv'["first"] = <<>>
    BY <2>1 DEF Gone
  <2>4. state'["first"] = "none" /\ state'["second"] = "none"
    BY <2>1 DEF Gone
  <2>5. QED
    BY <2>1, <2>2, <2>3, <2>4
<1>11. QED
  BY <1>1, <1>2, <1>3, <1>4, <1>5, <1>6, <1>7, <1>8, <1>9, <1>10 DEF ShellStep

LEMMA CarriedByChildren ==
  ASSUME Carried, NEW c \in Children, ChildStep(c)
  PROVE WriteEnds' /\ (ReaderDone' => got' = sent' /\ ~Alive("second")' /\ pc' # "fork2")
<1> USE DEF Carried, WriteEnds, ReaderDone, Alive, Children, Processes
<1>0. /\ UNCHANGED <<pc, line>>
      /\ state[c] \in {"forked", "expanding", "running"}
      /\ state' = [state EXCEPT ![c] = state'[c]]
      /\ state = [d \in Children |-> state[d]]
  BY ChildrenLive DEF Accounted
<1>1. CASE Redirect(c)
  <2>1. /\ state'[c] = "expanding" /\ state[c] = "forked"
        /\ ends' = [ends EXCEPT ![c] = IF c = "first" /\ HasPipe(line) THEN @ \ {"w"} ELSE @]
        /\ UNCHANGED <<argv, sent, got>>
    BY <1>1, <1>0 DEF Redirect
  <2>2. ~ReaderDone' /\ argv'["first"] = argv["first"]
    BY <2>1, <1>0 DEF Program
  <2>3. ends' = [p \in Processes |-> ends'[p]]
    BY <2>1
  <2>4. QED
    BY <2>1, <2>2, <2>3, <1>0
<1>2. CASE Expand(c)
  <2>1. state[c] = "expanding" /\ UNCHANGED <<argv, sent, got>>
    BY <1>2 DEF Expand
  <2>2. \/ UNCHANGED <<state, ends>>
        \/ state'[c] = "zombie" /\ ends' = [ends EXCEPT ![c] = {}]
    BY <1>2, <1>0, Zenon DEF Expand
  <2>3. ends' = [p \in Processes |-> ends'[p]]
    BY <2>2
  <2>4. ~Runs(<<>>)
    BY DEF Runs
  <2>5. ~ReaderDone'
    BY <2>1, <2>2, <2>4, <1>0 DEF Program
  <2>6. QED
    BY <2>1, <2>2, <2>3, <2>5, <1>0
<1>3. CASE Keep(c)
  <2>1. state[c] = "expanding" /\ UNCHANGED <<state, argv, ends, sent, got>>
    BY <1>3 DEF Keep
  <2>2. QED
    BY <2>1, <1>0 DEF Program
<1>4. CASE Exec(c)
  <2>1. /\ state[c] = "expanding" /\ UNCHANGED <<sent, got>>
        /\ argv' = [argv EXCEPT ![c] = Argv(command[c])]
    BY <1>4 DEF Exec
  <2>2. \/ state'[c] = "running" /\ ends' = ends
        \/ state'[c] = "zombie" /\ ends' = [ends EXCEPT ![c] = {}] /\ ~Runs(argv'[c])
    BY <1>4, <1>0, <2>1, Zenon DEF Exec
  <2>3. ends' = [p \in Processes |-> ends'[p]]
    BY <2>2
  <2>4. argv' = [d \in Children |-> argv'[d]]
    BY <2>1
  <2>5. ~ReaderDone'
    BY <2>1, <2>2, <1>0 DEF Program
  <2>6. QED
    BY <2>1, <2>2, <2>3, <2>4, <2>5, <1>0
<1>5. CASE Write(c)
  <2>1. state[c] = "running" /\ c = "second" /\ sent' = sent + 1
        /\ UNCHANGED <<state, argv, ends, got>>
    BY <1>5 DEF Write, Writes
  <2>2. QED
    BY <2>1, <1>0 DEF Program
<1>6. CASE Read(c)
  <2>1. state[c] = "running" /\ c = "first" /\ got' = got + 1
        /\ UNCHANGED <<state, argv, ends, sent>>
    BY <1>6 DEF Read
  <2>2. QED
    BY <2>1, <1>0 DEF Program
<1>7. CASE ProgramExits(c)
  <2>1. /\ state[c] = "running" /\ state'[c] = "zombie" /\ Over(c)
        /\ ends' = [ends EXCEPT ![c] = {}]
        /\ UNCHANGED <<argv, sent, got>>
    BY <1>7, <1>0 DEF ProgramExits
  <2>2. ends' = [p \in Processes |-> ends'[p]]
    BY <2>1
  <2>3. CASE c = "second"
    <3>1. ~ReaderDone'
      BY <2>1, <2>3, <1>0 DEF Program
    <3>2. QED
      BY <2>1, <2>2, <2>3, <3>1, <1>0
  <2>4. CASE c = "first"
    <3>1. ASSUME ReaderDone'
          PROVE InPipe = 0 /\ \A p \in Processes : "w" \notin ends[p]
      BY <3>1, <2>1, <2>4, <1>0 DEF Over, Reads, Writes, Program
    <3>2. ReaderDone' => got' = sent' /\ ~Alive("second")' /\ pc' # "fork2"
      BY <3>1, <2>1, <2>4, <1>0 DEF InPipe
    <3>3. WriteEnds'
      BY <2>1, <2>2, <2>4, <1>0
    <3>4. QED
      BY <3>2, <3>3
  <2>5. QED
    BY <2>3, <2>4
<1>8. QED
  BY <1>1, <1>2, <1>3, <1>4, <1>5, <1>6, <1>7 DEF ChildStep

LEMMA CarriedInductive ==
  /\ Init => Carried
  /\ Carried /\ [Next]_vars => Carried'
<1>1. Init => Carried
  <2>1. Init => Accounted
    BY AccountedInductive
  <2>2. Init => WriteEnds /\ ~ReaderDone
    BY DEF Init, WriteEnds, ReaderDone, Alive, Children, Processes
  <2>3. QED
    BY <2>1, <2>2 DEF Carried
<1>2. ASSUME Carried, [Next]_vars PROVE Carried'
  <2>1. Accounted'
    BY <1>2, AccountedInductive DEF Carried
  <2>2. CASE ReadLine \/ EndOfInput \/ ShellStep
    BY <1>2, <2>1, <2>2, CarriedByShell DEF Carried
  <2>3. CASE \E c \in Children : ChildStep(c)
    BY <1>2, <2>1, <2>3, CarriedByChildren DEF Carried
  <2>4. CASE Ended \/ UNCHANGED vars
    BY <1>2, <2>1, <2>4 DEF Carried, WriteEnds, ReaderDone, Alive, Program, Ended, vars
  <2>5. QED
    BY <1>2, <2>2, <2>3, <2>4 DEF Next
<1>3. QED
  BY <1>1, <1>2

(* A command behind a pipe that reads to the end of its input has read all *)
(* that the one before it wrote, and that one is over: the end of the      *)
(* input never comes too early, whichever fork() fails.                    *)
THEOREM AllIsCarried == Spec => []AllCarried
<1>1. Carried => AllCarried
  BY DEF Carried, ReaderDone, AllCarried
<1>2. QED
  BY <1>1, CarriedInductive, PTL DEF Spec

-----------------------------------------------------------------------------
(* What the shell itself has open.                                         *)
NothingOpen ==
  /\ ends = [p \in Processes |-> ends[p]]
  /\ ends["shell"] \subseteq {"r", "w"}
  /\ pc \notin Waits \union {"fork"} \/ ~HasPipe(line) => ends["shell"] = {}
  /\ pc = "wait" => "w" \notin ends["shell"]

LEMMA NothingOpenInductive ==
  ASSUME "forks" \in Discipline
  PROVE  /\ Init => NothingOpen
         /\ NothingOpen /\ [Next]_vars => NothingOpen'
<1>1. Init => NothingOpen
  BY DEF Init, NothingOpen, Waits, Processes
<1>2. ASSUME NothingOpen, [Next]_vars PROVE NothingOpen'
  <2> USE <1>2 DEF NothingOpen, Waits, Processes
  <2>0. ~HasPipe(<<>>)
    BY DEF HasPipe
  <2>1. CASE ReadLine
    <3>1. pc = "prompt" /\ pc' \in {"run", "smashed"} /\ ends' = ends
      BY <2>1 DEF ReadLine, childVars
    <3>2. QED
      BY <3>1
  <2>2. CASE EndOfInput \/ Exit \/ ChangeDirectory \/ ListAliases \/ DefineAlias
    <3>1. pc \in {"prompt", "run"} /\ pc' \in {"prompt", "exited", "smashed"} /\ ends' = ends
      BY <2>2 DEF EndOfInput, Exit, ChangeDirectory, ListAliases, DefineAlias, RunsBuiltIn,
                  Return, childVars
    <3>2. QED
      BY <3>1
  <2>3. CASE OpenPipe
    <3>1. /\ pc = "run" /\ pc' = "fork" /\ line' = line /\ HasPipe(line)
          /\ ends' = [ends EXCEPT !["shell"] = {"r", "w"}]
      BY <2>3 DEF OpenPipe
    <3>2. ends' = [p \in Processes |-> ends'[p]]
      BY <3>1
    <3>3. QED
      BY <3>1, <3>2
  <2>4. CASE RunProgram
    BY <2>4 DEF RunProgram, childVars
  <2>5. CASE Fork
    <3>1. /\ pc = "fork" /\ pc' = IF HasPipe(line) THEN "fork2" ELSE "wait"
          /\ line' = line /\ ends' = [ends EXCEPT !["first"] = ends["shell"]]
      BY <2>5 DEF Fork, Born
    <3>2. ends' = [p \in Processes |-> ends'[p]] /\ ends'["shell"] = ends["shell"]
      BY <3>1
    <3>3. QED
      BY <3>1, <3>2
  <2>6. CASE ForkFails
    BY <2>6 DEF ForkFails
  <2>7. CASE Fork2
    <3>1. /\ pc = "fork2" /\ pc' = "wait2"
          /\ line' = line /\ ends' = [ends EXCEPT !["second"] = ends["shell"]]
      BY <2>7 DEF Fork2, Born
    <3>2. ends' = [p \in Processes |-> ends'[p]] /\ ends'["shell"] = ends["shell"]
      BY <3>1
    <3>3. QED
      BY <3>1, <3>2
  <2>8. CASE Fork2Fails
    BY <2>8 DEF Fork2Fails
  <2>9. CASE Wait2
    <3>1. /\ pc' = "wait" /\ line' = line
          /\ ends' = [ends EXCEPT !["shell"] = @ \ {"w"}]
      BY <2>9 DEF Wait2
    <3>2. ends' = [p \in Processes |-> ends'[p]] /\ ends'["shell"] = ends["shell"] \ {"w"}
      BY <3>1
    <3>3. ~HasPipe(line) => ends["shell"] = {}
      OBVIOUS
    <3>4. QED
      BY <3>1, <3>2, <3>3
  <2>10. CASE Wait
    <3>1. /\ pc = "wait" /\ pc' = "prompt"
          /\ ends' = [ends EXCEPT !["shell"] = IF HasPipe(line) THEN @ \ {"r"} ELSE @]
      BY <2>10 DEF Wait, Return
    <3>2. /\ ends' = [p \in Processes |-> ends'[p]]
          /\ ends'["shell"] = IF HasPipe(line) THEN ends["shell"] \ {"r"} ELSE ends["shell"]
      BY <3>1
    <3>3. ends'["shell"] = {}
      BY <3>1, <3>2
    <3>4. QED
      BY <3>1, <3>2, <3>3
  <2>11. CASE \E c \in Children : ChildStep(c)
    <3>1. PICK c \in Children : ChildStep(c)
      BY <2>11
    <3>2. UNCHANGED <<pc, line>>
      BY <3>1, Zenon DEF ChildStep, Redirect, Expand, Keep, Exec, Write, Read, ProgramExits,
                         shellVars
    <3>3. ends' = ends \/ \E s : ends' = [ends EXCEPT ![c] = s]
      BY <3>1, Zenon DEF ChildStep, Redirect, Expand, Keep, Exec, Write, Read, ProgramExits
    <3>4. ends' = [p \in Processes |-> ends'[p]] /\ ends'["shell"] = ends["shell"]
      BY <3>3 DEF Children
    <3>5. QED
      BY <3>2, <3>4
  <2>12. CASE Ended \/ UNCHANGED vars
    BY <2>12 DEF Ended, vars
  <2>13. QED
    BY <2>1, <2>2, <2>3, <2>4, <2>5, <2>6, <2>7, <2>8, <2>9, <2>10, <2>11, <2>12
       DEF Next, ShellStep
<1>3. QED
  BY <1>1, <1>2

(* After every line the shell has closed both ends of the pipe, unless the *)
(* first fork() failed.                                                    *)
THEOREM NoPipeStaysOpen ==
  ASSUME "forks" \in Discipline PROVE Spec => []PipesClosed
<1>1. NothingOpen => PipesClosed
  BY DEF NothingOpen, PipesClosed, Waits
<1>2. QED
  BY <1>1, NothingOpenInductive, PTL DEF Spec

-----------------------------------------------------------------------------
(* One entry for each alias.                                               *)
Entries == [key : Words, vals : Seq(Words)]
OneEach ==
  /\ line \in Seq(Words)
  /\ aliases \in Seq(Entries)
  /\ \A j, k \in DOMAIN aliases : aliases[j].key = aliases[k].key => j = k

(* What `alias' does to the table: it keeps the keys that are there where  *)
(* they are, and adds the new one, if it is new, behind them.              *)
LEMMA DefinedKeys ==
  ASSUME NEW tab \in Seq(Entries),
         NEW key \in Words, NEW vals \in Seq(Words)
  PROVE  /\ Defined(tab, key, vals) \in Seq(Entries)
         /\ Len(tab) <= Len(Defined(tab, key, vals))
         /\ \A k \in DOMAIN tab : Defined(tab, key, vals)[k].key = tab[k].key
         /\ IsAlias(tab, key) => Len(Defined(tab, key, vals)) = Len(tab)
         /\ ~IsAlias(tab, key) =>
              /\ Len(Defined(tab, key, vals)) = Len(tab) + 1
              /\ Defined(tab, key, vals)[Len(tab) + 1].key = key
<1> DEFINE entry(k) == IF FoundAt(tab, key, k) THEN [tab[k] EXCEPT !.vals = vals] ELSE tab[k]
           over == [k \in 1..Len(tab) |-> entry(k)]
<1>1. CASE IsAlias(tab, key)
  <2>1. Defined(tab, key, vals) = over
    BY <1>1 DEF Defined
  <2>2. ASSUME NEW k \in 1..Len(tab) PROVE entry(k) \in Entries /\ entry(k).key = tab[k].key
    <3>1. tab[k] \in Entries
      OBVIOUS
    <3>2. /\ [tab[k] EXCEPT !.vals = vals] \in Entries
          /\ [tab[k] EXCEPT !.vals = vals].key = tab[k].key
      BY <3>1 DEF Entries
    <3>3. QED
      BY <3>1, <3>2
  <2> HIDE DEF entry
  <2>3. over \in Seq(Entries) /\ Len(over) = Len(tab)
    BY <2>2
  <2>4. \A k \in DOMAIN tab : over[k].key = tab[k].key
    BY <2>2
  <2>5. QED
    BY <1>1, <2>1, <2>3, <2>4
<1>2. CASE ~IsAlias(tab, key)
  <2>1. Defined(tab, key, vals) = Append(tab, [key |-> key, vals |-> vals])
    BY <1>2 DEF Defined
  <2>2. [key |-> key, vals |-> vals] \in Entries /\ [key |-> key, vals |-> vals].key = key
    BY DEF Entries
  <2> DEFINE new == [key |-> key, vals |-> vals]
  <2> HIDE DEF new
  <2>3. QED
    BY <1>2, <2>1, <2>2 DEF new
<1>3. QED
  BY <1>1, <1>2

(* A definition never moves another one, and there is one for each word.   *)
THEOREM AliasesKeepTheirOrder == Spec => AliasesInOrder
<1> USE DEF OneEach
<1>1. Init => OneEach
  BY DEF Init
<1>2. ASSUME OneEach, DefineAlias
      PROVE  OneEach' /\ IsPrefix(Keys(aliases), Keys(aliases')) /\ IsInjective(Keys(aliases'))
  <2>1. PICK key \in Words, vals \in Seq(Words) : aliases' = Defined(aliases, key, vals)
    <3>1. line \in Seq(Words) /\ Len(line) > 1
      BY <1>2 DEF DefineAlias
    <3>2. line[2] \in Words /\ SubSeq(line, 3, Len(line)) \in Seq(Words)
      BY <3>1
    <3>3. QED
      BY <1>2, <3>2 DEF DefineAlias
  <2>2. /\ aliases' \in Seq(Entries)
        /\ Len(aliases) <= Len(aliases')
        /\ \A k \in DOMAIN aliases : aliases'[k].key = aliases[k].key
        /\ IsAlias(aliases, key) => Len(aliases') = Len(aliases)
        /\ ~IsAlias(aliases, key) => /\ Len(aliases') = Len(aliases) + 1
                                     /\ aliases'[Len(aliases) + 1].key = key
    <3>1. aliases \in Seq(Entries)
      BY <1>2
    <3>2. QED
      BY <2>1, <3>1, DefinedKeys, Zenon
  <2>3. \A j, k \in DOMAIN aliases' : aliases'[j].key = aliases'[k].key => j = k
    <3>1. /\ Len(aliases) \in Nat /\ DOMAIN aliases = 1..Len(aliases)
          /\ Len(aliases') \in Nat /\ DOMAIN aliases' = 1..Len(aliases')
      BY <1>2, <2>2
    <3>2. SUFFICES ASSUME NEW j \in 1..Len(aliases'), NEW k \in 1..Len(aliases'),
                          aliases'[j].key = aliases'[k].key
                   PROVE  j = k
      BY <3>1
    <3>3. CASE IsAlias(aliases, key)
      BY <1>2, <2>2, <3>1, <3>2, <3>3, SMTT(40)
    <3>4. CASE ~IsAlias(aliases, key)
      <4>1. \A i \in 1..Len(aliases) : aliases'[i].key = aliases[i].key /\ aliases[i].key # key
        BY <2>2, <3>1, <3>4 DEF IsAlias
      <4>2. Len(aliases') = Len(aliases) + 1 /\ aliases'[Len(aliases) + 1].key = key
        BY <2>2, <3>4
      <4>3. \A i, m \in 1..Len(aliases) : aliases'[i].key = aliases'[m].key => i = m
        BY <1>2, <3>1, <4>1
      <4>4. \A i \in 1..Len(aliases') : i \in 1..Len(aliases) \/ i = Len(aliases) + 1
        BY <3>1, <4>2
      <4>5. QED
        BY <3>2, <4>1, <4>2, <4>3, <4>4
    <3>5. QED
      BY <3>3, <3>4
  <2>4. IsPrefix(Keys(aliases), Keys(aliases'))
    BY <1>2, <2>2 DEF IsPrefix, Keys
  <2>5. IsInjective(Keys(aliases'))
    BY <2>3 DEF IsInjective, Keys
  <2>6. line' \in Seq(Words)
    <3>1. <<>> \in Seq(Words)
      OBVIOUS
    <3>2. line' = line \/ line' = <<>>
      BY <1>2 DEF DefineAlias, Return
    <3>3. QED
      BY <1>2, <3>1, <3>2
  <2>7. QED
    BY <2>2, <2>3, <2>4, <2>5, <2>6
<1>3. ASSUME [Next]_vars PROVE aliases' = aliases \/ DefineAlias
  <2>1. CASE \E c \in Children : ChildStep(c)
    BY <2>1, Zenon DEF ChildStep, Redirect, Expand, Keep, Exec, Write, Read, ProgramExits, shellVars
  <2>2. CASE ~\E c \in Children : ChildStep(c)
    BY <1>3, <2>2 DEF Next, ShellStep, ReadLine, EndOfInput, Exit, ChangeDirectory, ListAliases,
                      OpenPipe, RunProgram, Fork, ForkFails, Fork2, Fork2Fails, Wait2, Wait, Born,
                      Ended, vars
  <2>3. QED
    BY <2>1, <2>2
<1>4. ASSUME OneEach, [Next]_vars PROVE line' \in Seq(Words)
  <2>1. <<>> \in Seq(Words)
    OBVIOUS
  <2>2. CASE \E c \in Children : ChildStep(c)
    BY <1>4, <2>2, Zenon DEF ChildStep, Redirect, Expand, Keep, Exec, Write, Read, ProgramExits,
                             shellVars
  <2>3. CASE ReadLine
    BY <1>4, <2>3, LinesAssumption DEF ReadLine
  <2>4. CASE ~(\E c \in Children : ChildStep(c)) /\ ~ReadLine
    BY <1>4, <2>1, <2>4 DEF Next, ShellStep, EndOfInput, Exit, ChangeDirectory, ListAliases,
                      DefineAlias, OpenPipe, RunProgram, Fork, ForkFails, Fork2, Fork2Fails,
                      Wait2, Wait, Born, Return, Ended, vars
  <2>5. QED
    BY <2>2, <2>3, <2>4
<1>5. ASSUME OneEach, [Next]_vars PROVE OneEach'
  BY <1>2, <1>3, <1>4, <1>5
<1>6. ASSUME OneEach, [Next]_vars
      PROVE [/\ IsPrefix(Keys(aliases), Keys(aliases')) /\ IsInjective(Keys(aliases'))]_aliases
  BY <1>2, <1>3, <1>6
<1>7. QED
  BY <1>1, <1>5, <1>6, PTL DEF Spec, AliasesInOrder

-----------------------------------------------------------------------------
(* Types.                                                                  *)

(* The first "|" of a line. *)
LEMMA BarProperties ==
  ASSUME NEW l \in Seq(Words), HasPipe(l)
  PROVE  /\ Bar(l) \in 1..Len(l)
         /\ l[Bar(l)] = "|"
         /\ \A i \in 1..(Bar(l) - 1) : l[i] # "|"
<1> DEFINE T == { j \in 1..Len(l) : l[j] = "|" }
<1>1. T \in SUBSET Nat /\ T # {}
  BY DEF HasPipe
<1>2. PICK n \in T : \A m \in T : n <= m
  <2> HIDE DEF T
  <2> QED BY <1>1, LeastNumber
<1>3. \A i \in 1..(n - 1) : l[i] # "|"
  BY <1>2
<1>4. n \in DOMAIN l /\ l[n] = "|" /\ \A i \in 1..(n - 1) : l[i] # "|"
  BY <1>2, <1>3
<1>5. Bar(l) \in DOMAIN l /\ l[Bar(l)] = "|" /\ \A i \in 1..(Bar(l) - 1) : l[i] # "|"
  BY <1>4, Zenon DEF Bar
<1> QED BY <1>5

(* The command c is in the token array, with NULL behind it and the loop   *)
(* over it on its way.                                                     *)
InArray(c) ==
  /\ c \in Command
  /\ c.i \in 0..c.nr
  /\ c.base + c.nr \in Slots
  /\ c.tokens[c.base + c.nr] = NULL

LEMMA TokenizedType ==
  ASSUME NEW l \in Seq(Words), FitsArray(l)
  PROVE  /\ Tokenized(l) \in TokenArray
         /\ \A j \in Slots : Tokenized(l)[j] = IF j < Len(l) THEN l[j + 1] ELSE NULL
         /\ Len(l) \in Slots
BY ArraysAssumption DEF Tokenized, TokenArray, Slots, FitsArray

LEMMA SideLength ==
  ASSUME NEW l \in Seq(Words), NEW c \in Children
  PROVE  Len(Side(c, l)) = IF ~HasPipe(l) THEN Len(l)
                           ELSE IF c = "first" THEN Len(l) - Bar(l) ELSE Bar(l) - 1
<1>1. CASE HasPipe(l)
  <2>1. Bar(l) \in 1..Len(l)
    BY <1>1, BarProperties
  <2>2. /\ SubSeq(l, Bar(l) + 1, Len(l)) \in Seq(Words)
        /\ Len(SubSeq(l, Bar(l) + 1, Len(l))) = Len(l) - Bar(l)
        /\ SubSeq(l, 1, Bar(l) - 1) \in Seq(Words)
        /\ Len(SubSeq(l, 1, Bar(l) - 1)) = Bar(l) - 1
    BY <2>1
  <2> QED BY <1>1, <2>2 DEF Side
<1> QED BY <1>1 DEF Side

(* A child gets a part of the array. *)
LEMMA GivenInArray ==
  ASSUME line \in Seq(Words), FitsArray(line), NEW c \in Children
  PROVE  InArray(Given(c))
<1>1. CASE HasPipe(line)
  <2>1. Bar(line) \in 1..Len(line) /\ Len(line) \in Slots
    BY <1>1, BarProperties, TokenizedType
  <2>2. Bar(line) - 1 \in Slots
    BY <2>1, ArraysAssumption DEF Slots
  <2> DEFINE split == [Tokenized(line) EXCEPT ![Bar(line) - 1] = NULL]
  <2>3. /\ split \in TokenArray /\ split[Bar(line) - 1] = NULL
        /\ split[Len(line)] = NULL
    <3>1. PICK t \in TokenArray : t = Tokenized(line) /\ t[Len(line)] = NULL
      BY <2>1, TokenizedType
    <3>2. PICK b \in Slots : b = Bar(line) - 1
      BY <2>2
    <3>3. [t EXCEPT ![b] = NULL] \in TokenArray
      BY DEF TokenArray
    <3> QED BY <2>1, <3>1, <3>2, <3>3 DEF TokenArray
  <2>4. Given(c) = [tokens |-> split, base |-> IF c = "first" THEN Bar(line) ELSE 0,
                    nr |-> IF c = "first" THEN Len(line) - Bar(line) ELSE Bar(line) - 1,
                    i |-> 0]
    BY <1>1, SideLength DEF Given
  <2> HIDE DEF split
  <2>5. /\ Given(c).tokens = split /\ Given(c).i = 0
        /\ Given(c).base = IF c = "first" THEN Bar(line) ELSE 0
        /\ Given(c).nr = IF c = "first" THEN Len(line) - Bar(line) ELSE Bar(line) - 1
    BY <2>4
  <2>6. Given(c).base \in Nat /\ Given(c).nr \in Nat
    BY <2>1, <2>5
  <2>7. Given(c).base + Given(c).nr = IF c = "first" THEN Len(line) ELSE Bar(line) - 1
    BY <2>1, <2>5
  <2>8. Given(c) \in Command
    BY <2>3, <2>4, <2>5, <2>6 DEF Command
  <2> QED BY <2>1, <2>2, <2>3, <2>5, <2>6, <2>7, <2>8 DEF InArray
<1>2. CASE ~HasPipe(line)
  <2>1. Given(c) = [tokens |-> Tokenized(line), base |-> 0, nr |-> Len(line), i |-> 0]
    BY <1>2, SideLength DEF Given
  <2> QED BY <2>1, TokenizedType DEF InArray, Command, Slots
<1> QED BY <1>1, <1>2

(* What expanding an alias does to the array. *)
LEMMA ReplacedTokens ==
  ASSUME NEW c, InArray(c), c.i < c.nr, NEW words \in Seq(Words), HasRoom(c, words)
  PROVE  LET k == Len(words)
             at == c.base + c.i
             d == Replaced(c, words)
         IN  /\ InArray(d)
             /\ d.base = c.base /\ d.nr = c.nr + k - 1 /\ d.i = c.i + k
             /\ \A j \in Slots : j < at => d.tokens[j] = c.tokens[j]
             /\ \A j \in 1..k : d.tokens[at + j - 1] = words[j]
             /\ k # 0 => \A j \in (at + 1)..(c.base + c.nr - 1) :
                           d.tokens[j + k - 1] = c.tokens[j]
<1> DEFINE k == Len(words)
           at == c.base + c.i
           d == Replaced(c, words)
           moved == SpacedBack(c, k)
           toks == [j \in Slots |-> IF j \in at..(at + k - 1) THEN words[j - at + 1] ELSE moved[j]]
<1>1. /\ c \in Command /\ k \in Nat /\ c.base \in Nat /\ c.i \in Nat /\ c.nr \in Nat
      /\ c.tokens \in [Slots -> Words \union {NULL, FREED}]
      /\ c.i < c.nr /\ c.base + c.nr \in 0..(MAX_NR_TOKENS - 1)
      /\ c.base + c.nr + k - 1 < MAX_NR_TOKENS /\ MAX_NR_TOKENS \in Nat
      /\ \A j \in 1..k : words[j] \in Words
  BY ArraysAssumption DEF InArray, Command, TokenArray, Slots, HasRoom
<1>0. /\ k \in Nat /\ c.base \in Nat /\ c.i \in Nat /\ c.nr \in Nat /\ c.i < c.nr
      /\ c.base + c.nr + k - 1 < MAX_NR_TOKENS /\ MAX_NR_TOKENS \in Nat
  BY <1>1
<1> DEFINE first == at + k
           last == c.base + c.nr + k - 2
<1>2. \A j \in Slots :
        moved[j] = CASE j \in first..last -> IF k = 0 THEN FREED ELSE c.tokens[j - k + 1]
                     [] j = last + 1 -> NULL
                     [] OTHER -> c.tokens[j]
  BY DEF SpacedBack
<1>3. /\ d = [c EXCEPT !.tokens = toks, !.nr = c.nr + k - 1, !.i = c.i + k]
      /\ d.base = c.base /\ d.nr = c.nr + k - 1 /\ d.i = c.i + k /\ d.tokens = toks
  BY <1>1 DEF Replaced, Command
<1>4. \A j \in Slots : k # 0 /\ j \in first..last => j - k + 1 \in Slots
  BY <1>1, SMTT(40) DEF Slots
<1>5. \A j \in Slots : moved[j] \in Words \union {NULL, FREED}
  <2> TAKE j \in Slots
  <2>1. CASE j \in first..last
    BY <1>1, <1>2, <1>4, <2>1
  <2>2. CASE j \notin first..last /\ j = last + 1
    BY <1>2, <2>2
  <2>3. CASE j \notin first..last /\ j # last + 1
    BY <1>1, <1>2, <2>3
  <2> QED BY <2>1, <2>2, <2>3
<1>6. toks \in TokenArray
  <2> HIDE DEF moved
  <2>1. \A j \in Slots : j \in at..(at + k - 1) => words[j - at + 1] \in Words
    BY <1>1, SMTT(40) DEF Slots
  <2> QED BY <1>5, <2>1 DEF TokenArray
<1>7. last + 1 \in Slots /\ last + 1 \notin at..(at + k - 1) /\ last + 1 \notin first..last
  BY <1>1, SMTT(40) DEF Slots
<1>8. toks[last + 1] = NULL
  BY <1>2, <1>7
<1>9. d \in Command
  <2> HIDE DEF toks
  <2>1. \A t \in TokenArray, n, m \in Int :
          [c EXCEPT !.tokens = t, !.nr = n, !.i = m] \in Command
    BY <1>1 DEF Command
  <2>2. c.nr + k - 1 \in Int /\ c.i + k \in Int
    BY <1>1
  <2> HIDE DEF toks, d, k
  <2> QED BY <1>3, <1>6, <2>1, <2>2
<1>10. InArray(d)
  <2> HIDE DEF toks, d, k
  <2>1. d.i \in 0..d.nr /\ d.base + d.nr = last + 1
    BY <1>0, <1>3, SMTT(40)
  <2> QED BY <1>3, <1>7, <1>8, <1>9, <2>1 DEF InArray
<1>11. \A j \in Slots : j < at => toks[j] = c.tokens[j]
  <2> SUFFICES ASSUME NEW j \in Slots, j < at PROVE toks[j] = c.tokens[j]
    OBVIOUS
  <2>1. j \notin at..(at + k - 1) /\ j \notin first..last /\ j # last + 1
    BY <1>1, SMTT(40) DEF Slots
  <2>2. moved[j] = c.tokens[j]
    BY <1>2, <2>1
  <2> HIDE DEF moved
  <2> QED BY <2>1, <2>2
<1>12. \A j \in 1..k : toks[at + j - 1] = words[j]
  <2> TAKE j \in 1..k
  <2>1. at \in Nat /\ at + k - 1 < MAX_NR_TOKENS
    BY <1>1, SMTT(40)
  <2>2. at + j - 1 \in Slots /\ at + j - 1 \in at..(at + k - 1) /\ (at + j - 1) - at + 1 = j
    <3> HIDE DEF at, k
    <3> QED BY <1>1, <2>1 DEF Slots
  <2> HIDE DEF moved
  <2> QED BY <2>2
<1>13. k # 0 => \A j \in (at + 1)..(c.base + c.nr - 1) : toks[j + k - 1] = c.tokens[j]
  <2> SUFFICES ASSUME k # 0, NEW j \in (at + 1)..(c.base + c.nr - 1)
               PROVE  toks[j + k - 1] = c.tokens[j]
    OBVIOUS
  <2>1. /\ j + k - 1 \in Slots /\ j + k - 1 \notin at..(at + k - 1)
        /\ j + k - 1 \in first..last /\ (j + k - 1) - k + 1 = j
    <3>1. PICK b, n, i \in Nat : b = c.base /\ n = c.nr /\ i = c.i
      BY <1>0
    <3>2. j \in Int /\ b + i + 1 <= j /\ j <= b + n - 1
      BY <3>1
    <3>3. k \in Nat /\ b + n + k - 1 < MAX_NR_TOKENS /\ MAX_NR_TOKENS \in Nat
      BY <1>0, <3>1
    <3> HIDE DEF k
    <3>4. j + k - 1 \in 0..(MAX_NR_TOKENS - 1)
      BY <3>2, <3>3
    <3>5. j + k - 1 \notin (b + i)..(b + i + k - 1)
      BY <3>2, <3>3
    <3>6. j + k - 1 \in (b + i + k)..(b + n + k - 2)
      BY <3>2, <3>3
    <3>7. (j + k - 1) - k + 1 = j
      BY <3>2, <3>3
    <3> QED BY <3>1, <3>4, <3>5, <3>6, <3>7 DEF Slots
  <2>2. moved[j + k - 1] = c.tokens[j]
    <3>1. PICK m \in Slots : m = j + k - 1 /\ m \in first..last /\ m - k + 1 = j
      BY <2>1
    <3>2. moved[m] = CASE m \in first..last -> IF k = 0 THEN FREED ELSE c.tokens[m - k + 1]
                       [] m = last + 1 -> NULL
                       [] OTHER -> c.tokens[m]
      BY <1>2, Zenon
    <3> HIDE DEF moved, first, last, k
    <3>3. moved[m] = IF k = 0 THEN FREED ELSE c.tokens[m - k + 1]
      <4>1. m # last + 1
        BY <3>1, <1>0, SMTT(40) DEF last, k
      <4> QED BY <3>1, <3>2, <4>1
    <3> QED BY <3>1, <3>3
  <2> HIDE DEF moved
  <2> QED BY <2>1, <2>2
<1> QED BY <1>3, <1>10, <1>11, <1>12, <1>13

(* execvp finds the end of its arguments. *)
LEMMA ArgvType ==
  ASSUME NEW c, InArray(c)
  PROVE  /\ Argv(c) \in Seq(Words \union {FREED})
         /\ (\A j \in c.base..(c.base + c.nr - 1) : c.tokens[j] # NULL) =>
              /\ Len(Argv(c)) = c.nr
              /\ \A j \in 1..c.nr : Argv(c)[j] = c.tokens[c.base + j - 1]
<1> DEFINE T == { j \in Slots : j >= c.base /\ c.tokens[j] = NULL }
           end == CHOOSE j \in T : \A m \in T : j <= m
<1>1. /\ c.base \in Nat /\ c.nr \in Nat /\ c.base + c.nr \in T
      /\ c.tokens \in [Slots -> Words \union {NULL, FREED}]
  BY DEF InArray, Command, TokenArray
<1>2. T \in SUBSET Nat /\ T # {}
  BY <1>1 DEF Slots
<1>3. end \in T /\ \A m \in T : end <= m
  <2> HIDE DEF T
  <2>1. \E j \in T : \A m \in T : j <= m
    BY <1>2, LeastNumber
  <2> QED BY <2>1, Zenon
<1>4. Argv(c) = [j \in 1..(end - c.base) |-> c.tokens[c.base + j - 1]]
  BY DEF Argv
<1> HIDE DEF end
<1>5. end \in Nat /\ end - c.base \in Nat /\ end <= c.base + c.nr /\ end \in Slots
  BY <1>1, <1>2, <1>3
<1>6. ASSUME NEW j \in 1..(end - c.base)
      PROVE  c.tokens[c.base + j - 1] \in Words \union {FREED}
  <2>1. c.base + j - 1 \in Slots /\ c.base + j - 1 >= c.base /\ ~(end <= c.base + j - 1)
    BY <1>1, <1>5, ArraysAssumption DEF Slots
  <2>2. c.base + j - 1 \notin T
    BY <1>3, <2>1
  <2> QED BY <1>1, <2>1, <2>2
<1>7. Argv(c) \in Seq(Words \union {FREED}) /\ Len(Argv(c)) = end - c.base
  BY <1>4, <1>5, <1>6
<1>8. ASSUME \A j \in c.base..(c.base + c.nr - 1) : c.tokens[j] # NULL
      PROVE  end = c.base + c.nr
  BY <1>1, <1>3, <1>5, <1>8
<1> QED BY <1>1, <1>4, <1>7, <1>8

LEMMA IdleType == Idle \in Command
<1>1. <<>> \in Seq(Words) /\ FitsArray(<<>>)
  BY ArraysAssumption DEF FitsArray
<1>2. Tokenized(<<>>) \in TokenArray
  BY <1>1, TokenizedType
<1> QED BY <1>2 DEF Idle, Command

(* The words of an alias. *)
LEMMA ValueType ==
  ASSUME NEW tab \in Seq(Entries), NEW w, IsAlias(tab, w)
  PROVE  /\ w \in Words /\ Value(tab, w) \in Seq(Words)
         /\ \E k \in DOMAIN tab : tab[k].key = w /\ Value(tab, w) = tab[k].vals
<1> DEFINE T == { k \in 1..Len(tab) : tab[k].key = w }
           first == CHOOSE k \in DOMAIN tab : FoundAt(tab, w, k)
<1>1. T \in SUBSET Nat /\ T # {}
  BY DEF IsAlias
<1>2. PICK n \in T : \A m \in T : n <= m
  <2> HIDE DEF T
  <2> QED BY <1>1, LeastNumber
<1>3. FoundAt(tab, w, n)
  BY <1>2 DEF FoundAt
<1>4. FoundAt(tab, w, first)
  BY <1>2, <1>3, Zenon DEF FoundAt
<1> HIDE DEF first
<1>5. first \in DOMAIN tab /\ tab[first].key = w
  BY <1>4 DEF FoundAt
<1>6. tab[first] \in Entries
  BY <1>5, ElementOfSeq, LenProperties
<1>7. Value(tab, w) = tab[first].vals
  BY DEF Value, first
<1> QED BY <1>5, <1>6, <1>7 DEF Entries

(* What TypeOK says of the line and the children, with what it needs.      *)
Typed ==
  /\ TypeOK
  /\ FitsArray(line)
  /\ \A c \in Children : state[c] \in {"forked", "expanding"} => InArray(command[c])

LEMMA TypedByShell ==
  ASSUME Typed, ReadLine \/ EndOfInput \/ ShellStep
  PROVE  Typed'
<1>0. /\ TypeOK /\ FitsArray(line) /\ FitsArray(<<>>)
      /\ \A c \in Children : state[c] \in {"forked", "expanding"} => InArray(command[c])
      /\ line \in Seq(Words)
  <2>1. TypeOK /\ FitsArray(line) /\ FitsArray(<<>>)
    BY ArraysAssumption DEF Typed, FitsArray
  <2>2. line \in Seq(Words)
    <3>1. Lines \subseteq Seq(Words) /\ <<>> \in Seq(Words)
      <4>1. Lines \subseteq Seq(Words)
        BY LinesAssumption, Zenon
      <4> QED BY <4>1
    <3>2. line \in Lines \union {<<>>}
      BY <2>1 DEF TypeOK
    <3> QED BY <3>1, <3>2
  <2> QED BY <2>1, <2>2 DEF Typed
<1>1. CASE ReadLine
  <2>1. /\ pc' \in {"run", "smashed"} /\ line' \in Lines \union {line} /\ FitsArray(line')
        /\ UNCHANGED <<aliases, cwd, state, command, argv, ends, sent, got>>
    BY <1>0, <1>1 DEF ReadLine, childVars
  <2> QED BY <1>0, <2>1 DEF Typed, TypeOK
<1>2. CASE EndOfInput \/ Exit \/ ListAliases \/ RunProgram \/ ForkFails \/ Fork2Fails
  <2>1. /\ pc' \in {"prompt", "exited", "fork", "waitany"} /\ line' \in {line, <<>>}
        /\ UNCHANGED <<aliases, cwd, state, command, argv, ends, sent, got>>
    BY <1>2 DEF EndOfInput, Exit, ListAliases, RunProgram, ForkFails, Fork2Fails, Return,
                RunsBuiltIn, childVars
  <2> QED BY <1>0, <2>1 DEF Typed, TypeOK
<1>3. CASE ChangeDirectory
  <2>1. /\ pc' = "prompt" /\ line' = <<>> /\ cwd' \in Directories
        /\ UNCHANGED <<aliases, state, command, argv, ends, sent, got>>
    BY <1>0, <1>3 DEF ChangeDirectory, Return, childVars, TypeOK
  <2> QED BY <1>0, <2>1 DEF Typed, TypeOK
<1>4. CASE DefineAlias
  <2>1. /\ pc' \in {"prompt", "smashed"} /\ line' \in {line, <<>>}
        /\ aliases' = Defined(aliases, line[2], SubSeq(line, 3, Len(line)))
        /\ Len(line) > 1
        /\ UNCHANGED <<cwd, state, command, argv, ends, sent, got>>
    BY <1>4 DEF DefineAlias, Return, childVars
  <2>2. line[2] \in Words /\ SubSeq(line, 3, Len(line)) \in Seq(Words)
    BY <1>0, <2>1
  <2>3. aliases \in Seq(Entries)
    BY <1>0 DEF TypeOK, Entries
  <2>4. aliases' \in Seq(Entries)
    BY <2>1, <2>2, <2>3, DefinedKeys
  <2> QED BY <1>0, <2>1, <2>4 DEF Typed, TypeOK, Entries
<1>5. CASE OpenPipe
  <2>1. /\ pc' = "fork" /\ ends' = [ends EXCEPT !["shell"] = {"r", "w"}]
        /\ sent' = 0 /\ got' = 0 /\ UNCHANGED <<line, aliases, cwd, state, command, argv>>
    BY <1>5 DEF OpenPipe
  <2>2. ends' \in [Processes -> SUBSET {"r", "w"}]
    BY <1>0, <2>1 DEF TypeOK, Processes
  <2> QED BY <1>0, <2>1, <2>2 DEF Typed, TypeOK
<1>6. ASSUME NEW c \in Children, Born(c), pc' \in {"fork2", "wait", "wait2"}
      PROVE  Typed'
  <2>1. /\ state' = [state EXCEPT ![c] = "forked"]
        /\ command' = [command EXCEPT ![c] = Given(c)]
        /\ ends' = [ends EXCEPT ![c] = ends["shell"]]
        /\ UNCHANGED <<line, aliases, cwd, argv, sent, got>>
    BY <1>6 DEF Born
  <2>2. InArray(Given(c))
    BY <1>0, GivenInArray
  <2>3. /\ state' \in [Children -> {"none", "forked", "expanding", "running", "zombie", "reaped"}]
        /\ command' \in [Children -> Command]
        /\ ends' \in [Processes -> SUBSET {"r", "w"}]
    BY <1>0, <2>1, <2>2 DEF TypeOK, Processes, InArray
  <2>4. \A d \in Children : state'[d] \in {"forked", "expanding"} => InArray(command'[d])
    BY <1>0, <2>1, <2>2 DEF TypeOK
  <2> QED BY <1>0, <1>6, <2>1, <2>3, <2>4 DEF Typed, TypeOK
<1>7. CASE Fork \/ Fork2
  BY <1>6, <1>7 DEF Fork, Fork2, Children
<1>8. CASE Wait2
  <2>1. /\ pc' = "wait" /\ ends' = [ends EXCEPT !["shell"] = @ \ {"w"}]
        /\ UNCHANGED <<line, aliases, cwd, command, argv, sent, got>>
    BY <1>8 DEF Wait2
  <2>2. PICK c \in Children : state' = [state EXCEPT ![c] = "reaped"]
    BY <1>8 DEF Wait2
  <2>3. /\ state' \in [Children -> {"none", "forked", "expanding", "running", "zombie", "reaped"}]
        /\ ends' \in [Processes -> SUBSET {"r", "w"}]
        /\ \A d \in Children : state'[d] \in {"forked", "expanding"} => state[d] = state'[d]
    BY <1>0, <2>1, <2>2 DEF TypeOK, Processes
  <2> QED BY <1>0, <2>1, <2>3 DEF Typed, TypeOK
<1>9. CASE Wait
  <2>1. /\ pc' = "prompt" /\ line' = <<>> /\ sent' = 0 /\ got' = 0 /\ UNCHANGED <<aliases, cwd>>
        /\ ends' = [ends EXCEPT !["shell"] = IF HasPipe(line) THEN @ \ {"r"} ELSE @]
        /\ state' = [c \in Children |-> IF Gone(c) THEN "none" ELSE state[c]]
        /\ command' = [c \in Children |-> IF Gone(c) THEN Idle ELSE command[c]]
        /\ argv' = [c \in Children |-> IF Gone(c) THEN <<>> ELSE argv[c]]
    BY <1>9 DEF Wait, ForgetGone, Return
  <2>2. /\ ends' \in [Processes -> SUBSET {"r", "w"}]
        /\ state' \in [Children -> {"none", "forked", "expanding", "running", "zombie", "reaped"}]
    BY <1>0, <2>1 DEF TypeOK, Processes
  <2>3. command' \in [Children -> Command] /\ argv' \in [Children -> Seq(Words \union {FREED})]
    BY <1>0, <2>1, IdleType DEF TypeOK
  <2>4. \A d \in Children : state'[d] \in {"forked", "expanding"} => InArray(command'[d])
    BY <1>0, <2>1
  <2> QED BY <1>0, <2>1, <2>2, <2>3, <2>4 DEF Typed, TypeOK
<1> QED BY <1>1, <1>2, <1>3, <1>4, <1>5, <1>7, <1>8, <1>9 DEF ShellStep

LEMMA TypedByChildren ==
  ASSUME Typed, NEW c \in Children, ChildStep(c)
  PROVE  Typed'
<1>0. /\ TypeOK /\ FitsArray(line)
      /\ \A d \in Children : state[d] \in {"forked", "expanding"} => InArray(command[d])
      /\ UNCHANGED <<pc, line, aliases>>
      /\ state[c] \in {"forked", "expanding", "running"}
      /\ state'[c] \in {"expanding", "running", "zombie"}
      /\ state' = [state EXCEPT ![c] = state'[c]]
  <2>1. state \in [Children -> States]
    BY DEF Typed, TypeOK, States
  <2> QED BY <2>1, ChildrenLive DEF Typed
<1>1. /\ state' \in [Children -> {"none", "forked", "expanding", "running", "zombie", "reaped"}]
      /\ \A d \in Children : d # c => state'[d] = state[d]
  BY <1>0 DEF TypeOK
<1>2. ASSUME UNCHANGED <<cwd, command, argv, sent, got>>, state[c] = "forked" \/ state'[c] = "zombie",
             ends' = ends \/ \E s \in SUBSET {"r", "w"} : ends' = [ends EXCEPT ![c] = s]
      PROVE  Typed'
  <2>1. ends' \in [Processes -> SUBSET {"r", "w"}]
    BY <1>0, <1>2, ZenonT(60) DEF TypeOK, Processes
  <2>2. \A d \in Children : state'[d] \in {"forked", "expanding"} => state[d] \in {"forked", "expanding"}
    BY <1>1, <1>2
  <2> QED BY <1>0, <1>1, <1>2, <2>1, <2>2 DEF Typed, TypeOK
<1>3. CASE Redirect(c)
  <2>1. PICK s \in SUBSET {"r", "w"} :
          s = IF c = "first" /\ HasPipe(line) THEN ends[c] \ {"w"} ELSE ends[c]
    BY <1>0 DEF TypeOK, Processes
  <2>2. ends' = [ends EXCEPT ![c] = s] /\ state[c] = "forked" /\ UNCHANGED <<cwd, command, argv, sent, got>>
    BY <1>3, <2>1 DEF Redirect, shellVars
  <2> QED BY <1>2, <2>2
<1>4. ASSUME NEW d, InArray(d), state' = state, command' = [command EXCEPT ![c] = d],
             UNCHANGED <<cwd, argv, ends, sent, got>>
      PROVE  Typed'
  <2>1. /\ command' \in [Children -> Command]
        /\ \A e \in Children : state'[e] \in {"forked", "expanding"} => InArray(command'[e])
    BY <1>0, <1>4 DEF TypeOK, InArray
  <2> QED BY <1>0, <1>4, <2>1 DEF Typed, TypeOK
<1>5. CASE Expand(c)
  <2>1. /\ state[c] = "expanding" /\ command[c].i < command[c].nr
        /\ IsAlias(aliases, Token(c)) /\ UNCHANGED <<cwd, argv, sent, got>>
    BY <1>5 DEF Expand, shellVars
  <2>2. InArray(command[c]) /\ aliases \in Seq(Entries)
    BY <1>0, <2>1 DEF TypeOK, Entries
  <2>3. PICK words \in Seq(Words) : words = Value(aliases, Token(c))
    BY <2>1, <2>2, ValueType
  <2>4. \/ /\ HasRoom(command[c], words)
           /\ command' = [command EXCEPT ![c] = Replaced(command[c], words)]
           /\ UNCHANGED <<state, ends>>
        \/ state'[c] = "zombie" /\ ends' = [ends EXCEPT ![c] = {}] /\ UNCHANGED command
    <3>1. /\ HasRoom(command[c], words) =>
               /\ command' = [command EXCEPT ![c] = Replaced(@, words)]
               /\ UNCHANGED <<state, ends>>
          /\ ~HasRoom(command[c], words) =>
               /\ state' = [state EXCEPT ![c] = "zombie"]
               /\ ends' = [ends EXCEPT ![c] = {}] /\ UNCHANGED command
      BY <1>5, <2>3, Zenon DEF Expand
    <3> QED BY <1>0, <3>1 DEF TypeOK
  <2>5. CASE HasRoom(command[c], words) /\ state' = state
    BY <1>4, <2>1, <2>2, <2>3, <2>4, <2>5, ReplacedTokens
  <2>6. CASE state'[c] = "zombie"
    BY <1>2, <2>1, <2>4, <2>6
  <2> QED BY <2>4, <2>5, <2>6
<1>6. CASE Keep(c)
  <2>1. /\ state[c] = "expanding" /\ command[c].i < command[c].nr
        /\ command' = [command EXCEPT ![c] = [command[c] EXCEPT !.i = command[c].i + 1]]
        /\ UNCHANGED <<cwd, state, argv, ends, sent, got>>
    BY <1>6 DEF Keep, shellVars
  <2>2. InArray(command[c])
    BY <1>0, <2>1
  <2>3. InArray([command[c] EXCEPT !.i = command[c].i + 1])
    BY <2>1, <2>2 DEF InArray, Command
  <2> QED BY <1>4, <2>1, <2>3
<1>7. CASE Exec(c)
  <2>1. /\ state[c] = "expanding" /\ UNCHANGED <<cwd, sent, got>>
        /\ argv' = [argv EXCEPT ![c] = Argv(command[c])]
        /\ command' = [command EXCEPT ![c] = Idle]
    BY <1>7 DEF Exec, shellVars
  <2>2. Argv(command[c]) \in Seq(Words \union {FREED})
    BY <1>0, <2>1, ArgvType
  <2>3. /\ argv' \in [Children -> Seq(Words \union {FREED})]
        /\ command' \in [Children -> Command]
    BY <1>0, <2>1, <2>2, IdleType DEF TypeOK
  <2>4. state'[c] \in {"running", "zombie"} /\ (ends' = ends \/ ends' = [ends EXCEPT ![c] = {}])
    BY <1>0, <1>7 DEF Exec, TypeOK
  <2>5. ends' \in [Processes -> SUBSET {"r", "w"}]
    BY <1>0, <2>4 DEF TypeOK, Processes
  <2>6. \A d \in Children : state'[d] \in {"forked", "expanding"} => InArray(command'[d])
    BY <1>0, <1>1, <2>1, <2>4 DEF TypeOK
  <2> QED BY <1>0, <1>1, <2>1, <2>3, <2>5, <2>6 DEF Typed, TypeOK
<1>8. CASE Write(c) \/ Read(c)
  <2>1. /\ UNCHANGED <<cwd, state, command, argv, ends>>
        /\ \/ sent' = sent + 1 /\ got' = got
           \/ sent - got > 0 /\ got' = got + 1 /\ sent' = sent
    BY <1>8 DEF Write, Read, InPipe, shellVars
  <2>2. sent' \in Nat /\ got' \in 0..sent'
    BY <1>0, <2>1 DEF TypeOK
  <2> QED BY <1>0, <2>1, <2>2 DEF Typed, TypeOK
<1>9. CASE ProgramExits(c)
  <2>1. /\ state[c] = "running" /\ ends' = [ends EXCEPT ![c] = {}]
        /\ UNCHANGED <<cwd, command, argv, sent, got>> /\ state'[c] = "zombie"
    BY <1>0, <1>9 DEF ProgramExits, shellVars, TypeOK
  <2> QED BY <1>2, <2>1
<1> QED BY <1>3, <1>5, <1>6, <1>7, <1>8, <1>9 DEF ChildStep

LEMMA InitTyped == Init => Typed
<1> SUFFICES ASSUME Init PROVE Typed
  OBVIOUS
<1>1. TypeOK
  BY HomeAssumption, IdleType DEF Init, TypeOK, Children, Processes
<1>2. FitsArray(line)
  BY ArraysAssumption DEF Init, FitsArray
<1> QED BY <1>1, <1>2 DEF Init, Typed, Children

(* The state of the shell and its children keeps its types, whatever is    *)
(* typed: the loop that expands aliases stays in the token array, there is *)
(* a NULL where execvp looks for it, and nobody reads what was not written. *)
THEOREM TypeCorrect == Spec => []TypeOK
<1>1. Init => Typed
  BY InitTyped
<1>2. ASSUME Typed, [Next]_vars PROVE Typed'
  <2>1. CASE ReadLine \/ EndOfInput \/ ShellStep
    BY <1>2, <2>1, TypedByShell
  <2>2. CASE \E c \in Children : ChildStep(c)
    BY <1>2, <2>2, TypedByChildren
  <2>3. CASE Ended \/ UNCHANGED vars
    BY <1>2, <2>3 DEF Ended, vars, Typed, TypeOK, childVars
  <2> QED BY <1>2, <2>1, <2>2, <2>3 DEF Next
<1>3. Typed => TypeOK
  BY DEF Typed
<1> QED BY <1>1, <1>2, <1>3, PTL DEF Spec

-----------------------------------------------------------------------------
(* The expansion of aliases, one word after the other.                     *)

(* The words of an alias that is defined as something. *)
Meaningful(tab) == tab \in Seq(Entries) /\ \A k \in DOMAIN tab : tab[k].vals # <<>>
Values(tab, words) == [j \in 1..Len(words) |-> Value(tab, words[j])]

LEMMA ValueOfWord ==
  ASSUME NEW tab, Meaningful(tab), NEW w \in Words
  PROVE  /\ Value(tab, w) \in Seq(Words) /\ Value(tab, w) # <<>>
         /\ ~IsAlias(tab, w) => Value(tab, w) = <<w>>
<1>1. CASE IsAlias(tab, w)
  <2>1. tab \in Seq(Entries)
    BY DEF Meaningful
  <2> QED BY <1>1, <2>1, ValueType DEF Meaningful
<1>2. CASE ~IsAlias(tab, w)
  <2>1. Value(tab, w) = <<w>>
    BY <1>2 DEF Value
  <2> QED BY <1>2, <2>1
<1> QED BY <1>1, <1>2

LEMMA ValuesOfWords ==
  ASSUME NEW tab, Meaningful(tab), NEW words \in Seq(Words)
  PROVE  /\ Values(tab, words) \in Seq(Seq(Words))
         /\ Len(Values(tab, words)) = Len(words)
         /\ \A j \in 1..Len(words) :
              Values(tab, words)[j] = Value(tab, words[j]) /\ Values(tab, words)[j] # <<>>
         /\ Substituted(tab, words) = FlattenSeq(Values(tab, words))
<1>1. \A j \in 1..Len(words) : Value(tab, words[j]) \in Seq(Words) /\ Value(tab, words[j]) # <<>>
  <2> TAKE j \in 1..Len(words)
  <2>1. words[j] \in Words
    OBVIOUS
  <2> QED BY <2>1, ValueOfWord
<1>2. DOMAIN words = 1..Len(words)
  OBVIOUS
<1> QED BY <1>1, <1>2 DEF Values, Substituted

(* In the array of c, the first m of the words are expanded; f is as in    *)
(* Flattens.                                                               *)
Expanded(c, words, f, m) ==
  /\ InArray(c)
  /\ m \in 0..Len(words)
  /\ c.i = Len(f[m])
  /\ c.nr = Len(f[m]) + (Len(words) - m)
  /\ \A j \in 1..Len(f[m]) : c.tokens[c.base + j - 1] = f[m][j]
  /\ \A j \in 1..(Len(words) - m) : c.tokens[c.base + c.i + j - 1] = words[m + j]

(* The next token of the loop is the next word. *)
LEMMA NextWord ==
  ASSUME NEW words \in Seq(Words), NEW f, NEW c, NEW m,
         Expanded(c, words, f, m), c.i < c.nr
  PROVE  /\ m + 1 \in 1..Len(words)
         /\ c.tokens[c.base + c.i] = words[m + 1]
<1>1. /\ c.base \in Nat /\ c.i \in Nat /\ c.nr \in Nat
  BY DEF Expanded, InArray, Command
<1>2. m \in 0..Len(words) /\ c.nr = c.i + (Len(words) - m)
  BY DEF Expanded
<1>3. m \in Nat /\ Len(words) \in Nat /\ m < Len(words)
  BY <1>1, <1>2
<1>4. c.tokens[c.base + c.i + 1 - 1] = words[m + 1]
  BY <1>3 DEF Expanded
<1>5. c.base + c.i + 1 - 1 = c.base + c.i
  BY <1>1
<1> QED BY <1>3, <1>4, <1>5

(* A word that is not an alias stays where it is. *)
LEMMA KeepExpands ==
  ASSUME NEW tab, Meaningful(tab), NEW words \in Seq(Words), NEW f,
         Flattens(f, Values(tab, words), Words),
         NEW c, NEW m, Expanded(c, words, f, m), c.i < c.nr,
         ~IsAlias(tab, words[m + 1])
  PROVE  Expanded([c EXCEPT !.i = c.i + 1], words, f, m + 1)
<1> DEFINE d == [c EXCEPT !.i = c.i + 1]
<1>1. /\ c \in Command /\ c.base \in Nat /\ c.i \in Nat /\ c.nr \in Nat
  BY DEF Expanded, InArray, Command
<1>2. m + 1 \in 1..Len(words) /\ m \in 0..Len(words) /\ m \in Nat /\ Len(words) \in Nat
  BY NextWord DEF Expanded
<1>3. d.tokens = c.tokens /\ d.base = c.base /\ d.nr = c.nr /\ d.i = c.i + 1
  BY <1>1 DEF Command
<1>4. InArray(d)
  <2>1. d \in Command
    BY <1>1 DEF Command
  <2>2. InArray(c)
    BY DEF Expanded
  <2>3. d.i \in 0..d.nr
    BY <1>1, <1>3
  <2> HIDE DEF d
  <2> QED BY <1>3, <2>1, <2>2, <2>3 DEF InArray
<1>5. PICK w \in Words : w = words[m + 1] /\ Values(tab, words)[m + 1] = <<w>>
  <2>1. words[m + 1] \in Words
    BY <1>2
  <2> QED BY <1>2, <2>1, ValueOfWord, ValuesOfWords
<1>6. f[m + 1] = f[m] \o <<w>> /\ f[m] \in Seq(Words)
  <2>1. Len(Values(tab, words)) = Len(words)
    BY ValuesOfWords
  <2>2. (m + 1) - 1 = m
    BY <1>2
  <2> QED BY <1>2, <1>5, <2>1, <2>2 DEF Flattens
<1>7. PICK a \in Seq(Words) : a = f[m]
  BY <1>6
<1>8. PICK b \in Seq(Words) : b = f[m + 1] /\ b = a \o <<w>>
  <2>1. a \o <<w>> \in Seq(Words)
    OBVIOUS
  <2>2. f[m + 1] = a \o <<w>>
    BY <1>6, <1>7
  <2> QED BY <2>1, <2>2
<1>9. /\ Len(b) = Len(a) + 1 /\ Len(a) \in Nat
      /\ \A j \in 1..Len(a) : b[j] = a[j]
      /\ b[Len(a) + 1] = w
  BY <1>8
<1>10. /\ c.i = Len(a) /\ c.nr = Len(a) + (Len(words) - m)
       /\ \A j \in 1..Len(a) : c.tokens[c.base + j - 1] = a[j]
       /\ \A j \in 1..(Len(words) - m) : c.tokens[c.base + c.i + j - 1] = words[m + j]
  BY <1>7 DEF Expanded
<1>11. c.tokens[c.base + c.i] = w
  BY <1>5, NextWord
<1> HIDE DEF d
<1>12. ASSUME NEW j \in 1..Len(b) PROVE d.tokens[d.base + j - 1] = b[j]
  <2>1. CASE j = Len(a) + 1
    <3>1. d.base + j - 1 = c.base + c.i
      BY <1>1, <1>3, <1>9, <1>10, <2>1
    <3> QED BY <1>3, <1>9, <1>11, <2>1, <3>1
  <2>2. CASE j # Len(a) + 1
    <3>1. j \in 1..Len(a)
      BY <1>9, <2>2
    <3> QED BY <1>3, <1>9, <1>10, <3>1
  <2> QED BY <2>1, <2>2
<1>13. ASSUME NEW j \in 1..(Len(words) - (m + 1))
       PROVE  d.tokens[d.base + d.i + j - 1] = words[m + 1 + j]
  <2>1. j + 1 \in 1..(Len(words) - m)
    BY <1>2
  <2>2. c.base + c.i + (j + 1) - 1 = d.base + d.i + j - 1 /\ m + (j + 1) = m + 1 + j
    BY <1>1, <1>2, <1>3, SMTT(40)
  <2>3. c.tokens[c.base + c.i + (j + 1) - 1] = words[m + (j + 1)]
    BY <1>10, <2>1
  <2> QED BY <1>3, <2>2, <2>3
<1>14. d.i = Len(b) /\ d.nr = Len(b) + (Len(words) - (m + 1)) /\ m + 1 \in 0..Len(words)
  BY <1>2, <1>3, <1>9, <1>10
<1> QED BY <1>4, <1>8, <1>12, <1>13, <1>14 DEF Expanded, d

(* An alias is replaced by its words. *)
LEMMA AliasExpands ==
  ASSUME NEW tab, Meaningful(tab), NEW words \in Seq(Words), NEW f,
         Flattens(f, Values(tab, words), Words),
         NEW c, NEW m, Expanded(c, words, f, m), c.i < c.nr,
         HasRoom(c, Value(tab, words[m + 1]))
  PROVE  Expanded(Replaced(c, Value(tab, words[m + 1])), words, f, m + 1)
<1>1. /\ c \in Command /\ c.base \in Nat /\ c.i \in Nat /\ c.nr \in Nat /\ InArray(c)
      /\ c.base + c.nr \in Slots
  BY DEF Expanded, InArray, Command
<1>2. m + 1 \in 1..Len(words) /\ m \in 0..Len(words) /\ m \in Nat /\ Len(words) \in Nat
  BY NextWord DEF Expanded
<1>3. PICK v \in Seq(Words) : v = Value(tab, words[m + 1]) /\ v # <<>>
  <2>1. words[m + 1] \in Words
    BY <1>2
  <2> QED BY <2>1, ValueOfWord
<1>4. f[m + 1] = f[m] \o v /\ f[m] \in Seq(Words)
  <2>1. Len(Values(tab, words)) = Len(words) /\ Values(tab, words)[m + 1] = v
    BY <1>2, <1>3, ValuesOfWords
  <2>2. (m + 1) - 1 = m
    BY <1>2
  <2> QED BY <1>2, <2>1, <2>2 DEF Flattens
<1>5. PICK a \in Seq(Words) : a = f[m]
  BY <1>4
<1>6. PICK b \in Seq(Words) : b = f[m + 1] /\ b = a \o v
  <2>1. a \o v \in Seq(Words)
    OBVIOUS
  <2>2. f[m + 1] = a \o v
    BY <1>4, <1>5
  <2> QED BY <2>1, <2>2
<1>7. PICK k \in Nat : k = Len(v) /\ k # 0
  BY <1>3
<1>8. /\ Len(b) = Len(a) + k /\ Len(a) \in Nat
      /\ \A j \in 1..Len(a) : b[j] = a[j]
      /\ \A j \in 1..k : b[Len(a) + j] = v[j]
  BY <1>6, <1>7
<1>9. /\ c.i = Len(a) /\ c.nr = Len(a) + (Len(words) - m)
      /\ \A j \in 1..Len(a) : c.tokens[c.base + j - 1] = a[j]
      /\ \A j \in 1..(Len(words) - m) : c.tokens[c.base + c.i + j - 1] = words[m + j]
  BY <1>5 DEF Expanded
<1>10. PICK d : d = Replaced(c, v)
  OBVIOUS
<1>11. /\ InArray(d)
       /\ d.base = c.base /\ d.nr = c.nr + k - 1 /\ d.i = c.i + k
       /\ \A j \in Slots : j < c.base + c.i => d.tokens[j] = c.tokens[j]
       /\ \A j \in 1..k : d.tokens[c.base + c.i + j - 1] = v[j]
       /\ \A j \in (c.base + c.i + 1)..(c.base + c.nr - 1) : d.tokens[j + k - 1] = c.tokens[j]
  <2>1. HasRoom(c, v)
    BY <1>3
  <2>2. c.i < c.nr
    OBVIOUS
  <2>3. LET n == Len(v)
            at == c.base + c.i
            e == Replaced(c, v)
        IN  /\ InArray(e)
            /\ e.base = c.base /\ e.nr = c.nr + n - 1 /\ e.i = c.i + n
            /\ \A j \in Slots : j < at => e.tokens[j] = c.tokens[j]
            /\ \A j \in 1..n : e.tokens[at + j - 1] = v[j]
            /\ n # 0 => \A j \in (at + 1)..(c.base + c.nr - 1) :
                          e.tokens[j + n - 1] = c.tokens[j]
    BY <1>1, <2>1, <2>2, ReplacedTokens
  <2> QED BY <1>7, <1>10, <2>3, Zenon
<1>12. PICK base, at, nr, len, wlen \in Nat :
        base = c.base /\ at = c.i /\ nr = c.nr /\ len = Len(a) /\ wlen = Len(words)
  BY <1>1, <1>2, <1>8
<1>13. /\ at = len /\ nr = len + (wlen - m) /\ m < wlen /\ Len(b) = len + k
      /\ d.base = base /\ d.nr = nr + k - 1 /\ d.i = at + k
      /\ base + nr \in 0..(MAX_NR_TOKENS - 1) /\ MAX_NR_TOKENS \in Nat
  BY <1>1, <1>2, <1>8, <1>9, <1>11, <1>12, ArraysAssumption DEF Slots
<1>14. ASSUME NEW j \in 1..Len(b) PROVE d.tokens[d.base + j - 1] = b[j]
  <2>1. CASE j \in 1..Len(a)
    <3>0. j \in Nat /\ 1 <= j /\ j <= at /\ at <= nr
      BY <1>2, <1>12, <1>13, <2>1
    <3>1. base + j - 1 \in Slots /\ base + j - 1 < base + at
      BY <1>13, <3>0 DEF Slots
    <3> QED BY <1>8, <1>9, <1>11, <1>12, <2>1, <3>1
  <2>2. CASE j \notin 1..Len(a)
    <3>1. PICK n \in 1..k : j = Len(a) + n
      <4>1. j \in Nat /\ 1 <= j /\ j <= len + k
        BY <1>13
      <4>2. ~(j <= len)
        BY <1>12, <2>2, <4>1
      <4>3. j - len \in 1..k /\ j = len + (j - len)
        BY <4>1, <4>2
      <4> QED BY <1>12, <4>3
    <3>2. d.base + j - 1 = base + at + n - 1
      <4>1. d.base = base /\ at = len /\ j = len + n /\ n \in Nat
        BY <1>12, <1>13, <3>1
      <4> QED BY <4>1
    <3> QED BY <1>8, <1>11, <1>12, <3>1, <3>2
  <2> QED BY <2>1, <2>2
<1>15. ASSUME NEW j \in 1..(Len(words) - (m + 1))
       PROVE  d.tokens[d.base + d.i + j - 1] = words[m + 1 + j]
  <2>1. j + 1 \in 1..(Len(words) - m) /\ m + (j + 1) = m + 1 + j
    BY <1>2
  <2>2. c.tokens[c.base + c.i + (j + 1) - 1] = words[m + 1 + j]
    BY <1>9, <2>1
  <2>3. PICK n : n = c.base + c.i + (j + 1) - 1
    OBVIOUS
  <2>4. /\ n \in (base + at + 1)..(base + nr - 1)
        /\ n + k - 1 = base + (at + k) + j - 1
    <3>1. n = base + at + (j + 1) - 1
      BY <1>12, <2>3
    <3>2. j \in Nat /\ 1 <= j /\ j <= wlen - (m + 1)
      BY <1>2, <1>12, <1>13
    <3>3. nr = at + (wlen - m)
      BY <1>13
    <3> QED BY <1>2, <3>1, <3>2, <3>3
  <2>5. n \in (c.base + c.i + 1)..(c.base + c.nr - 1) /\ n + k - 1 = d.base + d.i + j - 1
    BY <1>12, <1>13, <2>4
  <2>6. d.tokens[n + k - 1] = c.tokens[n]
    BY <1>11, <2>5
  <2> QED BY <2>2, <2>3, <2>5, <2>6
<1>16. d.i = Len(b) /\ d.nr = Len(b) + (Len(words) - (m + 1)) /\ m + 1 \in 0..Len(words)
  BY <1>2, <1>12, <1>13
<1> QED BY <1>3, <1>6, <1>10, <1>11, <1>14, <1>15, <1>16 DEF Expanded

(* If the whole of it has room, so has every alias on the way. *)
LEMMA RoomForAlias ==
  ASSUME NEW tab, Meaningful(tab), NEW words \in Seq(Words), NEW f,
         Flattens(f, Values(tab, words), Words),
         NEW c, NEW m, Expanded(c, words, f, m), c.i < c.nr,
         c.base + Len(Substituted(tab, words)) < MAX_NR_TOKENS
  PROVE  HasRoom(c, Value(tab, words[m + 1]))
<1>1. /\ c.base \in Nat /\ c.i \in Nat /\ c.nr \in Nat
  BY DEF Expanded, InArray, Command
<1>2. m + 1 \in 1..Len(words) /\ m \in 0..Len(words) /\ m \in Nat /\ Len(words) \in Nat
  BY NextWord DEF Expanded
<1>3. PICK vs \in Seq(Seq(Words)) :
         /\ vs = Values(tab, words) /\ Len(vs) = Len(words)
         /\ Substituted(tab, words) = FlattenSeq(vs)
         /\ vs[m + 1] = Value(tab, words[m + 1])
         /\ \A j \in 1..Len(vs) : vs[j] # <<>>
  BY <1>2, ValuesOfWords
<1>4. Flattens(f, vs, Words) /\ m + 1 \in 0..Len(vs)
  BY <1>2, <1>3
<1>5. Len(f[Len(vs)]) >= Len(f[m + 1]) + (Len(vs) - (m + 1))
  BY <1>3, <1>4, FlattenedLength
<1>6. /\ f[m + 1] = f[m] \o vs[m + 1] /\ f[m] \in Seq(Words) /\ vs[m + 1] \in Seq(Words)
      /\ FlattenSeq(vs) = f[Len(vs)] /\ f[Len(vs)] \in Seq(Words)
  <2>1. (m + 1) - 1 = m /\ m + 1 \in 1..Len(vs) /\ m \in 0..Len(vs)
    BY <1>2, <1>3
  <2>2. vs[m + 1] \in Seq(Words)
    BY <2>1
  <2>3. Len(vs) \in 0..Len(vs)
    BY <1>2, <1>3
  <2>4. f \in [0..Len(vs) -> Seq(Words)]
    BY <1>4 DEF Flattens
  <2>5. f[m] \in Seq(Words) /\ f[Len(vs)] \in Seq(Words)
    BY <2>1, <2>3, <2>4
  <2>6. f[m + 1] = f[(m + 1) - 1] \o vs[m + 1] /\ FlattenSeq(vs) = f[Len(vs)]
    BY <1>4, <2>1, Zenon DEF Flattens
  <2> QED BY <2>1, <2>2, <2>5, <2>6
<1>7. PICK a, v \in Seq(Words) : a = f[m] /\ v = vs[m + 1]
  BY <1>6
<1>8. Len(f[m + 1]) = Len(a) + Len(v) /\ Len(a) \in Nat /\ Len(v) \in Nat
  BY <1>6, <1>7
<1>9. PICK n \in Nat : n = Len(f[Len(vs)]) /\ c.base + n < MAX_NR_TOKENS
  BY <1>3, <1>6
<1>10. c.nr = Len(a) + (Len(words) - m)
  BY <1>7 DEF Expanded
<1>11. c.base + c.nr + Len(v) - 1 < MAX_NR_TOKENS
  <2>1. PICK base, nr, la, lv, wlen \in Nat :
          /\ base = c.base /\ nr = c.nr /\ la = Len(a) /\ lv = Len(v) /\ wlen = Len(words)
    BY <1>1, <1>2, <1>8
  <2>2. n >= (la + lv) + (wlen - (m + 1)) /\ base + n < MAX_NR_TOKENS
    BY <1>3, <1>5, <1>8, <1>9, <2>1
  <2>3. nr = la + (wlen - m) /\ MAX_NR_TOKENS \in Nat
    BY <1>10, <2>1, ArraysAssumption
  <2>4. base + nr + lv - 1 < MAX_NR_TOKENS
    BY <1>2, <2>2, <2>3
  <2> QED BY <2>1, <2>4
<1> QED BY <1>3, <1>7, <1>11 DEF HasRoom

(* What execvp is given in the end. *)
LEMMA ExecGetsAll ==
  ASSUME NEW tab, Meaningful(tab), NEW words \in Seq(Words), NEW f,
         Flattens(f, Values(tab, words), Words),
         NEW c, NEW m, Expanded(c, words, f, m), c.i >= c.nr
  PROVE  Argv(c) = Substituted(tab, words)
<1>1. c.base \in Nat /\ c.i \in Nat /\ c.nr \in Nat /\ InArray(c)
  BY DEF Expanded, InArray, Command
<1>2. m = Len(words) /\ c.nr = c.i
  <2>1. c.i <= c.nr
    BY <1>1 DEF InArray
  <2>2. m \in 0..Len(words) /\ c.nr = c.i + (Len(words) - m) /\ Len(words) \in Nat
    BY DEF Expanded
  <2> QED BY <1>1, <2>1, <2>2
<1>3. PICK all \in Seq(Words) : all = f[m] /\ Substituted(tab, words) = all
  BY <1>2, ValuesOfWords DEF Flattens
<1>4. c.nr = Len(all) /\ \A j \in 1..Len(all) : c.tokens[c.base + j - 1] = all[j]
  BY <1>2, <1>3 DEF Expanded
<1>5. ASSUME NEW j \in c.base..(c.base + c.nr - 1) PROVE c.tokens[j] # NULL
  <2>1. PICK n : n = j - c.base + 1
    OBVIOUS
  <2>2. n \in 1..Len(all) /\ c.base + n - 1 = j
    BY <1>1, <1>4, <2>1
  <2>3. all[n] \in Words
    BY <2>2
  <2> QED BY <1>4, <2>2, <2>3, PointersAssumption
<1>6. /\ Argv(c) \in Seq(Words \union {FREED})
      /\ Len(Argv(c)) = c.nr
      /\ \A j \in 1..c.nr : Argv(c)[j] = c.tokens[c.base + j - 1]
  BY <1>1, <1>5, ArgvType
<1>7. PICK args \in Seq(Words \union {FREED}) : args = Argv(c)
  BY <1>6
<1>8. Len(args) = Len(all) /\ \A j \in 1..Len(all) : args[j] = all[j]
  BY <1>4, <1>6, <1>7
<1>9. all \in Seq(Words \union {FREED})
  OBVIOUS
<1>10. args = all
  BY <1>8, <1>9
<1> QED BY <1>3, <1>7, <1>10

(* What a child is given is its side of the line, with nothing expanded.   *)
Base(c, l) == IF HasPipe(l) /\ c = "first" THEN Bar(l) ELSE 0

LEMMA SideType ==
  ASSUME NEW l \in Seq(Words), NEW c \in Children
  PROVE  Side(c, l) \in Seq(Words)
<1>1. CASE HasPipe(l)
  <2>1. Bar(l) \in 1..Len(l)
    BY <1>1, BarProperties
  <2> QED BY <1>1, <2>1 DEF Side
<1> QED BY <1>1 DEF Side

LEMMA GivenExpanded ==
  ASSUME line \in Seq(Words), FitsArray(line), NEW c \in Children,
         NEW f, f[0] = <<>>
  PROVE  Expanded(Given(c), Side(c, line), f, 0) /\ Given(c).base = Base(c, line)
<1>1. InArray(Given(c)) /\ Side(c, line) \in Seq(Words)
  BY GivenInArray, SideType
<1>2. PICK words \in Seq(Words) : words = Side(c, line)
  BY <1>1
<1>3. \A j \in Slots : Tokenized(line)[j] = IF j < Len(line) THEN line[j + 1] ELSE NULL
  BY TokenizedType
<1>4. PICK len \in Nat : len = Len(line) /\ len \in Slots
  BY TokenizedType
<1>0. ASSUME NEW k \in Nat, k <= len PROVE k \in Slots
  BY <1>0, <1>4, ArraysAssumption DEF Slots
<1>5. ASSUME \A j \in 1..Len(words) : Given(c).tokens[Given(c).base + j - 1] = words[j],
             Given(c).i = 0, Given(c).nr = Len(words), Given(c).base = Base(c, line)
      PROVE  Expanded(Given(c), Side(c, line), f, 0) /\ Given(c).base = Base(c, line)
  <2>1. Len(<<>>) = 0 /\ Len(words) \in Nat
    OBVIOUS
  <2>2. PICK base, n \in Nat : base = Given(c).base /\ n = Len(words)
    BY <1>1, <2>1 DEF InArray, Command
  <2>3. \A j \in 1..(n - 0) : Given(c).tokens[base + 0 + j - 1] = words[0 + j]
    <3> TAKE j \in 1..(n - 0)
    <3>1. base + 0 + j - 1 = base + j - 1 /\ 0 + j = j /\ j \in 1..n
      OBVIOUS
    <3> QED BY <1>5, <2>2, <3>1
  <2> QED BY <1>1, <1>2, <1>5, <2>1, <2>2, <2>3 DEF Expanded
<1>6. CASE ~HasPipe(line)
  <2>1. Given(c) = [tokens |-> Tokenized(line), base |-> 0, nr |-> Len(line), i |-> 0]
    BY <1>6, SideLength DEF Given
  <2>2. words = line
    BY <1>2, <1>6 DEF Side
  <2>3. ASSUME NEW j \in 1..Len(words) PROVE Tokenized(line)[0 + j - 1] = words[j]
    <3>1. j \in 1..len
      BY <1>4, <2>2
    <3>2. 0 + j - 1 \in Nat /\ 0 + j - 1 < len /\ 0 + j - 1 <= len /\ (0 + j - 1) + 1 = j
      BY <3>1
    <3> QED BY <1>0, <1>3, <1>4, <2>2, <3>2
  <2> QED BY <1>5, <1>6, <2>1, <2>2, <2>3 DEF Base
<1>7. CASE HasPipe(line)
  <2>1. Bar(line) \in 1..Len(line) /\ Bar(line) - 1 \in Slots
    <3>1. Bar(line) \in 1..len
      BY <1>4, <1>7, BarProperties
    <3>2. Bar(line) - 1 \in Nat /\ Bar(line) - 1 <= len
      BY <3>1
    <3> QED BY <1>0, <1>4, <3>1, <3>2
  <2>2. PICK bar \in Nat : bar = Bar(line) /\ bar \in 1..len
    BY <1>4, <2>1
  <2> DEFINE split == [Tokenized(line) EXCEPT ![bar - 1] = NULL]
  <2>3. Given(c) = [tokens |-> split, base |-> IF c = "first" THEN bar ELSE 0,
                    nr |-> Len(words), i |-> 0]
    BY <1>2, <1>7, <2>2 DEF Given
  <2>4. \A j \in Slots : j # bar - 1 => split[j] = IF j < len THEN line[j + 1] ELSE NULL
    BY <1>3, <1>4, TokenizedType DEF TokenArray
  <2> HIDE DEF split
  <2>5. CASE c = "first"
    <3>1. words = SubSeq(line, bar + 1, len)
      BY <1>2, <1>4, <1>7, <2>2, <2>5 DEF Side
    <3>2. Len(words) = len - bar /\ \A j \in 1..Len(words) : words[j] = line[bar + j]
      BY <1>4, <2>2, <3>1
    <3>3. ASSUME NEW j \in 1..Len(words) PROVE split[bar + j - 1] = words[j]
      <4>1. j \in 1..(len - bar)
        BY <3>2
      <4>2. /\ bar + j - 1 \in Nat /\ bar + j - 1 # bar - 1 /\ bar + j - 1 < len
            /\ bar + j - 1 <= len /\ (bar + j - 1) + 1 = bar + j
        BY <2>2, <4>1
      <4> QED BY <1>0, <2>4, <3>2, <4>2
    <3>4. Given(c).base = bar /\ Base(c, line) = bar
      BY <1>7, <2>2, <2>3, <2>5 DEF Base
    <3> QED BY <1>5, <2>3, <3>3, <3>4
  <2>6. CASE c # "first"
    <3>1. words = SubSeq(line, 1, bar - 1)
      BY <1>2, <1>7, <2>2, <2>6 DEF Side
    <3>2. Len(words) = bar - 1 /\ \A j \in 1..Len(words) : words[j] = line[j]
      BY <1>4, <2>2, <3>1
    <3>3. ASSUME NEW j \in 1..Len(words) PROVE split[0 + j - 1] = words[j]
      <4>1. j \in 1..(bar - 1)
        BY <3>2
      <4>2. /\ 0 + j - 1 \in Nat /\ 0 + j - 1 # bar - 1 /\ 0 + j - 1 < len
            /\ 0 + j - 1 <= len /\ (0 + j - 1) + 1 = j
        BY <2>2, <4>1
      <4> QED BY <1>0, <2>4, <3>2, <4>2
    <3>4. Given(c).base = 0 /\ Base(c, line) = 0
      BY <1>7, <2>2, <2>3, <2>6 DEF Base
    <3> QED BY <1>5, <2>3, <3>3, <3>4
  <2> QED BY <2>5, <2>6
<1> QED BY <1>6, <1>7

-----------------------------------------------------------------------------
(* For a user who keeps to the rules about aliases, on a system whose      *)
(* fork() does not fail, the line is carried out as it was read.           *)
Keeping == {"forks", "words", "room", "counts"} \subseteq Discipline

Rule(l) == HasWords(l) /\ HasPlace(l) /\ IsCounted(l)
Expands(c) ==
  \E f : \E m :
    /\ Flattens(f, Values(aliases, Side(c, line)), Words)
    /\ Expanded(command[c], Side(c, line), f, m)
    /\ command[c].base = Base(c, line)

Underway == {"fork", "fork2", "wait2", "wait"}
Faithful ==
  /\ pc \notin {"waitany", "smashed"}
  /\ pc = "run" => line \in Lines /\ Rule(line)
  /\ pc \in Underway => line \in Lines /\ HasPlace(line) /\ ~BuiltIn(line)
  /\ pc \in {"fork2", "wait2"} => HasPipe(line)
  /\ pc = "wait" /\ HasPipe(line) => state["second"] = "reaped"
  /\ state["second"] # "none" => HasPipe(line)
  /\ \A c \in Children : state[c] \in {"forked", "expanding"} => Expands(c)
Obeyed == Typed /\ Accounted /\ Meaningful(aliases) /\ Faithful

LEMMA DefinedMeaningful ==
  ASSUME NEW tab, Meaningful(tab), NEW key \in Words, NEW vals \in Seq(Words), vals # <<>>
  PROVE  Meaningful(Defined(tab, key, vals))
<1>1. tab \in Seq(Entries) /\ \A k \in DOMAIN tab : tab[k].vals # <<>>
  BY DEF Meaningful
<1>2. Defined(tab, key, vals) \in Seq(Entries)
  BY <1>1, DefinedKeys
<1>3. CASE IsAlias(tab, key)
  <2>1. Defined(tab, key, vals) = [k \in DOMAIN tab |->
          IF FoundAt(tab, key, k) THEN [tab[k] EXCEPT !.vals = vals] ELSE tab[k]]
    BY <1>3 DEF Defined
  <2>2. ASSUME NEW k \in DOMAIN tab PROVE Defined(tab, key, vals)[k].vals # <<>>
    <3>1. PICK e \in Entries : e = tab[k]
      BY <1>1
    <3>2. [e EXCEPT !.vals = vals].vals = vals
      BY DEF Entries
    <3> QED BY <1>1, <2>1, <3>1, <3>2
  <2> QED BY <1>2, <2>1, <2>2 DEF Meaningful
<1>4. CASE ~IsAlias(tab, key)
  <2>1. PICK new : new = [key |-> key, vals |-> vals]
    OBVIOUS
  <2>2. Defined(tab, key, vals) = Append(tab, new) /\ new \in Entries /\ new.vals # <<>>
    BY <1>4, <2>1 DEF Defined, Entries
  <2>3. ASSUME NEW k \in 1..Len(Append(tab, new)) PROVE Append(tab, new)[k].vals # <<>>
    <3>1. PICK n \in Nat : n = Len(tab)
      BY <1>1
    <3>2. k \in 1..(n + 1) /\ Append(tab, new)[k] = IF k <= n THEN tab[k] ELSE new
      BY <1>1, <2>2, <3>1
    <3>3. k <= n => k \in DOMAIN tab
      BY <1>1, <3>1, <3>2
    <3> QED BY <1>1, <2>2, <3>2, <3>3
  <2> QED BY <1>2, <2>2, <2>3 DEF Meaningful
<1> QED BY <1>3, <1>4

(* What stays as it is while a line is carried out. *)
LEMMA FaithfulWhileUnderway ==
  ASSUME UNCHANGED <<line, aliases>>
  PROVE  /\ HasPlace(line)' <=> HasPlace(line)
         /\ BuiltIn(line)' <=> BuiltIn(line)
         /\ HasPipe(line)' <=> HasPipe(line)
         /\ Rule(line)' <=> Rule(line)
         /\ Meaningful(aliases)' <=> Meaningful(aliases)
         /\ \A c \in Children : command'[c] = command[c] /\ Expands(c) => Expands(c)'
<1>1. /\ HasPlace(line)' <=> HasPlace(line)
      /\ BuiltIn(line)' <=> BuiltIn(line)
      /\ HasPipe(line)' <=> HasPipe(line)
  BY DEF HasPlace, Meant, BuiltIn, HasPipe
<1>2. Rule(line)' <=> Rule(line)
  BY <1>1 DEF Rule, HasWords, IsCounted
<1>3. Meaningful(aliases)' <=> Meaningful(aliases)
  BY DEF Meaningful
<1>4. ASSUME NEW c \in Children, command'[c] = command[c], Expands(c)
      PROVE  Expands(c)'
  BY <1>4 DEF Expands
<1> QED BY <1>1, <1>2, <1>3, <1>4

LEMMA ExpandsGiven ==
  ASSUME line \in Seq(Words), FitsArray(line), Meaningful(aliases), NEW c \in Children,
         command'[c] = Given(c), UNCHANGED <<line, aliases>>
  PROVE  Expands(c)'
<1>1. Side(c, line) \in Seq(Words)
  BY SideType
<1>2. Values(aliases, Side(c, line)) \in Seq(Seq(Words))
  BY <1>1, ValuesOfWords
<1>3. PICK ss \in Seq(Seq(Words)) : ss = Values(aliases, Side(c, line))
  BY <1>2
<1>4. PICK f : Flattens(f, ss, Words)
  BY Flattening
<1>5. Expanded(Given(c), Side(c, line), f, 0) /\ Given(c).base = Base(c, line)
  BY <1>4, GivenExpanded DEF Flattens
<1>6. /\ Flattens(f, Values(aliases', Side(c, line')), Words)
      /\ Expanded(command'[c], Side(c, line'), f, 0)
      /\ command'[c].base = Base(c, line')
  BY <1>3, <1>4, <1>5
<1> QED BY <1>6, Zenon DEF Expands

(* There is place for what a child is to run. *)
LEMMA PlaceOfSide ==
  ASSUME NEW c \in Children, HasPlace(line), ~BuiltIn(line),
         NEW tab, NEW words, NEW cmd, tab = aliases, words = Side(c, line), cmd = command[c],
         Meaningful(tab), words \in Seq(Words), NEW f, NEW m,
         Flattens(f, Values(tab, words), Words), Expanded(cmd, words, f, m),
         cmd.base = Base(c, line)
  PROVE  cmd.base + Len(Substituted(tab, words)) < MAX_NR_TOKENS
<1>1. Len(Meant(c, line)) + Base(c, line) < MAX_NR_TOKENS
  BY DEF HasPlace, Base
<1>2. Meant(c, line) = Substituted(tab, words)
  BY DEF Meant
<1>3. Substituted(tab, words) = f[Len(Values(tab, words))] /\ f[Len(Values(tab, words))] \in Seq(Words)
  <2>1. Values(tab, words) \in Seq(Seq(Words)) /\ Substituted(tab, words) = f[Len(Values(tab, words))]
    BY ValuesOfWords DEF Flattens
  <2> QED BY <2>1, SMTT(40) DEF Flattens
<1>4. Len(Substituted(tab, words)) \in Nat /\ cmd.base \in Nat
  BY <1>3 DEF Expanded, InArray, Command
<1> QED BY <1>1, <1>2, <1>4

LEMMA FaithfulByShell ==
  ASSUME Keeping, Obeyed, ReadLine \/ EndOfInput \/ ShellStep
  PROVE  Meaningful(aliases)' /\ Faithful'
<1>0. /\ TypeOK /\ FitsArray(line) /\ Accounted /\ Meaningful(aliases) /\ Faithful
      /\ state \in [Children -> States]
      /\ line \in Seq(Words)
  <2>1. TypeOK /\ FitsArray(line) /\ Accounted
    BY DEF Obeyed, Typed
  <2>2. line \in Seq(Words)
    <3>1. Lines \subseteq Seq(Words)
      BY LinesAssumption, Zenon
    <3>2. line \in Lines \union {<<>>} /\ <<>> \in Seq(Words)
      BY <2>1 DEF TypeOK
    <3> QED BY <3>1, <3>2
  <2> QED BY <2>1, <2>2 DEF Obeyed, Accounted
<1>a. Children = {"first", "second"}
  BY DEF Children
<1>1. CASE ReadLine
  <2>1. /\ pc = "prompt"
        /\ \E l \in Lines : MayType(l) /\ IF FitsArray(l) THEN pc' = "run" /\ line' = l
                                                          ELSE pc' = "smashed" /\ UNCHANGED line
        /\ UNCHANGED <<aliases, state, command>>
    BY <1>1, Zenon DEF ReadLine, childVars
  <2>2. PICK l \in Lines : MayType(l) /\ IF FitsArray(l) THEN pc' = "run" /\ line' = l
                                                       ELSE pc' = "smashed" /\ UNCHANGED line
    BY <2>1
  <2>3. Rule(l)
    BY <2>2 DEF Keeping, MayType, Rule
  <2>4. pc' = "run" /\ line' = l
    BY <2>2, <2>3 DEF Rule, HasPlace
  <2>5. Rule(line)'
    BY <2>1, <2>3, <2>4 DEF Rule, HasPlace, HasWords, IsCounted, Meant
  <2>6. Meaningful(aliases)'
    BY <1>0, <2>1 DEF Meaningful
  <2>7. state'["first"] = "none" /\ state'["second"] = "none"
    BY <1>0, <2>1 DEF Accounted, Waits
  <2> QED BY <1>a, <2>4, <2>5, <2>6, <2>7 DEF Faithful, Underway
<1>2. CASE EndOfInput \/ Exit \/ ChangeDirectory \/ ListAliases
  <2>1. pc \in {"prompt", "run"} /\ pc' \in {"prompt", "exited"} /\ UNCHANGED <<aliases, state>>
    BY <1>2 DEF EndOfInput, Exit, ChangeDirectory, ListAliases, Return, RunsBuiltIn, childVars
  <2>2. state'["first"] = "none" /\ state'["second"] = "none"
    BY <1>0, <2>1 DEF Accounted, Waits
  <2>3. Meaningful(aliases)'
    BY <1>0, <2>1 DEF Meaningful
  <2> QED BY <1>a, <2>1, <2>2, <2>3 DEF Faithful, Underway
<1>3. CASE DefineAlias
  <2>1. /\ pc = "run" /\ ~HasPipe(line) /\ line[1] = "alias" /\ Len(line) > 1
        /\ aliases' = Defined(aliases, line[2], SubSeq(line, 3, Len(line)))
        /\ IF HasCount(aliases, line[2]) THEN pc' = "prompt" ELSE pc' = "smashed"
        /\ UNCHANGED state
    BY <1>3 DEF DefineAlias, Return, RunsBuiltIn, childVars
  <2>2. Rule(line)
    BY <1>0, <2>1 DEF Faithful
  <2>3. BuiltIn(line)
    BY <2>1 DEF BuiltIn
  <2>4. Len(line) # 2 /\ HasCount(aliases, line[2])
    BY <2>1, <2>2, <2>3 DEF Rule, HasWords, IsCounted
  <2>5. /\ line[2] \in Words /\ SubSeq(line, 3, Len(line)) \in Seq(Words)
        /\ SubSeq(line, 3, Len(line)) # <<>>
    <3>1. PICK l \in Seq(Words) : l = line /\ Len(l) > 1 /\ Len(l) # 2
      BY <1>0, <2>1, <2>4
    <3>2. PICK n \in Nat : n = Len(l) /\ n > 2
      <4>1. PICK n \in Nat : n = Len(l)
        OBVIOUS
      <4>2. n > 1 /\ n # 2
        BY <3>1, <4>1
      <4>3. n > 2
        BY <4>2
      <4> QED BY <4>1, <4>3
    <3>3. l[2] \in Words /\ \A i \in 3..n : l[i] \in Words
      BY <3>2
    <3>4. PICK s : s = SubSeq(l, 3, n)
      OBVIOUS
    <3>5. s \in Seq(Words) /\ Len(s) = n - 2
      <4>1. /\ SubSeq(l, 3, n) \in Seq(Words)
            /\ Len(SubSeq(l, 3, n)) = IF 3 <= n THEN n - 3 + 1 ELSE 0
        BY <3>2, <3>3, SubSeqProperties
      <4> QED BY <3>2, <3>4, <4>1
    <3>6. s # <<>>
      BY <3>2, <3>5
    <3> QED BY <3>1, <3>2, <3>3, <3>4, <3>5, <3>6
  <2>6. Meaningful(aliases')
    BY <1>0, <2>1, <2>5, DefinedMeaningful
  <2>7. state'["first"] = "none" /\ state'["second"] = "none" /\ pc' = "prompt"
    BY <1>0, <2>1, <2>4 DEF Accounted, Waits
  <2>8. Meaningful(aliases)'
    BY <2>6 DEF Meaningful
  <2> QED BY <1>a, <2>7, <2>8 DEF Faithful, Underway
<1>4. CASE OpenPipe \/ RunProgram
  <2>1. /\ pc = "run" /\ pc' = "fork" /\ UNCHANGED <<line, aliases, state>>
        /\ ~BuiltIn(line)
    BY <1>4 DEF OpenPipe, RunProgram, childVars, BuiltIn
  <2>2. state'["first"] = "none" /\ state'["second"] = "none"
    BY <1>0, <2>1 DEF Accounted, Waits
  <2>3. line \in Lines /\ HasPlace(line)
    BY <1>0, <2>1 DEF Faithful, Rule
  <2> QED BY <1>0, <1>a, <2>1, <2>2, <2>3, FaithfulWhileUnderway DEF Faithful, Underway
<1>5. CASE Fork
  <2>1. /\ pc = "fork" /\ pc' = IF HasPipe(line) THEN "fork2" ELSE "wait"
        /\ state' = [state EXCEPT !["first"] = "forked"]
        /\ command' = [command EXCEPT !["first"] = Given("first")]
        /\ UNCHANGED <<line, aliases>>
    BY <1>5 DEF Fork, Born
  <2>2. state["second"] = "none" /\ state'["second"] = "none"
    BY <1>0, <2>1 DEF Accounted, Waits
  <2>3. line \in Lines /\ HasPlace(line) /\ ~BuiltIn(line)
    BY <1>0, <2>1 DEF Faithful, Underway
  <2>4. command'["first"] = Given("first")
    BY <1>0, <1>a, <2>1 DEF TypeOK
  <2>5. Expands("first")'
    BY <1>0, <1>a, <2>1, <2>4, ExpandsGiven
  <2>6. \A c \in Children : state'[c] \in {"forked", "expanding"} => Expands(c)'
    BY <1>a, <2>2, <2>5
  <2> QED BY <1>0, <2>1, <2>2, <2>3, <2>6, FaithfulWhileUnderway DEF Faithful, Underway
<1>6. CASE Fork2
  <2>1. /\ pc = "fork2" /\ pc' = "wait2"
        /\ state' = [state EXCEPT !["second"] = "forked"]
        /\ command' = [command EXCEPT !["second"] = Given("second")]
        /\ UNCHANGED <<line, aliases>>
    BY <1>6 DEF Fork2, Born
  <2>2. state'["first"] = state["first"] /\ command'["first"] = command["first"]
    BY <1>0, <1>a, <2>1 DEF TypeOK
  <2>3. line \in Lines /\ HasPlace(line) /\ ~BuiltIn(line) /\ HasPipe(line)
    BY <1>0, <2>1 DEF Faithful, Underway
  <2>4. command'["second"] = Given("second")
    BY <1>0, <1>a, <2>1 DEF TypeOK
  <2>5. Expands("second")'
    BY <1>0, <1>a, <2>1, <2>4, ExpandsGiven
  <2>6. \A c \in Children : state'[c] \in {"forked", "expanding"} => Expands(c)'
    <3>1. state["first"] \in {"forked", "expanding"} => Expands("first")'
      BY <1>0, <1>a, <2>1, <2>2, FaithfulWhileUnderway DEF Faithful
    <3> QED BY <1>a, <2>2, <2>5, <3>1
  <2> QED BY <1>0, <2>1, <2>3, <2>6, FaithfulWhileUnderway DEF Faithful, Underway
<1>7. CASE ForkFails \/ Fork2Fails
  BY <1>7 DEF ForkFails, Fork2Fails, Keeping
<1>8. CASE Wait2
  <2>1. /\ pc = "wait2" /\ pc' = "wait"
        /\ state' = [state EXCEPT !["second"] = "reaped"]
        /\ UNCHANGED <<line, aliases, command>>
    BY <1>0, <1>8 DEF Wait2, Faithful
  <2>2. line \in Lines /\ HasPlace(line) /\ ~BuiltIn(line) /\ HasPipe(line)
    BY <1>0, <2>1 DEF Faithful, Underway
  <2>3. state'["second"] = "reaped" /\ state'["first"] = state["first"]
    BY <1>0, <1>a, <2>1
  <2>4. \A c \in Children : state'[c] \in {"forked", "expanding"} => Expands(c)'
    <3>1. state["first"] \in {"forked", "expanding"} => Expands("first")'
      BY <1>0, <1>a, <2>1, FaithfulWhileUnderway DEF Faithful
    <3> QED BY <1>a, <2>3, <3>1
  <2> QED BY <1>0, <2>1, <2>2, <2>3, <2>4, FaithfulWhileUnderway DEF Faithful, Underway
<1>9. CASE Wait
  <2>1. /\ pc = "wait" /\ pc' = "prompt" /\ UNCHANGED aliases
        /\ state' = [c \in Children |-> IF Gone(c) THEN "none" ELSE state[c]]
    BY <1>9 DEF Wait, Return, ForgetGone
  <2>2. state["second"] \in {"none", "reaped"}
    BY <1>0, <2>1 DEF Accounted
  <2>3. state'["first"] = "none" /\ state'["second"] = "none"
    BY <1>a, <2>1, <2>2 DEF Gone
  <2>4. Meaningful(aliases)'
    BY <1>0, <2>1 DEF Meaningful
  <2> QED BY <1>a, <2>1, <2>3, <2>4 DEF Faithful, Underway
<1> QED BY <1>1, <1>2, <1>3, <1>4, <1>5, <1>6, <1>7, <1>8, <1>9 DEF ShellStep

(* What an alias is replaced by fits, and what is run is what was meant.  *)
LEMMA ChildHasRoom ==
  ASSUME Obeyed, NEW c \in Children, Expand(c)
  PROVE  /\ command' = [command EXCEPT ![c] = Replaced(@, Value(aliases, Token(c)))]
         /\ UNCHANGED <<state, ends>>
<1>1. /\ state[c] = "expanding" /\ command[c].i < command[c].nr
      /\ Faithful /\ Accounted /\ Meaningful(aliases)
  BY DEF Expand, Obeyed
<1>2. Expands(c) /\ pc \in Underway
  BY <1>1 DEF Faithful, Accounted, Underway, Waits, Children
<1>3. line \in Seq(Words) /\ HasPlace(line) /\ ~BuiltIn(line)
  <2>1. Lines \subseteq Seq(Words)
    BY LinesAssumption, Zenon
  <2> QED BY <1>1, <1>2, <2>1 DEF Faithful
<1>4. PICK f, m : /\ Flattens(f, Values(aliases, Side(c, line)), Words)
                  /\ Expanded(command[c], Side(c, line), f, m)
                  /\ command[c].base = Base(c, line)
  BY <1>2 DEF Expands
<1>5. PICK tab, words, cmd :
        /\ tab = aliases /\ words = Side(c, line) /\ cmd = command[c]
        /\ Meaningful(tab) /\ words \in Seq(Words) /\ cmd.i < cmd.nr
        /\ Flattens(f, Values(tab, words), Words) /\ Expanded(cmd, words, f, m)
  BY <1>1, <1>3, <1>4, SideType
<1>6. Token(c) = words[m + 1]
  BY <1>5, NextWord DEF Token
<1>7. cmd.base + Len(Substituted(tab, words)) < MAX_NR_TOKENS
  <2>1. cmd.base = Base(c, line)
    BY <1>4, <1>5
  <2> QED BY <1>3, <1>5, <2>1, PlaceOfSide
<1>8. HasRoom(cmd, Value(tab, words[m + 1]))
  BY <1>5, <1>7, RoomForAlias
<1>9. HasRoom(command[c], Value(aliases, Token(c)))
  BY <1>5, <1>6, <1>8
<1> QED BY <1>9, Zenon DEF Expand

LEMMA ChildGetsAll ==
  ASSUME Obeyed, NEW c \in Children, Exec(c)
  PROVE  Argv(command[c]) = Meant(c, line)
<1>1. /\ state[c] = "expanding" /\ command[c].i >= command[c].nr
      /\ Faithful /\ Accounted /\ Meaningful(aliases)
  BY DEF Exec, Obeyed
<1>2. Expands(c) /\ pc \in Underway
  BY <1>1 DEF Faithful, Accounted, Underway, Waits, Children
<1>3. line \in Seq(Words)
  <2>1. Lines \subseteq Seq(Words)
    BY LinesAssumption, Zenon
  <2> QED BY <1>1, <1>2, <2>1 DEF Faithful
<1>4. PICK f, m : /\ Flattens(f, Values(aliases, Side(c, line)), Words)
                  /\ Expanded(command[c], Side(c, line), f, m)
  BY <1>2 DEF Expands
<1>5. PICK tab, words, cmd :
        /\ tab = aliases /\ words = Side(c, line) /\ cmd = command[c]
        /\ Meaningful(tab) /\ words \in Seq(Words) /\ cmd.i >= cmd.nr
        /\ Flattens(f, Values(tab, words), Words) /\ Expanded(cmd, words, f, m)
  BY <1>1, <1>3, <1>4, SideType
<1>6. Argv(cmd) = Substituted(tab, words)
  BY <1>5, ExecGetsAll
<1> QED BY <1>5, <1>6 DEF Meant

LEMMA FaithfulByChildren ==
  ASSUME Keeping, Obeyed, NEW c \in Children, ChildStep(c)
  PROVE  Meaningful(aliases)' /\ Faithful'
<1>0. /\ TypeOK /\ Accounted /\ Meaningful(aliases) /\ Faithful
      /\ state \in [Children -> States]
      /\ UNCHANGED <<pc, line, aliases>>
      /\ state[c] \in {"forked", "expanding", "running"}
      /\ state'[c] \in {"expanding", "running", "zombie"}
      /\ state' = [state EXCEPT ![c] = state'[c]]
  <2>1. TypeOK /\ Accounted /\ state \in [Children -> States]
    BY DEF Obeyed, Typed, Accounted
  <2> QED BY <2>1, ChildrenLive DEF Obeyed
<1>1. /\ Meaningful(aliases)' /\ pc \in Underway /\ line \in Lines /\ HasPlace(line) /\ ~BuiltIn(line)
      /\ line \in Seq(Words)
  <2>1. pc \in Underway
    BY <1>0 DEF Accounted, Faithful, Underway, Waits, Children
  <2>2. Lines \subseteq Seq(Words)
    BY LinesAssumption, Zenon
  <2>3. line \in Lines /\ HasPlace(line) /\ ~BuiltIn(line)
    BY <1>0, <2>1 DEF Faithful
  <2> QED BY <1>0, <2>1, <2>2, <2>3, FaithfulWhileUnderway
<1>2. /\ pc' \notin {"waitany", "smashed"}
      /\ pc' # "run"
      /\ pc' \in Underway => (line \in Lines /\ HasPlace(line) /\ ~BuiltIn(line))'
      /\ pc' \in {"fork2", "wait2"} => HasPipe(line)'
      /\ pc' = "wait" /\ HasPipe(line)' => state'["second"] = "reaped"
      /\ state'["second"] # "none" => HasPipe(line)'
  <2>1. /\ state'["second"] = "none" => state["second"] = "none"
        /\ state["second"] = "none" => state'["second"] = "none"
        /\ state["second"] = "reaped" => state'["second"] = "reaped"
    BY <1>0 DEF Children
  <2> QED BY <1>0, <1>1, <2>1, FaithfulWhileUnderway DEF Faithful, Underway
<1>3. ASSUME state'[c] \in {"forked", "expanding"} => Expands(c)',
             \A d \in Children : d # c => command'[d] = command[d]
      PROVE  Meaningful(aliases)' /\ Faithful'
  <2>1. ASSUME NEW d \in Children, d # c, state'[d] \in {"forked", "expanding"}
        PROVE  Expands(d)'
    <3>1. state'[d] = state[d]
      BY <1>0, <2>1
    <3>2. Expands(d)
      BY <1>0, <2>1, <3>1 DEF Faithful
    <3> QED BY <1>0, <1>3, <2>1, <3>2, FaithfulWhileUnderway
  <2>2. \A d \in Children : state'[d] \in {"forked", "expanding"} => Expands(d)'
    BY <1>3, <2>1
  <2> QED BY <1>1, <1>2, <2>2 DEF Faithful
<1>4. CASE Redirect(c)
  <2>1. UNCHANGED command /\ state[c] = "forked"
    BY <1>4 DEF Redirect
  <2>2. Expands(c)'
    BY <1>0, <2>1, FaithfulWhileUnderway DEF Faithful
  <2> QED BY <1>3, <2>1, <2>2
<1>5. CASE Exec(c) \/ Write(c) \/ Read(c) \/ ProgramExits(c)
  <2>1. state'[c] \in {"running", "zombie"}
    BY <1>0, <1>5 DEF Exec, Write, Read, ProgramExits, TypeOK
  <2>2. \A d \in Children : d # c => command'[d] = command[d]
    BY <1>0, <1>5 DEF Exec, Write, Read, ProgramExits, TypeOK
  <2> QED BY <1>3, <2>1, <2>2
<1>6. CASE Expand(c) \/ Keep(c)
  <2>1. state[c] = "expanding" /\ command[c].i < command[c].nr /\ command \in [Children -> Command]
    BY <1>0, <1>6 DEF Expand, Keep, TypeOK
  <2>2. Expands(c)
    BY <1>0, <2>1 DEF Faithful
  <2>3. PICK f, m : /\ Flattens(f, Values(aliases, Side(c, line)), Words)
                    /\ Expanded(command[c], Side(c, line), f, m)
                    /\ command[c].base = Base(c, line)
    BY <2>2 DEF Expands
  <2>4. Side(c, line) \in Seq(Words)
    BY <1>1, SideType
  <2>5. PICK tab, words, cmd :
          /\ tab = aliases /\ words = Side(c, line) /\ cmd = command[c]
          /\ Meaningful(tab) /\ words \in Seq(Words) /\ cmd.i < cmd.nr /\ cmd \in Command
          /\ Flattens(f, Values(tab, words), Words) /\ Expanded(cmd, words, f, m)
    BY <1>0, <2>1, <2>3, <2>4
  <2>6. Token(c) = words[m + 1]
    BY <2>5, NextWord DEF Token
  <2>7. ASSUME NEW d, Expanded(d, words, f, m + 1), d.base = cmd.base,
               command' = [command EXCEPT ![c] = d]
        PROVE  Meaningful(aliases)' /\ Faithful'
    <3>1. command'[c] = d /\ \A e \in Children : e # c => command'[e] = command[e]
      BY <2>1, <2>7
    <3>2. /\ Flattens(f, Values(aliases', Side(c, line')), Words)
          /\ Expanded(command'[c], Side(c, line'), f, m + 1)
          /\ command'[c].base = Base(c, line')
      BY <1>0, <2>3, <2>5, <2>7, <3>1
    <3>3. Expands(c)'
      BY <3>2, Zenon DEF Expands
    <3> QED BY <1>3, <3>1, <3>3
  <2>8. CASE Keep(c)
    <3>1. ~IsAlias(tab, words[m + 1]) /\ command' = [command EXCEPT ![c] = [cmd EXCEPT !.i = cmd.i + 1]]
      BY <2>5, <2>6, <2>8 DEF Keep
    <3>2. Expanded([cmd EXCEPT !.i = cmd.i + 1], words, f, m + 1)
      BY <2>5, <3>1, KeepExpands
    <3>3. [cmd EXCEPT !.i = cmd.i + 1].base = cmd.base
      BY <2>5 DEF Command
    <3> QED BY <2>7, <3>1, <3>2, <3>3
  <2>9. CASE Expand(c)
    <3>1. cmd.base + Len(Substituted(tab, words)) < MAX_NR_TOKENS
      BY <1>1, <2>3, <2>5, PlaceOfSide
    <3>2. HasRoom(cmd, Value(tab, words[m + 1]))
      BY <2>5, <3>1, RoomForAlias
    <3>3. command' = [command EXCEPT ![c] = Replaced(cmd, Value(tab, words[m + 1]))]
      BY <2>5, <2>6, <2>9, <3>2 DEF Expand
    <3>4. Expanded(Replaced(cmd, Value(tab, words[m + 1])), words, f, m + 1)
      BY <2>5, <3>2, AliasExpands
    <3>5. Replaced(cmd, Value(tab, words[m + 1])).base = cmd.base
      BY <2>5 DEF Replaced, Command
    <3> QED BY <2>7, <3>3, <3>4, <3>5
  <2> QED BY <1>6, <2>8, <2>9
<1> QED BY <1>4, <1>5, <1>6 DEF ChildStep

LEMMA ObeyedInductive ==
  ASSUME Keeping
  PROVE  /\ Init => Obeyed
         /\ Obeyed /\ [Next]_vars => Obeyed'
<1>1. Init => Obeyed
  <2> SUFFICES ASSUME Init PROVE Obeyed
    OBVIOUS
  <2>1. Typed
    BY InitTyped
  <2>2. Accounted
    BY DEF Init, Accounted, Children, Waits, States
  <2>3. Meaningful(aliases)
    <3>1. aliases = <<>> /\ <<>> \in Seq(Entries)
      BY DEF Init
    <3> QED BY <3>1 DEF Meaningful
  <2>4. Faithful
    BY DEF Init, Faithful, Children, Underway
  <2> QED BY <2>1, <2>2, <2>3, <2>4 DEF Obeyed
<1>2. ASSUME Obeyed, [Next]_vars PROVE Obeyed'
  <2>1. Accounted'
    BY <1>2, AccountedInductive DEF Obeyed
  <2>2. CASE ReadLine \/ EndOfInput \/ ShellStep
    BY <1>2, <2>1, <2>2, TypedByShell, FaithfulByShell DEF Obeyed
  <2>3. CASE \E c \in Children : ChildStep(c)
    BY <1>2, <2>1, <2>3, TypedByChildren, FaithfulByChildren DEF Obeyed
  <2>4. CASE Ended \/ UNCHANGED vars
    <3>1. UNCHANGED <<pc, line, aliases, cwd, state, command, argv, ends, sent, got>>
      BY <2>4 DEF Ended, vars
    <3>2. Typed'
      BY <1>2, <3>1 DEF Obeyed, Typed, TypeOK
    <3>3. Meaningful(aliases)' /\ Faithful'
      BY <1>2, <3>1, FaithfulWhileUnderway DEF Obeyed, Faithful
    <3> QED BY <2>1, <3>2, <3>3 DEF Obeyed
  <2> QED BY <1>2, <2>2, <2>3, <2>4 DEF Next
<1> QED BY <1>1, <1>2

(* The first entry with the key w decides. *)
LEMMA ValueAt ==
  ASSUME NEW tab \in Seq(Entries), NEW w, NEW k, FoundAt(tab, w, k)
  PROVE  IsAlias(tab, w) /\ Value(tab, w) = tab[k].vals
<1>1. k \in 1..Len(tab) /\ tab[k].key = w /\ \A j \in 1..(k - 1) : tab[j].key # w
  BY DEF FoundAt
<1>2. ASSUME NEW j, FoundAt(tab, w, j) PROVE j = k
  <2>1. j \in 1..Len(tab) /\ tab[j].key = w /\ \A i \in 1..(j - 1) : tab[i].key # w
    BY <1>2 DEF FoundAt
  <2>2. ~(j < k) /\ ~(k < j)
    BY <1>1, <2>1
  <2> QED BY <1>1, <2>1, <2>2
<1>3. (CHOOSE j \in DOMAIN tab : FoundAt(tab, w, j)) = k
  BY <1>1, <1>2
<1>4. IsAlias(tab, w)
  BY <1>1 DEF IsAlias
<1> QED BY <1>3, <1>4 DEF Value

LEMMA FoundFirst ==
  ASSUME NEW tab \in Seq(Entries), NEW w, IsAlias(tab, w)
  PROVE  \E k \in 1..Len(tab) : FoundAt(tab, w, k)
<1> DEFINE T == { k \in 1..Len(tab) : tab[k].key = w }
<1>1. T \in SUBSET Nat /\ T # {}
  BY DEF IsAlias
<1>2. PICK n \in T : \A m \in T : n <= m
  <2> HIDE DEF T
  <2> QED BY <1>1, LeastNumber
<1> QED BY <1>2 DEF FoundAt

(* What an alias means after a definition. *)
LEMMA DefinedValues ==
  ASSUME NEW tab \in Seq(Entries), NEW key \in Words, NEW vals \in Seq(Words)
  PROVE  LET new == Defined(tab, key, vals)
         IN  /\ \A w : IsAlias(new, w) <=> IsAlias(tab, w) \/ w = key
             /\ Value(new, key) = vals
             /\ \A w : IsAlias(tab, w) /\ w # key => Value(new, w) = Value(tab, w)
<1> DEFINE new == Defined(tab, key, vals)
<1>1. /\ new \in Seq(Entries) /\ Len(tab) <= Len(new)
      /\ \A k \in 1..Len(tab) : new[k].key = tab[k].key
      /\ IsAlias(tab, key) => Len(new) = Len(tab)
      /\ ~IsAlias(tab, key) => Len(new) = Len(tab) + 1 /\ new[Len(tab) + 1].key = key
  <2>1. DOMAIN tab = 1..Len(tab)
    OBVIOUS
  <2> QED BY <2>1, DefinedKeys
<1>2. /\ \A k \in 1..Len(tab) : ~FoundAt(tab, key, k) => new[k] = tab[k]
      /\ \A k \in 1..Len(tab) : FoundAt(tab, key, k) => new[k].vals = vals
      /\ ~IsAlias(tab, key) => new[Len(tab) + 1].vals = vals
  <2>1. CASE IsAlias(tab, key)
    <3>1. new = [k \in DOMAIN tab |->
            IF FoundAt(tab, key, k) THEN [tab[k] EXCEPT !.vals = vals] ELSE tab[k]]
      BY <2>1 DEF Defined
    <3> HIDE DEF new
    <3>2. ASSUME NEW k \in 1..Len(tab), FoundAt(tab, key, k) PROVE new[k].vals = vals
      <4>1. PICK e \in Entries : e = tab[k]
        OBVIOUS
      <4>2. [e EXCEPT !.vals = vals].vals = vals
        BY DEF Entries
      <4> QED BY <3>1, <3>2, <4>1, <4>2
    <3> QED BY <2>1, <3>1, <3>2
  <2>2. CASE ~IsAlias(tab, key)
    <3>1. PICK e : e = [key |-> key, vals |-> vals]
      OBVIOUS
    <3>2. new = Append(tab, e) /\ e.vals = vals
      BY <2>2, <3>1 DEF Defined
    <3> HIDE DEF new
    <3>3. \A k \in 1..Len(tab) : new[k] = tab[k]
      BY <3>2
    <3>4. new[Len(tab) + 1] = e
      BY <3>2
    <3>5. \A k \in 1..Len(tab) : ~FoundAt(tab, key, k)
      BY <2>2 DEF FoundAt, IsAlias
    <3> QED BY <3>2, <3>3, <3>4, <3>5
  <2> QED BY <2>1, <2>2
<1> HIDE DEF new
<1>3. ASSUME NEW w, NEW k \in 1..Len(tab) PROVE FoundAt(new, w, k) <=> FoundAt(tab, w, k)
  <2>1. k \in 1..Len(new) /\ \A j \in 1..(k - 1) : j \in 1..Len(tab)
    BY <1>1
  <2> QED BY <1>1, <2>1, SMTT(40) DEF FoundAt
<1>4. ASSUME NEW w PROVE IsAlias(new, w) <=> IsAlias(tab, w) \/ w = key
  <2>1. IsAlias(tab, w) => IsAlias(new, w)
    BY <1>1 DEF IsAlias
  <2>2. ~IsAlias(tab, key) => IsAlias(new, key)
    <3>1. Len(tab) + 1 \in 1..(Len(tab) + 1)
      OBVIOUS
    <3> QED BY <1>1, <3>1 DEF IsAlias
  <2>3. ASSUME IsAlias(new, w), w # key PROVE IsAlias(tab, w)
    <3>1. PICK k \in 1..Len(new) : new[k].key = w
      BY <1>1, <2>3 DEF IsAlias
    <3>2. k \in 1..Len(tab)
      <4>1. \/ Len(new) = Len(tab)
            \/ Len(new) = Len(tab) + 1 /\ new[Len(tab) + 1].key = key
        BY <1>1
      <4>2. k # Len(tab) + 1 \/ Len(new) = Len(tab)
        BY <2>3, <3>1, <4>1
      <4> QED BY <3>1, <4>1, <4>2
    <3> QED BY <1>1, <3>1, <3>2 DEF IsAlias
  <2> QED BY <2>1, <2>2, <2>3
<1>5. Value(new, key) = vals
  <2>1. CASE IsAlias(tab, key)
    <3>1. PICK k \in 1..Len(tab) : FoundAt(tab, key, k)
      BY <2>1, FoundFirst
    <3>2. FoundAt(new, key, k)
      BY <1>3, <3>1
    <3> QED BY <1>1, <1>2, <3>1, <3>2, ValueAt
  <2>2. CASE ~IsAlias(tab, key)
    <3>1. PICK n \in Nat : n = Len(tab)
      OBVIOUS
    <3>2. \A j \in 1..n : new[j].key # key
      BY <1>1, <2>2, <3>1 DEF IsAlias
    <3>3. FoundAt(new, key, n + 1)
      BY <1>1, <2>2, <3>1, <3>2 DEF FoundAt
    <3> QED BY <1>1, <1>2, <2>2, <3>1, <3>3, ValueAt
  <2> QED BY <2>1, <2>2
<1>6. ASSUME NEW w, IsAlias(tab, w), w # key PROVE Value(new, w) = Value(tab, w)
  <2>1. PICK k \in 1..Len(tab) : FoundAt(tab, w, k)
    BY <1>6, FoundFirst
  <2>2. FoundAt(new, w, k) /\ ~FoundAt(tab, key, k)
    <3>1. FoundAt(new, w, k)
      BY <1>3, <2>1
    <3>2. ~FoundAt(tab, key, k)
      BY <1>6, <2>1 DEF FoundAt
    <3> QED BY <3>1, <3>2
  <2>3. Value(new, w) = new[k].vals /\ Value(tab, w) = tab[k].vals
    BY <1>1, <2>1, <2>2, ValueAt
  <2> QED BY <1>2, <2>2, <2>3
<1> QED BY <1>4, <1>5, <1>6 DEF new

-----------------------------------------------------------------------------
(* What CommandLines sees of the shell. *)
Meaning == [w \in { aliases[k].key : k \in DOMAIN aliases } |-> Value(aliases, w)]
Jobs ==
  IF pc \notin {"fork", "fork2", "wait2", "waitany", "wait"} THEN <<>>
  ELSE IF HasPipe(line) THEN <<Job("second"), Job("first")>>
  ELSE <<Job("first")>>
JobOf(words) == [words |-> Substituted(aliases, words), status |-> "asked"]

LEMMA MeaningDomain ==
  /\ \A w : w \in DOMAIN Meaning <=> IsAlias(aliases, w)
  /\ \A w \in DOMAIN Meaning : Meaning[w] = Value(aliases, w)
BY DEF Meaning, IsAlias

LEMMA SameOperators ==
  /\ \A l, w : Commanded!Contains(l, w) <=> Contains(l, w)
  /\ \A ss : Commanded!FlattenSeq(ss) = FlattenSeq(ss)
<1>1. \A l, w : Commanded!Contains(l, w) <=> Contains(l, w)
  BY DEF Commanded!Contains, Contains
<1>2. \A ss : Commanded!FlattenSeq(ss) = FlattenSeq(ss)
  BY Zenon DEF Commanded!FlattenSeq, FlattenSeq
<1> QED BY <1>1, <1>2

LEMMA TranslatedIsSubstituted ==
  ASSUME NEW words
  PROVE  /\ Commanded!Translated(words) = Substituted(aliases, words)
         /\ Commanded!Job(words) = JobOf(words)
<1>1. Commanded!Translated(words) =
        FlattenSeq([j \in DOMAIN words |->
          IF words[j] \in DOMAIN Meaning THEN Meaning[words[j]] ELSE <<words[j]>>])
  BY SameOperators, Zenon DEF Commanded!Translated, Meaning
<1>2. \A w : (IF w \in DOMAIN Meaning THEN Meaning[w] ELSE <<w>>) = Value(aliases, w)
  BY MeaningDomain DEF Value
<1>3. [j \in DOMAIN words |->
          IF words[j] \in DOMAIN Meaning THEN Meaning[words[j]] ELSE <<words[j]>>]
      = [j \in DOMAIN words |-> Value(aliases, words[j])]
  BY <1>2
<1>4. Commanded!Translated(words) = Substituted(aliases, words)
  BY <1>1, <1>3, Zenon DEF Substituted
<1> QED BY <1>4, Zenon DEF Commanded!Job, JobOf

LEMMA SinglePipe ==
  ASSUME NEW l \in Seq(Words)
  PROVE  Contains(l, "|") <=> HasPipe(l)
BY DEF Contains, HasPipe

(* A step that CommandLines does not see. *)
LEMMA Unseen ==
  ASSUME UNCHANGED <<aliases, cwd>>, Jobs' = Jobs
  PROVE  UNCHANGED Commanded!avars
<1>1. Meaning' = Meaning
  BY DEF Meaning
<1> QED BY <1>1 DEF Commanded!avars, Meaning, Jobs

LEMMA SeenDefine ==
  ASSUME NEW l \in Lines, Jobs = <<>>, Jobs' = <<>>, ~Contains(l, "|"), l[1] = "alias", Len(l) > 2,
         UNCHANGED cwd,
         Meaning' = [w \in DOMAIN Meaning \union {l[2]} |->
                       IF w = l[2] THEN SubSeq(l, 3, Len(l)) ELSE Meaning[w]]
  PROVE  Commanded!Next
<1>1. Commanded!Define(l)
  BY SameOperators, Zenon DEF Commanded!Define, Commanded!IsSingle, Meaning, Jobs
<1> QED BY <1>1 DEF Commanded!Next

LEMMA SeenChange ==
  ASSUME NEW l \in Lines, Jobs = <<>>, Jobs' = <<>>, ~Contains(l, "|"), l[1] = "cd",
         cwd' = Destination(l), cwd' \in Directories, UNCHANGED aliases
  PROVE  Commanded!Next
<1>1. Meaning' = Meaning
  BY DEF Meaning
<1>2. Commanded!ChangeDirectory(l)
  BY <1>1, SameOperators, Zenon
     DEF Commanded!ChangeDirectory, Commanded!IsSingle, Destination, Meaning, Jobs
<1> QED BY <1>2 DEF Commanded!Next

LEMMA SeenRunOne ==
  ASSUME NEW l \in Lines, Jobs = <<>>, Jobs' = <<JobOf(l)>>, ~Contains(l, "|"),
         l[1] \notin {"alias", "cd", "exit"}, UNCHANGED <<aliases, cwd>>
  PROVE  Commanded!Next
<1>1. Meaning' = Meaning
  BY DEF Meaning
<1>2. Jobs' = <<Commanded!Job(l)>>
  BY TranslatedIsSubstituted
<1>3. Commanded!RunOne(l)
  BY <1>1, <1>2, SameOperators, Zenon DEF Commanded!RunOne, Commanded!IsSingle, Meaning, Jobs
<1> QED BY <1>3 DEF Commanded!Next

LEMMA SeenRunTwo ==
  ASSUME NEW l \in Lines, Jobs = <<>>, NEW j \in DOMAIN l, NEW before, NEW after,
         before = SubSeq(l, 1, j - 1), after = SubSeq(l, j + 1, Len(l)),
         l = before \o <<"|">> \o after, ~Contains(before, "|"),
         Jobs' = <<JobOf(before), JobOf(after)>>, UNCHANGED <<aliases, cwd>>
  PROVE  Commanded!Next
<1>1. Meaning' = Meaning
  BY DEF Meaning
<1>2. Jobs' = <<Commanded!Job(before), Commanded!Job(after)>>
  <2>1. \A words : Commanded!Job(words) = JobOf(words)
    BY TranslatedIsSubstituted, SMTT(40)
  <2> QED BY <2>1, ZenonT(60)
<1>3. Commanded!Joins(l, before, after)
  BY SameOperators DEF Commanded!Joins
<1>4. Commanded!RunTwo(l)
  BY <1>1, <1>2, <1>3 DEF Commanded!RunTwo, Meaning, Jobs
<1> QED BY <1>4 DEF Commanded!Next

LEMMA SeenNextLine ==
  ASSUME Jobs # <<>>, \A k \in DOMAIN Jobs : Jobs[k].status = "over", Jobs' = <<>>,
         UNCHANGED <<aliases, cwd>>
  PROVE  Commanded!Next
<1>1. Meaning' = Meaning
  BY DEF Meaning
<1>2. Commanded!NextLine
  BY <1>1 DEF Commanded!NextLine, Meaning, Jobs
<1> QED BY <1>2 DEF Commanded!Next

(* A job is begun or is over. *)
LEMMA SeenStatus ==
  ASSUME NEW k \in DOMAIN Jobs, NEW status, Jobs' = [Jobs EXCEPT ![k].status = status],
         UNCHANGED <<aliases, cwd>>,
         \/ Jobs[k].status = "asked" /\ Runs(Jobs[k].words) /\ status = "running"
         \/ Jobs[k].status = "asked" /\ ~Runs(Jobs[k].words) /\ status = "over"
         \/ Jobs[k].status = "running" /\ status = "over"
  PROVE  Commanded!Next
<1>1. Meaning' = Meaning
  BY DEF Meaning
<1>2. Commanded!Becomes(k, status)
  BY <1>1 DEF Commanded!Becomes, Meaning, Jobs
<1>3. Commanded!Executable(Jobs[k]) <=> Runs(Jobs[k].words)
  BY DEF Commanded!Executable, Runs
<1>4. CASE Jobs[k].status = "asked" /\ Runs(Jobs[k].words) /\ status = "running"
  <2>1. Commanded!Start(k)
    BY <1>2, <1>3, <1>4 DEF Commanded!Start, Jobs
  <2> QED BY <2>1 DEF Commanded!Next, Jobs
<1>5. CASE Jobs[k].status = "asked" /\ ~Runs(Jobs[k].words) /\ status = "over"
  <2>1. Commanded!Refuse(k)
    BY <1>2, <1>3, <1>5 DEF Commanded!Refuse, Jobs
  <2> QED BY <2>1 DEF Commanded!Next, Jobs
<1>6. CASE Jobs[k].status = "running" /\ status = "over"
  <2>1. Commanded!End(k)
    BY <1>2, <1>6 DEF Commanded!End, Jobs
  <2> QED BY <2>1 DEF Commanded!Next, Jobs
<1> QED BY <1>4, <1>5, <1>6

(* The job of the child c. *)
Nth(c) == IF HasPipe(line) /\ c = "first" THEN 2 ELSE 1

LEMMA JobOfChild ==
  ASSUME pc \in Underway, NEW c \in Children, c = "second" => HasPipe(line)
  PROVE  Nth(c) \in DOMAIN Jobs /\ Jobs[Nth(c)] = Job(c)
BY DEF Nth, Jobs, Underway, Children

LEMMA JobAsked ==
  ASSUME NEW c, state[c] \in {"none", "forked", "expanding"}
  PROVE  Job(c) = JobOf(Side(c, line))
BY DEF Job, Status, JobOf, Meant

LEMMA JobTried ==
  ASSUME NEW c, state[c] \notin {"none", "forked", "expanding"}
  PROVE  Job(c) = [words |-> argv[c],
                   status |-> IF state[c] = "running" THEN "running" ELSE "over"]
BY DEF Job, Status

LEMMA JobSame ==
  ASSUME NEW c \in Children, UNCHANGED <<line, aliases>>,
         \/ /\ state[c] \in {"none", "forked", "expanding"}
            /\ state'[c] \in {"none", "forked", "expanding"}
         \/ /\ state[c] = "running" /\ state'[c] = "running" /\ argv'[c] = argv[c]
         \/ /\ state[c] \in {"zombie", "reaped"} /\ state'[c] \in {"zombie", "reaped"}
            /\ argv'[c] = argv[c]
  PROVE  Job(c)' = Job(c)
BY DEF Job, Status, Meant

LEMMA JobsSame ==
  ASSUME pc \in Underway, pc' \in Underway, UNCHANGED line,
         Job("first")' = Job("first"), HasPipe(line) => Job("second")' = Job("second")
  PROVE  Jobs' = Jobs
<1>1. HasPipe(line)' <=> HasPipe(line)
  BY DEF HasPipe
<1> HIDE DEF HasPipe
<1> QED BY <1>1 DEF Jobs, Underway

LEMMA JobChanges ==
  ASSUME pc \in Underway, pc' \in Underway, UNCHANGED line,
         NEW c \in Children, c = "second" => HasPipe(line), NEW status,
         Job(c)' = [Job(c) EXCEPT !.status = status],
         \A d \in Children : d # c => Job(d)' = Job(d)
  PROVE  Jobs' = [Jobs EXCEPT ![Nth(c)].status = status]
<1>1. HasPipe(line)' <=> HasPipe(line)
  BY DEF HasPipe
<1>2. PICK a, b, new : a = Job("first") /\ b = Job("second") /\ new = [Job(c) EXCEPT !.status = status]
  OBVIOUS
<1>3. CASE HasPipe(line) /\ c = "first"
  <2>1. Job("first")' = new /\ Job("second")' = b
    BY <1>2, <1>3 DEF Children
  <2>2. Jobs = <<b, a>> /\ Jobs' = <<b, new>> /\ Nth(c) = 2
    BY <1>1, <1>2, <1>3, <2>1 DEF Jobs, Underway, Nth
  <2>3. new = [a EXCEPT !.status = status]
    BY <1>2, <1>3
  <2> QED BY <2>2, <2>3
<1>4. CASE HasPipe(line) /\ c = "second"
  <2>1. Job("first")' = a /\ Job("second")' = new
    BY <1>2, <1>4 DEF Children
  <2>2. Jobs = <<b, a>> /\ Jobs' = <<new, a>> /\ Nth(c) = 1
    BY <1>1, <1>2, <1>4, <2>1 DEF Jobs, Underway, Nth
  <2>3. new = [b EXCEPT !.status = status]
    BY <1>2, <1>4
  <2> QED BY <2>2, <2>3
<1>5. CASE ~HasPipe(line)
  <2>1. c = "first" /\ Job("first")' = new
    BY <1>2, <1>5 DEF Children
  <2>2. Jobs = <<a>> /\ Jobs' = <<new>> /\ Nth(c) = 1
    BY <1>1, <1>2, <1>5, <2>1 DEF Jobs, Underway, Nth
  <2>3. new = [a EXCEPT !.status = status]
    BY <1>2, <2>1
  <2> QED BY <2>2, <2>3
<1> QED BY <1>3, <1>4, <1>5 DEF Children

LEMMA NoJobs ==
  /\ pc \in {"prompt", "run", "exited", "smashed"} => Jobs = <<>>
  /\ pc' \in {"prompt", "run", "exited", "smashed"} => Jobs' = <<>>
BY DEF Jobs

-----------------------------------------------------------------------------
LEMMA CommandsInit == Init => Commanded!Init
<1> SUFFICES ASSUME Init PROVE Commanded!Init
  OBVIOUS
<1>1. pc = "prompt" /\ aliases = <<>> /\ cwd = HOME
  BY DEF Init
<1>2. Jobs = <<>>
  BY <1>1, NoJobs
<1>3. Meaning = <<>>
  <2>1. { aliases[k].key : k \in DOMAIN aliases } = {}
    BY <1>1
  <2>2. [w \in {} |-> Value(aliases, w)] = <<>>
    OBVIOUS
  <2> QED BY <2>1, <2>2, Zenon DEF Meaning
<1> QED BY <1>1, <1>2, <1>3 DEF Commanded!Init, Meaning, Jobs

(* The line is split at its first "|". *)
LEMMA SplitAtBar ==
  ASSUME NEW l \in Seq(Words), HasPipe(l)
  PROVE  LET before == SubSeq(l, 1, Bar(l) - 1)
             after == SubSeq(l, Bar(l) + 1, Len(l))
         IN  /\ Bar(l) \in DOMAIN l
             /\ l = before \o <<"|">> \o after
             /\ ~Contains(before, "|")
             /\ Side("second", l) = before /\ Side("first", l) = after
<1>1. PICK b, n \in Nat : b = Bar(l) /\ n = Len(l) /\ b \in 1..n /\ l[b] = "|"
                          /\ \A i \in 1..(b - 1) : l[i] # "|"
  <2>1. Bar(l) \in Nat /\ Len(l) \in Nat
    BY BarProperties
  <2> QED BY <2>1, BarProperties
<1>2. SubSeq(l, 1, b) = SubSeq(l, 1, b - 1) \o <<l[b]>>
  <2>1. 1 \in 1..Len(l) /\ b \in 1..Len(l)
    BY <1>1
  <2> QED BY <1>1, <2>1, SubSeqRecursiveSecond
<1>3. SubSeq(l, 1, b) \o SubSeq(l, b + 1, n) = l
  <2>1. 1 \in 1..(Len(l) + 1) /\ b \in (1 - 1)..Len(l) /\ n \in b..Len(l)
    BY <1>1
  <2>2. SubSeq(l, 1, b) \o SubSeq(l, b + 1, n) = SubSeq(l, 1, n)
    BY <2>1, ConcatAdjacentSubSeq
  <2> QED BY <1>1, <2>2, SubSeqFull
<1>4. l = SubSeq(l, 1, Bar(l) - 1) \o <<"|">> \o SubSeq(l, Bar(l) + 1, Len(l))
  BY <1>1, <1>2, <1>3, Zenon
<1>5. ~Contains(SubSeq(l, 1, b - 1), "|")
  <2>1. \A i \in 1..(b - 1) : l[i] \in Words
    BY <1>1
  <2>2. /\ Len(SubSeq(l, 1, b - 1)) = IF 1 <= b - 1 THEN (b - 1) - 1 + 1 ELSE 0
        /\ \A i \in 1..((b - 1) - 1 + 1) : SubSeq(l, 1, b - 1)[i] = l[1 + i - 1]
    BY <1>1, <2>1, SubSeqProperties
  <2>3. (IF 1 <= b - 1 THEN (b - 1) - 1 + 1 ELSE 0) = b - 1 /\ (b - 1) - 1 + 1 = b - 1
    BY <1>1
  <2>4. ASSUME NEW i \in 1..(b - 1) PROVE SubSeq(l, 1, b - 1)[i] = l[i]
    <3>1. 1 + i - 1 = i
      BY <1>1
    <3> QED BY <2>2, <2>3, <3>1
  <2> QED BY <1>1, <2>2, <2>3, <2>4 DEF Contains
<1>6. Bar(l) \in DOMAIN l
  BY <1>1
<1> QED BY <1>1, <1>4, <1>5, <1>6 DEF Side

LEMMA CommandsOfShell ==
  ASSUME Keeping, Obeyed, ReadLine \/ EndOfInput \/ ShellStep
  PROVE  [Commanded!Next]_Commanded!avars
<1>0. /\ TypeOK /\ Accounted /\ Meaningful(aliases) /\ Faithful
      /\ state \in [Children -> States]
      /\ aliases \in Seq(Entries)
  BY DEF Obeyed, Typed, Accounted, Meaningful
<1>1. Children = {"first", "second"}
  BY DEF Children
<1>2. pc = "run" \/ pc \in Underway => line \in Lines /\ line \in Seq(Words)
  <2>1. Lines \subseteq Seq(Words)
    BY LinesAssumption, Zenon
  <2> QED BY <1>0, <2>1 DEF Faithful
<1>3. CASE ReadLine \/ EndOfInput \/ Exit \/ ListAliases
  <2>1. /\ pc \in {"prompt", "run"} /\ pc' \in {"run", "exited", "prompt", "smashed"}
        /\ UNCHANGED <<aliases, cwd>>
    BY <1>3 DEF ReadLine, EndOfInput, Exit, ListAliases, RunsBuiltIn, Return, childVars
  <2>2. Jobs = <<>> /\ Jobs' = <<>>
    BY <2>1, NoJobs
  <2> QED BY <2>1, <2>2, Unseen
<1>4. CASE ChangeDirectory
  <2>1. /\ pc = "run" /\ pc' = "prompt" /\ UNCHANGED aliases /\ ~HasPipe(line) /\ line[1] = "cd"
        /\ cwd' = IF Destination(line) \in Directories THEN Destination(line) ELSE cwd
    BY <1>4 DEF ChangeDirectory, RunsBuiltIn, Return
  <2>2. Jobs = <<>> /\ Jobs' = <<>>
    BY <2>1, NoJobs
  <2>3. PICK l \in Lines : l = line /\ ~Contains(l, "|")
    BY <1>2, <2>1, SinglePipe
  <2>4. CASE Destination(line) \in Directories
    <3>1. cwd' = Destination(l) /\ cwd' \in Directories /\ l[1] = "cd"
      BY <2>1, <2>3, <2>4
    <3> QED BY <2>1, <2>2, <2>3, <3>1, SeenChange
  <2>5. CASE Destination(line) \notin Directories
    BY <2>1, <2>2, <2>5, Unseen
  <2> QED BY <2>4, <2>5
<1>5. CASE DefineAlias
  <2>1. /\ pc = "run" /\ ~HasPipe(line) /\ line[1] = "alias" /\ Len(line) > 1
        /\ aliases' = Defined(aliases, line[2], SubSeq(line, 3, Len(line)))
        /\ pc' \in {"prompt", "smashed"} /\ UNCHANGED cwd
    BY <1>5 DEF DefineAlias, Return, RunsBuiltIn
  <2>2. Jobs = <<>> /\ Jobs' = <<>>
    BY <2>1, NoJobs
  <2>3. PICK l \in Lines : l = line /\ ~Contains(l, "|") /\ l \in Seq(Words)
    BY <1>2, <2>1, SinglePipe
  <2>4. PICK n \in Nat : n = Len(l) /\ n > 2
    <3>1. PICK n \in Nat : n = Len(l)
      BY <2>3
    <3>2. BuiltIn(line)
      BY <2>1 DEF BuiltIn
    <3>3. n > 1 /\ n # 2
      BY <1>0, <2>1, <2>3, <3>1, <3>2 DEF Faithful, Rule, HasWords
    <3>4. n > 2
      BY <3>3
    <3> QED BY <3>1, <3>4
  <2>5. PICK key \in Words, vals \in Seq(Words) : key = l[2] /\ vals = SubSeq(l, 3, Len(l))
    <3>1. l[2] \in Words /\ \A i \in 3..n : l[i] \in Words
      BY <2>3, <2>4
    <3>2. SubSeq(l, 3, n) \in Seq(Words)
      BY <2>4, <3>1, SubSeqProperties
    <3> QED BY <2>4, <3>1, <3>2
  <2>6. PICK tab \in Seq(Entries) : tab = aliases
    BY <1>0
  <2>7. PICK new : new = Defined(tab, key, vals) /\ aliases' = new
    BY <2>1, <2>3, <2>5, <2>6
  <2>8. /\ \A w : IsAlias(new, w) <=> IsAlias(tab, w) \/ w = key
        /\ Value(new, key) = vals
        /\ \A w : IsAlias(tab, w) /\ w # key => Value(new, w) = Value(tab, w)
    BY <2>7, DefinedValues
  <2>9. Meaning' = [w \in DOMAIN Meaning \union {key} |-> IF w = key THEN vals ELSE Meaning[w]]
    <3>1. \A w : w \in { new[k].key : k \in DOMAIN new } <=> IsAlias(new, w)
      BY DEF IsAlias
    <3>2. \A w : w \in DOMAIN Meaning <=> IsAlias(tab, w)
      BY <2>6, MeaningDomain
    <3>3. \A w \in DOMAIN Meaning : Meaning[w] = Value(tab, w)
      BY <2>6, MeaningDomain
    <3>4. { new[k].key : k \in DOMAIN new } = DOMAIN Meaning \union {key}
      BY <2>8, <3>1, <3>2
    <3>5. \A w \in DOMAIN Meaning \union {key} :
            Value(new, w) = IF w = key THEN vals ELSE Meaning[w]
      BY <2>8, <3>2, <3>3
    <3>6. [w \in { new[k].key : k \in DOMAIN new } |-> Value(new, w)]
          = [w \in DOMAIN Meaning \union {key} |-> IF w = key THEN vals ELSE Meaning[w]]
      BY <3>4, <3>5
    <3>7. Meaning' = [w \in { new[k].key : k \in DOMAIN new } |-> Value(new, w)]
      BY <2>7 DEF Meaning
    <3> QED BY <3>6, <3>7
  <2>10. Meaning' = [w \in DOMAIN Meaning \union {l[2]} |->
                       IF w = l[2] THEN SubSeq(l, 3, Len(l)) ELSE Meaning[w]]
    BY <2>5, <2>9
  <2>11. Len(l) > 2 /\ l[1] = "alias"
    BY <2>1, <2>3, <2>4
  <2> QED BY <2>1, <2>2, <2>3, <2>10, <2>11, SeenDefine
<1>6. CASE OpenPipe \/ RunProgram
  <2>1. /\ pc = "run" /\ pc' = "fork" /\ UNCHANGED <<line, aliases, cwd, state>>
        /\ (OpenPipe /\ HasPipe(line)) \/ (RunProgram /\ ~HasPipe(line) /\ ~BuiltIn(line))
    BY <1>6 DEF OpenPipe, RunProgram, childVars
  <2>2. Jobs = <<>>
    BY <2>1, NoJobs
  <2>3. PICK l \in Lines : l = line /\ l \in Seq(Words)
    BY <1>2, <2>1
  <2>4. \A c \in Children : Job(c)' = JobOf(Side(c, l))
    <3>1. \A c \in Children : state'[c] = "none"
      BY <1>0, <1>1, <2>1 DEF Accounted, Waits
    <3> QED BY <2>1, <2>3, <3>1 DEF Job, Status, JobOf, Meant
  <2>5. HasPipe(line)' <=> HasPipe(l)
    BY <2>1, <2>3
  <2>6. Jobs' = IF HasPipe(l) THEN <<JobOf(Side("second", l)), JobOf(Side("first", l))>>
                ELSE <<JobOf(Side("first", l))>>
    BY <1>1, <2>1, <2>4, <2>5, ZenonT(60) DEF Jobs
  <2>7. CASE HasPipe(l)
    <3>1. PICK j, before, after :
            /\ j = Bar(l) /\ before = SubSeq(l, 1, j - 1) /\ after = SubSeq(l, j + 1, Len(l))
      OBVIOUS
    <3>2. /\ j \in DOMAIN l /\ l = before \o <<"|">> \o after /\ ~Contains(before, "|")
          /\ Side("second", l) = before /\ Side("first", l) = after
      BY <2>3, <2>7, <3>1, SplitAtBar
    <3>3. Jobs' = <<JobOf(before), JobOf(after)>>
      BY <2>6, <2>7, <3>2
    <3> QED BY <2>1, <2>2, <3>1, <3>2, <3>3, SeenRunTwo
  <2>8. CASE ~HasPipe(l)
    <3>1. Side("first", l) = l /\ ~Contains(l, "|")
      BY <2>3, <2>8, SinglePipe DEF Side
    <3>2. l[1] \notin {"alias", "cd", "exit"}
      BY <2>1, <2>3, <2>8 DEF BuiltIn
    <3>3. Jobs' = <<JobOf(l)>>
      BY <2>6, <2>8, <3>1
    <3> QED BY <2>1, <2>2, <3>1, <3>2, <3>3, SeenRunOne
  <2> QED BY <2>7, <2>8
<1>7. ASSUME pc \in Underway, pc' \in Underway, UNCHANGED <<line, aliases, cwd>>,
             Job("first")' = Job("first"), HasPipe(line) => Job("second")' = Job("second")
      PROVE  [Commanded!Next]_Commanded!avars
  BY <1>7, JobsSame, Unseen
<1>8. CASE Fork \/ Fork2
  <2>1. /\ pc \in Underway /\ pc' \in Underway /\ UNCHANGED <<line, aliases, cwd>>
    BY <1>8 DEF Fork, Fork2, Born, Underway
  <2>2. PICK c \in Children : state[c] = "none" /\ state' = [state EXCEPT ![c] = "forked"]
                              /\ UNCHANGED argv
    <3>1. CASE Fork
      BY <1>0, <1>1, <3>1 DEF Fork, Born, Accounted, Waits
    <3>2. CASE Fork2
      BY <1>0, <1>1, <3>2 DEF Fork2, Born, Accounted, Waits
    <3> QED BY <1>8, <3>1, <3>2
  <2>3. ASSUME NEW d \in Children PROVE Job(d)' = Job(d)
    <3>1. d = c => state[d] = "none" /\ state'[d] = "forked"
      BY <1>0, <2>2
    <3>2. d # c => state'[d] = state[d] /\ argv'[d] = argv[d]
      BY <1>0, <2>2
    <3>3. state[d] \in States
      BY <1>0
    <3> QED BY <2>1, <3>1, <3>2, <3>3, JobSame DEF States
  <2> QED BY <1>1, <1>7, <2>1, <2>3
<1>9. CASE ForkFails \/ Fork2Fails
  BY <1>9 DEF ForkFails, Fork2Fails, Keeping
<1>10. CASE Wait2
  <2>1. /\ pc = "wait2" /\ pc' = "wait"
        /\ state["second"] = "zombie" /\ state' = [state EXCEPT !["second"] = "reaped"]
        /\ UNCHANGED <<line, aliases, cwd, argv>>
    BY <1>0, <1>10 DEF Wait2, Faithful
  <2>2. ASSUME NEW d \in Children PROVE Job(d)' = Job(d)
    <3>1. d = "second" => state[d] = "zombie" /\ state'[d] = "reaped"
      BY <1>0, <1>1, <2>1
    <3>2. d # "second" => state'[d] = state[d]
      BY <1>0, <2>1
    <3>3. state[d] \in States
      BY <1>0
    <3> QED BY <2>1, <3>1, <3>2, <3>3, JobSame DEF States
  <2> QED BY <1>1, <1>7, <2>1, <2>2 DEF Underway
<1>11. CASE Wait
  <2>1. /\ pc = "wait" /\ pc' = "prompt" /\ UNCHANGED <<aliases, cwd>>
        /\ state["first"] \in {"zombie", "reaped"}
    BY <1>11 DEF Wait, Return
  <2>2. Jobs' = <<>>
    BY <2>1, NoJobs
  <2>3. Job("first").status = "over"
    BY <2>1, JobTried
  <2>4. HasPipe(line) => Job("second").status = "over"
    <3>1. HasPipe(line) => state["second"] = "reaped"
      BY <1>0, <2>1 DEF Faithful
    <3> QED BY <3>1, JobTried
  <2>5. Jobs = IF HasPipe(line) THEN <<Job("second"), Job("first")>> ELSE <<Job("first")>>
    BY <2>1 DEF Jobs
  <2>6. Jobs # <<>> /\ \A k \in DOMAIN Jobs : Jobs[k].status = "over"
    <3>1. PICK a, b : a = Job("first") /\ b = Job("second")
      OBVIOUS
    <3>2. CASE HasPipe(line)
      <4>1. Jobs = <<b, a>> /\ a.status = "over" /\ b.status = "over"
        BY <2>3, <2>4, <2>5, <3>1, <3>2
      <4> QED BY <4>1
    <3>3. CASE ~HasPipe(line)
      <4>1. Jobs = <<a>> /\ a.status = "over"
        BY <2>3, <2>5, <3>1, <3>3
      <4> QED BY <4>1
    <3> QED BY <3>2, <3>3
  <2> QED BY <2>1, <2>2, <2>6, SeenNextLine
<1> QED BY <1>3, <1>4, <1>5, <1>6, <1>8, <1>9, <1>10, <1>11 DEF ShellStep

LEMMA CommandsOfChildren ==
  ASSUME Keeping, Obeyed, NEW c \in Children, ChildStep(c)
  PROVE  [Commanded!Next]_Commanded!avars
<1>0. /\ TypeOK /\ Accounted /\ Meaningful(aliases) /\ Faithful
      /\ state \in [Children -> States]
      /\ UNCHANGED <<pc, line, aliases>>
      /\ state[c] \in {"forked", "expanding", "running"}
      /\ state'[c] \in {"expanding", "running", "zombie"}
      /\ state' = [state EXCEPT ![c] = state'[c]]
  <2>1. TypeOK /\ Accounted /\ state \in [Children -> States]
    BY DEF Obeyed, Typed, Accounted
  <2> QED BY <2>1, ChildrenLive DEF Obeyed
<1>1. UNCHANGED cwd
  BY DEF ChildStep, Redirect, Expand, Keep, Exec, Write, Read, ProgramExits, shellVars
<1>2. pc \in Underway /\ pc' \in Underway
  BY <1>0 DEF Accounted, Faithful, Underway, Waits, Children
<1>3. c = "second" => HasPipe(line)
  BY <1>0 DEF Faithful
<1>4. ASSUME \A d \in Children : d # c => argv'[d] = argv[d]
      PROVE  \A d \in Children : d # c => Job(d)' = Job(d)
  <2> SUFFICES ASSUME NEW d \in Children, d # c PROVE Job(d)' = Job(d)
    OBVIOUS
  <2>1. state'[d] = state[d] /\ state[d] \in States
    BY <1>0
  <2> QED BY <1>0, <1>4, <2>1, JobSame DEF States
<1>5. ASSUME UNCHANGED argv, Job(c)' = Job(c) PROVE [Commanded!Next]_Commanded!avars
  <2>1. \A d \in Children : Job(d)' = Job(d)
    BY <1>4, <1>5
  <2>2. Job("first")' = Job("first") /\ Job("second")' = Job("second")
    BY <2>1 DEF Children
  <2> QED BY <1>0, <1>1, <1>2, <2>2, JobsSame, Unseen
<1>6. ASSUME NEW status, Job(c)' = [Job(c) EXCEPT !.status = status],
             \A d \in Children : d # c => argv'[d] = argv[d],
             \/ Job(c).status = "asked" /\ Runs(Job(c).words) /\ status = "running"
             \/ Job(c).status = "asked" /\ ~Runs(Job(c).words) /\ status = "over"
             \/ Job(c).status = "running" /\ status = "over"
      PROVE  Commanded!Next
  <2>1. Nth(c) \in DOMAIN Jobs /\ Jobs[Nth(c)] = Job(c)
    BY <1>2, <1>3, JobOfChild
  <2>2. Jobs' = [Jobs EXCEPT ![Nth(c)].status = status]
    BY <1>0, <1>2, <1>3, <1>4, <1>6, JobChanges
  <2>3. PICK k : k = Nth(c)
    OBVIOUS
  <2> QED BY <1>0, <1>1, <1>6, <2>1, <2>2, <2>3, SeenStatus
<1>7. CASE Redirect(c)
  <2>1. UNCHANGED argv /\ state[c] = "forked" /\ state'[c] = "expanding"
    BY <1>0, <1>7 DEF Redirect
  <2> QED BY <1>0, <1>5, <2>1, JobSame
<1>8. CASE Expand(c) \/ Keep(c)
  <2>1. UNCHANGED argv /\ state[c] = "expanding"
    BY <1>8 DEF Expand, Keep
  <2>2. state'[c] = "expanding"
    <3>1. CASE Keep(c)
      BY <2>1, <3>1 DEF Keep
    <3>2. CASE Expand(c)
      BY <2>1, <3>2, ChildHasRoom
    <3> QED BY <1>8, <3>1, <3>2
  <2> QED BY <1>0, <1>5, <2>1, <2>2, JobSame
<1>9. CASE Write(c) \/ Read(c)
  <2>1. UNCHANGED <<argv, state>> /\ state[c] = "running"
    BY <1>9 DEF Write, Read
  <2> QED BY <1>0, <1>5, <2>1, JobSame
<1>10. CASE Exec(c)
  <2>1. /\ state[c] = "expanding" /\ command[c].i >= command[c].nr
        /\ argv' = [argv EXCEPT ![c] = Argv(command[c])]
        /\ Runs(Argv(command[c])) => state'[c] = "running"
        /\ ~Runs(Argv(command[c])) => state'[c] = "zombie"
    BY <1>0, <1>10 DEF Exec
  <2>2. Argv(command[c]) = Substituted(aliases, Side(c, line))
    BY <1>10, ChildGetsAll DEF Meant
  <2>3. PICK args : args = Argv(command[c])
    OBVIOUS
  <2>4. Job(c) = [words |-> args, status |-> "asked"]
    BY <2>1, <2>2, <2>3, JobAsked DEF JobOf
  <2>5. argv'[c] = args /\ \A d \in Children : d # c => argv'[d] = argv[d]
    BY <1>0, <2>1, <2>3 DEF TypeOK
  <2>6. PICK status : status = IF state'[c] = "running" THEN "running" ELSE "over"
    OBVIOUS
  <2>7. Job(c)' = [words |-> args, status |-> status]
    BY <2>1, <2>3, <2>5, <2>6 DEF Job, Status
  <2>8. Job(c)' = [Job(c) EXCEPT !.status = status]
    BY <2>4, <2>7
  <2>9. \/ Job(c).status = "asked" /\ Runs(Job(c).words) /\ status = "running"
        \/ Job(c).status = "asked" /\ ~Runs(Job(c).words) /\ status = "over"
    BY <2>1, <2>3, <2>4, <2>6
  <2> QED BY <1>6, <2>5, <2>8, <2>9
<1>11. CASE ProgramExits(c)
  <2>1. UNCHANGED argv /\ state[c] = "running" /\ state'[c] = "zombie"
    BY <1>0, <1>11 DEF ProgramExits
  <2>2. Job(c) = [words |-> argv[c], status |-> "running"]
    BY <2>1, JobTried
  <2>3. Job(c)' = [words |-> argv[c], status |-> "over"]
    BY <2>1 DEF Job, Status
  <2> QED BY <1>6, <2>1, <2>2, <2>3
<1> QED BY <1>7, <1>8, <1>9, <1>10, <1>11 DEF ChildStep

(* For every user who defines no alias as nothing, who types lines that    *)
(* fit the arrays, also when their aliases are expanded, and has no more   *)
(* aliases than v_wordCnt has entries: as long as fork() does not fail,    *)
(* every line is carried out as CommandLines says.                         *)
THEOREM LinesAreCarriedOut ==
  ASSUME Keeping
  PROVE  Spec => ImplementsCommandLines
<1>1. Init => Commanded!Init
  BY CommandsInit
<1>2. ASSUME Obeyed, [Next]_vars
      PROVE  [Commanded!Next]_Commanded!avars
  <2>1. CASE ReadLine \/ EndOfInput \/ ShellStep
    BY <1>2, <2>1, CommandsOfShell
  <2>2. CASE \E c \in Children : ChildStep(c)
    BY <1>2, <2>2, CommandsOfChildren
  <2>3. CASE Ended \/ UNCHANGED vars
    <3>1. UNCHANGED <<pc, line, aliases, cwd, state, command, argv, ends, sent, got>>
      BY <2>3 DEF Ended, vars
    <3>2. Jobs' = Jobs
      BY <3>1 DEF Jobs, Job, Status, Meant, HasPipe
    <3> QED BY <3>1, <3>2, Unseen
  <2> QED BY <1>2, <2>1, <2>2, <2>3 DEF Next
<1> QED BY <1>1, <1>2, ObeyedInductive, PTL DEF Spec, ImplementsCommandLines, Commanded!Spec

-----------------------------------------------------------------------------
(* A line comes to an end.  Each of these can only go down while it is     *)
(* carried out, if those before it stay as they are: where the shell is,   *)
(* what has become of its children, the tokens they have still to look at, *)
(* what the writer has still to write, and what is in the pipe.            *)
PcRank ==
  CASE pc = "run" -> 5
    [] pc = "fork" -> 4
    [] pc = "fork2" -> 3
    [] pc \in {"wait2", "waitany"} -> 2
    [] pc = "wait" -> 1
    [] OTHER -> 0
StateRank(c) ==
  CASE state[c] = "forked" -> 4
    [] state[c] = "expanding" -> 3
    [] state[c] = "running" -> 2
    [] state[c] = "zombie" -> 1
    [] OTHER -> 0
ToExpand(c) == IF state[c] = "expanding" THEN command[c].nr - command[c].i ELSE 0
ToWrite == IF state["second"] = "running" THEN Program("second").writes - sent ELSE 0
Measure ==
  <<PcRank, StateRank("first"), StateRank("second"),
    ToExpand("first"), ToExpand("second"), ToWrite, InPipe>>

(* What the programs do to the pipe, when.                                 *)
Paced ==
  /\ Typed
  /\ Accounted
  /\ state["second"] \in {"none", "forked", "expanding"} => sent = 0
  /\ \A c \in Children : state[c] = "running" => Runs(argv[c])
  /\ state["second"] = "running" => sent <= Program("second").writes

LEMMA ProgramType ==
  ASSUME NEW c, Runs(argv[c])
  PROVE  Program(c).writes \in Nat /\ Program(c).reads \in BOOLEAN
<1>1. PICK p \in DOMAIN Programs : p = argv[c][1]
  BY DEF Runs
<1>2. Programs[p] \in [reads : BOOLEAN, writes : Nat]
  BY ProgramsAssumption
<1> QED BY <1>1, <1>2 DEF Program

LEMMA PacedByShell ==
  ASSUME Paced, ReadLine \/ EndOfInput \/ ShellStep
  PROVE  Paced'
<1>0. Typed' /\ Accounted'
  BY TypedByShell, AccountedInductive DEF Paced, Next
<1>1. /\ Accounted /\ state \in [Children -> States]
      /\ state["second"] \in {"none", "forked", "expanding"} => sent = 0
      /\ \A c \in Children : state[c] = "running" => Runs(argv[c])
      /\ state["second"] = "running" => sent <= Program("second").writes
      /\ Children = {"first", "second"}
  BY DEF Paced, Accounted, Children
<1>2. CASE UNCHANGED <<state, argv, sent>>
  BY <1>0, <1>1, <1>2 DEF Paced, Program, Runs
<1>3. CASE \/ ReadLine \/ EndOfInput \/ Exit \/ ChangeDirectory \/ ListAliases
           \/ DefineAlias \/ RunProgram \/ ForkFails \/ Fork2Fails
  <2>1. UNCHANGED <<state, argv, sent>>
    BY <1>3, Zenon DEF ReadLine, EndOfInput, Exit, ChangeDirectory, ListAliases, DefineAlias,
                       RunProgram, ForkFails, Fork2Fails, childVars
  <2> QED BY <1>2, <2>1
<1>4. CASE OpenPipe
  <2>1. pc = "run" /\ sent' = 0 /\ UNCHANGED <<state, argv>>
    BY <1>4 DEF OpenPipe
  <2>2. state["first"] = "none" /\ state["second"] = "none"
    BY <1>1, <2>1 DEF Accounted, Waits
  <2> QED BY <1>0, <1>1, <2>1, <2>2 DEF Paced
<1>5. CASE Fork \/ Fork2
  <2>1. PICK c \in Children : /\ state' = [state EXCEPT ![c] = "forked"]
                              /\ UNCHANGED <<argv, sent>>
                              /\ c = "second" => pc = "fork2"
    BY <1>1, <1>5 DEF Fork, Fork2, Born
  <2>2. c = "second" => sent' = 0
    BY <1>1, <2>1 DEF Accounted
  <2>3. \A d \in Children : state'[d] # "forked" => state'[d] = state[d]
    BY <1>1, <2>1
  <2>4. state'["second"] = "forked" => sent' = 0
    BY <1>1, <2>1, <2>2
  <2> QED BY <1>0, <1>1, <2>1, <2>3, <2>4 DEF Paced, Program, Runs
<1>6. CASE Wait2
  <2>1. PICK c \in Children : /\ state' = [state EXCEPT ![c] = "reaped"]
                              /\ UNCHANGED <<argv, sent>>
    BY <1>6 DEF Wait2
  <2>2. \A d \in Children : state'[d] # "reaped" => state'[d] = state[d]
    BY <1>1, <2>1
  <2> QED BY <1>0, <1>1, <2>1, <2>2 DEF Paced, Program, Runs
<1>7. CASE Wait
  <2>1. sent' = 0 /\ \A c \in Children : state'[c] = IF Gone(c) THEN "none" ELSE state[c]
    BY <1>7 DEF Wait, ForgetGone
  <2>2. state["second"] \in {"none", "reaped"}
    BY <1>1, <1>7 DEF Wait, Accounted
  <2>3. state'["first"] = "none" /\ state'["second"] = "none"
    BY <1>1, <2>1, <2>2 DEF Gone
  <2> QED BY <1>0, <1>1, <2>1, <2>3 DEF Paced
<1> QED BY <1>3, <1>4, <1>5, <1>6, <1>7 DEF ShellStep

LEMMA PacedByChildren ==
  ASSUME Paced, NEW c \in Children, ChildStep(c)
  PROVE  Paced'
<1>0. Typed' /\ Accounted'
  BY TypedByChildren, AccountedInductive DEF Paced, Next
<1>1. /\ state \in [Children -> States] /\ TypeOK
      /\ state["second"] \in {"none", "forked", "expanding"} => sent = 0
      /\ \A d \in Children : state[d] = "running" => Runs(argv[d])
      /\ state["second"] = "running" => sent <= Program("second").writes
      /\ Children = {"first", "second"}
  BY DEF Paced, Accounted, Children, Typed
<1>2. state' = [state EXCEPT ![c] = state'[c]] /\ state[c] \in {"forked", "expanding", "running"}
  BY <1>1, ChildrenLive
<1>3. CASE Redirect(c) \/ Expand(c) \/ Keep(c) \/ ProgramExits(c)
  <2>1. UNCHANGED <<argv, sent>>
    BY <1>3 DEF Redirect, Expand, Keep, ProgramExits
  <2>2. \/ state'[c] = "zombie"
        \/ state[c] \in {"forked", "expanding"} /\ state'[c] = "expanding"
    <3>1. CASE Expand(c)
      <4>1. state[c] = "expanding" /\ (state' = state \/ state' = [state EXCEPT ![c] = "zombie"])
        BY <3>1, Zenon DEF Expand
      <4> QED BY <1>1, <4>1
    <3>2. CASE Redirect(c) \/ Keep(c) \/ ProgramExits(c)
      BY <1>1, <3>2 DEF Redirect, Keep, ProgramExits
    <3> QED BY <1>3, <3>1, <3>2
  <2>3. \A d \in Children : state'[d] = state[d] \/ state'[d] \in {"zombie", "expanding"}
    BY <1>1, <1>2, <2>2
  <2>4. state'["second"] = "expanding" => state["second"] \in {"forked", "expanding"}
    BY <1>1, <1>2, <2>2
  <2> QED BY <1>0, <1>1, <2>1, <2>3, <2>4 DEF Paced, Program, Runs
<1>4. CASE Exec(c)
  <2>1. /\ state[c] = "expanding" /\ sent' = sent
        /\ argv' = [argv EXCEPT ![c] = Argv(command[c])]
        /\ state'[c] = IF Runs(Argv(command[c])) THEN "running" ELSE "zombie"
    BY <1>1, <1>4 DEF Exec
  <2>2. argv'[c] = Argv(command[c]) /\ \A d \in Children : d # c => argv'[d] = argv[d]
    BY <1>1, <2>1 DEF TypeOK
  <2>3. state'[c] = "running" => Runs(argv'[c])
    BY <2>1, <2>2
  <2>4. \A d \in Children : state'[d] = "running" => Runs(argv'[d])
    BY <1>1, <1>2, <2>2, <2>3
  <2>5. state'["second"] = "running" => sent' <= Program("second").writes'
    <3>1. CASE c = "second"
      <4>1. state'["second"] = "running" => Program("second")'.writes \in Nat
        <5>1. ASSUME state'["second"] = "running"
              PROVE  Programs[argv'["second"][1]].writes \in Nat
          <6>1. argv'["second"][1] \in DOMAIN Programs
            BY <2>3, <3>1, <5>1 DEF Runs
          <6> QED BY <6>1, ProgramsAssumption
        <5> QED BY <5>1 DEF Program
      <4> QED BY <1>1, <2>1, <3>1, <4>1
    <3>2. CASE c # "second"
      BY <1>1, <1>2, <2>1, <2>2, <3>2 DEF Program
    <3> QED BY <3>1, <3>2
  <2>6. state'["second"] \in {"none", "forked", "expanding"} => sent' = 0
    BY <1>1, <1>2, <2>1
  <2> QED BY <1>0, <2>4, <2>5, <2>6 DEF Paced
<1>5. CASE Write(c)
  <2>1. /\ state["second"] = "running" /\ sent < Program("second").writes /\ sent' = sent + 1
        /\ UNCHANGED <<state, argv>>
    BY <1>5 DEF Write, Writes
  <2>2. Program("second").writes \in Nat /\ sent \in Nat
    BY <1>1, <2>1, ProgramType DEF TypeOK
  <2> QED BY <1>0, <1>1, <2>1, <2>2 DEF Paced, Program
<1>6. CASE Read(c)
  BY <1>0, <1>1, <1>6 DEF Read, Paced, Program
<1> QED BY <1>3, <1>4, <1>5, <1>6 DEF ChildStep

LEMMA PacedInductive ==
  /\ Init => Paced
  /\ Paced /\ [Next]_vars => Paced'
<1>1. Init => Paced
  BY InitTyped, AccountedInductive DEF Init, Paced, Children
<1>2. ASSUME Paced, [Next]_vars PROVE Paced'
  <2>1. CASE ReadLine \/ EndOfInput \/ ShellStep
    BY <1>2, <2>1, PacedByShell
  <2>2. CASE \E c \in Children : ChildStep(c)
    BY <1>2, <2>2, PacedByChildren
  <2>3. CASE Ended \/ UNCHANGED vars
    <3>1. UNCHANGED <<pc, line, aliases, cwd, state, command, argv, ends, sent, got>>
      BY <2>3 DEF Ended, vars
    <3>2. Typed' /\ Accounted'
      BY <1>2, <3>1, AccountedInductive DEF Paced, Typed, TypeOK
    <3> QED BY <1>2, <3>1, <3>2 DEF Paced, Program, Runs
  <2> QED BY <1>2, <2>1, <2>2, <2>3 DEF Next
<1> QED BY <1>1, <1>2

LEMMA MeasureType ==
  ASSUME Paced
  PROVE  /\ Measure \in [1..7 -> Nat]
         /\ \A c \in Children : ToExpand(c) \in Nat
         /\ ToWrite \in Nat /\ InPipe \in Nat
<1>1. PcRank \in Nat /\ \A c \in Children : StateRank(c) \in Nat
  BY DEF PcRank, StateRank
<1>2. ASSUME NEW c \in Children PROVE ToExpand(c) \in Nat
  <2>1. CASE state[c] = "expanding"
    <3>1. InArray(command[c])
      BY <2>1 DEF Paced, Typed
    <3>2. PICK nr, i \in Int : nr = command[c].nr /\ i = command[c].i /\ i \in 0..nr
      BY <3>1 DEF InArray, Command
    <3> QED BY <2>1, <3>2 DEF ToExpand
  <2> QED BY <2>1 DEF ToExpand
<1>3. ToWrite \in Nat
  <2>1. CASE state["second"] = "running"
    <3>1. Runs(argv["second"]) /\ sent \in Nat /\ sent <= Program("second").writes
      BY <2>1 DEF Paced, Typed, TypeOK, Children
    <3>2. Program("second").writes \in Nat
      BY <3>1, ProgramType
    <3> QED BY <2>1, <3>1, <3>2 DEF ToWrite
  <2> QED BY <2>1 DEF ToWrite
<1>4. InPipe \in Nat
  BY DEF Paced, Typed, TypeOK, InPipe
<1> QED BY <1>1, <1>2, <1>3, <1>4 DEF Measure, Children

LEMMA MeasureLowers ==
  ASSUME Paced, Paced',
         \/ PcRank' < PcRank
         \/ /\ PcRank' = PcRank
            /\ \/ StateRank("first")' < StateRank("first")
               \/ /\ StateRank("first")' = StateRank("first")
                  /\ \/ StateRank("second")' < StateRank("second")
                     \/ /\ StateRank("second")' = StateRank("second")
                        /\ \/ ToExpand("first")' < ToExpand("first")
                           \/ /\ ToExpand("first")' = ToExpand("first")
                              /\ \/ ToExpand("second")' < ToExpand("second")
                                 \/ /\ ToExpand("second")' = ToExpand("second")
                                    /\ \/ ToWrite' < ToWrite
                                       \/ ToWrite' = ToWrite /\ InPipe' < InPipe
  PROVE  LexBelow(Measure', Measure)
<1>1. /\ Measure[1] = PcRank /\ Measure[2] = StateRank("first")
      /\ Measure[3] = StateRank("second") /\ Measure[4] = ToExpand("first")
      /\ Measure[5] = ToExpand("second") /\ Measure[6] = ToWrite /\ Measure[7] = InPipe
      /\ DOMAIN Measure = 1..7
  BY DEF Measure
<1>2. /\ Measure'[1] = PcRank' /\ Measure'[2] = StateRank("first")'
      /\ Measure'[3] = StateRank("second")' /\ Measure'[4] = ToExpand("first")'
      /\ Measure'[5] = ToExpand("second")' /\ Measure'[6] = ToWrite' /\ Measure'[7] = InPipe'
  BY DEF Measure
<1>3. PICK s, t : s = Measure' /\ t = Measure
  OBVIOUS
<1>4. \E k \in 1..7 : s[k] < t[k] /\ \A j \in 1..(k - 1) : s[j] = t[j]
  <2>1. \/ s[1] < t[1]
        \/ s[1] = t[1] /\ s[2] < t[2]
        \/ s[1] = t[1] /\ s[2] = t[2] /\ s[3] < t[3]
        \/ s[1] = t[1] /\ s[2] = t[2] /\ s[3] = t[3] /\ s[4] < t[4]
        \/ s[1] = t[1] /\ s[2] = t[2] /\ s[3] = t[3] /\ s[4] = t[4] /\ s[5] < t[5]
        \/ /\ s[1] = t[1] /\ s[2] = t[2] /\ s[3] = t[3] /\ s[4] = t[4] /\ s[5] = t[5]
           /\ s[6] < t[6]
        \/ /\ s[1] = t[1] /\ s[2] = t[2] /\ s[3] = t[3] /\ s[4] = t[4] /\ s[5] = t[5]
           /\ s[6] = t[6] /\ s[7] < t[7]
    BY <1>1, <1>2, <1>3
  <2> QED BY <2>1
<1> QED BY <1>1, <1>3, <1>4 DEF LexBelow

LEMMA ShellLowers ==
  ASSUME pc # "prompt", Accounted, ReadLine \/ EndOfInput \/ ShellStep
  PROVE  PcRank' < PcRank
<1>1. CASE ReadLine \/ EndOfInput
  BY <1>1 DEF ReadLine, EndOfInput
<1>2. CASE Exit \/ ChangeDirectory \/ ListAliases \/ DefineAlias
  <2>1. pc = "run" /\ pc' \in {"prompt", "exited", "smashed"}
    BY <1>2 DEF Exit, ChangeDirectory, ListAliases, DefineAlias, RunsBuiltIn, Return
  <2> QED BY <2>1 DEF PcRank
<1>3. CASE OpenPipe \/ RunProgram
  BY <1>3 DEF OpenPipe, RunProgram, PcRank
<1>4. CASE Fork
  <2>1. pc = "fork" /\ pc' \in {"fork2", "wait"}
    BY <1>4 DEF Fork
  <2> QED BY <2>1 DEF PcRank
<1>5. CASE ForkFails \/ Fork2 \/ Fork2Fails
  <2>1. \/ pc = "fork" /\ pc' = "prompt"
        \/ pc = "fork2" /\ pc' \in {"wait2", "waitany"}
    BY <1>5 DEF ForkFails, Fork2, Fork2Fails, Return
  <2> QED BY <2>1 DEF PcRank
<1>6. CASE Wait2 \/ Wait
  <2>1. \/ pc \in {"wait2", "waitany"} /\ pc' = "wait"
        \/ pc = "wait" /\ pc' = "prompt"
    BY <1>6 DEF Wait2, Wait, Return
  <2> QED BY <2>1 DEF PcRank
<1> QED BY <1>1, <1>2, <1>3, <1>4, <1>5, <1>6 DEF ShellStep

LEMMA ChildLowers ==
  ASSUME Paced, Paced', NEW c \in Children, ChildStep(c)
  PROVE  LexBelow(Measure', Measure)
<1>1. /\ state \in [Children -> States] /\ TypeOK
      /\ Children = {"first", "second"}
      /\ InPipe \in Nat /\ ToWrite \in Nat
  BY MeasureType DEF Paced, Typed, Accounted, Children
<1>2. /\ UNCHANGED <<pc, line, aliases>>
      /\ state[c] \in {"forked", "expanding", "running"}
      /\ state'[c] \in {"expanding", "running", "zombie"}
      /\ state' = [state EXCEPT ![c] = state'[c]]
      /\ \A d \in Children : d # c => state'[d] = state[d]
  <2>1. /\ UNCHANGED <<pc, line, aliases>>
        /\ state[c] \in {"forked", "expanding", "running"}
        /\ state'[c] \in {"expanding", "running", "zombie"}
        /\ state' = [state EXCEPT ![c] = state'[c]]
    BY <1>1, ChildrenLive
  <2>2. \A d \in Children : d # c => state'[d] = state[d]
    BY <1>1, <2>1
  <2> QED BY <2>1, <2>2
<1>3. PcRank' = PcRank
  BY <1>2 DEF PcRank
<1>4. \A d \in Children : state'[d] = state[d] => StateRank(d)' = StateRank(d)
  BY DEF StateRank
<1>5. CASE \/ state[c] = "forked" /\ state'[c] = "expanding"
           \/ state[c] = "expanding" /\ state'[c] \in {"running", "zombie"}
           \/ state[c] = "running" /\ state'[c] = "zombie"
  <2>1. StateRank(c)' < StateRank(c)
    BY <1>5 DEF StateRank
  <2>2. \A d \in Children : d # c => StateRank(d)' = StateRank(d)
    BY <1>2, <1>4
  <2> QED BY <1>1, <1>3, <2>1, <2>2, MeasureLowers
<1>6. ASSUME state' = state, state[c] = "expanding",
             NEW d, command' = [command EXCEPT ![c] = d],
             d.nr - d.i < command[c].nr - command[c].i
      PROVE  LexBelow(Measure', Measure)
  <2>1. command'[c] = d /\ \A e \in Children : e # c => command'[e] = command[e]
    BY <1>1, <1>6 DEF TypeOK
  <2>2. ToExpand(c)' < ToExpand(c)
    BY <1>6, <2>1 DEF ToExpand
  <2>3. \A e \in Children : e # c => ToExpand(e)' = ToExpand(e)
    BY <1>6, <2>1 DEF ToExpand
  <2>4. \A e \in Children : StateRank(e)' = StateRank(e)
    BY <1>4, <1>6
  <2> QED BY <1>1, <1>3, <2>2, <2>3, <2>4, MeasureLowers
<1>7. CASE Redirect(c) \/ Exec(c) \/ ProgramExits(c)
  <2>1. \/ state[c] = "forked" /\ state' = [state EXCEPT ![c] = "expanding"]
        \/ /\ state[c] = "expanding"
           /\ \E now \in {"running", "zombie"} : state' = [state EXCEPT ![c] = now]
        \/ state[c] = "running" /\ state' = [state EXCEPT ![c] = "zombie"]
    BY <1>7 DEF Redirect, Exec, ProgramExits
  <2> QED BY <1>1, <1>5, <2>1
<1>8. ASSUME state[c] = "expanding"
      PROVE  command[c].nr \in Int /\ command[c].i \in Int /\ command[c] \in Command
  BY <1>1, <1>8 DEF TypeOK, Command
<1>9. CASE Expand(c)
  <2>1. state[c] = "expanding" /\ IsAlias(aliases, Token(c)) /\ aliases \in Seq(Entries)
    BY <1>1, <1>9 DEF Expand, TypeOK, Entries
  <2>2. PICK words \in Seq(Words) : words = Value(aliases, Token(c))
    BY <2>1, ValueType
  <2>3. \/ /\ command' = [command EXCEPT ![c] = Replaced(command[c], words)]
           /\ state' = state
        \/ state' = [state EXCEPT ![c] = "zombie"]
    BY <1>9, <2>2, Zenon DEF Expand
  <2>4. PICK d : d = Replaced(command[c], words)
    OBVIOUS
  <2>5. d.nr - d.i < command[c].nr - command[c].i
    <3>1. PICK cmd \in Command : cmd = command[c]
      BY <1>8, <2>1
    <3>2. PICK n \in Nat : n = Len(words)
      OBVIOUS
    <3>3. d.nr = cmd.nr + n - 1 /\ d.i = cmd.i + n /\ cmd.nr \in Int /\ cmd.i \in Int
      BY <2>4, <3>1, <3>2 DEF Replaced, Command
    <3> QED BY <3>1, <3>3
  <2>6. CASE state' = state /\ command' = [command EXCEPT ![c] = d]
    BY <1>6, <2>1, <2>5, <2>6
  <2>7. CASE state' = [state EXCEPT ![c] = "zombie"]
    BY <1>1, <1>5, <2>1, <2>7
  <2> QED BY <2>3, <2>4, <2>6, <2>7
<1>10. CASE Keep(c)
  <2>1. state[c] = "expanding" /\ state' = state
    BY <1>10 DEF Keep
  <2>2. PICK d : d = [command[c] EXCEPT !.i = command[c].i + 1]
    OBVIOUS
  <2>3. command' = [command EXCEPT ![c] = d]
    BY <1>10, <2>2 DEF Keep
  <2>4. d.nr - d.i < command[c].nr - command[c].i
    BY <1>8, <2>1, <2>2 DEF Command
  <2> QED BY <1>6, <2>1, <2>3, <2>4
<1>11. CASE Write(c) \/ Read(c)
  <2>1. UNCHANGED <<state, command, argv>>
    BY <1>11 DEF Write, Read
  <2>2. /\ StateRank("first")' = StateRank("first") /\ StateRank("second")' = StateRank("second")
        /\ ToExpand("first")' = ToExpand("first") /\ ToExpand("second")' = ToExpand("second")
    BY <2>1 DEF StateRank, ToExpand
  <2>3. CASE Write(c)
    <3>1. state["second"] = "running" /\ sent' = sent + 1 /\ sent < Program("second").writes
      BY <2>3 DEF Write, Writes
    <3>2. sent \in Nat /\ Program("second").writes \in Nat
      BY <1>1, <3>1, ProgramType DEF Paced, TypeOK
    <3>3. ToWrite' < ToWrite
      BY <2>1, <3>1, <3>2 DEF ToWrite, Program
    <3> QED BY <1>3, <2>2, <3>3, MeasureLowers
  <2>4. CASE Read(c)
    <3>1. got' = got + 1 /\ sent' = sent /\ got \in Nat /\ sent \in Nat
      BY <1>1, <2>4 DEF Read, TypeOK
    <3>2. ToWrite' = ToWrite /\ InPipe' < InPipe
      BY <2>1, <3>1 DEF ToWrite, Program, InPipe
    <3> QED BY <1>3, <2>2, <3>2, MeasureLowers
  <2> QED BY <1>11, <2>3, <2>4
<1> QED BY <1>7, <1>9, <1>10, <1>11 DEF ChildStep

(* Whatever is typed, and whichever fork() fails: every step of the shell  *)
(* and of its children while a line is carried out, in whatever order they *)
(* take them, lowers the measure, so there are only finitely many before   *)
(* the shell prompts (LexWellFounded).                                     *)
LineProgresses == [][pc # "prompt" => LexBelow(Measure', Measure)]_vars
THEOREM LinesComeToAnEnd == Spec => [](Measure \in [1..7 -> Nat]) /\ LineProgresses
<1>1. Paced /\ Paced' /\ [Next]_vars => [pc # "prompt" => LexBelow(Measure', Measure)]_vars
  <2> SUFFICES ASSUME Paced, Paced', Next, pc # "prompt"
               PROVE  LexBelow(Measure', Measure) \/ UNCHANGED vars
    OBVIOUS
  <2>1. CASE ReadLine \/ EndOfInput \/ ShellStep
    <3>1. PcRank' < PcRank
      BY <2>1, ShellLowers DEF Paced
    <3> QED BY <3>1, MeasureLowers
  <2>2. CASE \E c \in Children : ChildStep(c)
    BY <2>2, ChildLowers
  <2>3. CASE Ended
    BY <2>3 DEF Ended
  <2> QED BY <2>1, <2>2, <2>3 DEF Next
<1>2. Paced => Measure \in [1..7 -> Nat]
  BY MeasureType
<1> QED BY <1>1, <1>2, PacedInductive, PTL DEF Spec, LineProgresses

-----------------------------------------------------------------------------
(* There is always a step to take: the guards of the shell, of a child,    *)
(* and that one of them holds while a line is carried out.                 *)
ShellCanAct ==
  \/ pc \in {"run", "fork", "fork2"}
  \/ pc = "wait2" /\ state["second"] = "zombie"
  \/ pc = "waitany" /\ \E c \in Children : state[c] = "zombie"
  \/ pc = "wait" /\ state["first"] \in {"zombie", "reaped"}
ChildCanAct(c) ==
  \/ state[c] \in {"forked", "expanding"}
  \/ /\ state[c] = "running"
     /\ \/ Writes(c) /\ sent < Program(c).writes /\ InPipe < PIPE_SIZE
        \/ c = "first" /\ HasPipe(line) /\ InPipe > 0
        \/ Over(c)
NeverStuck ==
  pc \notin {"prompt", "exited", "smashed"}
    => ShellCanAct \/ \E c \in Children : ChildCanAct(c)

(* What the two sides of a line are waiting for is coming: they run what   *)
(* the line says, of which the user made sure that it is "drained", and    *)
(* whoever could hold the reader up by keeping the write end has closed it *)
(* or is still alive.                                                      *)
Supplied ==
  /\ pc \in Underway \union {"run"} => Drained(line)
  /\ \A c \in Children : state[c] \in {"running", "zombie", "reaped"} => argv[c] = Meant(c, line)
  /\ pc \in Waits => state["first"] # "none"
  /\ pc = "wait2" => state["second"] \notin {"none", "reaped"}
  /\ HasPipe(line) /\ state["first"] \in {"expanding", "running"} => "w" \notin ends["first"]
  /\ state["second"] \in {"zombie", "reaped"} => "w" \notin ends["second"]
Flowing == Obeyed /\ Carried /\ NothingOpen /\ Paced /\ Supplied

LEMMA MeantSame ==
  ASSUME UNCHANGED <<line, aliases>>
  PROVE  /\ \A c \in Children : Meant(c, line)' = Meant(c, line)
         /\ Drained(line)' <=> Drained(line)
         /\ HasPipe(line)' <=> HasPipe(line)
BY DEF Meant, Drained, WritesMuch, ReadsAll, Runs, HasPipe

LEMMA SuppliedByShell ==
  ASSUME Keeping, "drained" \in Discipline, Flowing, ReadLine \/ EndOfInput \/ ShellStep
  PROVE  Supplied'
<1>1. /\ Accounted /\ Faithful /\ Supplied
      /\ state \in [Children -> States]
      /\ Children = {"first", "second"} /\ Processes = {"first", "second", "shell"}
      /\ ends = [p \in Processes |-> ends[p]]
  BY DEF Flowing, Obeyed, Accounted, NothingOpen, Children, Processes
<1>2. pc \notin Waits => \A c \in Children : state[c] = "none"
  BY <1>1 DEF Accounted
<1>3. ASSUME UNCHANGED <<state, argv, ends>>, pc \notin Waits, pc' \notin Waits,
             pc' \in {"run", "fork"} => Drained(line)'
      PROVE  Supplied'
  BY <1>1, <1>2, <1>3 DEF Supplied, Waits, Underway
<1>4. CASE ReadLine
  <2>1. /\ pc = "prompt" /\ UNCHANGED <<aliases, state, argv, ends>>
        /\ \E l \in Lines : MayType(l) /\ IF FitsArray(l) THEN pc' = "run" /\ line' = l
                                                          ELSE pc' = "smashed" /\ UNCHANGED line
    BY <1>4, Zenon DEF ReadLine, childVars
  <2>2. PICK l \in Lines : MayType(l) /\ IF FitsArray(l) THEN pc' = "run" /\ line' = l
                                                       ELSE pc' = "smashed" /\ UNCHANGED line
    BY <2>1
  <2>3. Drained(l)
    BY <2>2 DEF MayType
  <2>4. pc' = "run" => Drained(line)'
    BY <2>1, <2>2, <2>3 DEF Drained, WritesMuch, ReadsAll, Runs, Meant
  <2> QED BY <1>3, <2>1, <2>2, <2>4 DEF Waits
<1>5. CASE EndOfInput \/ Exit \/ ChangeDirectory \/ ListAliases \/ DefineAlias
  <2>1. /\ pc \in {"prompt", "run"} /\ pc' \in {"prompt", "exited", "smashed"}
        /\ UNCHANGED <<state, argv, ends>>
    BY <1>5 DEF EndOfInput, Exit, ChangeDirectory, ListAliases, DefineAlias, RunsBuiltIn,
                Return, childVars
  <2> QED BY <1>3, <2>1 DEF Waits
<1>6. CASE OpenPipe \/ RunProgram
  <2>1. /\ pc = "run" /\ pc' = "fork" /\ UNCHANGED <<line, aliases, state, argv>>
    BY <1>6 DEF OpenPipe, RunProgram, childVars
  <2>2. \A c \in Children : state'[c] = "none"
    BY <1>2, <2>1 DEF Waits
  <2>3. Drained(line)'
    BY <1>1, <2>1, MeantSame DEF Supplied
  <2> QED BY <1>1, <2>1, <2>2, <2>3 DEF Supplied, Waits
<1>7. CASE Fork
  <2>1. /\ pc = "fork" /\ pc' \in {"fork2", "wait"} /\ UNCHANGED <<line, aliases, argv>>
        /\ state' = [state EXCEPT !["first"] = "forked"]
    BY <1>7 DEF Fork, Born
  <2>2. state'["first"] = "forked" /\ state'["second"] = "none"
    BY <1>1, <1>2, <2>1 DEF Waits
  <2>3. Drained(line)'
    BY <1>1, <2>1, MeantSame DEF Supplied, Underway
  <2> QED BY <1>1, <2>1, <2>2, <2>3 DEF Supplied
<1>8. CASE ForkFails \/ Fork2Fails
  BY <1>8 DEF ForkFails, Fork2Fails, Keeping
<1>9. CASE Fork2
  <2>1. /\ pc = "fork2" /\ pc' = "wait2" /\ UNCHANGED <<line, aliases, argv>>
        /\ state' = [state EXCEPT !["second"] = "forked"]
        /\ ends' = [ends EXCEPT !["second"] = ends["shell"]]
    BY <1>9 DEF Fork2, Born
  <2>2. /\ state'["first"] = state["first"] /\ state'["second"] = "forked"
        /\ ends'["first"] = ends["first"]
    BY <1>1, <2>1
  <2> QED BY <1>1, <2>1, <2>2, MeantSame DEF Supplied, Underway, Waits
<1>10. CASE Wait2
  <2>1. /\ pc = "wait2" /\ pc' = "wait" /\ UNCHANGED <<line, aliases, argv>>
        /\ state["second"] = "zombie" /\ state' = [state EXCEPT !["second"] = "reaped"]
        /\ ends' = [ends EXCEPT !["shell"] = @ \ {"w"}]
    BY <1>1, <1>10 DEF Wait2, Faithful
  <2>2. /\ state'["first"] = state["first"] /\ state'["second"] = "reaped"
        /\ ends'["first"] = ends["first"] /\ ends'["second"] = ends["second"]
    BY <1>1, <2>1
  <2> QED BY <1>1, <2>1, <2>2, MeantSame DEF Supplied, Underway, Waits
<1>11. CASE Wait
  <2>1. /\ pc = "wait" /\ pc' = "prompt"
        /\ state' = [c \in Children |-> IF Gone(c) THEN "none" ELSE state[c]]
    BY <1>11 DEF Wait, Return, ForgetGone
  <2>2. state["second"] \in {"none", "reaped"}
    BY <1>1, <2>1 DEF Accounted
  <2>3. state'["first"] = "none" /\ state'["second"] = "none"
    BY <1>1, <2>1, <2>2 DEF Gone
  <2> QED BY <1>1, <2>1, <2>3 DEF Supplied, Underway, Waits
<1> QED BY <1>4, <1>5, <1>6, <1>7, <1>8, <1>9, <1>10, <1>11 DEF ShellStep

LEMMA SuppliedByChildren ==
  ASSUME Keeping, Flowing, NEW c \in Children, ChildStep(c)
  PROVE  Supplied'
<1>1. /\ Obeyed /\ Supplied
      /\ state \in [Children -> States]
      /\ argv = [d \in Children |-> argv[d]]
      /\ Children = {"first", "second"} /\ Processes = {"first", "second", "shell"}
      /\ ends = [p \in Processes |-> ends[p]]
  BY DEF Flowing, Obeyed, Accounted, NothingOpen, Carried, WriteEnds, Children, Processes
<1>2. /\ UNCHANGED <<pc, line, aliases>>
      /\ state[c] \in {"forked", "expanding", "running"}
      /\ state'[c] \in {"expanding", "running", "zombie"}
      /\ state' = [state EXCEPT ![c] = state'[c]]
  BY <1>1, ChildrenLive
<1>3. \A d \in Children : d # c => state'[d] = state[d]
  BY <1>1, <1>2
<1>4. /\ \A d \in Children : Meant(d, line)' = Meant(d, line)
      /\ Drained(line)' <=> Drained(line)
      /\ HasPipe(line)' <=> HasPipe(line)
  BY <1>2, MeantSame
<1>5. ASSUME \A d \in Children : d # c => argv'[d] = argv[d] /\ ends'[d] = ends[d],
             state'[c] \in {"running", "zombie"} => argv'[c] = Meant(c, line),
             state'[c] = "zombie" => "w" \notin ends'[c],
             \/ state'[c] = "zombie"
             \/ state[c] = "forked" /\ (c = "first" /\ HasPipe(line) => "w" \notin ends'[c])
             \/ state[c] \in {"expanding", "running"} /\ ends'[c] = ends[c]
      PROVE  Supplied'
  <2>1. \A d \in Children :
          state'[d] \in {"running", "zombie", "reaped"} => argv'[d] = Meant(d, line)'
    <3> SUFFICES ASSUME NEW d \in Children, state'[d] \in {"running", "zombie", "reaped"}
                 PROVE  argv'[d] = Meant(d, line)'
      OBVIOUS
    <3>1. Meant(d, line)' = Meant(d, line)
      BY <1>4
    <3>2. CASE d = c
      BY <1>2, <1>5, <3>1, <3>2
    <3>3. CASE d # c
      <4>1. state'[d] = state[d] /\ argv'[d] = argv[d]
        BY <1>3, <1>5, <3>3
      <4>2. argv[d] = Meant(d, line)
        BY <1>1, <4>1 DEF Supplied
      <4> QED BY <3>1, <4>1, <4>2
    <3> QED BY <3>2, <3>3
  <2>2. /\ state'["first"] = "none" => state["first"] = "none"
        /\ state'["second"] \in {"none", "reaped"} => state["second"] = state'["second"]
    BY <1>1, <1>2, <1>3
  <2>3. HasPipe(line)' /\ state'["first"] \in {"expanding", "running"} => "w" \notin ends'["first"]
    <3>1. CASE c = "first"
      BY <1>1, <1>2, <1>4, <1>5, <3>1 DEF Supplied
    <3>2. CASE c = "second"
      <4>1. state'["first"] = state["first"] /\ ends'["first"] = ends["first"]
        BY <1>1, <1>3, <1>5, <3>2
      <4> QED BY <1>1, <1>4, <4>1 DEF Supplied
    <3> QED BY <1>1, <3>1, <3>2
  <2>4. state'["second"] \in {"zombie", "reaped"} => "w" \notin ends'["second"]
    <3>1. CASE c = "second"
      BY <1>1, <1>2, <1>5, <3>1 DEF Supplied
    <3>2. CASE c = "first"
      <4>1. state'["second"] = state["second"] /\ ends'["second"] = ends["second"]
        BY <1>1, <1>3, <1>5, <3>2
      <4> QED BY <1>1, <4>1 DEF Supplied
    <3> QED BY <1>1, <3>1, <3>2
  <2> QED BY <1>1, <1>2, <1>4, <2>1, <2>2, <2>3, <2>4 DEF Supplied
<1>6. CASE Redirect(c)
  <2>1. /\ state[c] = "forked" /\ state' = [state EXCEPT ![c] = "expanding"] /\ UNCHANGED argv
        /\ ends' = [ends EXCEPT ![c] = IF c = "first" /\ HasPipe(line) THEN @ \ {"w"} ELSE @]
    BY <1>6 DEF Redirect
  <2>2. /\ state'[c] = "expanding"
        /\ \A d \in Children : d # c => ends'[d] = ends[d]
        /\ c = "first" /\ HasPipe(line) => "w" \notin ends'[c]
    BY <1>1, <2>1
  <2> QED BY <1>5, <2>1, <2>2
<1>7. CASE Expand(c)
  <2>1. state' = state /\ ends' = ends
    BY <1>1, <1>7, ChildHasRoom
  <2>2. state[c] = "expanding" /\ argv' = argv
    BY <1>7 DEF Expand
  <2> QED BY <1>5, <2>1, <2>2
<1>8. CASE Keep(c) \/ Write(c) \/ Read(c)
  <2>1. UNCHANGED <<state, argv, ends>> /\ state[c] \in {"expanding", "running"}
    BY <1>8 DEF Keep, Write, Read
  <2> QED BY <1>1, <1>5, <2>1 DEF Supplied
<1>9. CASE Exec(c)
  <2>1. /\ state[c] = "expanding"
        /\ argv' = [argv EXCEPT ![c] = Argv(command[c])]
        /\ \/ state' = [state EXCEPT ![c] = "running"] /\ ends' = ends
           \/ state' = [state EXCEPT ![c] = "zombie"] /\ ends' = [ends EXCEPT ![c] = {}]
    BY <1>9, Zenon DEF Exec
  <2>2. argv'[c] = Meant(c, line)
    BY <1>1, <1>9, <2>1, ChildGetsAll
  <2>3. \A d \in Children : d # c => argv'[d] = argv[d] /\ ends'[d] = ends[d]
    BY <1>1, <2>1
  <2>4. \/ state'[c] = "running" /\ ends'[c] = ends[c]
        \/ state'[c] = "zombie" /\ "w" \notin ends'[c]
    BY <1>1, <2>1
  <2> QED BY <1>5, <2>1, <2>2, <2>3, <2>4
<1>10. CASE ProgramExits(c)
  <2>1. /\ state[c] = "running" /\ state' = [state EXCEPT ![c] = "zombie"]
        /\ ends' = [ends EXCEPT ![c] = {}] /\ UNCHANGED argv
    BY <1>10 DEF ProgramExits
  <2>2. /\ state'[c] = "zombie" /\ "w" \notin ends'[c] /\ argv'[c] = Meant(c, line)
        /\ \A d \in Children : d # c => ends'[d] = ends[d]
    BY <1>1, <2>1 DEF Supplied
  <2> QED BY <1>5, <2>1, <2>2
<1> QED BY <1>6, <1>7, <1>8, <1>9, <1>10 DEF ChildStep

LEMMA FlowingInductive ==
  ASSUME Keeping, "drained" \in Discipline
  PROVE  /\ Init => Flowing
         /\ Flowing /\ [Next]_vars => Flowing'
<1>1. "forks" \in Discipline
  BY DEF Keeping
<1>2. Init => Supplied
  BY DEF Init, Supplied, Children, Waits, Underway
<1>3. ASSUME Flowing, [Next]_vars PROVE Supplied'
  <2>1. CASE ReadLine \/ EndOfInput \/ ShellStep
    BY <1>3, <2>1, SuppliedByShell
  <2>2. CASE \E c \in Children : ChildStep(c)
    BY <1>3, <2>2, SuppliedByChildren
  <2>3. CASE Ended \/ UNCHANGED vars
    <3>1. UNCHANGED <<pc, line, aliases, state, argv, ends>>
      BY <2>3 DEF Ended, vars
    <3> QED BY <1>3, <3>1, MeantSame DEF Flowing, Supplied
  <2> QED BY <1>3, <2>1, <2>2, <2>3 DEF Next
<1> QED BY <1>1, <1>2, <1>3, ObeyedInductive, CarriedInductive, NothingOpenInductive,
           PacedInductive DEF Flowing

(* For the user who keeps to all the rules, as long as fork() does not     *)
(* fail: while a line is carried out the shell or one of its children can  *)
(* go on, however full the pipe is and whoever waits for whom.             *)
THEOREM NobodyHangs ==
  ASSUME Keeping, "drained" \in Discipline
  PROVE  Spec => []NeverStuck
<1>1. ASSUME Flowing PROVE NeverStuck
  <2> SUFFICES ASSUME pc \in {"wait2", "wait"}, \A c \in Children : ~ChildCanAct(c)
               PROVE  ShellCanAct
    BY <1>1 DEF NeverStuck, ShellCanAct, Flowing, Obeyed, Faithful, Typed, TypeOK
  <2>1. /\ state \in [Children -> States] /\ Supplied /\ Children = {"first", "second"}
        /\ Processes = {"first", "second", "shell"}
        /\ sent \in Nat /\ got \in 0..sent
        /\ ReaderDone => got = sent /\ ~Alive("second")
        /\ pc = "wait" => "w" \notin ends["shell"]
        /\ pc = "wait2" => HasPipe(line)
        /\ pc = "wait" /\ HasPipe(line) => state["second"] = "reaped"
    BY <1>1 DEF Flowing, Obeyed, Accounted, Typed, TypeOK, Carried, NothingOpen, Faithful,
                Children, Processes
  <2>2. InPipe \in Nat /\ InPipe = sent - got /\ PIPE_SIZE \in Nat \ {0}
    BY <2>1, PipeAssumption DEF InPipe
  <2>3. \A c \in Children : state[c] \in {"none", "running", "zombie", "reaped"}
    BY <2>1 DEF ChildCanAct, States
  <2>4. CASE pc = "wait"
    <3>1. state["first"] # "running"
      <4> SUFFICES ASSUME state["first"] = "running" PROVE FALSE
        OBVIOUS
      <4>1. ~Over("first") /\ (HasPipe(line) => InPipe = 0)
        BY <2>1, <2>2 DEF ChildCanAct
      <4>2. HasPipe(line) /\ Reads("first")
        BY <4>1 DEF Over, Reads, Writes
      <4>3. \A p \in Processes : "w" \notin ends[p]
        BY <2>1, <2>4, <4>2 DEF Supplied
      <4> QED BY <4>1, <4>2, <4>3 DEF Over
    <3> QED BY <2>1, <2>3, <2>4, <3>1 DEF Supplied, Waits, ShellCanAct
  <2>5. CASE pc = "wait2"
    <3>1. state["second"] # "running"
      <4> SUFFICES ASSUME state["second"] = "running" PROVE FALSE
        OBVIOUS
      <4>1. PICK w \in Nat : w = Program("second").writes /\ sent <= w
        <5>1. Runs(argv["second"]) /\ sent <= Program("second").writes
          BY <1>1, <2>1 DEF Flowing, Paced
        <5> QED BY <5>1, ProgramType
      <4>2. sent # w /\ ~(sent < w /\ InPipe < PIPE_SIZE)
        BY <2>1, <4>1 DEF ChildCanAct, Over, Writes
      <4>3. w > PIPE_SIZE /\ InPipe > 0
        BY <2>1, <2>2, <4>1, <4>2
      <4>4. WritesMuch(Meant("second", line))
        <5>1. Runs(argv["second"]) /\ argv["second"] = Meant("second", line)
          BY <1>1, <2>1 DEF Flowing, Paced, Supplied
        <5> QED BY <4>1, <4>3, <5>1 DEF WritesMuch, Program
      <4>5. ReadsAll(Meant("first", line)) /\ HasPipe(line)
        BY <2>1, <2>5, <4>4 DEF Supplied, Drained, Underway
      <4>6. state["first"] \in {"zombie", "reaped"}
        <5>1. state["first"] # "running"
          BY <2>1, <2>5, <4>3 DEF ChildCanAct
        <5> QED BY <2>1, <2>3, <2>5, <5>1 DEF Supplied, Waits
      <4>7. argv["first"] = Meant("first", line)
        BY <2>1, <4>6 DEF Supplied
      <4>8. ReaderDone
        BY <4>5, <4>6, <4>7 DEF ReaderDone, ReadsAll, Program
      <4> QED BY <2>1, <4>8 DEF Alive
    <3> QED BY <2>1, <2>3, <2>5, <3>1 DEF Supplied, ShellCanAct
  <2> QED BY <2>4, <2>5
<1> QED BY <1>1, FlowingInductive, PTL DEF Spec
=============================================================================
