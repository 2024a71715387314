-------------------------------- MODULE Shell -------------------------------
(***************************************************************************)
(* The shell of os-pa1: the main loop of mash.c and run_command of pa1.c,  *)
(* with the processes it forks as processes of their own and the pipe      *)
(* between them.                                                           *)
(*                                                                         *)
(* The child `first' is the one run_command forks first: it runs the line, *)
(* or what is behind the "|".  The child `second' runs what is before it.  *)
(* Signals other than SIGPIPE, and what children do to the terminal, are   *)
(* left out.                                                               *)
(***************************************************************************)
EXTENDS Aliases

CONSTANTS
  Lines,        (* the lines users type: sequences of Words, not empty     *)
  Programs,     (* what execvp finds: a function from names to             *)
                (* [reads : BOOLEAN, writes : Nat], see Read and Write     *)
  Directories,  (* the arguments of cd that exist                          *)
  HOME,
  PIPE_SIZE,    (* how much the pipe holds                                 *)
  Discipline    (* which rules of MayType the user, or the system, keeps   *)

Rules == {"drained", "forks", "words", "room", "counts"}

ASSUME LinesAssumption == Lines \subseteq Seq(Words) \ {<<>>}
ASSUME ProgramsAssumption ==
  Programs \in [DOMAIN Programs -> [reads : BOOLEAN, writes : Nat]]
ASSUME PipeAssumption == PIPE_SIZE \in Nat \ {0}
ASSUME HomeAssumption == HOME \in Directories
ASSUME DisciplineAssumption == Discipline \subseteq Rules

VARIABLES
  pc,        (* where the shell is                                         *)
  line,      (* the tokens of the command line, <<>> at the prompt         *)
  aliases,
  cwd,
  state,     (* state[c]: what has become of the child c of this line      *)
  command,   (* command[c]: its token array, while it expands aliases      *)
  argv,      (* argv[c]: what it called execvp with                        *)
  ends,      (* ends[p]: the ends of the pipe that process p has open      *)
  sent,      (* how much was written to the pipe                           *)
  got        (* how much was read from it                                  *)

vars == <<pc, line, aliases, cwd, state, command, argv, ends, sent, got>>
childVars == <<state, command, argv, ends, sent, got>>

Children == {"first", "second"}
Processes == Children \union {"shell"}
Idle == [tokens |-> Tokenized(<<>>), base |-> 0, nr |-> 0, i |-> 0]

-----------------------------------------------------------------------------
(* The two sides of a line. *)

HasPipe(l) == \E j \in DOMAIN l : l[j] = "|"
Bar(l) == CHOOSE j \in DOMAIN l : l[j] = "|" /\ \A i \in 1..(j - 1) : l[i] # "|"
Side(c, l) ==
  IF ~HasPipe(l) THEN l
  ELSE IF c = "first" THEN SubSeq(l, Bar(l) + 1, Len(l)) ELSE SubSeq(l, 1, Bar(l) - 1)

(* A command that has not been given to a child: built in, or exit. *)
BuiltIn(l) == ~HasPipe(l) /\ l[1] \in {"exit", "cd", "alias"}

(* The shell replaces "|" by NULL and gives each child its part.           *)
Given(c) ==
  LET whole == Tokenized(line)
      split == IF HasPipe(line) THEN [whole EXCEPT ![Bar(line) - 1] = NULL] ELSE whole
  IN [tokens |-> split,
      base |-> IF HasPipe(line) /\ c = "first" THEN Bar(line) ELSE 0,
      nr |-> Len(Side(c, line)),
      i |-> 0]

(* What a user who wants no trouble keeps to.                              *)
Runs(words) == words # <<>> /\ words[1] \in DOMAIN Programs
Meant(c, l) == Substituted(aliases, Side(c, l))

(* "drained": if the command before a pipe writes more than the pipe       *)
(* holds, the one behind it reads to the end.                              *)
WritesMuch(words) == Runs(words) /\ Programs[words[1]].writes > PIPE_SIZE
ReadsAll(words) == Runs(words) /\ Programs[words[1]].reads
Drained(l) == HasPipe(l) /\ WritesMuch(Meant("second", l)) => ReadsAll(Meant("first", l))

(* "words": no alias is defined as nothing. *)
HasWords(l) == ~(BuiltIn(l) /\ l[1] = "alias" /\ Len(l) = 2)

(* "room": the line fits the token array, also when it is expanded.        *)
HasPlace(l) ==
  /\ FitsArray(l)
  /\ ~BuiltIn(l) => \A c \in Children :
       Len(Meant(c, l)) + (IF HasPipe(l) /\ c = "first" THEN Bar(l) ELSE 0)
         < MAX_NR_TOKENS

(* "counts": there are no more aliases than v_wordCnt has entries.         *)
IsCounted(l) == BuiltIn(l) /\ l[1] = "alias" /\ Len(l) > 1 => HasCount(aliases, l[2])

(* "forks" is the system's part: fork() does not fail.                     *)
MayType(l) ==
  /\ "drained" \in Discipline => Drained(l)
  /\ "words" \in Discipline => HasWords(l)
  /\ "room" \in Discipline => HasPlace(l)
  /\ "counts" \in Discipline => IsCounted(l)

Init ==
  /\ pc = "prompt"
  /\ line = <<>>
  /\ aliases = <<>>
  /\ cwd = HOME
  /\ state = [c \in Children |-> "none"]
  /\ command = [c \in Children |-> Idle]
  /\ argv = [c \in Children |-> <<>>]
  /\ ends = [p \in Processes |-> {}]
  /\ sent = 0
  /\ got = 0

-----------------------------------------------------------------------------
(* The shell.                                                              *)

(* main prints the prompt and reads a line; a longer one than the token    *)
(* array holds smashes it.                                                 *)
ReadLine ==
  /\ pc = "prompt"
  /\ \E l \in Lines :
       /\ MayType(l)
       /\ IF FitsArray(l) THEN pc' = "run" /\ line' = l
                          ELSE pc' = "smashed" /\ UNCHANGED line
  /\ UNCHANGED <<aliases, cwd, childVars>>

(* The end of the input. *)
EndOfInput ==
  /\ pc = "prompt"
  /\ pc' = "exited"
  /\ UNCHANGED <<line, aliases, cwd, childVars>>

(* run_command returns 1: the tokens are freed and the prompt comes back.  *)
Return == pc' = "prompt" /\ line' = <<>>
RunsBuiltIn(name) == pc = "run" /\ ~HasPipe(line) /\ line[1] = name

Exit ==
  /\ RunsBuiltIn("exit")
  /\ pc' = "exited"
  /\ line' = <<>>
  /\ UNCHANGED <<aliases, cwd, childVars>>

(* A directory that is not there leaves the shell where it is. *)
Destination(l) == IF Len(l) = 1 \/ l[2] = "~" THEN HOME ELSE l[2]
ChangeDirectory_Blindly ==
  /\ RunsBuiltIn("cd")
  /\ cwd' = Destination(line)
  /\ Return
  /\ UNCHANGED <<aliases, childVars>>

ChangeDirectory ==
  /\ RunsBuiltIn("cd")
  /\ cwd' = IF Destination(line) \in Directories THEN Destination(line) ELSE cwd
  /\ Return
  /\ UNCHANGED <<aliases, childVars>>

ListAliases ==
  /\ RunsBuiltIn("alias") /\ Len(line) = 1
  /\ Return
  /\ UNCHANGED <<aliases, cwd, childVars>>

(* The count of the 34th alias is written behind v_wordCnt. *)
DefineAlias ==
  /\ RunsBuiltIn("alias") /\ Len(line) > 1
  /\ aliases' = Defined(aliases, line[2], SubSeq(line, 3, Len(line)))
  /\ IF HasCount(aliases, line[2]) THEN Return ELSE pc' = "smashed" /\ UNCHANGED line
  /\ UNCHANGED <<cwd, childVars>>

(* pipe().  The ends of an earlier pipe that the shell failed to close     *)
(* (see ForkFails) stay open for ever; nobody else has them.               *)
OpenPipe ==
  /\ pc = "run" /\ HasPipe(line)
  /\ ends' = [ends EXCEPT !["shell"] = {"r", "w"}]
  /\ sent' = 0 /\ got' = 0
  /\ pc' = "fork"
  /\ UNCHANGED <<line, aliases, cwd, state, command, argv>>

RunProgram ==
  /\ pc = "run" /\ ~HasPipe(line) /\ ~BuiltIn(line)
  /\ pc' = "fork"
  /\ UNCHANGED <<line, aliases, cwd, childVars>>

(* A child is a copy of the shell, with its part of the tokens. *)
Born(c) ==
  /\ state' = [state EXCEPT ![c] = "forked"]
  /\ command' = [command EXCEPT ![c] = Given(c)]
  /\ ends' = [ends EXCEPT ![c] = ends["shell"]]
  /\ UNCHANGED <<line, aliases, cwd, argv, sent, got>>

Fork_ClosesWriteEnd ==
  /\ pc = "fork"
  /\ state' = [state EXCEPT !["first"] = "forked"]
  /\ command' = [command EXCEPT !["first"] = Given("first")]
  /\ ends' = [ends EXCEPT !["first"] = ends["shell"], !["shell"] = @ \ {"w"}]
  /\ pc' = IF HasPipe(line) THEN "fork2" ELSE "wait"
  /\ UNCHANGED <<line, aliases, cwd, argv, sent, got>>

Fork ==
  /\ pc = "fork"
  /\ Born("first")
  /\ pc' = IF HasPipe(line) THEN "fork2" ELSE "wait"

(* -1 is not less than _FORK_ERROR: run_command returns as if all was well *)
(* and leaves the pipe open.                                               *)
ForkFails ==
  /\ pc = "fork" /\ "forks" \notin Discipline
  /\ Return
  /\ UNCHANGED <<aliases, cwd, childVars>>

Fork2 ==
  /\ pc = "fork2"
  /\ Born("second")
  /\ pc' = "wait2"

(* Nobody looks: waitpid(-1) then waits for any child. *)
Fork2Fails ==
  /\ pc = "fork2" /\ "forks" \notin Discipline
  /\ pc' = "waitany"
  /\ UNCHANGED <<line, aliases, cwd, childVars>>

Wait2_ForAny ==
  /\ pc \in {"wait2", "waitany"}
  /\ \E c \in Children :
       state[c] = "zombie" /\ state' = [state EXCEPT ![c] = "reaped"]
  /\ ends' = [ends EXCEPT !["shell"] = @ \ {"w"}]
  /\ pc' = "wait"
  /\ UNCHANGED <<line, aliases, cwd, command, argv, sent, got>>
Wait2_KeepsWriteEnd ==
  /\ pc \in {"wait2", "waitany"}
  /\ \E c \in Children :
       /\ pc = "wait2" => c = "second"
       /\ state[c] = "zombie" /\ state' = [state EXCEPT ![c] = "reaped"]
  /\ pc' = "wait"
  /\ UNCHANGED <<line, aliases, cwd, command, argv, ends, sent, got>>

Wait2 ==
  /\ pc \in {"wait2", "waitany"}
  /\ \E c \in Children :
       /\ pc = "wait2" => c = "second"
       /\ state[c] = "zombie" /\ state' = [state EXCEPT ![c] = "reaped"]
  /\ ends' = [ends EXCEPT !["shell"] = @ \ {"w"}]
  /\ pc' = "wait"
  /\ UNCHANGED <<line, aliases, cwd, command, argv, sent, got>>

(* waitpid(pid) for the first child, which fails at once if waitpid(-1)    *)
(* took that one already.  What has been waited for is gone.               *)
Gone(c) == c = "first" \/ state[c] = "reaped"
ForgetGone ==
  /\ state' = [c \in Children |-> IF Gone(c) THEN "none" ELSE state[c]]
  /\ command' = [c \in Children |-> IF Gone(c) THEN Idle ELSE command[c]]
  /\ argv' = [c \in Children |-> IF Gone(c) THEN <<>> ELSE argv[c]]
Wait_KeepsReadEnd ==
  /\ pc = "wait" /\ state["first"] \in {"zombie", "reaped"}
  /\ ForgetGone
  /\ sent' = 0 /\ got' = 0
  /\ Return
  /\ UNCHANGED <<aliases, cwd, ends>>

Wait ==
  /\ pc = "wait" /\ state["first"] \in {"zombie", "reaped"}
  /\ ForgetGone
  /\ ends' = [ends EXCEPT !["shell"] = IF HasPipe(line) THEN @ \ {"r"} ELSE @]
  /\ sent' = 0 /\ got' = 0
  /\ Return
  /\ UNCHANGED <<aliases, cwd>>

-----------------------------------------------------------------------------
(* A child, until it is another program.                                   *)

shellVars == <<pc, line, aliases, cwd>>

(* dup2 and close: the reader gives up the end it will not use, the writer *)
(* keeps both.                                                             *)
Redirect_KeepsBoth(c) ==
  /\ state[c] = "forked"
  /\ state' = [state EXCEPT ![c] = "expanding"]
  /\ UNCHANGED <<shellVars, command, argv, ends, sent, got>>

Redirect(c) ==
  /\ state[c] = "forked"
  /\ ends' = [ends EXCEPT ![c] = IF c = "first" /\ HasPipe(line) THEN @ \ {"w"} ELSE @]
  /\ state' = [state EXCEPT ![c] = "expanding"]
  /\ UNCHANGED <<shellVars, command, argv, sent, got>>

(* The next token is an alias.  Writing behind the array smashes the       *)
(* child's stack.                                                          *)
Token(c) == command[c].tokens[command[c].base + command[c].i]
Expand(c) ==
  /\ state[c] = "expanding" /\ command[c].i < command[c].nr
  /\ IsAlias(aliases, Token(c))
  /\ LET words == Value(aliases, Token(c)) IN
     IF HasRoom(command[c], words)
     THEN /\ command' = [command EXCEPT ![c] = Replaced(@, words)]
          /\ UNCHANGED <<state, ends>>
     ELSE /\ state' = [state EXCEPT ![c] = "zombie"]
          /\ ends' = [ends EXCEPT ![c] = {}]
          /\ UNCHANGED command
  /\ UNCHANGED <<shellVars, argv, sent, got>>

Keep(c) ==
  /\ state[c] = "expanding" /\ command[c].i < command[c].nr
  /\ ~IsAlias(aliases, Token(c))
  /\ command' = [command EXCEPT ![c].i = @ + 1]
  /\ UNCHANGED <<shellVars, state, argv, ends, sent, got>>

(* execvp: the program runs with these arguments, or the child says that   *)
(* it is unable to and exits.                                              *)
Exec(c) ==
  /\ state[c] = "expanding" /\ command[c].i >= command[c].nr
  /\ argv' = [argv EXCEPT ![c] = Argv(command[c])]
  /\ command' = [command EXCEPT ![c] = Idle]
  /\ IF Runs(Argv(command[c]))
     THEN state' = [state EXCEPT ![c] = "running"] /\ UNCHANGED ends
     ELSE /\ state' = [state EXCEPT ![c] = "zombie"]
          /\ ends' = [ends EXCEPT ![c] = {}]
  /\ UNCHANGED <<shellVars, sent, got>>

-----------------------------------------------------------------------------
(* Programs, and the kernel's pipe.  The writer writes all it has to, then *)
(* exits; a reader that "reads" exits at the end of its input, another one *)
(* any time; who is not at the pipe exits any time.  A writer would also   *)
(* end when nobody can read any longer, but here it can always read        *)
(* itself: see Redirect.                                                   *)

Program(c) == Programs[argv[c][1]]
Writes(c) == c = "second"
Reads(c) == c = "first" /\ HasPipe(line) /\ Program(c).reads
InPipe == sent - got

Write(c) ==
  /\ state[c] = "running" /\ Writes(c)
  /\ sent < Program(c).writes /\ InPipe < PIPE_SIZE
  /\ sent' = sent + 1
  /\ UNCHANGED <<shellVars, state, command, argv, ends, got>>

Read(c) ==
  /\ state[c] = "running" /\ c = "first" /\ HasPipe(line)
  /\ InPipe > 0
  /\ got' = got + 1
  /\ UNCHANGED <<shellVars, state, command, argv, ends, sent>>

Over(c) ==
  \/ Reads(c) /\ InPipe = 0 /\ \A p \in Processes : "w" \notin ends[p]
  \/ Writes(c) /\ sent = Program(c).writes
  \/ Writes(c) /\ \A p \in Processes : "r" \notin ends[p]     \* SIGPIPE
  \/ ~Reads(c) /\ ~Writes(c)
ProgramExits(c) ==
  /\ state[c] = "running" /\ Over(c)
  /\ state' = [state EXCEPT ![c] = "zombie"]
  /\ ends' = [ends EXCEPT ![c] = {}]
  /\ UNCHANGED <<shellVars, command, argv, sent, got>>

-----------------------------------------------------------------------------
ShellStep ==
  \/ Exit \/ ChangeDirectory \/ ListAliases \/ DefineAlias
  \/ OpenPipe \/ RunProgram
  \/ Fork \/ ForkFails \/ Fork2 \/ Fork2Fails \/ Wait2 \/ Wait

ChildStep(c) ==
  \/ Redirect(c) \/ Expand(c) \/ Keep(c) \/ Exec(c)
  \/ Write(c) \/ Read(c) \/ ProgramExits(c)

Ended == pc \in {"exited", "smashed"} /\ UNCHANGED vars

Next ==
  \/ ReadLine \/ EndOfInput
  \/ ShellStep
  \/ \E c \in Children : ChildStep(c)
  \/ Ended

(* The system schedules the shell and every child; users type when they    *)
(* like.                                                                   *)
Spec ==
  /\ Init /\ [][Next]_vars
  /\ WF_vars(ShellStep)
  /\ \A c \in Children : WF_vars(ChildStep(c))
=============================================================================
