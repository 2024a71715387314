------------------------------ MODULE ShellProps ----------------------------
(***************************************************************************)
(* What is right about the shell: for every user the first four, for one   *)
(* who keeps to the rules of MayType, on a system whose fork() does not    *)
(* fail, PipesClosed, PromptReturns and ImplementsCommandLines.            *)
(***************************************************************************)
EXTENDS Shell

(* Type correctness of the shell and its children.                         *)
TypeOK ==
  /\ pc \in {"prompt", "run", "fork", "fork2", "wait2", "waitany", "wait",
             "exited", "smashed"}
  /\ line \in Lines \union {<<>>}
  /\ aliases \in Seq([key : Words, vals : Seq(Words)])
  /\ cwd \in Directories
  /\ state \in [Children -> {"none", "forked", "expanding", "running", "zombie", "reaped"}]
  /\ command \in [Children -> Command]
  /\ argv \in [Children -> Seq(Words \union {FREED})]
  /\ ends \in [Processes -> SUBSET {"r", "w"}]
  /\ sent \in Nat /\ got \in 0..sent

Alive(c) == state[c] \in {"forked", "expanding", "running"}

-----------------------------------------------------------------------------
(* README.md:41: "The shell should print the prompt only after the         *)
(* executed process is exited": there is neither a running nor a zombie    *)
(* child when the shell prompts, also after a fork that failed.            *)
PromptAfterExit == pc = "prompt" => \A c \in Children : state[c] = "none"

(* README.md: "All output of the first command should be carried to the    *)
(* input of the second command".  A command that reads its input to the    *)
(* end has ended only when the other one has, and has read all of it.      *)
AllCarried ==
  state["first"] \in {"zombie", "reaped"} /\ HasPipe(line)
    /\ Runs(argv["first"]) /\ Program("first").reads
  => got = sent /\ ~Alive("second")

(* The shell keeps no end of a pipe, unless a fork fails: run_command then  *)
(* leaves it both.                                                         *)
PipesClosed == pc = "prompt" => ends["shell"] = {}

(* README.md: "The alias defined earlier should come before later ones":   *)
(* a definition never moves another one, and there is one for each word.   *)
Keys(tab) == [k \in DOMAIN tab |-> tab[k].key]
AliasesInOrder ==
  [][/\ IsPrefix(Keys(aliases), Keys(aliases'))
     /\ IsInjective(Keys(aliases'))]_aliases

(* README.md: "the shell should be *sane* after processing the pipe".  The *)
(* prompt comes back after every line.                                     *)
PromptReturns == (pc = "run") ~> (pc \in {"prompt", "exited"})

(* Under the rules the shell does for every line what CommandLines says.   *)
Status(c) ==
  CASE state[c] \in {"none", "forked", "expanding"} -> "asked"
    [] state[c] = "running" -> "running"
    [] OTHER -> "over"
Job(c) ==
  [words |-> IF Status(c) = "asked" THEN Meant(c, line) ELSE argv[c],
   status |-> Status(c)]
Commanded == INSTANCE CommandLines WITH
  Executables <- DOMAIN Programs,
  Places <- Directories,
  meaning <- [w \in { aliases[k].key : k \in DOMAIN aliases } |-> Value(aliases, w)],
  place <- cwd,
  jobs <- IF pc \notin {"fork", "fork2", "wait2", "waitany", "wait"} THEN <<>>
          ELSE IF HasPipe(line) THEN <<Job("second"), Job("first")>>
          ELSE <<Job("first")>>
ImplementsCommandLines == Commanded!Spec

-----------------------------------------------------------------------------
(* Statements of the sources that do not hold for every user.              *)

(* README.md: "The shell should be able to process an unlimited number of  *)
(* aliases".  No array is overrun.                                         *)
NeverSmashed == pc # "smashed"

(* README.md: "When the specified executable cannot be executed for some   *)
(* reasons, print out the following message": no line is dropped.          *)
LineDropped == pc = "fork" /\ pc' = "prompt"
NoLineDropped == [][~LineDropped]_vars
=============================================================================
