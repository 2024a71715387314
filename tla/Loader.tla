------------------------------- MODULE Loader -------------------------------
(***************************************************************************)
(* Reading the script of a simulation: __load_script of os-pa2/sched.c and *)
(* parse_command of os-pa2/parser.c.                                       *)
(*                                                                         *)
(* A line is the sequence of its words; how white space separates them is  *)
(* left out.  `block' is the process p that the code is filling in, <<>>   *)
(* when p is null.                                                         *)
(***************************************************************************)
EXTENDS Integers, SequencesExt

(* The words that begin with "#": the rest of the line is a comment.       *)
Comments == {"#", "#end"}
Tokens(line) ==
  LET k == SelectInSeq(line, LAMBDA w : w \in Comments)
  IN IF k = 0 THEN line ELSE SubSeq(line, 1, k - 1)

(* What is not a number is 0. *)
Numbers == [i \in 0..9 |-> ToString(i)]
atoi(w) == IF w \in Range(Numbers) THEN CHOOSE i \in 0..9 : Numbers[i] = w ELSE 0

Blank == [start |-> 0, lifespan |-> 0, prio |-> 0, acquires |-> <<>>]
Acquire(tokens) ==
  [res |-> atoi(tokens[2]), at |-> atoi(tokens[3]), duration |-> atoi(tokens[4])]

(* The loader goes on while its outcome is "loaded".  It ends otherwise:   *)
(* "abort" by an assertion, "crash" by writing to the process NULL,        *)
(* "failed" by an unknown property.                                        *)
Started == [block |-> <<>>, forkqueue |-> <<>>, outcome |-> "loaded"]
Failing(s, outcome) == [s EXCEPT !.outcome = outcome]

LoadProcess(s, tokens) ==
  IF Len(tokens) # 2 THEN Failing(s, "abort") ELSE [s EXCEPT !.block = <<Blank>>]
LoadEnd_KeepsBlock(s) ==
  IF s.block = <<>> THEN Failing(s, "abort")
  ELSE [s EXCEPT !.forkqueue = @ \o s.block]

LoadEnd(s) ==
  IF s.block = <<>> THEN Failing(s, "abort")
  ELSE [s EXCEPT !.forkqueue = @ \o s.block, !.block = <<>>]
LoadNumber(s, tokens) ==
  IF Len(tokens) # 2 THEN Failing(s, "abort")
  ELSE IF s.block = <<>> THEN Failing(s, "crash")
  ELSE [s EXCEPT !.block[1][tokens[1]] = atoi(tokens[2])]
LoadAcquire(s, tokens) ==
  IF Len(tokens) # 4 THEN Failing(s, "abort")
  ELSE IF s.block = <<>> THEN Failing(s, "crash")
  ELSE [s EXCEPT !.block[1].acquires = Append(@, Acquire(tokens))]

LoadLine(s, tokens) ==
  IF s.outcome # "loaded" \/ tokens = <<>> THEN s
  ELSE CASE tokens[1] = "process" -> LoadProcess(s, tokens)
         [] tokens[1] = "end" -> LoadEnd(s)
         [] tokens[1] \in {"lifespan", "prio", "start"} -> LoadNumber(s, tokens)
         [] tokens[1] = "acquire" -> LoadAcquire(s, tokens)
         [] OTHER -> Failing(s, "failed")

Load(file) ==
  LET after[i \in 0..Len(file)] ==
        IF i = 0 THEN Started ELSE LoadLine(after[i - 1], Tokens(file[i]))
  IN after[Len(file)]

-----------------------------------------------------------------------------
(* What a file describes, without reading it line by line.                 *)

Is(file, i, words) == Tokens(file[i]) # <<>> /\ Tokens(file[i])[1] \in words
(* The line i is in the block that the line o opens. *)
InBlock(file, o, i) ==
  /\ o < i /\ Is(file, o, {"process"})
  /\ \A j \in (o + 1)..(i - 1) : ~Is(file, j, {"process", "end"})

(* The value of a property in the block o..e: the last one given, or 0.    *)
Given(file, o, e, property) ==
  LET given == { i \in o..e : Is(file, i, {property}) }
  IN IF given = {} THEN 0
     ELSE atoi(Tokens(file[CHOOSE i \in given : \A j \in given : j <= i])[2])
Process(file, o, e) ==
  LET uses == SelectSeq(SubSeq(file, o, e), LAMBDA l : Tokens(l) # <<>> /\ l[1] = "acquire")
  IN [start |-> Given(file, o, e, "start"),
      lifespan |-> Given(file, o, e, "lifespan"),
      prio |-> Given(file, o, e, "prio"),
      acquires |-> [k \in DOMAIN uses |-> Acquire(uses[k])]]

Properties == {"lifespan", "prio", "start", "acquire"}
WordsOf(property) == IF property = "acquire" THEN 4 ELSE 2
(* What is wrong with the line i. *)
Fault(file, i) ==
  LET tokens == Tokens(file[i])
      outside == \A o \in 1..i : ~InBlock(file, o, i)
  IN CASE tokens = <<>> -> "nothing"
       [] ~Is(file, i, Properties \union {"process", "end"}) -> "failed"
       [] ~Is(file, i, {"end"}) /\ Len(tokens) # WordsOf(tokens[1]) -> "abort"
       [] Is(file, i, {"end"}) /\ outside -> "abort"
       [] Is(file, i, Properties) /\ outside -> "crash"
       [] OTHER -> "nothing"

(* Loading a file ends with its first fault.  If there is none, every      *)
(* block that is closed is a process, in their order.                      *)
LoadsAsDescribed(file) ==
  LET faults == { i \in DOMAIN file : Fault(file, i) # "nothing" }
      closed == { oe \in (DOMAIN file) \X (DOMAIN file) :
                    InBlock(file, oe[1], oe[2]) /\ Is(file, oe[2], {"end"}) }
      blocks == SetToSortSeq(closed, LAMBDA a, b : a[1] < b[1])
  IN IF faults # {}
     THEN Load(file).outcome = Fault(file, CHOOSE i \in faults : \A j \in faults : i <= j)
     ELSE /\ Load(file).outcome = "loaded"
          /\ Load(file).forkqueue =
               [k \in DOMAIN blocks |-> Process(file, blocks[k][1], blocks[k][2])]
=============================================================================
