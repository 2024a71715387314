---------------------------- MODULE CommandLines ----------------------------
(***************************************************************************)
(* What the user of the shell may rely on (os-pa1/README.md), without      *)
(* processes, pipes or token arrays: a line is one command or two; each of *)
(* their words that is an alias is replaced, once; every command is tried  *)
(* with exactly these words; the next line is read when all have ended.    *)
(***************************************************************************)
EXTENDS Integers, SequencesExt

CONSTANTS
  Lines,         (* the lines users type                                   *)
  Executables,   (* the names of programs                                  *)
  Places,        (* the directories there are                              *)
  HOME

VARIABLES
  meaning,   (* meaning[w]: the words that replace the alias w             *)
  place,     (* the working directory                                      *)
  jobs       (* the commands of the current line, each with its words and  *)
             (* what has become of it; <<>> between lines                  *)

avars == <<meaning, place, jobs>>

(* l is the two commands before and after joined by a pipe. *)
Joins(l, before, after) == l = before \o <<"|">> \o after /\ ~Contains(before, "|")
IsSingle(l) == ~Contains(l, "|")

Translated(words) ==
  FlattenSeq([j \in DOMAIN words |->
    IF words[j] \in DOMAIN meaning THEN meaning[words[j]] ELSE <<words[j]>>])
Job(words) == [words |-> Translated(words), status |-> "asked"]

Init == meaning = <<>> /\ place = HOME /\ jobs = <<>>

(* "alias w words": from now on w stands for these words. *)
Define(l) ==
  /\ jobs = <<>>
  /\ IsSingle(l) /\ l[1] = "alias" /\ Len(l) > 2
  /\ meaning' = [w \in DOMAIN meaning \union {l[2]} |->
                   IF w = l[2] THEN SubSeq(l, 3, Len(l)) ELSE meaning[w]]
  /\ UNCHANGED <<place, jobs>>

ChangeDirectory(l) ==
  /\ jobs = <<>>
  /\ IsSingle(l) /\ l[1] = "cd"
  /\ place' = IF Len(l) = 1 \/ l[2] = "~" THEN HOME ELSE l[2]
  /\ place' \in Places
  /\ UNCHANGED <<meaning, jobs>>

RunOne(l) ==
  /\ jobs = <<>>
  /\ IsSingle(l) /\ l[1] \notin {"alias", "cd", "exit"}
  /\ jobs' = <<Job(l)>>
  /\ UNCHANGED <<meaning, place>>

RunTwo(l) ==
  /\ jobs = <<>>
  /\ \E j \in DOMAIN l :
       LET before == SubSeq(l, 1, j - 1)
           after == SubSeq(l, j + 1, Len(l))
       IN Joins(l, before, after) /\ jobs' = <<Job(before), Job(after)>>
  /\ UNCHANGED <<meaning, place>>

(* A command runs, if there is such a program, and ends. *)
Executable(job) == job.words # <<>> /\ job.words[1] \in Executables
Becomes(k, status) ==
  jobs' = [jobs EXCEPT ![k].status = status] /\ UNCHANGED <<meaning, place>>
Start(k) == jobs[k].status = "asked" /\ Executable(jobs[k]) /\ Becomes(k, "running")
Refuse(k) == jobs[k].status = "asked" /\ ~Executable(jobs[k]) /\ Becomes(k, "over")
End(k) == jobs[k].status = "running" /\ Becomes(k, "over")

NextLine ==
  /\ jobs # <<>> /\ \A k \in DOMAIN jobs : jobs[k].status = "over"
  /\ jobs' = <<>>
  /\ UNCHANGED <<meaning, place>>

Next ==
  \/ \E l \in Lines : Define(l) \/ ChangeDirectory(l) \/ RunOne(l) \/ RunTwo(l)
  \/ \E k \in DOMAIN jobs : Start(k) \/ Refuse(k) \/ End(k)
  \/ NextLine

Spec == Init /\ [][Next]_avars
=============================================================================
