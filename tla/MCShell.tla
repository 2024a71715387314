------------------------------ MODULE MCShell -------------------------------
(* TLC instances of the shell. *)
EXTENDS ShellProps

(* "src" writes more than the pipe holds, "echo" less; "cat" reads to the  *)
(* end, "echo" does not.                                                   *)
SomePrograms ==
  [src |-> [reads |-> FALSE, writes |-> 2],
   echo |-> [reads |-> FALSE, writes |-> 1],
   cat |-> [reads |-> TRUE, writes |-> 1]]

SomeWords == {"src", "echo", "cat", "nope", "x", "y", "|", "alias", "cd", "exit", "~", "tmp"}

SomeLines ==
  { <<"alias">>,
    <<"alias", "x", "cat", "y">>,
    <<"alias", "y", "x">>, <<"alias", "x", "y">>,
    <<"alias", "x", "src">>,
    <<"alias", "x">>,
    <<"alias", "cat", "echo", "cat", "tmp">>,
    <<"x", "y">>,
    <<"echo", "x", "y", "tmp">>,
    <<"nope", "y">>,
    <<"echo", "x", "x", "x", "x", "x", "x", "x">>,
    <<"src", "y", "|", "cat", "x">>,
    <<"x", "|", "x", "y">>,
    <<"y", "x", "|", "nope">>,
    <<"|", "cat">>,
    <<"src", "|", "echo", "|">>,
    <<"cd">>, <<"cd", "~">>, <<"cd", "tmp">>, <<"cd", "nope">>,
    <<"exit">> }

Keeps == Rules
KeepsNone == {}
NotDrained == Rules \ {"drained"}
NotForks == Rules \ {"forks"}
NotWords == Rules \ {"words"}
NotRoom == Rules \ {"room"}
NotCounts == Rules \ {"counts"}
=============================================================================
