------------------------------- MODULE Aliases ------------------------------
(***************************************************************************)
(* The aliases of the shell (os-pa1/pa1.c) and the token array they are    *)
(* expanded in.                                                            *)
(*                                                                         *)
(* The arrays pp_keys, pp_vals and v_wordCnt, idx entries long, are one    *)
(* sequence of records [key, vals], vals being the words of the value.     *)
(* The token array is a function, indexed from 0 as in the code.           *)
(***************************************************************************)
EXTENDS Integers, SequencesExt

CONSTANTS
  Words,           (* what users type                                      *)
  NULL,            (* the null pointer                                     *)
  FREED,           (* a pointer to a token that was freed                  *)
  MAX_NR_TOKENS,   (* size of the token array, parser.h                    *)
  NR_WORDCNT       (* size of v_wordCnt; 33 in the code                    *)

ASSUME PointersAssumption == NULL \notin Words /\ FREED \notin Words /\ NULL # FREED
ASSUME ArraysAssumption == MAX_NR_TOKENS \in Nat \ {0} /\ NR_WORDCNT \in Nat

Slots == 0..(MAX_NR_TOKENS - 1)
TokenArray == [Slots -> Words \union {NULL, FREED}]

(* The first nr tokens from tokens[base] on are a command; i is the index  *)
(* of the loop that expands them.                                          *)
Command == [tokens : TokenArray, base : Nat, nr : Int, i : Int]

(* parse_command: the tokens of the line and NULL behind them.  A line of  *)
(* MAX_NR_TOKENS tokens has no room for it.                                *)
Tokenized(line) == [j \in Slots |-> IF j < Len(line) THEN line[j + 1] ELSE NULL]
FitsArray(line) == Len(line) < MAX_NR_TOKENS

(* find_alias_index finds w at k; pa1.c:204 counts from 0 and returns -1   *)
(* if there is no such k.                                                  *)
FoundAt(aliases, w, k) ==
  /\ k \in DOMAIN aliases
  /\ aliases[k].key = w
  /\ \A j \in 1..(k - 1) : aliases[j].key # w
IsAlias(aliases, w) == \E k \in DOMAIN aliases : aliases[k].key = w

(* The command `alias key vals...': overwrite in place or add at the end.  *)
Defined_MovedToFront(aliases, key, vals) ==
  <<[key |-> key, vals |-> vals]>> \o SelectSeq(aliases, LAMBDA a : a.key # key)

Defined(aliases, key, vals) ==
  IF IsAlias(aliases, key)
  THEN [k \in DOMAIN aliases |->
          IF FoundAt(aliases, key, k) THEN [aliases[k] EXCEPT !.vals = vals]
                                      ELSE aliases[k]]
  ELSE Append(aliases, [key |-> key, vals |-> vals])

(* v_wordCnt has an entry for the alias that `alias key ...' writes. *)
HasCount(aliases, key) == IsAlias(aliases, key) \/ Len(aliases) < NR_WORDCNT

-----------------------------------------------------------------------------
(* Replacing the token i of the command c by the words of an alias.        *)

(* space_back_wordCnt makes room for k words: from the back, each token    *)
(* behind i moves by k - 1.  For k = 0 that order copies the last token    *)
(* over all of them, and run_command then frees it.                        *)
SpacedBack_Short(c, k) ==
  LET first == c.base + c.i + k
      last == c.base + c.nr + k - 2
  IN [j \in Slots |->
        CASE j \in first..(last - 1) -> c.tokens[j - k + 1]
          [] j = last + 1 -> NULL
          [] OTHER -> c.tokens[j]]

SpacedBack(c, k) ==
  LET first == c.base + c.i + k
      last == c.base + c.nr + k - 2
  IN [j \in Slots |->
        CASE j \in first..last -> IF k = 0 THEN FREED ELSE c.tokens[j - k + 1]
          [] j = last + 1 -> NULL
          [] OTHER -> c.tokens[j]]

(* replace_token_with_alias puts them there, and the loop goes on behind   *)
(* them: what came from an alias is not translated again.                  *)
Replaced(c, words) ==
  LET k == Len(words)
      at == c.base + c.i
  IN [c EXCEPT !.tokens = [j \in Slots |-> IF j \in at..(at + k - 1) THEN words[j - at + 1]
                                           ELSE SpacedBack(c, k)[j]],
               !.nr = @ + k - 1,
               !.i = @ + k]

(* The array has a slot for the NULL behind the longer command. *)
HasRoom(c, words) == c.base + c.nr + Len(words) - 1 < MAX_NR_TOKENS

(* What execvp takes for its arguments: everything before the first NULL.  *)
Argv(c) ==
  LET ends == { j \in Slots : j >= c.base /\ c.tokens[j] = NULL }
      end == CHOOSE j \in ends : \A m \in ends : j <= m
  IN [j \in 1..(end - c.base) |-> c.tokens[c.base + j - 1]]

-----------------------------------------------------------------------------
(* What expansion should amount to: each word that is an alias is replaced *)
(* by its words, once.                                                     *)
Value(aliases, w) ==
  IF IsAlias(aliases, w)
  THEN aliases[CHOOSE k \in DOMAIN aliases : FoundAt(aliases, w, k)].vals
  ELSE <<w>>
Substituted(aliases, words) ==
  FlattenSeq([j \in DOMAIN words |-> Value(aliases, words[j])])
=============================================================================
