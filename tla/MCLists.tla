------------------------------ MODULE MCLists -------------------------------
(* TLC instances of the lists: programs that use lists of the first kind,  *)
(* and others that use hlists.                                             *)
EXTENDS ListProps, HashLists, TLC

VARIABLE used
allvars == <<vars, hvars, used>>

MCInit == Init /\ HashInit /\ used \in {"list", "hlist"}
MCNext ==
  \/ used = "list" /\ Next /\ UNCHANGED <<hvars, used>>
  \/ used = "hlist" /\ HashNext /\ UNCHANGED <<vars, used>>
MCSpec == MCInit /\ [][MCNext]_allvars

Renamings == Permutations(Nodes) \union Permutations(Buckets)
=============================================================================
