------------------------------ MODULE MCGrant -------------------------------
(* TLC instances of GrantOrder: the overlapping uses of MCSim. *)
EXTENDS MCSim, GrantOrder
=============================================================================
