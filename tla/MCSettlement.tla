---------------------------- MODULE MCSettlement ----------------------------
(* Which escrow each claim and reclaim of the Settlement runs names. *)
EXTENDS Settlement, TLC

CONSTANTS d1

TargetFirst == [c \in Claims \cup Reclaims |-> d1]

=============================================================================
