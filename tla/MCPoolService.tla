--------------------------- MODULE MCPoolService ---------------------------
(***************************************************************************)
(* Small instances of PoolService.  The pools are interchangeable: the     *)
(* runs that check only invariants use the symmetry.                       *)
(***************************************************************************)
EXTENDS PoolService, TLC

CONSTANTS p1, p2

TwoPools == {p1, p2}
AllKinds == {"swap", "dust", "liq"}
SwapsOnly == {"swap"}

OnePool == {p1}
PoolSymmetry == Permutations(TwoPools)
=============================================================================
