--------------------------- MODULE MCPoolRegistry ---------------------------
(***************************************************************************)
(* Small instances of PoolRegistry.  With a GroupLimit of one a listener   *)
(* serves two pools: three pools make a full group and a rest.             *)
(***************************************************************************)
EXTENDS PoolRegistry, TLC

CONSTANTS p1, p2, p3, p4, p5, r1

FivePools == {p1, p2, p3, p4, p5}
ThreePools == {p1, p2, p3}
OneRequest == {r1}
TwoStates == {0, 1}
LastV2 == [p \in Pools |-> IF p = p5 THEN 2 ELSE 3]
\* The pools the table has at the beginning are interchangeable.
InitSymmetry == Permutations(ThreePools)
=============================================================================
