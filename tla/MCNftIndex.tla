----------------------------- MODULE MCNftIndex -----------------------------
(***************************************************************************)
(* Small instances of NftIndex: one or two tokens, of pools that share a   *)
(* coin.                                                                   *)
(***************************************************************************)
EXTENDS NftIndex, TLC

CONSTANTS t1, t2, u1, u2, p1, p2, c1, c2, c3

TwoTokens == {t1, t2}
TwoUsers == {u1, u2}
TwoPools == {p1, p2}
ThreeCoins == {c1, c2, c3}
PoolOfTwo == t1 :> p1 @@ t2 :> p2
SharedCoins == p1 :> {c1, c2} @@ p2 :> {c2, c3}
UserSymmetry == Permutations(TwoUsers)
=============================================================================
