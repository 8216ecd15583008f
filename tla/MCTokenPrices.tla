--------------------------- MODULE MCTokenPrices ---------------------------
(***************************************************************************)
(* A small instance of TokenPrices.  From sETH there are ways of one pool  *)
(* and of two to both other tokens.  Two of the pools and the last token's *)
(* row come while the process runs, and the second listing may drop the    *)
(* first.                                                                  *)
(***************************************************************************)
EXTENDS TokenPrices

CONSTANTS eth, a, b

ThreeTokens == {eth, a, b}
OneRoot == <<eth>>
ThreePools == <<[token0 |-> a, token1 |-> b], [token0 |-> eth, token1 |-> a],
                [token0 |-> b, token1 |-> eth]>>
FirstTokens == {eth, a}
OtherTokens == {a, b}
TwoFlags == {0, 1}
=============================================================================
