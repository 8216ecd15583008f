----------------------------- MODULE MCLogScan -----------------------------
(***************************************************************************)
(* A small instance of LogScan, of the shape of scanPoolsV3 and scanNft: a *)
(* lookback, and a step equal to the limit.                                *)
(***************************************************************************)
EXTENDS LogScan

\* A chain shorter than the lookback (fromHeight wraps) and a longer one.
StartHeads == {1, 3}
=============================================================================
