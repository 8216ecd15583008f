---------------------------- MODULE MCLogListen ----------------------------
(***************************************************************************)
(* An instance of LogListen, and the words of its logs on short words of   *)
(* small bytes.                                                            *)
(***************************************************************************)
EXTENDS LogListen, EventWords

ASSUME WordsAreRead == \A len \in 1..4 : WordsRead(len)
ASSUME CutsAreInRange == \A len \in 0..20 : CutInRange(len)
=============================================================================
