---------------------------- MODULE MCDayStats ----------------------------
(* Instances of DayStats. *)
EXTENDS DayStats

CONSTANTS c1, c2

TwoClients == {c1, c2}
TwoEarlier == <<-2, -1>>
Alike == Permutations(TwoClients)
=============================================================================
