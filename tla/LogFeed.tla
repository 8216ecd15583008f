------------------------------ MODULE LogFeed ------------------------------
(***************************************************************************)
(* What a chain reader promises the goroutine that consumes its logs.      *)
(*                                                                         *)
(* A reader is either idle or running.  A running reader has a cursor, the *)
(* next block whose logs it will hand over, and hands the blocks over one  *)
(* after the other: none is skipped, none is handed over twice and none is *)
(* handed over before the chain has it.  When the process dies the reader  *)
(* goes idle; a new run may put its cursor anywhere.                       *)
(***************************************************************************)
EXTENDS Integers

VARIABLES
    head,      \* height of the last block of the chain
    running,   \* whether the reader's goroutine is alive
    next,      \* the cursor: the next block to hand over
    dealt      \* the blocks handed over since the run began

feedVars == <<head, running, next, dealt>>

Init ==
    /\ head \in Nat
    /\ running = FALSE
    /\ next \in Nat
    /\ dealt = {}

\* The chain only grows; nothing else changes.
Grow ==
    /\ head' \in Nat /\ head' > head
    /\ UNCHANGED <<running, next, dealt>>

Begin ==
    /\ ~running
    /\ running' = TRUE
    /\ next' \in Nat
    /\ dealt' = {}
    /\ UNCHANGED head

Deliver ==
    /\ running
    /\ next <= head
    /\ dealt' = dealt \cup {next}
    /\ next' = next + 1
    /\ UNCHANGED <<head, running>>

\* A reader that is not running has no cursor: its value means nothing.
Stop ==
    /\ running
    /\ running' = FALSE
    /\ next' \in Nat
    /\ UNCHANGED <<head, dealt>>

Next == Grow \/ Begin \/ Deliver \/ Stop

Spec == Init /\ [][Next]_feedVars
=============================================================================
