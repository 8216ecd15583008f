---------------------------- MODULE LogScanProof ----------------------------
(***************************************************************************)
(* Proofs about the polling chain reader, for every lookback, window size, *)
(* lag and bound.                                                          *)
(*                                                                         *)
(* DealtIsPrefix is not inductive: dealing with one more block extends the *)
(* interval only if the cursor is not below the start of the run, and the  *)
(* step from one window to the next keeps the cursor only if the inner     *)
(* loop stopped exactly one past the window.  CursorInRun says both.       *)
(***************************************************************************)
EXTENDS LogScan, TLAPS

\* The cursor never falls below the start of the run, and inside a window it
\* stays between the window's ends or one past the last block.
CursorInRun ==
    pc # "down" =>
        /\ first <= Cursor
        /\ pc = "deal" => fromHeight <= cur /\ cur <= toHeight + 1

IInv == TypeOK /\ WindowOnChain /\ CursorInRun /\ DealtIsPrefix

LEMMA Sub64Type ==
    ASSUME NEW a \in Nat, a <= MaxHead
    PROVE  Sub64(a, Lookback) \in Nat
BY ScanAssumption DEF Sub64

\* A window that starts at or below the head ends on the chain.
LEMMA ScanToOnChain ==
    ASSUME NEW f \in Nat, NEW h \in Nat, f <= h
    PROVE  ScanTo(f, h) \in Nat /\ f <= ScanTo(f, h) /\ ScanTo(f, h) <= h
BY ScanAssumption DEF ScanTo

LEMMA InitIInv == Init => IInv
BY ScanAssumption
DEF Init, IInv, TypeOK, WindowOnChain, CursorInRun, DealtIsPrefix

LEMMA NextIInv == IInv /\ [Next]_vars => IInv'
<1> SUFFICES ASSUME IInv, [Next]_vars PROVE IInv'
  OBVIOUS
<1> USE ScanAssumption DEF IInv, TypeOK, WindowOnChain, CursorInRun,
                          DealtIsPrefix, Cursor
<1>1. CASE GrowChain
  BY <1>1 DEF GrowChain, run
<1>2. CASE Start
  <2>1. PICK h \in Answers : /\ startedAt' = h
                             /\ fromHeight' = Sub64(h, Lookback)
                             /\ first' = Sub64(h, Lookback)
    BY <1>2 DEF Start
  <2>2. h \in Nat /\ h <= MaxHead
    BY DEF Answers
  <2>3. fromHeight' \in Nat /\ first' = fromHeight' /\ startedAt' \in Nat
    BY <2>1, <2>2, Sub64Type
  <2>4. QED
    BY <1>2, <2>3 DEF Start
<1>3. CASE PollAgain
  BY <1>3 DEF PollAgain, vars, run
<1>4. CASE Poll
  <2>1. PICK h \in Answers : h >= fromHeight /\ toHeight' = ScanTo(fromHeight, h)
    BY <1>4 DEF Poll
  <2>2. h \in Nat /\ h <= head
    BY DEF Answers
  <2>3. toHeight' \in Nat /\ fromHeight <= toHeight' /\ toHeight' <= head
    BY <2>1, <2>2, ScanToOnChain
  <2>4. QED
    BY <1>4, <2>3 DEF Poll, run
<1>5. CASE FilterOk
  BY <1>5 DEF FilterOk, run
<1>6. CASE FilterError
  BY <1>6 DEF FilterError, run
<1>7. CASE DealLog
  <2>1. cur \in Nat /\ first \in Nat /\ first <= cur /\ dealt = first..(cur - 1)
    BY <1>7 DEF DealLog
  <2>2. dealt \cup {cur} = first..((cur + 1) - 1)
    BY <2>1
  <2>3. QED
    BY <1>7, <2>1, <2>2 DEF DealLog, run
<1>8. CASE Advance
  <2>1. cur = toHeight + 1
    BY <1>8 DEF Advance
  <2>2. QED
    BY <1>8, <2>1 DEF Advance, NextFrom, run
<1>9. CASE Crash
  BY <1>9 DEF Crash, run
<1>10. CASE UNCHANGED vars
  BY <1>10 DEF vars, run
<1>11. QED
  BY <1>1, <1>2, <1>3, <1>4, <1>5, <1>6, <1>7, <1>8, <1>9, <1>10 DEF Next

\* The strengthened invariant holds in every reachable state of the reader.
THEOREM Invariance == Spec => []IInv
<1>1. QED
  BY InitIInv, NextIInv, PTL DEF Spec

\* The reader's state always has its type (the variables of the scan loops).
THEOREM TypeCorrect == Spec => []TypeOK
<1>1. IInv => TypeOK
  BY DEF IInv
<1>2. QED
  BY <1>1, Invariance, PTL

\* No window asks the node for a block beyond the head (clipping of toHeight).
THEOREM WindowsOnChain == Spec => []WindowOnChain
<1>1. IInv => WindowOnChain
  BY DEF IInv
<1>2. QED
  BY <1>1, Invariance, PTL

\* Within a run no block is dealt with twice or left out, for every window size
\* and every pattern of failed polls (fromHeight = toHeight + 1).
THEOREM NoGapNoOverlap == Spec => []DealtIsPrefix
<1>1. IInv => DealtIsPrefix
  BY DEF IInv
<1>2. QED
  BY <1>1, Invariance, PTL
-----------------------------------------------------------------------------
(* The loop implements LogFeed *)

LEMMA InitFeed == Init => Feed!Init
BY ScanAssumption DEF Init, Feed!Init, Cursor

LEMMA NextFeed == IInv /\ IInv' /\ [Next]_vars => [Feed!Next]_(Feed!feedVars)
<1> SUFFICES ASSUME IInv, IInv', [Next]_vars
             PROVE  Feed!Next \/ UNCHANGED Feed!feedVars
  OBVIOUS
<1> USE DEF IInv, TypeOK, CursorInRun, WindowOnChain, Cursor, Feed!feedVars
<1>1. CASE GrowChain
  <2>1. Feed!Grow
    BY <1>1 DEF GrowChain, Feed!Grow, run
  <2>2. QED
    BY <2>1 DEF Feed!Next
<1>2. CASE Start
  <2>1. Feed!Begin
    BY <1>2 DEF Start, Feed!Begin
  <2>2. QED
    BY <2>1 DEF Feed!Next
<1>3. CASE PollAgain
  BY <1>3 DEF PollAgain, vars, run
<1>4. CASE Poll
  BY <1>4 DEF Poll, run
<1>5. CASE FilterOk
  BY <1>5 DEF FilterOk, run
<1>6. CASE FilterError
  BY <1>6 DEF FilterError, run
<1>7. CASE DealLog
  <2>1. Feed!Deliver
    BY <1>7 DEF DealLog, Feed!Deliver, run
  <2>2. QED
    BY <2>1 DEF Feed!Next
<1>8. CASE Advance
  <2>1. cur = toHeight + 1
    BY <1>8 DEF Advance
  <2>2. QED
    BY <1>8, <2>1 DEF Advance, NextFrom, run
<1>9. CASE Crash
  <2>1. Feed!Stop
    BY <1>9 DEF Crash, Feed!Stop, run
  <2>2. QED
    BY <2>1 DEF Feed!Next
<1>10. CASE UNCHANGED vars
  BY <1>10 DEF vars, run
<1>11. QED
  BY <1>1, <1>2, <1>3, <1>4, <1>5, <1>6, <1>7, <1>8, <1>9, <1>10 DEF Next

\* Every behaviour of the scan loop is one the abstract feed allows: blocks are
\* handed over one by one, in order, each once per run, none before it exists.
THEOREM ImplementsFeed == Spec => FeedSpec
<1>1. QED
  BY InitFeed, NextFeed, Invariance, PTL DEF Spec, FeedSpec, Feed!Spec
=============================================================================
