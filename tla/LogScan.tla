------------------------------ MODULE LogScan ------------------------------
(***************************************************************************)
(* The polling chain reader of service/evm.go: scanPoolsV2, scanPoolsV3,   *)
(* scanNft and scanFactory.  The four goroutines run the same loop and     *)
(* differ in three numbers, which are the constants Lookback, ScanLimit    *)
(* and ScanStep below.                                                     *)
(*                                                                         *)
(* A block stands for the logs of that block the filter selects; FilterLogs*)
(* returns them in chain order, so handing over a block is handing over    *)
(* its logs.  The messages the loop puts on chLog are logging and are left *)
(* out; the goroutine that owns the channel drains it in the same select   *)
(* as the data channel.                                                    *)
(***************************************************************************)
EXTENDS Integers

CONSTANTS
    Lookback,    \* blocks below the head where a run starts: 400, or 0
    ScanLimit,   \* longest span scanned at once: maxScanHeight, or 10000
    ScanStep,    \* span used when the limit is passed: maxScanHeight, or 9999
    WordMod,     \* 2^64: block heights are uint64
    Lag,         \* how far behind the head an answer of BlockNumber may be
    InitHeads,   \* possible heights of the chain at the beginning
    MaxHead,     \* bound: the chain stops growing here
    MaxCrashes   \* bound: number of times the process dies

ASSUME ScanAssumption ==
    /\ Lookback \in Nat /\ ScanLimit \in Nat
    /\ ScanStep \in Nat /\ ScanStep <= ScanLimit + 1
    /\ Lag \in Nat /\ MaxHead \in Nat /\ MaxCrashes \in Nat
    /\ InitHeads \subseteq 0..MaxHead
    /\ WordMod \in Nat /\ WordMod > MaxHead + Lookback

VARIABLES
    head,        \* height of the chain
    pc,          \* where the goroutine is; "down" when the process is dead
    fromHeight,  \* first block of the next window
    toHeight,    \* last block of the window being scanned
    cur,         \* the next log of the window to deal with
    crashes,     \* number of crashes so far
    \* history variables
    startedAt,   \* the height BlockNumber gave when this run began
    first,       \* fromHeight when this run began
    dealt        \* blocks whose logs were dealt with in this run

vars == <<head, pc, fromHeight, toHeight, cur, crashes, startedAt, first, dealt>>
run == <<startedAt, first>>
-----------------------------------------------------------------------------
(* Helpers *)

\* (A name that extends the name of the definition below it is that definition
\* with a plausible bug; the specification never uses it.)

\* Subtraction of two uint64: it wraps below zero.
Sub64Signed(a, b) == a - b
Sub64(a, b) == IF a >= b THEN a - b ELSE a + WordMod - b

\* The heights BlockNumber may answer: nodes behind one RPC address lag.
Answers == {h \in 0..head : h >= head - Lag}

\* The last block of the window that starts at from when the head is h.
ScanToUnclipped(from, h) == from + ScanStep
ScanTo(from, h) == IF h - from > ScanLimit THEN from + ScanStep ELSE h

\* The first block of the window after the one that ended at to.
NextFromSame(to) == to
NextFrom(to) == to + 1

\* The next block the reader will hand over.
Cursor == IF pc = "deal" THEN cur ELSE fromHeight
-----------------------------------------------------------------------------
Init ==
    /\ head \in InitHeads
    /\ pc = "down"
    /\ fromHeight = 0 /\ toHeight = 0 /\ cur = 0
    /\ crashes = 0
    /\ startedAt = 0 /\ first = 0 /\ dealt = {}

\* The chain gets a block.
GrowChain ==
    /\ head < MaxHead
    /\ head' = head + 1
    /\ UNCHANGED <<pc, fromHeight, toHeight, cur, crashes, run, dealt>>

\* Dial and the first BlockNumber succeed.  When one of them fails the
\* goroutine panics and the process stays down.
Start ==
    /\ pc = "down"
    /\ \E h \in Answers :
          /\ startedAt' = h
          /\ fromHeight' = Sub64(h, Lookback)
          /\ first' = Sub64(h, Lookback)
    /\ pc' = "sleep"
    /\ dealt' = {}
    /\ UNCHANGED <<head, toHeight, cur, crashes>>

\* After the sleep BlockNumber fails, or the head it gives is below the
\* cursor: the loop continues.
PollAgain ==
    /\ pc = "sleep"
    /\ UNCHANGED vars

\* After the sleep BlockNumber gives a head the cursor has not passed.
Poll ==
    /\ pc = "sleep"
    /\ \E h \in Answers :
          /\ h >= fromHeight
          /\ toHeight' = ScanTo(fromHeight, h)
    /\ pc' = "filter"
    /\ UNCHANGED <<head, fromHeight, cur, crashes, run, dealt>>

\* FilterLogs returns the logs of the window.
FilterOk ==
    /\ pc = "filter"
    /\ pc' = "deal"
    /\ cur' = fromHeight
    /\ UNCHANGED <<head, fromHeight, toHeight, crashes, run, dealt>>

\* FilterLogs fails: the window is given up and computed again later.
FilterErrorSkips ==
    /\ pc = "filter"
    /\ pc' = "sleep"
    /\ fromHeight' = NextFrom(toHeight)
    /\ UNCHANGED <<head, toHeight, cur, crashes, run, dealt>>
FilterError ==
    /\ pc = "filter"
    /\ pc' = "sleep"
    /\ UNCHANGED <<head, fromHeight, toHeight, cur, crashes, run, dealt>>

\* The body of the for loop over the logs.
DealLog ==
    /\ pc = "deal"
    /\ cur <= toHeight
    /\ dealt' = dealt \cup {cur}
    /\ cur' = cur + 1
    /\ UNCHANGED <<head, pc, fromHeight, toHeight, crashes, run>>

\* The last log of the window was dealt with.
Advance ==
    /\ pc = "deal"
    /\ cur > toHeight
    /\ fromHeight' = NextFrom(toHeight)
    /\ pc' = "sleep"
    /\ UNCHANGED <<head, toHeight, cur, crashes, run, dealt>>

\* The process dies: a panic in any goroutine, or a signal.
Crash ==
    /\ pc # "down"
    /\ crashes < MaxCrashes
    /\ crashes' = crashes + 1
    /\ pc' = "down"
    /\ UNCHANGED <<head, fromHeight, toHeight, cur, run, dealt>>

Next ==
    \/ GrowChain \/ Start \/ PollAgain \/ Poll \/ FilterOk \/ FilterError
    \/ DealLog \/ Advance \/ Crash

Spec == Init /\ [][Next]_vars

\* The goroutine is scheduled while it can run.  A node that keeps being asked
\* answers BlockNumber eventually, and FilterLogs infinitely often.
Fairness ==
    /\ WF_vars(Poll) /\ SF_vars(FilterOk)
    /\ WF_vars(DealLog) /\ WF_vars(Advance)

FairSpec == Spec /\ Fairness
-----------------------------------------------------------------------------
(* Properties *)

TypeOK ==
    /\ head \in Nat /\ head <= MaxHead
    /\ pc \in {"down", "sleep", "filter", "deal"}
    /\ fromHeight \in Nat /\ toHeight \in Nat /\ cur \in Nat
    /\ crashes \in 0..MaxCrashes
    /\ startedAt \in Nat /\ first \in Nat
    /\ dealt \subseteq Nat

\* No window reaches past the head of the chain: a block that does not exist
\* yet would be counted as scanned and its logs never read (the clipping of
\* toHeight in scanPoolsV2 and scanPoolsV3).
WindowOnChain ==
    pc \in {"filter", "deal"} => fromHeight <= toHeight /\ toHeight <= head

\* Whatever polls failed and however the windows were clipped, the blocks dealt
\* with in a run are exactly those between its start and the cursor: the windows
\* neither overlap nor leave a gap (fromHeight = toHeight + 1).
DealtIsPrefix == pc # "down" => dealt = first..(Cursor - 1)

\* The loop implements the promise of LogFeed: one block after the other, each
\* once, in the order of the chain.
Feed == INSTANCE LogFeed WITH running <- pc # "down", next <- Cursor
FeedSpec == Feed!Spec

\* A block the node can report, at or above the start of the run, is dealt with
\* or the process dies first.  A run that starts on a chain shorter than
\* Lookback is excepted: fromHeight -= 400 wraps and the loop never scans.
EveryBlockDealt ==
    \A b \in 0..MaxHead :
        (pc # "down" /\ startedAt >= Lookback /\ first <= b /\ b <= head - Lag)
            ~> (b \in dealt \/ pc = "down")
=============================================================================
