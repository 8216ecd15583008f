---------------------------- MODULE PoolService ----------------------------
(***************************************************************************)
(* The statistics service of one group of v3 pools: the chain reader       *)
(* (dealPoolV3Log), the channel, the consumer goroutine (dealTickV3), the  *)
(* midnight counter (countVolumes), the reads of the HTTP API and a        *)
(* restart of the process (initPoolStat) over the two tables that survive. *)
(*                                                                         *)
(* The chain is the sequence of the group's events; the tick a swap leaves *)
(* behind is named by its position.  A transaction may emit several        *)
(* events; a block has one transaction that does.  The reader is the       *)
(* abstract feed that LogScan is shown to implement: it hands over the     *)
(* events one after the other from where its run started.                  *)
(***************************************************************************)
EXTENDS PoolMemory

CONSTANTS
    ChanCap,       \* capacity of chPoolStat: 10
    InitHeight,    \* blocks of the chain before the first event
    Lookback,      \* blocks below the head where a run starts to read: 400
    Kinds,         \* the kinds of events emitted
    MaxEvents,     \* bound: length of the chain
    MaxNow,        \* bound: the clock stops here
    MaxCrashes,    \* bound: number of crashes
    MaxRpcFaults,  \* bound: number of events with a failed BalanceOf
    MaxDbFaults    \* bound: number of failed statements

ASSUME ServiceAssumption ==
    /\ ChanCap \in Nat /\ InitHeight \in Nat /\ Lookback \in Nat
    /\ Kinds \subseteq {"swap", "dust", "liq"}
    /\ MaxEvents \in Nat /\ MaxNow \in Nat /\ MaxCrashes \in Nat
    /\ MaxRpcFaults \in Nat /\ MaxDbFaults \in Nat

VARIABLES
    chain,      \* the events of the group: pool, kind and transaction
    now,        \* the clock
    up,         \* whether the process runs
    next,       \* the reader: the next event to deal with
    ch,         \* chPoolStat, and the message a blocked sender holds
    dpc,        \* the consumer: "recv", "volume" or "store"
    msg,        \* the consumer: the PoolStat it works on
    pre,        \* the consumer: preReserve0 and preReserve1
    curr,       \* currReserves
    utc0,       \* utc0Reserves
    win,        \* volumes24H
    preDay,     \* the counter: the last day it noticed
    todo,       \* the counter: pools still to be counted
    cnt,        \* the counter: the pool it works on and its seven day volume
    rows,       \* table volume
    stat,       \* table pool_stat
    crashes, rpcFaults, dbFaults,   \* faults so far
    \* history variables
    runStart,   \* where the reader began in this run
    runDay,     \* the day this run began
    startHead,  \* the height of the chain when this run began
    loaded,     \* events whose rows this run loaded into the windows
    dbLost,     \* events whose row could not be stored
    statLost    \* pools and days whose statistics could not be stored

chainVars == <<chain, now>>
readVars == <<next, ch>>
dealVars == <<dpc, msg, pre>>
memVars == <<curr, utc0, win>>
countVars == <<preDay, todo, cnt>>
dbVars == <<rows, stat>>
runVars == <<runStart, runDay, startHead, loaded>>
vars == <<chainVars, up, readVars, dealVars, memVars, countVars, dbVars,
          crashes, rpcFaults, dbFaults, runVars, dbLost, statLost>>

\* What dealPoolV3Log reads of a log: its pool; whether it is a Swap, a Swap that
\* paid nothing out ("dust": absBytes is zero for the token paid in), or a Mint or
\* Burn ("liq"); and its transaction, which is also its block.
Events == [pool : Pools, kind : {"swap", "dust", "liq"}, tx : Nat]

Messages == [ev : Nat, tx : Nat, pool : Pools, vol : {0, 1}, tick : Nat,
             r0 : BOOLEAN, r1 : BOOLEAN, ts : Nat]
NoMsg == [pool |-> NoPool]
NoCount == [pool |-> NoPool, v7 |-> {}]
-----------------------------------------------------------------------------
\* The last transaction that emitted an event, and the head of the chain.
LastTx == IF chain = <<>> THEN 0 ELSE Last(chain).tx
Height(e) == InitHeight + chain[e].tx
ChainHead == InitHeight + LastTx

\* No event has this number: a cursor beyond the chain.
BeyondChain == MaxEvents + 1

Init ==
    /\ chain = <<>> /\ now = 0 /\ up = FALSE
    /\ next = BeyondChain /\ ch = <<>>
    /\ dpc = "recv" /\ msg = NoMsg /\ pre = ZeroReserves
    /\ curr = [p \in Pools |-> NewReserves]
    /\ utc0 = [p \in Pools |-> GetLatestUtc0Reserves(<<>>)]
    /\ win = [p \in Pools |-> <<>>]
    /\ preDay = 0 /\ todo = {} /\ cnt = NoCount
    /\ rows = [p \in Pools |-> <<>>] /\ stat = [p \in Pools |-> <<>>]
    /\ crashes = 0 /\ rpcFaults = 0 /\ dbFaults = 0
    /\ runStart = BeyondChain /\ runDay = 0 /\ startHead = 0 /\ loaded = {}
    /\ dbLost = {} /\ statLost = {}
-----------------------------------------------------------------------------
(* The world.  (A name that extends the name of the definition below it is   *)
(* that definition with a plausible bug; the specification never uses it.)   *)

\* A pool of the group emits Swap, Mint or Burn, in the last transaction or in the
\* one of the next block.
Emit ==
    /\ Len(chain) < MaxEvents
    /\ \E p \in Pools, k \in Kinds, t \in {LastTx, LastTx + 1} :
          /\ t > 0
          /\ chain' = Append(chain, [pool |-> p, kind |-> k, tx |-> t])
    /\ UNCHANGED <<now, up, readVars, dealVars, memVars, countVars, dbVars,
                   crashes, rpcFaults, dbFaults, runVars, dbLost, statLost>>

\* Time passes.  The counter looks at the clock every ten seconds and its
\* statements take far less than a day: it never misses a whole day.
Tick ==
    /\ now < MaxNow
    /\ up /\ Day(now + 1) # Day(now) =>
          preDay = Day(now) /\ todo = {} /\ cnt = NoCount
    /\ now' = now + 1
    /\ UNCHANGED <<chain, up, readVars, dealVars, memVars, countVars, dbVars,
                   crashes, rpcFaults, dbFaults, runVars, dbLost, statLost>>

\* A statement fails.
DbFault == dbFaults < MaxDbFaults /\ dbFaults' = dbFaults + 1
-----------------------------------------------------------------------------
(* The process *)

\* fromHeight -= 400: an event below it is not read.  On a chain that is shorter the
\* unsigned number wraps, and no event is ever above it.
StartFromLater ==
    IF ChainHead < Lookback THEN BeyondChain
    ELSE Min({Len(chain) + 1} \cup {e \in DOMAIN chain : Height(e) > ChainHead - Lookback})
StartFrom ==
    IF ChainHead < Lookback THEN BeyondChain
    ELSE Min({Len(chain) + 1} \cup {e \in DOMAIN chain : Height(e) >= ChainHead - Lookback})

\* Start: initPoolStat for every pool, then the three goroutines.
Start ==
    /\ ~up
    /\ up' = TRUE
    /\ curr' = [p \in Pools |-> GetLatestReserves(rows[p])]
    /\ utc0' = [p \in Pools |-> GetLatestUtc0Reserves(stat[p])]
    /\ win' = [p \in Pools |-> AppendAll(Get24hVolumes(rows[p], now), now)]
    /\ next' = StartFrom
    /\ ch' = <<>>
    /\ dpc' = "recv" /\ msg' = NoMsg /\ pre' = ZeroReserves
    /\ preDay' = Day(now) /\ todo' = {} /\ cnt' = NoCount
    /\ runStart' = StartFrom
    /\ runDay' = Day(now)
    /\ startHead' = ChainHead
    /\ loaded' = UNION {{win'[p][i].ev : i \in DOMAIN win'[p]} : p \in Pools}
    /\ UNCHANGED <<chainVars, dbVars, crashes, rpcFaults, dbFaults, dbLost, statLost>>

\* The process dies: everything but the tables is gone.
Crash ==
    /\ up
    /\ crashes < MaxCrashes
    /\ up' = FALSE
    /\ crashes' = crashes + 1
    /\ UNCHANGED <<chainVars, readVars, dealVars, memVars, countVars, dbVars,
                   rpcFaults, dbFaults, runVars, dbLost, statLost>>
-----------------------------------------------------------------------------
(* The reader *)

\* The message dealPoolV3Log makes of an event and of what BalanceOf gave.
PoolStatSigned(e, r0, r1) ==
    [ev |-> e, tx |-> chain[e].tx, pool |-> chain[e].pool,
     vol |-> IF chain[e].kind = "swap" THEN -1 ELSE 0,
     tick |-> IF chain[e].kind = "liq" THEN 0 ELSE e,
     r0 |-> r0, r1 |-> r1, ts |-> now]
PoolStat(e, r0, r1) ==
    [ev |-> e, tx |-> chain[e].tx, pool |-> chain[e].pool,
     vol |-> IF chain[e].kind = "swap" THEN 1 ELSE 0,
     tick |-> IF chain[e].kind = "liq" THEN 0 ELSE e,
     r0 |-> r0, r1 |-> r1, ts |-> now]

\* dealPoolV3Log.  A failed BalanceOf leaves the reserve at zero.  The message
\* is complete before the send, so a sender that blocks on the full channel
\* makes the channel one message longer.
DealLogDrops ==
    /\ up
    /\ next <= Len(chain)
    /\ ch' = IF Len(ch) < ChanCap THEN Append(ch, PoolStat(next, TRUE, TRUE)) ELSE ch
    /\ next' = next + 1
    /\ UNCHANGED <<chainVars, up, dealVars, memVars, countVars, dbVars,
                   crashes, rpcFaults, dbFaults, runVars, dbLost, statLost>>
DealLog ==
    /\ up
    /\ next <= Len(chain)
    /\ Len(ch) <= ChanCap
    /\ \E r0, r1 \in BOOLEAN :
          /\ (r0 /\ r1) \/ rpcFaults < MaxRpcFaults
          /\ rpcFaults' = IF r0 /\ r1 THEN rpcFaults ELSE rpcFaults + 1
          /\ ch' = Append(ch, PoolStat(next, r0, r1))
    /\ next' = next + 1
    /\ UNCHANGED <<chainVars, up, dealVars, memVars, countVars, dbVars,
                   crashes, dbFaults, runVars, dbLost, statLost>>
-----------------------------------------------------------------------------
(* The consumer, dealTickV3 *)

\* The first event of a day sets the reserves of UTC 0.
OpenDayAlways(u, c) == [day |-> Day(now), res |-> c.res, tick |-> c.tick]
OpenDay(u, c) ==
    IF u.day = Day(now) THEN u ELSE [day |-> Day(now), res |-> c.res, tick |-> c.tick]

\* An event without volume takes over the tick known so far.
TickOfMessage(m) == m.tick
TickOf(m) == IF m.vol = 0 THEN curr[m.pool].tick ELSE m.tick

\* Steps 1 and 2 of the loop body: current reserves, then the reserves of the
\* new day.  Reserves without a balance of token 0 are not taken, nor is the tick
\* that came with them.
Receive ==
    /\ up /\ dpc = "recv" /\ ch # <<>>
    /\ LET m == Head(ch)
           p == m.pool
           tick == TickOf(m)
           res == [of |-> p, r0 |-> m.r0, r1 |-> m.r1]
       IN  /\ msg' = [m EXCEPT !.tick = tick]
           /\ pre' = IF m.r0 THEN res ELSE pre
           /\ curr' = IF m.r0 THEN [curr EXCEPT ![p] = [res |-> res, tick |-> tick]]
                              ELSE curr
           /\ utc0' = [utc0 EXCEPT ![p] = OpenDay(@, curr'[p])]
           /\ dpc' = IF m.vol = 0 THEN "store" ELSE "volume"
    /\ ch' = Tail(ch)
    /\ UNCHANGED <<chainVars, up, next, win, countVars, dbVars,
                   crashes, rpcFaults, dbFaults, runVars, dbLost, statLost>>

\* The swap enters the 24 hour window.
AddVolume ==
    /\ up /\ dpc = "volume"
    /\ win' = [win EXCEPT ![msg.pool] =
                  AppendVolume(@, now, [ev |-> msg.ev, vol |-> msg.vol, ts |-> msg.ts])]
    /\ dpc' = "store"
    /\ UNCHANGED <<chainVars, up, readVars, msg, pre, curr, utc0, countVars, dbVars,
                   crashes, rpcFaults, dbFaults, runVars, dbLost, statLost>>

\* Step 3: the row is stored, with the reserves last seen by this goroutine;
\* a failure is logged and forgotten.
StoreVolumeRetries ==
    /\ up /\ dpc = "store"
    /\ \/ /\ rows' = [rows EXCEPT ![msg.pool] = StorePoolVolume(@,
                        [ev |-> msg.ev, tx |-> msg.tx, tick |-> msg.tick, res |-> pre,
                         vol |-> msg.vol, ts |-> now])]
          /\ dpc' = "recv" /\ msg' = NoMsg
          /\ UNCHANGED dbFaults
       \/ /\ DbFault
          /\ dpc' = IF msg.vol = 0 THEN "store" ELSE "volume"
          /\ UNCHANGED <<rows, msg>>
    /\ UNCHANGED <<chainVars, up, readVars, pre, memVars, countVars, stat,
                   crashes, rpcFaults, runVars, dbLost, statLost>>
StoreVolume ==
    /\ up /\ dpc = "store"
    /\ \/ /\ rows' = [rows EXCEPT ![msg.pool] = StorePoolVolume(@,
                        [ev |-> msg.ev, tx |-> msg.tx, tick |-> msg.tick, res |-> pre,
                         vol |-> msg.vol, ts |-> now])]
          /\ UNCHANGED <<dbFaults, dbLost>>
       \/ /\ DbFault
          /\ dbLost' = dbLost \cup {msg.ev}
          /\ UNCHANGED rows
    /\ dpc' = "recv" /\ msg' = NoMsg
    /\ UNCHANGED <<chainVars, up, readVars, pre, memVars, countVars, stat,
                   crashes, rpcFaults, runVars, statLost>>
-----------------------------------------------------------------------------
(* The API: OverviewPools and OverviewPoolsByContract evict old entries *)

Overview ==
    /\ up
    /\ \E p \in Pools : win' = [win EXCEPT ![p] = Evict(@, now)]
    /\ UNCHANGED <<chainVars, up, readVars, dealVars, curr, utc0, countVars, dbVars,
                   crashes, rpcFaults, dbFaults, runVars, dbLost, statLost>>
-----------------------------------------------------------------------------
(* The counter, countVolumes *)

\* The ticker fires and the day has changed.
NoticeDay ==
    /\ up /\ todo = {} /\ cnt = NoCount
    /\ preDay # Day(now)
    /\ preDay' = Day(now)
    /\ todo' = Pools
    /\ UNCHANGED <<chainVars, up, readVars, dealVars, memVars, cnt, dbVars,
                   crashes, rpcFaults, dbFaults, runVars, dbLost, statLost>>

\* The volume of the last 24 hours and of the six days before; when the query
\* fails the pool is passed over.
CountRead ==
    /\ up /\ cnt = NoCount
    /\ \E p \in todo :
          /\ win' = [win EXCEPT ![p] = Evict(@, now)]
          /\ todo' = todo \ {p}
          /\ \/ /\ cnt' = [pool |-> p,
                           v7 |-> GetNDaysVolumes(stat[p], preDay - 7)
                                  \cup Vol24H(win'[p])]
                /\ UNCHANGED <<dbFaults, statLost>>
             \/ /\ DbFault
                /\ statLost' = statLost \cup {<<p, preDay - 1>>}
                /\ UNCHANGED cnt
    /\ UNCHANGED <<chainVars, up, readVars, dealVars, curr, utc0, preDay, dbVars,
                   crashes, rpcFaults, runVars, dbLost>>

\* The row of the day that ended.  vol1d shares its big.Int with the window, so
\* the one day volume is the one of this moment.
CountStoreToday ==
    /\ up /\ cnt # NoCount
    /\ LET p == cnt.pool IN
          stat' = [stat EXCEPT ![p] = StorePoolStatistic(@,
                      [day |-> preDay, res |-> curr[p].res, tick |-> curr[p].tick,
                       v1 |-> Vol24H(win[p]), v7 |-> cnt.v7])]
    /\ cnt' = NoCount
    /\ UNCHANGED <<chainVars, up, readVars, dealVars, memVars, preDay, todo, rows,
                   crashes, rpcFaults, dbFaults, runVars, dbLost, statLost>>
CountStore ==
    /\ up /\ cnt # NoCount
    /\ LET p == cnt.pool IN
       \/ /\ stat' = [stat EXCEPT ![p] = StorePoolStatistic(@,
                        [day |-> preDay - 1, res |-> curr[p].res, tick |-> curr[p].tick,
                         v1 |-> Vol24H(win[p]), v7 |-> cnt.v7])]
          /\ UNCHANGED <<dbFaults, statLost>>
       \/ /\ DbFault
          /\ statLost' = statLost \cup {<<p, preDay - 1>>}
          /\ UNCHANGED stat
    /\ cnt' = NoCount
    /\ UNCHANGED <<chainVars, up, readVars, dealVars, memVars, preDay, todo, rows,
                   crashes, rpcFaults, runVars, dbLost>>
-----------------------------------------------------------------------------
Next ==
    \/ Emit \/ Tick \/ Start \/ Crash
    \/ DealLog \/ Receive \/ AddVolume \/ StoreVolume
    \/ Overview
    \/ NoticeDay \/ CountRead \/ CountStore

Spec == Init /\ [][Next]_vars

\* The goroutines of a running process are scheduled.  Nothing makes the chain
\* grow, a client call or an operator restart the process.
Fairness ==
    /\ WF_vars(DealLog) /\ WF_vars(Receive) /\ WF_vars(AddVolume) /\ WF_vars(StoreVolume)
    /\ WF_vars(NoticeDay) /\ WF_vars(CountRead) /\ WF_vars(CountStore)

FairSpec == Spec /\ Fairness
-----------------------------------------------------------------------------
(* Properties *)

WorldTypeOK ==
    /\ chain \in Seq(Events)
    /\ now \in Nat /\ up \in BOOLEAN
    /\ crashes \in 0..MaxCrashes /\ rpcFaults \in 0..MaxRpcFaults
    /\ dbFaults \in 0..MaxDbFaults

PipeTypeOK ==
    /\ next \in Nat \ {0} /\ ch \in Seq(Messages)
    /\ dpc \in {"recv", "volume", "store"}
    /\ IF dpc = "recv" THEN msg = NoMsg ELSE msg \in Messages
    /\ pre \in ReservesOf
    /\ runStart \in Nat \ {0} /\ startHead \in Nat /\ dbLost \subseteq Nat

MemoryTypeOK ==
    /\ curr \in [Pools -> [res : ReservesOf, tick : Nat]]
    /\ utc0 \in [Pools -> [day : Int, res : ReservesOf, tick : Nat]]
    /\ win \in [Pools -> Seq(Volume)]
    /\ loaded \subseteq Nat

CountTypeOK ==
    /\ preDay \in Nat /\ todo \subseteq Pools
    /\ cnt \in [pool : Pools, v7 : SUBSET Nat] \cup {NoCount}
    /\ runDay \in Nat /\ statLost \subseteq Pools \X Int

TableTypeOK ==
    /\ rows \in [Pools -> Seq(VolumeRow)]
    /\ stat \in [Pools -> Seq(StatRow)]

TypeOK == WorldTypeOK /\ PipeTypeOK /\ MemoryTypeOK /\ CountTypeOK /\ TableTypeOK

\* A row was made of event e.  A row has the key of e: it was made of e, or of another
\* event of its pool in its transaction.
Stored(e) == \E p \in Pools : \E i \in DOMAIN rows[p] : rows[p][i].ev = e
Recorded(e) == HasRow(rows[chain[e].pool], chain[e].tx)
InFlight(e) ==
    \/ \E i \in DOMAIN ch : ch[i].ev = e
    \/ dpc # "recv" /\ msg.ev = e

\* Between the node and the table no transaction of a pool gets lost, whatever the
\* capacity of the channel: of what this run has read there is a row, or it is on its
\* way, or the database refused it (dealPoolV3Log, chPoolStat, dealTickV3).  (The row
\* may be of another event of the transaction: the insert knows no other key.)
RunIsLossless ==
    up => \A e \in runStart..(next - 1) : Recorded(e) \/ InFlight(e) \/ e \in dbLost

\* In one run an event enters the 24 hour window once.  The only events in it
\* twice are those a restart both loaded from the table and read again because
\* they are within Lookback of the head (initPoolStat and fromHeight -= 400),
\* and none is in it three times.
ReplayOnlyDuplicates ==
    up => \A p \in Pools : \A i, j \in DOMAIN win[p] :
        i < j /\ win[p][i].ev = win[p][j].ev =>
            /\ win[p][j].ev \in loaded /\ win[p][j].ev >= runStart
            /\ \A k \in DOMAIN win[p] : win[p][k].ev = win[p][j].ev => k \in {i, j}

\* A swap counts once in the volume of the last 24 hours.
VolumeCountedOnce ==
    up => \A p \in Pools : \A i, j \in DOMAIN win[p] :
        win[p][i].vol = 1 /\ win[p][i].ev = win[p][j].ev => i = j

\* The entries of the window are in the order of their times, which is what makes
\* it right to evict from the head only; east of Greenwich they are out of order by
\* at most the zone, by which the entries loaded from the table are in the future.
Skew == IF Zone > 0 THEN Zone ELSE 0
WindowSorted ==
    up => \A p \in Pools : \A i, j \in DOMAIN win[p] :
        i < j => win[p][i].ts <= win[p][j].ts + Skew

\* Once everything read is processed, the current tick of a pool is the one a swap of
\* it left, and no swap with a volume that was stored or read came later, however often
\* events were replayed or interleaved with liquidity events.  (No balance could not
\* be read; and when a statement failed the rows may be out of order: then a swap of
\* this run is needed to put the tick right.)
TickFollowsChain ==
    (up /\ next > Len(chain) /\ ch = <<>> /\ dpc = "recv" /\ rpcFaults = 0) =>
        \A p \in Pools :
            LET swaps == {e \in DOMAIN chain : chain[e].pool = p /\ chain[e].kind = "swap"}
                known == {e \in swaps : e >= runStart \/ Stored(e)}
            IN  known # {} /\ (dbFaults = 0 \/ Max(known) >= runStart) =>
                    curr[p].tick \in swaps /\ curr[p].tick >= Max(known)

\* The statistics of day d of pool p are stored, were refused by the database or
\* the counter is still at them.
DayAccounted(p, d) ==
    \/ Counted(stat[p], d)
    \/ <<p, d>> \in statLost
    \/ d = preDay - 1 /\ (p \in todo \/ cnt.pool = p)

\* Every day that ended during this run has its row for every pool, unless the
\* database refused it or the counter is still at it: the counter passes over no
\* day and no pool (countVolumes).
EveryDayCounted ==
    up => \A p \in Pools : \A d \in runDay..(preDay - 1) : DayAccounted(p, d)

\* While the process runs, the reserves of UTC 0 of a pool change at most once a
\* day and always to those of a later day, although two goroutines, the replay
\* of old events and the clock take part (dealTickV3).
OpeningOncePerDay ==
    [][up /\ up' => \A p \in Pools :
          utc0'[p] # utc0[p] => utc0'[p].day > utc0[p].day]_vars

\* The reader used here is one that LogFeed allows.
Feed == INSTANCE LogFeed WITH head <- Len(chain), running <- up,
                              dealt <- {e \in 1..MaxEvents : runStart <= e /\ e < next}
FeedSpec == Feed!Spec

\* Event e is not more than Lookback blocks below the head this run found.
Due(e) ==
    /\ up /\ e \in DOMAIN chain
    /\ startHead >= Lookback /\ Height(e) >= startHead - Lookback
Settled(e) == e \in DOMAIN chain /\ (Recorded(e) \/ e \in dbLost)

\* A run that is left alone records every event that is due, unless the database
\* refused it.  (On a chain that is shorter than Lookback it records nothing at all.)
EveryEventStored == \A e \in 1..MaxEvents : Due(e) ~> (~up \/ Settled(e))
=============================================================================
