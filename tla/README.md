# Verification of ibswap-api

ibswap-api follows the pools of a Uniswap-v3 style exchange on an EVM chain,
keeps statistics about them in memory and in MySQL, and serves them over HTTP.
This directory holds TLA+ modules of its core, the TLC configurations that
check them on small instances, and proofs checked by TLAPS. Line numbers below
are those of the repository's files.

## 1. Inventory

### How the parts interact

```
 EVM node --FilterLogs--> scanPoolsV3 --chPoolStat--> dealTickV3 --insert--> table volume
   (RPC)                  (one goroutine per group of pools)  |                   |
      --FilterLogs--> scanNft --chan--> dealNft --> table nft  v                   | initPoolStat
                                          | AddPool     currReserves               | after a restart
                                          v             utc0Reserves  <------------+
                               registry (pools, coins)  volumes24H
                                          ^                ^    |
 admin / public HTTP handlers ------------+    handlers ---+    v
                                                         countVolumes (midnight) --> table pool_stat
```

The goroutines share package-level maps whose values carry their own locks; the
maps themselves have none.

| Component | State | Operations | What is hard | What makes it correct |
|---|---|---|---|---|
| Chain readers, `service/evm.go` | `fromHeight`, `toHeight` | scan and listen loops, `deal*Log` | RPC failures, lagging nodes, clipped windows, restart, `uint64` arithmetic | every log once, in chain order |
| Pool statistics, `service/task.go` | `currReserves`, `utc0Reserves`, `volumes24H`, `preReserve*` | `Start`, `initPoolStat`, `dealTickV3` | replay after a restart, several pools through one goroutine, failed balances and inserts | no event lost, none counted twice, the tick follows the chain |
| In-memory records, `service/types.go` | `Reserves`, `Volumes` | `set`, `get`, `append`, `get24HVolume` | two locks in `append`, a shared `big.Int` | the sum is the sum of the entries, entries stay in time order |
| Midnight counter and overview, `service/api.go` | `preDay`, `poolStatsM` | `countVolumes`, `OverviewPools`, `StatPoolVolumes` | process down at midnight, failed statements, a cache | every day once for every pool |
| Tables, `model/pool.go`, `model/nft.go`, `model/mysql.go` | `volume`, `pool_stat`, `nft`, `protocol` | inserts that ignore duplicates, queries | time zones, "latest by id" | a replay changes nothing |
| Registry, `model/public.go` | `pool`, `token` and their copies in memory | `AddPool`, `AddToken`, `Change*` | pools added while others run, table and copy updated apart | copy and table agree, a pool has one listener and its records |
| Liquidity tokens, `service/task.go` `dealNft` | table `nft` | mint, transfer, burn | replay, a query that fails after a burn | the table names the owner |
| Prices, `service/price.go`, `api/gecko.go` | `tokenPricesAsUsd` | walk over the pools | pools and tokens that come during a walk, handlers that read during one | every reachable token priced along the shortest way, no price of an earlier walk |
| Protocol fees, `service/protocol.go` | table `protocol` | hourly round | failed calls, symbols that are not known yet | a symbol once stored is kept, and its decimals are known |
| HTTP, `api/` | the server | start, stop, handlers, admin calls | requests before the service exists, stop during a request | only a stop ends the process, and it waits for the requests |
| Middleware, `api/middleware` | limiters per address, admins | `GetLimiter`, `VerifySignature` | a request before the administrators are known | changes for administrators only |
| Daemon, `daemon/daemon.go` | `runIdx`, `errNum`, `count` of each process | `Background`, `Run`, `WaitForKill` | launcher, supervisor and worker are one program | one worker at a time, replaced when it goes away |
| Configuration, logging, units, bindings | none | none | none | none |

PROJECT.json lists the same components with what is modelled, and every hazard
with the line where it bites and the property that watches it.

## 2. Modules

### LogFeed: what a reader promises

The abstract specification. A reader has a cursor; it hands the blocks over one
after the other, never ahead of the chain; when its process dies it goes idle and
a new run starts anywhere. It says nothing of windows, polls or errors.

### LogScan: the polling loop

The loop that `scanPoolsV2`, `scanPoolsV3`, `scanNft` and `scanFactory` repeat.
They are what `listen_type` 1 selects. They differ in where they start
(`Lookback`: 400 blocks below the head, or at the head), in the longest window (`ScanLimit`) and in the step taken when it is passed
(`ScanStep`).

| Code (`service/evm.go`) | Module |
|---|---|
| `Dial`, `BlockNumber`, `fromHeight -= 400` (271-280) | `Start`, `Sub64` |
| sleep, `BlockNumber` fails or lags (151-158, 284-291) | `PollAgain` |
| sleep, window clipped (292-297) | `Poll`, `ScanTo` |
| `FilterLogs` succeeds, fails (298-302) | `FilterOk`, `FilterError` |
| body of the loop over logs (303-306) | `DealLog` |
| `fromHeight = toHeight + 1` (307) | `Advance`, `NextFrom` |

`head` belongs to the chain. `startedAt`, `first` and `dealt` are history
variables: no action of the code reads them.

### LogListen: the subscribing loop

What `listen_type` 0 selects instead: `listenPoolsV2`, `listenPoolsV3`, `listenNft`
and `listenFactory`, which run one loop.

| Code (`service/evm.go`) | Action |
|---|---|
| `Dial`, also after a failure (239-246) | `DialOk` |
| `SubscribeFilterLogs` succeeds, fails (247-253) | `Subscribe`, `SubscribeError` |
| `case err := <-sub.Err()` (257-261) | `SubError` |
| `case vLog := <-eventLogChan` (262-264) | `TakeLog`, then `DealLog` or `DealReports` |
| the receiver of the data channel | `Consume` |
| a panic or a signal, a new run | `Crash`, `Restart` |

`NewLog`, `Reorg` and `Break` belong to the node. A notification is its position in
the stream of what the node announces; a reorganisation announces a log a second time,
as removed. The library behind the subscription is external: it keeps `SubBuffer`
notifications and ends the subscription when there are more. A step without an
effect (a dial that fails) is left out. `dealt`, `sent`, `undealt` and `missed` are
history variables.

### EventWords: the words of a log

`absBytes`, `flagBytes` and `cutErrorString` of `service/evm.go` as operators, with
`big.Int.SetBytes` below them, and what they should be: the two's complement of a
word, and a cut that stays within the text. `Base` is the number of values of a byte.

### PoolMemory: one pool's records and queries

Operators on the values of one pool: the queue of the last 24 hours
(`service/types.go`), the tables `volume` and `pool_stat` and the queries
(`model/pool.go`). A table is a sequence in id order; a duplicate key leaves it
unchanged, which is what the handling of `Error 1062` amounts to.

### PoolService: the statistics of a group of pools

Composes the reader (as LogFeed promises it), the channel, the consumer
`dealTickV3`, the counter `countVolumes`, the overview handlers and the restart,
over the operators of PoolMemory.

| Code | Action |
|---|---|
| `Start`, `start`, `initPoolStat`, `StartPool` (task.go 16-94) | `Start` |
| `dealPoolV3Log` (evm.go 311-346) | `DealLog`, `PoolStat` |
| `dealTickV3`, tick, steps 1 and 2 (task.go 105-122) | `Receive`, `TickOf`, `OpenDay` |
| `dealTickV3`, 24 hour volume (125-127) | `AddVolume` |
| `dealTickV3`, step 3 (130) | `StoreVolume` |
| `OverviewPools`, `OverviewPoolsByContract` (api.go 41-121) | `Overview` |
| `countVolumes` (api.go 143-168) | `NoticeDay`, `CountRead`, `CountStore` |
| a panic or a signal | `Crash` |

The steps of the consumer and of the counter are separate actions because other
goroutines run between them. The history variables are `runStart`, `runDay`,
`loaded`, `dbLost` and `statLost`.

Abstractions and assumptions:

- An event is its position on the chain. A transaction has any number of events,
  a block one transaction with events of the group. The tick a swap leaves is named
  by its position, and `DefaultTick` is 0.
- The cursor is the number of the next event. `fromHeight -= 400` wraps on a chain of
  fewer than `Lookback` blocks, and the cursor is then `BeyondChain`: the run reads
  nothing (evm.go:280, 290). `InitHeight` is the length of the chain before the first
  event.
- Amounts: a swap has volume one, a swap that paid nothing out and a liquidity
  event have volume zero. A sum of volumes is the *set* of the swaps in it, so a
  sum with a duplicate is recognised on the queue itself.
- Reserves are the pool they were read from and whether each balance is known.
  `dealTickV3` looks only at the first (`tick.Reserve0.Cmp(zero)`), and so does
  `Receive`.
- The reserves of a v3 pool in use are not zero, and a Swap log has its 160
  bytes, so the early return for shorter data is left out.
- A sender that blocks on the full channel holds one complete message; the model
  lets the channel grow by that one.
- `tx` and `contract` identify a row of `volume`, `id` and `contract` one of
  `pool_stat`: the repository has no schema, only the columns of the inserts and the
  handling of duplicates. The insert into `volume` has no index of the log
  (model/pool.go:14), so of several events of a pool in one transaction the first one
  stored is the row and the others are duplicates. `RunIsLossless` and `EveryEventStored`
  therefore speak of the row of the transaction (`Recorded`), not of one for each event.
- The database session uses local time, so the cut-off formatted in local time
  selects the right rows; reading the column back as UTC shifts it by `Zone`.
  The rows of a pool are stored in the order of their times.
- `Tick` does not let a running counter miss a whole day: it looks at the clock
  every ten seconds. It may be at work for any part of a day.
- The chain only grows and `FilterLogs` answers the whole range: no
  reorganisation, no node that omits logs.
- `Start` is one step. An event emitted while the process starts is read anyway,
  because the reader begins below the head.

### DayStats: 24 hours, days and weeks

One pool again, with the steps PoolService takes at once pulled apart: the lock of
`Volumes`, the two sums it protects and hands out as pointers, the goroutines that
read through those pointers later, the counter with its three statements, and the cache
of `StatPoolVolumes`.

| Code | Action |
|---|---|
| `dealPoolV3Log` gives a swap its time | `Deal` |
| `get24HVolume`: the lock, the cut-off, the loop, the return (types.go) | `Lock`, `SubFirst`, `SubSecond`, `Unlock` |
| `append`: the second lock, the queue, the sums (types.go) | `LockAgain`, `AddFirst`, `AddSecond` |
| `OverviewPools`: the response is made of the pointers (api.go) | `Reply`, `Readings` |
| `countVolumes`: a new day, `GetNDaysVolumes`, the strings, the row (api.go) | `NoticeDay`, `CountWeek`, `CountDay`, `CountStore` |
| `StatPoolVolumes`: the day, then map and query under the lock (api.go) | `StatDay`, `StatPoolVolumes`, `Hit` |

A swap is its number; a sum is the set of swaps in it. A read that overlaps the write
of the same sum gives `Torn`, which stands for anything. `Tick` waits for the counter
`Jitter` after midnight: the ticker of ten seconds and the pools before this one. The
process does not restart here; PoolService has that. `counted`, `asked` and `filled` (the
day of the request that filled the cache) are history variables. `Earlier` is the sequence
of the days before the instance that have a row.

### NftIndex: who owns a liquidity token

The reader's `dealNFTLog`, the channel `chNft`, the consumer `dealNft` and the
tables `nft`, `pool` and `token`, with restarts.

| Code | Action |
|---|---|
| `startNft`, the start of `scanNft` (evm.go 412-424) | `Start`, `StartFrom` |
| `dealNFTLog`, `Positions` answers, fails (evm.go 452-491) | `DealLog`, `NftToken`; `DropLog` |
| `dealNft` takes a message (task.go) | `Receive`, `FirstStep` |
| a mint looks for its pool and adds it | `ListPool` |
| `StoreNftToken`, `TransferNftToOther`, `DeleteNftToken` (model/nft.go) | `StoreRow`, `TableAfter` |
| `addCoin` for both coins | `AddCoins` |
| a panic or a signal | `Crash` |

`handled`, `lost`, `poolLost`, `coinLost` and `runStart` are history variables.
Abstractions: an event is its position on the chain. `Positions` belongs to a
contract that is not part of the repository; it is taken to fail for a token that
does not exist at the height the answering node is at, up to `Lag` events behind
the head. A pool counts as listed when `AddPool` has succeeded; its other
steps are PoolRegistry's. A token is minted once and is transferred to somebody
else. A pool or a coin that `getPools` or `getCoins` failed to read is in its table all the
same: `dealNft` misses it, and its insert meets the row. As in PoolService, the cursor of a
start on a chain of fewer than `Lookback` blocks is `BeyondChain`.

### PoolRegistry: how a pool comes into service

The table `pool`, its copies `poolMV2`, `poolMV3`, `poolMMM` (one function, `mem`)
and the slice `poolsV3`; the start of the process; the pools `dealNft` adds; the
requests of administrators; and the goroutines that dereference a pool's records.

| Code | Action |
|---|---|
| `main`, `getPools` | `Boot` |
| `Start`, `startNft` and its second of sleep | `StartNft` |
| `start(3)`, the groups of `ListenPoolCount` | `StartPools`, `InitPoolStat`, `Join`, `StartLast` |
| `AddPool`, `addPool` (model/public.go) | `InsertPool`, `AddPool`, `AppendPool` |
| `initPoolStatReal`, `StartPool` | `InitPoolStatReal`, `StartPool` |
| `ChangePoolState` | `UpdateState`, `CopyState` |
| `dealTickV3` gets an event, `countVolumes` comes to a pool | `Use` |

`getPools` only writes a failed query or a row it cannot scan to the log and goes on
(model/public.go 174-183), so `Boot` reads any subset of the table, at the price of one of
`MaxDbFaults` when it is not all of it; `unread` (history) is what it did not get.

Abstractions: a request is one call of one of the two handlers, sent at most once;
`Requests` bounds them. `append` on the shared slice is a read and a write,
which is what the Go memory model leaves of two unsynchronised appends at the level
of the slice header. Time is not modelled: an event of a listened pool, or
midnight, may come at any moment, in particular within the second `Start`
sleeps. The route of `AddPool` is a GET whose handler reads form values, which a
multipart body fills, so the request is one the server can get.

### TokenPrices: tokens, prices and fees

The table `token` with its copies `coinM` and `coins`, the requests about tokens, the
walk over the pools that prices them, the hourly round of protocol fees, and what the
handlers answer from all of these.

| Code | Action |
|---|---|
| `AddToken` (model/public.go 47-58) | `InsertToken`, `CopyToken` |
| `ChangeTokenPublic` (87-97) | `UpdatePublic`, `CopyPublic` |
| `RealEthPrice`, the price of ETH cannot be had (price.go) | `CoinbaseFails` |
| `setTokensPriceAsUsd`: the start, a pool, the next token | `BeginWalk`, `Visit`, `Dequeue` |
| `RealProtocolFees`: a round, a pool (protocol.go) | `BeginFees`, `FeesOf` |
| `addPool` (model/public.go 188-195) | `ListPool` |
| `initPoolStat`, `initPoolStatReal`, `dealTickV3`: record and tick of a pool | `Deal` |
| `initCoinsAndPools`: `getCoins`, `getPools` | `Start` |
| `Pairs`, `Tickers`, `GetUsdPrices` (gecko.go), `GetProtocolFees` | operators of these names |

A price is the route it was computed along and the walk that did it, so "the right
price" is a statement about routes; the arithmetic of a hop is a function of the
two. How a pool gets into the list and gets its record is PoolRegistry's and
PoolService's: here `ListPool` and `Deal` do it at any time.

Two things may be missing in memory that the tables have. `Start` reads any rows of the two
tables: a failed query or scan is only logged (model/public.go 152-161, 174-183), and
`unread` (history) holds the tokens it did not get. And `poolsV3` may lose pools: an `append`
that began with an older slice drops what came after it (`lost`, model/public.go:194). Both
count against `MaxFaults`, with the fees that could not be read or stored. A pool that is lost
stays so until the next start. (In the code it may come back when a third append, begun before
the second, writes last; and an append may overwrite an element under a walk that holds the same
array. Both need requests that overlap in a way this module does not have.)

`tokenPricesAsUsd` is a map that is read without a lock while the walk writes it; the fatal
error that may raise is a cause of `Crash` here, and a step of Server. `overlapped`, `unread`,
`usable` and `skip`, the pools that the slice of the walk lacks, are history variables: a step
reads `skip` only for what the slice has.

### Daemon: launcher, supervisor, worker

The processes of `daemon.Background` and `Run`, all of the same program, told apart by
what they have in their environment (`BK_DAEMON_IDX`) and by how often they called
`Background`.

| Code (`daemon/daemon.go`) | Action |
|---|---|
| `Background` with `isExit`, called by `Run` or by a program of its own | `BackgroundExit` |
| head of the loop of `Run` | `Check` |
| `Background` without `isExit` | `Background`, `IsSubProcess`, `StartProc` |
| `cmd.Wait`, `errNum` | `Wait` |
| the worker panics, is stopped or is killed; the supervisor is killed | `Exit`, `Kill` |

`program` chooses one of the two ways to use the package: `Run`, or `Background` alone.
The names of the specification itself (`DaemonInit`,
`DaemonNext`, `DaemonSpec`) differ from those of Server, so that one module can be about
both.

### Server: the life of the serving process

`main`, the goroutine of the HTTP server, `WaitForKill`, the stop, and requests that
come at any time of it. One action for each step of `main` and of `WaitForKill`
(`ReadConfig` to `Notify`, `Stopped`), for the stop `CloseListener`, `Drained`,
`WaitRequests` and `NotDrained` (`StopHttpServer`), for the goroutine `Bind` and
`ListenPanics`, for a request `Accept` and `Handle`, and `Signal`. `VerifySignature` and
the panic a handler recovers from are in `Answers`. A signature is one of four kinds; the
database and its statements are behind the answers. `failed` is a history variable.

Two things end the process that nothing recovers. The maps of the service, of the pools and of
the prices have no lock: while somebody writes one (`writing`: a goroutine of the service; or
the handler of an administrator's pool, `Writers`) any reader may make the Go runtime end the
process (`MapRace`). And a pool that is listed without records ends it with its first event or
at midnight (`NoRecords`): one an administrator has added (api/admin.go:30, `Added`), or one
`dealNft` is adding. PoolRegistry has the steps of both.

### Process: the program

Extends Server and Daemon. What `main` does after `Background` is done by the process that
`Background` left (`Serve`), and the end of Server is the end of that process (`Exit`). `Launch` is
the first call of `Background`; `Supervise` is the program that calls `Run` instead: nothing in
the repository does, so its worker has no server, and what is checked of it is what the package
offers.

### MC modules

`MCLogScan`, `MCLogListen`, `MCPoolService`, `MCDayStats`, `MCNftIndex`,
`MCPoolRegistry`, `MCTokenPrices` and `MCProcess` define the sets and the
symmetry the `.cfg` files use; `MCLogListen` also evaluates EventWords on words of up to
four bytes of four values and on texts of up to twenty characters. In the modules they
extend, a definition whose name extends the name of the definition below it
(`NextFromSame`, `NextFrom`) is that definition with a plausible bug; it is never used by
the specification and exists to test that the properties notice it (PROJECT.json,
"mutants").

## 3. What is checked

| Run | Instance | Shows |
|---|---|---|
| `logscan` | lookback 2, limit 1 (windows of two blocks), head up to 7, starting at 1 (the subtraction wraps) or 3, lag 1, one crash | `TypeOK`, `WindowOnChain`, `FeedSpec` (refinement of LogFeed), `EveryBlockDealt` (liveness) |
| `feed_crash` | two pools, three events of every kind in one, two or three transactions, channel of one, lookback 1 on a chain of no blocks or more, two crashes, one failed balance, one failed statement | `TypeOK`, `RunIsLossless`, `ReplayOnlyDuplicates`, `TickFollowsChain` |
| `feed_days` | two pools, two swaps, days of two units and a clock that passes one midnight, one unit east, one crash, one failed statement | `EveryDayCounted`, `WindowSorted`, `OpeningOncePerDay` (step property), `EveryEventStored` (liveness) |
| `nft_crash` | two tokens of two pools that share a coin, three transfers, channel of one, lookback 1, lag 1, two crashes, one failed call, one failed statement | `TypeOK`, `OwnerFollowsChain`, `PoolOfRowListed`, `CoinsOfRowKnown`, `TransfersAccounted` |
| `registry` | three stored pools in groups of two, one v3 pool and one v2 pool to be added, one request, one crash, one failed statement or failed read of the table | `TypeOK`, `RecordsReady`, `PoolsJoin` |
| `stats` | one swap, two handlers (symmetric), days of three units, a jitter of one, weeks of two days, a clock that passes two midnights, rows of two earlier days, one failed statement | `TypeOK`, `SumIsWindow`, `ReportIsWindow`, `DaysCounted`, `AnswerComplete` |
| `listen` | three logs, one taken back, a channel of one, a buffer of two notifications, two faults, one crash | `TypeOK`, `HandedOver`, `FeedSpec` (refinement of LogFeed), `EveryPushDealt` (liveness) |
| `market` | three tokens, one of them sETH, in a triangle of three pools of which one is listed, a token added by request, one request, two walks, one round of fees, one fault (a row not read, a pool lost, a fee not stored), one crash | `TypeOK`, `RouteValid`, `WalkComplete`, `ShownIsStored`, `SymbolsKept` (step property) |
| `process` | both programs, three processes, `MaxError` 3, `MaxCount` 8, eight exits of a worker, one kill, two failed starts; in the process that serves two requests of every kind and signature, two signals, a stop that waits two ticks | `EndsForReason`, `AdminsServed`, `OneWorker`, `StopEnds` (liveness), `Replaced` (liveness) |
| `find_volume` | one pool, two swaps, one crash | violation of `VolumeCountedOnce` |
| `find_stop` | `main`, one request, one signal | violation of `StopIsGraceful` |
| `find_exit` | `Run`, two exits of a worker | violation of `LongLifeIsException` |

### Why the bounds are enough

*LogScan.* Everything that depends on a number is the comparison of the gap with the
limit; the instance has gaps on both sides of the limit, several windows in a row, and a
start on both sides of the wrap. It has the shape of `scanPoolsV3` and `scanNft`; the
safety of the other shape (`scanPoolsV2`: no lookback, a step one below the limit)
follows from the theorems of section 4.

*LogListen.* A channel of one blocks the reader with a second notification in its hands
and a third one in the library, so the buffer of two fills up; two faults lose one
subscription within the recovery from another. One reorganisation gives a log announced
twice, in one subscription or in two.

*PoolService.* The chain is longer than the lookback, so a restart may replay some
events and miss others; two crashes let a run load what an earlier run replayed; a
channel of one blocks the sender with a second message in its hands; two pools are what
one goroutine needs to mix them up. `feed_days` passes the age of a day, so entries leave
the window; its lookback of 0 makes events of the head's block due and leaves those of an
outage out, so the antecedent of `EveryEventStored` is met and missed. It is one unit east of
Greenwich: the entries a start loads are in the future, and
`WindowSorted` allows that and no more. In `feed_crash` a start before the first block is one
where the subtraction wraps, and two events of a pool in one transaction have one row.

*DayStats.* The goroutines that share the record are a consumer, the counter and two
handlers: one handler may fill the cache between the moment the other computes its day and
the moment it takes the lock, which one alone never shows. The swap leaves the window
while others read it. The clock passes two midnights, so a row has a day before it that was
counted in the same run and, with weeks of two days, one that is too old; the rows of the
earlier days make the cached rows of a handler go stale twice. Swaps that leave while
others come are left to the theorems, which hold for any number of swaps and handlers.

*NftIndex.* Three transfers are a mint, a transfer and a transfer back or a burn, which
is what a replay needs to show an old owner; two crashes let a run die within its replay.

*PoolRegistry.* Three stored pools in groups of two make one full group and one rest, and any of
them may be missing from what the start reads; the
pool of version 3 that is not stored may be added by `dealNft`, by the request or by
both. `RecordsReady` and `PoolsJoin` are proved for any number of pools and requests.

*TokenPrices.* From sETH there is a way of one pool to each of the other tokens and one of two
around the triangle, so a walk of few pools prices a token by the longer way and the next one by
the shorter; two pools are listed and the last token's row comes before, during or after each of
the walks. The one fault leaves an old price over a pool the slice lost, a token without a copy
or a row of fees without a symbol: without its exception each of the three properties fails in
this run. Requests that overlap need two and are left to `ShownRight`, which holds for any number.

*Process.* With `MaxError` 3 as in the code, eight exits and two failed starts exceed the
limit with short lives in a row and reach it with long lives in between; the supervisor's
count runs out, too. A second request may be in progress, or begin, when the
first one keeps the stop waiting; a second signal may arrive during a stop.

`CHECK_DEADLOCK FALSE` is said where the system stops or the instance is used up: the last
process is gone (`process`, `find_stop`, `find_exit`), the reader waits for a log
that the bounded chain never gets (`listen`), and there is no walk, round or request left
(`market`).

### Fairness

The Go scheduler runs a goroutine that can run, so every step of the reader, the consumer
and the counter is weakly fair (a step that may fail is one action with its failure).
Strong fairness is stated where the program repeats an attempt: `FilterOk` in LogScan is
disabled again whenever the loop sleeps, and the claim is that a node that is asked again
and again answers at some time; `DialOk`, `Subscribe`, `DealLog` and `SubError` in LogListen
are attempts that a failure, a crash, a full channel or the other case of the `select`
takes away again and again. In Daemon the steps of each process are weakly fair: `Wait`
returns for a child that is gone. In Server only `WaitForKill` and the stop are: a handler
may never end.

Nothing makes the chain grow, the clock tick, a connection break, a client call, a worker
exit or a dead process restart: `main` calls `Background` alone, so nobody supervises it.
`EveryPushDealt` promises a subscription only to a process that is alive,
`EveryEventStored` supposes that the process is eventually left running, and an event at most the
lookback below the head a run found, on a chain that has so many blocks; `EveryBlockDealt`
concerns runs that began on a chain of at least `Lookback` blocks, and a block the lagging
node can already report.

### What the checks show

- **A restart counts swaps twice** (`find_volume`). `initPoolStat` loads the last
  24 hours from the table and the reader starts 400 blocks below the head. The
  insert recognises the duplicate, `volumes24H[key].append` does not (task.go:126).
  `ReplayOnlyDuplicates` shows that this is the only way a duplicate arises and
  that none is counted three times.
- **Two ways to read the chain, two promises.** Polling hands every block over once, within
  a run; subscribing loses what is announced between two subscriptions and throws away what
  the library kept for the lost one, and a log the chain took back is handed over a second
  time. `HandedOver` says that this is all that may happen: nothing is sent twice, overtaken
  or forgotten otherwise.
- **The window survives its two locks** (`SumIsWindow`), although `append` gives the lock
  back between evicting and adding. What the handlers read through the pointers after the lock
  is old or new but, unless the read is torn, never wrong by more than the swaps that aged
  or came meanwhile (`ReportIsWindow`). For the same reason the parts of a row of `pool_stat`, the
  day and the week, may differ in those swaps (`DaysCounted`).
- **The cache of days is complete** (`AnswerComplete`), because a row is stored for yesterday
  and a handler computes its day before it takes the lock. A request from before midnight
  that waits for the lock may find the cache filled by one of the next day: it then lacks the
  oldest day it would have shown. The property says that it lacks no other.
- **A pool has two listeners only when it was added before `start` read the list**
  (`PoolsJoin`), and only a pool that a request added, or that `dealNft` is adding at the
  moment, can be listed without its records (`RecordsReady`).
- **A replay of transfers** that loses no event of a token ends with the right owner; one
  that dies half way or loses the last transfer to a failed call leaves an old one
  (`OwnerFollowsChain`).
- **A walk** that is overtaken by new pools leaves no price of an earlier walk and none that
  mixes two (`RouteValid`, `WalkComplete`), unless the slice of pools has lost one that the old
  price was computed over: nothing resets such a price.
- **A start that does not get all rows goes on without them**: the pools it did not get have no
  listener until a start that reads them (`PoolsJoin`), the tokens are not shown, and the next
  round of fees takes their symbols out of the rows (`ShownIsStored`, `SymbolsKept`).
- **No client ends the process, but for two things** (`EndsForReason`): a map that somebody writes at
  that moment, and a pool without records, which takes an administrator or a pool `dealNft` is
  adding at that moment.
- **A regular stop may be none** (`find_stop`): `Shutdown` makes `ListenAndServe` return at once with
  `ErrServerClosed`, which is the error its goroutine panics on (api/router.go:30), so the process may
  end before the requests that are being answered. The comment above it speaks of a graceful
  shutdown (router.go:27-28). That a stop ends is so either way (`StopEnds`).
- **Short lives are counted, not long ones** (`find_exit`): the comment of `MinExitTime` reads "th min time
  duration of running of sub process. over this time, the sub process will be as an exception."
  (daemon.go:24), and `Run` counts the lives below it and resets the count above (daemon.go:123-127).

### Known deviations

Seen in the code while modelling; the models contain them, and the properties are stated so
that they hold with them:

- A burnt token keeps its row: the reader asks for the position of a token before it reports
  any of its events, and a burnt token has none (evm.go:472). `DeleteNftToken` is reached only
  through a node that lags.
- Two goroutines that append to `poolsV3` at once may lose a pool of the list until the next
  start (model/public.go:194), and a price computed over it is then never renewed.
- A run that starts on a chain of fewer than 400 blocks reads nothing (evm.go:280, 422).
- A second event of a pool in one transaction has no row (model/pool.go:14-16); its tick and its
  volume count in memory only.
- `ChangePoolState` does not touch the copies of version 2 (model/public.go:82), and two
  requests about the same pool or token may update row and copy in opposite orders.
- An event whose balance could not be read is stored with the reserves of the previous
  event of any pool (task.go:99, 130), and a restart takes them for the pool's own.
- The current reserves are set before the day is opened, so the opening of a day includes its
  first swap (task.go:111-121).
- A port that is taken is not reported at all (api/router.go:30).
- The day statistics of a pool cannot be asked for before `service.Start` made the map: the
  handler panics and is recovered.

Outside what the models tell apart: `AddToken` answers failure for success
(api/public.go:27-32); the route of `AddPool` is a GET whose handler reads form values; the
divisors of the liquidity overflow for tokens of more than 18 decimals (api/gecko.go:93-95) and
`last_price` scales by the decimals the other way round than the walk (api/gecko.go:102).

## 4. What is proved

The theorems hold for every value of the constants the named assumptions allow
(`ScanAssumption`, `ListenAssumption`, `MemoryAssumption`, `ServiceAssumption`,
`DayAssumption`, `NftAssumption`, `RegistryAssumption`, `PricesAssumption`,
`ServerAssumption`, `DaemonAssumption`, and `ClientAssumption`, that goroutines have different
names).

`LogScanProof`. The inductive invariant `IInv` strengthens `TypeOK` with where the
cursor of a window may be in each state of the loop and with
`dealt = first..(Cursor - 1)`; neither `WindowOnChain` nor `DealtIsPrefix` is
inductive alone, since the step that advances needs that the log cursor
has just passed `toHeight`. The fact about the code is `ScanToOnChain`: a clipped window ends at or
below the head, which needs `ScanStep <= ScanLimit + 1`. From `IInv` follow
`TypeCorrect`, `WindowsOnChain`, `NoGapNoOverlap` and `ImplementsFeed`: each step
of the loop is a step of LogFeed or leaves its variables alone.

`LogListenProof`. `TypeCorrect` has that a live subscription ends at the newest
notification. `Notified` needs more than `HandedOver`: what was sent or reported is below
the next notification to take, what is missed is not in the subscription, and of a log there
is one notification that is not a removal. `SubscriptionIsFeed`: within a subscription the
loop implements LogFeed.

`PoolServiceProof` begins with what the operators of PoolMemory return (`EvictSuffix`,
`AppendAllType`, `StorePoolVolumeStores`, `StorePoolStatisticCounts`, ...), and proves:

- `TypeCorrect`, one lemma per action.
- `Lossless`: `RunIsLossless` is inductive together with `TypeOK`. A step that
  takes a message from the channel makes it the consumer's, and one that finishes
  with it leaves a row of its transaction in the table or the event in `dbLost`.
- `OpeningMovesForward`: the property of a step needs that no opening is later than
  the clock's day, so `DaysBegun` (openings, counted days and the counter's day
  are not in the future) is proved invariant first.
- `DaysCounted`: `EveryDayCounted` is preserved because `Tick` waits for the
  counter (an assumption of the module) and each step of the counter either stores a row,
  records its loss or leaves the pool to be done.
- `WindowsSorted`: `WindowSorted` follows from `Times`: the times of the rows, of the messages on
  their way and of the entries of each window are in order, each behind the next, where a time
  that was read back as UTC is off by the zone, and that the loaded entries come first.
- `ReplayedOnce`: `ReplayOnlyDuplicates` speaks of one window; what makes it true is the order
  of the pipe. `Line` says that the channel holds consecutive events that end before the
  reader's and that the consumer has the one before them; so an event comes to the window once
  in a run, and `WindowsFresh` says that what is in the window from there on was loaded.
  `RowsOnce` (the key of the table) makes the loaded ones differ.
- `TickRight`: `Ticks` says, at every step and not only when all is processed, that the current
  tick is that of the last swap received in this run or, before the first, of the last one
  stored. That needs `NoGap`: without a failed statement the rows of all runs together have no
  gap from the beginning of this run on, so the last row is the last swap.
- `ReaderIsFeed`: the service's reader, with the channel that blocks it, implements LogFeed.

`DayStatsProof`. `SumsOfQueue`: between the two steps of an eviction or an addition the sums
are those of the queue but for the entry at work, and only the holder of the lock is at work.
`ReportsAreWindows`: times do not decrease along the queue, entries that left were older than
the cut-off of whoever evicted them, and that is never later than the clock's. On top of this
invariant, `DayInv` is that of the counter and the cache, and gives three theorems:

- `DayTypesOK`, the type invariant.
- `DaysRight`: the counter is within `Jitter` of the midnight it counts (`Calendar`), the days
  it took the lock for are in order (`Ledger`), the cut-off it evicted by is the beginning of
  the day (`Knows`), so what it reads has no swap of another day and all that were known
  (`Fair`); the volume of a week is that of the rows before and of a fair day (`Made`), in the
  counter's hands (`InHand`) and in the table (`RowsFair`).
- `AnswersComplete`: the rows of the table are in the order of their days (`Table`), hence the
  rows a query selects are a segment of it, and `Cached` says that the rows before the cached
  segment are too old for the request that filled it. That the segment reaches the last row a
  handler may show is the condition under which it uses the cache.

`NftIndexProof`. `TypeCorrect` needs that every transfer on the chain changes the
owner (`ChainMoves`): otherwise what `dealNFTLog` sends might name no user. That
the chain is built so rests on `MaxIn`, that the last event of a token is one of
its events. `RowsHavePools`: `PoolOfRowListed` is not inductive, since the insert
knows nothing of pools; `PoolBeforeRow` carries from `AddPool` to the insert that
the pool of a mint was listed or refused. `TransfersKept`: `TransfersAccounted` is
not inductive either, since the consumer forgets a mint after the coins;
`StatementBehind` says that its statement is behind it by then. The other two need the order
in which the events come (`Line`) and which are behind the consumer (`Behind`, `InTurn`):

- `CoinsKnown`: the coins of a mint this run has behind it are known, refused, or the consumer
  is at them (`CoinsInTurn`), whatever the row of the token says.
- `OwnersRight`: `RowOf` says what the row of a token is in the middle of a replay: absent
  until the mint had its statement, somebody who owned it once until the first transfer of this
  run, and right from then on. `RowLeft` is what the first run left when this one replays
  none of the token's events; a second crash may destroy it, which is why
  the property is about one crash there. `Lives` is the fact about the chain: a token begins
  with its mint and ends with its burn.

`PoolRegistryProof`. `RecordsFound`: `RecordsReady` speaks of the time the service runs, but what
makes it true happens before. The invariant `Awaited` says that until `start` reads the
slice a pool without records is in *every* copy of it, that of each goroutine about to
extend it included, so whichever write wins, `start` sees the pool; after that it waits in
`todo`. Pools that are lost by such a race are those of a request, or of `dealNft`, which
makes their records itself.
`InOrder` says who makes the records of a pool has made those that come before.
`PoolsJoined`: the key of the table lets one adder in, and no copy of the slice has the pool
before that one has written it (`Keys`), so no copy has a pool twice (`Once`); a pool that is
not early gets its listener from `start` or from its adder, never from both (`OneSource`);
and a pool of the table that `getPools` got is in every copy of the slice, has an adder or a listener
until `start` has it (`Reached`).

`TokenPricesProof`. One inductive invariant, `PriceInv`, in named parts, gives the five
theorems:

- `PriceTypesOK`.
- `RoutesRight`: `RouteValid` is inductive with `Walk`: what a walk has reached has a price of
  this walk, the rest has an older one, and `route` is that of the head of the queue.
- `ShownRight`: `Copies` and `Alone` say what a row and its copy may be between the two steps
  of a request that is alone with its token; `Named` says that a symbol is stored only for a
  token that has a row, and a copy while the process runs unless the start did not get it.
- `SymbolsKeptAlways`: within a round, what the copies name includes what the rows name
  (`Round`), but for the tokens the start did not get, so the row that replaces another names no
  less otherwise.
- `WalksAreComplete`: that the walk is a breadth-first search. `Breadth`: the queue is in the order
  of the lengths of the routes, and nothing reached is more than one pool further than its head.
  `Spread`: a token that has left the queue has brought its neighbours over the pools that were
  usable when the walk began. `Routes`: a pool a price was taken over is usable, and one of an
  earlier walk was so when this one began, or the slice has lost it. When the queue is empty, no token within `n` pools of a
  root can be priced by more than `n` (the least `n` for which this fails has a token whose
  neighbour was visited), and the price of a token along `n` pools puts it within `n`.
  `Near` is a recursive function, so the first thing proved is that its equation has a
  solution (`NearSolved`: who ends a chain of so many steps), from which `NearBy` unfolds it.

  Of the prices of earlier walks: `Chains` says that a price has a chain of tokens along its route,
  from one whose price is given. If the slice has all pools of the route they were usable when the
  walk began, so the walk went along them (`RouteReached`, by the first token of the chain that
  was not reached), and the token has a price of this walk (`LeftOver`).

`ProcessProof` is about Process. `ProcessEnds` and `AdminsAreServed` follow from one
invariant: what `main` has done by the time it is at a step (`Progress`), and that nobody was
accepted before the administrators were known. A step of Process is one of Server or of Daemon
with the other standing still, or the end of both. `OneWorkerServes`
follows from another invariant: the processes are at most one that was launched or supervises, a
`Root`, and one it started in the loop of `Run`, a `Worker` (`Family`), told apart by their
environments; `RootAt` and `WorkerAt` say what `runIdx` is at each step, so that
`IsSubProcess` answers right (`KnowsItself`): the supervisor's count is never below its
environment again, and the worker's stays there.

Every safety invariant, action property and refinement that a passing run checks is proved. What
remains to TLC: the liveness properties (`EveryBlockDealt`, `EveryPushDealt`,
`EveryEventStored`, `Replaced`, `StopEnds`), since fairness and `ENABLED` are out of the
prover's reach, and EventWords, whose operators are folds and recursive functions: induction
over data is out of reach, too, so they are evaluated on bounded inputs only.

Two attempts at a proof changed what is stated. `AnswerComplete` used to claim all rows of the
days a request shows, which one handler alone never violates; the proof found no reason why the
cache of another request should have the oldest of them, and TLC with two handlers showed that
it need not. And `PricesAssumption` says what the walk needs of a configuration: a pool has two
different tokens, the roots differ from each other, and there is at least one.

## 5. Not modelled

- `GetLimiter` and the rate limiter: installed on no route.
- `StartFactory` and `dealFactory`: nobody calls them. The loops that would feed them are
  instances of LogScan and LogListen.
- `Get1DayVolumes`, `model.Ping`, `ComputerAddress` and what is commented out in `main.go`: no caller.
- The generated contract bindings: one call of the node behind each method. The five methods
  used are parts of the steps that call them.
- The arithmetic of a hop and the figures of a ticker: floating point and big rationals.
- `getPoolContract`, a hash of its arguments.
- Configured values are constants; formatting of responses, logging and the text of errors
  carry no state other parts depend on.

What may still be added: a composition of DayStats with the restart of PoolService.
