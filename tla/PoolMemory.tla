----------------------------- MODULE PoolMemory -----------------------------
(***************************************************************************)
(* The records the statistics service keeps per pool (service/types.go)    *)
(* and the queries it asks of the tables volume and pool_stat              *)
(* (model/pool.go), as operators on the values of one pool.                *)
(*                                                                         *)
(* An amount of tokens is abstracted to what the properties tell apart.  A *)
(* swap moves one unit of volume, anything else none; a sum of volumes is  *)
(* the set of the swaps it adds up.  A pair of reserves is the pool whose  *)
(* balances were read and, for each of the two tokens, whether a non-zero  *)
(* balance is known.                                                       *)
(***************************************************************************)
EXTENDS Integers, Sequences, FiniteSetsExt, SequencesExt

CONSTANTS
    Pools,    \* the pools one consumer goroutine is responsible for
    NoPool,   \* stands for no pool
    DayLen,   \* length of a day in units of the clock
    Zone      \* offset of local time from UTC, in units of the clock

ASSUME MemoryAssumption ==
    /\ NoPool \notin Pools
    /\ DayLen \in Nat \ {0}
    /\ Zone \in Int

\* (A name that extends the name of the definition below it is that definition
\* with a plausible bug; the specifications never use it.)

\* The tick of a pool that had no swap (999999999).
DefaultTick == 0

\* time.Now().Unix() / 86400
Day(t) == t \div DayLen

\* A Reserves record: its reserves and its tick.
ReservesOf == [of : Pools \cup {NoPool}, r0 : BOOLEAN, r1 : BOOLEAN]
ZeroReserves == [of |-> NoPool, r0 |-> FALSE, r1 |-> FALSE]
NewReserves == [res |-> ZeroReserves, tick |-> DefaultTick]
-----------------------------------------------------------------------------
(* Volumes: the queue of the last 24 hours *)

\* An entry of Volumes.data: the event it came from, its amount, its time.
Volume == [ev : Nat, vol : {0, 1}, ts : Int]

\* The swaps that the sum vol24H adds up.
Vol24H(data) == {data[i].ev : i \in {j \in DOMAIN data : data[j].vol = 1}}

\* get24HVolume drops entries from the head until one is young enough.
Evict(data, t) ==
    LET young == {i \in DOMAIN data : data[i].ts >= t - DayLen}
    IN  IF young = {} THEN <<>> ELSE SubSeq(data, Min(young), Len(data))

\* append evicts first, so the new entry stays whatever its time is.
AppendVolume(data, t, v) == Append(Evict(data, t), v)

\* The entries of load appended one after the other to an empty queue: all old
\* ones at the head are gone, except that the last one always stays.
AppendAll(load, t) ==
    IF load # <<>> /\ Evict(load, t) = <<>> THEN <<Last(load)>> ELSE Evict(load, t)
-----------------------------------------------------------------------------
(* Table volume: the rows of a pool in the order of their id.  The columns that  *)
(* can be a key are the transaction and the contract, there is none for the log. *)

VolumeRow == [ev : Nat, tx : Nat, tick : Nat, res : ReservesOf, vol : {0, 1}, ts : Nat]

HasRow(table, tx) == \E i \in DOMAIN table : table[i].tx = tx

\* StorePoolVolume: a duplicate key (Error 1062) is success without a change.
StorePoolVolume(table, row) ==
    IF HasRow(table, row.tx) THEN table ELSE Append(table, row)

\* Get24hVolumes, oldest row first as initPoolStat appends them.  The cut-off is
\* formatted in local time and the column compared as text, so the selection is
\* right; the column is then parsed as if it were UTC, which shifts it by Zone.
Get24hVolumesWrongSign(table, t) ==
    LET young == {i \in DOMAIN table : table[i].ts > t - DayLen}
        sel == IF young = {} THEN <<>> ELSE SubSeq(table, Min(young), Len(table))
    IN  [i \in DOMAIN sel |->
            [ev |-> sel[i].ev, vol |-> sel[i].vol, ts |-> sel[i].ts + 2 * Zone]]
Get24hVolumes(table, t) ==
    LET young == {i \in DOMAIN table : table[i].ts > t - DayLen}
        sel == IF young = {} THEN <<>> ELSE SubSeq(table, Min(young), Len(table))
    IN  [i \in DOMAIN sel |->
            [ev |-> sel[i].ev, vol |-> sel[i].vol, ts |-> sel[i].ts + Zone]]

\* GetLatestReserves: the row of the pool with the greatest id.
GetLatestReserves(table) ==
    IF table = <<>> THEN NewReserves
                    ELSE [res |-> Last(table).res, tick |-> Last(table).tick]
-----------------------------------------------------------------------------
(* Table pool_stat: the rows of a pool in the order of their id, the day *)

StatRow == [day : Int, res : ReservesOf, tick : Nat, v1 : SUBSET Nat, v7 : SUBSET Nat]

Counted(table, d) == \E i \in DOMAIN table : table[i].day = d

\* StorePoolStatistic: a duplicate key is success without a change.
StorePoolStatistic(table, row) ==
    IF Counted(table, row.day) THEN table ELSE Append(table, row)

\* GetNDaysVolumes: the volumes of the days since day, added up.
GetNDaysVolumes(table, day) ==
    UNION {table[i].v1 : i \in {j \in DOMAIN table : table[j].day >= day}}

\* GetLatestUtc0Reserves: the end of the last counted day is the start of the
\* next one.
GetLatestUtc0Reserves(table) ==
    IF table = <<>>
    THEN [day |-> 0, res |-> ZeroReserves, tick |-> DefaultTick]
    ELSE [day |-> Last(table).day + 1, res |-> Last(table).res, tick |-> Last(table).tick]
=============================================================================
