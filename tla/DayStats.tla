------------------------------ MODULE DayStats ------------------------------
(***************************************************************************)
(* The volume of the last 24 hours of one pool and what is derived from    *)
(* it: the record Volumes with its lock (service/types.go), the consumer   *)
(* that appends swaps, the handlers of the overview and their cache of     *)
(* daily statistics, and the counter that stores a row every midnight      *)
(* (service/api.go) with the queries it uses (model/pool.go).              *)
(*                                                                         *)
(* get24HVolume returns pointers to the sums it protects, so handlers and  *)
(* the counter read them after the lock was released: every read and every *)
(* write of a sum is a step of its own, and a read that overlaps a write   *)
(* may give anything (Torn).                                               *)
(*                                                                         *)
(* A swap is its number.  The queue data holds the swaps first..last, and  *)
(* a sum of volumes is the set of the swaps it adds up.  There is one sum  *)
(* per token of the pair.                                                  *)
(***************************************************************************)
EXTENDS Integers, Sequences, FiniteSets, SequencesExt

CONSTANTS
    Window,      \* a day, 86400 seconds, which is also the age swaps leave at
    Jitter,      \* how long after midnight the counter is done with the pool
    WeekDays,    \* days the weekly volume covers: 7
    StatDays,    \* days the API shows: stat_days of the configuration
    Clients,     \* goroutines of the HTTP server
    Torn,        \* what a read returns that overlaps a write
    Earlier,     \* days whose rows an earlier run has stored, in the order of the table
    Start,       \* when the process starts
    MaxSwaps,    \* bound: swaps dealt with
    MaxNow,      \* bound: the clock stops here
    MaxDbFaults  \* bound: number of failed statements

ASSUME DayAssumption ==
    /\ Window \in Nat \ {0} /\ Jitter \in 0..(Window - 1)
    /\ WeekDays \in Nat \ {0} /\ StatDays \in Nat \ {0}
    /\ Earlier \in Seq(Int)
    /\ \A i \in DOMAIN Earlier : /\ Earlier[i] < 0
                                /\ \A j \in DOMAIN Earlier : i < j => Earlier[i] < Earlier[j]
    /\ Start \in Nat /\ MaxSwaps \in Nat /\ MaxNow \in Nat /\ MaxDbFaults \in Nat

Consumer == "consumer"
Counter == "counter"
Procs == {Consumer, Counter} \cup Clients
Free == "free"
Sides == {0, 1}

ASSUME ClientAssumption == Clients \cap {Consumer, Counter, Free} = {}

VARIABLES
    now,       \* the clock
    dealt,     \* times the reader gave to the swaps it sent
    first,     \* Volumes.data: its first entry ...
    last,      \* ... and its last one
    sum,       \* Volumes.vol24H: amount0 and amount1
    mu,        \* Volumes.mu: who holds it
    before,    \* before24H of the holder
    pc,        \* where every goroutine is
    preDay,    \* the counter: the last day it noticed
    week,      \* the counter: vol7d
    day1,      \* the counter: the one day volume it stores
    stat,      \* table pool_stat: the rows of the pool
    cache,     \* poolStatsM: the rows kept for the pool
    day,       \* handler: currDay
    dbFaults,
    \* history variables
    counted,   \* last when the counter took the lock for a day
    asked,     \* handler: before24H and last when it took the lock
    filled     \* the day of the request that filled the cache

clock == <<now, dealt>>
volumes == <<first, last, sum, mu, before>>
count == <<preDay, week, day1, counted>>
cached == <<cache, day, filled>>
vars == <<clock, volumes, pc, count, stat, cached, dbFaults, asked>>

Day(t) == t \div Window
Midnight(d) == d * Window

\* (A name that extends the name of the definition below it is that definition
\* with a plausible bug; the specification never uses it.)

\* A row of pool_stat.  The weekly volume is a sum over days, kept as its parts.
NoVolume == [k \in Sides |-> {}]
Row(d, v1, v7) == [day |-> d, v1 |-> v1, v7 |-> v7]
EarlierRows == [i \in DOMAIN Earlier |-> Row(Earlier[i], NoVolume, NoVolume)]

Nothing == [before |-> -Window, last |-> 0]

Init ==
    /\ now = Start /\ dealt = <<>>
    /\ first = 1 /\ last = 0 /\ sum = NoVolume /\ mu = Free /\ before = 0
    /\ pc = [p \in Procs |-> "idle"]
    /\ preDay = Day(Start) /\ week = NoVolume /\ day1 = NoVolume
    /\ stat = EarlierRows /\ cache = <<>>
    /\ day = [c \in Clients |-> 0]
    /\ dbFaults = 0
    /\ counted = <<>>
    /\ asked = [c \in Clients |-> Nothing] /\ filled = 0

Goto(p, l) == pc' = [pc EXCEPT ![p] = l]
DbFault == dbFaults < MaxDbFaults /\ dbFaults' = dbFaults + 1
-----------------------------------------------------------------------------
(* The world *)

\* dealPoolV3Log gives a swap its time and sends it.
Deal ==
    /\ Len(dealt) < MaxSwaps
    /\ dealt' = Append(dealt, now)
    /\ UNCHANGED <<now, volumes, pc, count, stat, cached, dbFaults, asked>>

\* Time passes.  The ticker of ten seconds, the pools counted before this one and
\* their statements are done Jitter after midnight.
Tick ==
    /\ now < MaxNow
    /\ now = Midnight(Day(now)) + Jitter => preDay = Day(now) /\ pc[Counter] = "idle"
    /\ now' = now + 1
    /\ UNCHANGED <<dealt, volumes, pc, count, stat, cached, dbFaults, asked>>
-----------------------------------------------------------------------------
(* get24HVolume, called by append, by the handlers and by the counter *)

OldUnbounded == first <= Len(dealt) /\ dealt[first] < before
Old == first <= last /\ dealt[first] < before

\* The consumer has a swap to append, a request came in, or the counter noticed a day.
Calls(p) ==
    \/ p = Consumer /\ pc[p] = "idle" /\ last < Len(dealt)
    \/ p \in Clients /\ pc[p] = "idle"
    \/ p = Counter /\ pc[p] = "lock"

\* Once the lock is held the cut-off is computed.
Lock(p) ==
    /\ Calls(p) /\ mu = Free
    /\ mu' = p /\ before' = now - Window
    /\ Goto(p, "evict")
    /\ asked' = IF p \in Clients
                THEN [asked EXCEPT ![p] = [before |-> now - Window, last |-> last]]
                ELSE asked
    /\ counted' = IF p = Counter THEN Append(counted, [day |-> preDay - 1, last |-> last])
                                 ELSE counted
    /\ UNCHANGED <<clock, first, last, sum, preDay, week, day1, stat, cached, dbFaults>>

\* An old entry leaves: from the first sum, then from the second and the queue.
SubFirst(p) ==
    /\ pc[p] = "evict" /\ Old
    /\ sum' = [sum EXCEPT ![0] = @ \ {first}]
    /\ Goto(p, "sub")
    /\ UNCHANGED <<clock, first, last, mu, before, count, stat, cached, dbFaults, asked>>

SubSecondForgets(p) ==
    /\ pc[p] = "sub"
    /\ sum' = sum /\ first' = first + 1
    /\ Goto(p, "evict")
    /\ UNCHANGED <<clock, last, mu, before, count, stat, cached, dbFaults, asked>>
SubSecond(p) ==
    /\ pc[p] = "sub"
    /\ sum' = [sum EXCEPT ![1] = @ \ {first}]
    /\ first' = first + 1
    /\ Goto(p, "evict")
    /\ UNCHANGED <<clock, last, mu, before, count, stat, cached, dbFaults, asked>>

\* The first young entry ends the loop; the pointers are returned.
AfterEvict(p) == IF p = Consumer THEN "append" ELSE IF p = Counter THEN "query" ELSE "read"
UnlockEarly(p) ==
    /\ pc[p] = "evict"
    /\ mu' = Free /\ before' = 0
    /\ Goto(p, AfterEvict(p))
    /\ UNCHANGED <<clock, first, last, sum, count, stat, cached, dbFaults, asked>>
Unlock(p) ==
    /\ pc[p] = "evict" /\ ~Old
    /\ mu' = Free /\ before' = 0
    /\ Goto(p, AfterEvict(p))
    /\ UNCHANGED <<clock, first, last, sum, count, stat, cached, dbFaults, asked>>

\* A goroutine is in the middle of changing the sum of side k.
Writing(k) ==
    \E p \in Procs :
        \/ k = 0 /\ (pc[p] = "add0" \/ (pc[p] = "evict" /\ Old))
        \/ k = 1 /\ pc[p] \in {"add1", "sub"}

\* What a goroutine without the lock may read.  It reads one sum after the other; no
\* property relates the two, so the reads are one step.
Readings ==
    {r \in [Sides -> {sum[k] : k \in Sides} \cup {Torn}] :
        \A k \in Sides : r[k] = sum[k] \/ (r[k] = Torn /\ Writing(k))}
-----------------------------------------------------------------------------
(* The consumer: Volumes.append *)

\* The second lock of append.
LockAgain ==
    /\ pc[Consumer] = "append" /\ mu = Free
    /\ mu' = Consumer
    /\ Goto(Consumer, "add0")
    /\ UNCHANGED <<clock, first, last, sum, before, count, stat, cached, dbFaults, asked>>

AddFirst ==
    /\ pc[Consumer] = "add0"
    /\ last' = last + 1
    /\ sum' = [sum EXCEPT ![0] = @ \cup {last + 1}]
    /\ Goto(Consumer, "add1")
    /\ UNCHANGED <<clock, first, mu, before, count, stat, cached, dbFaults, asked>>

AddSecond ==
    /\ pc[Consumer] = "add1"
    /\ sum' = [sum EXCEPT ![1] = @ \cup {last}]
    /\ mu' = Free
    /\ Goto(Consumer, "idle")
    /\ UNCHANGED <<clock, first, last, before, count, stat, cached, dbFaults, asked>>
-----------------------------------------------------------------------------
(* The counter: countVolumes *)

\* The ticker fires on another day than before.
NoticeDay ==
    /\ pc[Counter] = "idle" /\ preDay # Day(now)
    /\ preDay' = Day(now)
    /\ Goto(Counter, "lock")
    /\ UNCHANGED <<clock, volumes, week, day1, counted, stat, cached, dbFaults, asked>>

\* GetNDaysVolumes: the daily volumes of the rows since the given day.
GetNDaysVolumes(since, k) ==
    {<<stat[i].day, stat[i].v1[k]>> : i \in {j \in DOMAIN stat : stat[j].day >= since}}

\* The days before, to which the day that ended is added; the pool is passed over
\* when the query fails.  Only the counter writes rows, so the query and the reading
\* of the sums are one step.
WeekFrom(since) ==
    \E r \in Readings :
        week' = [k \in Sides |-> GetNDaysVolumes(since, k) \cup {<<preDay - 1, r[k]>>}]

CountWeekMore ==
    /\ pc[Counter] = "query"
    /\ WeekFrom(preDay - WeekDays - 1)
    /\ Goto(Counter, "day")
    /\ UNCHANGED <<clock, volumes, preDay, day1, counted, stat, cached, dbFaults, asked>>
CountWeek ==
    /\ pc[Counter] = "query"
    /\ \/ /\ WeekFrom(preDay - WeekDays)
          /\ Goto(Counter, "day")
          /\ UNCHANGED dbFaults
       \/ /\ DbFault
          /\ Goto(Counter, "idle")
          /\ UNCHANGED week
    /\ UNCHANGED <<clock, volumes, preDay, day1, counted, stat, cached, asked>>

\* The strings of the one day volume are made from the same pointers.
CountDay ==
    /\ pc[Counter] = "day"
    /\ day1' \in Readings
    /\ Goto(Counter, "store")
    /\ UNCHANGED <<clock, volumes, preDay, week, counted, stat, cached, dbFaults, asked>>

\* StorePoolStatistic for the day that ended; the key is unique, a failure is logged.
StorePoolStatistic(r) ==
    stat' = IF \E i \in DOMAIN stat : stat[i].day = r.day THEN stat ELSE Append(stat, r)

CountStoreToday ==
    /\ pc[Counter] = "store"
    /\ StorePoolStatistic(Row(preDay, day1, week))
    /\ week' = NoVolume /\ day1' = NoVolume
    /\ Goto(Counter, "idle")
    /\ UNCHANGED <<clock, volumes, preDay, counted, cached, dbFaults, asked>>
CountStore ==
    /\ pc[Counter] = "store"
    /\ \/ StorePoolStatistic(Row(preDay - 1, day1, week)) /\ UNCHANGED dbFaults
       \/ DbFault /\ UNCHANGED stat
    /\ week' = NoVolume /\ day1' = NoVolume
    /\ Goto(Counter, "idle")
    /\ UNCHANGED <<clock, volumes, preDay, counted, cached, asked>>

Count == NoticeDay \/ CountWeek \/ CountDay \/ CountStore
-----------------------------------------------------------------------------
(* A handler of the overview: it shows the volume of the last 24 hours, and the *)
(* stored days.  Nothing goes from one to the other, so a request is for either. *)

\* The strings of the response are made of some r \in Readings, long after the lock
\* was released.
Reply(c) ==
    /\ pc[c] = "read"
    /\ Goto(c, "idle")
    /\ asked' = [asked EXCEPT ![c] = Nothing]
    /\ UNCHANGED <<clock, volumes, count, stat, cached, dbFaults>>

\* StatPoolVolumes: the day is computed before the lock is taken.
StatDay(c) ==
    /\ pc[c] = "idle"
    /\ day' = [day EXCEPT ![c] = Day(now)]
    /\ Goto(c, "cache")
    /\ UNCHANGED <<clock, volumes, count, stat, cache, filled, dbFaults, asked>>

StatDone(c) ==
    /\ Goto(c, "idle")
    /\ day' = [day EXCEPT ![c] = 0]

\* The cached rows are good when the last of them is that of yesterday.
HitAny(c) == cache # <<>>
Hit(c) == cache # <<>> /\ Last(cache).day = day[c] - 1

\* GetPoolStatistic: the rows after a day.  The table is in the order of its key, so
\* they are the rows from the first of them.
GetPoolStatistic(since) ==
    LET young == {i \in DOMAIN stat : stat[i].day > since}
    IN  IF young = {} THEN <<>> ELSE SubSeq(stat, Min(young), Len(stat))

\* Under the lock, so in one step: the cached rows, or those of the table, which are
\* kept; a failed query is an error for the client and leaves the cache as it is.
StatPoolVolumes(c) ==
    /\ pc[c] = "cache"
    /\ \/ Hit(c) /\ UNCHANGED <<cache, filled, dbFaults>>
       \/ /\ ~Hit(c)
          /\ cache' = GetPoolStatistic(day[c] - StatDays) /\ filled' = day[c]
          /\ UNCHANGED dbFaults
       \/ ~Hit(c) /\ DbFault /\ UNCHANGED <<cache, filled>>
    /\ StatDone(c)
    /\ UNCHANGED <<clock, volumes, count, stat, asked>>

Handle(c) == Reply(c) \/ StatDay(c) \/ StatPoolVolumes(c)

Next ==
    \/ Deal \/ Tick
    \/ \E p \in Procs : Lock(p) \/ SubFirst(p) \/ SubSecond(p) \/ Unlock(p)
    \/ LockAgain \/ AddFirst \/ AddSecond
    \/ Count
    \/ \E c \in Clients : Handle(c)

Spec == Init /\ [][Next]_vars
-----------------------------------------------------------------------------
(* Properties *)

Labels == {"idle", "lock", "evict", "sub", "append", "add0", "add1", "query", "day",
           "store", "cache", "read"}
IsAmount(v) == v = Torn \/ v \subseteq Nat

TypeOK ==
    /\ now \in Nat /\ dealt \in Seq(Nat)
    /\ first \in Nat \ {0} /\ last \in 0..Len(dealt) /\ first <= last + 1
    /\ DOMAIN sum = Sides /\ \A k \in Sides : sum[k] \subseteq Nat
    /\ mu \in Procs \cup {Free} /\ before \in Int
    /\ pc \in [Procs -> Labels]
    /\ preDay \in Nat /\ \A k \in Sides : IsAmount(day1[k])
    /\ \A k \in Sides : \A v \in week[k] : v[1] \in Int /\ IsAmount(v[2])
    /\ \A i \in DOMAIN stat : /\ stat[i].day \in Int
                              /\ \A k \in Sides : IsAmount(stat[i].v1[k])
                              /\ i < Len(stat) => stat[i].day < stat[i + 1].day
    /\ dbFaults \in 0..MaxDbFaults

\* Whenever nobody holds the lock, both sums are those of the entries in the queue,
\* whoever evicts and however often append is interrupted between its two locks
\* (Volumes.append, get24HVolume).
SumIsWindow == mu = Free => \A k \in Sides : sum[k] = first..last

\* A volume shown counts no swap that was older than a day when the request was
\* made and, of the swaps known by then, every one that is younger than a day when
\* the response is made, though the sums are read long after the lock was released
\* (OverviewPools).  Unless the read overlaps a write.
ReportIsWindow ==
    \A c \in Clients : pc[c] = "read" => \A r \in Readings, k \in Sides : r[k] # Torn =>
        \A s \in 1..asked[c].last :
            /\ s \in r[k] => dealt[s] >= asked[c].before
            /\ dealt[s] >= now - Window => s \in r[k]

\* The day of a swap that is not within Jitter of its beginning.
Within(s, d) == Midnight(d) + Jitter < dealt[s] /\ dealt[s] < Midnight(d + 1)

\* A swap that was known when its day was counted is in the volume of that day and
\* in that of no other day, although the windows of two days are a day long only up
\* to the time the counter takes and swaps come in while it reads (countVolumes).
CountedOnce ==
    \A i \in DOMAIN stat, k \in Sides, s \in DOMAIN dealt :
        stat[i].v1[k] # Torn =>
            \A n \in DOMAIN counted :
                s <= counted[n].last /\ Within(s, counted[n].day) =>
                    (s \in stat[i].v1[k] <=> stat[i].day = counted[n].day)

\* The weekly volume of a row is made of the daily volumes stored for the days
\* before it, no day too many and none left out, and of the day that ended.  That
\* last part and the daily volume of the same row are two reads: they differ
\* only in swaps that came in, or became a day old, while the counter was at work.
WeekOfDays ==
    \A i \in DOMAIN stat, k \in Sides : stat[i].day >= 0 =>
        LET d == stat[i].day
            v7 == stat[i].v7[k]
            v1 == stat[i].v1[k]
        IN  /\ {v \in v7 : v[1] # d} =
                  {<<stat[j].day, stat[j].v1[k]>> :
                      j \in {n \in 1..(i - 1) : stat[n].day > d - WeekDays}}
            /\ \E v \in v7 : v[1] = d
            /\ \A v \in v7, n \in DOMAIN counted :
                  v[1] = d /\ counted[n].day = d /\ v[2] # Torn /\ v1 # Torn =>
                      \A s \in 1..counted[n].last :
                          dealt[s] >= Midnight(d) + Jitter => (s \in v[2] <=> s \in v1)

\* The two columns of the statistics, the day and the week, are those of the swaps
\* (countVolumes).
DaysCounted == CountedOnce /\ WeekOfDays

\* The cached rows a request gets include all stored rows of the days it shows; a
\* request that computed its day before midnight and finds the cache filled by one of
\* the next day gets the days of that one (StatPoolVolumes).
AnswerComplete ==
    \A c \in Clients : pc[c] = "cache" /\ Hit(c) =>
        \A i \in DOMAIN stat :
            Max({day[c], filled}) - StatDays < stat[i].day /\ stat[i].day < day[c]
                => Contains(cache, stat[i])
=============================================================================
