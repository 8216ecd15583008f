-------------------------- MODULE PoolServiceProof --------------------------
(***************************************************************************)
(* Proofs about the statistics service, for every group of pools, channel  *)
(* capacity, lookback, length of a day, time zone and bound.               *)
(***************************************************************************)
EXTENDS PoolService, WellFoundedInduction, SequenceTheorems, TLAPS
-----------------------------------------------------------------------------
(* What the queues and tables of PoolMemory return, for every sequence *)

\* A non-empty set of positions has a first one.
LEMMA MinIn ==
    ASSUME NEW T \in SUBSET Nat, T # {}
    PROVE  Min(T) \in T /\ \A y \in T : Min(T) <= y
<1>1. IsWellFoundedOn(OpToRel(<, Nat), Nat)
  BY NatLessThanWellFounded
<1>2. PICK n \in T : \A m \in T : ~ (<<m, n>> \in OpToRel(<, Nat))
  BY <1>1, WFMin, Zenon
<1>3. \A m \in T : m < n => <<m, n>> \in OpToRel(<, Nat)
  BY DEF OpToRel
<1>4. \A m \in T : ~ (m < n)
  BY <1>2, <1>3, Zenon
<1>5. \A m \in T : n <= m
  BY <1>4
<1>6. QED
  BY <1>5 DEF Min

\* The suffix from the first position that satisfies a test, as a sequence: its
\* length and its elements.
LEMMA SuffixOfSeq ==
    ASSUME NEW S, NEW s \in Seq(S), NEW T \in SUBSET (DOMAIN s), T # {}
    PROVE  LET u == SubSeq(s, Min(T), Len(s)) IN
           /\ Min(T) \in 1..Len(s)
           /\ u \in Seq(S)
           /\ Len(u) = Len(s) - Min(T) + 1
           /\ \A i \in 1..Len(u) : u[i] = s[i + Min(T) - 1]
<1>1. DOMAIN s = 1..Len(s) /\ Len(s) \in Nat
  OBVIOUS
<1>2. Min(T) \in T
  BY <1>1, MinIn
<1>3. Min(T) \in 1..Len(s)
  BY <1>1, <1>2
<1>4. QED
  BY <1>1, <1>3

\* get24HVolume keeps a suffix of the queue.
LEMMA EvictSuffix ==
    ASSUME NEW data \in Seq(Volume), NEW t \in Int
    PROVE  /\ Evict(data, t) \in Seq(Volume)
           /\ Len(Evict(data, t)) <= Len(data)
           /\ \A i \in 1..Len(Evict(data, t)) :
                 Evict(data, t)[i] = data[i + Len(data) - Len(Evict(data, t))]
<1> DEFINE young == {i \in DOMAIN data : data[i].ts >= t - DayLen}
<1>1. CASE young = {}
  BY <1>1 DEF Evict
<1>2. CASE young # {}
  <2>1. young \in SUBSET (DOMAIN data)
    OBVIOUS
  <2>2. Evict(data, t) = SubSeq(data, Min(young), Len(data))
    BY <1>2 DEF Evict
  <2> HIDE DEF young
  <2>3. QED
    BY <1>2, <2>1, <2>2, SuffixOfSeq
<1>3. QED
  BY <1>1, <1>2

LEMMA AppendVolumeType ==
    ASSUME NEW data \in Seq(Volume), NEW t \in Int, NEW v \in Volume
    PROVE  AppendVolume(data, t, v) \in Seq(Volume)
BY EvictSuffix, AppendProperties DEF AppendVolume

LEMMA AppendAllType ==
    ASSUME NEW load \in Seq(Volume), NEW t \in Int
    PROVE  AppendAll(load, t) \in Seq(Volume)
<1>1. CASE load # <<>> /\ Evict(load, t) = <<>>
  <2>1. Last(load) \in Volume
    BY <1>1 DEF Last
  <2>2. QED
    BY <1>1, <2>1 DEF AppendAll
<1>2. CASE ~(load # <<>> /\ Evict(load, t) = <<>>)
  BY <1>2, EvictSuffix DEF AppendAll
<1>3. QED
  BY <1>1, <1>2

LEMMA Vol24HType ==
    ASSUME NEW data \in Seq(Volume)
    PROVE  Vol24H(data) \subseteq Nat
<1>1. \A i \in DOMAIN data : data[i] \in Volume
  OBVIOUS
<1>2. \A i \in DOMAIN data : data[i].ev \in Nat
  BY <1>1 DEF Volume
<1>3. QED
  BY <1>2 DEF Vol24H

\* The insert keeps what is in the table and leaves a row with the key.
LEMMA StorePoolVolumeStores ==
    ASSUME NEW table \in Seq(VolumeRow), NEW row \in VolumeRow
    PROVE  /\ StorePoolVolume(table, row) \in Seq(VolumeRow)
           /\ HasRow(StorePoolVolume(table, row), row.tx)
           /\ \A t : HasRow(table, t) => HasRow(StorePoolVolume(table, row), t)
<1>1. CASE HasRow(table, row.tx)
  BY <1>1 DEF StorePoolVolume
<1>2. CASE ~HasRow(table, row.tx)
  <2>1. StorePoolVolume(table, row) = Append(table, row)
    BY <1>2 DEF StorePoolVolume
  <2>2. /\ Append(table, row) \in Seq(VolumeRow)
        /\ DOMAIN Append(table, row) = 1..(Len(table) + 1)
        /\ \A i \in DOMAIN table : Append(table, row)[i] = table[i]
        /\ Append(table, row)[Len(table) + 1] = row
        /\ DOMAIN table = 1..Len(table) /\ Len(table) \in Nat
    BY AppendProperties
  <2>3. QED
    BY <2>1, <2>2 DEF HasRow
<1>3. QED
  BY <1>1, <1>2

LEMMA Get24hVolumesType ==
    ASSUME NEW table \in Seq(VolumeRow), NEW t \in Int
    PROVE  Get24hVolumes(table, t) \in Seq(Volume)
<1> DEFINE young == {i \in DOMAIN table : table[i].ts > t - DayLen}
           sel == IF young = {} THEN <<>> ELSE SubSeq(table, Min(young), Len(table))
<1>1. sel \in Seq(VolumeRow)
  <2>1. CASE young = {}
    BY <2>1
  <2>2. CASE young # {}
    <3>1. young \in SUBSET (DOMAIN table)
      OBVIOUS
    <3> HIDE DEF young
    <3>2. QED
      BY <2>2, <3>1, SuffixOfSeq
  <2>3. QED
    BY <2>1, <2>2
<1>2. Get24hVolumes(table, t) =
        [i \in DOMAIN sel |->
            [ev |-> sel[i].ev, vol |-> sel[i].vol, ts |-> sel[i].ts + Zone]]
  BY DEF Get24hVolumes
<1> HIDE DEF sel
<1>3. /\ DOMAIN sel = 1..Len(sel) /\ Len(sel) \in Nat
      /\ \A i \in DOMAIN sel : sel[i] \in VolumeRow
  BY <1>1
<1>4. \A i \in DOMAIN sel :
        [ev |-> sel[i].ev, vol |-> sel[i].vol, ts |-> sel[i].ts + Zone] \in Volume
  BY <1>3, MemoryAssumption DEF VolumeRow, Volume
<1>5. QED
  BY <1>2, <1>3, <1>4

LEMMA GetLatestReservesType ==
    ASSUME NEW table \in Seq(VolumeRow)
    PROVE  GetLatestReserves(table) \in [res : ReservesOf, tick : Nat]
<1>1. table # <<>> => Last(table) \in VolumeRow
  BY DEF Last
<1>2. QED
  BY <1>1 DEF GetLatestReserves, NewReserves, ZeroReserves, ReservesOf, DefaultTick, VolumeRow

\* The insert keeps what is in the table and makes the day counted.
LEMMA StorePoolStatisticCounts ==
    ASSUME NEW table \in Seq(StatRow), NEW row \in StatRow
    PROVE  /\ StorePoolStatistic(table, row) \in Seq(StatRow)
           /\ Counted(StorePoolStatistic(table, row), row.day)
           /\ \A d : Counted(table, d) => Counted(StorePoolStatistic(table, row), d)
<1>1. CASE Counted(table, row.day)
  BY <1>1 DEF StorePoolStatistic
<1>2. CASE ~Counted(table, row.day)
  <2>1. StorePoolStatistic(table, row) = Append(table, row)
    BY <1>2 DEF StorePoolStatistic
  <2>2. /\ Append(table, row) \in Seq(StatRow)
        /\ DOMAIN Append(table, row) = 1..(Len(table) + 1)
        /\ \A i \in DOMAIN table : Append(table, row)[i] = table[i]
        /\ Append(table, row)[Len(table) + 1] = row
        /\ DOMAIN table = 1..Len(table) /\ Len(table) \in Nat
    BY AppendProperties
  <2>3. QED
    BY <2>1, <2>2 DEF Counted
<1>3. QED
  BY <1>1, <1>2

LEMMA GetNDaysVolumesType ==
    ASSUME NEW table \in Seq(StatRow), NEW d \in Int
    PROVE  GetNDaysVolumes(table, d) \subseteq Nat
<1>1. \A i \in DOMAIN table : table[i] \in StatRow
  OBVIOUS
<1>2. \A i \in DOMAIN table : table[i].v1 \subseteq Nat
  BY <1>1 DEF StatRow
<1>3. QED
  BY <1>2 DEF GetNDaysVolumes

LEMMA GetLatestUtc0ReservesType ==
    ASSUME NEW table \in Seq(StatRow)
    PROVE  GetLatestUtc0Reserves(table) \in [day : Int, res : ReservesOf, tick : Nat]
<1>1. table # <<>> => Last(table) \in StatRow
  BY DEF Last
<1>2. QED
  BY <1>1 DEF GetLatestUtc0Reserves, ZeroReserves, ReservesOf, DefaultTick, StatRow
-----------------------------------------------------------------------------
(* The clock *)

\* No time is longer than one step of the clock.
LEMMA DayStep ==
    ASSUME NEW t \in Nat
    PROVE  Day(t) \in Nat /\ Day(t + 1) \in {Day(t), Day(t) + 1}
BY MemoryAssumption DEF Day
-----------------------------------------------------------------------------
(* Type correctness *)

LEMMA PoolStatType ==
    ASSUME WorldTypeOK, NEW e \in DOMAIN chain, NEW r0 \in BOOLEAN, NEW r1 \in BOOLEAN
    PROVE  PoolStat(e, r0, r1) \in Messages
<1>1. chain[e] \in Events /\ e \in Nat
  BY DEF WorldTypeOK
<1>2. now \in Nat
  BY DEF WorldTypeOK
<1>3. chain[e].pool \in Pools
  BY <1>1 DEF Events
<1>4. chain[e].tx \in Nat
  BY <1>1 DEF Events
<1>5. QED
  BY <1>1, <1>2, <1>3, <1>4 DEF PoolStat, Messages

\* The head of the chain, and where a run starts: at the first event that is not too old.
LEMMA HeadType ==
    ASSUME WorldTypeOK
    PROVE  /\ Len(chain) \in Nat /\ DOMAIN chain = 1..Len(chain)
           /\ LastTx \in Nat /\ ChainHead \in Nat
           /\ \A e \in DOMAIN chain : Height(e) \in Nat
<1>1. chain \in Seq(Events) /\ InitHeight \in Nat
  BY ServiceAssumption DEF WorldTypeOK
<1>2. \A e \in DOMAIN chain : chain[e] \in Events
  BY <1>1
<1>3. \A e \in DOMAIN chain : chain[e].tx \in Nat
  BY <1>2 DEF Events
<1>4. chain # <<>> => Last(chain) = chain[Len(chain)] /\ Len(chain) \in DOMAIN chain
  BY <1>1 DEF Last
<1>5. LastTx \in Nat
  BY <1>3, <1>4 DEF LastTx
<1>6. QED
  BY <1>1, <1>3, <1>5 DEF ChainHead, Height

LEMMA StartsAt ==
    ASSUME WorldTypeOK
    PROVE  /\ StartFrom \in Nat \ {0}
           /\ ChainHead < Lookback => StartFrom = BeyondChain
           /\ ~(ChainHead < Lookback) =>
                 /\ StartFrom <= Len(chain) + 1
                 /\ \A e \in DOMAIN chain : Height(e) >= ChainHead - Lookback => StartFrom <= e
                 /\ \/ StartFrom = Len(chain) + 1
                    \/ StartFrom \in DOMAIN chain /\ Height(StartFrom) >= ChainHead - Lookback
<1> DEFINE T == {Len(chain) + 1}
                   \cup {e \in DOMAIN chain : Height(e) >= ChainHead - Lookback}
<1>1. /\ Len(chain) \in Nat /\ DOMAIN chain = 1..Len(chain) /\ MaxEvents \in Nat
      /\ ChainHead \in Nat /\ Lookback \in Nat
  BY HeadType, ServiceAssumption
<1>2. T \in SUBSET (Nat \ {0}) /\ Len(chain) + 1 \in T
  BY <1>1
<1>3. StartFrom = IF ChainHead < Lookback THEN MaxEvents + 1 ELSE Min(T)
  BY DEF StartFrom, BeyondChain
<1>4. \A e : e \in T <=> \/ e = Len(chain) + 1
                         \/ e \in DOMAIN chain /\ Height(e) >= ChainHead - Lookback
  OBVIOUS
<1> HIDE DEF T
<1>5. T \in SUBSET Nat /\ T # {}
  BY <1>2
<1>6. Min(T) \in T /\ \A y \in T : Min(T) <= y
  BY <1>5, MinIn
<1>7. CASE ChainHead < Lookback
  BY <1>1, <1>3, <1>7 DEF BeyondChain
<1>8. CASE ~(ChainHead < Lookback)
  BY <1>2, <1>3, <1>4, <1>6, <1>8
<1>9. QED
  BY <1>7, <1>8

LEMMA InitTypeOK == Init => TypeOK
<1> SUFFICES ASSUME Init PROVE TypeOK
  OBVIOUS
<1>1. WorldTypeOK
  <2>1. chain \in Seq(Events)
    BY EmptySeq DEF Init
  <2>2. up \in BOOLEAN
    BY DEF Init
  <2>3. /\ now \in Nat /\ crashes \in 0..MaxCrashes
        /\ rpcFaults \in 0..MaxRpcFaults /\ dbFaults \in 0..MaxDbFaults
    BY ServiceAssumption DEF Init
  <2>4. QED
    BY <2>1, <2>2, <2>3 DEF WorldTypeOK
<1>2. PipeTypeOK
  <2>1. BeyondChain \in Nat \ {0}
    BY ServiceAssumption DEF BeyondChain
  <2>2. QED
    BY <2>1 DEF Init, PipeTypeOK, ReservesOf, ZeroReserves
<1>3. MemoryTypeOK
  BY DEF Init, MemoryTypeOK, NewReserves, GetLatestUtc0Reserves, ReservesOf,
         ZeroReserves, DefaultTick
<1>4. CountTypeOK
  BY DEF Init, CountTypeOK, NoCount
<1>5. TableTypeOK
  BY DEF Init, TableTypeOK
<1>6. QED
  BY <1>1, <1>2, <1>3, <1>4, <1>5 DEF TypeOK

LEMMA StartTypeOK == TypeOK /\ Start => TypeOK'
<1> SUFFICES ASSUME TypeOK, Start PROVE TypeOK'
  OBVIOUS
<1> USE DEF TypeOK
<1>1. now \in Nat /\ Day(now) \in Nat
  <2>1. now \in Nat
    BY DEF WorldTypeOK
  <2>2. QED
    BY <2>1, DayStep
<1>2. StartFrom \in Nat \ {0} /\ ChainHead \in Nat
  BY StartsAt, HeadType
<1>3. WorldTypeOK'
  BY DEF Start, WorldTypeOK, chainVars
<1>4. PipeTypeOK'
  BY <1>2 DEF Start, PipeTypeOK, ReservesOf, ZeroReserves
<1>5. /\ curr' \in [Pools -> [res : ReservesOf, tick : Nat]]
      /\ utc0' \in [Pools -> [day : Int, res : ReservesOf, tick : Nat]]
  BY GetLatestReservesType, GetLatestUtc0ReservesType DEF Start, TableTypeOK
<1>6. win' \in [Pools -> Seq(Volume)]
  BY <1>1, Get24hVolumesType, AppendAllType DEF Start, TableTypeOK
<1>7. loaded' \subseteq Nat
  <2>1. loaded' = UNION {{win'[p][i].ev : i \in DOMAIN win'[p]} : p \in Pools}
    BY DEF Start
  <2>2. \A p \in Pools : \A i \in DOMAIN win'[p] : win'[p][i] \in Volume
    BY <1>6
  <2>3. \A p \in Pools : \A i \in DOMAIN win'[p] : win'[p][i].ev \in Nat
    BY <2>2 DEF Volume
  <2>4. QED
    BY <2>1, <2>3
<1>8. MemoryTypeOK'
  BY <1>5, <1>6, <1>7 DEF MemoryTypeOK
<1>9. CountTypeOK'
  BY <1>1 DEF Start, CountTypeOK, NoCount
<1>10. TableTypeOK'
  BY DEF Start, TableTypeOK, dbVars
<1>11. QED
  BY <1>3, <1>4, <1>8, <1>9, <1>10

LEMMA DealLogTypeOK == TypeOK /\ DealLog => TypeOK'
<1> SUFFICES ASSUME TypeOK, DealLog PROVE TypeOK'
  OBVIOUS
<1> USE DEF TypeOK
<1>1. PICK r0 \in BOOLEAN, r1 \in BOOLEAN :
        /\ (r0 /\ r1) \/ rpcFaults < MaxRpcFaults
        /\ rpcFaults' = IF r0 /\ r1 THEN rpcFaults ELSE rpcFaults + 1
        /\ ch' = Append(ch, PoolStat(next, r0, r1))
  BY DEF DealLog
<1>2. next \in DOMAIN chain
  BY DEF DealLog, PipeTypeOK, WorldTypeOK
<1>3. PoolStat(next, r0, r1) \in Messages
  BY <1>2, PoolStatType
<1>4. WorldTypeOK'
  BY <1>1, ServiceAssumption DEF DealLog, WorldTypeOK, chainVars
<1>5. PipeTypeOK'
  BY <1>1, <1>3, AppendProperties DEF DealLog, PipeTypeOK, dealVars, runVars
<1>6. MemoryTypeOK' /\ CountTypeOK' /\ TableTypeOK'
  BY DEF DealLog, MemoryTypeOK, CountTypeOK, TableTypeOK, memVars, countVars,
         dbVars, runVars
<1>7. QED
  BY <1>4, <1>5, <1>6

LEMMA ReceiveTypeOK == TypeOK /\ Receive => TypeOK'
<1> SUFFICES ASSUME TypeOK, Receive PROVE TypeOK'
  OBVIOUS
<1> USE DEF TypeOK
<1> DEFINE m == Head(ch)
           res == [of |-> m.pool, r0 |-> m.r0, r1 |-> m.r1]
<1>1. m \in Messages /\ ch' \in Seq(Messages)
  BY HeadTailProperties DEF Receive, PipeTypeOK
<1>2. res \in ReservesOf
  BY <1>1 DEF Messages, ReservesOf
<1>3. m.pool \in Pools /\ m.tick \in Nat
  BY <1>1 DEF Messages
<1>4. TickOf(m) \in Nat
  BY <1>3 DEF TickOf, MemoryTypeOK
<1>5. /\ msg' = [m EXCEPT !.tick = TickOf(m)]
      /\ pre' = IF m.r0 THEN res ELSE pre
      /\ curr' = IF m.r0 THEN [curr EXCEPT ![m.pool] = [res |-> res, tick |-> TickOf(m)]]
                         ELSE curr
      /\ utc0' = [utc0 EXCEPT ![m.pool] = OpenDay(@, curr'[m.pool])]
      /\ dpc' = IF m.vol = 0 THEN "store" ELSE "volume"
  BY DEF Receive
<1>6. msg' \in Messages
  BY <1>1, <1>4, <1>5 DEF Messages
<1>7. curr' \in [Pools -> [res : ReservesOf, tick : Nat]]
  BY <1>2, <1>3, <1>4, <1>5 DEF MemoryTypeOK
<1>8. Day(now) \in Int
  BY DayStep DEF WorldTypeOK
<1>9. OpenDay(utc0[m.pool], curr'[m.pool]) \in [day : Int, res : ReservesOf, tick : Nat]
  BY <1>3, <1>7, <1>8 DEF OpenDay, MemoryTypeOK
<1>10. WorldTypeOK'
  BY DEF Receive, WorldTypeOK, chainVars
<1>11. PipeTypeOK'
  BY <1>1, <1>2, <1>5, <1>6 DEF Receive, PipeTypeOK, runVars
<1>12. MemoryTypeOK'
  BY <1>3, <1>5, <1>7, <1>9 DEF Receive, MemoryTypeOK, runVars
<1>13. CountTypeOK' /\ TableTypeOK'
  BY DEF Receive, CountTypeOK, TableTypeOK, countVars, dbVars, runVars
<1>14. QED
  BY <1>10, <1>11, <1>12, <1>13

LEMMA AddVolumeTypeOK == TypeOK /\ AddVolume => TypeOK'
<1> SUFFICES ASSUME TypeOK, AddVolume PROVE TypeOK'
  OBVIOUS
<1> USE DEF TypeOK
<1>1. msg \in Messages /\ now \in Int
  BY DEF AddVolume, PipeTypeOK, WorldTypeOK
<1> DEFINE v == [ev |-> msg.ev, vol |-> msg.vol, ts |-> msg.ts]
<1>2. v \in Volume /\ msg.pool \in Pools
  BY <1>1 DEF Messages, Volume
<1>3. AppendVolume(win[msg.pool], now, v) \in Seq(Volume)
  BY <1>1, <1>2, AppendVolumeType DEF MemoryTypeOK
<1>4. MemoryTypeOK'
  BY <1>3 DEF AddVolume, MemoryTypeOK, runVars
<1>5. WorldTypeOK' /\ CountTypeOK' /\ TableTypeOK'
  BY DEF AddVolume, WorldTypeOK, CountTypeOK, TableTypeOK, chainVars, countVars,
         dbVars, runVars
<1>6. PipeTypeOK'
  BY <1>1 DEF AddVolume, PipeTypeOK, readVars, runVars
<1>7. QED
  BY <1>4, <1>5, <1>6

\* The row StoreVolume inserts.
LEMMA StoreVolumeRow ==
    ASSUME TypeOK, dpc = "store"
    PROVE  /\ msg.pool \in Pools /\ msg.ev \in Nat
           /\ [ev |-> msg.ev, tx |-> msg.tx, tick |-> msg.tick, res |-> pre,
               vol |-> msg.vol, ts |-> now] \in VolumeRow
BY DEF TypeOK, PipeTypeOK, WorldTypeOK, Messages, VolumeRow

LEMMA StoreVolumeTypeOK == TypeOK /\ StoreVolume => TypeOK'
<1> SUFFICES ASSUME TypeOK, StoreVolume PROVE TypeOK'
  OBVIOUS
<1>1. dpc = "store" /\ dpc' = "recv" /\ msg' = NoMsg
  BY DEF StoreVolume
<1>2. TableTypeOK'
  <2>1. CASE UNCHANGED rows
    BY <2>1 DEF StoreVolume, TypeOK, TableTypeOK
  <2>2. CASE rows' = [rows EXCEPT ![msg.pool] = StorePoolVolume(@,
                        [ev |-> msg.ev, tx |-> msg.tx, tick |-> msg.tick, res |-> pre,
                         vol |-> msg.vol, ts |-> now])]
    <3>1. rows[msg.pool] \in Seq(VolumeRow)
      BY <1>1, StoreVolumeRow DEF TypeOK, TableTypeOK
    <3>2. QED
      BY <1>1, <2>2, <3>1, StoreVolumeRow, StorePoolVolumeStores
      DEF StoreVolume, TypeOK, TableTypeOK
  <2>3. QED
    BY <2>1, <2>2 DEF StoreVolume
<1>3. WorldTypeOK'
  BY ServiceAssumption DEF StoreVolume, DbFault, TypeOK, WorldTypeOK, chainVars
<1>4. PipeTypeOK'
  BY <1>1, StoreVolumeRow DEF StoreVolume, TypeOK, PipeTypeOK, readVars, runVars
<1>5. MemoryTypeOK' /\ CountTypeOK'
  BY DEF StoreVolume, TypeOK, MemoryTypeOK, CountTypeOK, memVars, countVars, runVars
<1>6. QED
  BY <1>2, <1>3, <1>4, <1>5 DEF TypeOK

LEMMA CountReadTypeOK == TypeOK /\ CountRead => TypeOK'
<1> SUFFICES ASSUME TypeOK, CountRead PROVE TypeOK'
  OBVIOUS
<1> USE DEF TypeOK
<1>1. PICK p \in todo :
        /\ win' = [win EXCEPT ![p] = Evict(@, now)]
        /\ todo' = todo \ {p}
        /\ \/ /\ cnt' = [pool |-> p, v7 |-> GetNDaysVolumes(stat[p], preDay - 7)
                                             \cup Vol24H(win'[p])]
              /\ UNCHANGED <<dbFaults, statLost>>
           \/ /\ DbFault
              /\ statLost' = statLost \cup {<<p, preDay - 1>>}
              /\ UNCHANGED cnt
  BY DEF CountRead
<1>2. p \in Pools /\ now \in Int /\ preDay \in Nat
  BY DEF CountTypeOK, WorldTypeOK
<1>3. win' \in [Pools -> Seq(Volume)]
  BY <1>1, <1>2, EvictSuffix DEF MemoryTypeOK
<1>4. GetNDaysVolumes(stat[p], preDay - 7) \subseteq Nat
  BY <1>2, GetNDaysVolumesType DEF TableTypeOK
<1>5. Vol24H(win'[p]) \subseteq Nat
  BY <1>2, <1>3, Vol24HType
<1>6. WorldTypeOK'
  BY <1>1, ServiceAssumption DEF CountRead, DbFault, WorldTypeOK, chainVars
<1>7. CountTypeOK'
  BY <1>1, <1>2, <1>4, <1>5 DEF CountRead, CountTypeOK, runVars
<1>8. MemoryTypeOK'
  BY <1>3 DEF CountRead, MemoryTypeOK, runVars
<1>9. PipeTypeOK' /\ TableTypeOK'
  BY DEF CountRead, PipeTypeOK, TableTypeOK, readVars, dealVars, dbVars, runVars
<1>10. QED
  BY <1>6, <1>7, <1>8, <1>9

\* The row CountStore inserts.
LEMMA CountStoreRow ==
    ASSUME TypeOK, cnt # NoCount
    PROVE  /\ cnt.pool \in Pools
           /\ [day |-> preDay - 1, res |-> curr[cnt.pool].res, tick |-> curr[cnt.pool].tick,
               v1 |-> Vol24H(win[cnt.pool]), v7 |-> cnt.v7] \in StatRow
<1> USE DEF TypeOK
<1>0. cnt.pool \in Pools
  BY DEF CountTypeOK
<1>1. Vol24H(win[cnt.pool]) \in SUBSET Nat
  BY <1>0, Vol24HType DEF MemoryTypeOK
<1>2. curr[cnt.pool].res \in ReservesOf /\ curr[cnt.pool].tick \in Nat
  BY <1>0 DEF MemoryTypeOK
<1>3. preDay - 1 \in Int /\ cnt.v7 \in SUBSET Nat
  BY DEF CountTypeOK
<1>4. QED
  BY <1>0, <1>1, <1>2, <1>3 DEF StatRow

LEMMA CountStoreTypeOK == TypeOK /\ CountStore => TypeOK'
<1> SUFFICES ASSUME TypeOK, CountStore PROVE TypeOK'
  OBVIOUS
<1> DEFINE p == cnt.pool
           row == [day |-> preDay - 1, res |-> curr[p].res, tick |-> curr[p].tick,
                   v1 |-> Vol24H(win[p]), v7 |-> cnt.v7]
<1>1. p \in Pools /\ row \in StatRow
  BY CountStoreRow DEF CountStore
<1>2. /\ \/ /\ stat' = [stat EXCEPT ![p] = StorePoolStatistic(@, row)]
            /\ UNCHANGED <<dbFaults, statLost>>
         \/ /\ DbFault
            /\ statLost' = statLost \cup {<<p, preDay - 1>>}
            /\ UNCHANGED stat
      /\ cnt' = NoCount
  BY DEF CountStore
<1> HIDE DEF row
<1> USE DEF TypeOK
<1>3. TableTypeOK'
  <2>1. StorePoolStatistic(stat[p], row) \in Seq(StatRow)
    BY <1>1, StorePoolStatisticCounts DEF TableTypeOK
  <2>2. QED
    BY <1>1, <1>2, <2>1 DEF CountStore, TableTypeOK
<1>4. WorldTypeOK'
  BY <1>2, ServiceAssumption DEF CountStore, DbFault, WorldTypeOK, chainVars
<1>5. CountTypeOK'
  BY <1>1, <1>2 DEF CountStore, CountTypeOK, runVars
<1>6. PipeTypeOK' /\ MemoryTypeOK'
  BY DEF CountStore, PipeTypeOK, MemoryTypeOK, readVars, dealVars, memVars, runVars
<1>7. QED
  BY <1>3, <1>4, <1>5, <1>6

LEMMA NextTypeOK == TypeOK /\ [Next]_vars => TypeOK'
<1> SUFFICES ASSUME TypeOK, [Next]_vars PROVE TypeOK'
  OBVIOUS
<1> USE DEF TypeOK
<1>1. CASE Emit
  <2>1. PICK p \in Pools, k \in Kinds, t \in {LastTx, LastTx + 1} :
           chain' = Append(chain, [pool |-> p, kind |-> k, tx |-> t])
    BY <1>1 DEF Emit
  <2>2. [pool |-> p, kind |-> k, tx |-> t] \in Events
    BY HeadType, ServiceAssumption DEF Events
  <2>3. chain' \in Seq(Events)
    BY <2>1, <2>2, AppendProperties DEF WorldTypeOK
  <2>4. WorldTypeOK'
    BY <1>1, <2>3 DEF Emit, WorldTypeOK
  <2>5. QED
    BY <1>1, <2>4 DEF Emit, PipeTypeOK, MemoryTypeOK, CountTypeOK, TableTypeOK,
         readVars, dealVars, memVars, countVars, dbVars, runVars
<1>2. CASE Tick
  <2>1. WorldTypeOK'
    BY <1>2 DEF Tick, WorldTypeOK
  <2>2. PipeTypeOK' /\ MemoryTypeOK'
    BY <1>2 DEF Tick, PipeTypeOK, MemoryTypeOK, readVars, dealVars, memVars, runVars
  <2>3. CountTypeOK' /\ TableTypeOK'
    BY <1>2 DEF Tick, CountTypeOK, TableTypeOK, countVars, dbVars, runVars
  <2>4. QED
    BY <2>1, <2>2, <2>3
<1>3. CASE Start
  BY <1>3, StartTypeOK
<1>4. CASE Crash
  <2>1. WorldTypeOK'
    <3>1. up' \in BOOLEAN
      BY <1>4 DEF Crash
    <3>2. crashes' \in 0..MaxCrashes
      BY <1>4, ServiceAssumption DEF Crash, WorldTypeOK
    <3>3. UNCHANGED <<chain, now, rpcFaults, dbFaults>>
      BY <1>4 DEF Crash, chainVars
    <3>4. QED
      BY <3>1, <3>2, <3>3 DEF WorldTypeOK
  <2>2. PipeTypeOK' /\ MemoryTypeOK'
    BY <1>4 DEF Crash, PipeTypeOK, MemoryTypeOK, readVars, dealVars, memVars, runVars
  <2>3. CountTypeOK' /\ TableTypeOK'
    BY <1>4 DEF Crash, CountTypeOK, TableTypeOK, countVars, dbVars, runVars
  <2>4. QED
    BY <2>1, <2>2, <2>3
<1>5. CASE DealLog
  BY <1>5, DealLogTypeOK
<1>6. CASE Receive
  BY <1>6, ReceiveTypeOK
<1>7. CASE AddVolume
  BY <1>7, AddVolumeTypeOK
<1>8. CASE StoreVolume
  BY <1>8, StoreVolumeTypeOK
<1>9. CASE Overview
  <2>1. win' \in [Pools -> Seq(Volume)]
    BY <1>9, EvictSuffix DEF Overview, MemoryTypeOK, WorldTypeOK
  <2>2. QED
    BY <1>9, <2>1 DEF Overview, WorldTypeOK, PipeTypeOK, MemoryTypeOK, CountTypeOK,
         TableTypeOK, chainVars, readVars, dealVars, countVars, dbVars, runVars
<1>10. CASE NoticeDay
  <2>1. preDay' \in Nat /\ todo' \subseteq Pools
    BY <1>10, DayStep DEF NoticeDay, WorldTypeOK
  <2>2. QED
    BY <1>10, <2>1 DEF NoticeDay, WorldTypeOK, PipeTypeOK, MemoryTypeOK, CountTypeOK,
         TableTypeOK, chainVars, readVars, dealVars, memVars, dbVars, runVars
<1>11. CASE CountRead
  BY <1>11, CountReadTypeOK
<1>12. CASE CountStore
  BY <1>12, CountStoreTypeOK
<1>13. CASE UNCHANGED vars
  BY <1>13 DEF vars, WorldTypeOK, PipeTypeOK, MemoryTypeOK, CountTypeOK, TableTypeOK,
         chainVars, readVars, dealVars, memVars, countVars, dbVars, runVars
<1>14. QED
  BY <1>1, <1>2, <1>3, <1>4, <1>5, <1>6, <1>7, <1>8, <1>9, <1>10, <1>11, <1>12,
     <1>13 DEF Next

\* Every variable keeps its type: in particular the tables only hold rows of a
\* pool of the group, and the consumer holds a message exactly while it works.
THEOREM TypeCorrect == Spec => []TypeOK
BY InitTypeOK, NextTypeOK, PTL DEF Spec
-----------------------------------------------------------------------------
(* Days.  That the counter passes over no day needs that it is never more than *)
(* one day behind, and that the opening only moves forward needs that neither  *)
(* the tables nor the memory know of a day that has not begun.                 *)

DaysBegun ==
    /\ \A p \in Pools : \A i \in DOMAIN stat[p] : stat[p][i].day < Day(now)
    /\ up => /\ preDay <= Day(now) /\ Day(now) <= preDay + 1
             /\ \A p \in Pools : utc0[p].day <= Day(now)

LEMMA DaysFrame ==
    ASSUME DaysBegun, UNCHANGED <<now, up, preDay, utc0, stat>>
    PROVE  DaysBegun'
BY DEF DaysBegun

LEMMA TickDays == TypeOK /\ DaysBegun /\ Tick => DaysBegun'
<1> SUFFICES ASSUME TypeOK, DaysBegun, Tick PROVE DaysBegun'
  OBVIOUS
<1>1. /\ now' = now + 1
      /\ up /\ Day(now + 1) # Day(now) => preDay = Day(now)
      /\ UNCHANGED <<up, preDay, utc0, stat>>
  BY DEF Tick, memVars, countVars, dbVars
<1>2. Day(now) \in Nat /\ Day(now') \in {Day(now), Day(now) + 1}
  BY <1>1, DayStep DEF TypeOK, WorldTypeOK
<1>3. \A p \in Pools : utc0[p].day \in Int /\ \A i \in DOMAIN stat[p] : stat[p][i].day \in Int
  <2>1. \A p \in Pools : \A i \in DOMAIN stat[p] : stat[p][i] \in StatRow
    BY DEF TypeOK, TableTypeOK
  <2>2. QED
    BY <2>1 DEF TypeOK, MemoryTypeOK, StatRow
<1>4. preDay \in Nat
  BY DEF TypeOK, CountTypeOK
<1>5. QED
  BY <1>1, <1>2, <1>3, <1>4 DEF DaysBegun

LEMMA StartDays == TypeOK /\ DaysBegun /\ Start => DaysBegun'
<1> SUFFICES ASSUME TypeOK, DaysBegun, Start PROVE DaysBegun'
  OBVIOUS
<1>1. /\ now' = now /\ stat' = stat /\ preDay' = Day(now)
      /\ utc0' = [p \in Pools |-> GetLatestUtc0Reserves(stat[p])]
  BY DEF Start, chainVars, dbVars
<1>2. Day(now) \in Nat
  BY DayStep DEF TypeOK, WorldTypeOK
<1>3. ASSUME NEW p \in Pools PROVE utc0'[p].day <= Day(now)
  <2>1. stat[p] \in Seq(StatRow)
    BY DEF TypeOK, TableTypeOK
  <2>2. CASE stat[p] = <<>>
    BY <1>1, <1>2, <2>2 DEF GetLatestUtc0Reserves
  <2>3. CASE stat[p] # <<>>
    <3>1. Len(stat[p]) \in DOMAIN stat[p] /\ Last(stat[p]) \in StatRow
      BY <2>1, <2>3 DEF Last
    <3>2. Last(stat[p]).day < Day(now) /\ Last(stat[p]).day \in Int
      BY <3>1 DEF Last, DaysBegun, StatRow
    <3>3. utc0'[p].day = Last(stat[p]).day + 1
      BY <1>1, <2>3 DEF GetLatestUtc0Reserves
    <3>4. QED
      BY <1>2, <3>2, <3>3
  <2>4. QED
    BY <2>2, <2>3
<1>4. QED
  BY <1>1, <1>2, <1>3 DEF DaysBegun

\* The only step of a running process that changes the opening of a pool.
LEMMA ReceiveOpens ==
    ASSUME TypeOK, DaysBegun, Receive
    PROVE  \A p \in Pools : /\ utc0'[p].day <= Day(now)
                            /\ utc0'[p] # utc0[p] => utc0'[p].day > utc0[p].day
<1> DEFINE m == Head(ch)
<1>1. /\ utc0' = [utc0 EXCEPT ![m.pool] = OpenDay(@, curr'[m.pool])]
      /\ up /\ ch # <<>>
  BY DEF Receive
<1>2. m.pool \in Pools
  <2>1. m \in Messages
    BY <1>1, HeadTailProperties DEF TypeOK, PipeTypeOK
  <2>2. QED
    BY <2>1 DEF Messages
<1> HIDE DEF m
<1>3. Day(now) \in Nat
  BY DayStep DEF TypeOK, WorldTypeOK
<1>4. /\ utc0 \in [Pools -> [day : Int, res : ReservesOf, tick : Nat]]
      /\ \A p \in Pools : utc0[p].day <= Day(now)
  BY <1>1 DEF TypeOK, MemoryTypeOK, DaysBegun
<1>5. \/ utc0[m.pool].day = Day(now) /\ utc0'[m.pool] = utc0[m.pool]
      \/ utc0[m.pool].day < Day(now) /\ utc0'[m.pool].day = Day(now)
  <2>1. utc0'[m.pool] = OpenDay(utc0[m.pool], curr'[m.pool])
    BY <1>1, <1>2, <1>4
  <2>2. QED
    BY <1>2, <1>3, <1>4, <2>1 DEF OpenDay
<1>6. \A p \in Pools : p # m.pool => utc0'[p] = utc0[p]
  BY <1>1, <1>4
<1>7. QED
  BY <1>2, <1>3, <1>4, <1>5, <1>6

LEMMA CountStoreDays == TypeOK /\ DaysBegun /\ CountStore => DaysBegun'
<1> SUFFICES ASSUME TypeOK, DaysBegun, CountStore PROVE DaysBegun'
  OBVIOUS
<1> DEFINE p == cnt.pool
           row == [day |-> preDay - 1, res |-> curr[p].res, tick |-> curr[p].tick,
                   v1 |-> Vol24H(win[p]), v7 |-> cnt.v7]
<1>1. p \in Pools /\ row \in StatRow /\ row.day = preDay - 1
  BY CountStoreRow DEF CountStore
<1>2. /\ up
      /\ UNCHANGED <<now, up, preDay, utc0>>
      /\ stat' = stat \/ stat' = [stat EXCEPT ![p] = StorePoolStatistic(@, row)]
  BY DEF CountStore, chainVars, memVars
<1> HIDE DEF row
<1>3. preDay \in Nat /\ preDay <= Day(now) /\ Day(now) \in Nat
  BY <1>2, DayStep DEF TypeOK, CountTypeOK, WorldTypeOK, DaysBegun
<1>4. stat \in [Pools -> Seq(StatRow)] /\ stat[p] \in Seq(StatRow)
  BY <1>1 DEF TypeOK, TableTypeOK
<1>5. \A i \in DOMAIN StorePoolStatistic(stat[p], row) :
         \/ StorePoolStatistic(stat[p], row)[i] = row
         \/ i \in DOMAIN stat[p] /\ StorePoolStatistic(stat[p], row)[i] = stat[p][i]
  BY <1>1, <1>4, AppendProperties DEF StorePoolStatistic
<1>6. \A i \in DOMAIN StorePoolStatistic(stat[p], row) :
         StorePoolStatistic(stat[p], row)[i].day < Day(now)
  BY <1>1, <1>3, <1>5 DEF DaysBegun
<1>7. \A q \in Pools : \A i \in DOMAIN stat'[q] : stat'[q][i].day < Day(now)
  BY <1>1, <1>2, <1>4, <1>6 DEF DaysBegun
<1>8. QED
  BY <1>2, <1>7 DEF DaysBegun

LEMMA NextDays == TypeOK /\ DaysBegun /\ [Next]_vars => DaysBegun'
<1> SUFFICES ASSUME TypeOK, DaysBegun, [Next]_vars PROVE DaysBegun'
  OBVIOUS
<1> USE DEF chainVars, memVars, countVars, dbVars
<1>1. CASE Emit
  BY <1>1, DaysFrame DEF Emit
<1>2. CASE Tick
  BY <1>2, TickDays
<1>3. CASE Start
  BY <1>3, StartDays
<1>4. CASE Crash
  BY <1>4 DEF Crash, DaysBegun
<1>5. CASE DealLog
  BY <1>5, DaysFrame DEF DealLog
<1>6. CASE Receive
  BY <1>6, ReceiveOpens DEF Receive, DaysBegun
<1>7. CASE AddVolume
  BY <1>7, DaysFrame DEF AddVolume
<1>8. CASE StoreVolume
  BY <1>8, DaysFrame DEF StoreVolume
<1>9. CASE Overview
  BY <1>9, DaysFrame DEF Overview
<1>10. CASE NoticeDay
  <2>1. Day(now) \in Nat
    BY DayStep DEF TypeOK, WorldTypeOK
  <2>2. UNCHANGED <<now, up, utc0, stat>> /\ preDay' = Day(now)
    BY <1>10 DEF NoticeDay
  <2>3. QED
    BY <2>1, <2>2 DEF DaysBegun
<1>11. CASE CountRead
  BY <1>11, DaysFrame DEF CountRead
<1>12. CASE CountStore
  BY <1>12, CountStoreDays
<1>13. CASE UNCHANGED vars
  BY <1>13, DaysFrame DEF vars
<1>14. QED
  BY <1>1, <1>2, <1>3, <1>4, <1>5, <1>6, <1>7, <1>8, <1>9, <1>10, <1>11, <1>12,
     <1>13 DEF Next

LEMMA DaysInvariant == Spec => []DaysBegun
<1>1. Init => DaysBegun
  BY DEF Init, DaysBegun
<1>2. QED
  BY <1>1, TypeCorrect, NextDays, PTL DEF Spec

\* The reserves of UTC 0 of a pool change at most once a day while the process
\* runs, to those of a later day (dealTickV3).
THEOREM OpeningMovesForward == Spec => OpeningOncePerDay
<1> DEFINE Forward == up /\ up' => \A p \in Pools :
                         utc0'[p] # utc0[p] => utc0'[p].day > utc0[p].day
<1>1. TypeOK /\ DaysBegun /\ [Next]_vars => [Forward]_vars
  <2> SUFFICES ASSUME TypeOK, DaysBegun, Next, up, up' PROVE Forward
    BY DEF vars
  <2>1. CASE Receive
    BY <2>1, ReceiveOpens
  <2>2. CASE Start
    BY <2>2 DEF Start
  <2>3. CASE Emit \/ Tick \/ Crash \/ DealLog \/ AddVolume \/ StoreVolume
    BY <2>3 DEF Emit, Tick, Crash, DealLog, AddVolume, StoreVolume, memVars
  <2>4. CASE Overview \/ NoticeDay \/ CountRead \/ CountStore
    BY <2>4 DEF Overview, NoticeDay, CountRead, CountStore, memVars
  <2>5. QED
    BY <2>1, <2>2, <2>3, <2>4 DEF Next
<1>2. QED
  BY <1>1, TypeCorrect, DaysInvariant, PTL DEF Spec, OpeningOncePerDay

LEMMA EveryDayFrame ==
    ASSUME EveryDayCounted, UNCHANGED <<up, preDay, todo, cnt, stat, statLost, runDay>>
    PROVE  EveryDayCounted'
<1>1. \A p, d : DayAccounted(p, d) => DayAccounted(p, d)'
  BY DEF DayAccounted
<1>2. QED
  BY <1>1 DEF EveryDayCounted

LEMMA NoticeDayCounts ==
    TypeOK /\ DaysBegun /\ EveryDayCounted /\ NoticeDay => EveryDayCounted'
<1> SUFFICES ASSUME TypeOK, DaysBegun, EveryDayCounted, NoticeDay,
                    NEW p \in Pools, NEW d \in runDay..(preDay' - 1)
             PROVE  DayAccounted(p, d)'
  BY DEF EveryDayCounted, NoticeDay, runVars
<1>1. /\ up /\ todo = {} /\ cnt = NoCount /\ preDay # Day(now)
      /\ preDay' = Day(now) /\ todo' = Pools
      /\ UNCHANGED <<stat, statLost>>
  BY DEF NoticeDay, dbVars
<1>2. preDay' = preDay + 1 /\ preDay \in Nat
  <2>1. preDay \in Nat /\ Day(now) \in Nat
    BY DayStep DEF TypeOK, WorldTypeOK, CountTypeOK
  <2>2. preDay <= Day(now) /\ Day(now) <= preDay + 1
    BY <1>1 DEF DaysBegun
  <2>3. QED
    BY <1>1, <2>1, <2>2
<1>3. CASE d = preDay
  BY <1>1, <1>2, <1>3 DEF DayAccounted
<1>4. CASE d # preDay
  <2>1. d \in runDay..(preDay - 1) /\ cnt.pool # p
    BY <1>1, <1>2, <1>4, MemoryAssumption DEF NoCount, TypeOK, CountTypeOK
  <2>2. Counted(stat[p], d) \/ <<p, d>> \in statLost
    BY <1>1, <2>1 DEF EveryDayCounted, DayAccounted
  <2>3. QED
    BY <1>1, <2>2 DEF DayAccounted
<1>5. QED
  BY <1>3, <1>4

LEMMA CountReadCounts ==
    TypeOK /\ EveryDayCounted /\ CountRead => EveryDayCounted'
<1> SUFFICES ASSUME TypeOK, EveryDayCounted, CountRead,
                    NEW p \in Pools, NEW d \in runDay..(preDay - 1)
             PROVE  DayAccounted(p, d)'
  BY DEF EveryDayCounted, CountRead, runVars
<1>1. PICK q \in todo :
        /\ todo' = todo \ {q}
        /\ \/ cnt'.pool = q /\ UNCHANGED statLost
           \/ statLost' = statLost \cup {<<q, preDay - 1>>} /\ UNCHANGED cnt
  BY DEF CountRead
<1>2. /\ up /\ cnt = NoCount /\ UNCHANGED <<preDay, stat>>
  BY DEF CountRead, dbVars
<1>3. cnt.pool # p
  BY <1>2, MemoryAssumption DEF NoCount
<1>4. \/ Counted(stat[p], d)
      \/ <<p, d>> \in statLost
      \/ d = preDay - 1 /\ p \in todo
  BY <1>2, <1>3 DEF EveryDayCounted, DayAccounted
<1>5. QED
  BY <1>1, <1>2, <1>4 DEF DayAccounted

LEMMA CountStoreCounts ==
    TypeOK /\ EveryDayCounted /\ CountStore => EveryDayCounted'
<1> SUFFICES ASSUME TypeOK, EveryDayCounted, CountStore,
                    NEW p \in Pools, NEW d \in runDay..(preDay - 1)
             PROVE  DayAccounted(p, d)'
  BY DEF EveryDayCounted, CountStore, runVars
<1> DEFINE q == cnt.pool
           row == [day |-> preDay - 1, res |-> curr[q].res, tick |-> curr[q].tick,
                   v1 |-> Vol24H(win[q]), v7 |-> cnt.v7]
<1>1. q \in Pools /\ row \in StatRow /\ row.day = preDay - 1
  BY CountStoreRow DEF CountStore
<1>2. /\ up /\ UNCHANGED <<preDay, todo>>
      /\ \/ stat' = [stat EXCEPT ![q] = StorePoolStatistic(@, row)] /\ UNCHANGED statLost
         \/ statLost' = statLost \cup {<<q, preDay - 1>>} /\ UNCHANGED stat
  BY DEF CountStore
<1>3. stat \in [Pools -> Seq(StatRow)] /\ stat[q] \in Seq(StatRow)
  BY <1>1 DEF TypeOK, TableTypeOK
<1> HIDE DEF row
<1>4. /\ Counted(StorePoolStatistic(stat[q], row), preDay - 1)
      /\ \A x : Counted(stat[q], x) => Counted(StorePoolStatistic(stat[q], row), x)
  BY <1>1, <1>3, StorePoolStatisticCounts
<1>5. \/ Counted(stat[p], d)
      \/ <<p, d>> \in statLost
      \/ d = preDay - 1 /\ (p \in todo \/ q = p)
  BY <1>2 DEF EveryDayCounted, DayAccounted
<1>6. Counted(stat[p], d) => Counted(stat'[p], d)
  BY <1>1, <1>2, <1>3, <1>4
<1>7. q = p => Counted(stat'[p], preDay - 1) \/ <<p, preDay - 1>> \in statLost'
  BY <1>1, <1>2, <1>3, <1>4
<1>8. QED
  BY <1>2, <1>5, <1>6, <1>7 DEF DayAccounted

LEMMA NextCounts ==
    TypeOK /\ DaysBegun /\ EveryDayCounted /\ [Next]_vars => EveryDayCounted'
<1> SUFFICES ASSUME TypeOK, DaysBegun, EveryDayCounted, [Next]_vars
             PROVE  EveryDayCounted'
  OBVIOUS
<1>1. CASE NoticeDay
  BY <1>1, NoticeDayCounts
<1>2. CASE CountRead
  BY <1>2, CountReadCounts
<1>3. CASE CountStore
  BY <1>3, CountStoreCounts
<1>4. CASE Start
  <2>1. Day(now) \in Nat /\ runDay' = Day(now) /\ preDay' = Day(now)
    BY <1>4, DayStep DEF Start, TypeOK, WorldTypeOK
  <2>2. QED
    BY <2>1 DEF EveryDayCounted
<1>5. CASE Crash
  BY <1>5 DEF Crash, EveryDayCounted
<1> USE DEF countVars, dbVars, runVars
<1>6. CASE Emit \/ Tick \/ DealLog \/ Receive
  BY <1>6, EveryDayFrame DEF Emit, Tick, DealLog, Receive
<1>7. CASE AddVolume \/ StoreVolume \/ Overview
  BY <1>7, EveryDayFrame DEF AddVolume, StoreVolume, Overview
<1>8. CASE UNCHANGED vars
  BY <1>8, EveryDayFrame DEF vars
<1>9. QED
  BY <1>1, <1>2, <1>3, <1>4, <1>5, <1>6, <1>7, <1>8 DEF Next

\* Every day that ended during a run has its row of statistics for every pool,
\* unless the database refused it or the counter is still at it (countVolumes).
THEOREM DaysCounted == Spec => []EveryDayCounted
<1>1. Init => EveryDayCounted
  BY DEF Init, EveryDayCounted
<1>2. QED
  BY <1>1, TypeCorrect, DaysInvariant, NextCounts, PTL DEF Spec
-----------------------------------------------------------------------------
(* The window stays sorted up to the zone: times only move forward from the  *)
(* channel to the window and to the table, and what is loaded is no further  *)
(* in the future than the zone puts it                                       *)

InOrder(s) == \A i, j \in DOMAIN s : i < j => s[i].ts <= s[j].ts
InSkew(s) == \A i, j \in DOMAIN s : i < j => s[i].ts <= s[j].ts + Skew
UpTo(s, t) == \A i \in DOMAIN s : s[i].ts <= t
Since(s, t) == \A i \in DOMAIN s : t <= s[i].ts

\* What is still to come into the window w is not older than what is in it, by more
\* than the zone.
Behind(w) == /\ UpTo(w, now + Skew)
             /\ \A k \in DOMAIN ch : UpTo(w, ch[k].ts + Skew)
             /\ dpc = "volume" => UpTo(w, msg.ts + Skew)

TablesInOrder == \A p \in Pools : InOrder(rows[p]) /\ UpTo(rows[p], now)
PipeInOrder ==
    up => /\ InOrder(ch) /\ UpTo(ch, now)
          /\ dpc = "volume" => msg.ts <= now /\ Since(ch, msg.ts)
WindowsInOrder ==
    up => \A p \in Pools : InSkew(win[p]) /\ Behind(win[p])

Times == TablesInOrder /\ PipeInOrder /\ WindowsInOrder

LEMMA SkewType == Skew \in Nat /\ Zone <= Skew /\ Zone \in Int
BY MemoryAssumption DEF Skew

\* A suffix of a queue is in order, and no entry of it is later.
LEMMA SuffixInOrder ==
    ASSUME NEW S, NEW s \in Seq(S), NEW u \in Seq(S), Len(u) <= Len(s),
           \A i \in 1..Len(u) : u[i] = s[i + Len(s) - Len(u)]
    PROVE  /\ InOrder(s) => InOrder(u)
           /\ InSkew(s) => InSkew(u)
           /\ \A t : UpTo(s, t) => UpTo(u, t)
<1>1. DOMAIN s = 1..Len(s) /\ DOMAIN u = 1..Len(u) /\ Len(s) \in Nat /\ Len(u) \in Nat
  OBVIOUS
<1>2. \A i \in 1..Len(u) : i + Len(s) - Len(u) \in DOMAIN s
  BY <1>1
<1>3. InOrder(s) => InOrder(u)
  <2> SUFFICES ASSUME InOrder(s), NEW i \in 1..Len(u), NEW j \in 1..Len(u), i < j
               PROVE  u[i].ts <= u[j].ts
    BY <1>1 DEF InOrder
  <2>1. i + Len(s) - Len(u) < j + Len(s) - Len(u)
    BY <1>1
  <2>2. QED
    BY <1>2, <2>1 DEF InOrder
<1>4. InSkew(s) => InSkew(u)
  <2> SUFFICES ASSUME InSkew(s), NEW i \in 1..Len(u), NEW j \in 1..Len(u), i < j
               PROVE  u[i].ts <= u[j].ts + Skew
    BY <1>1 DEF InSkew
  <2>1. i + Len(s) - Len(u) < j + Len(s) - Len(u)
    BY <1>1
  <2>2. QED
    BY <1>2, <2>1 DEF InSkew
<1>5. \A t : UpTo(s, t) => UpTo(u, t)
  BY <1>1, <1>2 DEF UpTo
<1>6. QED
  BY <1>3, <1>4, <1>5

LEMMA EvictInOrder ==
    ASSUME NEW w \in Seq(Volume), NEW t \in Int
    PROVE  /\ InOrder(w) => InOrder(Evict(w, t))
           /\ InSkew(w) => InSkew(Evict(w, t))
           /\ \A b : UpTo(w, b) => UpTo(Evict(w, t), b)
<1>1. /\ Evict(w, t) \in Seq(Volume) /\ Len(Evict(w, t)) <= Len(w)
      /\ \A i \in 1..Len(Evict(w, t)) : Evict(w, t)[i] = w[i + Len(w) - Len(Evict(w, t))]
  BY EvictSuffix
<1>2. QED
  BY <1>1, SuffixInOrder

\* Evicting keeps a window behind what is to come.
LEMMA EvictBehind ==
    ASSUME NEW w \in Seq(Volume), NEW t \in Int, InSkew(w), Behind(w)
    PROVE  InSkew(Evict(w, t)) /\ Behind(Evict(w, t))
BY EvictInOrder DEF Behind

\* One more entry that is not older.
LEMMA AppendInOrder ==
    ASSUME NEW S, NEW s \in Seq(S), NEW e \in S, InOrder(s), UpTo(s, e.ts)
    PROVE  /\ InOrder(Append(s, e))
           /\ \A t : UpTo(s, t) /\ e.ts <= t => UpTo(Append(s, e), t)
           /\ \A t : Since(s, t) /\ t <= e.ts => Since(Append(s, e), t)
<1>1. /\ DOMAIN s = 1..Len(s) /\ DOMAIN Append(s, e) = 1..(Len(s) + 1) /\ Len(s) \in Nat
      /\ \A i \in 1..Len(s) : Append(s, e)[i] = s[i]
      /\ Append(s, e)[Len(s) + 1] = e
  BY AppendProperties
<1>2. \A i \in 1..(Len(s) + 1) : i \in 1..Len(s) \/ i = Len(s) + 1
  BY <1>1
<1>3. InOrder(Append(s, e))
  <2> SUFFICES ASSUME NEW i \in 1..(Len(s) + 1), NEW j \in 1..(Len(s) + 1), i < j
               PROVE  Append(s, e)[i].ts <= Append(s, e)[j].ts
    BY <1>1 DEF InOrder
  <2>1. i \in 1..Len(s)
    BY <1>1
  <2>2. CASE j \in 1..Len(s)
    BY <1>1, <2>1, <2>2 DEF InOrder
  <2>3. CASE j = Len(s) + 1
    BY <1>1, <2>1, <2>3 DEF UpTo
  <2>4. QED
    BY <1>2, <2>2, <2>3
<1>4. QED
  BY <1>1, <1>2, <1>3 DEF UpTo, Since

\* One more entry that is not older by more than the zone.
LEMMA AppendInSkew ==
    ASSUME NEW s \in Seq(Volume), NEW e \in Volume, InSkew(s), UpTo(s, e.ts + Skew)
    PROVE  /\ InSkew(Append(s, e))
           /\ \A t : UpTo(s, t) /\ e.ts <= t => UpTo(Append(s, e), t)
<1>1. /\ DOMAIN s = 1..Len(s) /\ DOMAIN Append(s, e) = 1..(Len(s) + 1) /\ Len(s) \in Nat
      /\ \A i \in 1..Len(s) : Append(s, e)[i] = s[i]
      /\ Append(s, e)[Len(s) + 1] = e
  BY AppendProperties
<1>2. \A i \in 1..(Len(s) + 1) : i \in 1..Len(s) \/ i = Len(s) + 1
  BY <1>1
<1>3. InSkew(Append(s, e))
  <2> SUFFICES ASSUME NEW i \in 1..(Len(s) + 1), NEW j \in 1..(Len(s) + 1), i < j
               PROVE  Append(s, e)[i].ts <= Append(s, e)[j].ts + Skew
    BY <1>1 DEF InSkew
  <2>1. i \in 1..Len(s)
    BY <1>1
  <2>2. CASE j \in 1..Len(s)
    BY <1>1, <2>1, <2>2 DEF InSkew
  <2>3. CASE j = Len(s) + 1
    BY <1>1, <2>1, <2>3 DEF UpTo
  <2>4. QED
    BY <1>2, <2>2, <2>3
<1>4. QED
  BY <1>1, <1>2, <1>3 DEF UpTo

\* The queue without its first entry, which is the earliest.
LEMMA TailInOrder ==
    ASSUME NEW s \in Seq(Messages), s # <<>>, InOrder(s)
    PROVE  /\ InOrder(Tail(s)) /\ Since(Tail(s), Head(s).ts)
           /\ \A t : UpTo(s, t) => UpTo(Tail(s), t) /\ Head(s).ts <= t
           /\ \A k \in DOMAIN Tail(s) : \E i \in DOMAIN s : Tail(s)[k] = s[i]
           /\ \E i \in DOMAIN s : Head(s) = s[i]
<1>1. /\ DOMAIN s = 1..Len(s) /\ Len(s) \in Nat \ {0} /\ Head(s) = s[1]
      /\ DOMAIN Tail(s) = 1..(Len(s) - 1)
      /\ \A i \in 1..(Len(s) - 1) : Tail(s)[i] = s[i + 1]
  OBVIOUS
<1>2. \A i \in 1..(Len(s) - 1) : i + 1 \in DOMAIN s /\ 1 < i + 1
  BY <1>1
<1>3. 1 \in DOMAIN s
  BY <1>1
<1>4. InOrder(Tail(s))
  <2> SUFFICES ASSUME NEW i \in 1..(Len(s) - 1), NEW j \in 1..(Len(s) - 1), i < j
               PROVE  s[i + 1].ts <= s[j + 1].ts
    BY <1>1 DEF InOrder
  <2>1. i + 1 < j + 1
    BY <1>1
  <2>2. QED
    BY <1>2, <2>1 DEF InOrder
<1>5. Since(Tail(s), Head(s).ts)
  BY <1>1, <1>2, <1>3 DEF InOrder, Since
<1>6. \A t : UpTo(s, t) => UpTo(Tail(s), t) /\ Head(s).ts <= t
  BY <1>1, <1>2, <1>3 DEF UpTo
<1>7. QED
  BY <1>1, <1>2, <1>3, <1>4, <1>5, <1>6

\* What Start loads was stored, and its times are those of the table or earlier.
LEMMA LoadInOrder ==
    ASSUME NEW table \in Seq(VolumeRow), NEW t \in Nat, InOrder(table), UpTo(table, t)
    PROVE  /\ InOrder(Get24hVolumes(table, t))
           /\ UpTo(Get24hVolumes(table, t), t + Skew)
<1> DEFINE young == {i \in DOMAIN table : table[i].ts > t - DayLen}
           sel == IF young = {} THEN <<>> ELSE SubSeq(table, Min(young), Len(table))
<1>1. sel \in Seq(VolumeRow) /\ InOrder(sel) /\ UpTo(sel, t)
  <2>1. CASE young = {}
    BY <2>1 DEF InOrder, UpTo
  <2>2. CASE young # {}
    <3>1. young \in SUBSET (DOMAIN table) /\ sel = SubSeq(table, Min(young), Len(table))
      BY <2>2
    <3> HIDE DEF young, sel
    <3>2. /\ Min(young) \in 1..Len(table) /\ sel \in Seq(VolumeRow)
          /\ Len(sel) = Len(table) - Min(young) + 1 /\ Len(table) \in Nat
          /\ \A i \in 1..Len(sel) : sel[i] = table[i + Min(young) - 1]
      BY <2>2, <3>1, SuffixOfSeq
    <3>3. Len(sel) <= Len(table) /\ \A i \in 1..Len(sel) : sel[i] = table[i + Len(table) - Len(sel)]
      BY <3>2
    <3>4. QED
      BY <3>2, <3>3, SuffixInOrder
  <2>3. QED
    BY <2>1, <2>2
<1>2. Get24hVolumes(table, t) =
        [i \in DOMAIN sel |->
            [ev |-> sel[i].ev, vol |-> sel[i].vol, ts |-> sel[i].ts + Zone]]
  BY DEF Get24hVolumes
<1> HIDE DEF sel
<1>3. \A i \in DOMAIN sel : sel[i] \in VolumeRow
  BY <1>1
<1>4. \A i \in DOMAIN sel : sel[i].ts \in Nat
  BY <1>3 DEF VolumeRow
<1>5. InOrder(Get24hVolumes(table, t))
  BY <1>1, <1>2, <1>4, MemoryAssumption DEF InOrder
<1>6. UpTo(Get24hVolumes(table, t), t + Skew)
  <2>1. \A i \in DOMAIN sel : sel[i].ts + Zone <= t + Skew
    BY <1>1, <1>4, SkewType DEF UpTo
  <2>2. QED
    BY <1>2, <2>1 DEF UpTo
<1>7. QED
  BY <1>5, <1>6

LEMMA AppendAllInOrder ==
    ASSUME NEW load \in Seq(Volume), NEW t \in Int, InOrder(load)
    PROVE  /\ InOrder(AppendAll(load, t))
           /\ \A b : UpTo(load, b) => UpTo(AppendAll(load, t), b)
<1>1. CASE load # <<>> /\ Evict(load, t) = <<>>
  <2>1. AppendAll(load, t) = <<Last(load)>> /\ Last(load) = load[Len(load)]
        /\ Len(load) \in DOMAIN load
    BY <1>1 DEF AppendAll, Last
  <2>2. load[Len(load)] \in Volume
    BY <2>1
  <2>3. load[Len(load)].ts \in Int
    BY <2>2 DEF Volume
  <2>4. QED
    BY <2>1, <2>3 DEF InOrder, UpTo
<1>2. CASE ~(load # <<>> /\ Evict(load, t) = <<>>)
  BY <1>2, EvictInOrder DEF AppendAll
<1>3. QED
  BY <1>1, <1>2

LEMMA OrderIsSkew == ASSUME NEW w \in Seq(Volume), InOrder(w) PROVE InSkew(w)
<1>1. \A i \in DOMAIN w : w[i] \in Volume
  OBVIOUS
<1>2. \A i \in DOMAIN w : w[i].ts \in Int
  BY <1>1 DEF Volume
<1>3. QED
  BY <1>2, SkewType DEF InOrder, InSkew

LEMMA StartTimes == TypeOK /\ Times /\ Start => Times'
<1> SUFFICES ASSUME TypeOK, Times, Start PROVE Times'
  OBVIOUS
<1>1. UNCHANGED <<rows, now>> /\ ch' = <<>> /\ dpc' = "recv"
      /\ win' = [p \in Pools |-> AppendAll(Get24hVolumes(rows[p], now), now)]
  BY DEF Start, chainVars, dbVars
<1>2. TablesInOrder'
  BY <1>1 DEF Times, TablesInOrder, UpTo
<1>3. PipeInOrder'
  BY <1>1 DEF PipeInOrder, InOrder, UpTo
<1>4. WindowsInOrder'
  <2> SUFFICES ASSUME NEW p \in Pools PROVE InSkew(win'[p]) /\ Behind(win[p])'
    BY DEF WindowsInOrder
  <2>1. now \in Nat /\ rows[p] \in Seq(VolumeRow)
    BY DEF TypeOK, WorldTypeOK, TableTypeOK
  <2>2. Get24hVolumes(rows[p], now) \in Seq(Volume)
    BY <2>1, Get24hVolumesType
  <2>3. InOrder(Get24hVolumes(rows[p], now)) /\ UpTo(Get24hVolumes(rows[p], now), now + Skew)
    BY <2>1, LoadInOrder DEF Times, TablesInOrder
  <2>4. InOrder(win'[p]) /\ UpTo(win'[p], now + Skew)
    BY <1>1, <2>1, <2>2, <2>3, AppendAllInOrder
  <2>5. win'[p] \in Seq(Volume)
    BY <1>1, <2>1, <2>2, AppendAllType
  <2>6. InSkew(win'[p])
    BY <2>4, <2>5, OrderIsSkew
  <2>7. DOMAIN ch' = {}
    BY <1>1
  <2>8. QED
    BY <1>1, <2>4, <2>6, <2>7 DEF Behind, UpTo
<1>5. QED
  BY <1>2, <1>3, <1>4 DEF Times

LEMMA TickTimes == TypeOK /\ Times /\ Tick => Times'
<1> SUFFICES ASSUME TypeOK, Times, Tick PROVE Times'
  OBVIOUS
<1>1. now \in Nat /\ now' = now + 1 /\ UNCHANGED <<up, ch, dpc, msg, win, rows>>
  BY DEF Tick, TypeOK, WorldTypeOK, readVars, dealVars, memVars, dbVars
<1>2. \A b \in Int : /\ b <= now => b <= now'
                     /\ b <= now + Skew => b <= now' + Skew
  BY <1>1, SkewType
<1>3. /\ \A p \in Pools : \A i \in DOMAIN rows[p] : rows[p][i].ts \in Int
      /\ \A i \in DOMAIN ch : ch[i].ts \in Int
      /\ \A p \in Pools : \A i \in DOMAIN win[p] : win[p][i].ts \in Int
      /\ dpc = "volume" => msg.ts \in Int
  <2>1. \A p \in Pools : \A i \in DOMAIN rows[p] : rows[p][i] \in VolumeRow
    BY DEF TypeOK, TableTypeOK
  <2>2. \A i \in DOMAIN ch : ch[i] \in Messages
    BY DEF TypeOK, PipeTypeOK
  <2>3. \A p \in Pools : \A i \in DOMAIN win[p] : win[p][i] \in Volume
    BY DEF TypeOK, MemoryTypeOK
  <2>4. dpc = "volume" => msg \in Messages
    BY DEF TypeOK, PipeTypeOK
  <2>5. QED
    BY <2>1, <2>2, <2>3, <2>4 DEF VolumeRow, Messages, Volume
<1>4. TablesInOrder'
  BY <1>1, <1>2, <1>3 DEF Times, TablesInOrder, UpTo
<1>5. PipeInOrder'
  BY <1>1, <1>2, <1>3 DEF Times, PipeInOrder, UpTo
<1>6. WindowsInOrder'
  BY <1>1, <1>2, <1>3 DEF Times, WindowsInOrder, Behind, UpTo
<1>7. QED
  BY <1>4, <1>5, <1>6 DEF Times

LEMMA DealLogTimes == TypeOK /\ Times /\ DealLog => Times'
<1> SUFFICES ASSUME TypeOK, Times, DealLog PROVE Times'
  OBVIOUS
<1>1. PICK r0 \in BOOLEAN, r1 \in BOOLEAN : ch' = Append(ch, PoolStat(next, r0, r1))
  BY DEF DealLog
<1> DEFINE m == PoolStat(next, r0, r1)
<1>2. up /\ UNCHANGED <<up, now, dpc, msg, win, rows>> /\ m.ts = now /\ now \in Nat
  BY DEF DealLog, PoolStat, chainVars, dealVars, memVars, dbVars, TypeOK, WorldTypeOK
<1>3. m \in Messages /\ ch \in Seq(Messages)
  <2>1. next \in DOMAIN chain
    BY DEF DealLog, TypeOK, PipeTypeOK, WorldTypeOK
  <2>2. QED
    BY <2>1, PoolStatType DEF TypeOK, PipeTypeOK
<1> HIDE DEF m
<1>4. InOrder(ch) /\ UpTo(ch, now)
  BY <1>2 DEF Times, PipeInOrder
<1>5. InOrder(ch') /\ UpTo(ch', now)
  BY <1>1, <1>2, <1>3, <1>4, AppendInOrder DEF m
<1>6. \A t : Since(ch, t) /\ t <= now => Since(ch', t)
  BY <1>1, <1>2, <1>3, <1>4, AppendInOrder DEF m
<1>7. /\ DOMAIN ch' = 1..(Len(ch) + 1) /\ DOMAIN ch = 1..Len(ch) /\ Len(ch) \in Nat
      /\ \A i \in 1..Len(ch) : ch'[i] = ch[i]
      /\ ch'[Len(ch) + 1] = m
  BY <1>1, <1>3, AppendProperties DEF m
<1>8. \A i \in DOMAIN ch' : i \in DOMAIN ch \/ i = Len(ch) + 1
  BY <1>7
<1>9. PipeInOrder'
  BY <1>2, <1>5, <1>6 DEF Times, PipeInOrder
<1>10. \A w : Behind(w) => Behind(w)'
  BY <1>2, <1>7, <1>8 DEF Behind
<1>11. WindowsInOrder'
  BY <1>2, <1>10 DEF Times, WindowsInOrder, Behind, UpTo
<1>12. TablesInOrder'
  BY <1>2 DEF Times, TablesInOrder
<1>13. QED
  BY <1>9, <1>11, <1>12 DEF Times

LEMMA ReceiveTimes == TypeOK /\ Times /\ Receive => Times'
<1> SUFFICES ASSUME TypeOK, Times, Receive PROVE Times'
  OBVIOUS
<1>1. /\ up /\ dpc = "recv" /\ ch # <<>> /\ ch' = Tail(ch)
      /\ msg' = [Head(ch) EXCEPT !.tick = TickOf(Head(ch))]
      /\ UNCHANGED <<up, now, win, rows>>
  BY DEF Receive, chainVars, dbVars
<1>2. ch \in Seq(Messages) /\ Head(ch) \in Messages
  BY <1>1, HeadTailProperties DEF TypeOK, PipeTypeOK
<1>3. msg'.ts = Head(ch).ts
  BY <1>1, <1>2 DEF Messages
<1>4. InOrder(ch) /\ UpTo(ch, now)
  BY <1>1 DEF Times, PipeInOrder
<1>5. /\ InOrder(ch') /\ Since(ch', msg'.ts) /\ UpTo(ch', now) /\ msg'.ts <= now
      /\ \A k \in DOMAIN ch' : \E i \in DOMAIN ch : ch'[k] = ch[i]
      /\ \E i \in DOMAIN ch : Head(ch) = ch[i]
  BY <1>1, <1>2, <1>3, <1>4, TailInOrder
<1>6. PipeInOrder'
  BY <1>1, <1>5 DEF PipeInOrder
<1>7. \A w : Behind(w) => Behind(w)'
  BY <1>1, <1>3, <1>5 DEF Behind
<1>8. WindowsInOrder'
  BY <1>1, <1>7 DEF Times, WindowsInOrder, Behind, UpTo
<1>9. TablesInOrder'
  BY <1>1 DEF Times, TablesInOrder
<1>10. QED
  BY <1>6, <1>8, <1>9 DEF Times

LEMMA AddVolumeTimes == TypeOK /\ Times /\ AddVolume => Times'
<1> SUFFICES ASSUME TypeOK, Times, AddVolume PROVE Times'
  OBVIOUS
<1> DEFINE v == [ev |-> msg.ev, vol |-> msg.vol, ts |-> msg.ts]
<1>1. /\ up /\ dpc = "volume" /\ dpc' = "store"
      /\ win' = [win EXCEPT ![msg.pool] = AppendVolume(@, now, v)]
      /\ UNCHANGED <<up, now, ch, msg, rows>>
  BY DEF AddVolume, chainVars, readVars, dbVars
<1>2. msg \in Messages /\ win \in [Pools -> Seq(Volume)] /\ now \in Nat
  BY <1>1 DEF TypeOK, PipeTypeOK, MemoryTypeOK, WorldTypeOK
<1>3. v \in Volume /\ v.ts = msg.ts /\ msg.pool \in Pools
  BY <1>2 DEF Messages, Volume
<1> HIDE DEF v
<1>4. PipeInOrder'
  BY <1>1 DEF Times, PipeInOrder
<1>5. ASSUME NEW p \in Pools PROVE InSkew(win'[p]) /\ Behind(win[p])'
  <2>1. InSkew(win[p]) /\ Behind(win[p])
    BY <1>1, <1>5 DEF Times, WindowsInOrder
  <2>2. CASE p # msg.pool
    <3>1. win'[p] = win[p]
      BY <1>1, <1>2, <2>2
    <3>2. QED
      BY <1>1, <2>1, <3>1 DEF Behind
  <2>3. CASE p = msg.pool
    <3> DEFINE u == Evict(win[p], now)
    <3>1. win'[p] = Append(u, v)
      BY <1>1, <1>2, <2>3 DEF AppendVolume
    <3>2. u \in Seq(Volume) /\ InSkew(u) /\ UpTo(u, msg.ts + Skew)
      BY <1>1, <1>2, <2>1, EvictSuffix, EvictInOrder DEF Behind
    <3>3. UpTo(u, now + Skew) /\ \A k \in DOMAIN ch : UpTo(u, ch[k].ts + Skew)
      BY <1>2, <2>1, EvictInOrder DEF Behind
    <3> HIDE DEF u
    <3>4. InSkew(win'[p])
      BY <1>3, <3>1, <3>2, AppendInSkew
    <3>5. msg.ts <= now + Skew /\ \A k \in DOMAIN ch : msg.ts <= ch[k].ts + Skew
      <4>1. msg.ts <= now /\ \A k \in DOMAIN ch : msg.ts <= ch[k].ts
        BY <1>1 DEF Times, PipeInOrder, Since
      <4>2. msg.ts \in Nat
        BY <1>2 DEF Messages
      <4>3. \A k \in DOMAIN ch : ch[k] \in Messages
        BY DEF TypeOK, PipeTypeOK
      <4>4. \A k \in DOMAIN ch : ch[k].ts \in Nat
        BY <4>3 DEF Messages
      <4>5. QED
        BY <1>2, <4>1, <4>2, <4>4, SkewType
    <3>6. UpTo(win'[p], now + Skew) /\ \A k \in DOMAIN ch : UpTo(win'[p], ch[k].ts + Skew)
      BY <1>3, <3>1, <3>2, <3>3, <3>5, AppendInSkew
    <3>7. Behind(win[p])'
      BY <1>1, <3>6 DEF Behind
    <3>8. QED
      BY <3>4, <3>7
  <2>4. QED
    BY <2>2, <2>3
<1>6. WindowsInOrder'
  BY <1>5 DEF WindowsInOrder
<1>7. TablesInOrder'
  BY <1>1 DEF Times, TablesInOrder
<1>8. QED
  BY <1>4, <1>6, <1>7 DEF Times

LEMMA StoreVolumeTimes == TypeOK /\ Times /\ StoreVolume => Times'
<1> SUFFICES ASSUME TypeOK, Times, StoreVolume PROVE Times'
  OBVIOUS
<1> DEFINE row == [ev |-> msg.ev, tx |-> msg.tx, tick |-> msg.tick, res |-> pre,
                   vol |-> msg.vol, ts |-> now]
<1>1. /\ up /\ dpc = "store" /\ dpc' = "recv" /\ UNCHANGED <<up, now, ch, win>>
      /\ \/ rows' = [rows EXCEPT ![msg.pool] = StorePoolVolume(@, row)]
         \/ rows' = rows
  BY DEF StoreVolume, chainVars, readVars, memVars
<1>2. /\ msg \in Messages /\ pre \in ReservesOf /\ rows \in [Pools -> Seq(VolumeRow)]
      /\ now \in Nat
  BY <1>1 DEF TypeOK, PipeTypeOK, TableTypeOK, WorldTypeOK
<1>3. row \in VolumeRow /\ row.ts = now
  BY <1>2 DEF Messages, VolumeRow
<1> HIDE DEF row
<1>4. ASSUME NEW p \in Pools PROVE InOrder(rows'[p]) /\ UpTo(rows'[p], now)
  <2>1. InOrder(rows[p]) /\ UpTo(rows[p], now) /\ rows[p] \in Seq(VolumeRow)
    BY <1>2 DEF Times, TablesInOrder
  <2>2. rows'[p] = rows[p] \/ rows'[p] = Append(rows[p], row)
    BY <1>1, <1>2 DEF StorePoolVolume
  <2>3. InOrder(Append(rows[p], row)) /\ UpTo(Append(rows[p], row), now)
    BY <1>2, <1>3, <2>1, AppendInOrder
  <2>4. QED
    BY <2>1, <2>2, <2>3
<1>5. TablesInOrder'
  BY <1>1, <1>4 DEF TablesInOrder
<1>6. PipeInOrder' /\ WindowsInOrder'
  BY <1>1 DEF Times, PipeInOrder, WindowsInOrder, Behind
<1>7. QED
  BY <1>5, <1>6 DEF Times

\* The handlers and the counter evict.
LEMMA EvictTimes == TypeOK /\ Times /\ (Overview \/ CountRead) => Times'
<1> SUFFICES ASSUME TypeOK, Times, Overview \/ CountRead PROVE Times'
  OBVIOUS
<1>1. PICK p \in Pools : win' = [win EXCEPT ![p] = Evict(@, now)]
  BY DEF Overview, CountRead, TypeOK, CountTypeOK
<1>2. up /\ UNCHANGED <<up, now, ch, dpc, msg, rows>>
  BY DEF Overview, CountRead, chainVars, readVars, dealVars, dbVars
<1>3. win \in [Pools -> Seq(Volume)] /\ now \in Nat
  BY DEF TypeOK, MemoryTypeOK, WorldTypeOK
<1>4. ASSUME NEW q \in Pools PROVE InSkew(win'[q]) /\ Behind(win[q])'
  <2>1. InSkew(win[q]) /\ Behind(win[q])
    BY <1>2, <1>4 DEF Times, WindowsInOrder
  <2>2. win'[q] = win[q] \/ win'[q] = Evict(win[q], now)
    BY <1>1, <1>3
  <2>3. InSkew(win'[q]) /\ Behind(win'[q])
    BY <1>3, <2>1, <2>2, EvictBehind
  <2>4. QED
    BY <1>2, <2>3 DEF Behind
<1>5. QED
  BY <1>2, <1>4 DEF Times, TablesInOrder, PipeInOrder, WindowsInOrder

LEMMA NextTimes == TypeOK /\ Times /\ [Next]_vars => Times'
<1> SUFFICES ASSUME TypeOK, Times, [Next]_vars PROVE Times'
  OBVIOUS
<1>1. CASE \/ Emit \/ NoticeDay \/ CountStore \/ UNCHANGED vars
  <2>1. UNCHANGED <<up, now, ch, dpc, msg, win, rows>>
    BY <1>1 DEF Emit, NoticeDay, CountStore, vars, chainVars, readVars, dealVars, memVars, dbVars
  <2>2. QED
    BY <2>1 DEF Times, TablesInOrder, PipeInOrder, WindowsInOrder, Behind
<1>2. CASE Crash
  <2>1. ~up' /\ UNCHANGED <<now, rows>>
    BY <1>2 DEF Crash, chainVars, dbVars
  <2>2. QED
    BY <2>1 DEF Times, TablesInOrder, PipeInOrder, WindowsInOrder
<1>3. QED
  BY <1>1, <1>2, TickTimes, StartTimes, DealLogTimes, ReceiveTimes, AddVolumeTimes,
     StoreVolumeTimes, EvictTimes DEF Next

\* The entries of a window are in the order of their times, up to the offset of the zone
\* east of Greenwich, whatever is replayed and whoever evicts (Volumes.append,
\* initPoolStat).
THEOREM WindowsSorted == Spec => []WindowSorted
<1>1. Init => Times
  BY DEF Init, Times, TablesInOrder, PipeInOrder, WindowsInOrder, InOrder, UpTo
<1>2. Times => WindowSorted
  BY DEF Times, WindowsInOrder, InSkew, WindowSorted
<1>3. QED
  BY <1>1, <1>2, TypeCorrect, NextTimes, PTL DEF Spec
-----------------------------------------------------------------------------
(* What a message tells of the chain, and which events are on their way *)

\* The event the consumer will receive next.
Awaited == next - Len(ch)

\* What PoolStat tells of an event.
Tells(m) ==
    /\ m.ev \in DOMAIN chain /\ m.pool = chain[m.ev].pool /\ m.tx = chain[m.ev].tx
    /\ m.vol = 1 <=> chain[m.ev].kind = "swap"

\* The reader is not ahead of the chain, unless it began beyond it and read nothing.
CursorOnChain ==
    /\ Len(chain) <= MaxEvents /\ runStart <= next
    /\ next <= Len(chain) + 1 \/ next = runStart

\* The channel holds the events up to the reader's, one after the other, and the
\* consumer has the one before them.
Line ==
    up => /\ runStart <= Awaited
          /\ \A k \in DOMAIN ch :
                /\ ch[k].ev = Awaited + k - 1 /\ Tells(ch[k])
                /\ ch[k].vol = 1 => ch[k].tick = ch[k].ev
                /\ rpcFaults = 0 => ch[k].r0
          /\ dpc # "recv" => msg.ev = Awaited - 1 /\ runStart <= msg.ev /\ Tells(msg)

\* A table has the rows of its pool, each once.
RowsOnce ==
    \A p \in Pools : \A i \in DOMAIN rows[p] :
        /\ rows[p][i].ev \in DOMAIN chain /\ chain[rows[p][i].ev].pool = p
        /\ chain[rows[p][i].ev].tx = rows[p][i].tx
        /\ \A j \in DOMAIN rows[p] : rows[p][i].ev = rows[p][j].ev => i = j

\* No event from e on is in the window w twice, or in it without having been loaded.
Fresh(w, e) ==
    \A i \in DOMAIN w :
        /\ w[i].ev \in loaded \/ w[i].ev < e
        /\ \A j \in DOMAIN w : i < j /\ w[i].ev = w[j].ev => w[j].ev < e
Once(w) ==
    \A i, j \in DOMAIN w : i < j /\ w[i].ev = w[j].ev =>
        /\ w[j].ev \in loaded /\ w[j].ev >= runStart
        /\ \A k \in DOMAIN w : w[k].ev = w[j].ev => k \in {i, j}
WindowsFresh ==
    up => \A p \in Pools : /\ Once(win[p])
                           /\ Fresh(win[p], Awaited)
                           /\ dpc = "volume" => Fresh(win[p], msg.ev)

\* Without a failed statement the rows of this run and of those before have no gap.
\* (While the chain is shorter than Lookback nothing is read and there are no rows.)
NoGap ==
    /\ runStart = BeyondChain => \A e : ~Stored(e)
    /\ runStart # BeyondChain => runStart <= StartFrom /\ ~(ChainHead < Lookback)
    /\ dbFaults = 0 => /\ dbLost = {}
                       /\ \A e, f \in DOMAIN chain :
                             runStart <= e /\ e <= f /\ Stored(f) => Recorded(e)

\* The swaps of p this run has received, and those that are stored.
SwapsOf(p) == {e \in DOMAIN chain : chain[e].pool = p /\ chain[e].kind = "swap"}
Received(p) == {e \in SwapsOf(p) : runStart <= e /\ e < Awaited}
Kept(p) == {e \in SwapsOf(p) : Stored(e)}
Latest(x, X) == x \in X /\ \A y \in X : y <= x
Covers(x, p) == x \in SwapsOf(p) /\ \A y \in Kept(p) : y <= x

\* The tick of the memory is that of the last swap received in this run; before the
\* first one it is, like the one of the last row, that of a swap as late as any stored.
Ticks ==
    rpcFaults = 0 => \A p \in Pools :
        /\ dbFaults = 0 /\ Kept(p) # {} => Covers(Last(rows[p]).tick, p)
        /\ up /\ Received(p) # {} => Latest(curr[p].tick, Received(p))
        /\ up /\ Received(p) = {} /\ Kept(p) # {} /\ dbFaults = 0 => Covers(curr[p].tick, p)
        /\ up /\ dpc # "recv" /\ msg.pool = p => msg.tick = curr[p].tick

\* What is known of the events known so far stays when the chain grows.
LEMMA ChainGrows ==
    ASSUME TypeOK, chain' = chain \/ Emit
    PROVE  /\ Len(chain) \in Nat /\ DOMAIN chain = 1..Len(chain)
           /\ Len(chain') \in Nat /\ DOMAIN chain' = 1..Len(chain') /\ Len(chain) <= Len(chain')
           /\ \A e \in DOMAIN chain : e \in DOMAIN chain' /\ chain'[e] = chain[e]
           /\ \A m : m.ev \in DOMAIN chain =>
                 /\ chain'[m.ev] = chain[m.ev]
                 /\ m.ev \in DOMAIN chain'
<1>1. chain \in Seq(Events)
  BY DEF TypeOK, WorldTypeOK
<1>2. /\ Len(chain) \in Nat /\ DOMAIN chain = 1..Len(chain)
      /\ Len(chain') \in Nat /\ DOMAIN chain' = 1..Len(chain') /\ Len(chain) <= Len(chain')
      /\ \A e \in DOMAIN chain : e \in DOMAIN chain' /\ chain'[e] = chain[e]
  <2>1. CASE chain' = chain
    BY <1>1, <2>1
  <2>2. CASE Emit
    <3>1. PICK p \in Pools, k \in Kinds, t \in {LastTx, LastTx + 1} :
             chain' = Append(chain, [pool |-> p, kind |-> k, tx |-> t])
      BY <2>2 DEF Emit
    <3>2. [pool |-> p, kind |-> k, tx |-> t] \in Events
      BY HeadType, ServiceAssumption DEF Events, TypeOK
    <3>3. QED
      BY <1>1, <3>1, <3>2, AppendProperties
  <2>3. QED
    BY <2>1, <2>2
<1>3. QED
  BY <1>2

LEMMA InitCursor == Init => CursorOnChain
BY ServiceAssumption DEF Init, CursorOnChain, BeyondChain

LEMMA NextCursor == TypeOK /\ CursorOnChain /\ [Next]_vars => CursorOnChain'
<1> SUFFICES ASSUME TypeOK, CursorOnChain, [Next]_vars PROVE CursorOnChain'
  OBVIOUS
<1> USE DEF CursorOnChain, chainVars, readVars, runVars
<1>0. /\ next \in Nat /\ runStart \in Nat /\ Len(chain) \in Nat /\ MaxEvents \in Nat
  BY HeadType, ServiceAssumption DEF TypeOK, PipeTypeOK
<1>1. CASE Emit
  <2>1. UNCHANGED <<next, runStart>> /\ Len(chain) < MaxEvents
    BY <1>1 DEF Emit
  <2>2. Len(chain') = Len(chain) + 1
    <3>1. chain \in Seq(Events)
      BY DEF TypeOK, WorldTypeOK
    <3>2. \A x : Len(Append(chain, x)) = Len(chain) + 1
      BY <3>1
    <3>3. QED
      BY <1>1, <3>2 DEF Emit
  <2>3. QED
    BY <1>0, <2>1, <2>2
<1>2. CASE Start
  <2>1. next' = StartFrom /\ runStart' = StartFrom /\ chain' = chain /\ StartFrom \in Nat
    BY <1>2, StartsAt DEF Start, TypeOK
  <2>2. QED
    BY <2>1
<1>3. CASE DealLog
  <2>1. next <= Len(chain) /\ next' = next + 1 /\ UNCHANGED <<chain, runStart>>
    BY <1>3 DEF DealLog
  <2>2. QED
    BY <1>0, <2>1
<1>4. CASE Tick \/ Crash \/ Receive \/ AddVolume \/ StoreVolume \/ UNCHANGED vars
  BY <1>4 DEF Tick, Crash, Receive, AddVolume, StoreVolume, vars
<1>5. CASE Overview \/ NoticeDay \/ CountRead \/ CountStore
  BY <1>5 DEF Overview, NoticeDay, CountRead, CountStore
<1>6. QED
  BY <1>1, <1>2, <1>3, <1>4, <1>5 DEF Next

LEMMA LineFrame ==
    ASSUME TypeOK, Line, UNCHANGED <<chain, next, ch, up, runStart, rpcFaults, msg>>,
           dpc' # "recv" => dpc # "recv"
    PROVE  Line'
BY DEF Line, Awaited, Tells

LEMMA DealLogLine == TypeOK /\ Line /\ DealLog => Line'
<1> SUFFICES ASSUME TypeOK, Line, DealLog PROVE Line'
  OBVIOUS
<1>1. PICK r0 \in BOOLEAN, r1 \in BOOLEAN :
         /\ rpcFaults' = IF r0 /\ r1 THEN rpcFaults ELSE rpcFaults + 1
         /\ ch' = Append(ch, PoolStat(next, r0, r1))
  BY DEF DealLog
<1>2. /\ up /\ next <= Len(chain) /\ next' = next + 1
      /\ UNCHANGED <<chain, up, dpc, msg, runStart>>
  BY DEF DealLog, chainVars, dealVars, runVars
<1>3. /\ next \in DOMAIN chain /\ next \in Nat /\ rpcFaults \in Nat /\ runStart \in Nat
      /\ ch \in Seq(Messages) /\ Len(chain) \in Nat
  BY <1>2 DEF TypeOK, WorldTypeOK, PipeTypeOK
<1> DEFINE m == PoolStat(next, r0, r1)
<1>4. m \in Messages
  BY <1>3, PoolStatType DEF TypeOK
<1>5. /\ m.ev = next /\ Tells(m) /\ m.r0 = r0
      /\ m.vol = 1 => m.tick = m.ev
  BY <1>3 DEF PoolStat, Tells
<1>6. rpcFaults' = 0 => rpcFaults = 0 /\ r0
  BY <1>1, <1>3
<1> HIDE DEF m
<1>7. /\ Len(ch) \in Nat /\ Len(ch') = Len(ch) + 1
      /\ DOMAIN ch' = 1..(Len(ch) + 1) /\ DOMAIN ch = 1..Len(ch)
      /\ \A k \in 1..Len(ch) : ch'[k] = ch[k]
      /\ ch'[Len(ch) + 1] = m
  BY <1>1, <1>3, <1>4, AppendProperties DEF m
<1>8. Awaited' = Awaited /\ m.ev = Awaited + (Len(ch) + 1) - 1
  <2>1. \A a, b \in Nat : (a + 1) - (b + 1) = a - b /\ a = (a - b) + (b + 1) - 1
    OBVIOUS
  <2>2. Len(ch)' = Len(ch) + 1 /\ next' = next + 1 /\ m.ev = next
    BY <1>2, <1>5, <1>7
  <2>3. /\ (next + 1) - (Len(ch) + 1) = next - Len(ch)
        /\ next = (next - Len(ch)) + (Len(ch) + 1) - 1
    BY <1>3, <1>7, <2>1
  <2>4. QED
    BY <2>2, <2>3 DEF Awaited
<1>9. \A x : Tells(x) => Tells(x)'
  BY <1>2 DEF Tells
<1>10. ASSUME NEW k \in DOMAIN ch'
       PROVE  /\ ch'[k].ev = Awaited + k - 1 /\ Tells(ch'[k])
              /\ ch'[k].vol = 1 => ch'[k].tick = ch'[k].ev
              /\ rpcFaults' = 0 => ch'[k].r0
  <2>1. CASE k \in 1..Len(ch)
    BY <1>2, <1>6, <1>7, <2>1 DEF Line
  <2>2. CASE k = Len(ch) + 1
    BY <1>5, <1>6, <1>7, <1>8, <2>2
  <2>3. QED
    BY <1>7, <2>1, <2>2
<1>11. \A k \in DOMAIN ch' : Tells(ch[k])'
  BY <1>2, <1>10 DEF Tells
<1>13. dpc' # "recv" => msg'.ev = Awaited' - 1 /\ runStart' <= msg'.ev /\ Tells(msg)'
  BY <1>2, <1>8 DEF Line, Tells
<1>14. QED
  BY <1>2, <1>8, <1>10, <1>11, <1>13 DEF Line

LEMMA ReceiveLine == TypeOK /\ Line /\ Receive => Line'
<1> SUFFICES ASSUME TypeOK, Line, Receive PROVE Line'
  OBVIOUS
<1>1. /\ up /\ dpc = "recv" /\ ch # <<>> /\ ch' = Tail(ch) /\ dpc' # "recv"
      /\ msg' = [Head(ch) EXCEPT !.tick = TickOf(Head(ch))]
      /\ UNCHANGED <<chain, up, next, runStart, rpcFaults>>
  BY DEF Receive, chainVars, runVars
<1>2. /\ ch \in Seq(Messages) /\ Head(ch) \in Messages /\ next \in Nat /\ runStart \in Nat
      /\ Len(chain) \in Nat
  BY <1>1, HeadTailProperties DEF TypeOK, PipeTypeOK, WorldTypeOK
<1>3. /\ DOMAIN ch = 1..Len(ch) /\ Len(ch) \in Nat \ {0} /\ Len(ch') = Len(ch) - 1
      /\ DOMAIN ch' = 1..(Len(ch) - 1)
      /\ \A k \in 1..(Len(ch) - 1) : ch'[k] = ch[k + 1] /\ k + 1 \in DOMAIN ch
      /\ Head(ch) = ch[1] /\ 1 \in DOMAIN ch
  BY <1>1, <1>2
<1>4. Awaited' = Awaited + 1 /\ Awaited \in Int
  BY <1>1, <1>2, <1>3 DEF Awaited
<1>5. /\ msg'.ev = ch[1].ev /\ msg'.pool = ch[1].pool /\ msg'.vol = ch[1].vol
      /\ msg'.tx = ch[1].tx
  BY <1>1, <1>2, <1>3 DEF Messages
<1>6. ch[1].ev = Awaited /\ Tells(ch[1]) /\ runStart <= Awaited
  BY <1>1, <1>3, <1>4 DEF Line
<1>7. msg'.ev = Awaited' - 1 /\ runStart' <= msg'.ev /\ Tells(msg)'
  BY <1>1, <1>4, <1>5, <1>6 DEF Tells
<1>8. ASSUME NEW k \in DOMAIN ch'
      PROVE  /\ ch'[k].ev = Awaited' + k - 1 /\ Tells(ch[k])'
             /\ ch'[k].vol = 1 => ch'[k].tick = ch'[k].ev
             /\ rpcFaults = 0 => ch'[k].r0
  <2>1. ch'[k] = ch[k + 1] /\ k + 1 \in DOMAIN ch /\ k \in Nat
    BY <1>3
  <2>2. /\ ch[k + 1].ev = Awaited + (k + 1) - 1 /\ Tells(ch[k + 1])
        /\ ch[k + 1].vol = 1 => ch[k + 1].tick = ch[k + 1].ev
        /\ rpcFaults = 0 => ch[k + 1].r0
    BY <1>1, <2>1 DEF Line
  <2>3. Tells(ch[k])'
    BY <1>1, <2>1, <2>2 DEF Tells
  <2>4. ch'[k].ev = Awaited' + k - 1
    BY <1>4, <2>1, <2>2
  <2>5. QED
    BY <2>1, <2>2, <2>3, <2>4
<1>9. runStart' <= Awaited'
  BY <1>1, <1>2, <1>4, <1>6 DEF Line
<1>10. QED
  BY <1>1, <1>7, <1>8, <1>9 DEF Line

LEMMA NextLine == TypeOK /\ Line /\ [Next]_vars => Line'
<1> SUFFICES ASSUME TypeOK, Line, [Next]_vars PROVE Line'
  OBVIOUS
<1> USE DEF chainVars, readVars, dealVars, runVars
<1>1. CASE Emit
  <2>1. \A m : m.ev \in DOMAIN chain => m.ev \in DOMAIN chain' /\ chain'[m.ev] = chain[m.ev]
    BY <1>1, ChainGrows
  <2>2. UNCHANGED <<next, ch, up, runStart, rpcFaults, msg, dpc>>
    BY <1>1 DEF Emit
  <2>4. \A k \in DOMAIN ch : Tells(ch[k]) => Tells(ch[k])'
    BY <2>1, <2>2 DEF Tells
  <2>5. Tells(msg) => Tells(msg)'
    BY <2>1, <2>2 DEF Tells
  <2>6. Awaited' = Awaited
    BY <2>2 DEF Awaited
  <2>7. QED
    BY <2>2, <2>4, <2>5, <2>6 DEF Line
<1>2. CASE Start
  <2>1. /\ next' = StartFrom /\ runStart' = StartFrom /\ ch' = <<>> /\ dpc' = "recv" /\ chain' = chain
    BY <1>2 DEF Start
  <2>2. StartFrom \in Nat
    BY StartsAt DEF TypeOK
  <2>3. Awaited' = StartFrom
    BY <2>1, <2>2 DEF Awaited
  <2>4. QED
    BY <2>1, <2>2, <2>3 DEF Line
<1>3. CASE Crash
  BY <1>3 DEF Crash, Line
<1>4. CASE DealLog
  BY <1>4, DealLogLine
<1>5. CASE Receive
  BY <1>5, ReceiveLine
<1>6. CASE StoreVolume
  <2>1. dpc' = "recv" /\ UNCHANGED <<chain, next, ch, up, runStart, rpcFaults>>
    BY <1>6 DEF StoreVolume
  <2>2. QED
    BY <2>1 DEF Line, Awaited, Tells
<1>7. CASE Tick \/ AddVolume \/ Overview
  BY <1>7, LineFrame DEF Tick, AddVolume, Overview
<1>8. CASE NoticeDay \/ CountRead \/ CountStore \/ UNCHANGED vars
  BY <1>8, LineFrame DEF NoticeDay, CountRead, CountStore, vars
<1>9. QED
  BY <1>1, <1>2, <1>3, <1>4, <1>5, <1>6, <1>7, <1>8 DEF Next
-----------------------------------------------------------------------------
(* Nothing gets lost: RunIsLossless is inductive once it is known what a message *)
(* tells of its event                                                            *)

\* A step that leaves the reader, the channel, the table and the losses alone,
\* and whatever the consumer works on, keeps what was where.
LEMMA LosslessFrame ==
    ASSUME RunIsLossless, up' = up,
           UNCHANGED <<chain, runStart, next, ch, msg, rows, dbLost>>,
           (dpc' = "recv") = (dpc = "recv")
    PROVE  RunIsLossless'
BY DEF RunIsLossless, Recorded, InFlight

LEMMA EmitLossless == TypeOK /\ CursorOnChain /\ RunIsLossless /\ Emit => RunIsLossless'
<1> SUFFICES ASSUME TypeOK, CursorOnChain, RunIsLossless, Emit, up,
                    NEW e \in runStart..(next - 1)
             PROVE  (Recorded(e) \/ InFlight(e) \/ e \in dbLost)'
  BY DEF RunIsLossless, Emit, readVars, runVars
<1>1. UNCHANGED <<ch, dpc, msg, rows, dbLost>>
  BY DEF Emit, readVars, dealVars, dbVars
<1>2. /\ Len(chain) \in Nat /\ DOMAIN chain = 1..Len(chain)
      /\ \A x \in DOMAIN chain : chain'[x] = chain[x]
  BY ChainGrows
<1>3. next \in Nat /\ runStart \in Nat \ {0}
  BY DEF TypeOK, PipeTypeOK
<1>4. e \in DOMAIN chain
  BY <1>2, <1>3 DEF CursorOnChain
<1>5. chain'[e] = chain[e]
  BY <1>2, <1>4
<1>6. QED
  BY <1>1, <1>5 DEF RunIsLossless, Recorded, InFlight

LEMMA DealLogLossless == TypeOK /\ RunIsLossless /\ DealLog => RunIsLossless'
<1> SUFFICES ASSUME TypeOK, RunIsLossless, DealLog,
                    NEW e \in runStart..next
             PROVE  (Recorded(e) \/ InFlight(e) \/ e \in dbLost)'
  BY DEF RunIsLossless, DealLog, runVars, TypeOK, PipeTypeOK
<1>1. PICK r0 \in BOOLEAN, r1 \in BOOLEAN : ch' = Append(ch, PoolStat(next, r0, r1))
  BY DEF DealLog
<1>2. PoolStat(next, r0, r1) \in Messages /\ ch \in Seq(Messages)
  <2>1. next \in DOMAIN chain
    BY DEF DealLog, TypeOK, PipeTypeOK, WorldTypeOK
  <2>2. QED
    BY <2>1, PoolStatType DEF TypeOK, PipeTypeOK
<1>3. /\ DOMAIN ch = 1..Len(ch) /\ Len(ch) \in Nat
      /\ DOMAIN ch' = 1..(Len(ch) + 1)
      /\ \A i \in DOMAIN ch : ch'[i] = ch[i]
      /\ ch'[Len(ch) + 1] = PoolStat(next, r0, r1)
  BY <1>1, <1>2, AppendProperties
<1>4. UNCHANGED <<chain, dpc, msg, rows, dbLost, runStart>>
  BY DEF DealLog, chainVars, dealVars, dbVars, runVars
<1>5. CASE e = next
  <2>1. ch'[Len(ch) + 1].ev = e
    BY <1>3, <1>5 DEF PoolStat
  <2>2. QED
    BY <1>3, <2>1 DEF InFlight
<1>6. CASE e # next
  <2>1. Recorded(e) \/ InFlight(e) \/ e \in dbLost
    BY <1>6 DEF RunIsLossless, DealLog, TypeOK, PipeTypeOK
  <2>2. InFlight(e) => InFlight(e)'
    BY <1>3, <1>4 DEF InFlight
  <2>3. QED
    BY <1>4, <2>1, <2>2 DEF Recorded
<1>7. QED
  BY <1>5, <1>6

LEMMA ReceiveLossless == TypeOK /\ RunIsLossless /\ Receive => RunIsLossless'
<1> SUFFICES ASSUME TypeOK, RunIsLossless, Receive,
                    NEW e \in runStart..(next - 1)
             PROVE  (Recorded(e) \/ InFlight(e) \/ e \in dbLost)'
  BY DEF RunIsLossless, Receive, runVars
<1>1. /\ up /\ dpc = "recv" /\ ch # <<>> /\ ch' = Tail(ch) /\ dpc' # "recv"
      /\ msg' = [Head(ch) EXCEPT !.tick = TickOf(Head(ch))]
      /\ UNCHANGED <<chain, rows, dbLost>>
  BY DEF Receive, chainVars, dbVars
<1>2. ch \in Seq(Messages) /\ Head(ch) \in Messages
  BY <1>1, HeadTailProperties DEF TypeOK, PipeTypeOK
<1>3. /\ DOMAIN ch = 1..Len(ch) /\ Len(ch) \in Nat \ {0}
      /\ DOMAIN ch' = 1..(Len(ch) - 1)
      /\ \A i \in 2..Len(ch) : ch'[i - 1] = ch[i]
      /\ Head(ch) = ch[1]
  BY <1>1, <1>2
<1>4. msg'.ev = Head(ch).ev
  BY <1>1, <1>2 DEF Messages
<1>5. InFlight(e) => InFlight(e)'
  <2> SUFFICES ASSUME InFlight(e) PROVE InFlight(e)'
    OBVIOUS
  <2>1. PICK i \in DOMAIN ch : ch[i].ev = e
    BY <1>1 DEF InFlight
  <2>2. CASE i = 1
    BY <1>1, <1>3, <1>4, <2>1, <2>2 DEF InFlight
  <2>3. CASE i # 1
    <3>1. i - 1 \in DOMAIN ch' /\ ch'[i - 1].ev = e
      BY <1>3, <2>1, <2>3
    <3>2. QED
      BY <3>1 DEF InFlight
  <2>4. QED
    BY <2>2, <2>3
<1>6. QED
  BY <1>1, <1>5 DEF RunIsLossless, Recorded

\* What StoreVolume does to the tables: a statement failed; or there was a row with
\* the key of the event; or now there is its row.
LEMMA StoreVolumeAdds ==
    ASSUME TypeOK, Line, up, StoreVolume, NEW e, e = msg.ev, NEW row,
           row = [ev |-> msg.ev, tx |-> msg.tx, tick |-> msg.tick, res |-> pre,
                  vol |-> msg.vol, ts |-> now]
    PROVE  /\ e \in DOMAIN chain /\ chain[e].pool = msg.pool /\ chain[e].tx = row.tx
           /\ row \in VolumeRow /\ msg.pool \in Pools
           /\ \A x : Recorded(x) => Recorded(x)'
           /\ \/ dbFaults' # 0 /\ rows' = rows /\ dbLost' = dbLost \cup {e}
              \/ /\ Recorded(e)
                 /\ dbFaults' = dbFaults /\ dbLost' = dbLost /\ rows' = rows
              \/ /\ ~Recorded(e) /\ Recorded(e)'
                 /\ dbFaults' = dbFaults /\ dbLost' = dbLost
                 /\ rows' = [rows EXCEPT ![msg.pool] = Append(@, row)]
                 /\ \A x : Stored(x)' => Stored(x) \/ x = e
<1>0. PICK a : a = msg.pool
  OBVIOUS
<1>1. /\ dpc = "store" /\ chain' = chain
      /\ \/ /\ rows' = [rows EXCEPT ![a] = StorePoolVolume(@, row)]
            /\ dbFaults' = dbFaults /\ dbLost' = dbLost
         \/ dbFaults' = dbFaults + 1 /\ rows' = rows /\ dbLost' = dbLost \cup {e}
  BY <1>0 DEF StoreVolume, DbFault, chainVars
<1>2. /\ a \in Pools /\ row \in VolumeRow /\ row.ev = e /\ row.tx = msg.tx
      /\ rows \in [Pools -> Seq(VolumeRow)] /\ dbFaults \in Nat
  BY <1>0, <1>1, StoreVolumeRow, ServiceAssumption DEF TypeOK, TableTypeOK, WorldTypeOK
<1>3. e \in DOMAIN chain /\ chain[e].pool = a /\ chain[e].tx = row.tx
  BY <1>0, <1>1, <1>2 DEF Line, Tells
<1>4. rows[a] \in Seq(VolumeRow)
  BY <1>2
<1>5. /\ Recorded(e) <=> HasRow(rows[a], row.tx)
      /\ Recorded(e)' <=> HasRow(rows'[a], row.tx)
  BY <1>1, <1>3 DEF Recorded
<1>6. ASSUME NEW q, NEW t, HasRow(rows[q], t) PROVE HasRow(rows'[q], t)
  <2>1. HasRow(StorePoolVolume(rows[a], row), t) \/ q # a
    BY <1>2, <1>4, <1>6, StorePoolVolumeStores
  <2>2. CASE rows' = rows
    BY <1>6, <2>2
  <2>3. CASE rows' = [rows EXCEPT ![a] = StorePoolVolume(@, row)]
    <3>1. CASE q = a
      BY <1>2, <2>1, <2>3, <3>1
    <3>2. CASE q # a
      <4>1. rows'[q] = rows[q] \/ q \notin Pools
        BY <1>2, <2>3, <3>2
      <4>2. q \notin DOMAIN rows => rows'[q] = rows[q]
        BY <2>3, <3>2
      <4>3. QED
        BY <1>2, <1>6, <4>1, <4>2
    <3>3. QED
      BY <3>1, <3>2
  <2>4. QED
    BY <1>1, <2>2, <2>3
<1>7. \A x : Recorded(x) => Recorded(x)'
  BY <1>1, <1>6 DEF Recorded
<1>8. CASE dbFaults' = dbFaults + 1 /\ rows' = rows /\ dbLost' = dbLost \cup {e}
  BY <1>0, <1>2, <1>3, <1>7, <1>8
<1>9. CASE /\ rows' = [rows EXCEPT ![a] = StorePoolVolume(@, row)]
           /\ dbFaults' = dbFaults /\ dbLost' = dbLost
  <2>1. CASE Recorded(e)
    <3>1. rows' = rows
      BY <1>2, <1>5, <1>9, <2>1 DEF StorePoolVolume
    <3>2. QED
      BY <1>0, <1>2, <1>3, <1>7, <1>9, <2>1, <3>1
  <2>2. CASE ~Recorded(e)
    <3>1. rows' = [rows EXCEPT ![a] = Append(@, row)]
      BY <1>2, <1>5, <1>9, <2>2 DEF StorePoolVolume
    <3>2. rows'[a] = Append(rows[a], row) /\ \A q \in Pools : q # a => rows'[q] = rows[q]
      BY <1>2, <3>1
    <3>3. /\ DOMAIN rows[a] = 1..Len(rows[a]) /\ Len(rows[a]) \in Nat
          /\ DOMAIN rows'[a] = 1..(Len(rows[a]) + 1)
          /\ \A k \in 1..Len(rows[a]) : rows'[a][k] = rows[a][k]
          /\ rows'[a][Len(rows[a]) + 1] = row
      BY <1>2, <1>4, <3>2, AppendProperties
    <3>4. \A k \in DOMAIN rows'[a] :
             (k \in DOMAIN rows[a] /\ rows'[a][k] = rows[a][k]) \/ rows'[a][k] = row
      BY <3>3
    <3>5. \A x : Stored(x)' => Stored(x) \/ x = e
      BY <1>2, <3>2, <3>4 DEF Stored
    <3>6. HasRow(rows'[a], row.tx)
      BY <3>3 DEF HasRow
    <3>7. QED
      BY <1>0, <1>2, <1>3, <1>5, <1>7, <1>9, <2>2, <3>1, <3>5, <3>6
  <2>3. QED
    BY <2>1, <2>2
<1>10. QED
  BY <1>1, <1>8, <1>9

LEMMA StoreVolumeLossless ==
    TypeOK /\ Line /\ RunIsLossless /\ StoreVolume => RunIsLossless'
<1> SUFFICES ASSUME TypeOK, Line, RunIsLossless, StoreVolume, up,
                    NEW e \in runStart..(next - 1)
             PROVE  (Recorded(e) \/ InFlight(e) \/ e \in dbLost)'
  BY DEF RunIsLossless, StoreVolume, readVars, runVars
<1>1. dpc = "store" /\ dpc' = "recv" /\ ch' = ch
  BY DEF StoreVolume, readVars
<1>2. Recorded(e) \/ InFlight(e) \/ e \in dbLost
  BY DEF RunIsLossless
<1>3. PICK x, row : /\ x = msg.ev
                    /\ row = [ev |-> msg.ev, tx |-> msg.tx, tick |-> msg.tick, res |-> pre,
                              vol |-> msg.vol, ts |-> now]
  OBVIOUS
<1>4. /\ Recorded(e) => Recorded(e)'
      /\ Recorded(x)' \/ x \in dbLost'
      /\ dbLost \subseteq dbLost'
  <2>1. \A y : Recorded(y) => Recorded(y)'
    BY <1>3, StoreVolumeAdds
  <2>2. /\ Recorded(x) \/ Recorded(x)' \/ x \in dbLost'
        /\ dbLost \subseteq dbLost'
    BY <1>3, StoreVolumeAdds
  <2>3. QED
    BY <2>1, <2>2
<1>5. CASE e = x
  BY <1>4, <1>5
<1>6. CASE e # x
  <2>1. InFlight(e) => InFlight(e)'
    BY <1>1, <1>3, <1>6 DEF InFlight
  <2>2. QED
    BY <1>2, <1>4, <2>1
<1>7. QED
  BY <1>5, <1>6

LEMMA NextLossless ==
    TypeOK /\ CursorOnChain /\ Line /\ RunIsLossless /\ [Next]_vars => RunIsLossless'
<1> SUFFICES ASSUME TypeOK, CursorOnChain, Line, RunIsLossless, [Next]_vars
             PROVE  RunIsLossless'
  OBVIOUS
<1> USE DEF chainVars, readVars, dealVars, dbVars, runVars
<1>1. CASE Emit
  BY <1>1, EmitLossless
<1>2. CASE Start
  <2>1. next' = StartFrom /\ runStart' = StartFrom /\ StartFrom \in Nat
    BY <1>2, StartsAt DEF Start, TypeOK
  <2>2. runStart'..(next' - 1) = {}
    BY <2>1
  <2>3. QED
    BY <2>2 DEF RunIsLossless
<1>3. CASE Crash
  BY <1>3 DEF Crash, RunIsLossless
<1>4. CASE DealLog
  BY <1>4, DealLogLossless
<1>5. CASE Receive
  BY <1>5, ReceiveLossless
<1>6. CASE Tick \/ AddVolume
  BY <1>6, LosslessFrame DEF Tick, AddVolume
<1>7. CASE StoreVolume
  <2>1. up
    BY <1>7 DEF StoreVolume
  <2>2. QED
    BY <1>7, <2>1, StoreVolumeLossless
<1>8. CASE Overview
  BY <1>8, LosslessFrame DEF Overview
<1>9. CASE NoticeDay
  BY <1>9, LosslessFrame DEF NoticeDay
<1>10. CASE CountRead
  BY <1>10, LosslessFrame DEF CountRead
<1>11. CASE CountStore
  BY <1>11, LosslessFrame DEF CountStore
<1>12. CASE UNCHANGED vars
  BY <1>12, LosslessFrame DEF vars
<1>13. QED
  BY <1>1, <1>2, <1>3, <1>4, <1>5, <1>6, <1>7, <1>8, <1>9, <1>10, <1>11, <1>12 DEF Next

\* Of every transaction of a pool that this run has read there is a row, or it is on its
\* way, or the database refused it, for every capacity of the channel (dealPoolV3Log,
\* chPoolStat, dealTickV3, StorePoolVolume).
THEOREM Lossless == Spec => []RunIsLossless
<1>1. Init => RunIsLossless
  BY ServiceAssumption DEF Init, RunIsLossless
<1>2. Init => CursorOnChain /\ Line
  BY InitCursor DEF Init, Line
<1>3. QED
  BY <1>1, <1>2, TypeCorrect, NextCursor, NextLine, NextLossless, PTL DEF Spec
-----------------------------------------------------------------------------
(* No event is in a table twice, and which are in the windows twice *)

LEMMA NextRows == TypeOK /\ Line /\ RowsOnce /\ [Next]_vars => RowsOnce'
<1> SUFFICES ASSUME TypeOK, Line, RowsOnce, [Next]_vars PROVE RowsOnce'
  OBVIOUS
<1> USE DEF chainVars, dbVars
<1>1. CASE Emit
  <2>1. /\ rows' = rows
        /\ \A e \in DOMAIN chain : e \in DOMAIN chain' /\ chain'[e] = chain[e]
    BY <1>1, ChainGrows DEF Emit
  <2>2. QED
    BY <2>1 DEF RowsOnce
<1>2. CASE StoreVolume
  <2> DEFINE row == [ev |-> msg.ev, tx |-> msg.tx, tick |-> msg.tick, res |-> pre,
                     vol |-> msg.vol, ts |-> now]
  <2>1. /\ up /\ dpc = "store" /\ chain' = chain
        /\ \/ rows' = [rows EXCEPT ![msg.pool] = StorePoolVolume(@, row)]
           \/ rows' = rows
    BY <1>2 DEF StoreVolume
  <2>2. /\ msg.pool \in Pools /\ row \in VolumeRow /\ row.ev = msg.ev /\ row.tx = msg.tx
        /\ rows \in [Pools -> Seq(VolumeRow)]
    BY <2>1, StoreVolumeRow DEF TypeOK, TableTypeOK
  <2>3. /\ msg.ev \in DOMAIN chain /\ chain[msg.ev].pool = msg.pool
        /\ chain[msg.ev].tx = msg.tx
    BY <2>1 DEF Line, Tells
  <2> HIDE DEF row
  <2>4. ASSUME NEW p \in Pools, NEW i \in DOMAIN rows'[p]
        PROVE  /\ rows'[p][i].ev \in DOMAIN chain /\ chain[rows'[p][i].ev].pool = p
               /\ chain[rows'[p][i].ev].tx = rows'[p][i].tx
               /\ \A j \in DOMAIN rows'[p] : rows'[p][i].ev = rows'[p][j].ev => i = j
    <3>1. CASE rows'[p] = rows[p]
      BY <2>4, <3>1 DEF RowsOnce
    <3>2. CASE p = msg.pool /\ rows'[p] = Append(rows[p], row) /\ ~HasRow(rows[p], row.tx)
      <4>1. /\ DOMAIN rows[p] = 1..Len(rows[p]) /\ Len(rows[p]) \in Nat
            /\ DOMAIN rows'[p] = 1..(Len(rows[p]) + 1)
            /\ \A k \in 1..Len(rows[p]) : rows'[p][k] = rows[p][k]
            /\ rows'[p][Len(rows[p]) + 1] = row
        BY <2>2, <3>2, AppendProperties
      <4>2. \A k \in 1..(Len(rows[p]) + 1) : k \in 1..Len(rows[p]) \/ k = Len(rows[p]) + 1
        BY <4>1
      <4>3. \A k \in 1..Len(rows[p]) : rows[p][k].ev # row.ev
        <5> SUFFICES ASSUME NEW k \in 1..Len(rows[p]), rows[p][k].ev = row.ev PROVE FALSE
          OBVIOUS
        <5>1. k \in DOMAIN rows[p]
          BY <4>1
        <5>2. chain[rows[p][k].ev].tx = rows[p][k].tx
          BY <5>1 DEF RowsOnce
        <5>3. rows[p][k].tx = row.tx
          BY <2>2, <2>3, <5>2
        <5>4. QED
          BY <3>2, <5>1, <5>3 DEF HasRow
      <4>4. \A k \in 1..Len(rows[p]) :
               /\ rows[p][k].ev \in DOMAIN chain /\ chain[rows[p][k].ev].pool = p
               /\ chain[rows[p][k].ev].tx = rows[p][k].tx
               /\ \A j \in 1..Len(rows[p]) : rows[p][k].ev = rows[p][j].ev => k = j
        BY <4>1 DEF RowsOnce
      <4>5. /\ rows'[p][i].ev \in DOMAIN chain /\ chain[rows'[p][i].ev].pool = p
            /\ chain[rows'[p][i].ev].tx = rows'[p][i].tx
        BY <2>2, <2>3, <2>4, <3>2, <4>1, <4>2, <4>4
      <4>6. \A j \in DOMAIN rows'[p] : rows'[p][i].ev = rows'[p][j].ev => i = j
        BY <2>4, <4>1, <4>2, <4>3, <4>4
      <4>7. QED
        BY <4>5, <4>6
    <3>3. QED
      BY <2>1, <2>2, <3>1, <3>2 DEF StorePoolVolume
  <2>5. QED
    BY <2>1, <2>4 DEF RowsOnce
<1>3. CASE Tick \/ Start \/ Crash \/ DealLog \/ Receive \/ AddVolume
  BY <1>3 DEF Tick, Start, Crash, DealLog, Receive, AddVolume, RowsOnce
<1>4. CASE Overview \/ NoticeDay \/ CountRead \/ CountStore \/ UNCHANGED vars
  BY <1>4 DEF Overview, NoticeDay, CountRead, CountStore, vars, RowsOnce
<1>5. QED
  BY <1>1, <1>2, <1>3, <1>4 DEF Next

\* A suffix of a window is as good as the window.
LEMMA SuffixOnce ==
    ASSUME NEW S, NEW s \in Seq(S), NEW u \in Seq(S), Len(u) <= Len(s),
           \A i \in 1..Len(u) : u[i] = s[i + Len(s) - Len(u)]
    PROVE  /\ Once(s) => Once(u)
           /\ \A e : Fresh(s, e) => Fresh(u, e)
<1> DEFINE d == Len(s) - Len(u)
<1>1. /\ DOMAIN s = 1..Len(s) /\ DOMAIN u = 1..Len(u) /\ Len(s) \in Nat /\ Len(u) \in Nat
      /\ d \in Nat
  OBVIOUS
<1>2. \A i \in 1..Len(u) : i + d \in 1..Len(s) /\ u[i] = s[i + d]
  BY <1>1
<1>3. \A i, j \in 1..Len(u) : (i < j => i + d < j + d) /\ (i + d = j + d => i = j)
  BY <1>1
<1> HIDE DEF d
<1>4. ASSUME Once(s), NEW i \in 1..Len(u), NEW j \in 1..Len(u), i < j, u[i].ev = u[j].ev
      PROVE  /\ u[j].ev \in loaded /\ u[j].ev >= runStart
             /\ \A k \in 1..Len(u) : u[k].ev = u[j].ev => k \in {i, j}
  <2>1. i + d < j + d /\ s[i + d].ev = s[j + d].ev
    BY <1>2, <1>3, <1>4
  <2>2. /\ s[j + d].ev \in loaded /\ s[j + d].ev >= runStart
        /\ \A k \in 1..Len(s) : s[k].ev = s[j + d].ev => k \in {i + d, j + d}
    BY <1>1, <1>2, <1>4, <2>1 DEF Once
  <2>3. QED
    BY <1>2, <1>3, <2>2
<1>5. ASSUME NEW e, Fresh(s, e), NEW i \in 1..Len(u)
      PROVE  /\ u[i].ev \in loaded \/ u[i].ev < e
             /\ \A j \in 1..Len(u) : i < j /\ u[i].ev = u[j].ev => u[j].ev < e
  <2>1. i + d \in 1..Len(s) /\ u[i] = s[i + d]
    BY <1>2, <1>5
  <2>2. /\ s[i + d].ev \in loaded \/ s[i + d].ev < e
        /\ \A k \in 1..Len(s) : i + d < k /\ s[i + d].ev = s[k].ev => s[k].ev < e
    BY <1>1, <1>5, <2>1 DEF Fresh
  <2>3. \A j \in 1..Len(u) : i < j => i + d < j + d /\ j + d \in 1..Len(s) /\ u[j] = s[j + d]
    BY <1>2, <1>3, <1>5
  <2>4. QED
    BY <2>1, <2>2, <2>3
<1>6. Once(s) => Once(u)
  BY <1>1, <1>4 DEF Once
<1>7. \A e : Fresh(s, e) => Fresh(u, e)
  BY <1>1, <1>5 DEF Fresh
<1>8. QED
  BY <1>6, <1>7

LEMMA EvictOnce ==
    ASSUME NEW w \in Seq(Volume), NEW t \in Int
    PROVE  /\ Once(w) => Once(Evict(w, t))
           /\ \A e : Fresh(w, e) => Fresh(Evict(w, t), e)
<1>1. /\ Evict(w, t) \in Seq(Volume) /\ Len(Evict(w, t)) <= Len(w)
      /\ \A i \in 1..Len(Evict(w, t)) : Evict(w, t)[i] = w[i + Len(w) - Len(Evict(w, t))]
  BY EvictSuffix
<1>2. QED
  BY <1>1, SuffixOnce

\* A window gets an event that is fresh to it.
LEMMA AppendOnce ==
    ASSUME NEW w \in Seq(Volume), NEW v \in Volume, Once(w), Fresh(w, v.ev), v.ev >= runStart
    PROVE  Once(Append(w, v)) /\ Fresh(Append(w, v), v.ev + 1)
<1> DEFINE u == Append(w, v)
           n == Len(w)
<1>1. /\ DOMAIN w = 1..n /\ n \in Nat /\ DOMAIN u = 1..(n + 1)
      /\ \A i \in 1..n : u[i] = w[i]
      /\ u[n + 1] = v
  BY AppendProperties
<1>2. /\ \A i \in 1..(n + 1) : i \in 1..n \/ i = n + 1
      /\ \A i \in 1..n : i \in 1..(n + 1) /\ i < n + 1 /\ ~(n + 1 < i)
      /\ ~(n + 1 < n + 1)
  BY <1>1
<1>3. \A i \in 1..n : w[i].ev \in Nat
  <2>1. \A i \in 1..n : w[i] \in Volume
    BY <1>1
  <2>2. QED
    BY <2>1 DEF Volume
<1>4. v.ev \in Nat
  BY DEF Volume
<1>5. \A i, j \in 1..n : i < j /\ w[i].ev = w[j].ev => w[j].ev < v.ev
  BY <1>1 DEF Fresh
<1> HIDE DEF u, n
<1>6. ASSUME NEW i \in 1..(n + 1), NEW j \in 1..(n + 1), i < j, u[i].ev = u[j].ev
      PROVE  /\ u[j].ev \in loaded /\ u[j].ev >= runStart
             /\ \A k \in 1..(n + 1) : u[k].ev = u[j].ev => k \in {i, j}
             /\ u[j].ev < v.ev + 1
  <2>1. i \in 1..n
    BY <1>2, <1>6
  <2>2. CASE j \in 1..n
    <3>1. /\ u[j].ev \in loaded /\ u[j].ev >= runStart /\ u[j].ev < v.ev
          /\ \A k \in 1..n : u[k].ev = u[j].ev => k \in {i, j}
      BY <1>1, <1>5, <1>6, <2>1, <2>2 DEF Once
    <3>2. u[n + 1].ev # u[j].ev
      BY <1>1, <1>3, <1>4, <2>2, <3>1
    <3>3. ASSUME NEW k \in 1..(n + 1), u[k].ev = u[j].ev PROVE k \in {i, j}
      <4>1. k \in 1..n
        BY <1>2, <3>2, <3>3
      <4>2. QED
        BY <3>1, <3>3, <4>1
    <3>4. u[j].ev \in Nat
      BY <1>1, <1>3, <2>2
    <3>5. u[j].ev < v.ev + 1
      BY <1>4, <3>1, <3>4
    <3>6. QED
      BY <3>1, <3>3, <3>5
  <2>3. CASE j = n + 1
    <3>1. u[j] = v /\ w[i].ev = v.ev
      BY <1>1, <1>6, <2>1, <2>3
    <3>2. v.ev \in loaded
      BY <1>1, <1>4, <2>1, <3>1 DEF Fresh
    <3>3. ASSUME NEW k \in 1..n, w[k].ev = v.ev PROVE k = i
      <4>1. ~(k < i) /\ ~(i < k)
        BY <1>4, <1>5, <2>1, <3>1, <3>3
      <4>2. QED
        BY <1>1, <2>1, <4>1
    <3>4. \A k \in 1..(n + 1) : u[k].ev = u[j].ev => k \in {i, j}
      BY <1>1, <1>2, <2>3, <3>1, <3>3
    <3>5. QED
      BY <1>4, <3>1, <3>2, <3>4
  <2>4. QED
    BY <1>2, <2>2, <2>3
<1>7. Once(u)
  BY <1>1, <1>6 DEF Once
<1>8. \A i \in 1..(n + 1) : u[i].ev \in loaded \/ u[i].ev < v.ev + 1
  BY <1>1, <1>2, <1>3, <1>4 DEF Fresh
<1>9. Fresh(u, v.ev + 1)
  BY <1>1, <1>6, <1>8 DEF Fresh
<1>10. QED
  BY <1>7, <1>9 DEF u

LEMMA FreshLater ==
    ASSUME NEW w \in Seq(Volume), NEW e \in Int, NEW f \in Int, e <= f, Fresh(w, e)
    PROVE  Fresh(w, f)
<1>1. \A i \in DOMAIN w : w[i].ev \in Nat
  <2>1. \A i \in DOMAIN w : w[i] \in Volume
    OBVIOUS
  <2>2. QED
    BY <2>1 DEF Volume
<1>2. QED
  BY <1>1 DEF Fresh

\* Reading does not change which event the consumer awaits; receiving does.
LEMMA DealLogAwaits == TypeOK /\ DealLog => Awaited' = Awaited
<1> SUFFICES ASSUME TypeOK, DealLog PROVE Awaited' = Awaited
  OBVIOUS
<1>1. next' = next + 1 /\ \E r0, r1 \in BOOLEAN : ch' = Append(ch, PoolStat(next, r0, r1))
  BY DEF DealLog
<1>2. ch \in Seq(Messages) /\ next \in Nat
  BY DEF TypeOK, PipeTypeOK
<1>3. \A x : Len(Append(ch, x)) = Len(ch) + 1
  BY <1>2
<1>4. Len(ch') = Len(ch) + 1 /\ Len(ch) \in Nat
  BY <1>1, <1>2, <1>3
<1>5. \A a, b \in Nat : (a + 1) - (b + 1) = a - b
  OBVIOUS
<1>6. QED
  BY <1>1, <1>2, <1>4, <1>5 DEF Awaited

LEMMA ReceiveAwaits ==
    ASSUME TypeOK, Line, Receive
    PROVE  /\ up /\ dpc = "recv" /\ 1 \in DOMAIN ch /\ Head(ch) = ch[1] /\ ch[1] \in Messages
           /\ msg' = [ch[1] EXCEPT !.tick = TickOf(ch[1])]
           /\ msg'.ev = Awaited /\ Awaited \in Nat /\ Awaited' = Awaited + 1
<1>1. /\ up /\ dpc = "recv" /\ ch # <<>> /\ ch' = Tail(ch) /\ next' = next
      /\ msg' = [Head(ch) EXCEPT !.tick = TickOf(Head(ch))]
  BY DEF Receive
<1>2. ch \in Seq(Messages) /\ next \in Nat
  BY DEF TypeOK, PipeTypeOK
<1>3. /\ 1 \in DOMAIN ch /\ Head(ch) = ch[1] /\ ch[1] \in Messages
      /\ Len(ch) \in Nat /\ Len(ch') = Len(ch) - 1
  BY <1>1, <1>2
<1>4. Awaited' = Awaited + 1 /\ Awaited \in Int
  BY <1>1, <1>2, <1>3 DEF Awaited
<1>5. ch[1].ev = Awaited
  BY <1>1, <1>3, <1>4 DEF Line
<1>6. msg'.ev = ch[1].ev /\ ch[1].ev \in Nat
  BY <1>1, <1>3 DEF Messages
<1>7. QED
  BY <1>1, <1>3, <1>4, <1>5, <1>6

\* Every event of the sequence is in it once.
EachOnce(s) == \A i, j \in DOMAIN s : s[i].ev = s[j].ev => i = j

LEMMA SuffixEach ==
    ASSUME NEW S, NEW s \in Seq(S), NEW u \in Seq(S), Len(u) <= Len(s),
           \A i \in 1..Len(u) : u[i] = s[i + Len(s) - Len(u)], EachOnce(s)
    PROVE  EachOnce(u)
<1> DEFINE d == Len(s) - Len(u)
<1>1. /\ DOMAIN s = 1..Len(s) /\ DOMAIN u = 1..Len(u) /\ Len(s) \in Nat /\ Len(u) \in Nat
      /\ d \in Nat
  OBVIOUS
<1>2. \A i \in 1..Len(u) : i + d \in 1..Len(s) /\ u[i] = s[i + d]
  BY <1>1
<1>3. \A i, j \in 1..Len(u) : i + d = j + d => i = j
  BY <1>1
<1> HIDE DEF d
<1>4. ASSUME NEW i \in 1..Len(u), NEW j \in 1..Len(u), u[i].ev = u[j].ev PROVE i = j
  <2>1. /\ i + d \in DOMAIN s /\ j + d \in DOMAIN s
        /\ s[i + d].ev = s[j + d].ev
    BY <1>1, <1>2, <1>4
  <2>2. i + d = j + d
    BY <2>1 DEF EachOnce
  <2>3. QED
    BY <1>3, <2>2
<1>5. QED
  BY <1>1, <1>4 DEF EachOnce

LEMMA LoadOnce ==
    ASSUME NEW table \in Seq(VolumeRow), NEW t \in Nat, EachOnce(table)
    PROVE  EachOnce(Get24hVolumes(table, t))
<1> DEFINE young == {i \in DOMAIN table : table[i].ts > t - DayLen}
           sel == IF young = {} THEN <<>> ELSE SubSeq(table, Min(young), Len(table))
<1>1. sel \in Seq(VolumeRow) /\ EachOnce(sel)
  <2>1. CASE young = {}
    BY <2>1 DEF EachOnce
  <2>2. CASE young # {}
    <3>1. young \in SUBSET (DOMAIN table) /\ sel = SubSeq(table, Min(young), Len(table))
      BY <2>2
    <3> HIDE DEF young, sel
    <3>2. /\ Min(young) \in 1..Len(table) /\ sel \in Seq(VolumeRow)
          /\ Len(sel) = Len(table) - Min(young) + 1 /\ Len(table) \in Nat
          /\ \A i \in 1..Len(sel) : sel[i] = table[i + Min(young) - 1]
      BY <2>2, <3>1, SuffixOfSeq
    <3>3. Len(sel) <= Len(table) /\ \A i \in 1..Len(sel) : sel[i] = table[i + Len(table) - Len(sel)]
      BY <3>2
    <3>4. QED
      BY <3>2, <3>3, SuffixEach
  <2>3. QED
    BY <2>1, <2>2
<1>2. Get24hVolumes(table, t) =
        [i \in DOMAIN sel |->
            [ev |-> sel[i].ev, vol |-> sel[i].vol, ts |-> sel[i].ts + Zone]]
  BY DEF Get24hVolumes
<1> HIDE DEF sel
<1>3. QED
  BY <1>1, <1>2 DEF EachOnce

LEMMA AppendAllOnce ==
    ASSUME NEW load \in Seq(Volume), NEW t \in Int, EachOnce(load)
    PROVE  EachOnce(AppendAll(load, t))
<1>1. CASE load # <<>> /\ Evict(load, t) = <<>>
  <2>1. AppendAll(load, t) = <<Last(load)>>
    BY <1>1 DEF AppendAll
  <2>2. QED
    BY <2>1 DEF EachOnce
<1>2. CASE ~(load # <<>> /\ Evict(load, t) = <<>>)
  <2>1. /\ Evict(load, t) \in Seq(Volume) /\ Len(Evict(load, t)) <= Len(load)
        /\ \A i \in 1..Len(Evict(load, t)) :
              Evict(load, t)[i] = load[i + Len(load) - Len(Evict(load, t))]
    BY EvictSuffix
  <2>2. EachOnce(Evict(load, t))
    BY <2>1, SuffixEach
  <2>3. AppendAll(load, t) = Evict(load, t)
    BY <1>2 DEF AppendAll
  <2>4. QED
    BY <2>2, <2>3
<1>3. QED
  BY <1>1, <1>2

LEMMA StartFresh == TypeOK /\ RowsOnce /\ Start => WindowsFresh'
<1> SUFFICES ASSUME TypeOK, RowsOnce, Start PROVE WindowsFresh'
  OBVIOUS
<1>1. /\ win' = [p \in Pools |-> AppendAll(Get24hVolumes(rows[p], now), now)]
      /\ loaded' = UNION {{win'[p][i].ev : i \in DOMAIN win'[p]} : p \in Pools}
      /\ dpc' = "recv"
  BY DEF Start
<1>2. ASSUME NEW p \in Pools
      PROVE  EachOnce(win'[p]) /\ \A i \in DOMAIN win'[p] : win'[p][i].ev \in loaded'
  <2>1. now \in Nat /\ rows[p] \in Seq(VolumeRow)
    BY DEF TypeOK, WorldTypeOK, TableTypeOK
  <2>2. EachOnce(rows[p])
    BY DEF RowsOnce, EachOnce
  <2>3. Get24hVolumes(rows[p], now) \in Seq(Volume) /\ EachOnce(Get24hVolumes(rows[p], now))
    BY <2>1, <2>2, Get24hVolumesType, LoadOnce
  <2>4. EachOnce(AppendAll(Get24hVolumes(rows[p], now), now))
    BY <2>1, <2>3, AppendAllOnce
  <2>5. win'[p] = AppendAll(Get24hVolumes(rows[p], now), now)
    BY <1>1
  <2>6. \A i \in DOMAIN win'[p] : win'[p][i].ev \in loaded'
    BY <1>1
  <2>7. QED
    BY <2>4, <2>5, <2>6
<1>3. ASSUME NEW p \in Pools PROVE Once(win[p])' /\ Fresh(win[p], Awaited)'
  <2>1. win'[p] \in Seq(Volume)
    BY StartTypeOK DEF TypeOK, MemoryTypeOK
  <2>2. DOMAIN win'[p] = 1..Len(win'[p])
    BY <2>1
  <2>3. \A i, j \in DOMAIN win'[p] : ~(i < j /\ win'[p][i].ev = win'[p][j].ev)
    BY <1>2, <2>2 DEF EachOnce
  <2>4. Once(win[p])'
    BY <2>3 DEF Once
  <2>5. Fresh(win[p], Awaited)'
    BY <1>2, <2>3 DEF Fresh
  <2>6. QED
    BY <2>4, <2>5
<1>4. QED
  BY <1>1, <1>3 DEF WindowsFresh

\* A step that leaves the loaded rows and the begin of the run alone.
LEMMA FreshFrame ==
    ASSUME UNCHANGED <<loaded, runStart>>, NEW w
    PROVE  /\ Once(w)' <=> Once(w)
           /\ \A e : Fresh(w, e)' <=> Fresh(w, e)
BY DEF Once, Fresh

LEMMA ReceiveFresh == TypeOK /\ Line /\ WindowsFresh /\ Receive => WindowsFresh'
<1> SUFFICES ASSUME TypeOK, Line, WindowsFresh, Receive PROVE WindowsFresh'
  OBVIOUS
<1>1. up /\ UNCHANGED <<win, loaded, runStart>>
  BY DEF Receive, runVars
<1>2. msg'.ev = Awaited /\ Awaited \in Nat /\ Awaited' = Awaited + 1
  BY ReceiveAwaits
<1>3. ASSUME NEW p \in Pools
      PROVE  Once(win[p])' /\ Fresh(win[p], Awaited)' /\ Fresh(win[p], msg.ev)'
  <2> DEFINE w == win[p]
  <2>1. w \in Seq(Volume) /\ Once(w) /\ Fresh(w, Awaited)
    BY <1>1 DEF WindowsFresh, TypeOK, MemoryTypeOK
  <2>2. Fresh(w, Awaited + 1)
    <3> HIDE DEF w
    <3>1. Awaited + 1 \in Int /\ Awaited <= Awaited + 1 /\ Awaited \in Int
      BY <1>2
    <3>2. QED
      BY <2>1, <3>1, FreshLater
  <2>3. win'[p] = w
    BY <1>1
  <2>4. Once(win[p])'
    BY <1>1, <2>1, <2>3 DEF Once
  <2>5. Fresh(win[p], msg.ev)'
    BY <1>1, <1>2, <2>1, <2>3 DEF Fresh
  <2>6. Fresh(win[p], Awaited)'
    BY <1>1, <1>2, <2>2, <2>3 DEF Fresh
  <2>7. QED
    BY <2>4, <2>5, <2>6
<1>4. QED
  BY <1>3 DEF WindowsFresh

LEMMA AddVolumeFresh == TypeOK /\ Line /\ WindowsFresh /\ AddVolume => WindowsFresh'
<1> SUFFICES ASSUME TypeOK, Line, WindowsFresh, AddVolume PROVE WindowsFresh'
  OBVIOUS
<1> DEFINE v == [ev |-> msg.ev, vol |-> msg.vol, ts |-> msg.ts]
<1>1. /\ up /\ dpc = "volume" /\ dpc' = "store"
      /\ win' = [win EXCEPT ![msg.pool] = AppendVolume(@, now, v)]
      /\ UNCHANGED <<next, ch, loaded, runStart>>
  BY DEF AddVolume, readVars, runVars
<1>2. /\ msg \in Messages /\ win \in [Pools -> Seq(Volume)] /\ now \in Nat
      /\ msg.ev \in Nat /\ next \in Nat /\ ch \in Seq(Messages)
  BY <1>1 DEF TypeOK, PipeTypeOK, MemoryTypeOK, WorldTypeOK, Messages
<1>3. v \in Volume /\ v.ev = msg.ev /\ msg.pool \in Pools
  BY <1>2 DEF Messages, Volume
<1> HIDE DEF v
<1>4. msg.ev = Awaited - 1 /\ runStart <= msg.ev /\ Awaited' = Awaited
  BY <1>1 DEF Line, Awaited
<1>5. Awaited \in Int
  BY <1>2 DEF Awaited
<1>6. v.ev + 1 = Awaited /\ v.ev >= runStart
  BY <1>2, <1>3, <1>4, <1>5 DEF TypeOK, PipeTypeOK
<1>7. ASSUME NEW p \in Pools PROVE Once(win'[p]) /\ Fresh(win'[p], Awaited)
  <2>1. Once(win[p]) /\ Fresh(win[p], Awaited) /\ Fresh(win[p], msg.ev)
    BY <1>1 DEF WindowsFresh
  <2>2. CASE p # msg.pool
    BY <1>1, <1>2, <2>1, <2>2
  <2>3. CASE p = msg.pool
    <3> DEFINE u == Evict(win[p], now)
    <3>1. win'[p] = Append(u, v)
      BY <1>1, <1>2, <2>3 DEF AppendVolume
    <3>2. win[p] \in Seq(Volume) /\ now \in Int
      BY <1>2
    <3>3. u \in Seq(Volume)
      BY <3>2, EvictSuffix
    <3>4. Once(u) /\ Fresh(u, v.ev)
      BY <1>3, <2>1, <3>2, EvictOnce
    <3> HIDE DEF u
    <3>5. Once(Append(u, v)) /\ Fresh(Append(u, v), v.ev + 1)
      BY <1>3, <1>6, <3>3, <3>4, AppendOnce
    <3>6. QED
      BY <1>6, <3>1, <3>5
  <2>4. QED
    BY <2>2, <2>3
<1>8. \A p \in Pools : Once(win[p])' /\ Fresh(win[p], Awaited)'
  BY <1>1, <1>4, <1>7 DEF Once, Fresh
<1>9. dpc' # "volume"
  BY <1>1
<1>10. QED
  BY <1>8, <1>9 DEF WindowsFresh

\* The handlers and the counter evict.
LEMMA EvictFresh == TypeOK /\ WindowsFresh /\ (Overview \/ CountRead) => WindowsFresh'
<1> SUFFICES ASSUME TypeOK, WindowsFresh, Overview \/ CountRead PROVE WindowsFresh'
  OBVIOUS
<1>1. PICK p \in Pools : win' = [win EXCEPT ![p] = Evict(@, now)]
  BY DEF Overview, CountRead, TypeOK, CountTypeOK
<1>2. up /\ UNCHANGED <<next, ch, dpc, msg, loaded, runStart>>
  BY DEF Overview, CountRead, readVars, dealVars, runVars
<1>3. win \in [Pools -> Seq(Volume)] /\ now \in Int
  BY DEF TypeOK, MemoryTypeOK, WorldTypeOK
<1>4. ASSUME NEW q \in Pools
      PROVE  /\ Once(win'[q]) /\ Fresh(win'[q], Awaited)
             /\ dpc = "volume" => Fresh(win'[q], msg.ev)
  <2>1. /\ win[q] \in Seq(Volume) /\ Once(win[q]) /\ Fresh(win[q], Awaited)
        /\ dpc = "volume" => Fresh(win[q], msg.ev)
    BY <1>2, <1>3 DEF WindowsFresh
  <2>2. win'[q] = win[q] \/ win'[q] = Evict(win[q], now)
    BY <1>1, <1>3
  <2>3. /\ Once(Evict(win[q], now))
        /\ \A e : Fresh(win[q], e) => Fresh(Evict(win[q], now), e)
    BY <1>3, <2>1, EvictOnce
  <2>4. QED
    BY <2>1, <2>2, <2>3
<1>5. \A q \in Pools : /\ Once(win[q])' /\ Fresh(win[q], Awaited)'
                       /\ dpc' = "volume" => Fresh(win[q], msg.ev)'
  BY <1>2, <1>4 DEF Once, Fresh, Awaited
<1>6. QED
  BY <1>5 DEF WindowsFresh

LEMMA NextFresh ==
    TypeOK /\ Line /\ RowsOnce /\ WindowsFresh /\ [Next]_vars => WindowsFresh'
<1> SUFFICES ASSUME TypeOK, Line, RowsOnce, WindowsFresh, [Next]_vars PROVE WindowsFresh'
  OBVIOUS
<1> USE DEF readVars, dealVars, memVars, runVars
<1>1. CASE Emit \/ Tick \/ NoticeDay \/ CountStore \/ UNCHANGED vars
  <2>1. UNCHANGED <<up, next, ch, dpc, msg, win, loaded, runStart>>
    BY <1>1 DEF Emit, Tick, NoticeDay, CountStore, vars
  <2>2. QED
    BY <2>1 DEF WindowsFresh, Once, Fresh, Awaited
<1>2. CASE DealLog
  <2>1. UNCHANGED <<up, dpc, msg, win, loaded, runStart>> /\ Awaited' = Awaited
    BY <1>2, DealLogAwaits DEF DealLog
  <2>2. QED
    BY <2>1 DEF WindowsFresh, Once, Fresh
<1>3. CASE StoreVolume
  <2>1. UNCHANGED <<up, next, ch, win, loaded, runStart>> /\ dpc' # "volume"
    BY <1>3 DEF StoreVolume
  <2>2. QED
    BY <2>1 DEF WindowsFresh, Once, Fresh, Awaited
<1>4. CASE Crash
  BY <1>4 DEF Crash, WindowsFresh
<1>5. QED
  BY <1>1, <1>2, <1>3, <1>4, StartFresh, ReceiveFresh, AddVolumeFresh, EvictFresh DEF Next

\* In one run an event enters a window once; the only ones in it twice were loaded
\* from the table and read again (initPoolStat and fromHeight -= 400).
THEOREM ReplayedOnce == Spec => []ReplayOnlyDuplicates
<1>1. Init => Line /\ RowsOnce /\ WindowsFresh
  BY DEF Init, Line, RowsOnce, WindowsFresh
<1>2. WindowsFresh => ReplayOnlyDuplicates
  BY DEF WindowsFresh, Once, ReplayOnlyDuplicates
<1>3. QED
  BY <1>1, <1>2, TypeCorrect, NextLine, NextRows, NextFresh, PTL DEF Spec
-----------------------------------------------------------------------------
(* Without a failed statement the rows have no gap, and so the last row of a *)
(* pool is that of its last event that is stored                             *)

\* What this run received before the event it works on is recorded or was lost.
LEMMA ReceivedStored ==
    ASSUME TypeOK, Line, RunIsLossless, up, NEW e \in Nat, runStart <= e,
           IF dpc = "recv" THEN e < Awaited ELSE e < msg.ev
    PROVE  Recorded(e) \/ e \in dbLost
<1>1. next \in Nat /\ ch \in Seq(Messages) /\ runStart \in Nat /\ Len(ch) \in Nat
  BY DEF TypeOK, PipeTypeOK
<1>2. DOMAIN ch = 1..Len(ch) /\ Awaited \in Int /\ Awaited <= next
  BY <1>1 DEF Awaited
<1>3. dpc # "recv" => msg.ev = Awaited - 1
  BY DEF Line
<1>4. e < Awaited
  BY <1>2, <1>3
<1>5. \A i \in DOMAIN ch : ch[i].ev = Awaited + i - 1
  BY DEF Line
<1>6. \A i \in DOMAIN ch : ch[i].ev # e
  BY <1>2, <1>4, <1>5
<1>7. dpc # "recv" => msg.ev # e
  BY <1>2, <1>3
<1>8. ~InFlight(e)
  BY <1>6, <1>7 DEF InFlight
<1>9. e \in runStart..(next - 1)
  BY <1>1, <1>2, <1>4
<1>10. QED
  BY <1>8, <1>9 DEF RunIsLossless

\* The same of the next state.
StartsWell ==
    /\ StartFrom \in Nat
    /\ ~(ChainHead < Lookback) =>
          \/ StartFrom = Len(chain) + 1
          \/ StartFrom \in DOMAIN chain /\ Height(StartFrom) >= ChainHead - Lookback

LEMMA WellStarted == WorldTypeOK => StartsWell
BY StartsAt DEF StartsWell

LEMMA StartsWellNext == WorldTypeOK' => StartsWell'
BY WellStarted, PTL

\* The head of the chain and the start of a run only move forward.
LEMMA EmitMoves ==
    ASSUME TypeOK, CursorOnChain, Emit, ~(ChainHead < Lookback)
    PROVE  ~(ChainHead < Lookback)' /\ StartFrom <= StartFrom'
<1>1. PICK p \in Pools, k \in Kinds, t \in {LastTx, LastTx + 1} :
         chain' = Append(chain, [pool |-> p, kind |-> k, tx |-> t])
  BY DEF Emit
<1>2. chain \in Seq(Events) /\ InitHeight \in Nat /\ Lookback \in Nat /\ MaxEvents \in Nat
  BY ServiceAssumption DEF TypeOK, WorldTypeOK
<1>3. LastTx \in Nat /\ ChainHead \in Nat /\ Len(chain) \in Nat
  BY HeadType DEF TypeOK
<1>4. /\ Len(chain') = Len(chain) + 1 /\ chain' # <<>>
      /\ DOMAIN chain' = 1..(Len(chain) + 1) /\ DOMAIN chain = 1..Len(chain)
      /\ \A e \in DOMAIN chain : chain'[e] = chain[e]
      /\ chain'[Len(chain) + 1] = [pool |-> p, kind |-> k, tx |-> t]
      /\ chain' \in Seq(Events)
  <2>1. [pool |-> p, kind |-> k, tx |-> t] \in Events
    BY <1>3, ServiceAssumption DEF Events
  <2>2. QED
    BY <1>1, <1>2, <2>1, AppendProperties
<1>5. LastTx' = t
  <2>1. Last(chain)' = chain'[Len(chain')]
    BY DEF Last
  <2>2. QED
    BY <1>4, <2>1 DEF LastTx
<1>6. ChainHead <= ChainHead' /\ ChainHead' \in Nat
  BY <1>2, <1>3, <1>5 DEF ChainHead
<1>7. ~(ChainHead < Lookback)' /\ ~(ChainHead' < Lookback)
  BY <1>2, <1>3, <1>6
<1>8. /\ StartFrom \in Nat /\ StartFrom <= Len(chain) + 1
      /\ \A e \in DOMAIN chain : Height(e) >= ChainHead - Lookback => StartFrom <= e
  BY StartsAt DEF TypeOK
<1>9. /\ StartFrom' \in Nat
      /\ \/ StartFrom' = Len(chain') + 1
         \/ StartFrom' \in DOMAIN chain' /\ Height(StartFrom)' >= ChainHead' - Lookback
  <2>1. WorldTypeOK'
    <3>1. TypeOK'
      BY NextTypeOK DEF Next
    <3>2. QED
      BY <3>1 DEF TypeOK
  <2>2. QED
    BY <1>7, <2>1, StartsWellNext DEF StartsWell
<1>10. CASE StartFrom' \in {Len(chain) + 1, Len(chain) + 2}
  BY <1>3, <1>7, <1>8, <1>10
<1>11. CASE StartFrom' \in DOMAIN chain /\ Height(StartFrom)' >= ChainHead' - Lookback
  <2>1. PICK e \in DOMAIN chain : e = StartFrom'
    BY <1>11
  <2>2. Height(StartFrom)' = Height(e)
    BY <1>4, <2>1 DEF Height
  <2>3. Height(e) \in Nat
    BY HeadType DEF TypeOK
  <2>4. Height(e) >= ChainHead - Lookback
    BY <1>2, <1>3, <1>6, <1>11, <2>2, <2>3
  <2>5. QED
    BY <1>7, <1>8, <2>1, <2>4
<1>12. QED
  BY <1>3, <1>4, <1>7, <1>9, <1>10, <1>11

\* On a chain that is long enough a run starts at one of its events.
LEMMA StartsOnChain ==
    ASSUME TypeOK, CursorOnChain, ~(ChainHead < Lookback), chain # <<>>
    PROVE  StartFrom # BeyondChain
<1>1. /\ Len(chain) \in Nat \ {0} /\ DOMAIN chain = 1..Len(chain)
      /\ ChainHead \in Nat /\ Lookback \in Nat /\ MaxEvents \in Nat
  <2>1. chain \in Seq(Events) /\ chain # <<>>
    BY DEF TypeOK, WorldTypeOK
  <2>2. Len(chain) # 0
    BY <2>1, EmptySeq
  <2>3. QED
    BY <2>2, HeadType, ServiceAssumption DEF TypeOK
<1>2. Height(Len(chain)) = ChainHead
  BY DEF Height, ChainHead, LastTx, Last
<1>3. Height(Len(chain)) >= ChainHead - Lookback /\ Len(chain) \in DOMAIN chain
  BY <1>1, <1>2
<1>4. StartFrom <= Len(chain) /\ StartFrom \in Nat
  BY <1>3, StartsAt DEF TypeOK
<1>5. QED
  BY <1>1, <1>4 DEF CursorOnChain, BeyondChain

LEMMA StoreVolumeNoGap ==
    TypeOK /\ CursorOnChain /\ Line /\ RunIsLossless /\ NoGap /\ up /\ StoreVolume => NoGap'
<1> SUFFICES ASSUME TypeOK, CursorOnChain, Line, RunIsLossless, NoGap, up, StoreVolume
             PROVE  NoGap'
  OBVIOUS
<1>1. UNCHANGED <<chain, runStart>> /\ dpc = "store"
  BY DEF StoreVolume, chainVars, runVars
<1>2. StartFrom' = StartFrom /\ (ChainHead < Lookback)' = (ChainHead < Lookback)
      /\ BeyondChain' = BeyondChain
  BY <1>1 DEF StartFrom, ChainHead, LastTx, Height, BeyondChain
<1>3. PICK e, row : /\ e = msg.ev
                    /\ row = [ev |-> msg.ev, tx |-> msg.tx, tick |-> msg.tick, res |-> pre,
                              vol |-> msg.vol, ts |-> now]
  OBVIOUS
<1>4. /\ e \in DOMAIN chain /\ \A x : Recorded(x) => Recorded(x)'
      /\ \/ dbFaults' # 0 /\ rows' = rows
         \/ Recorded(e) /\ dbFaults' = dbFaults /\ dbLost' = dbLost /\ rows' = rows
         \/ /\ Recorded(e)' /\ dbFaults' = dbFaults /\ dbLost' = dbLost
            /\ \A x : Stored(x)' => Stored(x) \/ x = e
  <2>1. e \in DOMAIN chain /\ \A x : Recorded(x) => Recorded(x)'
    BY <1>3, StoreVolumeAdds
  <2>2. \/ dbFaults' # 0 /\ rows' = rows
        \/ Recorded(e) /\ dbFaults' = dbFaults /\ dbLost' = dbLost /\ rows' = rows
        \/ /\ Recorded(e)' /\ dbFaults' = dbFaults /\ dbLost' = dbLost
           /\ \A x : Stored(x)' => Stored(x) \/ x = e
    BY <1>3, StoreVolumeAdds
  <2>3. QED
    BY <2>1, <2>2
<1>5. runStart <= e /\ runStart \in Nat /\ DOMAIN chain = 1..Len(chain) /\ Len(chain) \in Nat
  BY <1>1, <1>3, HeadType DEF Line, TypeOK, PipeTypeOK
<1>6. runStart # BeyondChain
  BY <1>4, <1>5, ServiceAssumption DEF CursorOnChain, BeyondChain
<1>7. runStart' # BeyondChain' /\ runStart' <= StartFrom' /\ ~(ChainHead < Lookback)'
  BY <1>1, <1>2, <1>6 DEF NoGap
<1>8. CASE dbFaults' # 0
  BY <1>7, <1>8 DEF NoGap
<1>9. CASE /\ Recorded(e)' /\ dbFaults' = dbFaults /\ dbLost' = dbLost
           /\ \A x : Stored(x)' => Stored(x) \/ x = e
  <2>1. ASSUME dbFaults = 0, NEW x \in DOMAIN chain, NEW f \in DOMAIN chain,
               runStart <= x, x <= f, Stored(f)'
        PROVE  Recorded(x)'
    <3>1. CASE Stored(f)
      BY <1>4, <2>1, <3>1 DEF NoGap
    <3>2. CASE f = e /\ x = e
      BY <1>9, <3>2
    <3>3. CASE f = e /\ x # e
      <4>1. x \in Nat /\ x < msg.ev
        BY <1>3, <1>5, <2>1, <3>3
      <4>2. Recorded(x) \/ x \in dbLost
        BY <1>1, <2>1, <4>1, ReceivedStored
      <4>3. QED
        BY <1>4, <2>1, <4>2 DEF NoGap
    <3>4. QED
      BY <1>9, <2>1, <3>1, <3>2, <3>3
  <2>2. QED
    BY <1>1, <1>7, <1>9, <2>1 DEF NoGap
<1>10. CASE Recorded(e) /\ dbFaults' = dbFaults /\ dbLost' = dbLost /\ rows' = rows
  <2>1. /\ \A x : Stored(x)' <=> Stored(x)
        /\ \A x : Recorded(x)' <=> Recorded(x)
    BY <1>1, <1>10 DEF Stored, Recorded
  <2>2. QED
    BY <1>1, <1>7, <1>10, <2>1 DEF NoGap
<1>11. QED
  BY <1>4, <1>8, <1>9, <1>10

LEMMA NextNoGap ==
    TypeOK /\ CursorOnChain /\ Line /\ RowsOnce /\ RunIsLossless /\ NoGap /\ [Next]_vars
        => NoGap'
<1> SUFFICES ASSUME TypeOK, CursorOnChain, Line, RowsOnce, RunIsLossless, NoGap, [Next]_vars
             PROVE  NoGap'
  OBVIOUS
<1>0. /\ dbFaults \in Nat /\ runStart \in Nat /\ Len(chain) \in Nat
      /\ DOMAIN chain = 1..Len(chain)
  BY ServiceAssumption, HeadType DEF TypeOK, WorldTypeOK, PipeTypeOK
<1>1. CASE Emit
  <2>1. /\ UNCHANGED <<rows, dbFaults, dbLost, runStart>>
        /\ \A e \in DOMAIN chain : chain'[e] = chain[e]
    BY <1>1, ChainGrows DEF Emit, dbVars, runVars
  <2>2. \A f : (Stored(f)' <=> Stored(f)) /\ (Stored(f) => f \in DOMAIN chain)
    BY <2>1 DEF Stored, RowsOnce
  <2>3. \A e \in DOMAIN chain : Recorded(e)' <=> Recorded(e)
    BY <2>1 DEF Recorded
  <2>4. runStart # BeyondChain => runStart <= StartFrom' /\ ~(ChainHead < Lookback)'
    <3> SUFFICES ASSUME runStart # BeyondChain
                 PROVE  runStart <= StartFrom' /\ ~(ChainHead < Lookback)'
      OBVIOUS
    <3>1. runStart <= StartFrom /\ ~(ChainHead < Lookback)
      BY DEF NoGap
    <3>2. ~(ChainHead < Lookback)' /\ StartFrom <= StartFrom'
      BY <1>1, <3>1, EmitMoves
    <3>3. StartFrom \in Nat /\ StartFrom' \in Nat
      <4>1. WorldTypeOK'
        <5>1. TypeOK'
          BY NextTypeOK
        <5>2. QED
          BY <5>1 DEF TypeOK
      <4>2. QED
        BY <4>1, StartsAt, StartsWellNext DEF TypeOK, StartsWell
    <3>4. QED
      BY <1>0, <3>1, <3>2, <3>3
  <2>5. ASSUME dbFaults = 0, NEW e \in DOMAIN chain', NEW f \in DOMAIN chain',
               runStart <= e, e <= f, Stored(f)
        PROVE  Recorded(e)'
    <3>1. f \in DOMAIN chain /\ DOMAIN chain' = 1..Len(chain') /\ Len(chain') \in Nat
      BY <1>1, <2>2, <2>5, ChainGrows
    <3>2. e \in DOMAIN chain
      BY <1>0, <2>5, <3>1
    <3>3. QED
      BY <2>3, <2>5, <3>1, <3>2 DEF NoGap
  <2>6. BeyondChain' = BeyondChain
    BY DEF BeyondChain
  <2>7. QED
    BY <2>1, <2>2, <2>4, <2>5, <2>6 DEF NoGap
<1>2. CASE Start
  <2>1. UNCHANGED <<chain, rows, dbFaults, dbLost>> /\ runStart' = StartFrom
    BY <1>2 DEF Start, chainVars, dbVars
  <2>2. /\ StartFrom' = StartFrom /\ BeyondChain' = BeyondChain
        /\ (ChainHead < Lookback)' = (ChainHead < Lookback)
    BY <2>1 DEF StartFrom, ChainHead, LastTx, Height, BeyondChain
  <2>3. /\ \A f : (Stored(f)' <=> Stored(f)) /\ (Stored(f) => f \in DOMAIN chain)
        /\ \A f : Recorded(f)' <=> Recorded(f)
    BY <2>1 DEF Stored, Recorded, RowsOnce
  <2>4. StartFrom \in Nat /\ (ChainHead < Lookback => StartFrom = BeyondChain)
    BY StartsAt DEF TypeOK
  <2>5. ASSUME StartFrom = BeyondChain PROVE \A e : ~Stored(e)
    <3>1. CASE ChainHead < Lookback
      BY <3>1 DEF NoGap
    <3>2. CASE ~(ChainHead < Lookback)
      <4>1. chain = <<>>
        BY <2>5, <3>2, StartsOnChain
      <4>2. DOMAIN chain = {}
        BY <4>1
      <4>3. QED
        BY <2>3, <4>2
    <3>3. QED
      BY <3>1, <3>2
  <2>6. StartFrom # BeyondChain => StartFrom <= StartFrom /\ ~(ChainHead < Lookback)
    BY <2>4
  <2>7. ASSUME dbFaults = 0, NEW e \in DOMAIN chain, NEW f \in DOMAIN chain,
               StartFrom <= e, e <= f, Stored(f)
        PROVE  Recorded(e)
    <3>1. runStart # BeyondChain
      BY <2>7 DEF NoGap
    <3>2. runStart <= e
      BY <1>0, <2>4, <2>7, <3>1 DEF NoGap
    <3>3. QED
      BY <2>7, <3>2 DEF NoGap
  <2>8. dbFaults = 0 => dbLost = {}
    BY DEF NoGap
  <2>9. QED
    BY <2>1, <2>2, <2>3, <2>5, <2>6, <2>7, <2>8 DEF NoGap
<1>3. CASE StoreVolume
  <2>1. up
    BY <1>3 DEF StoreVolume
  <2>2. QED
    BY <1>3, <2>1, StoreVolumeNoGap
<1>4. CASE Tick \/ Crash \/ DealLog \/ Receive \/ AddVolume \/ Overview
  <2>1. UNCHANGED <<chain, rows, dbFaults, dbLost, runStart>>
    BY <1>4 DEF Tick, Crash, DealLog, Receive, AddVolume, Overview, chainVars, dbVars, runVars
  <2>2. QED
    BY <2>1 DEF NoGap, Stored, Recorded, StartFrom, ChainHead, LastTx, Height, BeyondChain
<1>5. CASE NoticeDay \/ CountRead \/ CountStore \/ UNCHANGED vars
  <2>1. UNCHANGED <<chain, rows, dbLost, runStart>> /\ (dbFaults' = 0 => dbFaults = 0)
    BY <1>0, <1>5 DEF NoticeDay, CountRead, CountStore, DbFault, vars, chainVars, dbVars, runVars
  <2>2. QED
    BY <2>1 DEF NoGap, Stored, Recorded, StartFrom, ChainHead, LastTx, Height, BeyondChain
<1>6. QED
  BY <1>1, <1>2, <1>3, <1>4, <1>5 DEF Next
-----------------------------------------------------------------------------
(* The tick follows the chain *)

LEMMA MaxIsLatest ==
    ASSUME NEW X \in SUBSET Nat, NEW x, Latest(x, X)
    PROVE  Max(X) = x
<1>1. x \in X /\ \A y \in X : x >= y
  BY DEF Latest
<1>2. \A z \in X : (\A y \in X : z >= y) => z = x
  BY <1>1
<1>3. QED
  BY <1>1, <1>2 DEF Max

\* A set of events that is not empty has a last one.
LEMMA SomeLatest ==
    ASSUME NEW n \in Nat, NEW X \in SUBSET (1..n), X # {}
    PROVE  \E x : Latest(x, X)
<1> DEFINE T == {n - e : e \in X}
<1>1. T \in SUBSET Nat /\ T # {}
  <2>1. \A e \in X : n - e \in Nat
    OBVIOUS
  <2>2. \A t \in T : \E e \in X : t = n - e
    OBVIOUS
  <2>3. PICK e \in X : TRUE
    OBVIOUS
  <2>4. n - e \in T
    OBVIOUS
  <2>5. QED
    BY <2>1, <2>2, <2>4
<1>2. Min(T) \in T /\ \A y \in T : Min(T) <= y
  <2> HIDE DEF T
  <2>1. QED
    BY <1>1, MinIn
<1>3. PICK x \in X : Min(T) = n - x
  BY <1>2
<1>4. \A y \in X : n - x <= n - y
  BY <1>2, <1>3
<1>5. \A y \in X : y <= x
  BY <1>4
<1>6. QED
  BY <1>5 DEF Latest

\* A step that does not touch what the consumer received or stored.
LEMMA TicksFrame ==
    ASSUME Ticks, UNCHANGED <<chain, rows, curr, msg, runStart>>, Awaited' = Awaited,
           up' => up, dpc' # "recv" => dpc # "recv",
           rpcFaults' = 0 => rpcFaults = 0, dbFaults' = 0 => dbFaults = 0
    PROVE  Ticks'
<1>1. \A p : Received(p)' = Received(p)
  BY DEF Received, SwapsOf
<1>2. \A p : Kept(p)' = Kept(p)
  BY DEF Kept, SwapsOf, Stored
<1>3. \A p, x : Covers(x, p)' = Covers(x, p)
  BY <1>2 DEF Covers, SwapsOf
<1>4. QED
  BY <1>1, <1>2, <1>3 DEF Ticks, Latest

LEMMA EmitTicks == TypeOK /\ CursorOnChain /\ RowsOnce /\ Ticks /\ Emit => Ticks'
<1> SUFFICES ASSUME TypeOK, CursorOnChain, RowsOnce, Ticks, Emit PROVE Ticks'
  OBVIOUS
<1>1. /\ Len(chain) \in Nat /\ DOMAIN chain = 1..Len(chain)
      /\ Len(chain') \in Nat /\ DOMAIN chain' = 1..Len(chain')
      /\ \A e \in DOMAIN chain : e \in DOMAIN chain' /\ chain'[e] = chain[e]
  BY ChainGrows
<1>2. UNCHANGED <<up, next, ch, dpc, msg, curr, rows, rpcFaults, dbFaults, runStart>>
  BY DEF Emit, readVars, dealVars, memVars, dbVars, runVars
<1>3. /\ Awaited' = Awaited /\ Awaited \in Int /\ Awaited <= next
      /\ next \in Nat /\ runStart \in Nat
  <2>1. next \in Nat /\ Len(ch) \in Nat /\ runStart \in Nat
    BY DEF TypeOK, PipeTypeOK
  <2>2. QED
    BY <1>2, <2>1 DEF Awaited
<1>4. \A e \in DOMAIN chain' : runStart <= e /\ e < Awaited => e \in DOMAIN chain
  BY <1>1, <1>3 DEF CursorOnChain
<1>5. \A p : Received(p)' = Received(p)
  BY <1>1, <1>2, <1>3, <1>4 DEF Received, SwapsOf
<1>6. \A e : Stored(e)' <=> Stored(e)
  BY <1>2 DEF Stored
<1>7. \A e : Stored(e) => e \in DOMAIN chain
  BY DEF Stored, RowsOnce
<1>8. \A p : Kept(p)' = Kept(p)
  BY <1>1, <1>6, <1>7 DEF Kept, SwapsOf
<1>9. \A p, x : Covers(x, p) => Covers(x, p)'
  BY <1>1, <1>8 DEF Covers, SwapsOf
<1>10. QED
  BY <1>2, <1>5, <1>8, <1>9 DEF Ticks, Latest

LEMMA StartTicks == TypeOK /\ RowsOnce /\ Ticks /\ Start => Ticks'
<1> SUFFICES ASSUME TypeOK, RowsOnce, Ticks, Start PROVE Ticks'
  OBVIOUS
<1>1. /\ curr' = [p \in Pools |-> GetLatestReserves(rows[p])]
      /\ ch' = <<>> /\ next' = StartFrom /\ runStart' = StartFrom /\ dpc' = "recv"
      /\ UNCHANGED <<chain, rows, rpcFaults, dbFaults>>
  BY DEF Start, chainVars, dbVars
<1>2. StartFrom \in Nat
  BY StartsAt DEF TypeOK
<1>3. Awaited' = StartFrom
  BY <1>1, <1>2 DEF Awaited
<1>4. DOMAIN chain \subseteq Nat
  BY DEF TypeOK, WorldTypeOK
<1>5. \A p : Received(p)' = {}
  BY <1>1, <1>2, <1>3, <1>4 DEF Received, SwapsOf
<1>6. \A p : Kept(p)' = Kept(p)
  BY <1>1 DEF Kept, SwapsOf, Stored
<1>7. ASSUME NEW p \in Pools, Kept(p) # {} PROVE curr'[p].tick = Last(rows[p]).tick
  <2>1. PICK e \in Kept(p) : TRUE
    BY <1>7
  <2>2. PICK q \in Pools : \E i \in DOMAIN rows[q] : rows[q][i].ev = e
    BY <2>1 DEF Kept, Stored
  <2>3. q = p
    BY <2>1, <2>2 DEF RowsOnce, Kept, SwapsOf
  <2>4. rows[p] # <<>>
    BY <2>2, <2>3
  <2>5. QED
    BY <1>1, <2>4 DEF GetLatestReserves
<1>8. \A p, x : Covers(x, p)' = Covers(x, p)
  BY <1>1, <1>6 DEF Covers, SwapsOf
<1>9. QED
  BY <1>1, <1>5, <1>6, <1>7, <1>8 DEF Ticks

LEMMA ReceiveTicks == TypeOK /\ Line /\ Ticks /\ Receive => Ticks'
<1> SUFFICES ASSUME TypeOK, Line, Ticks, Receive, rpcFaults = 0 PROVE Ticks'
  BY DEF Receive, Ticks
<1> DEFINE m == ch[1]
           a == m.pool
           e == m.ev
<1>1. /\ up /\ dpc = "recv" /\ 1 \in DOMAIN ch /\ m \in Messages
      /\ msg' = [m EXCEPT !.tick = TickOf(m)]
      /\ msg'.ev = Awaited /\ Awaited \in Nat /\ Awaited' = Awaited + 1 /\ Head(ch) = m
  BY ReceiveAwaits
<1>2. UNCHANGED <<chain, up, rows, runStart, rpcFaults, dbFaults>>
  BY DEF Receive, chainVars, dbVars, runVars
<1>3. /\ e = Awaited /\ Tells(m) /\ m.r0 /\ runStart <= Awaited
      /\ m.vol = 1 => m.tick = e
  <2>1. m.ev = Awaited + 1 - 1
    BY <1>1 DEF Line
  <2>2. QED
    BY <1>1, <2>1 DEF Line
<1>4. /\ a \in Pools /\ m.vol \in {0, 1} /\ curr \in [Pools -> [res : ReservesOf, tick : Nat]]
      /\ runStart \in Nat /\ DOMAIN chain \subseteq Nat
  <2>1. a \in Pools /\ m.vol \in {0, 1}
    BY <1>1 DEF Messages
  <2>2. curr \in [Pools -> [res : ReservesOf, tick : Nat]] /\ runStart \in Nat
    BY DEF TypeOK, MemoryTypeOK, PipeTypeOK
  <2>3. DOMAIN chain \subseteq Nat
    BY DEF TypeOK, WorldTypeOK
  <2>4. QED
    BY <2>1, <2>2, <2>3
<1>5. /\ curr'[a].tick = TickOf(m) /\ msg'.tick = TickOf(m) /\ msg'.pool = a
      /\ \A p \in Pools : p # a => curr'[p] = curr[p]
  <2>1. curr' = [curr EXCEPT ![a] = [res |-> [of |-> a, r0 |-> m.r0, r1 |-> m.r1],
                                     tick |-> TickOf(m)]]
    BY <1>1, <1>3 DEF Receive
  <2>2. msg'.tick = TickOf(m) /\ msg'.pool = a
    BY <1>1 DEF Messages
  <2>3. QED
    BY <1>4, <2>1, <2>2
<1>6. e \in DOMAIN chain /\ chain[e].pool = a /\ (m.vol = 1 <=> chain[e].kind = "swap")
  BY <1>3 DEF Tells
<1>7. \A p : Kept(p)' = Kept(p)
  BY <1>2 DEF Kept, SwapsOf, Stored
<1> HIDE DEF m, a, e
<1>14. \A p, x : Covers(x, p)' = Covers(x, p)
  BY <1>2, <1>7 DEF Covers, SwapsOf
<1>8. \A x \in DOMAIN chain : x < Awaited' <=> x < Awaited \/ x = e
  BY <1>1, <1>3, <1>4
<1>9. \A p : Received(p)' = IF m.vol = 1 /\ p = a THEN Received(p) \cup {e} ELSE Received(p)
  <2> TAKE p
  <2>1. \A x \in DOMAIN chain :
           x \in Received(p)' <=>
              /\ chain[x].pool = p /\ chain[x].kind = "swap" /\ runStart <= x
              /\ x < Awaited \/ x = e
    BY <1>2, <1>8 DEF Received, SwapsOf
  <2>2. \A x \in DOMAIN chain :
           x \in Received(p) <=> chain[x].pool = p /\ chain[x].kind = "swap" /\ runStart <= x
                                 /\ x < Awaited
    BY DEF Received, SwapsOf
  <2>3. Received(p)' \subseteq DOMAIN chain /\ Received(p) \subseteq DOMAIN chain
    BY <1>2 DEF Received, SwapsOf
  <2>4. runStart <= e
    BY <1>3
  <2>5. \A x \in DOMAIN chain :
           x \in Received(p)' <=> x \in Received(p) \/ (x = e /\ m.vol = 1 /\ p = a)
    BY <1>6, <2>1, <2>2, <2>4
  <2>6. QED
    BY <1>6, <2>3, <2>5
<1>10. ASSUME NEW p \in Pools
       PROVE  /\ Received(p)' # {} => Latest(curr[p].tick, Received(p))'
              /\ Received(p)' = {} /\ Kept(p)' # {} /\ dbFaults' = 0
                    => Covers(curr'[p].tick, p)
  <2>1. CASE m.vol = 1 /\ p = a
    <3>1. curr'[p].tick = e /\ Received(p)' = Received(p) \cup {e}
      BY <1>3, <1>5, <1>9, <2>1 DEF TickOf
    <3>2. \A y \in Received(p) : y <= e
      BY <1>1, <1>3, <1>4 DEF Received, SwapsOf
    <3>3. e <= e
      BY <1>1, <1>3
    <3>4. QED
      BY <3>1, <3>2, <3>3 DEF Latest
  <2>2. CASE ~(m.vol = 1 /\ p = a)
    <3>1. Received(p)' = Received(p)
      BY <1>9, <2>2
    <3>2. curr'[p].tick = curr[p].tick
      <4>1. CASE p = a
        BY <1>4, <1>5, <2>2, <4>1 DEF TickOf, a
      <4>2. CASE p # a
        BY <1>5, <4>2
      <4>3. QED
        BY <4>1, <4>2
    <3>3. /\ Received(p) # {} => Latest(curr[p].tick, Received(p))
          /\ Received(p) = {} /\ Kept(p) # {} /\ dbFaults = 0 => Covers(curr[p].tick, p)
      BY <1>1 DEF Ticks
    <3>4. QED
      BY <1>2, <1>7, <3>1, <3>2, <3>3 DEF Latest
  <2>3. QED
    BY <2>1, <2>2
<1>11. \A p \in Pools : dbFaults' = 0 /\ Kept(p)' # {} => Covers(Last(rows'[p]).tick, p)
  BY <1>2, <1>7 DEF Ticks
<1>12. \A p \in Pools : msg'.pool = p => msg'.tick = curr'[p].tick
  BY <1>5
<1>13. QED
  BY <1>10, <1>11, <1>12, <1>14 DEF Ticks, Latest

LEMMA StoreVolumeTicks ==
    TypeOK /\ Line /\ NoGap /\ Ticks /\ StoreVolume => Ticks'
<1> SUFFICES ASSUME TypeOK, Line, NoGap, Ticks, StoreVolume, rpcFaults = 0
             PROVE  Ticks'
  BY DEF StoreVolume, Ticks
<1>0. PICK e, a, row : /\ e = msg.ev /\ a = msg.pool
                       /\ row = [ev |-> msg.ev, tx |-> msg.tx, tick |-> msg.tick, res |-> pre,
                                 vol |-> msg.vol, ts |-> now]
  OBVIOUS
<1>1. /\ up /\ dpc = "store" /\ dpc' = "recv"
      /\ UNCHANGED <<chain, up, next, ch, curr, runStart, rpcFaults>>
  BY DEF StoreVolume, chainVars, readVars, memVars, runVars
<1>2. /\ e \in Nat /\ a \in Pools /\ row \in VolumeRow /\ rows \in [Pools -> Seq(VolumeRow)]
      /\ row.ev = e /\ row.tick = msg.tick
  BY <1>0, <1>1, StoreVolumeRow DEF TypeOK, TableTypeOK
<1>3. /\ e = Awaited - 1 /\ runStart <= e /\ e \in DOMAIN chain /\ chain[e].pool = a
  BY <1>0, <1>1 DEF Line, Tells
<1>4. DOMAIN chain \subseteq Nat /\ runStart \in Nat
  <2>1. DOMAIN chain \subseteq Nat
    BY DEF TypeOK, WorldTypeOK
  <2>2. QED
    BY <2>1 DEF TypeOK, PipeTypeOK
<1>5. Awaited \in Int /\ Awaited' = Awaited
  BY <1>1 DEF Awaited, TypeOK, PipeTypeOK
<1>6. \A p : Received(p)' = Received(p)
  BY <1>1, <1>5 DEF Received, SwapsOf
<1>7. \A p \in Pools : Received(p) # {} => Latest(curr[p].tick, Received(p))
  BY <1>1 DEF Ticks
<1>8. \A p \in Pools : Received(p)' # {} => Latest(curr[p].tick, Received(p))'
  BY <1>1, <1>6, <1>7 DEF Latest
<1>9. CASE dbFaults' # 0
  BY <1>1, <1>8, <1>9 DEF Ticks
<1>10. CASE rows' = rows /\ dbFaults' = dbFaults
  <2>1. \A p : Kept(p)' = Kept(p)
    BY <1>1, <1>10 DEF Kept, SwapsOf, Stored
  <2>2. \A p, x : Covers(x, p)' = Covers(x, p)
    BY <1>1, <2>1 DEF Covers, SwapsOf
  <2>3. QED
    BY <1>1, <1>6, <1>8, <1>10, <2>1, <2>2 DEF Ticks
<1>11. CASE /\ dbFaults' = dbFaults /\ dbFaults = 0 /\ ~Recorded(e)
            /\ rows' = [rows EXCEPT ![a] = Append(@, row)]
            /\ \A x : Stored(x)' => Stored(x) \/ x = e
  <2>1. \A p : Kept(p)' \subseteq Kept(p) \cup {e}
    BY <1>1, <1>11 DEF Kept, SwapsOf
  <2>2. \A p, x : Covers(x, p)' <=> x \in SwapsOf(p) /\ \A y \in Kept(p)' : y <= x
    BY <1>1 DEF Covers, SwapsOf
  <2>3. \A p \in Pools : p # a => rows'[p] = rows[p] /\ Kept(p)' \subseteq Kept(p)
    <3>1. \A p : p # a => e \notin Kept(p)'
      BY <1>1, <1>3 DEF Kept, SwapsOf
    <3>2. QED
      BY <1>2, <1>11, <2>1, <3>1
  <2>4. Last(rows'[a]).tick = curr[a].tick
    <3>1. rows[a] \in Seq(VolumeRow)
      BY <1>2
    <3>2. rows'[a] = Append(rows[a], row)
      BY <1>2, <1>11
    <3>3. Last(rows'[a]) = row
      BY <1>2, <3>1, <3>2, AppendProperties DEF Last
    <3>4. msg.tick = curr[a].tick
      BY <1>0, <1>1, <1>2 DEF Ticks
    <3>5. QED
      BY <1>2, <3>3, <3>4
  <2>5. \A y \in Kept(a)' : runStart <= y => y \in Received(a)
    <3> SUFFICES ASSUME NEW y \in Kept(a)', runStart <= y PROVE y \in Received(a)
      OBVIOUS
    <3>1. y \in SwapsOf(a) /\ (Stored(y) \/ y = e)
      BY <1>1, <2>1 DEF Kept, SwapsOf
    <3>2. y \in DOMAIN chain /\ y \in Nat
      BY <1>4, <3>1 DEF SwapsOf
    <3>3. Stored(y) /\ e <= y => Recorded(e)
      BY <1>3, <1>11, <3>2 DEF NoGap
    <3>4. y <= e
      BY <1>2, <1>11, <3>1, <3>2, <3>3
    <3>5. y < Awaited
      BY <1>2, <1>3, <1>5, <3>2, <3>4
    <3>6. QED
      BY <3>1, <3>5 DEF Received
  <2>6. Kept(a)' # {} => Covers(curr[a].tick, a)'
    <3> SUFFICES ASSUME Kept(a)' # {}
                 PROVE  curr[a].tick \in SwapsOf(a) /\ \A y \in Kept(a)' : y <= curr[a].tick
      BY <1>1, <2>2
    <3>1. CASE Received(a) # {}
      <4>1. /\ curr[a].tick \in Received(a) /\ \A y \in Received(a) : y <= curr[a].tick
        BY <1>2, <1>7, <3>1 DEF Latest
      <4>2. /\ curr[a].tick \in SwapsOf(a) /\ runStart <= curr[a].tick
            /\ curr[a].tick \in Nat
        BY <1>4, <4>1 DEF Received, SwapsOf
      <4>3. ASSUME NEW y \in Kept(a)' PROVE y <= curr[a].tick
        <5>1. y \in Nat
          BY <1>1, <1>4 DEF Kept, SwapsOf
        <5>2. CASE runStart <= y
          BY <2>5, <4>1, <5>2
        <5>3. CASE ~(runStart <= y)
          BY <1>4, <4>2, <5>1, <5>3
        <5>4. QED
          BY <5>2, <5>3
      <4>4. QED
        BY <4>2, <4>3
    <3>2. CASE Received(a) = {}
      <4>1. e \notin SwapsOf(a)
        <5>1. e < Awaited
          BY <1>2, <1>3, <1>5
        <5>2. QED
          BY <1>3, <3>2, <5>1 DEF Received
      <4>2. Kept(a)' \subseteq Kept(a)
        BY <1>1, <2>1, <4>1 DEF Kept, SwapsOf
      <4>3. Covers(curr[a].tick, a)
        BY <1>1, <1>2, <1>11, <3>2, <4>2 DEF Ticks
      <4>4. QED
        BY <4>2, <4>3 DEF Covers
    <3>3. QED
      BY <3>1, <3>2
  <2>7. \A p \in Pools : Kept(p)' # {} => Covers(Last(rows[p]).tick, p)'
    <3> SUFFICES ASSUME NEW p \in Pools, Kept(p)' # {}
                 PROVE  Covers(Last(rows[p]).tick, p)'
      OBVIOUS
    <3>1. CASE p = a
      <4>1. Covers(curr[a].tick, a)'
        BY <2>6, <3>1
      <4>2. curr'[a].tick = Last(rows'[p]).tick
        BY <1>1, <2>4, <3>1
      <4>3. QED
        BY <3>1, <4>1, <4>2 DEF Covers, SwapsOf
    <3>2. CASE p # a
      <4>1. Covers(Last(rows[p]).tick, p)
        BY <1>11, <2>3, <3>2 DEF Ticks
      <4>2. QED
        BY <1>1, <2>3, <3>2, <4>1 DEF Covers, SwapsOf
    <3>3. QED
      BY <3>1, <3>2
  <2>8. ASSUME NEW p \in Pools, Received(p)' = {}, Kept(p)' # {}
        PROVE  Covers(curr[p].tick, p)'
    <3>1. CASE p = a
      <4>1. Covers(curr[a].tick, a)'
        BY <2>6, <2>8, <3>1
      <4>2. QED
        BY <3>1, <4>1
    <3>2. CASE p # a
      <4>1. Covers(curr[p].tick, p)
        BY <1>1, <1>6, <1>11, <2>3, <2>8, <3>2 DEF Ticks
      <4>2. QED
        BY <1>1, <2>3, <3>2, <4>1 DEF Covers, SwapsOf
    <3>3. QED
      BY <3>1, <3>2
  <2>9. QED
    BY <1>1, <1>8, <2>7, <2>8 DEF Ticks
<1>12. QED
  <2>1. \/ dbFaults' # 0
        \/ rows' = rows /\ dbFaults' = dbFaults
        \/ /\ dbFaults' = dbFaults /\ ~Recorded(e)
           /\ rows' = [rows EXCEPT ![a] = Append(@, row)]
           /\ \A x : Stored(x)' => Stored(x) \/ x = e
    BY <1>0, <1>1, StoreVolumeAdds
  <2>2. QED
    BY <1>9, <1>10, <1>11, <2>1

LEMMA NextTicks ==
    TypeOK /\ CursorOnChain /\ Line /\ RowsOnce /\ NoGap /\ Ticks /\ [Next]_vars => Ticks'
<1> SUFFICES ASSUME TypeOK, CursorOnChain, Line, RowsOnce, NoGap, Ticks, [Next]_vars
             PROVE  Ticks'
  OBVIOUS
<1> USE DEF chainVars, readVars, dealVars, memVars, dbVars, runVars
<1>1. CASE Tick \/ Crash \/ AddVolume \/ Overview \/ NoticeDay
  <2>1. UNCHANGED <<chain, rows, curr, msg, runStart, next, ch, rpcFaults, dbFaults>>
    BY <1>1 DEF Tick, Crash, AddVolume, Overview, NoticeDay
  <2>2. /\ up' => up
        /\ dpc' # "recv" => dpc # "recv"
    BY <1>1 DEF Tick, Crash, AddVolume, Overview, NoticeDay
  <2>3. QED
    BY <2>1, <2>2, TicksFrame DEF Awaited
<1>2. CASE CountRead \/ CountStore \/ UNCHANGED vars
  <2>1. UNCHANGED <<chain, rows, curr, msg, runStart, next, ch, rpcFaults, up, dpc>>
    BY <1>2 DEF CountRead, CountStore, vars
  <2>2. dbFaults' = dbFaults \/ dbFaults' = dbFaults + 1
    BY <1>2 DEF CountRead, CountStore, vars, DbFault
  <2>3. dbFaults \in Nat
    BY ServiceAssumption DEF TypeOK, WorldTypeOK
  <2>4. dbFaults' = 0 => dbFaults = 0
    BY <2>2, <2>3
  <2>5. QED
    BY <2>1, <2>4, TicksFrame DEF Awaited
<1>3. CASE DealLog
  <2>1. UNCHANGED <<chain, rows, curr, msg, runStart, up, dpc, dbFaults>>
    BY <1>3 DEF DealLog
  <2>2. Awaited' = Awaited
    BY <1>3, DealLogAwaits
  <2>3. rpcFaults' = rpcFaults \/ rpcFaults' = rpcFaults + 1
    BY <1>3 DEF DealLog
  <2>4. rpcFaults \in Nat
    BY ServiceAssumption DEF TypeOK, WorldTypeOK
  <2>5. rpcFaults' = 0 => rpcFaults = 0
    BY <2>3, <2>4
  <2>6. QED
    BY <2>1, <2>2, <2>5, TicksFrame
<1>4. QED
  BY <1>1, <1>2, <1>3, EmitTicks, StartTicks, ReceiveTicks, StoreVolumeTicks DEF Next

\* Once everything is processed, the memory has the tick of the last swap.
LEMMA TicksFollow == TypeOK /\ Ticks => TickFollowsChain
<1> SUFFICES ASSUME TypeOK, Ticks, up, next > Len(chain), ch = <<>>, dpc = "recv",
                    rpcFaults = 0, NEW p \in Pools
             PROVE  LET swaps == {e \in DOMAIN chain : chain[e].pool = p /\ chain[e].kind = "swap"}
                        known == {e \in swaps : e >= runStart \/ Stored(e)}
                    IN  known # {} /\ (dbFaults = 0 \/ Max(known) >= runStart) =>
                            curr[p].tick \in swaps /\ curr[p].tick >= Max(known)
  BY DEF TickFollowsChain
<1> DEFINE swaps == {e \in DOMAIN chain : chain[e].pool = p /\ chain[e].kind = "swap"}
           known == {e \in swaps : e >= runStart \/ Stored(e)}
<1>1. /\ DOMAIN chain = 1..Len(chain) /\ Len(chain) \in Nat /\ runStart \in Nat /\ next \in Nat
  BY HeadType DEF TypeOK, PipeTypeOK
<1>2. Awaited = next
  BY <1>1 DEF Awaited
<1>3. \A e \in DOMAIN chain : e >= runStart <=> runStart <= e /\ e < Awaited
  BY <1>1, <1>2
<1>4. swaps = SwapsOf(p) /\ known = Received(p) \cup Kept(p)
  BY <1>3 DEF Received, Kept, SwapsOf
<1>5. known \in SUBSET (1..Len(chain)) /\ known \in SUBSET Nat
  BY <1>1
<1>6. \A e \in known : runStart <= e => e \in Received(p)
  BY <1>3 DEF Received, SwapsOf
<1>7. \A e \in Received(p) : runStart <= e
  BY DEF Received
<1> HIDE DEF swaps, known
<1>8. SUFFICES ASSUME known # {}, dbFaults = 0 \/ Max(known) >= runStart
               PROVE  curr[p].tick \in SwapsOf(p) /\ curr[p].tick >= Max(known)
  BY <1>4, <1>8 DEF swaps, known
<1>9. PICK x : x = Max(known) /\ x \in known /\ x \in Nat
  <2>1. PICK x : Latest(x, known)
    BY <1>1, <1>5, <1>8, SomeLatest
  <2>2. x \in known
    BY <2>1 DEF Latest
  <2>3. Max(known) = x
    BY <1>5, <2>1, <2>2, MaxIsLatest
  <2>4. QED
    BY <1>5, <2>2, <2>3
<1>10. CASE Received(p) # {}
  <2>1. curr[p].tick \in Received(p) /\ \A y \in Received(p) : y <= curr[p].tick
    BY <1>10 DEF Ticks, Latest
  <2>2. /\ curr[p].tick \in SwapsOf(p) /\ runStart <= curr[p].tick /\ curr[p].tick \in Nat
    BY <1>4, <1>5, <1>7, <2>1 DEF Received
  <2>3. CASE runStart <= x
    <3>1. x <= curr[p].tick
      BY <1>6, <1>9, <2>1, <2>3
    <3>2. QED
      BY <1>9, <2>2, <3>1
  <2>4. CASE ~(runStart <= x)
    BY <1>1, <1>9, <2>2, <2>4
  <2>5. QED
    BY <2>3, <2>4
<1>11. CASE Received(p) = {}
  <2>1. known = Kept(p) /\ Kept(p) # {}
    BY <1>4, <1>8, <1>11
  <2>2. ~(x >= runStart)
    BY <1>1, <1>6, <1>9, <1>11
  <2>3. dbFaults = 0
    BY <1>8, <1>9, <2>2
  <2>4. Covers(curr[p].tick, p)
    BY <1>11, <2>1, <2>3 DEF Ticks
  <2>5. x <= curr[p].tick /\ curr[p].tick \in SwapsOf(p)
    BY <1>9, <2>1, <2>4 DEF Covers
  <2>6. curr[p].tick \in Nat
    BY <1>1, <2>5 DEF SwapsOf
  <2>7. QED
    BY <1>9, <2>5, <2>6
<1>12. QED
  BY <1>10, <1>11

\* Once everything read is processed, the current tick of a pool is the one left by a
\* swap after which no swap of it was stored or read, whatever was replayed (dealTickV3,
\* TickOf).
THEOREM TickRight == Spec => []TickFollowsChain
<1>1. Init => CursorOnChain /\ Line /\ RowsOnce
  BY InitCursor DEF Init, Line, RowsOnce
<1>2. Init => NoGap /\ Ticks
  <2> SUFFICES ASSUME Init PROVE NoGap /\ Ticks
    OBVIOUS
  <2>1. runStart = BeyondChain /\ dbLost = {} /\ rows = [p \in Pools |-> <<>>] /\ ~up
    BY DEF Init
  <2>2. \A e : ~Stored(e)
    BY <2>1 DEF Stored
  <2>3. QED
    BY <2>1, <2>2 DEF NoGap, Ticks, Kept
<1>3. QED
  BY <1>1, <1>2, TypeCorrect, Lossless, NextCursor, NextLine, NextRows, NextNoGap, NextTicks,
     TicksFollow, PTL DEF Spec
-----------------------------------------------------------------------------
(* The reader implements the abstract feed *)

LEMMA OneMore ==
    ASSUME NEW a \in Nat, NEW b \in Nat, a <= b, NEW e \in Int
    PROVE  a <= e /\ e < b + 1 <=> (a <= e /\ e < b) \/ e = b
OBVIOUS

LEMMA NextFeed ==
    TypeOK /\ CursorOnChain /\ CursorOnChain' /\ TypeOK' /\ [Next]_vars
        => [Feed!Next]_(Feed!feedVars)
<1> SUFFICES ASSUME TypeOK, CursorOnChain, CursorOnChain', TypeOK', [Next]_vars
             PROVE  Feed!Next \/ UNCHANGED Feed!feedVars
  OBVIOUS
<1> USE DEF TypeOK, WorldTypeOK, PipeTypeOK, CursorOnChain, chainVars, readVars, runVars,
            Feed!feedVars
<1>1. ASSUME Emit PROVE Feed!Grow
  <2>1. Len(chain') = Len(chain) + 1 /\ Len(chain) \in Nat /\ UNCHANGED <<up, next, runStart>>
    BY <1>1 DEF Emit
  <2>2. QED
    BY <2>1 DEF Feed!Grow
<1>2. ASSUME Start PROVE Feed!Begin
  <2>1. ~up /\ up' = TRUE /\ next' = runStart' /\ chain' = chain
    BY <1>2 DEF Start
  <2>2. {e \in 1..MaxEvents : runStart' <= e /\ e < next'} = {}
    BY <2>1, ServiceAssumption
  <2>3. QED
    BY <2>1, <2>2 DEF Feed!Begin
<1>3. ASSUME DealLog PROVE Feed!Deliver
  <2>1. up /\ next <= Len(chain) /\ next' = next + 1 /\ UNCHANGED <<chain, up, runStart>>
    BY <1>3 DEF DealLog
  <2>2. next \in 1..MaxEvents
    BY <2>1, ServiceAssumption
  <2>3. {e \in 1..MaxEvents : runStart <= e /\ e < next + 1}
          = {e \in 1..MaxEvents : runStart <= e /\ e < next} \cup {next}
    <3>1. next \in Nat /\ runStart \in Nat /\ runStart <= next
      OBVIOUS
    <3>2. ASSUME NEW e \in 1..MaxEvents
          PROVE  runStart <= e /\ e < next + 1 <=> (runStart <= e /\ e < next) \/ e = next
      <4>1. e \in Int
        BY ServiceAssumption
      <4>2. QED
        BY <3>1, <4>1, OneMore
    <3>3. QED
      BY <2>2, <3>2
  <2>4. QED
    BY <2>1, <2>3 DEF Feed!Deliver
<1>4. ASSUME Crash PROVE Feed!Stop
  BY <1>4 DEF Crash, Feed!Stop
<1>5. ASSUME Tick \/ Receive \/ AddVolume \/ StoreVolume \/ UNCHANGED vars
      PROVE  UNCHANGED Feed!feedVars
  BY <1>5 DEF Tick, Receive, AddVolume, StoreVolume, vars
<1>6. ASSUME Overview \/ NoticeDay \/ CountRead \/ CountStore
      PROVE  UNCHANGED Feed!feedVars
  BY <1>6 DEF Overview, NoticeDay, CountRead, CountStore
<1>7. QED
  BY <1>1, <1>2, <1>3, <1>4, <1>5, <1>6 DEF Next, Feed!Next

\* The events the statistics are made of come from a reader LogFeed allows, which is
\* what LogScan implements.
THEOREM ReaderIsFeed == Spec => FeedSpec
<1>1. Init => Feed!Init
  <2>1. Init => /\ {e \in 1..MaxEvents : runStart <= e /\ e < next} = {}
                /\ next \in Nat
    BY ServiceAssumption DEF Init, BeyondChain
  <2>2. QED
    BY <2>1 DEF Init, Feed!Init
<1>2. Init => CursorOnChain
  BY InitCursor
<1>3. QED
  BY <1>1, <1>2, TypeCorrect, NextCursor, NextFeed, PTL DEF Spec, FeedSpec, Feed!Spec
=============================================================================
