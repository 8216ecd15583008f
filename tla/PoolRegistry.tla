---------------------------- MODULE PoolRegistry ----------------------------
(***************************************************************************)
(* How a pool gets into the service: the table pool and its copies in      *)
(* memory (model/public.go), the start of the process (main, Start,        *)
(* start), the pools dealNft adds while the process runs, the requests of  *)
(* administrators (api/admin.go), and the goroutines that rely on a pool's *)
(* records (dealTickV3, countVolumes).                                     *)
(*                                                                         *)
(* The maps in memory have no lock.  The fatal error the Go runtime may    *)
(* raise for a map written and read at once is one of the causes of Crash; *)
(* the append to the slice poolsV3 is a read and a write.                  *)
(***************************************************************************)
EXTENDS Integers, Sequences, FiniteSets, SequencesExt

CONSTANTS
    Pools,        \* pools that exist on the chain
    InitPools,    \* pools the table has at the beginning
    VersionOf,    \* version of a pool: 2 or 3
    States,       \* values of the column state
    NewState,     \* state of a new row: 0
    Absent,       \* stands for no row, no entry, no pool
    GroupLimit,   \* ListenPoolCount
    Requests,     \* bound: the requests administrators send
    MaxCrashes,   \* bound: number of crashes from other causes
    MaxDbFaults   \* bound: number of failed statements

\* dealNft, which adds one pool after the other, and the administrators' requests.
Nft == "nft"
Adders == {Nft} \cup Requests

ASSUME RegistryAssumption ==
    /\ Nft \notin Requests
    /\ InitPools \subseteq Pools /\ IsFiniteSet(Pools)
    /\ VersionOf \in [Pools -> {2, 3}]
    /\ NewState \in States /\ Absent \notin States /\ Absent \notin Pools
    /\ GroupLimit \in Nat /\ MaxCrashes \in Nat /\ MaxDbFaults \in Nat

VARIABLES
    table,     \* table pool: the state of a pool's row
    mem,       \* poolMV2, poolMV3 and poolMMM: the state of a pool's copy
    list,      \* poolsV3
    rec,       \* which of the maps of records have an entry for a pool
    listen,    \* number of listeners of a pool
    mpc,       \* main: "down", "boot", "wait", "start" or "run"
    todo,      \* start: pools of the snapshot still to be done
    istep,     \* start: the record to make next
    group,     \* start: pools that wait for their listener
    adder,     \* who is adding a pool, and how far: dealNft and the requests
    crashes, dbFaults,
    \* history variables
    byAdmin,   \* pools added by a request in this run
    early,      \* pools added in this run before start read poolsV3
    unread      \* pools of the table that the start of this run failed to read

dataVars == <<table, mem, list>>
serveVars == <<rec, listen>>
mainVars == <<mpc, todo, istep, group>>
vars == <<dataVars, serveVars, mainVars, adder, crashes, dbFaults, byAdmin, early, unread>>

Records == {"vol", "utc0", "curr"}
Up == mpc # "down"

\* An adder that is not at work: dealNft waits, a request has not been sent, or
\* is done.
Idle == [pc |-> "idle", pool |-> Absent, list |-> <<>>, state |-> NewState]
Done == [Idle EXCEPT !.pc = "done"]

\* (A name that extends the name of the definition below it is that definition
\* with a plausible bug; the specification never uses it.)

\* initPoolStat and initPoolStatReal make the records in this order.
RecordOrderCurrFirst == <<"curr", "vol", "utc0">>
RecordOrder == <<"vol", "utc0", "curr">>

InTable == {p \in Pools : table[p] # Absent}
-----------------------------------------------------------------------------
Init ==
    /\ table = [p \in Pools |-> IF p \in InitPools THEN NewState ELSE Absent]
    /\ mem = [p \in Pools |-> Absent] /\ list = <<>>
    /\ rec = [p \in Pools |-> {}] /\ listen = [p \in Pools |-> 0]
    /\ mpc = "down" /\ todo = <<>> /\ istep = 1 /\ group = {}
    /\ adder = [a \in Adders |-> Idle]
    /\ crashes = 0 /\ dbFaults = 0 /\ byAdmin = {} /\ early = {} /\ unread = {}

DbFault == dbFaults < MaxDbFaults /\ dbFaults' = dbFaults + 1
-----------------------------------------------------------------------------
(* The process *)

\* main up to StartHttpServer: getPools reads the table, in any order.  Of a query or
\* a row that fails it only writes to the log, and goes on with the pools it has.
Boot ==
    /\ mpc = "down"
    /\ mpc' = "boot"
    /\ \E read \in SUBSET InTable :
          /\ IF read = InTable THEN UNCHANGED dbFaults ELSE DbFault
          /\ mem' = [p \in Pools |-> IF p \in read THEN table[p] ELSE Absent]
          /\ list' \in SetToSeqs({p \in read : VersionOf[p] = 3})
          /\ unread' = InTable \ read
    /\ rec' = [p \in Pools |-> {}] /\ listen' = [p \in Pools |-> 0]
    /\ todo' = <<>> /\ istep' = 1 /\ group' = {}
    /\ byAdmin' = {} /\ early' = {}
    /\ UNCHANGED <<table, adder, crashes>>

\* The process is gone, and with it what its goroutines were doing.
Die ==
    /\ mpc' = "down"
    /\ adder' = [a \in Adders |->
                    IF a \in Requests /\ adder[a].pc # "idle" THEN Done ELSE Idle]

Crash ==
    /\ Up /\ crashes < MaxCrashes
    /\ crashes' = crashes + 1
    /\ Die
    /\ UNCHANGED <<dataVars, serveVars, todo, istep, group, dbFaults, byAdmin, early, unread>>

\* Start makes the maps, and startNft starts dealNft and waits a second.
StartNft ==
    /\ mpc = "boot"
    /\ mpc' = "wait"
    /\ UNCHANGED <<dataVars, serveVars, todo, istep, group, adder, crashes, dbFaults,
                   byAdmin, early, unread>>

\* start(3): GetPools returns the slice as it is now.
StartPools ==
    /\ mpc = "wait"
    /\ mpc' = "start"
    /\ todo' = list
    /\ UNCHANGED <<dataVars, serveVars, istep, group, adder, crashes, dbFaults,
                   byAdmin, early, unread>>

\* StartPool: one goroutine listens for all pools of ps.
Listen(ps) == listen' = [p \in Pools |-> IF p \in ps THEN listen[p] + 1 ELSE listen[p]]

\* The groups: one more pool, a listener when there are more than GroupLimit.
JoinDropsLast(p) ==
    IF Cardinality(group \cup {p}) > GroupLimit
    THEN group' = {} /\ Listen(group)
    ELSE group' = group \cup {p} /\ UNCHANGED listen
Join(p) ==
    IF Cardinality(group \cup {p}) > GroupLimit
    THEN group' = {} /\ Listen(group \cup {p})
    ELSE group' = group \cup {p} /\ UNCHANGED listen

\* initPoolStat of the next pool, one map after the other.  A failed query is a
\* panic.
InitPoolStatNoReset ==
    /\ mpc = "start" /\ todo # <<>>
    /\ rec' = [rec EXCEPT ![Head(todo)] = @ \cup {RecordOrder[istep]}]
    /\ istep' = istep + 1
    /\ IF istep < 3 THEN UNCHANGED <<todo, group, listen>>
                    ELSE todo' = Tail(todo) /\ Join(Head(todo))
    /\ UNCHANGED <<dataVars, mpc, adder, crashes, dbFaults, byAdmin, early, unread>>
InitPoolStat ==
    /\ mpc = "start" /\ todo # <<>>
    /\ rec' = [rec EXCEPT ![Head(todo)] = @ \cup {RecordOrder[istep]}]
    /\ IF istep < 3
       THEN istep' = istep + 1 /\ UNCHANGED <<todo, group, listen>>
       ELSE istep' = 1 /\ todo' = Tail(todo) /\ Join(Head(todo))
    /\ UNCHANGED <<dataVars, mpc, adder, crashes, dbFaults, byAdmin, early, unread>>

\* The last group, which may be empty.
StartLast ==
    /\ mpc = "start" /\ todo = <<>>
    /\ mpc' = "run"
    /\ Listen(group)
    /\ group' = {}
    /\ UNCHANGED <<dataVars, rec, todo, istep, adder, crashes, dbFaults, byAdmin, early, unread>>
-----------------------------------------------------------------------------
(* Adding a pool: dealNft, and a request to /admin/pool/add *)

\* A mint makes dealNft look for its pool; a request does not look.
Wants(a, p) ==
    IF a = Nft THEN mpc \in {"wait", "start", "run"} /\ VersionOf[p] = 3 /\ mem[p] = Absent
               ELSE Up

\* AddPool: the insert.  It fails when the pool has a row.
InsertPool(a, p) ==
    /\ adder[a].pc = "idle" /\ Wants(a, p)
    /\ \/ /\ table[p] = Absent
          /\ table' = [table EXCEPT ![p] = NewState]
          /\ adder' = [adder EXCEPT ![a].pc = "add", ![a].pool = p]
          /\ UNCHANGED dbFaults
       \/ /\ IF table[p] = Absent THEN DbFault ELSE UNCHANGED dbFaults
          /\ adder' = [adder EXCEPT ![a] = IF a = Nft THEN Idle ELSE Done]
          /\ UNCHANGED table
    /\ UNCHANGED <<mem, list, serveVars, mainVars, crashes, byAdmin, early, unread>>

\* addPool: the maps, and the slice is read.  (poolMMM is written a little later;
\* only dealNft looks there, and the key of the table stops it.)
AddPool(a) ==
    /\ adder[a].pc = "add"
    /\ LET p == adder[a].pool IN
          /\ mem' = [mem EXCEPT ![p] = NewState]
          /\ adder' = [adder EXCEPT ![a].pc = "append", ![a].list = list]
          /\ byAdmin' = IF a = Nft THEN byAdmin ELSE byAdmin \cup {p}
          /\ early' = IF mpc \in {"boot", "wait"} THEN early \cup {p} ELSE early
    /\ UNCHANGED <<table, list, serveVars, mainVars, crashes, dbFaults, unread>>

\* addPool: the longer slice of pools of version 3 is written.
AppendPool(a) ==
    /\ adder[a].pc = "append"
    /\ list' = IF VersionOf[adder[a].pool] = 3 THEN Append(adder[a].list, adder[a].pool)
                                              ELSE list
    /\ adder' = [adder EXCEPT ![a].pc = IF a = Nft THEN RecordOrder[1] ELSE "listen",
                              ![a].list = <<>>]
    /\ UNCHANGED <<table, mem, serveVars, mainVars, crashes, dbFaults, byAdmin, early, unread>>

\* initPoolStatReal: dealNft makes the records, a request does not.
InitPoolStatReal ==
    LET pc == adder[Nft].pc
        step == CHOOSE i \in 1..3 : RecordOrder[i] = pc
    IN  /\ pc \in Records
        /\ rec' = [rec EXCEPT ![adder[Nft].pool] = @ \cup {pc}]
        /\ adder' = [adder EXCEPT ![Nft].pc = IF step < 3 THEN RecordOrder[step + 1]
                                                          ELSE "listen"]
        /\ UNCHANGED <<dataVars, listen, mainVars, crashes, dbFaults, byAdmin, early, unread>>

\* StartPool of the new pool.
StartPool(a) ==
    /\ adder[a].pc = "listen"
    /\ Listen({adder[a].pool})
    /\ adder' = [adder EXCEPT ![a] = IF a = Nft THEN Idle ELSE Done]
    /\ UNCHANGED <<dataVars, rec, mainVars, crashes, dbFaults, byAdmin, early, unread>>
-----------------------------------------------------------------------------
(* Changing the state: a request to /admin/pool/state *)

UpdateState(r, p, s) ==
    /\ Up /\ adder[r].pc = "idle"
    /\ \/ /\ table' = [table EXCEPT ![p] = IF @ = Absent THEN Absent ELSE s]
          /\ adder' = [adder EXCEPT ![r] = [Idle EXCEPT !.pc = "state", !.pool = p, !.state = s]]
          /\ UNCHANGED dbFaults
       \/ /\ DbFault
          /\ adder' = [adder EXCEPT ![r] = Done]
          /\ UNCHANGED table
    /\ UNCHANGED <<mem, list, serveVars, mainVars, crashes, byAdmin, early, unread>>

\* The copy in poolMV3 follows; poolMV2 is not looked at.
CopyState(r) ==
    /\ adder[r].pc = "state"
    /\ LET p == adder[r].pool IN
          mem' = IF mem[p] # Absent /\ VersionOf[p] = 3
                 THEN [mem EXCEPT ![p] = adder[r].state] ELSE mem
    /\ adder' = [adder EXCEPT ![r] = Done]
    /\ UNCHANGED <<table, list, serveVars, mainVars, crashes, dbFaults, byAdmin, early, unread>>
-----------------------------------------------------------------------------
(* Who needs the records *)

\* dealTickV3 gets an event of p, or countVolumes comes to p.  Without the
\* records it dereferences nil, which ends the process.
Use(p) ==
    /\ \/ Up /\ listen[p] > 0
       \/ mpc = "run" /\ \E i \in DOMAIN list : list[i] = p
    /\ IF rec[p] = Records THEN UNCHANGED <<mpc, adder>> ELSE Die
    /\ UNCHANGED <<dataVars, serveVars, todo, istep, group, crashes, dbFaults,
                   byAdmin, early, unread>>

Next ==
    \/ Boot \/ Crash \/ StartNft \/ StartPools \/ InitPoolStat \/ StartLast
    \/ \E a \in Adders :
          \/ \E p \in Pools : InsertPool(a, p)
          \/ AddPool(a) \/ AppendPool(a) \/ StartPool(a)
    \/ InitPoolStatReal
    \/ \E r \in Requests :
          \/ \E p \in Pools, s \in States : UpdateState(r, p, s)
          \/ CopyState(r)
    \/ \E p \in Pools : Use(p)

Spec == Init /\ [][Next]_vars
-----------------------------------------------------------------------------
(* Properties *)

TypeOK ==
    /\ table \in [Pools -> States \cup {Absent}] /\ mem \in [Pools -> States \cup {Absent}]
    /\ list \in Seq(Pools)
    /\ rec \in [Pools -> SUBSET Records] /\ listen \in [Pools -> Nat]
    /\ mpc \in {"down", "boot", "wait", "start", "run"}
    /\ todo \in Seq(Pools) /\ istep \in 1..3 /\ group \subseteq Pools
    /\ adder \in [Adders ->
          [pc : {"idle", "done", "add", "append", "listen", "state"} \cup Records,
           pool : Pools \cup {Absent}, list : Seq(Pools), state : States]]
    /\ crashes \in 0..MaxCrashes /\ dbFaults \in 0..MaxDbFaults
    /\ byAdmin \subseteq Pools /\ early \subseteq Pools /\ unread \subseteq Pools

\* Somebody is between the insert of p and its listener.
BeingAdded(p) ==
    \E a \in Adders : adder[a].pool = p /\ adder[a].pc \notin {"idle", "done", "state"}

\* A handler of the overview that finds the current reserves of a pool finds its
\* other records: they are made in that order, by whoever makes them.
OverviewFindsRecords ==
    \A p \in Pools : "curr" \in rec[p] => rec[p] = Records

\* Once the service runs, a listed pool has its records, unless a request added it
\* or dealNft is at this very moment between AddPool and the last record.  These
\* are the only pools an event or midnight can end the process for.
RecordsExceptInWindow ==
    mpc = "run" => \A i \in DOMAIN list :
        LET p == list[i] IN
        \/ rec[p] = Records
        \/ p \in byAdmin
        \/ adder[Nft].pool = p /\ adder[Nft].pc \in Records

\* Whoever finds the records of a pool incomplete is one of these: a handler finds
\* all of them or none, and only a pool added by a request, or by dealNft at this
\* moment, can end the process (initPoolStat, initPoolStatReal).
RecordsReady == OverviewFindsRecords /\ RecordsExceptInWindow

\* Once the service runs, every pool of the table of version 3 is listened to, or
\* somebody is about to: the groups lose no pool.  (A request that adds
\* a pool and dies with the process leaves it to the next start.)  The exception is
\* a pool that getPools failed to read: whoever would add it meets its row, so nobody
\* listens to it until a start that reads it.
EveryPoolListened ==
    mpc = "run" => \A p \in InTable :
        VersionOf[p] = 3 => IF p \in unread THEN listen[p] = 0 /\ ~BeingAdded(p)
                                            ELSE listen[p] > 0 \/ BeingAdded(p)

\* A pool has one listener, so its events are counted once, unless it was added
\* after the HTTP server and dealNft started and before start read the list.
OneListener == \A p \in Pools : listen[p] > 1 => p \in early

\* A pool is listed once, though dealNft and several requests may add it at the
\* same time: the key of the table decides.
ListedOnce == \A i, j \in DOMAIN list : list[i] = list[j] => i = j

\* The groups of start, the pools of dealNft and those of the requests together
\* give every pool a listener, one, and list it once, whatever order they come in;
\* OneListener names the pools that may get two.
PoolsJoin == EveryPoolListened /\ OneListener /\ ListedOnce

=============================================================================
