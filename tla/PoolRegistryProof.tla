------------------------- MODULE PoolRegistryProof -------------------------
(***************************************************************************)
(* Proofs about PoolRegistry, for any pools, groups, requests and crashes. *)
(***************************************************************************)
EXTENDS PoolRegistry, FiniteSetTheorems, SequenceTheorems, TLAPS

Active(a) == adder[a].pc \notin {"idle", "done"}
Steps == {"idle", "done", "add", "append", "listen", "state"} \cup Records
AdderType == [pc : Steps, pool : Pools \cup {Absent}, list : Seq(Pools), state : States]

\* The type invariant, with a name for the type of an adder.
Typed ==
    /\ table \in [Pools -> States \cup {Absent}] /\ mem \in [Pools -> States \cup {Absent}]
    /\ list \in Seq(Pools)
    /\ rec \in [Pools -> SUBSET Records] /\ listen \in [Pools -> Nat]
    /\ mpc \in {"down", "boot", "wait", "start", "run"}
    /\ todo \in Seq(Pools) /\ istep \in 1..3 /\ group \subseteq Pools
    /\ adder \in [Adders -> AdderType]
    /\ crashes \in 0..MaxCrashes /\ dbFaults \in 0..MaxDbFaults
    /\ byAdmin \subseteq Pools /\ early \subseteq Pools /\ unread \subseteq Pools

\* Whoever is at work has a pool, and nobody is when the process is down.
Working ==
    /\ \A a \in Adders : Active(a) => adder[a].pool \in Pools
    /\ mpc = "down" => \A a \in Adders : ~Active(a)

\* A request is known to have added its pool before it writes the slice.
Named == \A a \in Requests : adder[a].pc = "append" => adder[a].pool \in byAdmin

\* Who makes the records of a pool has made those that come before.
InOrder ==
    /\ mpc \in {"boot", "wait"} => istep = 1
    /\ mpc = "start" /\ todo # <<>> =>
          \A i \in 1..3 : i < istep => RecordOrder[i] \in rec[Head(todo)]
    /\ adder[Nft].pc \in {"utc0", "curr"} => "vol" \in rec[adder[Nft].pool]
    /\ adder[Nft].pc = "curr" => "utc0" \in rec[adder[Nft].pool]

In(p, s) == \E i \in DOMAIN s : s[i] = p

\* The snapshot of the slice an adder is about to extend.
Copied(a, p) == adder[a].pc = "append" /\ In(p, adder[a].list)
Held(p) == In(p, list) \/ \E a \in Adders : Copied(a, p)

Safe(p) ==
    \/ rec[p] = Records
    \/ p \in byAdmin
    \/ adder[Nft].pool = p /\ adder[Nft].pc \in Records

\* A pool without records is in every copy of the slice until start reads it, and
\* waits for start from then on.
InEveryCopy(p) ==
    In(p, list) /\ \A a \in Adders : adder[a].pc = "append" => In(p, adder[a].list)
Awaited ==
    /\ mpc \in {"boot", "wait"} => \A p \in Pools : Held(p) => Safe(p) \/ InEveryCopy(p)
    /\ mpc \in {"start", "run"} => \A p \in Pools : Held(p) => Safe(p) \/ In(p, todo)
    /\ mpc = "run" => todo = <<>>

IInv == TypeOK /\ Working /\ Named /\ InOrder /\ OverviewFindsRecords /\ Awaited
-----------------------------------------------------------------------------
(* Sequences and records *)

LEMMA InAppend ==
    ASSUME NEW s \in Seq(Pools), NEW e \in Pools, NEW p
    PROVE  /\ Append(s, e) \in Seq(Pools)
           /\ In(p, Append(s, e)) <=> In(p, s) \/ p = e
<1>1. Append(s, e) \in Seq(Pools)
  OBVIOUS
<1>2. /\ DOMAIN s = 1..Len(s) /\ Len(s) \in Nat
      /\ DOMAIN Append(s, e) = 1..(Len(s) + 1)
  OBVIOUS
<1>3. /\ \A i \in 1..Len(s) : Append(s, e)[i] = s[i]
      /\ Append(s, e)[Len(s) + 1] = e
  OBVIOUS
<1>4. ASSUME In(p, Append(s, e)) PROVE In(p, s) \/ p = e
  <2>1. PICK i \in 1..(Len(s) + 1) : Append(s, e)[i] = p
    BY <1>2, <1>4 DEF In
  <2>2. i \in 1..Len(s) \/ i = Len(s) + 1
    BY <1>2, <2>1
  <2>3. QED
    BY <1>2, <1>3, <2>1, <2>2 DEF In
<1>5. ASSUME In(p, s) PROVE In(p, Append(s, e))
  <2>1. PICK i \in 1..Len(s) : s[i] = p
    BY <1>2, <1>5 DEF In
  <2>2. i \in 1..(Len(s) + 1) /\ Append(s, e)[i] = p
    BY <1>2, <1>3, <2>1
  <2>3. QED
    BY <1>2, <2>2 DEF In
<1>6. p = e => In(p, Append(s, e))
  <2>1. Len(s) + 1 \in 1..(Len(s) + 1)
    BY <1>2
  <2>2. QED
    BY <1>2, <1>3, <2>1 DEF In
<1>7. QED
  BY <1>1, <1>4, <1>5, <1>6

LEMMA InTail ==
    ASSUME NEW s \in Seq(Pools), s # <<>>
    PROVE  /\ Head(s) \in Pools /\ Tail(s) \in Seq(Pools)
           /\ \A p : In(p, s) => p = Head(s) \/ In(p, Tail(s))
<1>1. Head(s) \in Pools /\ Tail(s) \in Seq(Pools) /\ Head(s) = s[1]
  OBVIOUS
<1>2. /\ DOMAIN s = 1..Len(s) /\ Len(s) \in Nat /\ Len(Tail(s)) = Len(s) - 1
      /\ DOMAIN Tail(s) = 1..(Len(s) - 1)
  OBVIOUS
<1>3. \A i \in 1..(Len(s) - 1) : Tail(s)[i] = s[i + 1]
  BY <1>2
<1>4. ASSUME NEW p, In(p, s), p # Head(s) PROVE In(p, Tail(s))
  <2>1. PICK i \in 1..Len(s) : s[i] = p
    BY <1>2, <1>4 DEF In
  <2>2. i - 1 \in 1..(Len(s) - 1)
    BY <1>1, <1>2, <1>4, <2>1
  <2>3. Tail(s)[i - 1] = p
    BY <1>3, <2>1, <2>2
  <2>4. QED
    BY <1>2, <2>2, <2>3 DEF In
<1>5. QED
  BY <1>1, <1>4

LEMMA RecordsInOrder ==
    /\ RecordOrder[1] = "vol" /\ RecordOrder[2] = "utc0" /\ RecordOrder[3] = "curr"
    /\ \A i \in 1..3 : RecordOrder[i] \in Records
BY DEF RecordOrder, Records

LEMMA Resting ==
    /\ Idle \in AdderType /\ Idle.pc = "idle"
    /\ Done \in AdderType /\ Done.pc = "done"
<1>1. <<>> \in Seq(Pools) /\ NewState \in States
  BY RegistryAssumption
<1>2. Idle \in AdderType /\ Idle.pc = "idle"
  BY <1>1 DEF Idle, AdderType, Steps
<1>3. Done = [Idle EXCEPT !.pc = "done"]
  BY DEF Done
<1>4. QED
  BY <1>2, <1>3 DEF AdderType, Steps

LEMMA AddersTyped ==
    /\ TypeOK <=> Typed
    /\ TypeOK' <=> Typed'
BY DEF TypeOK, Typed, AdderType, Steps

\* A failed statement stays within its bound.
LEMMA FaultCounted == TypeOK /\ (DbFault \/ UNCHANGED dbFaults) => dbFaults' \in 0..MaxDbFaults
BY RegistryAssumption DEF TypeOK, DbFault
-----------------------------------------------------------------------------
(* The initial states *)

LEMMA InitInv == Init => IInv
<1> SUFFICES ASSUME Init PROVE IInv
  OBVIOUS
<1>1. adder \in [Adders -> AdderType] /\ \A a \in Adders : adder[a].pc = "idle"
  BY Resting DEF Init
<1>2. TypeOK
  <2>1. <<>> \in Seq(Pools) /\ NewState \in States /\ 1 \in 1..3
    BY RegistryAssumption
  <2>2. /\ table \in [Pools -> States \cup {Absent}]
        /\ mem \in [Pools -> States \cup {Absent}]
    BY <2>1 DEF Init
  <2>3. rec \in [Pools -> SUBSET Records] /\ listen \in [Pools -> Nat]
    BY DEF Init
  <2>4. crashes \in 0..MaxCrashes /\ dbFaults \in 0..MaxDbFaults
    BY RegistryAssumption DEF Init
  <2>5. QED
    BY <1>1, <2>1, <2>2, <2>3, <2>4, AddersTyped DEF Typed, Init
<1>3. mpc = "down" /\ \A p \in Pools : rec[p] = {}
  BY DEF Init
<1>4. Nft \in Adders /\ Requests \subseteq Adders
  BY DEF Adders
<1>5. QED
  BY <1>1, <1>2, <1>3, <1>4 DEF IInv, Working, Active, Named, InOrder, OverviewFindsRecords,
     Awaited, Records
-----------------------------------------------------------------------------
(* Steps that touch neither the slice nor the records *)

\* Nothing the order of the records depends on changes but the adders.
Memory == <<list, rec, byAdmin, todo, istep>>

\* An adder takes a step that is none of those that write the slice or records.
LEMMA QuietAdder ==
    ASSUME IInv, NEW a \in Adders, NEW v \in AdderType,
           adder' = [adder EXCEPT ![a] = v], UNCHANGED <<Memory, mpc>>,
           adder[a].pc \notin Records, v.pc \notin Records \cup {"append"},
           v.pc \notin {"idle", "done"} => v.pool \in Pools /\ mpc # "down"
    PROVE  /\ adder' \in [Adders -> AdderType]
           /\ Working' /\ Named' /\ InOrder' /\ OverviewFindsRecords' /\ Awaited'
<1>1. adder \in [Adders -> AdderType]
  BY AddersTyped DEF Typed, IInv
<1>2. /\ adder' \in [Adders -> AdderType] /\ adder'[a] = v
      /\ \A b \in Adders \ {a} : adder'[b] = adder[b]
  BY <1>1
<1>3. UNCHANGED <<list, rec, byAdmin, todo, istep, mpc>>
  BY DEF Memory
<1>4. Working'
  BY <1>2, <1>3 DEF IInv, Working, Active
<1>5. Named'
  BY <1>2, <1>3 DEF IInv, Named, Adders
<1>6. Nft \in Adders /\ (adder'[Nft] = adder[Nft] \/ a = Nft)
  BY <1>2 DEF Adders
<1>7. InOrder' /\ OverviewFindsRecords'
  BY <1>2, <1>3, <1>6 DEF IInv, InOrder, OverviewFindsRecords, Records
<1>8. \A p : Safe(p) => Safe(p)'
  BY <1>2, <1>3, <1>6 DEF Safe
<1>9. \A b \in Adders : adder'[b].pc = "append" => adder'[b] = adder[b]
  BY <1>2
<1>10. \A p : (Held(p)' => Held(p)) /\ (InEveryCopy(p) => InEveryCopy(p)')
  BY <1>3, <1>9 DEF Held, Copied, InEveryCopy, In
<1>11. \A p : In(p, todo) => In(p, todo)'
  BY <1>3 DEF In
<1>12. Awaited'
  BY <1>3, <1>8, <1>10, <1>11 DEF IInv, Awaited
<1>13. QED
  BY <1>2, <1>4, <1>5, <1>7, <1>12

\* The process ends.
LEMMA DieKeeps ==
    ASSUME IInv, Die, UNCHANGED Memory
    PROVE  /\ adder' \in [Adders -> AdderType]
           /\ Working' /\ Named' /\ InOrder' /\ OverviewFindsRecords' /\ Awaited'
<1>1. adder' \in [Adders -> AdderType] /\ \A a \in Adders : adder'[a].pc \in {"idle", "done"}
  BY Resting DEF Die
<1>2. mpc' = "down" /\ rec' = rec
  BY DEF Die, Memory
<1>3. Nft \in Adders /\ Requests \subseteq Adders
  BY DEF Adders
<1>4. QED
  BY <1>1, <1>2, <1>3 DEF IInv, Working, Active, Named, InOrder, OverviewFindsRecords, Awaited

LEMMA CrashKeeps == IInv /\ Crash => IInv'
<1> SUFFICES ASSUME IInv, Crash PROVE IInv'
  OBVIOUS
<1>1. Die /\ UNCHANGED Memory
  BY DEF Crash, Memory, dataVars, serveVars
<1>2. crashes' \in 0..MaxCrashes
  BY RegistryAssumption DEF Crash, IInv, TypeOK
<1>3. TypeOK'
  BY <1>1, <1>2, DieKeeps, AddersTyped DEF Typed, Crash, dataVars, serveVars, IInv, Die
<1>4. QED
  BY <1>1, <1>3, DieKeeps DEF IInv

LEMMA StutterKeeps == IInv /\ UNCHANGED vars => IInv'
<1> SUFFICES ASSUME IInv, UNCHANGED vars PROVE IInv'
  OBVIOUS
<1>1. UNCHANGED <<table, mem, list, rec, listen, mpc, todo, istep, group, adder, crashes,
                  dbFaults, byAdmin, early, unread>>
  BY DEF vars, dataVars, serveVars, mainVars
<1>2. TypeOK'
  BY <1>1, AddersTyped DEF IInv, Typed
<1>3. Working' /\ Named' /\ InOrder' /\ OverviewFindsRecords'
  BY <1>1 DEF IInv, Working, Active, Named, InOrder, OverviewFindsRecords
<1>4. Awaited'
  BY <1>1 DEF IInv, Awaited, Held, Copied, Safe, InEveryCopy, In
<1>5. QED
  BY <1>2, <1>3, <1>4 DEF IInv

LEMMA UseKeeps == IInv /\ (\E p \in Pools : Use(p)) => IInv'
<1> SUFFICES ASSUME IInv, NEW p \in Pools, Use(p) PROVE IInv'
  OBVIOUS
<1>1. UNCHANGED <<dataVars, serveVars, todo, istep, group, crashes, dbFaults, byAdmin, early, unread>>
  BY DEF Use
<1>2. CASE rec[p] = Records
  <2>1. UNCHANGED vars
    BY <1>1, <1>2 DEF Use, mainVars, vars
  <2>2. QED
    BY <2>1, StutterKeeps
<1>3. CASE rec[p] # Records
  <2>1. Die /\ UNCHANGED Memory
    BY <1>1, <1>3 DEF Use, Memory, dataVars, serveVars
  <2>2. TypeOK'
    BY <1>1, <2>1, DieKeeps, AddersTyped DEF Typed, dataVars, serveVars, IInv, Die
  <2>3. QED
    BY <2>1, <2>2, DieKeeps DEF IInv
<1>4. QED
  BY <1>2, <1>3

\* The insert of AddPool.
LEMMA InsertKeeps ==
    IInv /\ (\E a \in Adders, p \in Pools : InsertPool(a, p)) => IInv'
<1> SUFFICES ASSUME IInv, NEW a \in Adders, NEW p \in Pools, InsertPool(a, p) PROVE IInv'
  OBVIOUS
<1>1. /\ adder[a].pc = "idle" /\ mpc # "down"
      /\ UNCHANGED <<Memory, mpc, mem, listen, group, crashes, early, unread>>
  BY DEF InsertPool, Wants, Up, Memory, serveVars, mainVars
<1>2. adder[a] \in AdderType
  BY AddersTyped DEF Typed, IInv
<1>3. PICK v \in AdderType :
        /\ adder' = [adder EXCEPT ![a] = v]
        /\ v.pc \notin Records \cup {"append"}
        /\ v.pc \notin {"idle", "done"} => v.pool \in Pools
  <2>1. CASE adder' = [adder EXCEPT ![a].pc = "add", ![a].pool = p]
    <3> DEFINE w == [adder[a] EXCEPT !.pc = "add", !.pool = p]
    <3>1. w \in AdderType /\ w.pc = "add" /\ w.pool = p
      BY <1>2 DEF AdderType, Steps
    <3>2. adder' = [adder EXCEPT ![a] = w]
      BY <2>1, AddersTyped DEF Typed, IInv
    <3>3. "add" \notin Records \cup {"append"}
      BY DEF Records
    <3>4. QED
      BY <3>1, <3>2, <3>3
  <2>2. CASE adder' = [adder EXCEPT ![a] = IF a = Nft THEN Idle ELSE Done]
    BY <2>2, Resting DEF Records
  <2>3. QED
    BY <2>1, <2>2 DEF InsertPool
<1>4. table' \in [Pools -> States \cup {Absent}] /\ dbFaults' \in 0..MaxDbFaults
  <2>1. UNCHANGED table \/ table' = [table EXCEPT ![p] = NewState]
    BY DEF InsertPool
  <2>2. DbFault \/ UNCHANGED dbFaults
    BY DEF InsertPool
  <2>3. TypeOK /\ table \in [Pools -> States \cup {Absent}] /\ NewState \in States
    BY RegistryAssumption, AddersTyped DEF Typed, IInv
  <2>4. table' \in [Pools -> States \cup {Absent}]
    BY <2>1, <2>3
  <2>5. dbFaults' \in 0..MaxDbFaults
    BY <2>2, <2>3, FaultCounted
  <2>6. QED
    BY <2>4, <2>5
<1>5. adder[a].pc \notin Records
  BY <1>1 DEF Records
<1>6. /\ adder' \in [Adders -> AdderType]
      /\ Working' /\ Named' /\ InOrder' /\ OverviewFindsRecords' /\ Awaited'
  BY <1>1, <1>3, <1>5, QuietAdder
<1>7. TypeOK'
  BY <1>1, <1>4, <1>6, AddersTyped DEF Typed, IInv, Memory
<1>8. QED
  BY <1>6, <1>7 DEF IInv

\* The statement of ChangePoolState, and the copy.
LEMMA StateKeeps ==
    /\ IInv /\ (\E r \in Requests, p \in Pools, s \in States : UpdateState(r, p, s)) => IInv'
    /\ IInv /\ (\E r \in Requests : CopyState(r)) => IInv'
<1>1. ASSUME IInv, NEW r \in Requests, NEW p \in Pools, NEW s \in States, UpdateState(r, p, s)
      PROVE  IInv'
  <2>1. /\ adder[r].pc = "idle" /\ mpc # "down" /\ r \in Adders
        /\ UNCHANGED <<Memory, mpc, mem, listen, group, crashes, early, unread>>
    BY <1>1 DEF UpdateState, Up, Memory, serveVars, mainVars, Adders
  <2>2. PICK v \in AdderType :
          /\ adder' = [adder EXCEPT ![r] = v]
          /\ v.pc \notin Records \cup {"append"}
          /\ v.pc \notin {"idle", "done"} => v.pool \in Pools
    <3> DEFINE w == [Idle EXCEPT !.pc = "state", !.pool = p, !.state = s]
    <3>1. w \in AdderType /\ w.pc = "state" /\ w.pool = p
      BY Resting DEF AdderType, Steps
    <3>2. adder' = [adder EXCEPT ![r] = w] \/ adder' = [adder EXCEPT ![r] = Done]
      BY <1>1 DEF UpdateState
    <3>3. "state" \notin Records \cup {"append"} /\ "done" \notin Records \cup {"append"}
      BY DEF Records
    <3>4. QED
      BY <3>1, <3>2, <3>3, Resting
  <2>3. table' \in [Pools -> States \cup {Absent}] /\ dbFaults' \in 0..MaxDbFaults
    <3>1. UNCHANGED table \/ table' = [table EXCEPT ![p] = IF @ = Absent THEN Absent ELSE s]
      BY <1>1 DEF UpdateState
    <3>2. DbFault \/ UNCHANGED dbFaults
      BY <1>1 DEF UpdateState
    <3>3. dbFaults' \in 0..MaxDbFaults
      BY <1>1, <3>2, FaultCounted DEF IInv
    <3>4. table \in [Pools -> States \cup {Absent}]
      BY <1>1, AddersTyped DEF Typed, IInv
    <3>5. [table EXCEPT ![p] = IF @ = Absent THEN Absent ELSE s]
            \in [Pools -> States \cup {Absent}]
      BY <1>1, <3>4
    <3>6. QED
      BY <3>1, <3>3, <3>4, <3>5
  <2>4. adder[r].pc \notin Records
    BY <2>1 DEF Records
  <2>5. /\ adder' \in [Adders -> AdderType]
        /\ Working' /\ Named' /\ InOrder' /\ OverviewFindsRecords' /\ Awaited'
    BY <1>1, <2>1, <2>2, <2>4, QuietAdder
  <2>6. TypeOK'
    BY <1>1, <2>1, <2>3, <2>5, AddersTyped DEF Typed, IInv, Memory
  <2>7. QED
    BY <2>5, <2>6 DEF IInv
<1>2. ASSUME IInv, NEW r \in Requests, CopyState(r) PROVE IInv'
  <2>1. /\ adder[r].pc = "state" /\ r \in Adders
        /\ adder' = [adder EXCEPT ![r] = Done]
        /\ UNCHANGED <<Memory, mpc, table, listen, group, crashes, dbFaults, early, unread>>
    BY <1>2 DEF CopyState, Memory, serveVars, mainVars, Adders
  <2>2. adder[r] \in AdderType
    BY <1>2, <2>1, AddersTyped DEF Typed, IInv
  <2>3. mem' \in [Pools -> States \cup {Absent}]
    <3>1. adder[r].state \in States
      BY <2>2 DEF AdderType
    <3>2. mem' = mem \/ mem' = [mem EXCEPT ![adder[r].pool] = adder[r].state]
      BY <1>2 DEF CopyState
    <3>3. QED
      BY <1>2, <3>1, <3>2, AddersTyped DEF Typed, IInv
  <2>4. adder[r].pc \notin Records /\ Done.pc \notin Records \cup {"append"}
    BY <2>1, Resting DEF Records
  <2>5. /\ adder' \in [Adders -> AdderType]
        /\ Working' /\ Named' /\ InOrder' /\ OverviewFindsRecords' /\ Awaited'
    BY <1>2, <2>1, <2>4, Resting, QuietAdder
  <2>6. TypeOK'
    BY <1>2, <2>1, <2>3, <2>5, AddersTyped DEF Typed, IInv, Memory
  <2>7. QED
    BY <2>5, <2>6 DEF IInv
<1>3. QED
  BY <1>1, <1>2

\* The pool of an adder gets its listener.
LEMMA ListenTyped ==
    ASSUME TypeOK, NEW ps, Listen(ps)
    PROVE  listen' \in [Pools -> Nat]
<1>1. listen \in [Pools -> Nat]
  BY DEF TypeOK
<1>2. \A p \in Pools : listen[p] + 1 \in Nat
  BY <1>1
<1>3. QED
  BY <1>1, <1>2 DEF Listen

LEMMA StartPoolKeeps == IInv /\ (\E a \in Adders : StartPool(a)) => IInv'
<1> SUFFICES ASSUME IInv, NEW a \in Adders, StartPool(a) PROVE IInv'
  OBVIOUS
<1>1. /\ adder[a].pc = "listen"
      /\ UNCHANGED <<Memory, mpc, table, mem, group, crashes, dbFaults, early, unread>>
  BY DEF StartPool, Memory, dataVars, mainVars
<1>2. PICK v \in AdderType :
        /\ adder' = [adder EXCEPT ![a] = v] /\ v.pc \in {"idle", "done"}
  BY Resting DEF StartPool
<1>3. adder[a].pc \notin Records /\ v.pc \notin Records \cup {"append"}
  BY <1>1, <1>2 DEF Records
<1>4. /\ adder' \in [Adders -> AdderType]
      /\ Working' /\ Named' /\ InOrder' /\ OverviewFindsRecords' /\ Awaited'
  BY <1>1, <1>2, <1>3, QuietAdder
<1>5. listen' \in [Pools -> Nat]
  BY ListenTyped DEF StartPool, IInv
<1>6. TypeOK'
  BY <1>1, <1>4, <1>5, AddersTyped DEF Typed, IInv, Memory
<1>7. QED
  BY <1>4, <1>6 DEF IInv
-----------------------------------------------------------------------------
(* main *)

\* What main leaves alone while the adders rest or work on.
LEMMA MainQuiet ==
    ASSUME IInv, UNCHANGED <<list, rec, adder, byAdmin>>,
           mpc # "down", mpc' # "down"
    PROVE  /\ Working' /\ Named' /\ OverviewFindsRecords'
           /\ \A p : /\ Held(p)' <=> Held(p)
                     /\ Safe(p)' <=> Safe(p)
                     /\ InEveryCopy(p)' <=> InEveryCopy(p)
BY DEF IInv, Working, Active, Named, OverviewFindsRecords, Held, Copied, Safe, InEveryCopy, In

\* Boot: nobody is adding a pool, and the slice is the table.
LEMMA BootKeeps == IInv /\ Boot => IInv'
<1> SUFFICES ASSUME IInv, Boot PROVE IInv'
  OBVIOUS
<1>0. PICK read \in SUBSET InTable :
        /\ dbFaults' = dbFaults \/ DbFault
        /\ mem' = [p \in Pools |-> IF p \in read THEN table[p] ELSE Absent]
        /\ list' \in SetToSeqs({p \in read : VersionOf[p] = 3})
        /\ unread' = InTable \ read
  BY DEF Boot
<1>1. list' \in Seq(Pools)
  <2> DEFINE V == {p \in read : VersionOf[p] = 3}
  <2>1. V \subseteq Pools
    BY DEF InTable
  <2>2. IsFiniteSet(V)
    BY <2>1, RegistryAssumption, FS_Subset
  <2>3. Cardinality(V) \in Nat
    BY <2>2, FS_CardinalityType
  <2>4. list' \in [1..Cardinality(V) -> V]
    BY <1>0 DEF SetToSeqs
  <2>5. list' \in [1..Cardinality(V) -> Pools]
    BY <2>1, <2>4
  <2>6. QED
    BY <2>3, <2>5, SeqDef
<1>2. /\ mpc = "down" /\ mpc' = "boot" /\ istep' = 1 /\ todo' = <<>>
      /\ rec' = [p \in Pools |-> {}] /\ listen' = [p \in Pools |-> 0]
      /\ group' = {} /\ byAdmin' = {} /\ early' = {}
      /\ UNCHANGED <<table, adder, crashes>>
  BY DEF Boot
<1>3. TypeOK'
  <2>1. Typed
    BY AddersTyped DEF IInv
  <2>2. mem' \in [Pools -> States \cup {Absent}]
    BY <1>0, <2>1 DEF Typed
  <2>3. dbFaults' \in 0..MaxDbFaults
    BY <1>0, FaultCounted DEF IInv
  <2>4. unread' \subseteq Pools
    BY <1>0 DEF InTable
  <2>5. QED
    BY <1>1, <1>2, <2>1, <2>2, <2>3, <2>4, AddersTyped DEF Typed
<1>4. \A a \in Adders : adder'[a] = adder[a] /\ adder[a].pc \in {"idle", "done"}
  BY <1>2 DEF IInv, Working, Active
<1>5. Nft \in Adders /\ Requests \subseteq Adders
  BY DEF Adders
<1>6. Working' /\ Named' /\ InOrder'
  BY <1>2, <1>4, <1>5 DEF Working, Active, Named, InOrder
<1>7. OverviewFindsRecords'
  BY <1>2 DEF OverviewFindsRecords
<1>8. \A p : Held(p)' => InEveryCopy(p)'
  BY <1>4 DEF Held, Copied, InEveryCopy
<1>9. Awaited'
  BY <1>2, <1>8 DEF Awaited
<1>10. QED
  BY <1>3, <1>6, <1>7, <1>9 DEF IInv

LEMMA StartNftKeeps == IInv /\ StartNft => IInv'
<1> SUFFICES ASSUME IInv, StartNft PROVE IInv'
  OBVIOUS
<1>1. /\ mpc = "boot" /\ mpc' = "wait"
      /\ UNCHANGED <<table, mem, list, rec, listen, todo, istep, group, adder, crashes,
                     dbFaults, byAdmin, early, unread>>
  BY DEF StartNft, dataVars, serveVars
<1>2. TypeOK'
  BY <1>1, AddersTyped DEF Typed, IInv
<1>3. InOrder'
  BY <1>1 DEF IInv, InOrder
<1>4. Awaited'
  BY <1>1, MainQuiet DEF IInv, Awaited
<1>5. QED
  BY <1>1, <1>2, <1>3, <1>4, MainQuiet DEF IInv

\* start takes the slice as it is: whoever is in any copy is safe or in the slice.
LEMMA StartPoolsKeeps == IInv /\ StartPools => IInv'
<1> SUFFICES ASSUME IInv, StartPools PROVE IInv'
  OBVIOUS
<1>1. /\ mpc = "wait" /\ mpc' = "start" /\ todo' = list
      /\ UNCHANGED <<table, mem, list, rec, listen, istep, group, adder, crashes,
                     dbFaults, byAdmin, early, unread>>
  BY DEF StartPools, dataVars, serveVars
<1>2. TypeOK'
  BY <1>1, AddersTyped DEF Typed, IInv
<1>3. istep' = 1
  BY <1>1 DEF IInv, InOrder
<1>4. InOrder'
  BY <1>1, <1>3 DEF IInv, InOrder
<1>5. \A p : InEveryCopy(p) => In(p, todo)'
  BY <1>1 DEF InEveryCopy, In
<1>6. Awaited'
  BY <1>1, <1>5, MainQuiet DEF IInv, Awaited
<1>7. QED
  BY <1>1, <1>2, <1>4, <1>6, MainQuiet DEF IInv

LEMMA StartLastKeeps == IInv /\ StartLast => IInv'
<1> SUFFICES ASSUME IInv, StartLast PROVE IInv'
  OBVIOUS
<1>1. /\ mpc = "start" /\ mpc' = "run" /\ todo = <<>> /\ group' = {}
      /\ UNCHANGED <<table, mem, list, rec, todo, istep, adder, crashes, dbFaults, byAdmin,
                     early, unread>>
  BY DEF StartLast, dataVars
<1>2. listen' \in [Pools -> Nat]
  BY ListenTyped DEF StartLast, IInv
<1>3. TypeOK'
  BY <1>1, <1>2, AddersTyped DEF Typed, IInv
<1>4. InOrder'
  BY <1>1 DEF IInv, InOrder
<1>5. \A p : In(p, todo)' <=> In(p, todo)
  BY <1>1 DEF In
<1>6. Awaited'
  BY <1>1, <1>5, MainQuiet DEF IInv, Awaited
<1>7. QED
  BY <1>1, <1>3, <1>4, <1>6, MainQuiet DEF IInv

\* One more record of the first pool of todo.
LEMMA RecordMade ==
    ASSUME IInv, NEW h \in Pools, NEW c \in Records, rec' = [rec EXCEPT ![h] = @ \cup {c}]
    PROVE  /\ rec' \in [Pools -> SUBSET Records]
           /\ c \in rec'[h] /\ \A p \in Pools : rec[p] \subseteq rec'[p]
           /\ \A p \in Pools : p # h => rec'[p] = rec[p]
           /\ \A p \in Pools : rec[p] = Records => rec'[p] = Records
<1>1. rec \in [Pools -> SUBSET Records]
  BY AddersTyped DEF Typed, IInv
<1>2. rec' \in [Pools -> SUBSET Records]
  BY <1>1
<1>3. /\ c \in rec'[h] /\ \A p \in Pools : rec[p] \subseteq rec'[p]
      /\ \A p \in Pools : p # h => rec'[p] = rec[p]
  BY <1>1
<1>4. ASSUME NEW p \in Pools, rec[p] = Records PROVE rec'[p] = Records
  <2>1. rec'[p] \subseteq Records /\ Records \subseteq rec'[p]
    BY <1>2, <1>3, <1>4
  <2>2. QED
    BY <2>1
<1>5. QED
  BY <1>2, <1>3, <1>4

LEMMA InitPoolStatKeeps == IInv /\ InitPoolStat => IInv'
<1> SUFFICES ASSUME IInv, InitPoolStat PROVE IInv'
  OBVIOUS
<1> DEFINE h == Head(todo)
<1>1. /\ mpc = "start" /\ mpc' = "start" /\ todo # <<>>
      /\ UNCHANGED <<table, mem, list, adder, crashes, dbFaults, byAdmin, early, unread>>
  BY DEF InitPoolStat, dataVars
<1>2. /\ todo \in Seq(Pools) /\ istep \in 1..3 /\ h \in Pools
      /\ Tail(todo) \in Seq(Pools) /\ group \subseteq Pools
      /\ \A p : In(p, todo) => p = h \/ In(p, Tail(todo))
  BY <1>1, InTail, AddersTyped DEF Typed, IInv
<1>3. /\ RecordOrder[istep] \in Records
      /\ rec' = [rec EXCEPT ![h] = @ \cup {RecordOrder[istep]}]
  BY <1>2, RecordsInOrder DEF InitPoolStat
<1>4. /\ rec' \in [Pools -> SUBSET Records]
      /\ RecordOrder[istep] \in rec'[h] /\ \A p \in Pools : rec[p] \subseteq rec'[p]
      /\ \A p \in Pools : p # h => rec'[p] = rec[p]
      /\ \A p \in Pools : rec[p] = Records => rec'[p] = Records
  BY <1>2, <1>3, RecordMade
<1>5. \A i \in 1..3 : i < istep + 1 => RecordOrder[i] \in rec'[h]
  <2>1. \A i \in 1..3 : i < istep => RecordOrder[i] \in rec[h]
    BY <1>1 DEF IInv, InOrder
  <2>2. \A i \in 1..3 : i < istep + 1 => i < istep \/ i = istep
    BY <1>2
  <2>3. QED
    BY <1>2, <1>4, <2>1, <2>2
<1>6. istep = 3 => rec'[h] = Records
  <2>1. istep = 3 => {"vol", "utc0", "curr"} \subseteq rec'[h]
    BY <1>5, RecordsInOrder
  <2>2. QED
    BY <1>2, <1>4, <2>1 DEF Records
<1>7. \/ istep < 3 /\ istep' = istep + 1 /\ UNCHANGED <<todo, group, listen>>
      \/ istep = 3 /\ istep' = 1 /\ todo' = Tail(todo) /\ Join(h)
  BY <1>2 DEF InitPoolStat
<1>8. listen' \in [Pools -> Nat] /\ group' \subseteq Pools
  <2>1. CASE UNCHANGED <<group, listen>>
    BY <1>2, <2>1, AddersTyped DEF Typed, IInv
  <2>2. CASE Join(h)
    <3>1. group' = {} \/ group' = group \cup {h}
      BY <2>2 DEF Join
    <3>2. Listen(group \cup {h}) \/ UNCHANGED listen
      BY <2>2 DEF Join
    <3>3. listen' \in [Pools -> Nat]
      BY <3>2, ListenTyped, AddersTyped DEF Typed, IInv
    <3>4. QED
      BY <1>2, <3>1, <3>3
  <2>3. QED
    BY <1>7, <2>1, <2>2
<1>9. todo' \in Seq(Pools) /\ istep' \in 1..3
  BY <1>2, <1>7
<1>10. TypeOK'
  BY <1>1, <1>4, <1>8, <1>9, AddersTyped DEF Typed, IInv
<1>11. Working' /\ Named'
  BY <1>1 DEF IInv, Working, Active, Named
<1>12. InOrder'
  <2>1. ASSUME todo' # <<>>, NEW i \in 1..3, i < istep'
        PROVE  RecordOrder[i] \in rec'[Head(todo')]
    BY <1>2, <1>5, <1>7, <2>1
  <2>2. adder[Nft].pc \in {"utc0", "curr"} => adder[Nft].pool \in Pools
    BY DEF IInv, Working, Active, Adders
  <2>3. /\ adder'[Nft].pc \in {"utc0", "curr"} => "vol" \in rec'[adder'[Nft].pool]
        /\ adder'[Nft].pc = "curr" => "utc0" \in rec'[adder'[Nft].pool]
    BY <1>1, <1>4, <2>2 DEF IInv, InOrder
  <2>4. QED
    BY <1>1, <2>1, <2>3 DEF InOrder
<1>13. OverviewFindsRecords'
  <2>1. ASSUME NEW p \in Pools, "curr" \in rec'[p] PROVE rec'[p] = Records
    <3>1. CASE "curr" \in rec[p]
      BY <1>4, <3>1 DEF IInv, OverviewFindsRecords
    <3>2. CASE "curr" \notin rec[p]
      <4>1. p = h /\ RecordOrder[istep] = "curr"
        BY <1>2, <1>3, <2>1, <3>2, AddersTyped DEF Typed, IInv
      <4>2. istep = 3
        BY <1>2, <4>1, RecordsInOrder
      <4>3. QED
        BY <1>6, <4>1, <4>2
    <3>3. QED
      BY <3>1, <3>2
  <2>2. QED
    BY <2>1 DEF OverviewFindsRecords
<1>14. Awaited'
  <2>1. \A p \in Pools : Safe(p) => Safe(p)'
    BY <1>1, <1>4 DEF Safe
  <2>2. \A p : Held(p)' => Held(p)
    BY <1>1 DEF Held, Copied, In
  <2>3. ASSUME NEW p \in Pools, In(p, todo) PROVE Safe(p)' \/ In(p, todo)'
    <3>1. CASE istep < 3
      BY <1>7, <2>3, <3>1 DEF In
    <3>2. CASE istep = 3
      <4>1. rec'[h] = Records /\ todo' = Tail(todo)
        BY <1>6, <1>7, <3>2
      <4>2. p = h \/ In(p, Tail(todo))
        BY <1>2, <2>3
      <4>3. QED
        BY <4>1, <4>2 DEF Safe, In
    <3>3. QED
      BY <1>7, <3>1, <3>2
  <2>4. \A p \in Pools : Held(p) => Safe(p) \/ In(p, todo)
    BY <1>1 DEF IInv, Awaited
  <2>5. QED
    BY <1>1, <2>1, <2>2, <2>3, <2>4 DEF Awaited
<1>15. QED
  BY <1>10, <1>11, <1>12, <1>13, <1>14 DEF IInv
-----------------------------------------------------------------------------
(* Adding a pool *)

\* The pool gets its copy in the maps, and the slice is read.
LEMMA AddPoolKeeps == IInv /\ (\E a \in Adders : AddPool(a)) => IInv'
<1> SUFFICES ASSUME IInv, NEW a \in Adders, AddPool(a) PROVE IInv'
  OBVIOUS
<1> DEFINE p == adder[a].pool
           v == [adder[a] EXCEPT !.pc = "append", !.list = list]
<1>1. /\ adder[a].pc = "add"
      /\ mem' = [mem EXCEPT ![p] = NewState]
      /\ adder' = [adder EXCEPT ![a].pc = "append", ![a].list = list]
      /\ byAdmin' = IF a = Nft THEN byAdmin ELSE byAdmin \cup {p}
      /\ early' = IF mpc \in {"boot", "wait"} THEN early \cup {p} ELSE early
      /\ UNCHANGED <<table, list, rec, listen, mpc, todo, istep, group, crashes, dbFaults,
                     unread>>
  BY DEF AddPool, serveVars, mainVars
<1>2. Typed
  BY AddersTyped DEF IInv
<1>3. p \in Pools /\ mpc # "down"
  BY <1>1 DEF IInv, Working, Active
<1>4. v \in AdderType /\ v.pc = "append" /\ v.list = list /\ v.pool = p
  BY <1>2 DEF Typed, AdderType, Steps
<1>5. /\ adder' \in [Adders -> AdderType] /\ adder'[a] = v
      /\ \A b \in Adders \ {a} : adder'[b] = adder[b]
  <2>1. adder' = [adder EXCEPT ![a] = v]
    BY <1>1, <1>2 DEF Typed
  <2>2. QED
    BY <1>2, <1>4, <2>1 DEF Typed
<1>6. byAdmin \subseteq byAdmin' /\ byAdmin' \subseteq Pools /\ early' \subseteq Pools
  BY <1>1, <1>2, <1>3 DEF Typed
<1>7. mem' \in [Pools -> States \cup {Absent}]
  BY <1>1, <1>2, RegistryAssumption DEF Typed
<1>8. TypeOK'
  BY <1>1, <1>2, <1>5, <1>6, <1>7, AddersTyped DEF Typed
<1>9. Working'
  BY <1>1, <1>3, <1>4, <1>5 DEF IInv, Working, Active
<1>10. Named'
  <2>1. ASSUME NEW b \in Requests, adder'[b].pc = "append" PROVE adder'[b].pool \in byAdmin'
    <3>1. CASE b = a
      <4>1. a # Nft
        BY <2>1, <3>1, RegistryAssumption
      <4>2. QED
        BY <1>1, <1>4, <1>5, <3>1, <4>1
    <3>2. CASE b # a
      BY <1>5, <1>6, <2>1, <3>2 DEF IInv, Named, Adders
    <3>3. QED
      BY <3>1, <3>2
  <2>2. QED
    BY <2>1 DEF Named
<1>11. Nft \in Adders /\ "append" \notin Records /\ "add" \notin Records
  BY DEF Adders, Records
<1>12. InOrder' /\ OverviewFindsRecords'
  BY <1>1, <1>4, <1>5, <1>11 DEF IInv, InOrder, OverviewFindsRecords
<1>13. \A q : Safe(q) => Safe(q)'
  BY <1>1, <1>5, <1>6, <1>11 DEF Safe
<1>14. \A q : Held(q)' => Held(q)
  <2>1. ASSUME NEW q, NEW b \in Adders, Copied(b, q)' PROVE Copied(b, q) \/ In(q, list)
    <3>1. adder'[b].pc = "append" /\ In(q, adder'[b].list)
      BY <2>1 DEF Copied, In
    <3>2. CASE b = a
      BY <1>4, <1>5, <3>1, <3>2 DEF In
    <3>3. CASE b # a
      BY <1>5, <3>1, <3>3 DEF Copied
    <3>4. QED
      BY <3>2, <3>3
  <2>2. QED
    BY <1>1, <2>1 DEF Held, In
<1>15. \A q : InEveryCopy(q) => InEveryCopy(q)'
  <2>1. ASSUME NEW q, InEveryCopy(q), NEW b \in Adders, adder'[b].pc = "append"
        PROVE  In(q, adder'[b].list)
    BY <1>4, <1>5, <2>1 DEF InEveryCopy
  <2>2. QED
    BY <1>1, <2>1 DEF InEveryCopy, In
<1>16. \A q : In(q, todo) => In(q, todo)'
  BY <1>1 DEF In
<1>17. Awaited'
  BY <1>1, <1>13, <1>14, <1>15, <1>16 DEF IInv, Awaited
<1>18. QED
  BY <1>8, <1>9, <1>10, <1>12, <1>17 DEF IInv

\* The slice is replaced: whoever was dropped is safe, and so is the pool added.
LEMMA AppendPoolKeeps == IInv /\ (\E a \in Adders : AppendPool(a)) => IInv'
<1> SUFFICES ASSUME IInv, NEW a \in Adders, AppendPool(a), NEW p, p = adder[a].pool
             PROVE  IInv'
  OBVIOUS
<1> DEFINE v == [adder[a] EXCEPT !.pc = IF a = Nft THEN RecordOrder[1] ELSE "listen",
                                 !.list = <<>>]
<1>1. /\ adder[a].pc = "append"
      /\ list' = Append(adder[a].list, p) \/ list' = list
      /\ adder' = [adder EXCEPT ![a].pc = IF a = Nft THEN RecordOrder[1] ELSE "listen",
                                ![a].list = <<>>]
      /\ UNCHANGED <<table, mem, rec, listen, mpc, todo, istep, group, crashes, dbFaults,
                     byAdmin, early, unread>>
  BY DEF AppendPool, serveVars, mainVars
<1>2. Typed
  BY AddersTyped DEF IInv
<1>3. p \in Pools /\ mpc # "down" /\ adder[a] \in AdderType /\ adder[a].list \in Seq(Pools)
  BY <1>1, <1>2 DEF IInv, Working, Active, Typed, AdderType
<1>4. /\ v \in AdderType /\ v.pool = p
      /\ a = Nft => v.pc = "vol"
      /\ a # Nft => v.pc = "listen"
  <2>1. v.pc \in Steps
    BY <1>3, RecordsInOrder DEF AdderType, Steps
  <2>2. <<>> \in Seq(Pools)
    OBVIOUS
  <2>3. QED
    BY <1>3, <2>1, <2>2, RecordsInOrder DEF AdderType
<1>5. /\ adder' \in [Adders -> AdderType] /\ adder'[a] = v
      /\ \A b \in Adders \ {a} : adder'[b] = adder[b]
  <2>1. adder' = [adder EXCEPT ![a] = v]
    BY <1>1, <1>2 DEF Typed
  <2>2. QED
    BY <1>2, <1>4, <2>1 DEF Typed
<1>6. /\ list' \in Seq(Pools)
      /\ \A q : In(q, list)' => In(q, list) \/ Copied(a, q) \/ q = p
      /\ \A q : In(q, list) /\ Copied(a, q) => In(q, list)'
  <2>1. CASE list' = list
    BY <1>2, <2>1 DEF Typed, In
  <2>2. CASE list' = Append(adder[a].list, p)
    <3>1. list' \in Seq(Pools) /\ \A q : In(q, list') <=> In(q, adder[a].list) \/ q = p
      BY <1>3, <2>2, InAppend
    <3>2. \A q : In(q, list)' <=> In(q, list')
      BY DEF In
    <3>3. QED
      BY <1>1, <3>1, <3>2 DEF Copied
  <2>3. QED
    BY <1>1, <2>1, <2>2
<1>7. TypeOK'
  BY <1>1, <1>2, <1>5, <1>6, AddersTyped DEF Typed
<1>8. Working'
  BY <1>1, <1>3, <1>4, <1>5 DEF IInv, Working, Active
<1>9. v.pc # "append" /\ Nft \in Adders
  BY <1>4 DEF Adders
<1>10. Named'
  BY <1>1, <1>5, <1>9 DEF IInv, Named, Adders
<1>11. v.pc \notin {"utc0", "curr"}
  BY <1>4
<1>12. InOrder' /\ OverviewFindsRecords'
  BY <1>1, <1>5, <1>9, <1>11 DEF IInv, InOrder, OverviewFindsRecords
<1>13. Safe(p)' /\ \A q : Safe(q) => Safe(q)'
  <2>1. "append" \notin Records /\ "vol" \in Records
    BY DEF Records
  <2>2. \A q : Safe(q) => Safe(q)'
    BY <1>1, <1>5, <1>9, <2>1 DEF Safe
  <2>3. CASE a = Nft
    BY <1>4, <1>5, <2>1, <2>2, <2>3 DEF Safe
  <2>4. CASE a # Nft
    <3>1. p \in byAdmin
      BY <1>1, <2>4 DEF IInv, Named, Adders
    <3>2. QED
      BY <1>1, <2>2, <3>1 DEF Safe
  <2>5. QED
    BY <2>3, <2>4
<1>14. \A b \in Adders : adder'[b].pc = "append" => adder'[b] = adder[b]
  BY <1>5, <1>9
<1>15. \A q : Held(q)' => Held(q) \/ q = p
  <2>1. \A q, b : b \in Adders /\ Copied(b, q)' => Copied(b, q)
    BY <1>14 DEF Copied
  <2>2. QED
    BY <1>6, <2>1 DEF Held
<1>16. \A q : InEveryCopy(q) => InEveryCopy(q)'
  <2>1. ASSUME NEW q, InEveryCopy(q) PROVE InEveryCopy(q)'
    <3>1. In(q, list)'
      BY <1>1, <1>6, <2>1 DEF InEveryCopy, Copied
    <3>2. ASSUME NEW b \in Adders, adder'[b].pc = "append" PROVE In(q, adder'[b].list)
      BY <1>14, <2>1, <3>2 DEF InEveryCopy
    <3>3. QED
      BY <3>1, <3>2 DEF InEveryCopy, In
  <2>2. QED
    BY <2>1
<1>17. \A q : In(q, todo) => In(q, todo)'
  BY <1>1 DEF In
<1>18. Awaited'
  BY <1>1, <1>13, <1>15, <1>16, <1>17 DEF IInv, Awaited
<1>19. QED
  BY <1>7, <1>8, <1>10, <1>12, <1>18 DEF IInv

\* dealNft makes the next record of its pool, and is done with the last.
LEMMA InitPoolStatRealKeeps == IInv /\ InitPoolStatReal => IInv'
<1> SUFFICES ASSUME IInv, InitPoolStatReal PROVE IInv'
  OBVIOUS
<1> DEFINE pc == adder[Nft].pc
           h == adder[Nft].pool
           step == CHOOSE i \in 1..3 : RecordOrder[i] = pc
           after == IF step < 3 THEN RecordOrder[step + 1] ELSE "listen"
           v == [adder[Nft] EXCEPT !.pc = after]
<1>1. /\ pc \in Records
      /\ rec' = [rec EXCEPT ![h] = @ \cup {pc}]
      /\ adder' = [adder EXCEPT ![Nft].pc = after]
      /\ UNCHANGED <<table, mem, list, listen, mpc, todo, istep, group, crashes, dbFaults,
                     byAdmin, early, unread>>
  BY DEF InitPoolStatReal, dataVars, mainVars
<1>2. Typed /\ Nft \in Adders
  BY AddersTyped DEF IInv, Adders
<1>3. h \in Pools /\ mpc # "down" /\ adder[Nft] \in AdderType
  BY <1>1, <1>2 DEF IInv, Working, Active, Typed, Records
<1>4. /\ pc = "vol" => after = "utc0"
      /\ pc = "utc0" => after = "curr"
      /\ pc = "curr" => after = "listen"
  <2>1. pc = "vol" => step = 1
    BY RecordsInOrder
  <2>2. pc = "utc0" => step = 2
    BY RecordsInOrder
  <2>3. pc = "curr" => step = 3
    BY RecordsInOrder
  <2>4. QED
    BY <2>1, <2>2, <2>3, RecordsInOrder
<1>5. after \in {"utc0", "curr", "listen"} /\ (after = "listen" <=> pc = "curr")
  BY <1>1, <1>4 DEF Records
<1>6. v \in AdderType /\ v.pc = after /\ v.pool = h
  BY <1>3, <1>5 DEF AdderType, Steps, Records
<1>7. /\ adder' \in [Adders -> AdderType] /\ adder'[Nft] = v
      /\ \A b \in Adders \ {Nft} : adder'[b] = adder[b]
  <2>1. adder' = [adder EXCEPT ![Nft] = v]
    BY <1>1, <1>2 DEF Typed
  <2>2. QED
    BY <1>2, <1>6, <2>1 DEF Typed
<1>8. /\ rec' \in [Pools -> SUBSET Records]
      /\ pc \in rec'[h] /\ \A p \in Pools : rec[p] \subseteq rec'[p]
      /\ \A p \in Pools : p # h => rec'[p] = rec[p]
      /\ \A p \in Pools : rec[p] = Records => rec'[p] = Records
  BY <1>1, <1>3, RecordMade
<1>9. TypeOK'
  BY <1>1, <1>2, <1>7, <1>8, AddersTyped DEF Typed
<1>10. Working'
  BY <1>1, <1>3, <1>6, <1>7 DEF IInv, Working, Active
<1>11. Named'
  <2>1. \A r \in Requests : r # Nft
    BY RegistryAssumption
  <2>2. QED
    BY <1>1, <1>7, <2>1 DEF IInv, Named, Adders
<1>12. /\ pc \in {"utc0", "curr"} => "vol" \in rec'[h]
       /\ pc = "curr" => "utc0" \in rec'[h]
  BY <1>3, <1>8 DEF IInv, InOrder
<1>13. pc = "curr" => rec'[h] = Records
  <2>1. pc = "curr" => {"vol", "utc0", "curr"} \subseteq rec'[h]
    BY <1>8, <1>12
  <2>2. QED
    BY <1>3, <1>8, <2>1 DEF Records
<1>14. InOrder'
  <2>1. /\ after \in {"utc0", "curr"} => "vol" \in rec'[h]
        /\ after = "curr" => "utc0" \in rec'[h]
    BY <1>1, <1>4, <1>8, <1>12 DEF Records
  <2>2. mpc = "start" /\ todo # <<>> =>
          \A i \in 1..3 : i < istep => RecordOrder[i] \in rec'[Head(todo)]
    <3>1. todo # <<>> => Head(todo) \in Pools
      BY <1>2, InTail DEF Typed
    <3>2. QED
      BY <1>8, <3>1 DEF IInv, InOrder
  <2>3. QED
    BY <1>1, <1>6, <1>7, <2>1, <2>2 DEF IInv, InOrder
<1>15. OverviewFindsRecords'
  <2>1. ASSUME NEW p \in Pools, "curr" \in rec'[p] PROVE rec'[p] = Records
    <3>1. CASE "curr" \in rec[p]
      BY <1>8, <3>1 DEF IInv, OverviewFindsRecords
    <3>2. CASE "curr" \notin rec[p]
      <4>1. p = h /\ pc = "curr"
        BY <1>1, <1>2, <2>1, <3>2 DEF Typed
      <4>2. QED
        BY <1>13, <4>1
    <3>3. QED
      BY <3>1, <3>2
  <2>2. QED
    BY <2>1 DEF OverviewFindsRecords
<1>16. \A p \in Pools : Safe(p) => Safe(p)'
  <2>1. ASSUME NEW p \in Pools, Safe(p) PROVE Safe(p)'
    <3>1. CASE rec[p] = Records \/ p \in byAdmin
      BY <1>1, <1>8, <3>1 DEF Safe
    <3>2. CASE h = p /\ pc = "curr"
      BY <1>13, <3>2 DEF Safe
    <3>3. CASE h = p /\ pc # "curr"
      BY <1>5, <1>6, <1>7, <3>3 DEF Safe, Records
    <3>4. QED
      BY <2>1, <3>1, <3>2, <3>3 DEF Safe
  <2>2. QED
    BY <2>1
<1>17. \A b \in Adders : adder'[b].pc = "append" => adder'[b] = adder[b]
  <2>1. adder'[Nft].pc # "append"
    BY <1>5, <1>6, <1>7
  <2>2. QED
    BY <1>7, <2>1
<1>18. \A q : (Held(q)' => Held(q)) /\ (InEveryCopy(q) => InEveryCopy(q)')
  <2>1. \A q, b : b \in Adders /\ Copied(b, q)' => Copied(b, q)
    BY <1>17 DEF Copied
  <2>2. \A q : Held(q)' => Held(q)
    BY <1>1, <2>1 DEF Held, In
  <2>3. ASSUME NEW q, InEveryCopy(q), NEW b \in Adders, adder'[b].pc = "append"
        PROVE  In(q, adder'[b].list)
    BY <1>17, <2>3 DEF InEveryCopy
  <2>4. \A q : InEveryCopy(q) => InEveryCopy(q)'
    BY <1>1, <2>3 DEF InEveryCopy, In
  <2>5. QED
    BY <2>2, <2>4
<1>19. \A q : In(q, todo) => In(q, todo)'
  BY <1>1 DEF In
<1>20. Awaited'
  BY <1>1, <1>16, <1>18, <1>19 DEF IInv, Awaited
<1>21. QED
  BY <1>9, <1>10, <1>11, <1>14, <1>15, <1>20 DEF IInv
(* How a pool comes to its listener: every pool is listed and listened to once *)

Adding(a) == adder[a].pc \notin {"idle", "done", "state"}
Distinct(s) == \A i, j \in DOMAIN s : s[i] = s[j] => i = j

\* start has the pool before it.
Starts(p) == In(p, todo) \/ p \in group

\* The key of the table lets one adder in; a pool is in no copy of the slice before
\* its adder has written it, and wherever a pool is, the table has it.
Keys ==
    /\ \A a \in Adders : Adding(a) => table[adder[a].pool] # Absent
    /\ \A a, b \in Adders : Adding(a) /\ Adding(b) /\ a # b => adder[a].pool # adder[b].pool
    /\ \A p \in Pools : Held(p) \/ listen[p] > 0 \/ Starts(p) => table[p] # Absent
    /\ \A a \in Adders, p \in Pools :
          adder[a].pc \in {"add", "append"} /\ adder[a].pool = p => ~Held(p)

\* No copy of the slice has a pool twice, and start meets no pool twice.
Once ==
    /\ Distinct(list) /\ Distinct(todo)
    /\ \A a \in Adders : adder[a].pc = "append" => Distinct(adder[a].list)
    /\ \A p \in group : ~In(p, todo)

\* A pool that is not early gets its listener from start or from its adder.
OneSource ==
    /\ mpc \in {"boot", "wait"} => todo = <<>> /\ group = {}
    /\ mpc \in {"boot", "wait"} => \A p \in Pools \ early :
          /\ listen[p] = 0
          /\ \A a \in Adders : Adding(a) /\ adder[a].pool = p => adder[a].pc = "add"
    /\ mpc \in {"start", "run"} => \A p \in Pools \ early :
          /\ Starts(p) => ~BeingAdded(p)
          /\ Starts(p) \/ BeingAdded(p) => listen[p] = 0
    /\ mpc = "run" => group = {}
    /\ OneListener

\* Until start reads the slice a pool of the table that the start of the process has read
\* is in every copy of it, or has an adder or a listener; then start has it, or one of
\* these.
Reached ==
    /\ mpc \in {"boot", "wait"} => \A p \in InTable \ unread :
          VersionOf[p] = 3 => InEveryCopy(p) \/ BeingAdded(p) \/ listen[p] > 0
    /\ mpc \in {"start", "run"} => \A p \in InTable \ unread :
          VersionOf[p] = 3 => Starts(p) \/ BeingAdded(p) \/ listen[p] > 0

JInv == Keys /\ Once /\ OneSource /\ Reached
-----------------------------------------------------------------------------
(* Sequences without repetition, and listeners *)

LEMMA DistinctAppend ==
    ASSUME NEW s \in Seq(Pools), NEW e \in Pools, Distinct(s), ~In(e, s)
    PROVE  Distinct(Append(s, e))
<1>1. /\ DOMAIN s = 1..Len(s) /\ Len(s) \in Nat
      /\ DOMAIN Append(s, e) = 1..(Len(s) + 1)
  OBVIOUS
<1>2. /\ \A i \in 1..Len(s) : Append(s, e)[i] = s[i] /\ s[i] # e
      /\ Append(s, e)[Len(s) + 1] = e
  BY <1>1 DEF In
<1>3. \A i \in 1..(Len(s) + 1) : i \in 1..Len(s) \/ i = Len(s) + 1
  BY <1>1
<1>4. QED
  BY <1>1, <1>2, <1>3 DEF Distinct

LEMMA DistinctTail ==
    ASSUME NEW s \in Seq(Pools), s # <<>>, Distinct(s)
    PROVE  /\ Distinct(Tail(s)) /\ ~In(Head(s), Tail(s))
           /\ \A p : In(p, s) <=> p = Head(s) \/ In(p, Tail(s))
<1>1. /\ DOMAIN s = 1..Len(s) /\ Len(s) \in Nat /\ Len(s) >= 1
      /\ DOMAIN Tail(s) = 1..(Len(s) - 1) /\ Head(s) = s[1]
  OBVIOUS
<1>2. \A i \in 1..(Len(s) - 1) : Tail(s)[i] = s[i + 1] /\ i + 1 \in 1..Len(s) /\ i + 1 # 1
  BY <1>1
<1>3. 1 \in 1..Len(s)
  BY <1>1
<1>4. ASSUME NEW i \in 1..(Len(s) - 1), NEW j \in 1..(Len(s) - 1), Tail(s)[i] = Tail(s)[j]
      PROVE  i = j
  <2>1. i + 1 = j + 1
    BY <1>1, <1>2, <1>4 DEF Distinct
  <2>2. QED
    BY <2>1
<1>5. Distinct(Tail(s))
  BY <1>1, <1>4 DEF Distinct
<1>6. ~In(Head(s), Tail(s))
  BY <1>1, <1>2, <1>3 DEF In, Distinct
<1>7. \A p : In(p, Tail(s)) => In(p, s)
  BY <1>1, <1>2 DEF In
<1>8. In(Head(s), s)
  BY <1>1, <1>3 DEF In
<1>9. QED
  BY <1>5, <1>6, <1>7, <1>8, InTail

\* getPools reads every row once.
LEMMA AllListed ==
    ASSUME NEW V \in SUBSET Pools, NEW s \in SetToSeqs(V)
    PROVE  Distinct(s) /\ \A p : In(p, s) <=> p \in V
<1> DEFINE n == Cardinality(V)
<1>1. IsFiniteSet(V)
  BY RegistryAssumption, FS_Subset
<1>2. n \in Nat
  BY <1>1, FS_CardinalityType
<1>3. s \in [1..n -> V] /\ \A i, j \in 1..n : i # j => s[i] # s[j]
  BY DEF SetToSeqs
<1>4. ASSUME NEW p \in V PROVE In(p, s)
  <2> SUFFICES ASSUME \A i \in 1..n : s[i] # p PROVE FALSE
    BY <1>3 DEF In
  <2>1. IsFiniteSet(V \ {p}) /\ Cardinality(V \ {p}) = n - 1
    BY <1>1, FS_RemoveElement
  <2>2. IsFiniteSet(1..n) /\ Cardinality(1..n) = n
    BY <1>2, FS_Interval
  <2>3. s \in [1..n -> V \ {p}]
    BY <1>3
  <2>4. Cardinality(V \ {p}) < Cardinality(1..n)
    BY <1>2, <2>1, <2>2
  <2>5. ASSUME NEW S, NEW T, IsFiniteSet(S), IsFiniteSet(T), Cardinality(T) < Cardinality(S),
               NEW f \in [S -> T]
        PROVE  \E x, y \in S : x # y /\ f[x] = f[y]
    BY <2>5, FS_PigeonHole, Zenon
  <2>6. \E x, y \in 1..n : x # y /\ s[x] = s[y]
    <3> DEFINE D == 1..n
               R == V \ {p}
    <3>1. IsFiniteSet(D) /\ IsFiniteSet(R) /\ Cardinality(R) < Cardinality(D) /\ s \in [D -> R]
      BY <2>1, <2>2, <2>3, <2>4
    <3>2. \E x, y \in D : x # y /\ s[x] = s[y]
      <4> HIDE DEF D, R
      <4>1. QED
        BY <2>5, <3>1
    <3>3. QED
      BY <3>2
  <2>7. QED
    BY <1>3, <2>6
<1>5. \A p : In(p, s) => p \in V
  BY <1>3 DEF In
<1>6. Distinct(s)
  BY <1>3 DEF Distinct
<1>7. QED
  BY <1>4, <1>5, <1>6

LEMMA Listened ==
    ASSUME TypeOK, NEW ps, Listen(ps)
    PROVE  \A p \in Pools : /\ listen[p] \in Nat /\ listen'[p] \in Nat
                            /\ p \in ps => listen'[p] = listen[p] + 1
                            /\ p \notin ps => listen'[p] = listen[p]
<1>1. listen \in [Pools -> Nat]
  BY DEF TypeOK
<1>2. QED
  BY <1>1 DEF Listen
-----------------------------------------------------------------------------
(* Every step keeps the pools in order *)

\* Everybody adds the pool he added, with the slice he had, and every row stays.
WorkOn == \A a \in Adders :
    /\ Adding(a)' <=> Adding(a)
    /\ Adding(a) => adder'[a].pool = adder[a].pool
    /\ adder'[a].pc = "add" <=> adder[a].pc = "add"
    /\ adder'[a].pc = "append" <=> adder[a].pc = "append"
    /\ adder[a].pc = "append" => adder'[a].list = adder[a].list
KeepRows == \A p \in Pools : table'[p] = Absent <=> table[p] = Absent

LEMMA SameWork ==
    ASSUME UNCHANGED list,
           WorkOn
    PROVE  \A p : /\ Held(p)' <=> Held(p)
                  /\ InEveryCopy(p)' <=> InEveryCopy(p)
                  /\ BeingAdded(p)' <=> BeingAdded(p)
<1>1. \A p : BeingAdded(p) <=> \E a \in Adders : adder[a].pool = p /\ Adding(a)
  BY DEF BeingAdded, Adding
<1>2. \A p : BeingAdded(p)' <=> \E a \in Adders : adder'[a].pool = p /\ Adding(a)'
  BY DEF BeingAdded, Adding
<1>3. \A p : BeingAdded(p)' <=> BeingAdded(p)
  BY <1>1, <1>2 DEF WorkOn
<1>4. \A p, a : a \in Adders => (Copied(a, p)' <=> Copied(a, p))
  BY DEF Copied, In, WorkOn
<1>5. \A p : Held(p)' <=> Held(p)
  BY <1>4 DEF Held, In
<1>6. \A p : InEveryCopy(p)' <=> InEveryCopy(p)
  BY DEF InEveryCopy, In, WorkOn
<1>7. QED
  BY <1>3, <1>5, <1>6

LEMMA QuietJoin ==
    ASSUME IInv, JInv, UNCHANGED <<list, listen, todo, group, early, unread>>,
           mpc' = mpc \/ (mpc = "boot" /\ mpc' = "wait"),
           KeepRows,
           WorkOn
    PROVE  JInv'
<1>1. \A p : /\ Held(p)' <=> Held(p)
             /\ InEveryCopy(p)' <=> InEveryCopy(p)
             /\ BeingAdded(p)' <=> BeingAdded(p)
  BY SameWork
<1>2. \A p : Starts(p)' <=> Starts(p)
  BY DEF Starts, In
<1>3. InTable' = InTable
  BY DEF InTable, KeepRows
<1>4. \A a \in Adders : Adding(a) => adder[a].pool \in Pools
  BY DEF IInv, Working, Active, Adding
<1>5. \A a \in Adders : adder[a].pc \in {"add", "append"} => Adding(a)
  BY DEF Adding
<1>6. Keys'
  <2>1. \A a \in Adders : Adding(a)' => table'[adder'[a].pool] # Absent
    BY <1>4 DEF JInv, Keys, WorkOn, KeepRows
  <2>2. \A a, b \in Adders : Adding(a)' /\ Adding(b)' /\ a # b => adder'[a].pool # adder'[b].pool
    BY DEF JInv, Keys, WorkOn, KeepRows
  <2>3. \A p \in Pools : Held(p)' \/ listen'[p] > 0 \/ Starts(p)' => table'[p] # Absent
    BY <1>1, <1>2 DEF JInv, Keys, WorkOn, KeepRows
  <2>4. \A a \in Adders, p \in Pools :
           adder'[a].pc \in {"add", "append"} /\ adder'[a].pool = p => ~Held(p)'
    BY <1>1, <1>5 DEF JInv, Keys, WorkOn, KeepRows
  <2>5. QED
    BY <2>1, <2>2, <2>3, <2>4 DEF Keys
<1>7. Once'
  BY DEF JInv, Once, Distinct, In, WorkOn
<1>8. OneSource'
  BY <1>1, <1>2 DEF JInv, OneSource, OneListener, WorkOn
<1>9. Reached'
  BY <1>1, <1>2, <1>3 DEF JInv, Reached
<1>10. QED
  BY <1>6, <1>7, <1>8, <1>9 DEF JInv

\* The process ends: nobody is adding a pool any more.
LEMMA DieJoins ==
    ASSUME IInv, JInv, Die, UNCHANGED <<table, list, listen, todo, group, early, unread>>
    PROVE  JInv'
<1>1. mpc' = "down" /\ \A a \in Adders : adder'[a].pc \in {"idle", "done"}
  BY Resting DEF Die
<1>2. \A a \in Adders : ~Adding(a)' /\ adder'[a].pc # "append" /\ adder'[a].pc # "add"
  BY <1>1 DEF Adding
<1>3. \A p : (Held(p)' => Held(p)) /\ (Starts(p)' <=> Starts(p))
  BY <1>2 DEF Held, Copied, Starts, In
<1>4. Keys'
  BY <1>2, <1>3 DEF JInv, Keys
<1>5. Once'
  BY <1>2 DEF JInv, Once, Distinct, In
<1>6. OneSource' /\ Reached'
  BY <1>1 DEF JInv, OneSource, OneListener, Reached
<1>7. QED
  BY <1>4, <1>5, <1>6 DEF JInv

\* main reads the table.
LEMMA BootJoins == IInv /\ JInv /\ Boot => JInv'
<1> SUFFICES ASSUME IInv, JInv, Boot PROVE JInv'
  OBVIOUS
<1>1. /\ mpc = "down" /\ mpc' = "boot" /\ todo' = <<>> /\ group' = {} /\ early' = {}
      /\ listen' = [p \in Pools |-> 0] /\ UNCHANGED <<table, adder>>
  BY DEF Boot
<1>2. \A a \in Adders : ~Adding(a)' /\ adder'[a].pc # "append" /\ adder'[a].pc # "add"
  BY <1>1 DEF IInv, Working, Active, Adding
<1>3. /\ Distinct(list)'
      /\ \A p : In(p, list)' => p \in InTable \ unread'
      /\ \A p \in InTable \ unread' : VersionOf[p] = 3 => In(p, list)'
  <2>0. PICK read \in SUBSET InTable :
          list' \in SetToSeqs({p \in read : VersionOf[p] = 3}) /\ unread' = InTable \ read
    BY DEF Boot
  <2> DEFINE V == {p \in read : VersionOf[p] = 3}
  <2>1. V \subseteq Pools /\ list' \in SetToSeqs(V)
    BY <2>0 DEF InTable
  <2>2. Distinct(list') /\ \A p : In(p, list') <=> p \in V
    BY <2>1, AllListed
  <2>3. QED
    BY <2>0, <2>2 DEF Distinct, In
<1>4. \A p : ~Starts(p)'
  BY <1>1 DEF Starts, In
<1>5. \A p \in Pools : listen'[p] = 0
  BY <1>1
<1>6. \A p : Held(p)' => p \in InTable
  BY <1>2, <1>3 DEF Held, Copied
<1>7. Keys'
  BY <1>1, <1>2, <1>4, <1>5, <1>6 DEF Keys, InTable
<1>8. Once'
  BY <1>1, <1>2, <1>3 DEF Once, Distinct, In
<1>9. OneSource'
  BY <1>1, <1>2, <1>5 DEF OneSource, OneListener
<1>10. \A p \in InTable \ unread' : VersionOf[p] = 3 => InEveryCopy(p)'
  BY <1>2, <1>3 DEF InEveryCopy
<1>11. Reached'
  BY <1>1, <1>10 DEF Reached, InTable
<1>12. QED
  BY <1>7, <1>8, <1>9, <1>11 DEF JInv

\* start reads the slice.
LEMMA StartPoolsJoins == IInv /\ JInv /\ StartPools => JInv'
<1> SUFFICES ASSUME IInv, JInv, StartPools PROVE JInv'
  OBVIOUS
<1>1. /\ mpc = "wait" /\ mpc' = "start" /\ todo' = list
      /\ UNCHANGED <<table, list, listen, group, adder, early, unread>>
  BY DEF StartPools, dataVars, serveVars
<1>2. group = {} /\ \A p : (Starts(p)' <=> In(p, list)) /\ (In(p, list) => Held(p))
  BY <1>1 DEF JInv, OneSource, Starts, In, Held
<1>3. \A p : /\ Held(p)' <=> Held(p)
             /\ InEveryCopy(p)' <=> InEveryCopy(p)
             /\ BeingAdded(p)' <=> BeingAdded(p)
  BY <1>1 DEF Held, Copied, In, InEveryCopy, BeingAdded
<1>4. Keys'
  BY <1>1, <1>2, <1>3 DEF JInv, Keys, Adding
<1>5. Once'
  BY <1>1, <1>2 DEF JInv, Once, Distinct, In
<1>6. \A p \in Pools \ early : Starts(p)' => ~BeingAdded(p)
  <2> SUFFICES ASSUME NEW p \in Pools \ early, In(p, list), BeingAdded(p) PROVE FALSE
    BY <1>2
  <2>1. PICK a \in Adders : adder[a].pool = p /\ Adding(a)
    BY DEF BeingAdded, Adding
  <2>2. adder[a].pc = "add" /\ Held(p)
    BY <1>1, <1>2, <2>1 DEF JInv, OneSource
  <2>3. QED
    BY <2>1, <2>2 DEF JInv, Keys
<1>7. \A p \in Pools \ early : listen[p] = 0
  BY <1>1 DEF JInv, OneSource
<1>8. OneSource'
  BY <1>1, <1>3, <1>6, <1>7 DEF JInv, OneSource, OneListener
<1>9. \A p : InEveryCopy(p) => Starts(p)'
  BY <1>2 DEF InEveryCopy
<1>10. Reached'
  BY <1>1, <1>3, <1>9 DEF JInv, Reached, InTable
<1>11. QED
  BY <1>4, <1>5, <1>8, <1>10 DEF JInv

\* start gives the pools ps, which it had before it, their listener.
LEMMA GroupJoins ==
    ASSUME IInv, JInv, mpc = "start", mpc' \in {"start", "run"},
           UNCHANGED <<table, list, adder, early, unread>>,
           NEW ps, Listen(ps),
           \A p : Starts(p) <=> Starts(p)' \/ p \in ps,
           \A p \in ps : ~Starts(p)',
           Distinct(todo)', \A p \in group' : ~In(p, todo)',
           mpc' = "run" => group' = {}
    PROVE  JInv'
<1>1. \A p \in Pools : /\ listen[p] \in Nat /\ listen'[p] \in Nat
                       /\ p \in ps => listen'[p] = listen[p] + 1
                       /\ p \notin ps => listen'[p] = listen[p]
  BY Listened DEF IInv
<1>2. \A p : /\ Held(p)' <=> Held(p)
             /\ BeingAdded(p)' <=> BeingAdded(p)
  BY DEF Held, Copied, In, BeingAdded
<1>3. \A p \in Pools \ early :
          /\ Starts(p) => ~BeingAdded(p)
          /\ Starts(p) \/ BeingAdded(p) => listen[p] = 0
  BY DEF JInv, OneSource
<1>4. Keys'
  <2>1. \A p \in Pools : listen'[p] > 0 => listen[p] > 0 \/ Starts(p)
    BY <1>1
  <2>2. \A p \in Pools : Held(p)' \/ listen'[p] > 0 \/ Starts(p)' => table[p] # Absent
    BY <1>2, <2>1 DEF JInv, Keys
  <2>3. QED
    BY <1>2, <2>2 DEF JInv, Keys, Adding
<1>5. Once'
  BY DEF JInv, Once, Distinct, In
<1>6. \A p \in Pools \ early :
          /\ Starts(p)' => ~BeingAdded(p)'
          /\ Starts(p)' \/ BeingAdded(p)' => listen'[p] = 0
  <2>1. \A p \in Pools \ early : Starts(p)' \/ BeingAdded(p)' => p \notin ps
    BY <1>2, <1>3
  <2>2. QED
    BY <1>1, <1>2, <1>3, <2>1
<1>7. OneListener'
  <2> SUFFICES ASSUME NEW p \in Pools, listen'[p] > 1, p \notin early PROVE FALSE
    BY DEF OneListener
  <2>1. CASE p \in ps
    <3>1. listen[p] = 0
      BY <1>3, <2>1
    <3>2. QED
      BY <1>1, <2>1, <3>1
  <2>2. CASE p \notin ps
    BY <1>1, <2>2 DEF JInv, OneSource, OneListener
  <2>3. QED
    BY <2>1, <2>2
<1>8. OneSource'
  BY <1>6, <1>7 DEF OneSource
<1>9. \A p \in InTable \ unread : VersionOf[p] = 3 => Starts(p)' \/ BeingAdded(p)' \/ listen'[p] > 0
  <2>1. \A p \in Pools : listen[p] > 0 \/ p \in ps => listen'[p] > 0
    BY <1>1
  <2>2. QED
    BY <1>2, <2>1 DEF JInv, Reached, InTable
<1>10. Reached'
  BY <1>9 DEF Reached, InTable
<1>11. QED
  BY <1>4, <1>5, <1>8, <1>10 DEF JInv

LEMMA StartLastJoins == IInv /\ JInv /\ StartLast => JInv'
<1> SUFFICES ASSUME IInv, JInv, StartLast PROVE JInv'
  OBVIOUS
<1>1. /\ mpc = "start" /\ mpc' = "run" /\ todo = <<>> /\ group' = {} /\ Listen(group)
      /\ UNCHANGED <<table, list, todo, adder, early, unread>>
  BY DEF StartLast, dataVars
<1>2. \A p : ~In(p, todo) /\ ~In(p, todo)'
  BY <1>1 DEF In
<1>3. Distinct(todo)'
  BY <1>1 DEF Distinct
<1>4. \A p : (Starts(p) <=> p \in group) /\ ~Starts(p)'
  BY <1>1, <1>2 DEF Starts
<1>5. QED
  BY <1>1, <1>2, <1>3, <1>4, GroupJoins

LEMMA InitPoolStatJoins == IInv /\ JInv /\ InitPoolStat => JInv'
<1> SUFFICES ASSUME IInv, JInv, InitPoolStat, NEW h, h = Head(todo) PROVE JInv'
  OBVIOUS
<1>1. /\ mpc = "start" /\ mpc' = "start" /\ todo # <<>> /\ todo \in Seq(Pools) /\ istep \in 1..3
      /\ UNCHANGED <<table, list, adder, early, unread>>
  BY AddersTyped DEF InitPoolStat, dataVars, IInv, Typed
<1>2. \/ istep < 3 /\ UNCHANGED <<todo, group, listen>>
      \/ todo' = Tail(todo) /\ Join(h)
  BY <1>1 DEF InitPoolStat
<1>3. CASE istep < 3 /\ UNCHANGED <<todo, group, listen>>
  <2>1. WorkOn /\ KeepRows
    BY <1>1 DEF Adding, WorkOn, KeepRows
  <2>2. QED
    BY <1>1, <1>3, <2>1, QuietJoin
<1>4. CASE todo' = Tail(todo) /\ Join(h)
  <2>1. /\ Distinct(Tail(todo)) /\ ~In(h, Tail(todo))
        /\ \A p : In(p, todo) <=> p = h \/ In(p, Tail(todo))
    BY <1>1, DistinctTail DEF JInv, Once
  <2>2. Distinct(todo)' /\ \A p : In(p, todo)' <=> In(p, Tail(todo))
    BY <1>4, <2>1 DEF Distinct, In
  <2>3. \A p \in group \cup {h} : ~In(p, todo)'
    BY <2>1, <2>2 DEF JInv, Once
  <2>4. CASE group' = {} /\ Listen(group \cup {h})
    <3>1. \A p : /\ Starts(p) <=> Starts(p)' \/ p \in group \cup {h}
                 /\ p \in group \cup {h} => ~Starts(p)'
      BY <2>1, <2>2, <2>3, <2>4 DEF Starts
    <3>2. QED
      BY <1>1, <2>2, <2>4, <3>1, GroupJoins
  <2>5. CASE group' = group \cup {h} /\ UNCHANGED listen
    <3>1. \A p : Starts(p) <=> Starts(p)'
      BY <2>1, <2>2, <2>5 DEF Starts
    <3>2. Listen({})
      <4>1. listen \in [Pools -> Nat]
        BY DEF IInv, TypeOK
      <4>2. QED
        BY <2>5, <4>1 DEF Listen
    <3>3. \A p : Starts(p) <=> Starts(p)' \/ p \in {}
      BY <3>1
    <3>4. \A p \in {} : ~Starts(p)'
      OBVIOUS
    <3>5. QED
      BY <1>1, <2>2, <2>3, <2>5, <3>2, <3>3, <3>4, GroupJoins
  <2>6. QED
    BY <1>4, <2>4, <2>5 DEF Join
<1>5. QED
  BY <1>2, <1>3, <1>4
-----------------------------------------------------------------------------
(* The adders *)

\* What the adders of a pool are, when only a takes a step.
LEMMA OneWorks ==
    ASSUME IInv, NEW a \in Adders, NEW v \in AdderType, adder' = [adder EXCEPT ![a] = v]
    PROVE  /\ adder'[a] = v /\ \A b \in Adders \ {a} : adder'[b] = adder[b]
           /\ \A b \in Adders \ {a} : Adding(b)' <=> Adding(b)
           /\ \A p : BeingAdded(p) <=> \E b \in Adders : adder[b].pool = p /\ Adding(b)
           /\ \A p : BeingAdded(p)' <=> \E b \in Adders : adder'[b].pool = p /\ Adding(b)'
<1>1. adder'[a] = v /\ \A b \in Adders \ {a} : adder'[b] = adder[b]
  BY AddersTyped DEF Typed, IInv
<1>2. \A b \in Adders \ {a} : Adding(b)' <=> Adding(b)
  BY <1>1 DEF Adding
<1>3. QED
  BY <1>1, <1>2 DEF BeingAdded, Adding

\* A step of an adder that changes neither his pool nor what he knows of the slice.
LEMMA QuietAdderJoins ==
    ASSUME IInv, JInv, NEW a \in Adders, NEW v \in AdderType, adder' = [adder EXCEPT ![a] = v],
           UNCHANGED <<list, listen, todo, group, early, unread, mpc>>,
           KeepRows,
           adder[a].pc \notin {"add", "append"}, v.pc \notin {"add", "append"},
           v.pc \in {"idle", "done", "state"} <=> adder[a].pc \in {"idle", "done", "state"},
           v.pc \notin {"idle", "done", "state"} => v.pool = adder[a].pool
    PROVE  JInv'
<1>1. /\ adder'[a] = v /\ \A b \in Adders \ {a} : adder'[b] = adder[b]
      /\ \A b \in Adders \ {a} : Adding(b)' <=> Adding(b)
  BY OneWorks
<1>2. WorkOn
  BY <1>1 DEF Adding, WorkOn
<1>3. QED
  BY <1>2, QuietJoin

\* The insert: the key lets nobody else in.
LEMMA InsertJoins ==
    IInv /\ JInv /\ (\E a \in Adders, p \in Pools : InsertPool(a, p)) => JInv'
<1> SUFFICES ASSUME IInv, JInv, NEW a \in Adders, NEW p \in Pools, InsertPool(a, p) PROVE JInv'
  OBVIOUS
<1>1. /\ adder[a].pc = "idle" /\ mpc # "down" /\ adder[a] \in AdderType
      /\ UNCHANGED <<list, listen, todo, group, early, unread, mpc>>
  BY AddersTyped DEF InsertPool, Wants, Up, serveVars, mainVars, Typed, IInv
<1>2. CASE UNCHANGED table /\ adder' = [adder EXCEPT ![a] = IF a = Nft THEN Idle ELSE Done]
  <2>1. PICK v \in AdderType : adder' = [adder EXCEPT ![a] = v] /\ v.pc \in {"idle", "done"}
    BY <1>2, Resting
  <2>2. KeepRows
    BY <1>2 DEF KeepRows
  <2>3. QED
    BY <1>1, <1>2, <2>1, <2>2, QuietAdderJoins
<1>3. CASE /\ table[p] = Absent /\ table' = [table EXCEPT ![p] = NewState]
           /\ adder' = [adder EXCEPT ![a].pc = "add", ![a].pool = p]
  <2> DEFINE w == [adder[a] EXCEPT !.pc = "add", !.pool = p]
  <2>1. w \in AdderType /\ w.pc = "add" /\ w.pool = p
    BY <1>1 DEF AdderType, Steps
  <2>2. adder' = [adder EXCEPT ![a] = w]
    BY <1>3, AddersTyped DEF Typed, IInv
  <2>3. PICK v \in AdderType : adder' = [adder EXCEPT ![a] = v] /\ v.pc = "add" /\ v.pool = p
    BY <2>1, <2>2
  <2>4. /\ adder'[a] = v /\ \A b \in Adders \ {a} : adder'[b] = adder[b]
        /\ \A b \in Adders \ {a} : Adding(b)' <=> Adding(b)
        /\ \A q : BeingAdded(q) <=> \E b \in Adders : adder[b].pool = q /\ Adding(b)
        /\ \A q : BeingAdded(q)' <=> \E b \in Adders : adder'[b].pool = q /\ Adding(b)'
    BY <2>3, OneWorks
  <2>5. ~Adding(a) /\ Adding(a)'
    BY <1>1, <2>3, <2>4 DEF Adding
  <2>6. /\ table'[p] # Absent /\ \A q \in Pools : table[q] # Absent => table'[q] # Absent
        /\ \A q \in Pools : q # p => table'[q] = table[q]
    BY <1>3, RegistryAssumption, AddersTyped DEF Typed, IInv
  <2>7. \A b \in Adders : adder'[b].pc = "append" => adder'[b] = adder[b]
    BY <2>3, <2>4
  <2>8. \A b \in Adders : Adding(b) => adder[b].pool \in Pools
    BY DEF IInv, Working, Active, Adding
  <2>9. \A q : (Held(q)' <=> Held(q)) /\ (Starts(q)' <=> Starts(q))
    <3>1. \A q, b : b \in Adders => (Copied(b, q)' <=> Copied(b, q))
      BY <1>1, <2>3, <2>4 DEF Copied
    <3>2. QED
      BY <1>1, <3>1 DEF Held, Starts, In
  <2>10. ~Held(p) /\ ~Starts(p) /\ listen[p] = 0
    <3>1. listen[p] \in Nat
      BY DEF IInv, TypeOK
    <3>2. ~Held(p) /\ ~Starts(p) /\ ~(listen[p] > 0)
      BY <1>3 DEF JInv, Keys
    <3>3. QED
      BY <3>1, <3>2
  <2>11. \A q : (BeingAdded(q) => BeingAdded(q)') /\ (BeingAdded(q)' => BeingAdded(q) \/ q = p)
    BY <2>3, <2>4, <2>5
  <2>12. Keys'
    <3>1. \A b \in Adders : Adding(b)' => table'[adder'[b].pool] # Absent
      BY <2>3, <2>4, <2>6, <2>8 DEF JInv, Keys
    <3>2. \A b \in Adders : Adding(b) => adder[b].pool # p
      BY <1>3 DEF JInv, Keys
    <3>3. \A b, c \in Adders : Adding(b)' /\ Adding(c)' /\ b # c => adder'[b].pool # adder'[c].pool
      BY <2>3, <2>4, <3>2 DEF JInv, Keys
    <3>4. \A q \in Pools : Held(q)' \/ listen'[q] > 0 \/ Starts(q)' => table'[q] # Absent
      BY <1>1, <2>6, <2>9 DEF JInv, Keys
    <3>5. \A b \in Adders, q \in Pools :
             adder'[b].pc \in {"add", "append"} /\ adder'[b].pool = q => ~Held(q)'
      BY <2>3, <2>4, <2>9, <2>10 DEF JInv, Keys
    <3>6. QED
      BY <3>1, <3>3, <3>4, <3>5 DEF Keys
  <2>13. Once'
    BY <1>1, <2>7 DEF JInv, Once, Distinct, In
  <2>14. OneSource'
    <3>1. mpc \in {"boot", "wait"} => \A q \in Pools \ early : \A b \in Adders :
             Adding(b)' /\ adder'[b].pool = q => adder'[b].pc = "add"
      BY <2>3, <2>4 DEF JInv, OneSource
    <3>2. mpc \in {"start", "run"} => \A q \in Pools \ early :
             /\ Starts(q)' => ~BeingAdded(q)'
             /\ Starts(q)' \/ BeingAdded(q)' => listen'[q] = 0
      BY <1>1, <2>9, <2>10, <2>11 DEF JInv, OneSource
    <3>3. QED
      BY <1>1, <3>1, <3>2 DEF JInv, OneSource, OneListener
  <2>15. \A q : InEveryCopy(q) => InEveryCopy(q)'
    BY <1>1, <2>7 DEF InEveryCopy, In
  <2>16. BeingAdded(p)'
    BY <2>3, <2>4, <2>5
  <2>17. Reached'
    BY <1>1, <2>6, <2>9, <2>11, <2>15, <2>16 DEF JInv, Reached, InTable
  <2>18. QED
    BY <2>12, <2>13, <2>14, <2>17 DEF JInv
<1>4. QED
  BY <1>2, <1>3 DEF InsertPool

\* The pool is put in the maps, and the slice is read, which does not have it.
LEMMA AddPoolJoins == IInv /\ JInv /\ (\E a \in Adders : AddPool(a)) => JInv'
<1> SUFFICES ASSUME IInv, JInv, NEW a \in Adders, AddPool(a), NEW p, p = adder[a].pool
             PROVE  JInv'
  OBVIOUS
<1>1. /\ adder[a].pc = "add" /\ mpc # "down" /\ adder[a] \in AdderType
      /\ adder' = [adder EXCEPT ![a].pc = "append", ![a].list = list]
      /\ early' = IF mpc \in {"boot", "wait"} THEN early \cup {p} ELSE early
      /\ UNCHANGED <<table, list, listen, todo, group, mpc, unread>>
  BY AddersTyped DEF AddPool, serveVars, mainVars, IInv, Working, Active, Typed
<1>2. PICK v \in AdderType : /\ adder' = [adder EXCEPT ![a] = v]
                             /\ v.pc = "append" /\ v.list = list /\ v.pool = p
  <2> DEFINE w == [adder[a] EXCEPT !.pc = "append", !.list = list]
  <2>1. w \in AdderType /\ w.pc = "append" /\ w.list = list /\ w.pool = p
    BY <1>1, AddersTyped DEF AdderType, Steps, IInv, Typed
  <2>2. adder' = [adder EXCEPT ![a] = w]
    BY <1>1, AddersTyped DEF Typed, IInv
  <2>3. QED
    BY <2>1, <2>2
<1>3. /\ adder'[a] = v /\ \A b \in Adders \ {a} : adder'[b] = adder[b]
      /\ \A b \in Adders \ {a} : Adding(b)' <=> Adding(b)
      /\ \A q : BeingAdded(q) <=> \E b \in Adders : adder[b].pool = q /\ Adding(b)
      /\ \A q : BeingAdded(q)' <=> \E b \in Adders : adder'[b].pool = q /\ Adding(b)'
  BY <1>2, OneWorks
<1>4. Adding(a) /\ Adding(a)'
  BY <1>1, <1>2, <1>3 DEF Adding
<1>5. \A b \in Adders : (Adding(b)' <=> Adding(b)) /\ adder'[b].pool = adder[b].pool
  BY <1>2, <1>3, <1>4
<1>6. \A q : BeingAdded(q)' <=> BeingAdded(q)
  BY <1>3, <1>5
<1>7. \A q : (Held(q)' => Held(q)) /\ (Starts(q)' <=> Starts(q))
  <2>1. \A q, b : b \in Adders /\ Copied(b, q)' => Copied(b, q) \/ In(q, list)
    BY <1>2, <1>3 DEF Copied, In
  <2>2. QED
    BY <1>1, <2>1 DEF Held, Starts, In
<1>8. \A b \in Adders : adder'[b].pc \in {"add", "append"} => adder[b].pc \in {"add", "append"}
  BY <1>1, <1>3
<1>9. Keys'
  <2>1. \A b \in Adders, q \in Pools :
           adder'[b].pc \in {"add", "append"} /\ adder'[b].pool = q => ~Held(q)'
    BY <1>5, <1>7, <1>8 DEF JInv, Keys
  <2>2. QED
    BY <1>1, <1>5, <1>7, <2>1 DEF JInv, Keys
<1>10. Once'
  <2>1. \A b \in Adders : adder'[b].pc = "append" => Distinct(adder'[b].list)
    BY <1>1, <1>2, <1>3 DEF JInv, Once
  <2>2. QED
    BY <1>1, <2>1 DEF JInv, Once, Distinct, In
<1>11. early \subseteq early'
  BY <1>1
<1>12. OneSource'
  <2>1. mpc \in {"boot", "wait"} => \A q \in Pools \ early' : \A b \in Adders :
           Adding(b)' /\ adder'[b].pool = q => adder'[b].pc = "add"
    <3>1. ASSUME mpc \in {"boot", "wait"}, NEW q \in Pools \ early', NEW b \in Adders,
                 Adding(b)', adder'[b].pool = q
          PROVE  adder'[b].pc = "add"
      <4>1. b # a
        BY <1>1, <1>2, <1>3, <3>1
      <4>2. QED
        BY <1>3, <1>5, <1>11, <3>1, <4>1 DEF JInv, OneSource
    <3>2. QED
      BY <3>1
  <2>2. mpc \in {"start", "run"} => \A q \in Pools \ early' :
           /\ Starts(q)' => ~BeingAdded(q)'
           /\ Starts(q)' \/ BeingAdded(q)' => listen'[q] = 0
    BY <1>1, <1>6, <1>7, <1>11 DEF JInv, OneSource
  <2>3. OneListener'
    BY <1>1, <1>11 DEF JInv, OneSource, OneListener
  <2>4. QED
    BY <1>1, <1>11, <2>1, <2>2, <2>3 DEF JInv, OneSource
<1>13. \A q : InEveryCopy(q) => InEveryCopy(q)'
  <2>1. ASSUME NEW q, InEveryCopy(q), NEW b \in Adders, adder'[b].pc = "append"
        PROVE  In(q, adder'[b].list)
    BY <1>2, <1>3, <2>1 DEF InEveryCopy
  <2>2. QED
    BY <1>1, <2>1 DEF InEveryCopy, In
<1>14. Reached'
  BY <1>1, <1>6, <1>7, <1>13 DEF JInv, Reached, InTable
<1>15. QED
  BY <1>9, <1>10, <1>12, <1>14 DEF JInv

\* The slice is written: it gets the pool, which it did not have.
LEMMA AppendPoolJoins == IInv /\ JInv /\ (\E a \in Adders : AppendPool(a)) => JInv'
<1> SUFFICES ASSUME IInv, JInv, NEW a \in Adders, AppendPool(a), NEW p, p = adder[a].pool
             PROVE  JInv'
  OBVIOUS
<1>1. /\ adder[a].pc = "append" /\ mpc # "down" /\ adder[a] \in AdderType /\ p \in Pools
      /\ adder' = [adder EXCEPT ![a].pc = IF a = Nft THEN RecordOrder[1] ELSE "listen",
                                ![a].list = <<>>]
      /\ UNCHANGED <<table, listen, todo, group, early, unread, mpc>>
  BY AddersTyped DEF AppendPool, serveVars, mainVars, IInv, Working, Active, Typed
<1>2. PICK v \in AdderType : /\ adder' = [adder EXCEPT ![a] = v]
                             /\ v.pc \in {"vol", "listen"} /\ v.pool = p
  <2> DEFINE w == [adder[a] EXCEPT !.pc = IF a = Nft THEN RecordOrder[1] ELSE "listen",
                                   !.list = <<>>]
  <2>1. w.pc \in {"vol", "listen"} /\ w.pc \in Steps /\ w.pool = p
    BY <1>1, RecordsInOrder DEF AdderType, Steps, Records
  <2>2. <<>> \in Seq(Pools)
    OBVIOUS
  <2>3. w \in AdderType
    BY <1>1, <2>1, <2>2 DEF AdderType
  <2>4. adder' = [adder EXCEPT ![a] = w]
    BY <1>1, AddersTyped DEF Typed, IInv
  <2>5. QED
    BY <2>1, <2>3, <2>4
<1>3. /\ adder'[a] = v /\ \A b \in Adders \ {a} : adder'[b] = adder[b]
      /\ \A b \in Adders \ {a} : Adding(b)' <=> Adding(b)
      /\ \A q : BeingAdded(q) <=> \E b \in Adders : adder[b].pool = q /\ Adding(b)
      /\ \A q : BeingAdded(q)' <=> \E b \in Adders : adder'[b].pool = q /\ Adding(b)'
  BY <1>2, OneWorks
<1>4. Adding(a) /\ Adding(a)'
  BY <1>1, <1>2, <1>3 DEF Adding
<1>5. \A b \in Adders : (Adding(b)' <=> Adding(b)) /\ adder'[b].pool = adder[b].pool
  BY <1>2, <1>3, <1>4
<1>6. \A q : BeingAdded(q)' <=> BeingAdded(q)
  BY <1>3, <1>5
<1>7. ~Held(p) /\ ~In(p, adder[a].list) /\ table[p] # Absent
  <2>1. ~Held(p) /\ table[p] # Absent
    BY <1>1, <1>4 DEF JInv, Keys
  <2>2. QED
    BY <1>1, <2>1 DEF Held, Copied
<1>8. /\ Distinct(list)'
      /\ \A q : In(q, list)' => In(q, list) \/ Copied(a, q) \/ q = p
      /\ \A q : In(q, list) /\ Copied(a, q) => In(q, list)'
  <2>1. CASE list' = list
    BY <2>1 DEF JInv, Once, Distinct, In
  <2>2. CASE list' = Append(adder[a].list, p)
    <3>1. adder[a].list \in Seq(Pools) /\ Distinct(adder[a].list)
      BY <1>1 DEF AdderType, JInv, Once
    <3>2. /\ Distinct(Append(adder[a].list, p))
          /\ \A q : In(q, Append(adder[a].list, p)) <=> In(q, adder[a].list) \/ q = p
      BY <1>1, <1>7, <3>1, InAppend, DistinctAppend
    <3>3. Distinct(list)' /\ \A q : In(q, list)' <=> In(q, adder[a].list) \/ q = p
      BY <2>2, <3>2 DEF Distinct, In
    <3>4. QED
      BY <1>1, <3>3 DEF Copied
  <2>3. QED
    BY <2>1, <2>2 DEF AppendPool
<1>9. \A b \in Adders : adder'[b].pc \in {"add", "append"} => b # a /\ adder'[b] = adder[b]
  BY <1>2, <1>3
<1>10. \A q : (Held(q)' => Held(q) \/ q = p) /\ (Starts(q)' <=> Starts(q))
  <2>1. \A q, b : b \in Adders /\ Copied(b, q)' => Copied(b, q)
    BY <1>9 DEF Copied
  <2>2. QED
    BY <1>1, <1>8, <2>1 DEF Held, Starts, In
<1>11. Keys'
  <2>1. ASSUME NEW b \in Adders, NEW q \in Pools,
               adder'[b].pc \in {"add", "append"}, adder'[b].pool = q
        PROVE  ~Held(q)'
    <3>1. b # a /\ Adding(b) /\ adder[b].pool = q /\ adder[b].pc \in {"add", "append"}
      BY <1>9, <2>1 DEF Adding
    <3>2. q # p /\ ~Held(q)
      BY <1>4, <3>1 DEF JInv, Keys
    <3>3. QED
      BY <1>10, <3>2
  <2>2. \A q \in Pools : Held(q)' \/ listen'[q] > 0 \/ Starts(q)' => table'[q] # Absent
    BY <1>1, <1>7, <1>10 DEF JInv, Keys
  <2>3. QED
    BY <1>1, <1>5, <2>1, <2>2 DEF JInv, Keys
<1>12. Once'
  <2>1. \A b \in Adders : adder'[b].pc = "append" => Distinct(adder'[b].list)
    BY <1>9 DEF JInv, Once
  <2>2. QED
    BY <1>1, <1>8, <2>1 DEF JInv, Once, Distinct, In
<1>13. OneSource'
  <2>1. mpc \in {"boot", "wait"} => p \in early
    BY <1>1, <1>4 DEF JInv, OneSource
  <2>2. mpc \in {"boot", "wait"} => \A q \in Pools \ early : \A b \in Adders :
           Adding(b)' /\ adder'[b].pool = q => adder'[b].pc = "add"
    BY <1>2, <1>3, <1>5, <2>1 DEF JInv, OneSource
  <2>3. QED
    BY <1>1, <1>6, <1>10, <2>2 DEF JInv, OneSource, OneListener
<1>14. \A q : InEveryCopy(q) => InEveryCopy(q)'
  <2>1. ASSUME NEW q, InEveryCopy(q) PROVE InEveryCopy(q)'
    <3>1. In(q, list)'
      BY <1>1, <1>8, <2>1 DEF InEveryCopy, Copied
    <3>2. ASSUME NEW b \in Adders, adder'[b].pc = "append" PROVE In(q, adder'[b].list)
      BY <1>9, <2>1, <3>2 DEF InEveryCopy
    <3>3. QED
      BY <3>1, <3>2 DEF InEveryCopy, In
  <2>2. QED
    BY <2>1
<1>15. Reached'
  BY <1>1, <1>6, <1>10, <1>14 DEF JInv, Reached, InTable
<1>16. QED
  BY <1>11, <1>12, <1>13, <1>15 DEF JInv

\* dealNft makes a record: the pool is not listed or listened to by this.
LEMMA InitPoolStatRealJoins == IInv /\ JInv /\ InitPoolStatReal => JInv'
<1> SUFFICES ASSUME IInv, JInv, InitPoolStatReal PROVE JInv'
  OBVIOUS
<1> DEFINE pc == adder[Nft].pc
           step == CHOOSE i \in 1..3 : RecordOrder[i] = pc
           after == IF step < 3 THEN RecordOrder[step + 1] ELSE "listen"
           w == [adder[Nft] EXCEPT !.pc = after]
<1>1. /\ pc \in Records /\ adder' = [adder EXCEPT ![Nft].pc = after]
      /\ Nft \in Adders /\ adder[Nft] \in AdderType
      /\ UNCHANGED <<table, list, listen, todo, group, early, unread, mpc>>
  BY AddersTyped DEF InitPoolStatReal, dataVars, mainVars, IInv, Typed, Adders
<1>2. after \in {"utc0", "curr", "listen"}
  <2>1. pc = "vol" => step = 1
    BY RecordsInOrder
  <2>2. pc = "utc0" => step = 2
    BY RecordsInOrder
  <2>3. pc = "curr" => step = 3
    BY RecordsInOrder
  <2>4. QED
    BY <1>1, <2>1, <2>2, <2>3, RecordsInOrder DEF Records
<1>3. w \in AdderType /\ w.pc \in {"utc0", "curr", "listen"} /\ w.pool = adder[Nft].pool
  BY <1>1, <1>2 DEF AdderType, Steps, Records
<1>4. adder' = [adder EXCEPT ![Nft] = w]
  BY <1>1, AddersTyped DEF Typed, IInv
<1>5. KeepRows
  BY <1>1 DEF KeepRows
<1>6. pc \in {"vol", "utc0", "curr"}
  BY <1>1 DEF Records
<1>7. QED
  <2> HIDE DEF w
  <2>1. QED
    BY <1>1, <1>3, <1>4, <1>5, <1>6, QuietAdderJoins

\* The pool of an adder gets its listener, the first one unless it is early.
LEMMA StartPoolJoins == IInv /\ JInv /\ (\E a \in Adders : StartPool(a)) => JInv'
<1> SUFFICES ASSUME IInv, JInv, NEW a \in Adders, StartPool(a), NEW p, p = adder[a].pool
             PROVE  JInv'
  OBVIOUS
<1>1. /\ adder[a].pc = "listen" /\ mpc # "down" /\ p \in Pools /\ Listen({p})
      /\ UNCHANGED <<table, list, todo, group, early, unread, mpc>>
  BY AddersTyped DEF StartPool, dataVars, mainVars, IInv, Working, Active, Typed
<1>2. PICK v \in AdderType : adder' = [adder EXCEPT ![a] = v] /\ v.pc \in {"idle", "done"}
  BY Resting DEF StartPool
<1>3. /\ adder'[a] = v /\ \A b \in Adders \ {a} : adder'[b] = adder[b]
      /\ \A b \in Adders \ {a} : Adding(b)' <=> Adding(b)
      /\ \A q : BeingAdded(q) <=> \E b \in Adders : adder[b].pool = q /\ Adding(b)
      /\ \A q : BeingAdded(q)' <=> \E b \in Adders : adder'[b].pool = q /\ Adding(b)'
  BY <1>2, OneWorks
<1>4. Adding(a) /\ ~Adding(a)'
  BY <1>1, <1>2, <1>3 DEF Adding
<1>5. \A q \in Pools : /\ listen[q] \in Nat /\ listen'[q] \in Nat
                       /\ q = p => listen'[q] = listen[q] + 1
                       /\ q # p => listen'[q] = listen[q]
  BY <1>1, Listened DEF IInv
<1>6. \A b \in Adders : Adding(b)' => b # a /\ Adding(b) /\ adder'[b] = adder[b]
  BY <1>3, <1>4
<1>7. \A b \in Adders : adder'[b].pc \in {"add", "append"} => Adding(b)' /\ adder'[b] = adder[b]
  BY <1>2, <1>3 DEF Adding
<1>8. \A b \in Adders : Adding(b)' => adder'[b].pool # p
  BY <1>4, <1>6 DEF JInv, Keys
<1>9. \A q : /\ BeingAdded(q)' => BeingAdded(q) /\ q # p
             /\ BeingAdded(q) /\ q # p => BeingAdded(q)'
  BY <1>3, <1>6, <1>8
<1>10. \A q : (Held(q)' => Held(q)) /\ (Starts(q)' <=> Starts(q))
  <2>1. \A q, b : b \in Adders /\ Copied(b, q)' => Copied(b, q)
    BY <1>7 DEF Copied
  <2>2. QED
    BY <1>1, <2>1 DEF Held, Starts, In
<1>11. BeingAdded(p)
  BY <1>3, <1>4
<1>12. p \notin early => listen[p] = 0 /\ mpc \in {"start", "run"} /\ ~Starts(p)
  <2>1. p \notin early => mpc \notin {"boot", "wait"}
    BY <1>1, <1>4 DEF JInv, OneSource
  <2>2. p \notin early => mpc \in {"start", "run"}
    BY <1>1, <2>1 DEF IInv, TypeOK
  <2>3. QED
    BY <1>1, <1>11, <2>2 DEF JInv, OneSource
<1>13. Keys'
  <2>1. \A q \in Pools : Held(q)' \/ listen'[q] > 0 \/ Starts(q)' => table'[q] # Absent
    <3>1. table[p] # Absent
      BY <1>4 DEF JInv, Keys
    <3>2. QED
      BY <1>1, <1>5, <1>10, <3>1 DEF JInv, Keys
  <2>2. \A b \in Adders, q \in Pools :
           adder'[b].pc \in {"add", "append"} /\ adder'[b].pool = q => ~Held(q)'
    BY <1>7, <1>10 DEF JInv, Keys
  <2>3. QED
    BY <1>1, <1>6, <2>1, <2>2 DEF JInv, Keys
<1>14. Once'
  <2>1. \A b \in Adders : adder'[b].pc = "append" => Distinct(adder'[b].list)
    BY <1>7 DEF JInv, Once
  <2>2. QED
    BY <1>1, <2>1 DEF JInv, Once, Distinct, In
<1>15. OneSource'
  <2>1. mpc \in {"boot", "wait"} => \A q \in Pools \ early :
           /\ listen'[q] = 0
           /\ \A b \in Adders : Adding(b)' /\ adder'[b].pool = q => adder'[b].pc = "add"
    <3>1. ASSUME mpc \in {"boot", "wait"}, NEW q \in Pools \ early PROVE q # p
      BY <1>12, <3>1
    <3>2. QED
      BY <1>5, <1>6, <3>1 DEF JInv, OneSource
  <2>2. mpc \in {"start", "run"} => \A q \in Pools \ early :
           /\ Starts(q)' => ~BeingAdded(q)'
           /\ Starts(q)' \/ BeingAdded(q)' => listen'[q] = 0
    <3>1. ASSUME NEW q \in Pools \ early, Starts(q)' \/ BeingAdded(q)' PROVE q # p
      BY <1>9, <1>10, <1>12, <3>1
    <3>2. QED
      BY <1>5, <1>9, <1>10, <3>1 DEF JInv, OneSource
  <2>3. OneListener'
    <3> SUFFICES ASSUME NEW q \in Pools, listen'[q] > 1, q \notin early PROVE FALSE
      BY <1>1 DEF OneListener
    <3>1. CASE q = p
      BY <1>5, <1>12, <3>1
    <3>2. CASE q # p
      BY <1>5, <3>2 DEF JInv, OneSource, OneListener
    <3>3. QED
      BY <3>1, <3>2
  <2>4. QED
    BY <1>1, <2>1, <2>2, <2>3 DEF JInv, OneSource
<1>16. \A q : InEveryCopy(q) => InEveryCopy(q)'
  <2>1. ASSUME NEW q, InEveryCopy(q), NEW b \in Adders, adder'[b].pc = "append"
        PROVE  In(q, adder'[b].list)
    BY <1>7, <2>1 DEF InEveryCopy
  <2>2. QED
    BY <1>1, <2>1 DEF InEveryCopy, In
<1>17. \A q \in Pools : BeingAdded(q) \/ listen[q] > 0 => BeingAdded(q)' \/ listen'[q] > 0
  BY <1>5, <1>9
<1>18. Reached'
  BY <1>1, <1>10, <1>16, <1>17 DEF JInv, Reached, InTable
<1>19. QED
  BY <1>13, <1>14, <1>15, <1>18 DEF JInv

\* A change of the state keeps the row.
LEMMA StateJoins ==
    /\ IInv /\ JInv /\ (\E r \in Requests, p \in Pools, s \in States : UpdateState(r, p, s))
          => JInv'
    /\ IInv /\ JInv /\ (\E r \in Requests : CopyState(r)) => JInv'
<1>1. ASSUME IInv, JInv, NEW r \in Requests, NEW p \in Pools, NEW s \in States,
             UpdateState(r, p, s)
      PROVE  JInv'
  <2>1. /\ adder[r].pc = "idle" /\ r \in Adders
        /\ UNCHANGED <<list, listen, todo, group, early, unread, mpc>>
    BY <1>1 DEF UpdateState, serveVars, mainVars, Adders
  <2>2. PICK v \in AdderType : adder' = [adder EXCEPT ![r] = v] /\ v.pc \in {"state", "done"}
    <3> DEFINE w == [Idle EXCEPT !.pc = "state", !.pool = p, !.state = s]
    <3>1. w \in AdderType /\ w.pc = "state"
      BY Resting DEF AdderType, Steps
    <3>2. adder' = [adder EXCEPT ![r] = w] \/ adder' = [adder EXCEPT ![r] = Done]
      BY <1>1 DEF UpdateState
    <3>3. QED
      BY <3>1, <3>2, Resting
  <2>3. KeepRows
    <3>1. UNCHANGED table \/ table' = [table EXCEPT ![p] = IF @ = Absent THEN Absent ELSE s]
      BY <1>1 DEF UpdateState
    <3>2. s # Absent
      BY RegistryAssumption
    <3>3. QED
      BY <1>1, <3>1, <3>2, AddersTyped DEF Typed, IInv, KeepRows
  <2>4. QED
    BY <1>1, <2>1, <2>2, <2>3, QuietAdderJoins
<1>2. ASSUME IInv, JInv, NEW r \in Requests, CopyState(r) PROVE JInv'
  <2>1. /\ adder[r].pc = "state" /\ r \in Adders
        /\ adder' = [adder EXCEPT ![r] = Done]
        /\ UNCHANGED <<table, list, listen, todo, group, early, unread, mpc>>
    BY <1>2 DEF CopyState, serveVars, mainVars, Adders
  <2>2. KeepRows
    BY <2>1 DEF KeepRows
  <2>3. QED
    BY <1>2, <2>1, <2>2, Resting, QuietAdderJoins
<1>3. QED
  BY <1>1, <1>2

\* The steps that touch no pool, and those that end the process.
LEMMA RestJoins ==
    /\ IInv /\ JInv /\ UNCHANGED vars => JInv'
    /\ IInv /\ JInv /\ StartNft => JInv'
    /\ IInv /\ JInv /\ Crash => JInv'
    /\ IInv /\ JInv /\ (\E p \in Pools : Use(p)) => JInv'
<1>1. ASSUME IInv, JInv, UNCHANGED <<table, list, listen, todo, group, early, unread, adder>>,
             mpc' = mpc \/ (mpc = "boot" /\ mpc' = "wait")
      PROVE  JInv'
  <2>1. WorkOn /\ KeepRows
    BY <1>1 DEF WorkOn, KeepRows, Adding
  <2>2. QED
    BY <1>1, <2>1, QuietJoin
<1>2. IInv /\ JInv /\ UNCHANGED vars => JInv'
  BY <1>1 DEF vars, dataVars, serveVars, mainVars
<1>3. IInv /\ JInv /\ StartNft => JInv'
  BY <1>1 DEF StartNft, dataVars, serveVars
<1>4. IInv /\ JInv /\ Crash => JInv'
  BY DieJoins DEF Crash, dataVars, serveVars
<1>5. ASSUME IInv, JInv, NEW p \in Pools, Use(p) PROVE JInv'
  <2>1. UNCHANGED <<table, list, listen, todo, group, early, unread>>
    BY <1>5 DEF Use, dataVars, serveVars
  <2>2. Die \/ UNCHANGED <<mpc, adder>>
    BY <1>5 DEF Use
  <2>3. QED
    BY <1>1, <1>5, <2>1, <2>2, DieJoins
<1>6. QED
  BY <1>2, <1>3, <1>4, <1>5

LEMMA InitJoins == Init => JInv
<1> SUFFICES ASSUME Init PROVE JInv
  OBVIOUS
<1>1. \A a \in Adders : ~Adding(a) /\ adder[a].pc # "append" /\ adder[a].pc # "add"
  BY Resting DEF Init, Adding
<1>2. /\ mpc = "down" /\ list = <<>> /\ todo = <<>> /\ group = {}
      /\ \A p \in Pools : listen[p] = 0
  BY DEF Init
<1>3. \A p : ~Held(p) /\ ~Starts(p)
  BY <1>1, <1>2 DEF Held, Copied, Starts, In
<1>4. Keys
  BY <1>1, <1>2, <1>3 DEF Keys
<1>5. Once
  BY <1>1, <1>2 DEF Once, Distinct, In
<1>6. OneSource /\ Reached
  BY <1>2 DEF OneSource, Reached, OneListener
<1>7. QED
  BY <1>4, <1>5, <1>6 DEF JInv

LEMMA NextJoins == IInv /\ JInv /\ [Next]_vars => JInv'
BY RestJoins, BootJoins, StartPoolsJoins, InitPoolStatJoins, StartLastJoins, InsertJoins,
   AddPoolJoins, AppendPoolJoins, StartPoolJoins, InitPoolStatRealJoins, StateJoins DEF Next
-----------------------------------------------------------------------------
(* A pool that the start has not read stays away from the service *)

Away(p) == ~Held(p) /\ ~Starts(p) /\ listen[p] = 0 /\ ~BeingAdded(p) /\ table[p] # Absent
Dark == \A p \in unread : Away(p)

\* A pool comes to its listener on no other way: it has no row and gets an adder, from
\* him it comes to the slice, and from there to start, and one of the two listens.
Comes == \A p \in Pools :
    /\ table[p] # Absent => table'[p] # Absent
    /\ BeingAdded(p)' => BeingAdded(p) \/ table[p] = Absent
    /\ Held(p)' => Held(p) \/ BeingAdded(p)
    /\ Starts(p)' => Starts(p) \/ Held(p)
    /\ listen'[p] = listen[p] \/ Starts(p) \/ BeingAdded(p)

LEMMA AwayKept ==
    ASSUME IInv, Dark, UNCHANGED unread, Comes
    PROVE  Dark'
<1>1. unread \subseteq Pools
  BY DEF IInv, TypeOK
<1>2. ASSUME NEW p \in unread PROVE Away(p)'
  BY <1>1 DEF Dark, Away, Comes
<1>3. QED
  BY <1>2 DEF Dark

\* A step of main, which leaves the adders and the slice alone.
LEMMA MainComes ==
    ASSUME UNCHANGED <<table, list, adder>>,
           \A p \in Pools : Starts(p)' => Starts(p) \/ Held(p),
           \A p \in Pools : listen'[p] = listen[p] \/ Starts(p)
    PROVE  Comes
BY DEF Comes, Held, Copied, In, BeingAdded

\* A step of an adder.
LEMMA AdderComes ==
    ASSUME IInv, NEW a \in Adders, NEW v \in AdderType, adder' = [adder EXCEPT ![a] = v],
           UNCHANGED <<todo, group>>,
           \A p \in Pools : table[p] # Absent => table'[p] # Absent,
           v.pc = "append" => \A p \in Pools : In(p, v.list) => Held(p),
           \A p \in Pools : In(p, list') => Held(p) \/ BeingAdded(p),
           v.pc \notin {"idle", "done", "state"} => BeingAdded(v.pool) \/ table[v.pool] = Absent,
           \A p \in Pools : listen'[p] = listen[p] \/ BeingAdded(p)
    PROVE  Comes
<1>1. /\ adder'[a] = v /\ \A b \in Adders \ {a} : adder'[b] = adder[b]
      /\ \A p : BeingAdded(p) <=> \E b \in Adders : adder[b].pool = p /\ Adding(b)
      /\ \A p : BeingAdded(p)' <=> \E b \in Adders : adder'[b].pool = p /\ Adding(b)'
  BY OneWorks
<1>2. ASSUME NEW p \in Pools, BeingAdded(p)' PROVE BeingAdded(p) \/ table[p] = Absent
  <2>1. PICK b \in Adders : adder'[b].pool = p /\ Adding(b)'
    BY <1>1, <1>2
  <2>2. CASE b = a
    BY <1>1, <2>1, <2>2 DEF Adding
  <2>3. CASE b # a
    BY <1>1, <2>1, <2>3 DEF Adding
  <2>4. QED
    BY <2>2, <2>3
<1>3. ASSUME NEW p \in Pools, Held(p)' PROVE Held(p) \/ BeingAdded(p)
  <2>1. CASE In(p, list')
    BY <2>1
  <2>2. ASSUME NEW b \in Adders, Copied(b, p)' PROVE Held(p)
    <3>1. CASE b = a
      BY <1>1, <2>2, <3>1 DEF Copied
    <3>2. CASE b # a
      BY <1>1, <2>2, <3>2 DEF Copied, Held
    <3>3. QED
      BY <3>1, <3>2
  <2>3. QED
    BY <1>3, <2>1, <2>2 DEF Held, In
<1>4. \A p : Starts(p)' <=> Starts(p)
  BY DEF Starts, In
<1>5. QED
  BY <1>2, <1>3, <1>4 DEF Comes

\* The process ends.
LEMMA DieComes ==
    ASSUME Die, UNCHANGED <<table, list, listen, todo, group>>
    PROVE  Comes
<1>1. \A a \in Adders : adder'[a].pc \in {"idle", "done"}
  BY Resting DEF Die
<1>2. \A p : ~BeingAdded(p)' /\ (Held(p)' => Held(p)) /\ (Starts(p)' <=> Starts(p))
  BY <1>1 DEF BeingAdded, Held, Copied, Starts, In
<1>3. QED
  BY <1>2 DEF Comes

LEMMA ListensOnly ==
    ASSUME IInv, NEW ps, Listen(ps)
    PROVE  \A p \in Pools : listen'[p] = listen[p] \/ p \in ps
BY Listened DEF IInv

LEMMA StartsComes ==
    ASSUME IInv, StartNft \/ StartPools \/ InitPoolStat \/ StartLast
    PROVE  Comes
<1>1. UNCHANGED <<table, list, adder>>
  BY DEF StartNft, StartPools, InitPoolStat, StartLast, dataVars
<1>2. CASE StartNft
  <2>1. UNCHANGED <<todo, group, listen>>
    BY <1>2 DEF StartNft, serveVars
  <2>2. QED
    BY <1>1, <2>1, MainComes DEF Starts, In
<1>3. CASE StartPools
  <2>1. todo' = list /\ UNCHANGED <<group, listen>>
    BY <1>3 DEF StartPools, serveVars
  <2>2. \A p : Starts(p)' => Starts(p) \/ Held(p)
    BY <2>1 DEF Starts, Held, In
  <2>3. QED
    BY <1>1, <2>1, <2>2, MainComes
<1>4. CASE InitPoolStat
  <2> DEFINE h == Head(todo)
  <2>1. todo # <<>> /\ todo \in Seq(Pools)
    BY <1>4, AddersTyped DEF InitPoolStat, IInv, Typed
  <2>2. In(h, todo) /\ \A p : In(p, Tail(todo)) => In(p, todo)
    <3>1. /\ DOMAIN todo = 1..Len(todo) /\ Len(todo) \in Nat /\ Len(todo) >= 1
          /\ DOMAIN Tail(todo) = 1..(Len(todo) - 1) /\ h = todo[1]
      BY <2>1
    <3>2. \A i \in 1..(Len(todo) - 1) : Tail(todo)[i] = todo[i + 1] /\ i + 1 \in 1..Len(todo)
      BY <2>1, <3>1
    <3>3. 1 \in 1..Len(todo)
      BY <3>1
    <3>4. In(h, todo)
      BY <3>1, <3>3 DEF In
    <3>5. \A p : In(p, Tail(todo)) => In(p, todo)
      BY <3>1, <3>2 DEF In
    <3>6. QED
      BY <3>4, <3>5
  <2>3. CASE UNCHANGED <<todo, group, listen>>
    BY <1>1, <2>3, MainComes DEF Starts, In
  <2>4. CASE todo' = Tail(todo) /\ Join(h)
    <3>1. (group' = {} /\ Listen(group \cup {h})) \/ (group' = group \cup {h} /\ UNCHANGED listen)
      BY <2>4 DEF Join
    <3>2. \A p : Starts(p)' => Starts(p)
      BY <2>2, <2>4, <3>1 DEF Starts
    <3>3. \A p \in group \cup {h} : Starts(p)
      BY <2>2 DEF Starts
    <3>4. \A p \in Pools : listen'[p] = listen[p] \/ Starts(p)
      BY <3>1, <3>3, ListensOnly
    <3>5. QED
      BY <1>1, <3>2, <3>4, MainComes
  <2>5. QED
    BY <1>4, <2>3, <2>4 DEF InitPoolStat
<1>5. CASE StartLast
  <2>1. group' = {} /\ UNCHANGED todo /\ Listen(group)
    BY <1>5 DEF StartLast
  <2>2. \A p : Starts(p)' => Starts(p)
    BY <2>1 DEF Starts, In
  <2>3. \A p \in Pools : listen'[p] = listen[p] \/ Starts(p)
    BY <2>1, ListensOnly DEF Starts
  <2>4. QED
    BY <1>1, <2>2, <2>3, MainComes
<1>6. QED
  BY <1>2, <1>3, <1>4, <1>5

LEMMA InsertComes ==
    ASSUME IInv, NEW a \in Adders, NEW p \in Pools, InsertPool(a, p)
    PROVE  Comes
<1>1. UNCHANGED <<list, listen, todo, group>> /\ adder[a] \in AdderType
  BY AddersTyped DEF InsertPool, serveVars, mainVars, IInv, Typed
<1>2. \A q \in Pools : In(q, list') => Held(q)
  BY <1>1 DEF Held
<1>3. CASE /\ table[p] = Absent /\ table' = [table EXCEPT ![p] = NewState]
           /\ adder' = [adder EXCEPT ![a].pc = "add", ![a].pool = p]
  <2> DEFINE v == [adder[a] EXCEPT !.pc = "add", !.pool = p]
  <2>1. v \in AdderType /\ v.pc = "add" /\ v.pool = p
    BY <1>1 DEF AdderType, Steps
  <2>2. adder' = [adder EXCEPT ![a] = v]
    BY <1>3, AddersTyped DEF Typed, IInv
  <2> HIDE DEF v
  <2>3. \A q \in Pools : table[q] # Absent => table'[q] # Absent
    BY <1>3, AddersTyped, RegistryAssumption DEF Typed, IInv
  <2>4. QED
    BY <1>1, <1>2, <1>3, <2>1, <2>2, <2>3, AdderComes
<1>4. CASE adder' = [adder EXCEPT ![a] = IF a = Nft THEN Idle ELSE Done] /\ UNCHANGED table
  <2> DEFINE v == IF a = Nft THEN Idle ELSE Done
  <2>1. v \in AdderType /\ v.pc \in {"idle", "done"}
    BY Resting
  <2>2. adder' = [adder EXCEPT ![a] = v]
    BY <1>4
  <2> HIDE DEF v
  <2>3. QED
    BY <1>1, <1>2, <1>4, <2>1, <2>2, AdderComes
<1>5. QED
  BY <1>3, <1>4 DEF InsertPool

LEMMA AddsComes ==
    ASSUME IInv, NEW a \in Adders, AddPool(a) \/ AppendPool(a) \/ StartPool(a)
    PROVE  Comes
<1> DEFINE p == adder[a].pool
<1>1. UNCHANGED <<table, todo, group>> /\ adder[a] \in AdderType /\ adder[a].pc # "state"
  BY AddersTyped DEF AddPool, AppendPool, StartPool, dataVars, mainVars, IInv, Typed
<1>2. BeingAdded(p) /\ p \in Pools
  <2>1. adder[a].pc \in {"add", "append", "listen"}
    BY DEF AddPool, AppendPool, StartPool
  <2>2. QED
    BY <2>1 DEF BeingAdded, IInv, Working, Active
<1>3. CASE AddPool(a)
  <2> DEFINE v == [adder[a] EXCEPT !.pc = "append", !.list = list]
  <2>1. UNCHANGED <<list, listen>> /\ list \in Seq(Pools)
    BY <1>3, AddersTyped DEF AddPool, serveVars, IInv, Typed
  <2>2. v \in AdderType /\ v.list = list /\ v.pool = p
    BY <1>1, <2>1 DEF AdderType, Steps
  <2>3. adder' = [adder EXCEPT ![a] = v]
    BY <1>3, AddersTyped DEF AddPool, Typed, IInv
  <2> HIDE DEF v
  <2>4. \A q \in Pools : In(q, list) => Held(q)
    BY DEF Held
  <2>5. QED
    BY <1>1, <1>2, <2>1, <2>2, <2>3, <2>4, AdderComes
<1>4. CASE AppendPool(a)
  <2> DEFINE v == [adder[a] EXCEPT !.pc = IF a = Nft THEN RecordOrder[1] ELSE "listen",
                                   !.list = <<>>]
  <2>1. UNCHANGED listen /\ adder[a].pc = "append"
    BY <1>4 DEF AppendPool, serveVars
  <2>2. v \in AdderType /\ v.pc # "append" /\ v.pool = p
    <3>1. v.pc \in {"vol", "listen"} /\ v.pc \in Steps /\ v.pool = p
      BY <1>1, RecordsInOrder DEF AdderType, Steps, Records
    <3>2. <<>> \in Seq(Pools)
      OBVIOUS
    <3>3. v \in AdderType
      BY <1>1, <3>1, <3>2 DEF AdderType
    <3>4. QED
      BY <3>1, <3>3
  <2>3. adder' = [adder EXCEPT ![a] = v]
    BY <1>4, AddersTyped DEF AppendPool, Typed, IInv
  <2> HIDE DEF v
  <2>4. \A q \in Pools : In(q, list') => Held(q) \/ BeingAdded(q)
    <3>1. CASE list' = list
      BY <3>1 DEF Held
    <3>2. CASE list' = Append(adder[a].list, p)
      <4>1. adder[a].list \in Seq(Pools)
        BY <1>1 DEF AdderType
      <4>2. \A q : In(q, list') => In(q, adder[a].list) \/ q = p
        BY <1>2, <3>2, <4>1, InAppend
      <4>3. QED
        BY <1>2, <2>1, <4>2 DEF Held, Copied
    <3>3. QED
      BY <1>4, <3>1, <3>2 DEF AppendPool
  <2>5. QED
    BY <1>1, <1>2, <2>1, <2>2, <2>3, <2>4, AdderComes
<1>5. CASE StartPool(a)
  <2> DEFINE v == IF a = Nft THEN Idle ELSE Done
  <2>1. UNCHANGED list /\ Listen({p})
    BY <1>5 DEF StartPool, dataVars
  <2>2. v \in AdderType /\ v.pc \in {"idle", "done"}
    BY Resting
  <2>3. adder' = [adder EXCEPT ![a] = v]
    BY <1>5 DEF StartPool
  <2> HIDE DEF v
  <2>4. \A q \in Pools : listen'[q] = listen[q] \/ BeingAdded(q)
    BY <1>2, <2>1, ListensOnly
  <2>5. \A q \in Pools : In(q, list') => Held(q)
    BY <2>1 DEF Held
  <2>6. QED
    BY <1>1, <2>1, <2>2, <2>3, <2>4, <2>5, AdderComes
<1>6. QED
  BY <1>3, <1>4, <1>5

LEMMA RecordsCome ==
    ASSUME IInv, InitPoolStatReal
    PROVE  Comes
<1> DEFINE pc == adder[Nft].pc
           step == CHOOSE i \in 1..3 : RecordOrder[i] = pc
           n == IF step < 3 THEN RecordOrder[step + 1] ELSE "listen"
           v == [adder[Nft] EXCEPT !.pc = n]
<1>1. /\ UNCHANGED <<table, list, listen, todo, group>> /\ pc \in Records
      /\ adder' = [adder EXCEPT ![Nft].pc = n]
  BY DEF InitPoolStatReal, dataVars, mainVars
<1>2. Nft \in Adders /\ adder[Nft] \in AdderType
  BY AddersTyped DEF Adders, IInv, Typed
<1>3. n \in Records \cup {"listen"}
  <2>1. \E i \in 1..3 : RecordOrder[i] = pc
    BY <1>1, RecordsInOrder DEF Records
  <2>2. step \in 1..3
    BY <2>1
  <2> HIDE DEF step
  <2>3. step < 3 => step + 1 \in 1..3
    BY <2>2
  <2>4. QED
    BY <2>3, RecordsInOrder
<1> HIDE DEF n
<1>4. v \in AdderType /\ v.pool = adder[Nft].pool /\ v.pc # "append"
  BY <1>2, <1>3 DEF AdderType, Steps, Records
<1>5. adder' = [adder EXCEPT ![Nft] = v]
  BY <1>1, AddersTyped DEF Typed, IInv
<1> HIDE DEF v
<1>6. BeingAdded(adder[Nft].pool)
  BY <1>1, <1>2 DEF BeingAdded, Records
<1>7. \A q \in Pools : In(q, list') => Held(q)
  BY <1>1 DEF Held
<1>8. QED
  BY <1>1, <1>2, <1>4, <1>5, <1>6, <1>7, AdderComes

LEMMA StatesCome ==
    ASSUME IInv, NEW r \in Requests,
           CopyState(r) \/ \E p \in Pools, s \in States : UpdateState(r, p, s)
    PROVE  Comes
<1>1. UNCHANGED <<list, listen, todo, group>> /\ r \in Adders
  BY DEF CopyState, UpdateState, serveVars, mainVars, Adders
<1>2. \A q \in Pools : In(q, list') => Held(q)
  BY <1>1 DEF Held
<1>3. PICK v \in AdderType : adder' = [adder EXCEPT ![r] = v] /\ v.pc \in {"state", "done"}
  <2>1. CASE adder' = [adder EXCEPT ![r] = Done]
    BY <2>1, Resting
  <2>2. ASSUME NEW p \in Pools, NEW s \in States,
               adder' = [adder EXCEPT ![r] = [Idle EXCEPT !.pc = "state", !.pool = p, !.state = s]]
        PROVE  \E v \in AdderType : adder' = [adder EXCEPT ![r] = v] /\ v.pc \in {"state", "done"}
    <3> DEFINE w == [Idle EXCEPT !.pc = "state", !.pool = p, !.state = s]
    <3>1. w \in AdderType /\ w.pc = "state"
      BY <2>2, Resting DEF AdderType, Steps
    <3>2. QED
      BY <2>2, <3>1
  <2>3. QED
    BY <2>1, <2>2 DEF CopyState, UpdateState
<1>4. \A q \in Pools : table[q] # Absent => table'[q] # Absent
  <2>1. CASE table' = table
    BY <2>1
  <2>2. ASSUME NEW p \in Pools, NEW s \in States,
               table' = [table EXCEPT ![p] = IF @ = Absent THEN Absent ELSE s]
        PROVE  \A q \in Pools : table[q] # Absent => table'[q] # Absent
    BY <2>2, AddersTyped, RegistryAssumption DEF Typed, IInv
  <2>3. QED
    BY <2>1, <2>2 DEF CopyState, UpdateState
<1>5. QED
  BY <1>1, <1>2, <1>3, <1>4, AdderComes

\* The start of the process reads some of the rows, and the others are away.
LEMMA BootDark == IInv /\ Boot => Dark'
<1> SUFFICES ASSUME IInv, Boot, NEW p \in unread' PROVE Away(p)'
  BY DEF Dark
<1>1. PICK read \in SUBSET InTable :
        list' \in SetToSeqs({q \in read : VersionOf[q] = 3}) /\ unread' = InTable \ read
  BY DEF Boot
<1>2. /\ mpc = "down" /\ todo' = <<>> /\ group' = {} /\ UNCHANGED <<table, adder>>
      /\ listen' = [q \in Pools |-> 0]
  BY DEF Boot
<1>3. p \in Pools /\ p \notin read /\ table[p] # Absent
  BY <1>1 DEF InTable
<1>4. ~In(p, list')
  <2> DEFINE V == {q \in read : VersionOf[q] = 3}
  <2>1. V \in SUBSET Pools /\ list' \in SetToSeqs(V)
    BY <1>1 DEF InTable
  <2>2. In(p, list') => p \in V
    <3> HIDE DEF V
    <3>1. QED
      BY <2>1, AllListed
  <2>3. QED
    BY <1>3, <2>2
<1>5. \A a \in Adders : adder'[a].pc \in {"idle", "done"}
  BY <1>2 DEF IInv, Working, Active
<1>6. ~Held(p)' /\ ~BeingAdded(p)' /\ ~Starts(p)'
  BY <1>2, <1>4, <1>5 DEF Held, Copied, BeingAdded, Starts, In
<1>7. QED
  BY <1>2, <1>3, <1>6 DEF Away

LEMMA NextDark == IInv /\ Dark /\ [Next]_vars => Dark'
<1> SUFFICES ASSUME IInv, Dark, [Next]_vars PROVE Dark'
  OBVIOUS
<1>1. CASE UNCHANGED vars
  BY <1>1 DEF vars, dataVars, serveVars, mainVars, Dark, Away, Held, Copied, In, Starts, BeingAdded
<1>2. CASE Boot
  BY <1>2, BootDark
<1>3. CASE Crash
  BY <1>3, DieComes, AwayKept DEF Crash, dataVars, serveVars
<1>4. CASE StartNft \/ StartPools \/ InitPoolStat \/ StartLast
  <2>1. UNCHANGED unread
    BY <1>4 DEF StartNft, StartPools, InitPoolStat, StartLast
  <2>2. QED
    BY <1>4, <2>1, StartsComes, AwayKept
<1>5. ASSUME NEW a \in Adders, NEW p \in Pools, InsertPool(a, p) PROVE Dark'
  <2>1. UNCHANGED unread
    BY <1>5 DEF InsertPool
  <2>2. QED
    BY <1>5, <2>1, InsertComes, AwayKept
<1>6. ASSUME NEW a \in Adders, AddPool(a) \/ AppendPool(a) \/ StartPool(a) PROVE Dark'
  <2>1. UNCHANGED unread
    BY <1>6 DEF AddPool, AppendPool, StartPool
  <2>2. QED
    BY <1>6, <2>1, AddsComes, AwayKept
<1>7. CASE InitPoolStatReal
  BY <1>7, RecordsCome, AwayKept DEF InitPoolStatReal
<1>8. ASSUME NEW r \in Requests,
             CopyState(r) \/ \E p \in Pools, s \in States : UpdateState(r, p, s)
      PROVE  Dark'
  <2>1. UNCHANGED unread
    BY <1>8 DEF CopyState, UpdateState
  <2>2. QED
    BY <1>8, <2>1, StatesCome, AwayKept
<1>9. ASSUME NEW p \in Pools, Use(p) PROVE Dark'
  <2>1. UNCHANGED <<dataVars, serveVars, todo, group, unread>> /\ (Die \/ UNCHANGED <<mpc, adder>>)
    BY <1>9 DEF Use
  <2>2. CASE Die
    BY <2>1, <2>2, DieComes, AwayKept DEF dataVars, serveVars
  <2>3. CASE UNCHANGED adder
    BY <2>1, <2>3 DEF dataVars, serveVars, Dark, Away, Held, Copied, In, Starts, BeingAdded
  <2>4. QED
    BY <2>1, <2>2, <2>3
<1>10. QED
  BY <1>1, <1>2, <1>3, <1>4, <1>5, <1>6, <1>7, <1>8, <1>9 DEF Next
-----------------------------------------------------------------------------
(* The theorems *)

LEMMA NextInv == IInv /\ [Next]_vars => IInv'
BY StutterKeeps, BootKeeps, CrashKeeps, StartNftKeeps, StartPoolsKeeps, InitPoolStatKeeps,
   StartLastKeeps, InsertKeeps, AddPoolKeeps, AppendPoolKeeps, StartPoolKeeps,
   InitPoolStatRealKeeps, StateKeeps, UseKeeps DEF Next

LEMMA Inductive == Spec => []IInv
BY InitInv, NextInv, PTL DEF Spec

LEMMA JoinsInductive == Spec => []JInv
BY Inductive, InitJoins, NextJoins, PTL DEF Spec

LEMMA DarkInductive == Spec => []Dark
<1>1. Init => Dark
  BY DEF Init, Dark
<1>2. QED
  BY <1>1, Inductive, NextDark, PTL DEF Spec

\* The type invariant of the registry.
THEOREM TypeCorrect == Spec => []TypeOK
<1>1. IInv => TypeOK
  BY DEF IInv
<1>2. QED
  BY <1>1, Inductive, PTL

\* Whoever finds the records of a pool incomplete finds one a request added, or one
\* dealNft is adding, though both may lose pools of the slice (initPoolStat, addPool).
THEOREM RecordsFound == Spec => []RecordsReady
<1>1. IInv => RecordsReady
  <2> SUFFICES ASSUME IInv PROVE RecordsExceptInWindow
    BY DEF IInv, RecordsReady
  <2>1. ASSUME mpc = "run", NEW i \in DOMAIN list PROVE Safe(list[i])
    <3>1. list[i] \in Pools
      BY <2>1, AddersTyped DEF Typed, IInv
    <3>2. Held(list[i])
      BY <2>1 DEF Held, In
    <3>3. ~In(list[i], todo)
      BY <2>1 DEF IInv, Awaited, In
    <3>4. QED
      BY <2>1, <3>1, <3>2, <3>3 DEF IInv, Awaited
  <2>2. QED
    BY <2>1 DEF RecordsExceptInWindow, Safe
<1>2. QED
  BY <1>1, Inductive, PTL

\* The service gives every pool of the table a listener, one unless it came before
\* start read the slice, and no pool is listed twice (start, addPool, StartPool); those
\* that getPools failed to read, and no others, have none.
THEOREM PoolsJoined == Spec => []PoolsJoin
<1>1. IInv /\ JInv /\ Dark => PoolsJoin
  <2> SUFFICES ASSUME IInv, JInv, Dark PROVE EveryPoolListened /\ ListedOnce
    BY DEF PoolsJoin, JInv, OneSource
  <2>1. mpc = "run" => \A p : ~Starts(p)
    BY DEF JInv, OneSource, IInv, Awaited, Starts, In
  <2>2. EveryPoolListened
    BY <2>1 DEF JInv, Reached, EveryPoolListened, Dark, Away
  <2>3. ListedOnce
    BY DEF JInv, Once, Distinct, ListedOnce
  <2>4. QED
    BY <2>2, <2>3
<1>2. QED
  BY <1>1, Inductive, JoinsInductive, DarkInductive, PTL
=============================================================================
