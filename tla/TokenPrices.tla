---------------------------- MODULE TokenPrices ----------------------------
(***************************************************************************)
(* The tokens and what they are worth: the table token and its copies      *)
(* (model/public.go), the requests that add a token or change its flag     *)
(* (api/public.go, api/admin.go), the walk over the pools that prices the  *)
(* tokens in dollars (service/price.go), the protocol fees (protocol.go),  *)
(* and what the handlers answer (api/gecko.go, GetProtocolFees).           *)
(*                                                                         *)
(* A price is the route it was computed along: the pools from a token      *)
(* whose price is given to the priced one, and the walk that computed it.  *)
(* The arithmetic of a hop, price / f or price * f scaled by the decimals, *)
(* is left out: it is a function of the two.                               *)
(***************************************************************************)
EXTENDS Integers, Sequences, FiniteSets, SequencesExt

CONSTANTS
    Tokens,
    RootSeq,      \* the tokens the walk begins with: sETH and two stablecoins
    PoolList,     \* the pools of version 3, in the order of poolsV3
    InitListed,   \* number of pools listed at the beginning
    InitTokens,   \* tokens that have a row at the beginning
    AskedTokens,  \* bound: the tokens requests are about
    Publics,      \* values of the column public
    None,         \* no row, no copy, no price
    MaxWalks,     \* bound: walks, over all processes
    MaxRequests,  \* bound: requests about tokens
    MaxRounds,    \* bound: rounds of fees of a process
    MaxFaults,    \* bound: fees not read or not stored, and rows a process is without
    MaxCrashes    \* bound: number of times the process dies

PoolIds == DOMAIN PoolList
Roots == ToSet(RootSeq)
Ends(p) == {PoolList[p].token0, PoolList[p].token1}

ASSUME PricesAssumption ==
    /\ IsFiniteSet(Tokens) /\ InitTokens \subseteq Tokens /\ AskedTokens \subseteq Tokens
    /\ RootSeq \in Seq(Tokens) \ {<<>>} /\ IsInjective(RootSeq)
    /\ PoolList \in Seq([token0 : Tokens, token1 : Tokens])
    /\ \A p \in PoolIds : PoolList[p].token0 # PoolList[p].token1
    /\ InitListed \in 0..Len(PoolList)
    /\ Publics # {} /\ None \notin Publics
    /\ None \notin [walk : Nat, hops : Seq(PoolIds)]
    /\ \A bound \in {MaxWalks, MaxRequests, MaxRounds, MaxFaults, MaxCrashes} : bound \in Nat

VARIABLES
    rows,       \* table token: the public flag of a token's row
    coins,      \* coinM: the flag of a token's copy
    coinList,   \* coins
    adding,     \* AddToken between the insert and the copy: the flag, by token
    changing,   \* ChangeTokenPublic between the update and the copy: <<token, flag>>
    listed,     \* number of pools of the table pool
    atStart,    \* what it was when the process began
    lost,       \* pools of the table that poolsV3 lacks
    stage,      \* record of a pool: "none", "default" (DefaultTick) or "tick"
    symbols,    \* which of Symbol0 and Symbol1 a pool's copy has
    prices,     \* tokenPricesAsUsd
    wpc,        \* the walk: "down", "first", "walk" or "idle"
    walks,      \* walks begun
    queue,      \* q
    visited,
    route,      \* price, read when the head of q was reached
    pos,        \* the pool to look at
    seen,       \* length of the walk's slice of pools
    started,    \* RealEthPrice has returned
    rounds,     \* rounds of fees begun by the process
    feeTodo,    \* pools whose fees the round has still to read
    fees,       \* table protocol: the symbols of a pool's row
    requests, faults, crashes,
    \* history variables
    overlapped, \* tokens two requests were about at the same time
    unread,     \* tokens of the table that getCoins did not get
    usable,     \* pools that were usable when the walk began
    skip        \* pools that its slice lacks

tokenVars == <<rows, coins, coinList, adding, changing, requests, overlapped, unread>>
poolVars == <<listed, atStart, lost, stage>>
walkVars == <<prices, wpc, walks, queue, visited, route, pos, seen, started, usable, skip>>
feeVars == <<rounds, feeTodo, fees, faults>>
vars == <<tokenVars, poolVars, symbols, walkVars, feeVars, crashes>>

Up == wpc # "down"
Copied(t) == coins[t] # None
NoPrices == [t \in Tokens |-> None]

\* (A name that extends the name of the definition below it is that definition
\* with a plausible bug; the specification never uses it.)

\* The tables, before the first process.
Init ==
    /\ rows = [t \in Tokens |-> IF t \in InitTokens THEN CHOOSE f \in Publics : TRUE ELSE None]
    /\ coins = [t \in Tokens |-> None] /\ coinList = <<>> /\ unread = {}
    /\ adding = [t \in Tokens |-> None] /\ changing = {}
    /\ listed = InitListed /\ atStart = InitListed /\ lost = {}
    /\ stage = [p \in PoolIds |-> IF p <= listed THEN "tick" ELSE "none"]
    /\ symbols = [p \in PoolIds |-> {}]
    /\ prices = NoPrices /\ wpc = "down" /\ walks = 0
    /\ queue = <<>> /\ visited = {} /\ route = <<>> /\ pos = 1 /\ seen = 0
    /\ started = FALSE
    /\ rounds = 0 /\ feeTodo = {} /\ fees = [p \in PoolIds |-> None]
    /\ requests = 0 /\ faults = 0 /\ crashes = 0 /\ overlapped = {} /\ usable = {} /\ skip = {}
-----------------------------------------------------------------------------
(* Tokens *)

Pending(t) == adding[t] # None \/ \E f \in Publics : <<t, f>> \in changing

Request(t) ==
    /\ Up /\ requests < MaxRequests
    /\ requests' = requests + 1 /\ UNCHANGED unread
    /\ overlapped' = IF Pending(t) THEN overlapped \cup {t} ELSE overlapped

\* AddToken: the insert.  It fails when the token has a row, and nothing happens.
InsertTokenAnyway(t, f) ==
    /\ Request(t) /\ adding[t] = None
    /\ rows' = IF rows[t] = None THEN [rows EXCEPT ![t] = f] ELSE rows
    /\ adding' = [adding EXCEPT ![t] = f]
    /\ UNCHANGED <<coins, coinList, changing, poolVars, symbols, walkVars, feeVars, crashes>>
InsertToken(t, f) ==
    /\ Request(t)
    /\ rows[t] = None
    /\ rows' = [rows EXCEPT ![t] = f]
    /\ adding' = [adding EXCEPT ![t] = f]
    /\ UNCHANGED <<coins, coinList, changing, poolVars, symbols, walkVars, feeVars, crashes>>

\* AddToken: map and slice, under coinsMu.
CopyToken(t) ==
    /\ adding[t] # None
    /\ coins' = [coins EXCEPT ![t] = adding[t]]
    /\ coinList' = Append(coinList, t)
    /\ adding' = [adding EXCEPT ![t] = None]
    /\ UNCHANGED <<rows, changing, requests, overlapped, unread, poolVars, symbols, walkVars,
                   feeVars, crashes>>

\* ChangeTokenPublic: the update, which no row may match.
UpdatePublic(t, f) ==
    /\ Request(t) /\ <<t, f>> \notin changing
    /\ rows' = [rows EXCEPT ![t] = IF @ = None THEN None ELSE f]
    /\ changing' = changing \cup {<<t, f>>}
    /\ UNCHANGED <<coins, coinList, adding, poolVars, symbols, walkVars, feeVars, crashes>>

\* ChangeTokenPublic: the copy, if there is one.
CopyPublicForgets(t, f) ==
    /\ <<t, f>> \in changing
    /\ changing' = changing \ {<<t, f>>}
    /\ UNCHANGED <<rows, coins, coinList, adding, requests, overlapped, unread, poolVars, symbols,
                   walkVars, feeVars, crashes>>
CopyPublic(t, f) ==
    /\ <<t, f>> \in changing
    /\ changing' = changing \ {<<t, f>>}
    /\ coins' = [coins EXCEPT ![t] = IF @ = None THEN None ELSE f]
    /\ UNCHANGED <<rows, coinList, adding, requests, overlapped, unread, poolVars, symbols,
                   walkVars, feeVars, crashes>>
-----------------------------------------------------------------------------
(* Pools: PoolRegistry and PoolService say how they get here *)

Slice == (1..listed) \ lost
Failures == faults + Cardinality(lost) + Cardinality(unread)

\* addPool, of one request or of several: no lock is held between the read and the
\* write of poolsV3, and an append to an old slice drops what came after that.
ListPool ==
    /\ Up /\ listed < Len(PoolList)
    /\ listed' = listed + 1
    /\ \E old \in atStart..listed : lost' = lost \cup ((old + 1)..listed)
    /\ UNCHANGED <<tokenVars, atStart, stage, symbols, walkVars, feeVars, crashes>>
    /\ Failures' <= MaxFaults

\* A pool gets its record, or its first tick.  A tick stays, also over a restart.
\* A pool that getPools did not get has no record and no reader.
Deal(p) ==
    /\ Up /\ p <= listed /\ (p > atStart \/ p \notin lost)
    /\ \/ stage[p] = "none" /\ stage' = [stage EXCEPT ![p] = "default"]
       \/ stage[p] = "default" /\ stage' = [stage EXCEPT ![p] = "tick"]
    /\ UNCHANGED <<tokenVars, listed, atStart, lost, symbols, walkVars, feeVars, crashes>>

\* GetPools writes the symbols of the tokens it finds into the pools it returns, also
\* for the handlers that list pools, which are left out: a walk begins at any time.
GetPools ==
    symbols' = [p \in PoolIds |->
        IF p \in Slice THEN symbols[p] \cup {t \in Ends(p) : Copied(t)} ELSE symbols[p]]

\* A price can be taken over the pool: both coins and the record are found, and
\* 1.0001 to the power of the tick is neither zero nor infinite.
Usable(p) ==
    p <= listed /\ (\A t \in Ends(p) : Copied(t)) /\ stage[p] = "tick"
-----------------------------------------------------------------------------
(* The walk *)

\* f: the price of ETH could not be had, and all prices stay.
CoinbaseFails ==
    /\ wpc = "first"
    /\ wpc' = "idle" /\ started' = TRUE
    /\ UNCHANGED <<tokenVars, poolVars, symbols, prices, walks, queue, visited, route, pos,
                   seen, usable, skip, feeVars, crashes>>

\* f: it is set, and setTokensPriceAsUsd begins.
BeginWalkUnmarked ==
    /\ wpc \in {"first", "idle"} /\ walks < MaxWalks
    /\ wpc' = "walk" /\ walks' = walks + 1
    /\ GetPools /\ seen' = listed
    /\ queue' = RootSeq /\ visited' = {} /\ pos' = 1 /\ route' = <<>>
    /\ prices' = [t \in Tokens |->
          IF t \in Roots THEN [walk |-> walks + 1, hops |-> <<>>] ELSE prices[t]]
    /\ usable' = {p \in Slice : Usable(p)} /\ skip' = lost
    /\ UNCHANGED <<tokenVars, poolVars, started, feeVars, crashes>>
BeginWalk ==
    /\ wpc \in {"first", "idle"} /\ walks < MaxWalks
    /\ wpc' = "walk" /\ walks' = walks + 1
    /\ GetPools /\ seen' = listed
    /\ queue' = RootSeq /\ visited' = Roots /\ pos' = 1 /\ route' = <<>>
    /\ prices' = [t \in Tokens |->
          IF t \in Roots THEN [walk |-> walks + 1, hops |-> <<>>] ELSE prices[t]]
    /\ usable' = {p \in Slice : Usable(p)} /\ skip' = lost
    /\ UNCHANGED <<tokenVars, poolVars, started, feeVars, crashes>>

\* The head of q is t0: pool pos prices its other token unless that was visited.
VisitUnqueued ==
    /\ wpc = "walk" /\ pos <= seen
    /\ pos' = pos + 1
    /\ LET new == {t \in Ends(pos) \ visited :
                   pos \notin skip /\ Usable(pos) /\ Head(queue) \in Ends(pos)} IN
          /\ visited' = visited \cup new
          /\ queue' = queue
          /\ prices' = [t \in Tokens |->
                IF t \in new THEN [walk |-> walks, hops |-> Append(route, pos)] ELSE prices[t]]
    /\ UNCHANGED <<tokenVars, poolVars, symbols, wpc, walks, route, seen, started, usable,
                   skip, feeVars, crashes>>
Visit ==
    /\ wpc = "walk" /\ pos <= seen
    /\ pos' = pos + 1
    /\ LET new == {t \in Ends(pos) \ visited :
                   pos \notin skip /\ Usable(pos) /\ Head(queue) \in Ends(pos)} IN
          /\ visited' = visited \cup new
          /\ queue' = queue \o SetToSeq(new)
          /\ prices' = [t \in Tokens |->
                IF t \in new THEN [walk |-> walks, hops |-> Append(route, pos)] ELSE prices[t]]
    /\ UNCHANGED <<tokenVars, poolVars, symbols, wpc, walks, route, seen, started, usable,
                   skip, feeVars, crashes>>

\* q = q[1:], and the price of the new head is read.
Dequeue ==
    /\ wpc = "walk" /\ pos > seen
    /\ pos' = 1 /\ queue' = Tail(queue)
    /\ IF queue' = <<>>
       THEN wpc' = "idle" /\ started' = TRUE /\ route' = <<>>
       ELSE UNCHANGED <<wpc, started>> /\ route' = prices[Head(queue')].hops
    /\ UNCHANGED <<tokenVars, poolVars, symbols, prices, walks, visited, seen, usable,
                   skip, feeVars, crashes>>
-----------------------------------------------------------------------------
(* Protocol fees *)

\* f: the first round runs in Start, the others every hour.
BeginFeesUnnamed ==
    /\ Up /\ started /\ feeTodo = {} /\ rounds < MaxRounds
    /\ rounds' = rounds + 1
    /\ feeTodo' = Slice
    /\ UNCHANGED <<symbols, tokenVars, poolVars, walkVars, fees, faults, crashes>>
BeginFees ==
    /\ Up /\ started /\ feeTodo = {} /\ rounds < MaxRounds
    /\ rounds' = rounds + 1
    /\ GetPools /\ feeTodo' = Slice
    /\ UNCHANGED <<tokenVars, poolVars, walkVars, fees, faults, crashes>>

\* ProtocolFees of the next pool: the row is replaced, or the call or the statement
\* fails and the round goes on.
FeesOf(p) ==
    /\ p \in feeTodo /\ \A q \in feeTodo : p <= q
    /\ feeTodo' = feeTodo \ {p}
    /\ \/ fees' = [fees EXCEPT ![p] = symbols[p]] /\ UNCHANGED faults
       \/ Failures < MaxFaults /\ faults' = faults + 1 /\ UNCHANGED fees
    /\ UNCHANGED <<tokenVars, poolVars, symbols, walkVars, rounds, crashes>>
-----------------------------------------------------------------------------
(* The process *)

Crash ==
    /\ Up /\ crashes < MaxCrashes
    /\ crashes' = crashes + 1
    /\ wpc' = "down" /\ prices' = NoPrices
    /\ queue' = <<>> /\ visited' = {} /\ route' = <<>> /\ pos' = 1 /\ seen' = 0
    /\ started' = FALSE /\ usable' = {} /\ skip' = {}
    /\ adding' = [t \in Tokens |-> None] /\ changing' = {} /\ overlapped' = {}
    /\ symbols' = [p \in PoolIds |-> {}]
    /\ rounds' = 0 /\ feeTodo' = {} /\ lost' = {}
    /\ coins' = [t \in Tokens |-> None] /\ coinList' = <<>> /\ unread' = {}
    /\ UNCHANGED <<rows, requests, listed, atStart, stage, walks, fees, faults>>

\* getCoins and getPools: a failed query or a row that cannot be scanned is logged,
\* and the process goes on without the rows it did not get.  start makes the records
\* of the pools it has.
Start ==
    /\ wpc = "down"
    /\ wpc' = "first"
    /\ lost' \in SUBSET (1..listed)
    /\ unread' \in SUBSET {t \in Tokens : rows[t] # None}
    /\ atStart' = listed
    /\ coins' = [t \in Tokens |-> IF t \in unread' THEN None ELSE rows[t]]
    /\ coinList' = SetToSeq({t \in Tokens : coins'[t] # None})
    /\ stage' = [p \in PoolIds |->
          IF p \in (1..listed) \ lost' /\ stage[p] = "none" THEN "default" ELSE stage[p]]
    /\ UNCHANGED <<rows, adding, changing, requests, overlapped, listed, symbols, prices,
                   walks, queue, visited, route, pos, seen, started, usable, skip, feeVars,
                   crashes>>
    /\ Failures' <= MaxFaults

Next ==
    \/ \E t \in AskedTokens, f \in Publics : InsertToken(t, f) \/ UpdatePublic(t, f) \/ CopyPublic(t, f)
    \/ \E t \in AskedTokens : CopyToken(t)
    \/ ListPool
    \/ \E p \in PoolIds : Deal(p) \/ FeesOf(p)
    \/ CoinbaseFails \/ BeginWalk \/ Visit \/ Dequeue \/ BeginFees
    \/ Crash \/ Start

Spec == Init /\ [][Next]_vars
-----------------------------------------------------------------------------
(* Answers *)

\* GetTokenUsdPrice; None stands for the 0 of a token without a price.
GetTokenUsdPrice(t) == prices[t]

\* Pairs skips a pool whose coins are not found.
Pairs ==
    SelectSeq([p \in 1..listed |-> p], LAMBDA p : p \in Slice /\ \A t \in Ends(p) : Copied(t))

\* Tickers skips a pool whose record is not found, too.
Tickers == SelectSeq(Pairs, LAMBDA p : stage[p] # "none")

\* GetUsdPrices goes through the slice of all coins.
GetUsdPrices == [i \in DOMAIN coinList |-> <<coinList[i], GetTokenUsdPrice(coinList[i])>>]

\* GetProtocolFees: the rows, with the decimals of the tokens that are known now.
GetProtocolFees ==
    {[pool |-> p, symbols |-> fees[p], decimals |-> {t \in Ends(p) : Copied(t)}] :
        p \in {q \in PoolIds : fees[q] # None}}
-----------------------------------------------------------------------------
(* Properties *)

Flags == Publics \cup {None}
Prices == [walk : 1..MaxWalks, hops : Seq(PoolIds)] \cup {None}

TypeOK ==
    /\ rows \in [Tokens -> Flags] /\ coins \in [Tokens -> Flags] /\ adding \in [Tokens -> Flags]
    /\ IsInjective(coinList) /\ ToSet(coinList) = {t \in Tokens : Copied(t)}
    /\ changing \subseteq Tokens \X Publics /\ overlapped \subseteq Tokens /\ unread \subseteq Tokens
    /\ listed \in InitListed..Len(PoolList) /\ atStart \in 0..listed
    /\ lost \subseteq 1..listed /\ skip \subseteq 1..listed /\ feeTodo \subseteq 1..listed
    /\ stage \in [PoolIds -> {"none", "default", "tick"}]
    /\ \A p \in PoolIds : symbols[p] \subseteq Ends(p) /\ (fees[p] = None \/ fees[p] \subseteq Ends(p))
    /\ prices \in [Tokens -> Prices]
    /\ wpc \in {"down", "first", "walk", "idle"} /\ started \in BOOLEAN
    /\ walks \in 0..MaxWalks /\ rounds \in 0..MaxRounds /\ crashes \in 0..MaxCrashes
    /\ IsInjective(queue) /\ ToSet(queue) \subseteq visited /\ visited \subseteq Tokens
    /\ (wpc = "walk") = (queue # <<>>) /\ route \in Seq(PoolIds)
    /\ seen \in 0..listed /\ pos \in 1..(seen + 1) /\ usable \subseteq PoolIds
    /\ requests \in 0..MaxRequests /\ faults \in Nat

\* A price is the product along one chain of listed pools from a token whose price
\* is given, sETH and the stablecoins have the given price itself, and no price
\* mixes two walks: that of the token before is the same route without the last
\* pool, and only it may already be of the next walk (setTokensPriceAsUsd).
RouteValid ==
    \A t \in Tokens : prices[t] # None =>
        LET hops == prices[t].hops IN
        /\ (hops = <<>>) = (t \in Roots)
        /\ hops # <<>> =>
              /\ t \in Ends(Last(hops)) /\ Last(hops) <= listed
              /\ \E s \in Ends(Last(hops)) \ {t} :
                    /\ prices[s] # None
                    /\ \/ prices[s].walk = prices[t].walk /\ prices[s].hops = Front(hops)
                       \/ prices[s].walk > prices[t].walk

\* After a walk every token is priced that can be reached over usable pools of its
\* slice, along a route with the fewest pools; a price is left from an earlier walk
\* only if its route has a pool that the slice lost, and a pool that can be used is
\* never shown with a new price of one of its tokens only (setTokensPriceAsUsd,
\* addPool, Tickers).  A pool that became usable during the walk may or may not be
\* taken.
Reach(edges, tokens) ==
    tokens \cup UNION {Ends(p) : p \in {q \in edges : Ends(q) \cap tokens # {}}}
Near(edges, n) ==
    LET near[i \in Nat] == IF i = 0 THEN Roots ELSE Reach(edges, near[i-1])
    IN  near[n]
Priced(t) == prices[t] # None /\ prices[t].walk = walks
PricedWithin(n) == {t \in Tokens : Priced(t) /\ Len(prices[t].hops) <= n}
WalkComplete ==
    wpc = "idle" /\ prices[RootSeq[1]] # None =>
        /\ \A t \in Tokens : prices[t] # None =>
              Priced(t) \/ \E i \in DOMAIN prices[t].hops : prices[t].hops[i] \in skip
        /\ \A n \in 0..Cardinality(Tokens) :
              /\ Near(usable, n) \subseteq PricedWithin(n)
              /\ PricedWithin(n) \subseteq Near({p \in PoolIds \ skip : Usable(p)}, n)
        /\ \A i \in DOMAIN Tickers : Tickers[i] \in usable =>
              Cardinality({t \in Ends(Tickers[i]) : Priced(t)}) # 1

\* The flag shown for a token is the one stored, unless the start did not get its row,
\* a request about it is between its two steps, or two of them overlapped (getCoins,
\* AddToken, ChangeTokenPublic).
PublicShown ==
    Up => \A t \in Tokens \ (unread \cup overlapped) : coins[t] = rows[t] \/ Pending(t)

\* A fee is shown with the decimals of every token it names, though the row may be of
\* an earlier run and the tokens are looked up anew: only one whose row the start did
\* not get is shown with none.  A token is listed with its price once
\* (GetProtocolFees, GetUsdPrices).
AnswersAgree ==
    Up => /\ \A fee \in GetProtocolFees : fee.symbols \ unread \subseteq fee.decimals
          /\ \A t \in Tokens : Copied(t) =>
                Cardinality({i \in DOMAIN GetUsdPrices : GetUsdPrices[i][1] = t}) = 1

\* What the API shows of the tokens is what is stored.
ShownIsStored == PublicShown /\ AnswersAgree

\* A symbol the protocol fees of a pool once had is lost with a later row only if the
\* start did not get the token's row, and never by a start that did (RealProtocolFees,
\* GetPools, getCoins).
SymbolsKept ==
    [][\A p \in PoolIds : fees[p] # None => fees[p] \ unread \subseteq fees'[p]]_vars
=============================================================================
