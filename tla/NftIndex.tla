------------------------------ MODULE NftIndex ------------------------------
(***************************************************************************)
(* The index of liquidity tokens: the reader of Transfer events            *)
(* (dealNFTLog), the channel, the consumer goroutine (dealNft) and the     *)
(* tables nft, pool and token (model/nft.go, model/public.go), with        *)
(* restarts of the process.                                                *)
(*                                                                         *)
(* The chain is the sequence of the transfers; the height of an event is   *)
(* its position after the blocks the chain begins with.  The reader is the *)
(* feed LogScan implements.  A pool in the registry is one that AddPool    *)
(* stored; the steps by which a new pool gets its records and its listener *)
(* are not told apart here.                                                *)
(***************************************************************************)
EXTENDS Integers, Sequences, FiniteSetsExt

CONSTANTS
    Tokens,        \* liquidity tokens
    Users,         \* addresses that may own one
    Zero,          \* the zero address; in the table: no row
    Pools,         \* pools the tokens belong to
    PoolOf,        \* the pool of a token
    Coins,         \* tokens the pools exchange
    CoinsOf,       \* the two coins of a pool
    ChanCap,       \* capacity of chNft: 10
    InitHeight,    \* blocks of the chain before the first transfer
    Lookback,      \* blocks below the head where a run starts to read: 400
    Lag,           \* events an answer of the node may be behind
    MaxEvents,     \* bound: length of the chain
    MaxCrashes,    \* bound: number of crashes
    MaxRpcFaults,  \* bound: number of failed calls of the node
    MaxDbFaults    \* bound: number of failed statements

ASSUME NftAssumption ==
    /\ Zero \notin Users
    /\ PoolOf \in [Tokens -> Pools] /\ CoinsOf \in [Pools -> SUBSET Coins]
    /\ ChanCap \in Nat /\ InitHeight \in Nat /\ Lookback \in Nat /\ Lag \in Nat
    /\ MaxEvents \in Nat /\ MaxCrashes \in Nat
    /\ MaxRpcFaults \in Nat /\ MaxDbFaults \in Nat

VARIABLES
    chain,      \* the transfers: token, from and to
    up,         \* whether the process runs
    next,       \* the reader: the next event to deal with
    ch,         \* chNft, and the message a blocked sender holds
    dpc,        \* the consumer: "recv", "row", "pool" or "coins"
    msg,        \* the consumer: the NftToken it works on
    nft,        \* table nft: the user of a token's row
    pools,      \* table pool
    coins,      \* table token
    crashes, rpcFaults, dbFaults,   \* faults so far
    \* history variables
    runStart,   \* where the reader began in this run
    handled,    \* events whose statement on nft succeeded in some run
    lost,       \* events some run gave up on
    poolLost,   \* pools whose AddPool failed
    coinLost    \* coins addCoin gave up on

readVars == <<next, ch>>
dealVars == <<dpc, msg>>
dbVars == <<nft, pools, coins>>
faultVars == <<crashes, rpcFaults, dbFaults>>
lostVars == <<lost, poolLost, coinLost>>
vars == <<chain, up, readVars, dealVars, dbVars, faultVars, runStart, handled, lostVars>>

\* NftToken: the event, its token, its direction and the user.
Messages == [ev : Nat, token : Tokens, dir : {1, 0, -1}, user : Users]
NoMsg == [ev |-> 0]
-----------------------------------------------------------------------------
(* The chain *)

EventsOf(t, h) == {e \in 1..h : chain[e].token = t}

\* The owner of t after h events; Zero before its mint and after its burn.
OwnerAt(t, h) ==
    IF EventsOf(t, h) = {} THEN Zero ELSE chain[Max(EventsOf(t, h))].to
Owner(t) == OwnerAt(t, Len(chain))

Init ==
    /\ chain = <<>> /\ up = FALSE
    /\ next = 1 /\ ch = <<>> /\ dpc = "recv" /\ msg = NoMsg
    /\ nft = [t \in Tokens |-> Zero] /\ pools = {} /\ coins = {}
    /\ crashes = 0 /\ rpcFaults = 0 /\ dbFaults = 0
    /\ runStart = 1 /\ handled = {} /\ lost = {} /\ poolLost = {} /\ coinLost = {}

\* A token is minted once, transferred by its owner, or burnt by its owner.
Emit ==
    /\ Len(chain) < MaxEvents
    /\ \E t \in Tokens, u \in Users \cup {Zero} :
          /\ IF EventsOf(t, Len(chain)) = {} THEN u # Zero
                                             ELSE Owner(t) # Zero /\ u # Owner(t)
          /\ chain' = Append(chain, [token |-> t, from |-> Owner(t), to |-> u])
    /\ UNCHANGED <<up, readVars, dealVars, dbVars, faultVars, runStart, handled, lostVars>>

\* A statement fails, a call of the node fails.
DbFault == dbFaults < MaxDbFaults /\ dbFaults' = dbFaults + 1
RpcFault == rpcFaults < MaxRpcFaults /\ rpcFaults' = rpcFaults + 1
-----------------------------------------------------------------------------
(* The process *)

\* fromHeight -= 400: an event below it is not read.  On a chain that is shorter the
\* unsigned number wraps, and no event is ever above it.
BeyondChain == MaxEvents + 1
StartFrom ==
    CASE InitHeight + Len(chain) < Lookback -> BeyondChain
      [] Len(chain) > Lookback -> Len(chain) - Lookback
      [] OTHER -> 1

\* startNft; the tables survive, and getPools and getCoins load them.  What the two
\* fail to read is in the table all the same: dealNft then looks for a pool or a coin
\* in vain, and its insert meets the row, which is where it would have got to.
Start ==
    /\ ~up
    /\ up' = TRUE
    /\ next' = StartFrom
    /\ runStart' = StartFrom
    /\ ch' = <<>> /\ dpc' = "recv" /\ msg' = NoMsg
    /\ UNCHANGED <<chain, dbVars, faultVars, handled, lostVars>>

Crash ==
    /\ up
    /\ crashes < MaxCrashes
    /\ up' = FALSE
    /\ crashes' = crashes + 1
    /\ UNCHANGED <<chain, readVars, dealVars, dbVars, rpcFaults, dbFaults,
                   runStart, handled, lostVars>>
-----------------------------------------------------------------------------
(* The reader, dealNFTLog *)

\* (A name that extends the name of the definition below it is that definition
\* with a plausible bug; the specification never uses it.)
NftTokenFrom(e) ==
    LET c == chain[e] IN
    [ev |-> e, token |-> c.token,
     dir |-> IF c.from = Zero THEN 1 ELSE IF c.to = Zero THEN -1 ELSE 0,
     user |-> IF c.from = Zero THEN c.to ELSE c.from]
NftTokenTo(e) ==
    LET c == chain[e] IN
    [ev |-> e, token |-> c.token,
     dir |-> IF c.from = Zero THEN 1 ELSE IF c.to = Zero THEN -1 ELSE 0,
     user |-> c.to]
NftToken(e) ==
    LET c == chain[e] IN
    [ev |-> e, token |-> c.token,
     dir |-> IF c.from = Zero THEN 1 ELSE IF c.to = Zero THEN -1 ELSE 0,
     user |-> IF c.to = Zero THEN c.from ELSE c.to]

\* Positions answers for a token that exists at the height the node is at.
DealLogDrops ==
    /\ up
    /\ next <= Len(chain)
    /\ ch' = IF Len(ch) < ChanCap THEN Append(ch, NftToken(next)) ELSE ch
    /\ next' = next + 1
    /\ UNCHANGED <<chain, up, dealVars, dbVars, faultVars, runStart, handled, lostVars>>
DealLog ==
    /\ up
    /\ next <= Len(chain)
    /\ Len(ch) <= ChanCap
    /\ \E h \in {n \in 0..Len(chain) : n >= Len(chain) - Lag} :
          /\ OwnerAt(chain[next].token, h) # Zero
          /\ ch' = Append(ch, NftToken(next))
    /\ next' = next + 1
    /\ UNCHANGED <<chain, up, dealVars, dbVars, faultVars, runStart, handled, lostVars>>

\* Positions fails: the event is reported and dropped.
DropLog ==
    /\ up
    /\ next <= Len(chain)
    /\ \/ /\ \E h \in {n \in 0..Len(chain) : n >= Len(chain) - Lag} :
                OwnerAt(chain[next].token, h) = Zero
          /\ UNCHANGED rpcFaults
       \/ RpcFault
    /\ lost' = lost \cup {next}
    /\ next' = next + 1
    /\ UNCHANGED <<chain, up, ch, dealVars, dbVars, crashes, dbFaults, runStart,
                   handled, poolLost, coinLost>>

\* A poll of scanNft that finds no new block.
PollAgain ==
    /\ up
    /\ next > Len(chain)
    /\ UNCHANGED vars
-----------------------------------------------------------------------------
(* The consumer, dealNft *)

\* The first thing it does with a message: a mint concerns the pool first.
FirstStepRow(m) == "row"
FirstStep(m) == IF m.dir = 1 THEN "pool" ELSE "row"

Receive ==
    /\ up /\ dpc = "recv" /\ ch # <<>>
    /\ msg' = Head(ch)
    /\ dpc' = FirstStep(msg')
    /\ ch' = Tail(ch)
    /\ UNCHANGED <<chain, up, next, dbVars, faultVars, runStart, handled, lostVars>>

\* A pool that is not known by its tokens and fee is added; when that fails the
\* token is stored all the same.
ListPool ==
    /\ up /\ dpc = "pool"
    /\ LET p == PoolOf[msg.token] IN
       \/ /\ pools' = pools \cup {p}
          /\ UNCHANGED <<dbFaults, poolLost>>
       \/ /\ p \notin pools /\ DbFault
          /\ poolLost' = poolLost \cup {p}
          /\ UNCHANGED pools
    /\ dpc' = "row"
    /\ UNCHANGED <<chain, up, readVars, msg, nft, coins, crashes, rpcFaults,
                   runStart, handled, lost, coinLost>>

\* What the statement of m leaves in the table: StoreNftToken ignores a duplicate,
\* TransferNftToOther updates a row that may not exist, DeleteNftToken deletes.
TableAfter(m) ==
    LET row == nft[m.token] IN
    [nft EXCEPT ![m.token] =
        CASE m.dir = 1  -> IF row = Zero THEN m.user ELSE row
          [] m.dir = 0  -> IF row = Zero THEN Zero ELSE m.user
          [] m.dir = -1 -> Zero]

\* After the statement a mint goes on with the coins.
LastStepNew(m) == IF m.dir = 1 /\ nft[m.token] = Zero THEN "coins" ELSE "recv"
LastStep(m) == IF m.dir = 1 THEN "coins" ELSE "recv"

StoreRow ==
    /\ up /\ dpc = "row"
    /\ \/ /\ nft' = TableAfter(msg)
          /\ handled' = handled \cup {msg.ev}
          /\ UNCHANGED <<dbFaults, lost>>
       \/ /\ DbFault
          /\ lost' = lost \cup {msg.ev}
          /\ UNCHANGED <<nft, handled>>
    /\ dpc' = LastStep(msg)
    /\ msg' = IF dpc' = "recv" THEN NoMsg ELSE msg
    /\ UNCHANGED <<chain, up, readVars, pools, coins, crashes, rpcFaults, runStart,
                   poolLost, coinLost>>

\* addCoin for both coins of the pool; an unknown one is left out when its
\* decimals or symbol cannot be read or the insert fails.
AddCoins ==
    /\ up /\ dpc = "coins"
    /\ \E failed \in SUBSET (CoinsOf[PoolOf[msg.token]] \ coins) :
          /\ \/ failed = {} /\ UNCHANGED <<rpcFaults, dbFaults>>
             \/ failed # {} /\ RpcFault /\ UNCHANGED dbFaults
             \/ failed # {} /\ DbFault /\ UNCHANGED rpcFaults
          /\ coins' = coins \cup (CoinsOf[PoolOf[msg.token]] \ failed)
          /\ coinLost' = coinLost \cup failed
    /\ dpc' = "recv" /\ msg' = NoMsg
    /\ UNCHANGED <<chain, up, readVars, nft, pools, crashes, runStart,
                   handled, lost, poolLost>>
-----------------------------------------------------------------------------
Next ==
    \/ Emit \/ Start \/ Crash
    \/ DealLog \/ DropLog \/ PollAgain
    \/ Receive \/ ListPool \/ StoreRow \/ AddCoins

Spec == Init /\ [][Next]_vars
-----------------------------------------------------------------------------
(* Properties *)

TypeOK ==
    /\ chain \in Seq([token : Tokens, from : Users \cup {Zero}, to : Users \cup {Zero}])
    /\ up \in BOOLEAN
    /\ next \in Nat \ {0} /\ ch \in Seq(Messages)
    /\ dpc \in {"recv", "row", "pool", "coins"}
    /\ IF dpc = "recv" THEN msg = NoMsg ELSE msg \in Messages
    /\ nft \in [Tokens -> Users \cup {Zero}]
    /\ pools \subseteq Pools /\ coins \subseteq Coins
    /\ crashes \in 0..MaxCrashes /\ rpcFaults \in 0..MaxRpcFaults
    /\ dbFaults \in 0..MaxDbFaults
    /\ runStart \in Nat \ {0} /\ handled \subseteq Nat /\ lost \subseteq Nat
    /\ poolLost \subseteq Pools /\ coinLost \subseteq Coins

\* This run has read the chain to its end and handled everything it read.
Quiet == up /\ next > Len(chain) /\ ch = <<>> /\ dpc = "recv"

\* The token exists, and the statements of its mint and of its last transfer
\* have succeeded.
Indexed(t) ==
    LET es == EventsOf(t, Len(chain)) IN
    Owner(t) # Zero /\ Min(es) \in handled /\ Max(es) \in handled

\* GetNftTokens: what the API shows of a user.
GetNftTokens(u) == {t \in Tokens : nft[t] = u}

\* The table names the owner of a token that was indexed, and nobody else, although a
\* restart applies old transfers again: the ones it replays end with the last one.  (No
\* event of the token was given up; and if the last one is older than this run,
\* only one restart has happened: a run that dies within its replay, followed by
\* a long outage, leaves an old owner behind.)
OwnerFollowsChain ==
    Quiet => \A t \in Tokens :
        LET es == EventsOf(t, Len(chain)) IN
        Indexed(t) /\ es \cap lost = {} /\ (Max(es) >= runStart \/ crashes <= 1)
            => \A u \in Users : t \in GetNftTokens(u) <=> u = Owner(t)

\* A token in the table belongs to a listed pool, whatever step the process died
\* at: dealNft adds the pool first and a restart does not undo it.
PoolOfRowListed ==
    \A t \in Tokens : nft[t] # Zero => PoolOf[t] \in pools \cup poolLost

\* Once a run has read the mint of a token and is done with it, the coins of its
\* pool are known, even when an earlier run stored the row and died before it
\* added them: a duplicate row is no reason to stop.
CoinsOfRowKnown ==
    Quiet => \A e \in runStart..Len(chain) :
        chain[e].from = Zero /\ e \notin lost =>
            CoinsOf[PoolOf[chain[e].token]] \subseteq coins \cup coinLost

\* Between the node and the table no transfer gets lost, whatever the capacity of
\* the channel: what this run has read has had its statement, is on its way, or
\* was given up with a report (dealNFTLog, chNft, dealNft).
TransfersAccounted ==
    up => \A e \in runStart..(next - 1) :
        \/ e \in handled \cup lost
        \/ \E i \in DOMAIN ch : ch[i].ev = e
        \/ dpc # "recv" /\ msg.ev = e
=============================================================================
