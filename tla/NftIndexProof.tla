---------------------------- MODULE NftIndexProof ----------------------------
(***************************************************************************)
(* Proofs about the index of liquidity tokens, for every set of tokens,    *)
(* users, pools and coins, every capacity, lookback, lag and bound.        *)
(***************************************************************************)
EXTENDS NftIndex, WellFoundedInduction, TLAPS

\* The greatest of some numbers up to n is one of them.
LEMMA MaxIn ==
    ASSUME NEW n \in Nat, NEW S \in SUBSET (1..n), S # {}
    PROVE  Max(S) \in S /\ \A y \in S : Max(S) >= y
<1> DEFINE Gaps == {n - x : x \in S}
<1>1. Gaps \subseteq Nat /\ Gaps # {}
  <2>1. \A x \in S : x \in Int /\ 1 <= x /\ x <= n
    OBVIOUS
  <2>2. \A x \in S : n - x \in Nat
    BY <2>1
  <2>3. PICK x \in S : TRUE
    OBVIOUS
  <2>4. n - x \in Gaps
    OBVIOUS
  <2>5. QED
    BY <2>2, <2>4
<1>2. PICK g \in Gaps : \A h \in Gaps : ~ (<<h, g>> \in OpToRel(<, Nat))
  BY <1>1, NatLessThanWellFounded, WFMin
<1>3. ASSUME NEW h \in Gaps PROVE g <= h
  <2>1. g \in Nat /\ h \in Nat
    BY <1>1
  <2>2. <<h, g>> \notin {ss \in Nat \X Nat : ss[1] < ss[2]}
    BY <1>2 DEF OpToRel
  <2>3. ~ (h < g)
    BY <2>1, <2>2
  <2>4. QED
    BY <2>1, <2>3
<1>4. PICK x \in S : g = n - x
  OBVIOUS
<1>5. \A y \in S : x >= y
  <2>1. TAKE y \in S
  <2>2. n - y \in Gaps
    OBVIOUS
  <2>3. n - x <= n - y
    BY <1>3, <1>4, <2>2
  <2>4. x \in Int /\ y \in Int
    OBVIOUS
  <2>5. QED
    BY <2>3, <2>4
<1>6. QED
  BY <1>4, <1>5 DEF Max
-----------------------------------------------------------------------------
(* The chain *)

\* A transfer changes the owner.
ChainMoves == \A e \in DOMAIN chain : chain[e].from # chain[e].to

LEMMA ElementIn ==
    ASSUME NEW C, NEW s \in Seq(C), NEW e \in DOMAIN s
    PROVE  s[e] \in C /\ e \in Nat
OBVIOUS

\* The owner of a token is a user, or it has none.
LEMMA OwnerType ==
    ASSUME TypeOK, NEW t \in Tokens, NEW h \in 0..Len(chain)
    PROVE  OwnerAt(t, h) \in Users \cup {Zero}
<1> DEFINE C == [token : Tokens, from : Users \cup {Zero}, to : Users \cup {Zero}]
<1>1. chain \in Seq(C) /\ Len(chain) \in Nat
  BY DEF TypeOK
<1>2. CASE EventsOf(t, h) = {}
  BY <1>2 DEF OwnerAt
<1>3. CASE EventsOf(t, h) # {}
  <2>1. EventsOf(t, h) \in SUBSET (1..h) /\ h \in Nat
    BY <1>1 DEF EventsOf
  <2>2. Max(EventsOf(t, h)) \in 1..h
    BY <1>3, <2>1, MaxIn
  <2>3. Max(EventsOf(t, h)) \in DOMAIN chain
    BY <1>1, <2>2
  <2>4. chain[Max(EventsOf(t, h))] \in C
    BY <1>1, <2>3, ElementIn
  <2>5. QED
    BY <1>3, <2>4 DEF OwnerAt
<1>4. QED
  BY <1>2, <1>3

\* What dealNFTLog sends for an event is complete: the user is the one who gets
\* the token or, when it is burnt, gave it away.
LEMMA NftTokenType ==
    ASSUME TypeOK, ChainMoves, NEW e \in DOMAIN chain
    PROVE  NftToken(e) \in Messages
<1>1. /\ chain[e] \in [token : Tokens, from : Users \cup {Zero}, to : Users \cup {Zero}]
      /\ e \in Nat
  BY ElementIn DEF TypeOK
<1>2. chain[e].token \in Tokens /\ chain[e].from \in Users \cup {Zero}
      /\ chain[e].to \in Users \cup {Zero}
  BY <1>1
<1>3. chain[e].from # chain[e].to
  BY DEF ChainMoves
<1>4. (IF chain[e].to = Zero THEN chain[e].from ELSE chain[e].to) \in Users
  BY <1>2, <1>3
<1>5. QED
  BY <1>1, <1>2, <1>4 DEF NftToken, Messages
-----------------------------------------------------------------------------
(* The invariant *)

\* The owner the next transfer starts from is the one the chain has: what Emit
\* appends is a transfer that changes the owner.
LEMMA EmitMoves ==
    ASSUME TypeOK, ChainMoves, Emit
    PROVE  /\ chain' \in Seq([token : Tokens, from : Users \cup {Zero},
                                            to : Users \cup {Zero}])
           /\ ChainMoves'
<1>1. chain \in Seq([token : Tokens, from : Users \cup {Zero}, to : Users \cup {Zero}])
      /\ Len(chain) \in 0..Len(chain)
  BY DEF TypeOK
<1>2. PICK t \in Tokens, u \in Users \cup {Zero} :
          /\ IF EventsOf(t, Len(chain)) = {} THEN u # Zero
                                             ELSE Owner(t) # Zero /\ u # Owner(t)
          /\ chain' = Append(chain, [token |-> t, from |-> Owner(t), to |-> u])
  BY DEF Emit
<1>3. Owner(t) \in Users \cup {Zero}
  BY <1>1, OwnerType DEF Owner
<1>4. u # Owner(t)
  BY <1>2 DEF Owner, OwnerAt
<1>5. chain' \in Seq([token : Tokens, from : Users \cup {Zero}, to : Users \cup {Zero}])
  BY <1>1, <1>2, <1>3
<1>6. ASSUME NEW e \in DOMAIN chain' PROVE chain'[e].from # chain'[e].to
  <2>1. e \in 1..(Len(chain) + 1) /\ Len(chain) \in Nat
    BY <1>1, <1>2, <1>3
  <2>2. CASE e = Len(chain) + 1
    BY <1>1, <1>2, <1>3, <1>4, <2>2
  <2>3. CASE e # Len(chain) + 1
    <3>1. e \in DOMAIN chain /\ chain'[e] = chain[e]
      BY <1>1, <1>2, <1>3, <2>1, <2>3
    <3>2. QED
      BY <3>1 DEF ChainMoves
  <2>4. QED
    BY <2>2, <2>3
<1>7. QED
  BY <1>5, <1>6 DEF ChainMoves

\* Between AddPool and the insert of the token its pool is listed.
PoolBeforeRow ==
    dpc = "row" /\ msg.dir = 1 => PoolOf[msg.token] \in pools \cup poolLost

IInv == TypeOK /\ ChainMoves /\ PoolBeforeRow /\ PoolOfRowListed

LEMMA InitIInv == Init => IInv
<1> SUFFICES ASSUME Init PROVE IInv
  OBVIOUS
<1>1. TypeOK
  <2>1. chain \in Seq([token : Tokens, from : Users \cup {Zero}, to : Users \cup {Zero}])
        /\ ch \in Seq(Messages)
    BY DEF Init
  <2>2. crashes \in 0..MaxCrashes /\ rpcFaults \in 0..MaxRpcFaults
        /\ dbFaults \in 0..MaxDbFaults
    BY NftAssumption DEF Init
  <2>3. nft \in [Tokens -> Users \cup {Zero}]
    BY DEF Init
  <2>4. up \in BOOLEAN
    BY DEF Init
  <2>5. next \in Nat \ {0} /\ runStart \in Nat \ {0}
    BY DEF Init
  <2>6. /\ dpc = "recv" /\ msg = NoMsg
        /\ pools \subseteq Pools /\ coins \subseteq Coins
        /\ handled \subseteq Nat /\ lost \subseteq Nat
        /\ poolLost \subseteq Pools /\ coinLost \subseteq Coins
    BY DEF Init
  <2>7. QED
    BY <2>1, <2>2, <2>3, <2>4, <2>5, <2>6 DEF TypeOK
<1>2. ChainMoves
  BY DEF Init, ChainMoves
<1>3. PoolBeforeRow /\ PoolOfRowListed
  BY DEF Init, PoolBeforeRow, PoolOfRowListed
<1>4. QED
  BY <1>1, <1>2, <1>3 DEF IInv

LEMMA DbFaultType ==
    ASSUME dbFaults \in 0..MaxDbFaults, DbFault \/ UNCHANGED dbFaults
    PROVE  dbFaults' \in 0..MaxDbFaults
BY NftAssumption DEF DbFault

LEMMA RpcFaultType ==
    ASSUME rpcFaults \in 0..MaxRpcFaults, RpcFault \/ UNCHANGED rpcFaults
    PROVE  rpcFaults' \in 0..MaxRpcFaults
BY NftAssumption DEF RpcFault

\* A statement leaves a row only where there was one, or a mint put it.
LEMMA TableAfterType ==
    ASSUME TypeOK, msg \in Messages
    PROVE  TableAfter(msg) \in [Tokens -> Users \cup {Zero}]
<1>1. nft \in [Tokens -> Users \cup {Zero}]
  BY DEF TypeOK
<1>2. msg.token \in Tokens /\ msg.user \in Users /\ msg.dir \in {1, 0, -1}
  BY DEF Messages
<1>3. QED
  BY <1>1, <1>2 DEF TableAfter

LEMMA TableAfterRow ==
    ASSUME TypeOK, msg \in Messages, NEW t \in Tokens, TableAfter(msg)[t] # Zero
    PROVE  nft[t] # Zero \/ (t = msg.token /\ msg.dir = 1)
<1>1. nft \in [Tokens -> Users \cup {Zero}]
  BY DEF TypeOK
<1>2. msg.token \in Tokens /\ msg.dir \in {1, 0, -1}
  BY DEF Messages
<1>3. QED
  BY <1>1, <1>2 DEF TableAfter
-----------------------------------------------------------------------------
\* A run starts on the chain or beyond it.
LEMMA StartsAt == ASSUME Len(chain) \in Nat PROVE StartFrom \in Nat \ {0}
<1>1. MaxEvents \in Nat /\ Lookback \in Nat /\ InitHeight \in Nat
  BY NftAssumption
<1>2. CASE InitHeight + Len(chain) < Lookback
  <2>1. ~(Len(chain) > Lookback)
    BY <1>1, <1>2
  <2>2. StartFrom = MaxEvents + 1
    BY <1>2, <2>1 DEF StartFrom, BeyondChain
  <2>3. QED
    BY <1>1, <2>2
<1>3. CASE ~(InitHeight + Len(chain) < Lookback)
  <2>1. StartFrom = IF Len(chain) > Lookback THEN Len(chain) - Lookback ELSE 1
    BY <1>3 DEF StartFrom
  <2>2. QED
    BY <1>1, <2>1
<1>4. QED
  BY <1>2, <1>3


LEMMA NextIInv == IInv /\ [Next]_vars => IInv'
<1> SUFFICES ASSUME IInv, [Next]_vars PROVE IInv'
  OBVIOUS
<1> USE DEF IInv
<1>1. CASE Emit
  <2>1. chain' \in Seq([token : Tokens, from : Users \cup {Zero}, to : Users \cup {Zero}])
        /\ ChainMoves'
    BY <1>1, EmitMoves
  <2>2. TypeOK'
    BY <1>1, <2>1 DEF Emit, TypeOK, readVars, dealVars, dbVars, faultVars, lostVars
  <2>3. PoolBeforeRow' /\ PoolOfRowListed'
    BY <1>1 DEF Emit, PoolBeforeRow, PoolOfRowListed, dealVars, dbVars, lostVars
  <2>4. QED
    BY <2>1, <2>2, <2>3
<1>2. CASE Start
  <2>1. Len(chain) \in Nat
    BY DEF TypeOK
  <2>2. StartFrom \in Nat \ {0}
    BY <2>1, StartsAt
  <2>3. <<>> \in Seq(Messages)
    OBVIOUS
  <2>4. TypeOK'
    BY <1>2, <2>2, <2>3 DEF Start, TypeOK, dbVars, faultVars, lostVars
  <2>5. ChainMoves' /\ PoolBeforeRow' /\ PoolOfRowListed'
    BY <1>2 DEF Start, ChainMoves, PoolBeforeRow, PoolOfRowListed, dbVars, lostVars
  <2>6. QED
    BY <2>4, <2>5
<1>3. CASE Crash
  <2>1. crashes' \in 0..MaxCrashes
    BY <1>3, NftAssumption DEF Crash, TypeOK
  <2>2. TypeOK'
    BY <1>3, <2>1 DEF Crash, TypeOK, readVars, dealVars, dbVars, lostVars
  <2>3. ChainMoves' /\ PoolBeforeRow' /\ PoolOfRowListed'
    BY <1>3 DEF Crash, ChainMoves, PoolBeforeRow, PoolOfRowListed, dealVars, dbVars,
                lostVars
  <2>4. QED
    BY <2>2, <2>3
<1>4. CASE DealLog
  <2>1. next \in DOMAIN chain
    BY <1>4 DEF DealLog, TypeOK
  <2>2. NftToken(next) \in Messages
    BY <2>1, NftTokenType
  <2>3. ch' \in Seq(Messages) /\ next' \in Nat \ {0}
    BY <1>4, <2>2 DEF DealLog, TypeOK
  <2>4. TypeOK'
    BY <1>4, <2>3 DEF DealLog, TypeOK, dealVars, dbVars, faultVars, lostVars
  <2>5. ChainMoves' /\ PoolBeforeRow' /\ PoolOfRowListed'
    BY <1>4 DEF DealLog, ChainMoves, PoolBeforeRow, PoolOfRowListed, dealVars, dbVars,
                lostVars
  <2>6. QED
    BY <2>4, <2>5
<1>5. CASE DropLog
  <2>1. rpcFaults' \in 0..MaxRpcFaults
    BY <1>5, RpcFaultType DEF DropLog, TypeOK
  <2>2. next' \in Nat \ {0} /\ lost' \subseteq Nat
    BY <1>5 DEF DropLog, TypeOK
  <2>3. TypeOK'
    BY <1>5, <2>1, <2>2 DEF DropLog, TypeOK, dealVars, dbVars
  <2>4. ChainMoves' /\ PoolBeforeRow' /\ PoolOfRowListed'
    BY <1>5 DEF DropLog, ChainMoves, PoolBeforeRow, PoolOfRowListed, dealVars, dbVars
  <2>5. QED
    BY <2>3, <2>4
<1>6. CASE Receive
  <2>1. ch \in Seq(Messages) /\ ch # <<>>
    BY <1>6 DEF Receive, TypeOK
  <2>2. msg' \in Messages /\ ch' \in Seq(Messages)
    BY <1>6, <2>1 DEF Receive
  <2>3. dpc' \in {"row", "pool"} /\ (dpc' = "row" => msg'.dir # 1)
    BY <1>6 DEF Receive, FirstStep
  <2>4. TypeOK'
    BY <1>6, <2>2, <2>3 DEF Receive, TypeOK, dbVars, faultVars, lostVars
  <2>5. PoolBeforeRow'
    BY <2>3 DEF PoolBeforeRow
  <2>6. ChainMoves' /\ PoolOfRowListed'
    BY <1>6 DEF Receive, ChainMoves, PoolOfRowListed, dbVars, lostVars
  <2>7. QED
    BY <2>4, <2>5, <2>6
<1>7. CASE ListPool
  <2>1. msg \in Messages /\ msg.token \in Tokens
    BY <1>7 DEF ListPool, TypeOK, Messages
  <2>2. PoolOf[msg.token] \in Pools
    BY <2>1, NftAssumption
  <2>3. dbFaults' \in 0..MaxDbFaults
    BY <1>7, DbFaultType DEF ListPool, TypeOK
  <2>4. /\ pools' \subseteq Pools /\ poolLost' \subseteq Pools
        /\ pools \subseteq pools' /\ poolLost \subseteq poolLost'
        /\ PoolOf[msg.token] \in pools' \cup poolLost'
    BY <1>7, <2>2 DEF ListPool, TypeOK
  <2>5. TypeOK'
    BY <1>7, <2>1, <2>3, <2>4 DEF ListPool, TypeOK, readVars
  <2>6. PoolBeforeRow' /\ PoolOfRowListed'
    BY <1>7, <2>4 DEF ListPool, PoolBeforeRow, PoolOfRowListed
  <2>7. ChainMoves'
    BY <1>7 DEF ListPool, ChainMoves
  <2>8. QED
    BY <2>5, <2>6, <2>7
<1>8. CASE StoreRow
  <2>1. msg \in Messages /\ msg.ev \in Nat /\ dpc = "row"
    BY <1>8 DEF StoreRow, TypeOK, Messages
  <2>2. dbFaults' \in 0..MaxDbFaults
    BY <1>8, DbFaultType DEF StoreRow, TypeOK
  <2>3. nft' = TableAfter(msg) \/ nft' = nft
    BY <1>8 DEF StoreRow
  <2>4. nft' \in [Tokens -> Users \cup {Zero}]
    BY <2>1, <2>3, TableAfterType DEF TypeOK
  <2>5. handled' \subseteq Nat /\ lost' \subseteq Nat
    BY <1>8, <2>1 DEF StoreRow, TypeOK
  <2>6. dpc' \in {"recv", "coins"} /\ IF dpc' = "recv" THEN msg' = NoMsg ELSE msg' = msg
    BY <1>8 DEF StoreRow, LastStep
  <2>7. TypeOK'
    BY <1>8, <2>1, <2>2, <2>4, <2>5, <2>6 DEF StoreRow, TypeOK, readVars
  <2>8. PoolBeforeRow'
    BY <2>6 DEF PoolBeforeRow
  <2>9. ASSUME NEW t \in Tokens, nft'[t] # Zero
        PROVE  PoolOf[t] \in pools' \cup poolLost'
    <3>1. pools' = pools /\ poolLost' = poolLost
      BY <1>8 DEF StoreRow
    <3>2. nft[t] # Zero \/ (t = msg.token /\ msg.dir = 1)
      BY <2>1, <2>3, <2>9, TableAfterRow
    <3>3. QED
      BY <2>1, <3>1, <3>2 DEF PoolBeforeRow, PoolOfRowListed
  <2>10. ChainMoves' /\ PoolOfRowListed'
    BY <1>8, <2>9 DEF StoreRow, ChainMoves, PoolOfRowListed
  <2>11. QED
    BY <2>7, <2>8, <2>10
<1>9. CASE AddCoins
  <2>1. msg \in Messages /\ msg.token \in Tokens
    BY <1>9 DEF AddCoins, TypeOK, Messages
  <2>2. CoinsOf[PoolOf[msg.token]] \subseteq Coins
    BY <2>1, NftAssumption
  <2>3. rpcFaults' \in 0..MaxRpcFaults /\ dbFaults' \in 0..MaxDbFaults
    BY <1>9, RpcFaultType, DbFaultType DEF AddCoins, TypeOK
  <2>4. coins' \subseteq Coins /\ coinLost' \subseteq Coins
    BY <1>9, <2>2 DEF AddCoins, TypeOK
  <2>5. TypeOK'
    BY <1>9, <2>3, <2>4 DEF AddCoins, TypeOK, readVars
  <2>6. ChainMoves' /\ PoolBeforeRow' /\ PoolOfRowListed'
    BY <1>9 DEF AddCoins, ChainMoves, PoolBeforeRow, PoolOfRowListed
  <2>7. QED
    BY <2>5, <2>6
<1>10. CASE UNCHANGED vars
  <2>1. TypeOK' /\ ChainMoves'
    BY <1>10 DEF vars, TypeOK, ChainMoves, readVars, dealVars, dbVars, faultVars, lostVars
  <2>2. PoolBeforeRow' /\ PoolOfRowListed'
    BY <1>10 DEF vars, PoolBeforeRow, PoolOfRowListed, dealVars, dbVars, lostVars
  <2>3. QED
    BY <2>1, <2>2
<1>11. PollAgain => UNCHANGED vars
  BY DEF PollAgain
<1>12. QED
  BY <1>1, <1>2, <1>3, <1>4, <1>5, <1>6, <1>7, <1>8, <1>9, <1>10, <1>11 DEF Next

LEMMA Invariant == Spec => []IInv
BY InitIInv, NextIInv, PTL DEF Spec

\* Every value the index computes is what its type says: what the reader sends is
\* complete, what the statements leave is a table.
THEOREM TypeCorrect == Spec => []TypeOK
BY Invariant, PTL DEF IInv

\* A row of the table nft belongs to a listed pool (or one AddPool refused),
\* whatever step a process died at, for any capacity of the channel.
THEOREM RowsHavePools == Spec => []PoolOfRowListed
BY Invariant, PTL DEF IInv
-----------------------------------------------------------------------------
(* No transfer gets lost.  The step after the statement forgets the message,   *)
(* which is right because its statement is behind it.                          *)

StatementBehind == dpc = "coins" => msg.ev \in handled \cup lost

Accounted(e) ==
    \/ e \in handled \cup lost
    \/ \E i \in DOMAIN ch : ch[i].ev = e
    \/ dpc # "recv" /\ msg.ev = e

\* A step that leaves the reader and the channel alone, and the consumer's message,
\* and takes back no statement, keeps what was where.
LEMMA AccountedFrame ==
    ASSUME TransfersAccounted, up' => up,
           UNCHANGED <<runStart, next, ch>>,
           handled \subseteq handled', lost \subseteq lost',
           dpc # "recv" => \/ dpc' # "recv" /\ msg' = msg
                           \/ msg.ev \in handled' \cup lost'
    PROVE  TransfersAccounted'
BY DEF TransfersAccounted

LEMMA DealLogAccounted == IInv /\ TransfersAccounted /\ DealLog => TransfersAccounted'
<1> SUFFICES ASSUME IInv, TransfersAccounted, DealLog, NEW e \in runStart..next
             PROVE  Accounted(e)'
  BY DEF TransfersAccounted, DealLog, Accounted, IInv, TypeOK
<1>1. ch' = Append(ch, NftToken(next)) /\ next \in DOMAIN chain
  BY DEF DealLog, IInv, TypeOK
<1>2. NftToken(next) \in Messages /\ ch \in Seq(Messages)
  BY <1>1, NftTokenType DEF IInv, TypeOK
<1>3. /\ DOMAIN ch = 1..Len(ch) /\ Len(ch) \in Nat
      /\ DOMAIN ch' = 1..(Len(ch) + 1)
      /\ \A i \in DOMAIN ch : ch'[i] = ch[i]
      /\ ch'[Len(ch) + 1] = NftToken(next)
  BY <1>1, <1>2
<1>4. UNCHANGED <<dpc, msg, handled, lost>>
  BY DEF DealLog, dealVars, lostVars
<1>5. CASE e = next
  <2>1. ch'[Len(ch) + 1].ev = e
    BY <1>3, <1>5 DEF NftToken
  <2>2. QED
    BY <1>3, <2>1 DEF Accounted
<1>6. CASE e # next
  <2>1. up /\ runStart \in Nat /\ next \in Nat
    BY DEF DealLog, IInv, TypeOK
  <2>2. e \in runStart..(next - 1)
    BY <1>6, <2>1
  <2>3. Accounted(e)
    BY <2>1, <2>2 DEF TransfersAccounted, Accounted
  <2>4. QED
    BY <1>3, <1>4, <2>3 DEF Accounted
<1>7. QED
  BY <1>5, <1>6

LEMMA DropLogAccounted == IInv /\ TransfersAccounted /\ DropLog => TransfersAccounted'
<1> SUFFICES ASSUME IInv, TransfersAccounted, DropLog, NEW e \in runStart..next
             PROVE  Accounted(e)'
  BY DEF TransfersAccounted, DropLog, Accounted, IInv, TypeOK
<1>1. /\ lost' = lost \cup {next}
      /\ UNCHANGED <<ch, dpc, msg, handled>>
  BY DEF DropLog, dealVars
<1>2. CASE e = next
  BY <1>1, <1>2 DEF Accounted
<1>3. CASE e # next
  <2>1. Accounted(e)
    BY <1>3 DEF TransfersAccounted, DropLog, Accounted, IInv, TypeOK
  <2>2. QED
    BY <1>1, <2>1 DEF Accounted
<1>4. QED
  BY <1>2, <1>3

LEMMA ReceiveAccounted == IInv /\ TransfersAccounted /\ Receive => TransfersAccounted'
<1> SUFFICES ASSUME IInv, TransfersAccounted, Receive,
                    NEW e \in runStart..(next - 1)
             PROVE  Accounted(e)'
  BY DEF TransfersAccounted, Receive, Accounted
<1>1. /\ up /\ dpc = "recv" /\ ch # <<>> /\ ch' = Tail(ch) /\ msg' = Head(ch)
      /\ dpc' # "recv"
      /\ UNCHANGED <<handled, lost>>
  BY DEF Receive, FirstStep, lostVars
<1>2. ch \in Seq(Messages)
  BY DEF IInv, TypeOK
<1>3. /\ DOMAIN ch = 1..Len(ch) /\ Len(ch) \in Nat \ {0}
      /\ DOMAIN ch' = 1..(Len(ch) - 1)
      /\ \A i \in 2..Len(ch) : ch'[i - 1] = ch[i]
      /\ msg' = ch[1]
  BY <1>1, <1>2
<1>4. Accounted(e)
  BY <1>1 DEF TransfersAccounted, Accounted
<1>5. ASSUME NEW i \in DOMAIN ch, ch[i].ev = e PROVE Accounted(e)'
  <2>1. CASE i = 1
    BY <1>1, <1>3, <1>5, <2>1 DEF Accounted
  <2>2. CASE i # 1
    <3>1. i - 1 \in DOMAIN ch' /\ ch'[i - 1].ev = e
      BY <1>3, <1>5, <2>2
    <3>2. QED
      BY <3>1 DEF Accounted
  <2>3. QED
    BY <2>1, <2>2
<1>6. QED
  BY <1>1, <1>4, <1>5 DEF Accounted

LEMMA NextAccounted ==
    ASSUME IInv, StatementBehind, TransfersAccounted, [Next]_vars
    PROVE  StatementBehind' /\ TransfersAccounted'
<1> USE DEF readVars, dealVars, dbVars, faultVars, lostVars
<1>1. CASE Emit \/ UNCHANGED vars \/ PollAgain
  <2>1. UNCHANGED <<up, next, ch, dpc, msg, runStart, handled, lost>>
    BY <1>1 DEF Emit, PollAgain, vars
  <2>2. QED
    BY <2>1, AccountedFrame DEF StatementBehind
<1>2. CASE Start
  <2>1. next' = runStart' /\ next' \in Nat
    BY <1>2, StartsAt DEF Start, IInv, TypeOK
  <2>2. QED
    BY <1>2, <2>1 DEF Start, StatementBehind, TransfersAccounted
<1>3. CASE Crash
  BY <1>3 DEF Crash, StatementBehind, TransfersAccounted
<1>4. CASE DealLog
  BY <1>4, DealLogAccounted DEF DealLog, StatementBehind
<1>5. CASE DropLog
  BY <1>5, DropLogAccounted DEF DropLog, StatementBehind
<1>6. CASE Receive
  BY <1>6, ReceiveAccounted DEF Receive, FirstStep, StatementBehind
<1>7. CASE ListPool
  BY <1>7, AccountedFrame DEF ListPool, StatementBehind
<1>8. CASE StoreRow
  <2>1. /\ dpc = "row" /\ up' = up
        /\ UNCHANGED <<runStart, next, ch>>
        /\ msg.ev \in handled' \cup lost'
        /\ handled \subseteq handled' /\ lost \subseteq lost'
        /\ dpc' # "recv" => msg' = msg
    BY <1>8 DEF StoreRow
  <2>2. QED
    BY <2>1, AccountedFrame DEF StatementBehind
<1>9. CASE AddCoins
  BY <1>9, AccountedFrame DEF AddCoins, StatementBehind
<1>10. QED
  BY <1>1, <1>2, <1>3, <1>4, <1>5, <1>6, <1>7, <1>8, <1>9 DEF Next

\* What a run has read of the transfers has had its statement, is on its way, or was
\* given up with a report, for any capacity of the channel and any lag of the node.
THEOREM TransfersKept == Spec => []TransfersAccounted
<1>1. Init => StatementBehind /\ TransfersAccounted
  BY DEF Init, StatementBehind, TransfersAccounted
<1>2. IInv /\ StatementBehind /\ TransfersAccounted /\ [Next]_vars
          => (StatementBehind /\ TransfersAccounted)'
  BY NextAccounted
<1>3. QED
  BY <1>1, <1>2, Invariant, PTL DEF Spec
-----------------------------------------------------------------------------
(* What is on its way and what is behind the consumer *)

\* The reader is on the chain, or beyond it and has read nothing, and a message is what the chain says of its event, of
\* this run and in the order of the chain; the consumer's comes first.
Line ==
    /\ next <= Len(chain) + 1 \/ next = runStart
    /\ handled \subseteq DOMAIN chain
    /\ up => /\ runStart <= next
             /\ \A i \in DOMAIN ch : ch[i] = NftToken(ch[i].ev)
                                     /\ runStart <= ch[i].ev /\ ch[i].ev < next
             /\ \A i, j \in DOMAIN ch : i < j => ch[i].ev < ch[j].ev
             /\ dpc # "recv" => /\ msg = NftToken(msg.ev)
                                /\ runStart <= msg.ev /\ msg.ev < next
                                /\ \A i \in DOMAIN ch : msg.ev < ch[i].ev

\* The statement of e on the table nft is still to come.
Pending(e) ==
    \/ \E i \in DOMAIN ch : ch[i].ev = e
    \/ dpc \in {"pool", "row"} /\ msg.ev = e

\* The events this run has read that are before everything still to come.
Behind == {e \in runStart..(next - 1) : \A f \in Nat : Pending(f) => e < f}
InTurn == up => \A e \in runStart..(next - 1) : e \in lost \/ Pending(e) \/ e \in Behind

\* The first transfer of a token is its mint, and only the last can be a burn.
Lives ==
    \A e \in DOMAIN chain :
        /\ chain[e].from = Zero <=>
              \A d \in DOMAIN chain : d < e => chain[d].token # chain[e].token
        /\ \A d \in DOMAIN chain : d < e /\ chain[d].token = chain[e].token
                                      => chain[d].to # Zero

\* The transfers of t; whether none is a burn or was given up, and whether the mint
\* had its statement.
Of(t) == {e \in DOMAIN chain : chain[e].token = t}
Clean(t) == \A e \in Of(t) : chain[e].to # Zero /\ e \notin lost
Minted(t) == \E e \in Of(t) : chain[e].from = Zero /\ e \in handled

\* A token has a row when its mint had its statement.  A row has a user the token was
\* given to, and from the first transfer on that this run applied it is the right one.
RowOf(t) ==
    /\ nft[t] # Zero => \E y \in Of(t) : nft[t] = chain[y].to
    /\ Clean(t) => (nft[t] # Zero <=> Minted(t))
    /\ up /\ Clean(t) /\ Minted(t) =>
          \A x \in Of(t) \cap Behind :
              chain[x].from # Zero /\ (\A y \in Of(t) \cap Behind : y <= x)
                  => nft[t] = chain[x].to

\* What the first run left of a token whose transfers it applied to the last.
RowLeft(t) ==
    crashes <= 1 /\ (up => crashes = 1) /\ Clean(t) /\ Minted(t) =>
        \A x \in Of(t) \cap handled :
            (\A y \in Of(t) : y <= x) /\ (up => x < runStart) => nft[t] = chain[x].to

Rows == \A t \in Tokens : RowOf(t) /\ RowLeft(t)
FirstRun == crashes = 0 => handled \subseteq (IF up THEN Behind ELSE {})

\* The coins of a mint this run is done with.
CoinsInTurn ==
    up => \A e \in runStart..(next - 1) :
        chain[e].from = Zero =>
            \/ e \in lost \/ Pending(e)
            \/ dpc = "coins" /\ msg.ev = e
            \/ CoinsOf[PoolOf[chain[e].token]] \subseteq coins \cup coinLost

LEMMA ChainTyped ==
    ASSUME TypeOK
    PROVE  /\ Len(chain) \in Nat /\ DOMAIN chain = 1..Len(chain)
           /\ \A e \in DOMAIN chain : /\ chain[e].token \in Tokens
                                      /\ chain[e].from \in Users \cup {Zero}
                                      /\ chain[e].to \in Users \cup {Zero}
<1> DEFINE C == [token : Tokens, from : Users \cup {Zero}, to : Users \cup {Zero}]
<1>1. chain \in Seq(C)
  BY DEF TypeOK
<1>2. \A e \in DOMAIN chain : chain[e] \in C
  BY <1>1, ElementIn
<1>3. QED
  BY <1>1, <1>2

\* What is known of the transfers known so far stays when the chain grows.
LEMMA ChainGrows ==
    ASSUME TypeOK, Emit
    PROVE  /\ Len(chain) \in Nat /\ DOMAIN chain = 1..Len(chain)
           /\ Len(chain') = Len(chain) + 1 /\ DOMAIN chain' = 1..(Len(chain) + 1)
           /\ \A e \in DOMAIN chain : e \in DOMAIN chain' /\ chain'[e] = chain[e]
<1>1. chain \in Seq([token : Tokens, from : Users \cup {Zero}, to : Users \cup {Zero}])
  BY DEF TypeOK
<1>2. PICK c : chain' = Append(chain, c)
  BY DEF Emit
<1>3. QED
  BY <1>1, <1>2

\* Of the transfers up to the end of the chain.
LEMMA OfAll == ASSUME TypeOK, NEW t PROVE EventsOf(t, Len(chain)) = Of(t)
BY ChainTyped DEF EventsOf, Of

\* Init and a start have nothing on its way.
LEMMA LineFrame ==
    ASSUME TypeOK, Line, UNCHANGED <<chain, next, ch, runStart, up>>,
           handled' \subseteq DOMAIN chain,
           dpc' # "recv" => dpc # "recv" /\ msg' = msg
    PROVE  Line'
BY DEF Line, NftToken

LEMMA EmitLine == TypeOK /\ Line /\ Emit => Line'
<1> SUFFICES ASSUME TypeOK, Line, Emit PROVE Line'
  OBVIOUS
<1>1. UNCHANGED <<up, next, ch, dpc, msg, runStart, handled>>
  BY DEF Emit, readVars, dealVars
<1>2. /\ Len(chain) \in Nat /\ DOMAIN chain = 1..Len(chain)
      /\ Len(chain') = Len(chain) + 1 /\ DOMAIN chain' = 1..(Len(chain) + 1)
      /\ \A e \in DOMAIN chain : e \in DOMAIN chain' /\ chain'[e] = chain[e]
  BY ChainGrows
<1>3. next \in Nat \ {0} /\ runStart \in Nat \ {0}
  BY DEF TypeOK
<1>4. (next' <= Len(chain') + 1 \/ next' = runStart') /\ handled' \subseteq DOMAIN chain'
  BY <1>1, <1>2, <1>3 DEF Line
<1>5. \A e : runStart <= e /\ e < next /\ e \in Int => e \in DOMAIN chain
  BY <1>2, <1>3 DEF Line
<1>6. \A e : runStart <= e /\ e < next /\ e \in Int => NftToken(e)' = NftToken(e)
  BY <1>2, <1>5 DEF NftToken
<1>7. ASSUME up
      PROVE /\ \A i \in DOMAIN ch : NftToken(ch[i].ev)' = NftToken(ch[i].ev)
            /\ dpc # "recv" => NftToken(msg.ev)' = NftToken(msg.ev)
  <2>1. \A i \in DOMAIN ch : ch[i].ev \in Int
    <3>1. \A i \in DOMAIN ch : ch[i] \in Messages
      BY DEF TypeOK
    <3>2. QED
      BY <3>1 DEF Messages
  <2>2. dpc # "recv" => msg.ev \in Int
    BY DEF TypeOK, Messages
  <2>3. \A i \in DOMAIN ch : \A e : e = ch[i].ev => NftToken(e)' = NftToken(e)
    BY <1>6, <1>7, <2>1 DEF Line
  <2>4. \A e : dpc # "recv" /\ e = msg.ev => NftToken(e)' = NftToken(e)
    BY <1>6, <1>7, <2>2 DEF Line
  <2>5. QED
    BY <1>1, <2>3, <2>4
<1>8. QED
  BY <1>1, <1>4, <1>7 DEF Line

LEMMA DealLogLine == TypeOK /\ Line /\ DealLog => Line'
<1> SUFFICES ASSUME TypeOK, Line, DealLog PROVE Line'
  OBVIOUS
<1>1. /\ up /\ next <= Len(chain) /\ next' = next + 1 /\ ch' = Append(ch, NftToken(next))
      /\ UNCHANGED <<chain, up, dpc, msg, runStart, handled>>
  BY DEF DealLog, dealVars
<1>2. ch \in Seq(Messages) /\ next \in Nat /\ runStart \in Nat /\ Len(chain) \in Nat
  BY ChainTyped DEF TypeOK
<1> DEFINE m == NftToken(next)
<1>3. m.ev = next
  BY DEF NftToken
<1> HIDE DEF m
<1>4. /\ Len(ch) \in Nat /\ DOMAIN ch = 1..Len(ch) /\ DOMAIN ch' = 1..(Len(ch) + 1)
      /\ \A i \in 1..Len(ch) : ch'[i] = ch[i]
      /\ ch'[Len(ch) + 1] = m
  BY <1>1, <1>2 DEF m
<1>5. \A i \in 1..(Len(ch) + 1) : i \in 1..Len(ch) \/ i = Len(ch) + 1
  BY <1>4
<1>6. \A i \in 1..Len(ch) : ch[i] \in Messages
  BY <1>2, <1>4
<1>7. \A i \in 1..Len(ch) : /\ ch[i].ev \in Nat /\ ch[i] = NftToken(ch[i].ev)
                            /\ runStart <= ch[i].ev /\ ch[i].ev < next
  BY <1>1, <1>4, <1>6 DEF Line, Messages
<1>8. \A e : NftToken(e)' = NftToken(e)
  BY <1>1 DEF NftToken
<1>9. runStart <= next
  BY <1>1 DEF Line
<1>10. \A i \in DOMAIN ch' : ch'[i] = NftToken(ch'[i].ev) /\ runStart <= ch'[i].ev /\ ch'[i].ev < next'
  <2>1. \A i \in 1..Len(ch) : ch[i].ev < next + 1
    BY <1>2, <1>7
  <2>2. m = NftToken(m.ev) /\ runStart <= m.ev /\ m.ev < next + 1
    BY <1>2, <1>3, <1>9 DEF m
  <2>3. QED
    BY <1>1, <1>4, <1>5, <1>7, <2>1, <2>2
<1>11. \A i, j \in DOMAIN ch' : i < j => ch'[i].ev < ch'[j].ev
  <2>1. \A i, j \in 1..Len(ch) : i < j => ch[i].ev < ch[j].ev
    BY <1>1, <1>4 DEF Line
  <2>2. \A i \in 1..Len(ch) : ch[i].ev < m.ev
    BY <1>3, <1>7
  <2>3. \A j \in 1..Len(ch) : ~(Len(ch) + 1 < j)
    BY <1>4
  <2>4. ~(Len(ch) + 1 < Len(ch) + 1)
    BY <1>4
  <2>5. QED
    BY <1>4, <1>5, <2>1, <2>2, <2>3, <2>4
<1>12. dpc # "recv" => /\ msg = NftToken(msg.ev) /\ runStart <= msg.ev /\ msg.ev < next /\ msg.ev \in Nat
                       /\ \A i \in 1..Len(ch) : msg.ev < ch[i].ev
  BY <1>1, <1>4 DEF Line, TypeOK, Messages
<1>13. dpc # "recv" => /\ msg.ev < next'
                       /\ \A i \in DOMAIN ch' : msg.ev < ch'[i].ev
  BY <1>1, <1>2, <1>3, <1>4, <1>5, <1>12
<1>14. /\ next' <= Len(chain') + 1 /\ runStart' <= next'
       /\ handled' \subseteq DOMAIN chain'
  BY <1>1, <1>2, <1>9 DEF Line
<1>15. \A i \in DOMAIN ch' : NftToken(ch[i].ev)' = ch'[i]
  BY <1>1, <1>10 DEF NftToken
<1>16. dpc # "recv" => NftToken(msg.ev)' = msg
  BY <1>1, <1>12 DEF NftToken
<1>17. QED
  BY <1>1, <1>10, <1>11, <1>12, <1>13, <1>14, <1>15, <1>16 DEF Line

LEMMA ReceiveLine == TypeOK /\ Line /\ Receive => Line'
<1> SUFFICES ASSUME TypeOK, Line, Receive PROVE Line'
  OBVIOUS
<1>1. /\ up /\ dpc = "recv" /\ ch # <<>> /\ ch' = Tail(ch) /\ msg' = Head(ch)
      /\ UNCHANGED <<chain, up, next, runStart, handled>>
  BY DEF Receive
<1>2. ch \in Seq(Messages)
  BY DEF TypeOK
<1>3. /\ DOMAIN ch = 1..Len(ch) /\ Len(ch) \in Nat \ {0}
      /\ DOMAIN ch' = 1..(Len(ch) - 1)
      /\ \A i \in 1..(Len(ch) - 1) : ch'[i] = ch[i + 1] /\ i + 1 \in DOMAIN ch /\ 1 < i + 1
      /\ msg' = ch[1] /\ 1 \in DOMAIN ch
  BY <1>1, <1>2
<1>4. \A i, j \in 1..(Len(ch) - 1) : i < j => i + 1 < j + 1
  BY <1>3
<1>5. \A i \in DOMAIN ch : ch[i] = NftToken(ch[i].ev) /\ runStart <= ch[i].ev /\ ch[i].ev < next
  BY <1>1 DEF Line
<1>6. \A i, j \in DOMAIN ch : i < j => ch[i].ev < ch[j].ev
  BY <1>1 DEF Line
<1>7. \A e : NftToken(e)' = NftToken(e)
  BY <1>1 DEF NftToken
<1>8. \A i \in DOMAIN ch' : NftToken(ch[i].ev)' = ch'[i] /\ runStart <= ch'[i].ev /\ ch'[i].ev < next
  <2>1. \A i \in DOMAIN ch' : ch'[i] = NftToken(ch'[i].ev) /\ runStart <= ch'[i].ev /\ ch'[i].ev < next
    BY <1>3, <1>5
  <2>2. QED
    BY <1>1, <2>1 DEF NftToken
<1>9. \A i, j \in DOMAIN ch' : i < j => ch'[i].ev < ch'[j].ev
  BY <1>3, <1>4, <1>6
<1>10. /\ msg' = NftToken(msg'.ev) /\ runStart <= msg'.ev /\ msg'.ev < next
       /\ \A i \in DOMAIN ch' : msg'.ev < ch'[i].ev
  BY <1>3, <1>5, <1>6
<1>11. NftToken(msg.ev)' = msg'
  BY <1>1, <1>10 DEF NftToken
<1>12. QED
  BY <1>1, <1>8, <1>9, <1>10, <1>11 DEF Line

LEMMA NextLine == TypeOK /\ Line /\ [Next]_vars => Line'
<1> SUFFICES ASSUME TypeOK, Line, [Next]_vars PROVE Line'
  OBVIOUS
<1> USE DEF readVars, dealVars, dbVars, faultVars, lostVars
<1>1. handled \subseteq DOMAIN chain
  BY DEF Line
<1>2. CASE Start
  <2>1. /\ up' /\ next' = StartFrom /\ runStart' = StartFrom /\ ch' = <<>> /\ dpc' = "recv"
        /\ UNCHANGED <<chain, handled>>
    BY <1>2 DEF Start
  <2>2. StartFrom \in Nat
    BY ChainTyped, StartsAt
  <2>3. QED
    BY <1>1, <2>1, <2>2 DEF Line
<1>3. CASE Crash
  BY <1>3 DEF Crash, Line
<1>4. CASE DropLog
  <2>1. /\ up /\ next <= Len(chain) /\ next' = next + 1
        /\ UNCHANGED <<chain, up, ch, dpc, msg, runStart, handled>>
    BY <1>4 DEF DropLog
  <2>2. next \in Nat /\ runStart \in Nat /\ Len(chain) \in Nat
    BY ChainTyped DEF TypeOK
  <2>3. \A e : NftToken(e)' = NftToken(e)
    BY <2>1 DEF NftToken
  <2>4. \A e \in Nat : e < next => e < next + 1
    BY <2>2
  <2>5. /\ \A i \in DOMAIN ch : ch[i].ev < next + 1
        /\ dpc # "recv" => msg.ev < next + 1
    <3>1. \A i \in DOMAIN ch : ch[i] \in Messages
      BY DEF TypeOK
    <3>2. \A i \in DOMAIN ch : ch[i].ev \in Nat /\ ch[i].ev < next
      BY <2>1, <3>1 DEF Messages, Line
    <3>3. dpc # "recv" => msg.ev \in Nat /\ msg.ev < next
      BY <2>1 DEF Messages, TypeOK, Line
    <3>4. QED
      BY <2>4, <3>2, <3>3
  <2>6. runStart <= next + 1 /\ next + 1 <= Len(chain) + 1
    BY <2>1, <2>2 DEF Line
  <2>7. QED
    BY <2>1, <2>5, <2>6 DEF Line, NftToken
<1>5. CASE ListPool
  BY <1>1, <1>5, LineFrame DEF ListPool
<1>6. CASE StoreRow
  <2>1. /\ dpc = "row" /\ up /\ UNCHANGED <<chain, next, ch, runStart, up>>
        /\ handled' \subseteq handled \cup {msg.ev}
        /\ dpc' # "recv" => msg' = msg
    BY <1>6 DEF StoreRow
  <2>2. msg.ev \in DOMAIN chain
    <3>1. /\ msg.ev \in Nat /\ runStart <= msg.ev /\ msg.ev < next
          /\ next <= Len(chain) + 1 \/ next = runStart
      BY <2>1 DEF Line, TypeOK, Messages
    <3>2. next <= Len(chain) + 1
      BY <3>1 DEF TypeOK
    <3>3. QED
      BY <3>1, <3>2, ChainTyped DEF TypeOK
  <2>3. QED
    BY <1>1, <2>1, <2>2, LineFrame
<1>7. CASE AddCoins
  BY <1>1, <1>7, LineFrame DEF AddCoins
<1>8. CASE PollAgain \/ UNCHANGED vars
  BY <1>1, <1>8, LineFrame DEF PollAgain, vars
<1>9. QED
  BY <1>2, <1>3, <1>4, <1>5, <1>6, <1>7, <1>8, EmitLine, DealLogLine, ReceiveLine DEF Next
-----------------------------------------------------------------------------
(* The consumer works on the transfers in the order of the chain *)

LEMMA PendingRead ==
    ASSUME TypeOK, Line, up, NEW f, Pending(f)
    PROVE  f \in Nat /\ runStart <= f /\ f < next
<1>1. CASE \E i \in DOMAIN ch : ch[i].ev = f
  <2>1. \A i \in DOMAIN ch : ch[i] \in Messages
    BY DEF TypeOK
  <2>2. QED
    BY <1>1, <2>1 DEF Line, Messages
<1>2. CASE dpc \in {"pool", "row"} /\ msg.ev = f
  BY <1>2 DEF Line, TypeOK, Messages
<1>3. QED
  BY <1>1, <1>2 DEF Pending

LEMMA TurnFrame ==
    ASSUME UNCHANGED <<next, ch, runStart>>,
           dpc' \in {"pool", "row"} <=> dpc \in {"pool", "row"},
           dpc \in {"pool", "row"} => msg' = msg
    PROVE  /\ \A f : Pending(f)' <=> Pending(f)
           /\ Behind' = Behind
<1>1. \A f : Pending(f)' <=> Pending(f)
  BY DEF Pending
<1>2. QED
  BY <1>1 DEF Behind

LEMMA DealLogTurn ==
    ASSUME TypeOK, Line, DealLog
    PROVE  /\ \A f : Pending(f)' <=> Pending(f) \/ f = next
           /\ Behind' = Behind
<1>1. /\ up /\ next' = next + 1 /\ ch' = Append(ch, NftToken(next))
      /\ UNCHANGED <<dpc, msg, runStart>>
  BY DEF DealLog, dealVars
<1>2. ch \in Seq(Messages) /\ next \in Nat /\ runStart \in Nat
  BY DEF TypeOK
<1> DEFINE m == NftToken(next)
<1>3. m.ev = next
  BY DEF NftToken
<1> HIDE DEF m
<1>4. /\ Len(ch) \in Nat /\ DOMAIN ch = 1..Len(ch) /\ DOMAIN ch' = 1..(Len(ch) + 1)
      /\ \A i \in 1..Len(ch) : ch'[i] = ch[i] /\ i \in 1..(Len(ch) + 1)
      /\ ch'[Len(ch) + 1] = m /\ Len(ch) + 1 \in 1..(Len(ch) + 1)
  BY <1>1, <1>2 DEF m
<1>5. \A i \in 1..(Len(ch) + 1) : i \in 1..Len(ch) \/ i = Len(ch) + 1
  BY <1>4
<1>6. ASSUME NEW f PROVE Pending(f)' <=> Pending(f) \/ f = next
  <2>1. (\E i \in DOMAIN ch' : ch'[i].ev = f) <=> (\E i \in DOMAIN ch : ch[i].ev = f) \/ f = next
    BY <1>3, <1>4, <1>5
  <2>2. QED
    BY <1>1, <2>1 DEF Pending
<1>7. ASSUME NEW e \in Int
      PROVE  /\ runStart <= e /\ e <= next' - 1 /\ (\A f \in Nat : Pending(f)' => e < f)
                <=> runStart <= e /\ e <= next - 1 /\ (\A f \in Nat : Pending(f) => e < f)
  <2>1. e < next => e <= next' - 1
    BY <1>1, <1>2
  <2>2. e <= next - 1 <=> e < next
    BY <1>2
  <2>3. QED
    BY <1>2, <1>6, <2>1, <2>2
<1>8. Behind' = Behind
  <2>1. Behind' = {e \in runStart..(next' - 1) : \A f \in Nat : Pending(f)' => e < f}
    BY <1>1 DEF Behind
  <2>2. next' - 1 \in Int /\ next - 1 \in Int
    BY <1>1, <1>2
  <2>3. \A e \in Int : /\ e \in runStart..(next' - 1) <=> runStart <= e /\ e <= next' - 1
                      /\ e \in runStart..(next - 1) <=> runStart <= e /\ e <= next - 1
    BY <1>2, <2>2
  <2>4. \A e \in Int : e \in Behind' <=> e \in Behind
    BY <1>7, <2>1, <2>3 DEF Behind
  <2>5. Behind' \subseteq Int /\ Behind \subseteq Int
    BY <1>2, <2>1, <2>2 DEF Behind
  <2>6. QED
    BY <2>4, <2>5
<1>9. QED
  BY <1>6, <1>8

LEMMA DropLogTurn ==
    ASSUME TypeOK, Line, DropLog
    PROVE  /\ \A f : Pending(f)' <=> Pending(f)
           /\ Behind \subseteq Behind' /\ Behind' \subseteq Behind \cup {next}
<1>1. next' = next + 1 /\ UNCHANGED <<ch, dpc, msg, runStart>> /\ next \in Nat /\ runStart \in Nat
  BY DEF DropLog, dealVars, TypeOK
<1>2. \A f : Pending(f)' <=> Pending(f)
  BY <1>1 DEF Pending
<1>3. \A e \in runStart..(next' - 1) : e \in runStart..(next - 1) \/ e = next
  BY <1>1
<1>4. \A e \in runStart..(next - 1) : e \in runStart'..(next' - 1)
  BY <1>1
<1>5. Behind' \subseteq Behind \cup {next}
  BY <1>1, <1>2, <1>3 DEF Behind
<1>6. Behind \subseteq Behind'
  BY <1>2, <1>4 DEF Behind
<1>7. QED
  BY <1>2, <1>5, <1>6

LEMMA ReceiveTurn ==
    ASSUME TypeOK, Line, Receive
    PROVE  /\ \A f : Pending(f)' <=> Pending(f)
           /\ Behind' = Behind
<1>1. /\ dpc = "recv" /\ ch # <<>> /\ ch' = Tail(ch) /\ msg' = Head(ch)
      /\ dpc' \in {"pool", "row"} /\ UNCHANGED <<next, runStart>>
  BY DEF Receive, FirstStep
<1>2. ch \in Seq(Messages)
  BY DEF TypeOK
<1>3. /\ DOMAIN ch = 1..Len(ch) /\ Len(ch) \in Nat \ {0}
      /\ DOMAIN ch' = 1..(Len(ch) - 1)
      /\ \A i \in 1..(Len(ch) - 1) : ch'[i] = ch[i + 1] /\ i + 1 \in DOMAIN ch
      /\ msg' = ch[1] /\ 1 \in DOMAIN ch
  BY <1>1, <1>2
<1>4. \A i \in DOMAIN ch : i = 1 \/ (i - 1 \in DOMAIN ch' /\ ch'[i - 1] = ch[i])
  BY <1>3
<1>5. ASSUME NEW f PROVE Pending(f)' <=> Pending(f)
  <2>1. Pending(f) <=> \E i \in DOMAIN ch : ch[i].ev = f
    BY <1>1 DEF Pending
  <2>2. Pending(f)' <=> msg'.ev = f \/ \E i \in DOMAIN ch' : ch'[i].ev = f
    BY <1>1 DEF Pending
  <2>3. (\E i \in DOMAIN ch : ch[i].ev = f)
           <=> ch[1].ev = f \/ \E i \in DOMAIN ch' : ch'[i].ev = f
    BY <1>3, <1>4
  <2>4. QED
    BY <1>3, <2>1, <2>2, <2>3
<1>6. QED
  BY <1>1, <1>5 DEF Behind

\* The message done with leaves what is on its way; what is behind the consumer now is
\* what was, its event, and events that were given up.
LEMMA StoreRowTurn ==
    ASSUME TypeOK, Line, InTurn, StoreRow
    PROVE  /\ msg.ev \in DOMAIN chain /\ msg = NftToken(msg.ev)
           /\ \A f : Pending(f) <=> Pending(f)' \/ f = msg.ev
           /\ \A e \in Behind : e < msg.ev
           /\ Behind \cup {msg.ev} \subseteq Behind'
           /\ \A e \in Behind' : e \in Behind \cup {msg.ev} \cup lost
<1>1. /\ up /\ dpc = "row" /\ dpc' \notin {"pool", "row"}
      /\ UNCHANGED <<next, ch, runStart>>
  BY DEF StoreRow, LastStep, readVars
<1>2. /\ msg \in Messages /\ next \in Nat /\ runStart \in Nat
      /\ msg.ev \in Nat
  BY <1>1 DEF TypeOK, Messages
<1>3. /\ msg = NftToken(msg.ev) /\ runStart <= msg.ev /\ msg.ev < next
      /\ next <= Len(chain) + 1
      /\ \A i \in DOMAIN ch : msg.ev < ch[i].ev
  <2>1. /\ msg = NftToken(msg.ev) /\ runStart <= msg.ev /\ msg.ev < next
        /\ next <= Len(chain) + 1 \/ next = runStart
        /\ \A i \in DOMAIN ch : msg.ev < ch[i].ev
    BY <1>1 DEF Line
  <2>2. QED
    BY <1>2, <2>1
<1>4. msg.ev \in DOMAIN chain
  BY <1>2, <1>3, ChainTyped DEF TypeOK
<1>5. /\ \A f : Pending(f) <=> Pending(f)' \/ f = msg.ev
      /\ \A f : Pending(f)' => msg.ev < f /\ Pending(f)
  BY <1>1, <1>3 DEF Pending
<1>6. \A e \in Behind : e < msg.ev
  BY <1>2, <1>5 DEF Behind
<1>7. msg.ev \in runStart..(next - 1)
  BY <1>2, <1>3
<1>8. Behind \cup {msg.ev} \subseteq Behind'
  BY <1>1, <1>5, <1>7 DEF Behind
<1>9. ASSUME NEW e \in Behind', e # msg.ev, e \notin Behind PROVE e \in lost
  <2>1. e \in runStart..(next - 1) /\ \A f \in Nat : Pending(f)' => e < f
    BY <1>1, <1>9 DEF Behind
  <2>2. e \in lost \/ Pending(e)
    BY <1>1, <1>9, <2>1 DEF InTurn
  <2>3. ~Pending(e)
    <3>1. Pending(e) => Pending(e)'
      BY <1>5, <1>9
    <3>2. e \in Nat /\ ~(e < e)
      BY <1>2, <2>1
    <3>3. QED
      BY <2>1, <3>1, <3>2
  <2>4. QED
    BY <2>2, <2>3
<1>10. QED
  BY <1>3, <1>4, <1>5, <1>6, <1>8, <1>9

LEMMA NextInTurn == TypeOK /\ Line /\ InTurn /\ [Next]_vars => InTurn'
<1> SUFFICES ASSUME TypeOK, Line, InTurn, [Next]_vars PROVE InTurn'
  OBVIOUS
<1> USE DEF readVars, dealVars, dbVars, faultVars, lostVars
<1>1. CASE Start
  <2>1. next' = runStart' /\ runStart' \in Nat
    BY <1>1, ChainTyped, StartsAt DEF Start
  <2>2. runStart'..(next' - 1) = {}
    <3>1. \A n \in Nat : n..(n - 1) = {}
      OBVIOUS
    <3>2. runStart'..(runStart' - 1) = {}
      BY <2>1, <3>1
    <3>3. QED
      BY <2>1, <3>2
  <2>3. QED
    BY <2>2 DEF InTurn
<1>2. CASE Crash
  BY <1>2 DEF Crash, InTurn
<1>3. CASE DealLog
  <2>1. up /\ next' = next + 1 /\ UNCHANGED <<runStart, lost>> /\ next \in Nat /\ runStart \in Nat
    BY <1>3 DEF DealLog, TypeOK
  <2>2. \A e \in runStart..(next' - 1) : e = next \/ e \in runStart..(next - 1)
    BY <2>1
  <2>3. QED
    BY <1>3, <2>1, <2>2, DealLogTurn DEF InTurn
<1>4. CASE DropLog
  <2>1. /\ up /\ next' = next + 1 /\ UNCHANGED runStart /\ next \in Nat /\ runStart \in Nat
        /\ lost' = lost \cup {next}
    BY <1>4 DEF DropLog, TypeOK
  <2>2. \A e \in runStart..(next' - 1) : e = next \/ e \in runStart..(next - 1)
    BY <2>1
  <2>3. QED
    BY <1>4, <2>1, <2>2, DropLogTurn DEF InTurn
<1>5. CASE Receive
  BY <1>5, ReceiveTurn DEF Receive, InTurn
<1>6. CASE StoreRow
  <2>1. UNCHANGED <<up, next, runStart>> /\ lost \subseteq lost'
    BY <1>6 DEF StoreRow
  <2>2. QED
    BY <1>6, <2>1, StoreRowTurn DEF InTurn
<1>7. CASE Emit \/ ListPool \/ AddCoins \/ PollAgain \/ UNCHANGED vars
  <2>1. UNCHANGED <<up, next, ch, runStart, lost>>
    BY <1>7 DEF Emit, ListPool, AddCoins, PollAgain, vars
  <2>2. /\ dpc' \in {"pool", "row"} <=> dpc \in {"pool", "row"}
        /\ dpc \in {"pool", "row"} => msg' = msg
    BY <1>7 DEF Emit, ListPool, AddCoins, PollAgain, vars
  <2>3. QED
    BY <2>1, <2>2, TurnFrame DEF InTurn
<1>8. QED
  BY <1>1, <1>2, <1>3, <1>4, <1>5, <1>6, <1>7 DEF Next
-----------------------------------------------------------------------------
(* The coins of a mint *)

LEMMA NextCoinsInTurn ==
    TypeOK /\ Line /\ CoinsInTurn /\ [Next]_vars => CoinsInTurn'
<1> SUFFICES ASSUME TypeOK, Line, CoinsInTurn, [Next]_vars PROVE CoinsInTurn'
  OBVIOUS
<1> USE DEF readVars, dealVars, dbVars, faultVars, lostVars
<1>0. /\ next \in Nat /\ runStart \in Nat /\ Len(chain) \in Nat
      /\ next <= Len(chain) + 1 \/ next = runStart
      /\ DOMAIN chain = 1..Len(chain) /\ runStart # 0
  BY ChainTyped DEF TypeOK, Line
<1>1. CASE Start
  <2>1. next' = runStart' /\ runStart' \in Nat
    BY <1>1, ChainTyped, StartsAt DEF Start
  <2>2. runStart'..(next' - 1) = {}
    <3>1. \A n \in Nat : n..(n - 1) = {}
      OBVIOUS
    <3>2. runStart'..(runStart' - 1) = {}
      BY <2>1, <3>1
    <3>3. QED
      BY <2>1, <3>2
  <2>3. QED
    BY <2>2 DEF CoinsInTurn
<1>2. CASE Crash
  BY <1>2 DEF Crash, CoinsInTurn
<1>3. CASE DealLog
  <2>1. up /\ next' = next + 1 /\ UNCHANGED <<chain, runStart, dpc, msg, lost, coins, coinLost>>
    BY <1>3 DEF DealLog
  <2>2. \A e \in runStart..(next' - 1) : e = next \/ e \in runStart..(next - 1)
    BY <1>0, <2>1
  <2>3. \A f : Pending(f)' <=> Pending(f) \/ f = next
    BY <1>3, DealLogTurn
  <2>4. QED
    BY <2>1, <2>2, <2>3 DEF CoinsInTurn
<1>4. CASE DropLog
  <2>1. /\ up /\ next' = next + 1 /\ UNCHANGED <<chain, runStart, dpc, msg, coins, coinLost>>
        /\ lost' = lost \cup {next}
    BY <1>4 DEF DropLog
  <2>2. \A e \in runStart..(next' - 1) : e = next \/ e \in runStart..(next - 1)
    BY <1>0, <2>1
  <2>3. \A f : Pending(f)' <=> Pending(f)
    BY <1>4, DropLogTurn
  <2>4. QED
    BY <2>1, <2>2, <2>3 DEF CoinsInTurn
<1>5. CASE Receive
  <2>1. dpc = "recv" /\ UNCHANGED <<chain, up, next, runStart, lost, coins, coinLost>>
    BY <1>5 DEF Receive
  <2>2. \A f : Pending(f)' <=> Pending(f)
    BY <1>5, ReceiveTurn
  <2>3. QED
    BY <2>1, <2>2 DEF CoinsInTurn
<1>6. CASE StoreRow
  <2>1. /\ up /\ dpc = "row" /\ UNCHANGED <<chain, up, next, ch, runStart, coins, coinLost>>
        /\ lost \subseteq lost'
        /\ dpc' = LastStep(msg) /\ msg' = IF dpc' = "recv" THEN NoMsg ELSE msg
    BY <1>6 DEF StoreRow
  <2>2. msg = NftToken(msg.ev) /\ msg.ev \in DOMAIN chain
    <3>1. msg.ev \in Nat /\ runStart <= msg.ev /\ msg.ev < next
      BY <2>1 DEF Line, TypeOK, Messages
    <3>2. QED
      BY <1>0, <2>1, <3>1 DEF Line
  <2>3. chain[msg.ev].from = Zero => dpc' = "coins" /\ msg' = msg
    <3>1. chain[msg.ev].from = Zero => msg.dir = 1
      BY <2>2 DEF NftToken
    <3>2. QED
      BY <2>1, <3>1 DEF LastStep
  <2>4. \A f : Pending(f) => Pending(f)' \/ f = msg.ev
    BY <2>1 DEF Pending
  <2>5. QED
    BY <2>1, <2>3, <2>4 DEF CoinsInTurn
<1>7. CASE AddCoins
  <2>1. /\ up /\ dpc = "coins" /\ dpc' = "recv" /\ UNCHANGED <<chain, up, next, ch, runStart, lost>>
        /\ coins \subseteq coins' /\ coinLost \subseteq coinLost'
        /\ CoinsOf[PoolOf[msg.token]] \subseteq coins' \cup coinLost'
    BY <1>7 DEF AddCoins
  <2>2. msg.token = chain[msg.ev].token
    <3>1. msg = NftToken(msg.ev)
      BY <2>1 DEF Line
    <3>2. QED
      BY <3>1 DEF NftToken
  <2>3. \A f : Pending(f) => Pending(f)'
    BY <2>1 DEF Pending
  <2>4. QED
    BY <2>1, <2>2, <2>3 DEF CoinsInTurn
<1>8. CASE Emit
  <2>1. UNCHANGED <<up, next, ch, dpc, msg, runStart, lost, coins, coinLost>>
    BY <1>8 DEF Emit
  <2>2. \A e \in runStart..(next - 1) : e \in DOMAIN chain /\ chain'[e] = chain[e]
    BY <1>0, <1>8, ChainGrows
  <2>3. \A f : Pending(f)' <=> Pending(f)
    BY <2>1 DEF Pending
  <2>4. QED
    BY <2>1, <2>2, <2>3 DEF CoinsInTurn
<1>9. CASE ListPool \/ PollAgain \/ UNCHANGED vars
  <2>1. UNCHANGED <<chain, up, next, ch, msg, runStart, lost, coins, coinLost>>
        /\ (dpc' = dpc \/ (dpc = "pool" /\ dpc' = "row"))
    BY <1>9 DEF ListPool, PollAgain, vars
  <2>2. \A f : Pending(f)' <=> Pending(f)
    BY <2>1 DEF Pending
  <2>3. QED
    BY <2>1, <2>2 DEF CoinsInTurn
<1>10. QED
  BY <1>1, <1>2, <1>3, <1>4, <1>5, <1>6, <1>7, <1>8, <1>9 DEF Next

LEMMA ReadInOrder == Spec => [](Line /\ InTurn)
<1>1. Init => Line /\ InTurn
  BY DEF Init, Line, InTurn
<1>2. IInv => TypeOK
  BY DEF IInv
<1>3. QED
  BY <1>1, <1>2, Invariant, NextLine, NextInTurn, PTL DEF Spec

\* The coins of a mint that was read and not given up are known once the run is done
\* with it, whatever earlier runs did before they died (dealNft, addCoin).
THEOREM CoinsKnown == Spec => []CoinsOfRowKnown
<1>1. Init => CoinsInTurn
  BY DEF Init, CoinsInTurn
<1>2. IInv => TypeOK
  BY DEF IInv
<1>3. TypeOK /\ Line /\ CoinsInTurn => CoinsOfRowKnown
  <2> SUFFICES ASSUME TypeOK, Line, CoinsInTurn, Quiet, NEW e \in runStart..Len(chain),
                      chain[e].from = Zero, e \notin lost
               PROVE  CoinsOf[PoolOf[chain[e].token]] \subseteq coins \cup coinLost
    BY DEF CoinsOfRowKnown
  <2>1. /\ up /\ next > Len(chain) /\ ch = <<>> /\ dpc = "recv"
        /\ next \in Nat /\ runStart \in Nat /\ Len(chain) \in Nat
    BY ChainTyped DEF Quiet, TypeOK
  <2>2. e \in runStart..(next - 1)
    BY <2>1
  <2>3. ~Pending(e)
    BY <2>1 DEF Pending
  <2>4. QED
    BY <2>1, <2>2, <2>3 DEF CoinsInTurn
<1>4. QED
  BY <1>1, <1>2, <1>3, Invariant, ReadInOrder, NextCoinsInTurn, PTL DEF Spec
-----------------------------------------------------------------------------
(* The row of a token *)

LEMMA EmitLives == TypeOK /\ Lives /\ Emit => Lives'
<1> SUFFICES ASSUME TypeOK, Lives, Emit PROVE Lives'
  OBVIOUS
<1> DEFINE n == Len(chain)
<1>1. /\ n \in Nat /\ DOMAIN chain = 1..n /\ DOMAIN chain' = 1..(n + 1)
      /\ \A e \in 1..n : e \in 1..(n + 1) /\ chain'[e] = chain[e]
  BY ChainGrows
<1>2. PICK t \in Tokens, u \in Users \cup {Zero} :
          /\ IF EventsOf(t, n) = {} THEN u # Zero ELSE Owner(t) # Zero /\ u # Owner(t)
          /\ chain' = Append(chain, [token |-> t, from |-> Owner(t), to |-> u])
  BY DEF Emit
<1>3. chain'[n + 1].token = t /\ chain'[n + 1].from = Owner(t)
  BY <1>2 DEF TypeOK
<1>4. EventsOf(t, n) = Of(t) /\ Of(t) \in SUBSET (1..n)
  BY <1>1, OfAll DEF Of
<1> HIDE DEF n
<1>5. Owner(t) = Zero <=> Of(t) = {}
  BY <1>2, <1>4 DEF Owner, OwnerAt, n
<1>6. \A d \in Of(t) : chain[d].to # Zero
  <2> SUFFICES ASSUME NEW d \in Of(t) PROVE chain[d].to # Zero
    OBVIOUS
  <2>1. Max(Of(t)) \in Of(t) /\ d <= Max(Of(t))
    BY <1>1, <1>4, MaxIn
  <2>2. chain[Max(Of(t))].to # Zero
    BY <1>4, <1>5 DEF Owner, OwnerAt, n
  <2>3. d = Max(Of(t)) \/ d < Max(Of(t))
    BY <1>4, <2>1
  <2>4. QED
    BY <2>1, <2>2, <2>3 DEF Of, Lives
<1>7. ASSUME NEW e \in 1..(n + 1)
      PROVE  /\ chain'[e].from = Zero <=>
                   \A d \in 1..(n + 1) : d < e => chain'[d].token # chain'[e].token
             /\ \A d \in 1..(n + 1) : d < e /\ chain'[d].token = chain'[e].token
                                         => chain'[d].to # Zero
  <2>1. \A d \in 1..(n + 1) : d < e => d \in 1..n
    BY <1>1
  <2>2. CASE e \in 1..n
    <3>1. /\ chain[e].from = Zero <=>
                   \A d \in 1..n : d < e => chain[d].token # chain[e].token
          /\ \A d \in 1..n : d < e /\ chain[d].token = chain[e].token => chain[d].to # Zero
      BY <1>1, <2>2 DEF Lives
    <3>2. QED
      BY <1>1, <2>1, <2>2, <3>1
  <2>3. CASE e = n + 1
    <3>1. \A d \in 1..n : d < e
      BY <1>1, <2>3
    <3>2. \A d \in 1..n : d \in Of(t) <=> chain'[d].token = chain'[e].token
      BY <1>1, <1>3, <2>3 DEF Of
    <3>3. Of(t) = {} <=> \A d \in 1..(n + 1) : d < e => chain'[d].token # chain'[e].token
      BY <1>1, <1>4, <2>1, <3>1, <3>2
    <3>4. \A d \in 1..(n + 1) : d < e /\ chain'[d].token = chain'[e].token => chain'[d].to # Zero
      BY <1>1, <1>6, <2>1, <3>2
    <3>5. QED
      BY <1>3, <1>5, <2>3, <3>3, <3>4
  <2>4. QED
    BY <1>1, <2>2, <2>3
<1>8. QED
  BY <1>1, <1>7 DEF Lives

LEMMA NextLives == TypeOK /\ Lives /\ [Next]_vars => Lives'
<1> SUFFICES ASSUME TypeOK, Lives, [Next]_vars PROVE Lives'
  OBVIOUS
<1>1. CASE Emit
  BY <1>1, EmitLives
<1>2. CASE ~Emit
  <2>1. chain' = chain
    BY <1>2 DEF Next, Start, Crash, DealLog, DropLog, PollAgain, Receive, ListPool,
                StoreRow, AddCoins, vars
  <2>2. QED
    BY <2>1 DEF Lives
<1>3. QED
  BY <1>1, <1>2

\* A step that applies nothing to the table: what is behind the consumer is what was,
\* and events that were given up.
LEMMA RowOfFrame ==
    ASSUME NEW t, RowOf(t), UNCHANGED <<chain, nft, handled>>, up' => up, lost \subseteq lost',
           Behind \subseteq Behind', Behind' \subseteq Behind \cup lost'
    PROVE  RowOf(t)'
<1>1. Of(t)' = Of(t) /\ Minted(t)' = Minted(t)
  BY DEF Of, Minted
<1>2. Clean(t)' => Clean(t) /\ Of(t) \cap Behind' = Of(t) \cap Behind
  BY <1>1 DEF Clean
<1>3. QED
  BY <1>1, <1>2 DEF RowOf

LEMMA RowLeftFrame ==
    ASSUME NEW t, RowLeft(t), UNCHANGED <<chain, nft, handled, up, crashes, runStart>>,
           lost \subseteq lost'
    PROVE  RowLeft(t)'
<1>1. Of(t)' = Of(t) /\ Minted(t)' = Minted(t)
  BY DEF Of, Minted
<1>2. Clean(t)' => Clean(t)
  BY <1>1 DEF Clean
<1>3. QED
  BY <1>1, <1>2 DEF RowLeft

\* When the last transfer of a token is behind the consumer its row is right.
LEMMA LastApplied ==
    ASSUME TypeOK, Lives, up, NEW t, RowOf(t), Clean(t), Minted(t),
           NEW x \in Of(t) \cap Behind, \A y \in Of(t) : y <= x
    PROVE  nft[t] = chain[x].to
<1>1. CASE chain[x].from # Zero
  BY <1>1 DEF RowOf
<1>2. CASE chain[x].from = Zero
  <2>1. DOMAIN chain \subseteq Nat
    BY ChainTyped
  <2>2. \A y \in Of(t) : ~(y < x)
    BY <1>2 DEF Lives, Of
  <2>3. \A y \in Of(t) : y = x
    BY <2>1, <2>2 DEF Of
  <2>4. QED
    BY <2>3 DEF RowOf
<1>3. QED
  BY <1>1, <1>2

\* What StoreRow makes of the rows of tokens whose transfers are none a burn.
LEMMA TableRows ==
    ASSUME TypeOK, NEW e \in DOMAIN chain, msg = NftToken(e), msg \in Messages
    PROVE  /\ \A t \in Tokens : t # chain[e].token => TableAfter(msg)[t] = nft[t]
           /\ LET t == chain[e].token IN
              /\ TableAfter(msg)[t] \in {Zero, nft[t], chain[e].to}
              /\ chain[e].to # Zero =>
                    TableAfter(msg)[t] = IF chain[e].from = Zero
                                         THEN IF nft[t] = Zero THEN chain[e].to ELSE nft[t]
                                         ELSE IF nft[t] = Zero THEN Zero ELSE chain[e].to
<1>1. nft \in [Tokens -> Users \cup {Zero}] /\ chain[e].token \in Tokens
  BY ChainTyped DEF TypeOK
<1>2. /\ msg.token = chain[e].token
      /\ msg.dir = IF chain[e].from = Zero THEN 1 ELSE IF chain[e].to = Zero THEN -1 ELSE 0
      /\ msg.user = IF chain[e].to = Zero THEN chain[e].from ELSE chain[e].to
  BY DEF NftToken
<1>3. 1 # 0 /\ 1 # -1 /\ 0 # -1
  OBVIOUS
<1>4. \A t \in Tokens : t # chain[e].token => TableAfter(msg)[t] = nft[t]
  BY <1>1, <1>2 DEF TableAfter
<1>5. TableAfter(msg)[msg.token] =
        CASE msg.dir = 1  -> IF nft[msg.token] = Zero THEN msg.user ELSE nft[msg.token]
          [] msg.dir = 0  -> IF nft[msg.token] = Zero THEN Zero ELSE msg.user
          [] msg.dir = -1 -> Zero
  BY <1>1, <1>2 DEF TableAfter
<1>6. CASE chain[e].from = Zero
  <2>1. msg.dir = 1 /\ msg.user # Zero
    BY <1>2, <1>6, NftAssumption DEF Messages
  <2>2. TableAfter(msg)[msg.token] = IF nft[msg.token] = Zero THEN msg.user ELSE nft[msg.token]
    BY <1>5, <2>1
  <2>3. msg.user = chain[e].to
    BY <1>2, <1>6, <2>1
  <2>4. QED
    BY <1>2, <1>4, <1>6, <2>2, <2>3
<1>7. CASE chain[e].from # Zero /\ chain[e].to = Zero
  <2>1. msg.dir = -1
    BY <1>2, <1>7
  <2>2. TableAfter(msg)[msg.token] = Zero
    BY <1>3, <1>5, <2>1
  <2>3. QED
    BY <1>2, <1>4, <1>7, <2>2
<1>8. CASE chain[e].from # Zero /\ chain[e].to # Zero
  <2>1. msg.dir = 0 /\ msg.user = chain[e].to
    BY <1>2, <1>8
  <2>2. TableAfter(msg)[msg.token] = IF nft[msg.token] = Zero THEN Zero ELSE msg.user
    BY <1>3, <1>5, <2>1
  <2>3. QED
    BY <1>2, <1>4, <1>8, <2>1, <2>2
<1>9. QED
  BY <1>6, <1>7, <1>8

LEMMA StoreRowRows ==
    ASSUME TypeOK, Line, InTurn, Lives, Rows, FirstRun, StoreRow
    PROVE  Rows'
<1>0. PICK e : e = msg.ev
  OBVIOUS
<1>1. /\ up /\ UNCHANGED <<chain, up, runStart, crashes>> /\ lost \subseteq lost'
      /\ \/ nft' = TableAfter(msg) /\ handled' = handled \cup {e}
         \/ nft' = nft /\ handled' = handled /\ e \in lost'
      /\ msg \in Messages
  BY <1>0 DEF StoreRow, TypeOK
<1>2. /\ e \in DOMAIN chain /\ msg = NftToken(e)
      /\ \A b \in Behind : b < e
      /\ Behind \cup {e} \subseteq Behind'
      /\ \A b \in Behind' : b \in Behind \cup {e} \cup lost
  BY <1>0, StoreRowTurn
<1>3. runStart <= e /\ e \in Nat /\ runStart \in Nat
  BY <1>0, <1>1 DEF Line, TypeOK, Messages, StoreRow
<1>4. DOMAIN chain \subseteq Nat
  BY ChainTyped
<1>5. \A t : Of(t)' = Of(t)
  BY <1>1 DEF Of
<1>6. \A t : Clean(t)' => Clean(t) /\ Of(t) \cap Behind' \subseteq (Of(t) \cap Behind) \cup {e}
  BY <1>1, <1>2, <1>5 DEF Clean
\* A token that is not the one of the message.
<1>7. ASSUME NEW t \in Tokens, t # chain[e].token PROVE RowOf(t)' /\ RowLeft(t)'
  <2>1. nft'[t] = nft[t] /\ e \notin Of(t)
    BY <1>1, <1>2, <1>7, TableRows DEF Of
  <2>2. Minted(t)' <=> Minted(t)
    BY <1>1, <1>5, <2>1 DEF Minted
  <2>3. Of(t) \cap handled' = Of(t) \cap handled
    BY <1>1, <2>1
  <2>4. Clean(t)' => Of(t) \cap Behind' = Of(t) \cap Behind
    BY <1>2, <1>6, <2>1
  <2>5. RowOf(t) /\ RowLeft(t)
    BY <1>7 DEF Rows
  <2>6. RowOf(t)'
    BY <1>1, <1>5, <1>6, <2>1, <2>2, <2>4, <2>5 DEF RowOf
  <2>7. RowLeft(t)'
    BY <1>1, <1>5, <1>6, <2>1, <2>2, <2>3, <2>5 DEF RowLeft
  <2>8. QED
    BY <2>6, <2>7
\* The token of the message.
<1>8. ASSUME NEW t \in Tokens, t = chain[e].token PROVE RowOf(t)' /\ RowLeft(t)'
  <2>1. e \in Of(t) /\ RowOf(t) /\ RowLeft(t)
    BY <1>2, <1>8 DEF Of, Rows
  <2>2. CASE nft' = nft /\ handled' = handled /\ e \in lost'
    <3>1. ~Clean(t)'
      BY <1>5, <2>1, <2>2 DEF Clean
    <3>2. QED
      BY <1>1, <1>5, <2>1, <2>2, <3>1 DEF RowOf, RowLeft
  <2>3. CASE nft' = TableAfter(msg) /\ handled' = handled \cup {e}
    <3>1. /\ nft'[t] \in {Zero, nft[t], chain[e].to}
          /\ chain[e].to # Zero =>
                nft'[t] = IF chain[e].from = Zero
                          THEN IF nft[t] = Zero THEN chain[e].to ELSE nft[t]
                          ELSE IF nft[t] = Zero THEN Zero ELSE chain[e].to
      BY <1>1, <1>2, <1>8, <2>3, TableRows
    <3>2. nft'[t] # Zero => \E y \in Of(t) : nft'[t] = chain[y].to
      BY <2>1, <3>1 DEF RowOf
    <3>3. Clean(t)' => Clean(t) /\ chain[e].to # Zero
      BY <1>6, <2>1 DEF Clean
    <3>4. Minted(t)' <=> Minted(t) \/ chain[e].from = Zero
      BY <1>1, <1>5, <2>1, <2>3 DEF Minted
    <3>5. Clean(t)' => (nft'[t] # Zero <=> Minted(t)')
      BY <2>1, <3>1, <3>3, <3>4 DEF RowOf
    <3>6. Clean(t)' /\ Minted(t)' /\ chain[e].from # Zero => nft'[t] = chain[e].to
      BY <2>1, <3>1, <3>3, <3>4 DEF RowOf
    <3>7. ASSUME Clean(t)', Minted(t)',
                 NEW x \in Of(t) \cap Behind', chain[x].from # Zero,
                 \A y \in Of(t) \cap Behind' : y <= x
          PROVE  nft'[t] = chain[x].to
      <4>1. e <= x /\ x \in Of(t) /\ x \in Nat
        BY <1>2, <1>4, <2>1, <3>7 DEF Of
      <4>2. x \in Behind \cup {e}
        BY <1>6, <3>7
      <4>3. x = e
        BY <1>2, <1>3, <4>1, <4>2
      <4>4. QED
        BY <3>6, <3>7, <4>3
    <3>8. RowOf(t)'
      BY <1>1, <1>5, <3>2, <3>5, <3>7 DEF RowOf
    <3>9. RowLeft(t)'
      <4> SUFFICES ASSUME crashes = 1, NEW x \in Of(t), \A y \in Of(t) : y <= x,
                          x < runStart
                   PROVE  FALSE
        BY <1>1, <1>5 DEF RowLeft
      <4>1. e <= x /\ x \in Nat
        BY <1>4, <2>1 DEF Of
      <4>2. QED
        BY <1>3, <4>1
    <3>10. QED
      BY <3>8, <3>9
  <2>4. QED
    BY <1>1, <2>2, <2>3
<1>9. QED
  BY <1>7, <1>8 DEF Rows

LEMMA EmitRows == TypeOK /\ Line /\ Rows /\ Emit => Rows'
<1> SUFFICES ASSUME TypeOK, Line, Rows, Emit, NEW t \in Tokens PROVE RowOf(t)' /\ RowLeft(t)'
  BY DEF Rows
<1>1. UNCHANGED <<up, next, ch, dpc, msg, nft, crashes, runStart, handled, lost>>
  BY DEF Emit, readVars, dealVars, dbVars, faultVars, lostVars
<1>2. /\ Len(chain) \in Nat /\ DOMAIN chain = 1..Len(chain)
      /\ \A e \in DOMAIN chain : e \in DOMAIN chain' /\ chain'[e] = chain[e]
  BY ChainGrows
<1>3. Behind' = Behind
  BY <1>1, TurnFrame
<1>4. handled \subseteq DOMAIN chain /\ Behind \subseteq DOMAIN chain
  <2>1. /\ next \in Nat /\ runStart \in Nat \ {0}
        /\ next <= Len(chain) + 1 \/ next = runStart
    BY DEF TypeOK, Line
  <2>2. \A e \in runStart..(next - 1) : e \in 1..Len(chain)
    BY <1>2, <2>1
  <2>3. QED
    BY <1>2, <2>2 DEF Behind, Line
<1>5. Of(t) \subseteq Of(t)' /\ Of(t) \subseteq DOMAIN chain
  BY <1>2 DEF Of
<1>6. \A e \in DOMAIN chain : e \in Of(t)' => e \in Of(t)
  BY <1>2 DEF Of
<1>7. Clean(t)' => Clean(t)
  BY <1>1, <1>2, <1>5 DEF Clean
<1>8. Minted(t)' <=> Minted(t)
  BY <1>1, <1>2, <1>4, <1>5, <1>6 DEF Minted
<1>9. RowOf(t) /\ RowLeft(t)
  BY DEF Rows
<1>10. RowOf(t)'
  <2>1. nft[t] # Zero => \E y \in Of(t)' : nft[t] = chain'[y].to
    BY <1>2, <1>5, <1>9 DEF RowOf
  <2>2. Of(t)' \cap Behind = Of(t) \cap Behind
    BY <1>4, <1>5, <1>6
  <2>3. \A x \in Of(t) : chain'[x] = chain[x]
    BY <1>2, <1>5
  <2>4. QED
    BY <1>1, <1>3, <1>7, <1>8, <1>9, <2>1, <2>2, <2>3 DEF RowOf
<1>11. RowLeft(t)'
  BY <1>1, <1>2, <1>4, <1>5, <1>6, <1>7, <1>8, <1>9 DEF RowLeft
<1>12. QED
  BY <1>10, <1>11

LEMMA StartRows ==
    ASSUME TypeOK, Rows, FirstRun, Start
    PROVE  Rows' /\ FirstRun'
<1>1. /\ ~up /\ up' /\ next' = runStart' /\ runStart' \in Nat
      /\ UNCHANGED <<chain, nft, crashes, handled, lost>>
  BY ChainTyped, StartsAt DEF Start, dbVars, faultVars, lostVars
<1>2. Behind' = {}
  <2>1. \A n \in Nat : n..(n - 1) = {}
    OBVIOUS
  <2>2. runStart'..(next' - 1) = {}
    BY <1>1, <2>1
  <2>3. QED
    BY <2>2 DEF Behind
<1>3. ASSUME NEW t \in Tokens PROVE RowOf(t)' /\ RowLeft(t)'
  <2>1. Of(t)' = Of(t) /\ (Minted(t)' <=> Minted(t)) /\ (Clean(t)' <=> Clean(t))
    BY <1>1 DEF Of, Minted, Clean
  <2>2. RowOf(t) /\ RowLeft(t)
    BY DEF Rows
  <2>3. QED
    BY <1>1, <1>2, <2>1, <2>2 DEF RowOf, RowLeft
<1>4. QED
  BY <1>1, <1>3 DEF Rows, FirstRun

\* At its end the first run leaves what the tables keep.
LEMMA CrashRows ==
    ASSUME TypeOK, Lives, Rows, FirstRun, Crash
    PROVE  Rows' /\ FirstRun'
<1>1. /\ up /\ ~up' /\ crashes' = crashes + 1 /\ crashes \in Nat
      /\ UNCHANGED <<chain, nft, handled, lost>>
  BY NftAssumption DEF Crash, dbVars, lostVars, TypeOK
<1>2. crashes' # 0 /\ (crashes' <= 1 => crashes = 0)
  BY <1>1
<1>3. ASSUME NEW t \in Tokens PROVE RowOf(t)' /\ RowLeft(t)'
  <2>1. Of(t)' = Of(t) /\ (Minted(t)' <=> Minted(t)) /\ (Clean(t)' <=> Clean(t))
    BY <1>1 DEF Of, Minted, Clean
  <2>2. RowOf(t)
    BY DEF Rows
  <2>3. ASSUME crashes = 0, Clean(t), Minted(t), NEW x \in Of(t) \cap handled,
               \A y \in Of(t) : y <= x
        PROVE  nft[t] = chain[x].to
    <3>1. x \in Of(t) \cap Behind
      BY <1>1, <2>3 DEF FirstRun
    <3>2. QED
      BY <1>1, <2>2, <2>3, <3>1, LastApplied
  <2>4. QED
    BY <1>1, <1>2, <2>1, <2>2, <2>3 DEF RowOf, RowLeft
<1>4. QED
  BY <1>2, <1>3 DEF Rows, FirstRun

LEMMA NextRows ==
    TypeOK /\ Line /\ InTurn /\ Lives /\ Rows /\ FirstRun /\ [Next]_vars => Rows' /\ FirstRun'
<1> SUFFICES ASSUME TypeOK, Line, InTurn, Lives, Rows, FirstRun, [Next]_vars
             PROVE  Rows' /\ FirstRun'
  OBVIOUS
<1> USE DEF readVars, dealVars, dbVars, faultVars, lostVars
<1>1. ASSUME UNCHANGED <<chain, nft, handled, up, crashes, runStart>>, lost \subseteq lost',
             Behind \subseteq Behind', Behind' \subseteq Behind \cup lost'
      PROVE  Rows' /\ FirstRun'
  <2>1. ASSUME NEW t \in Tokens PROVE RowOf(t)' /\ RowLeft(t)'
    BY <1>1, RowOfFrame, RowLeftFrame DEF Rows
  <2>2. QED
    BY <1>1, <2>1 DEF Rows, FirstRun
<1>2. CASE Emit
  <2>1. UNCHANGED <<up, next, ch, dpc, msg, runStart, crashes, handled>>
    BY <1>2 DEF Emit
  <2>2. Behind' = Behind
    BY <2>1, TurnFrame
  <2>3. QED
    BY <1>2, <2>1, <2>2, EmitRows DEF FirstRun
<1>3. CASE DealLog
  BY <1>1, <1>3, DealLogTurn DEF DealLog
<1>4. CASE DropLog
  <2>1. lost' = lost \cup {next} /\ UNCHANGED <<chain, nft, handled, up, crashes, runStart>>
    BY <1>4 DEF DropLog
  <2>2. QED
    BY <1>1, <1>4, <2>1, DropLogTurn
<1>5. CASE Receive
  BY <1>1, <1>5, ReceiveTurn DEF Receive
<1>6. CASE StoreRow
  <2>1. FirstRun'
    BY <1>6, StoreRowTurn DEF StoreRow, FirstRun
  <2>2. QED
    BY <1>6, <2>1, StoreRowRows
<1>7. CASE ListPool \/ AddCoins \/ PollAgain \/ UNCHANGED vars
  <2>1. UNCHANGED <<chain, up, next, ch, nft, handled, crashes, runStart, lost>>
    BY <1>7 DEF ListPool, AddCoins, PollAgain, vars
  <2>2. /\ dpc' \in {"pool", "row"} <=> dpc \in {"pool", "row"}
        /\ dpc \in {"pool", "row"} => msg' = msg
    BY <1>7 DEF ListPool, AddCoins, PollAgain, vars
  <2>3. Behind' = Behind
    BY <2>1, <2>2, TurnFrame
  <2>4. QED
    BY <1>1, <2>1, <2>3
<1>8. QED
  BY <1>2, <1>3, <1>4, <1>5, <1>6, <1>7, StartRows, CrashRows DEF Next

LEMMA MinIn ==
    ASSUME NEW T \in SUBSET Nat, T # {}
    PROVE  Min(T) \in T /\ \A y \in T : Min(T) <= y
<1>1. PICK n \in T : \A m \in T : ~ (<<m, n>> \in OpToRel(<, Nat))
  BY NatLessThanWellFounded, WFMin
<1>2. ASSUME NEW m \in T PROVE n <= m
  <2>1. n \in Nat /\ m \in Nat
    OBVIOUS
  <2>2. <<m, n>> \notin {ss \in Nat \X Nat : ss[1] < ss[2]}
    BY <1>1 DEF OpToRel
  <2>3. ~ (m < n)
    BY <2>1, <2>2
  <2>4. QED
    BY <2>1, <2>3
<1>3. \E x \in T : \A y \in T : x <= y
  BY <1>2
<1>4. QED
  BY <1>3 DEF Min

LEMMA RowsFollow ==
    ASSUME TypeOK, Line, Lives, Rows, FirstRun
    PROVE  OwnerFollowsChain
<1> SUFFICES ASSUME Quiet, NEW t \in Tokens, Indexed(t), Of(t) \cap lost = {},
                    Max(Of(t)) >= runStart \/ crashes <= 1
             PROVE  nft[t] = Owner(t) /\ Owner(t) # Zero
  BY OfAll DEF OwnerFollowsChain, GetNftTokens
<1> DEFINE last == Max(Of(t))
           mint == Min(Of(t))
<1>1. DOMAIN chain = 1..Len(chain) /\ Len(chain) \in Nat /\ runStart \in Nat /\ next \in Nat
  BY ChainTyped DEF TypeOK
<1>2. Owner(t) # Zero /\ mint \in handled /\ last \in handled
  BY OfAll DEF Indexed
<1>3. Of(t) \in SUBSET (1..Len(chain)) /\ Of(t) # {}
  BY <1>1, <1>2, OfAll DEF Of, Owner, OwnerAt
<1>4. last \in Of(t) /\ (\A y \in Of(t) : y <= last) /\ Owner(t) = chain[last].to
  <2>1. last \in Of(t) /\ \A y \in Of(t) : last >= y
    BY <1>1, <1>3, MaxIn
  <2>2. \A y \in Of(t) : y <= last
    BY <1>3, <2>1
  <2>3. QED
    BY <1>3, <2>1, <2>2, OfAll DEF Owner, OwnerAt
<1>5. mint \in Of(t) /\ \A y \in Of(t) : mint <= y
  <2>1. Of(t) \in SUBSET Nat
    BY <1>3
  <2>2. QED
    BY <1>3, <2>1, MinIn
<1> HIDE DEF last, mint
<1>6. \A y \in Of(t) : ~(y < mint)
  BY <1>3, <1>5
<1>7. Minted(t)
  BY <1>2, <1>5, <1>6 DEF Minted, Lives, Of
<1>8. Clean(t)
  <2> SUFFICES ASSUME NEW y \in Of(t) PROVE chain[y].to # Zero /\ y \notin lost
    BY DEF Clean
  <2>1. y = last \/ y < last
    BY <1>3, <1>4
  <2>2. QED
    BY <1>2, <1>4, <2>1 DEF Lives, Of
<1>9. RowOf(t) /\ RowLeft(t)
  BY DEF Rows
<1>10. up /\ next > Len(chain) /\ ch = <<>> /\ dpc = "recv"
  BY DEF Quiet
<1>11. CASE last >= runStart
  <2>1. last \in runStart..(next - 1)
    BY <1>1, <1>3, <1>4, <1>10, <1>11
  <2>2. \A f : ~Pending(f)
    BY <1>10 DEF Pending
  <2>3. last \in Behind
    BY <2>1, <2>2 DEF Behind
  <2>4. QED
    BY <1>2, <1>4, <1>7, <1>8, <1>9, <1>10, <2>3, LastApplied
<1>12. CASE ~(last >= runStart)
  <2>1. crashes <= 1 /\ crashes \in Nat /\ last < runStart
    BY <1>1, <1>3, <1>4, <1>12, NftAssumption DEF TypeOK, last
  <2>2. crashes # 0
    <3>1. \A e \in Behind : e >= runStart
      BY <1>1 DEF Behind
    <3>2. QED
      BY <1>2, <1>10, <1>12, <3>1 DEF FirstRun
  <2>3. crashes = 1
    BY <2>1, <2>2
  <2>4. QED
    BY <1>2, <1>4, <1>7, <1>8, <1>9, <2>1, <2>3 DEF RowLeft
<1>13. QED
  BY <1>11, <1>12

\* Once a run has handled everything it read, the table names the owner of a token whose
\* mint and last transfer had their statements, and nobody else (dealNft, StoreNftToken,
\* TransferNftToOther, DeleteNftToken).
THEOREM OwnersRight == Spec => []OwnerFollowsChain
<1>1. Init => Lives /\ Rows /\ FirstRun
  <2> SUFFICES ASSUME Init PROVE Lives /\ Rows /\ FirstRun
    OBVIOUS
  <2>1. chain = <<>> /\ ~up /\ handled = {} /\ \A t \in Tokens : nft[t] = Zero
    BY DEF Init
  <2>2. Lives /\ FirstRun
    BY <2>1 DEF Lives, FirstRun
  <2>3. \A t : Of(t) = {}
    BY <2>1 DEF Of
  <2>4. Rows
    BY <2>1, <2>3 DEF Rows, RowOf, RowLeft, Minted
  <2>5. QED
    BY <2>2, <2>4
<1>2. IInv => TypeOK
  BY DEF IInv
<1>3. TypeOK /\ Line /\ Lives /\ Rows /\ FirstRun => OwnerFollowsChain
  BY RowsFollow
<1>4. QED
  BY <1>1, <1>2, <1>3, Invariant, ReadInOrder, NextLives, NextRows, PTL DEF Spec
=============================================================================
