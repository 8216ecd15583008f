-------------------------- MODULE TokenPricesProof --------------------------
(***************************************************************************)
(* Proofs about TokenPrices, for any tokens, pools, walks, requests and    *)
(* crashes.                                                                *)
(***************************************************************************)
EXTENDS TokenPrices, FiniteSetTheorems, TLAPS

-----------------------------------------------------------------------------
(* The inductive invariant *)

\* The type invariant, by what it is about.
TokenTypes ==
    /\ rows \in [Tokens -> Flags] /\ coins \in [Tokens -> Flags] /\ adding \in [Tokens -> Flags]
    /\ coinList \in Seq(Tokens) /\ IsInjective(coinList)
    /\ ToSet(coinList) = {t \in Tokens : Copied(t)}
    /\ changing \subseteq Tokens \X Publics /\ overlapped \subseteq Tokens
    /\ unread \subseteq Tokens /\ requests \in 0..MaxRequests
PoolTypes ==
    /\ listed \in InitListed..Len(PoolList) /\ atStart \in 0..listed /\ lost \subseteq 1..listed
    /\ stage \in [PoolIds -> {"none", "default", "tick"}]
FeeTypes ==
    /\ \A p \in PoolIds : symbols[p] \subseteq Ends(p) /\ (fees[p] = None \/ fees[p] \subseteq Ends(p))
    /\ symbols \in [PoolIds -> SUBSET Tokens] /\ DOMAIN fees = PoolIds
    /\ rounds \in 0..MaxRounds /\ faults \in Nat /\ feeTodo \subseteq 1..listed
WalkTypes ==
    /\ prices \in [Tokens -> Prices]
    /\ wpc \in {"down", "first", "walk", "idle"} /\ started \in BOOLEAN /\ walks \in 0..MaxWalks
    /\ queue \in Seq(Tokens) /\ IsInjective(queue)
    /\ ToSet(queue) \subseteq visited /\ visited \subseteq Tokens
    /\ (wpc = "walk") = (queue # <<>>) /\ route \in Seq(PoolIds)
    /\ seen \in 0..listed /\ pos \in 1..(seen + 1) /\ usable \subseteq PoolIds
    /\ skip \subseteq 1..listed

\* What a process has in memory of the tokens is gone with it.
Down ==
    ~Up => /\ coins = [t \in Tokens |-> None] /\ adding = [t \in Tokens |-> None]
           /\ changing = {}

\* While a walk runs, and when one has ended: what it has reached has a price of this
\* walk, and the rest has none of it.
Reached == wpc = "walk" \/ (wpc = "idle" /\ prices[RootSeq[1]] # None)
Walk ==
    /\ Reached =>
          /\ Roots \subseteq visited
          /\ \A t \in visited : prices[t] # None /\ prices[t].walk = walks
          /\ \A t \in Tokens \ visited : prices[t] # None => prices[t].walk < walks
    /\ wpc = "walk" => route = prices[Head(queue)].hops
    /\ wpc \in {"down", "first"} => \A t \in Tokens : prices[t] = None
Ages == \A t \in Tokens : prices[t] # None => prices[t].walk <= walks

\* A price has a chain of tokens to its route, from one whose price is given.
IsRoute(hops, at) ==
    /\ at \in [0..Len(hops) -> Tokens] /\ at[0] \in Roots
    /\ \A i \in 1..Len(hops) : at[i-1] \in Ends(hops[i]) /\ at[i] \in Ends(hops[i])
HasRoute(hops, t) == \E at : IsRoute(hops, at) /\ at[Len(hops)] = t
Chains == \A t \in Tokens : prices[t] # None => HasRoute(prices[t].hops, t)

\* The pools a price was taken over are usable.  Those of this walk are in its slice, and
\* those of the earlier walks were usable when it began, or its slice has lost them.
Over(t, p) == prices[t] # None /\ \E i \in 1..Len(prices[t].hops) : prices[t].hops[i] = p
Routes ==
    /\ \A t \in Tokens, p \in PoolIds : Over(t, p) => Usable(p)
    /\ Reached =>
          /\ \A p \in usable : p <= seen /\ Usable(p) /\ p \notin skip
          /\ \A t \in Tokens, p \in PoolIds :
                Over(t, p) /\ prices[t].walk = walks => p \notin skip
          /\ \A t \in Tokens, p \in PoolIds :
                Over(t, p) /\ prices[t].walk < walks => p \in usable \/ p \in skip

\* The walk goes breadth first: no token of the queue is nearer than one before it, and
\* none that was reached is more than one pool further than the head.
Far(t) == Len(prices[t].hops)
Breadth ==
    wpc = "walk" =>
        /\ \A i, j \in DOMAIN queue : i <= j => Far(queue[i]) <= Far(queue[j])
        /\ \A t \in visited : Far(t) <= Far(Head(queue)) + 1
        /\ \A t \in visited \ ToSet(queue) : Far(t) <= Far(Head(queue))

\* A token that has left the queue has brought all its neighbours into it, one pool
\* further at most; the head those of the pools already looked at.
Spread ==
    /\ Reached =>
          \A t \in visited \ ToSet(queue), p \in usable :
              t \in Ends(p) => \A s \in Ends(p) : s \in visited /\ Far(s) <= Far(t) + 1
    /\ wpc = "walk" =>
          \A p \in usable : p < pos /\ Head(queue) \in Ends(p) => Ends(p) \subseteq visited

\* A copy has a row; a row without a copy is one that AddToken is about to copy, or one
\* that getCoins did not get.
Copies(t) ==
    /\ coins[t] # None => rows[t] # None
    /\ Up /\ rows[t] # None /\ coins[t] = None => adding[t] # None \/ t \in unread
    /\ adding[t] # None => rows[t] # None /\ coins[t] = None

\* A token no two requests were about at the same time: the one request that is between
\* its steps has stored what it will copy, and without one the copy is the row.
Alone(t) ==
    t \notin overlapped =>
        /\ adding[t] # None =>
              rows[t] = adding[t] /\ \A f \in Publics : <<t, f>> \notin changing
        /\ \A f \in Publics : <<t, f>> \in changing =>
              /\ rows[t] \in {None, f}
              /\ \A g \in Publics : <<t, g>> \in changing => g = f
        /\ Up => coins[t] = rows[t] \/ Pending(t) \/ t \in unread

\* A token whose symbol is in a pool's copy or in the row of its fees has a row, and a
\* copy while the process runs, unless getCoins did not get it.
Known(t) == rows[t] # None /\ (Up => coins[t] # None \/ t \in unread)
Named ==
    \A p \in PoolIds :
        /\ \A t \in symbols[p] : Known(t)
        /\ fees[p] # None => \A t \in fees[p] : Known(t)

\* In what is left of a round of fees the copies name all that the rows name.
Round ==
    \A p \in feeTodo \cap PoolIds : fees[p] # None => fees[p] \ unread \subseteq symbols[p]

TokenInv == TokenTypes /\ Down /\ \A t \in Tokens : Copies(t) /\ Alone(t)
WalkInv == WalkTypes /\ Walk /\ Ages /\ RouteValid /\ Chains
SearchInv == Routes /\ Breadth /\ Spread
FeeInv == FeeTypes /\ Named /\ Round /\ (~Up => feeTodo = {})
PriceInv ==
    /\ TokenInv /\ PoolTypes /\ WalkInv /\ SearchInv /\ FeeInv
    /\ crashes \in 0..MaxCrashes
-----------------------------------------------------------------------------
(* What the constants and the sequences made of sets are *)

\* What PricesAssumption says of the pools and of the tokens the walk begins with.
LEMMA Constants ==
    /\ Len(PoolList) \in Nat /\ PoolIds = 1..Len(PoolList)
    /\ \A p \in PoolIds : Ends(p) \subseteq Tokens
    /\ Roots \subseteq Tokens /\ None \notin Publics
    /\ InitListed \in Nat /\ InitListed <= Len(PoolList)
    /\ MaxWalks \in Nat /\ MaxRequests \in Nat /\ MaxRounds \in Nat /\ MaxFaults \in Nat
    /\ MaxCrashes \in Nat
<1>1. Len(PoolList) \in Nat /\ PoolIds = 1..Len(PoolList)
  BY PricesAssumption DEF PoolIds
<1>2. ASSUME NEW p \in PoolIds PROVE Ends(p) \subseteq Tokens
  <2>1. ASSUME NEW S, NEW q \in Seq(S), NEW i \in DOMAIN q PROVE q[i] \in S
    OBVIOUS
  <2>2. PoolList[p] \in [token0 : Tokens, token1 : Tokens]
    BY <2>1, PricesAssumption, Zenon DEF PoolIds
  <2>3. QED
    BY <2>2 DEF Ends
<1>3. Roots \subseteq Tokens
  <2>1. \A i \in DOMAIN RootSeq : RootSeq[i] \in Tokens
    BY PricesAssumption
  <2>2. QED
    BY <2>1 DEF Roots, ToSet
<1>4. QED
  BY <1>1, <1>2, <1>3, PricesAssumption

\* A record of a price is not the value that stands for no price.
LEMMA PriceIsNotNone ==
    ASSUME NEW n \in Nat, NEW h \in Seq(PoolIds)
    PROVE  [walk |-> n, hops |-> h] # None
<1>1. [walk |-> n, hops |-> h] \in [walk : Nat, hops : Seq(PoolIds)]
  OBVIOUS
<1>2. QED
  BY <1>1, PricesAssumption

\* SetToSeq: every element of the set once.
LEMMA SeqOfSet ==
    ASSUME NEW S, IsFiniteSet(S)
    PROVE  SetToSeq(S) \in Seq(S) /\ IsInjective(SetToSeq(S)) /\ ToSet(SetToSeq(S)) = S
<1> DEFINE n == Cardinality(S)
<1> DEFINE s == SetToSeq(S)
<1>1. n \in Nat /\ ExistsBijection(1..n, S)
  BY FS_CardinalityType
<1>2. PICK f \in Bijection(1..n, S) : TRUE
  BY <1>1 DEF ExistsBijection
<1>3. f \in [1..n -> S] /\ IsInjective(f)
  BY <1>2 DEF Bijection, Injection
<1>4. s \in [1..n -> S] /\ IsInjective(s)
  BY <1>3 DEF SetToSeq
<1> HIDE DEF s
<1>5. s \in Injection(1..n, S)
  BY <1>4 DEF Injection
<1>6. ExistsInjection(1..n, S)
  BY <1>5 DEF ExistsInjection
<1>7. IsFiniteSet(1..n) /\ Cardinality(1..n) = n
  BY <1>1, FS_CountingElements, FS_NatBijection, FS_Interval
<1>8. s \in Surjection(1..n, S)
  <2>1. ASSUME NEW A, NEW g \in Injection(A, S)
        PROVE  Cardinality(A) = Cardinality(S) <=> g \in Surjection(A, S)
    BY FS_Injection
  <2>2. QED
    BY <1>5, <1>7, <2>1
<1>9. s \in Seq(S) /\ DOMAIN s = 1..n
  BY <1>1, <1>4
<1>10. ToSet(s) = S
  <2>1. \A e \in S : \E i \in 1..n : s[i] = e
    BY <1>8 DEF Surjection
  <2>2. \A i \in 1..n : s[i] \in S
    BY <1>4
  <2>3. QED
    BY <1>9, <2>1, <2>2 DEF ToSet
<1>11. QED
  BY <1>4, <1>9, <1>10 DEF s

LEMMA TokensFinite == ASSUME NEW S \in SUBSET Tokens PROVE IsFiniteSet(S)
BY PricesAssumption, FS_Subset

\* Append and concatenation of sequences of different elements.
LEMMA AppendOnce ==
    ASSUME NEW S, NEW s \in Seq(S), NEW e \in S, IsInjective(s), e \notin ToSet(s)
    PROVE  /\ Append(s, e) \in Seq(S) /\ IsInjective(Append(s, e))
           /\ ToSet(Append(s, e)) = ToSet(s) \cup {e}
<1> DEFINE r == Append(s, e)
<1>1. Len(s) \in Nat /\ DOMAIN s = 1..Len(s)
  OBVIOUS
<1>2. r \in Seq(S) /\ DOMAIN r = 1..(Len(s) + 1)
  OBVIOUS
<1>3. (\A i \in 1..Len(s) : r[i] = s[i]) /\ r[Len(s) + 1] = e
  OBVIOUS
<1>4. \A i \in DOMAIN r : i \in 1..Len(s) \/ i = Len(s) + 1
  BY <1>1, <1>2
<1>5. \A i \in 1..Len(s) : s[i] \in ToSet(s)
  BY <1>1 DEF ToSet
<1> HIDE DEF r
<1>6. IsInjective(r)
  BY <1>1, <1>3, <1>4, <1>5 DEF IsInjective
<1>7. Len(s) + 1 \in DOMAIN r /\ 1..Len(s) \subseteq DOMAIN r
  BY <1>1, <1>2
<1>8. ToSet(r) = ToSet(s) \cup {e}
  BY <1>1, <1>3, <1>4, <1>7 DEF ToSet
<1>9. QED
  BY <1>2, <1>6, <1>8 DEF r

LEMMA ConcatOnce ==
    ASSUME NEW S, NEW s \in Seq(S), NEW q \in Seq(S), IsInjective(s), IsInjective(q),
           ToSet(s) \cap ToSet(q) = {}
    PROVE  /\ s \o q \in Seq(S) /\ IsInjective(s \o q)
           /\ ToSet(s \o q) = ToSet(s) \cup ToSet(q)
           /\ s # <<>> => s \o q # <<>> /\ Head(s \o q) = Head(s)
<1> DEFINE r == s \o q
<1>1. Len(s) \in Nat /\ DOMAIN s = 1..Len(s) /\ Len(q) \in Nat /\ DOMAIN q = 1..Len(q)
  OBVIOUS
<1>2. r \in Seq(S) /\ Len(r) = Len(s) + Len(q) /\ DOMAIN r = 1..(Len(s) + Len(q))
  OBVIOUS
<1>3. \A i \in 1..Len(s) : r[i] = s[i]
  OBVIOUS
<1>4. \A i \in 1..Len(q) : r[Len(s) + i] = q[i]
  OBVIOUS
<1> HIDE DEF r
<1>5. \A i \in DOMAIN r : i \in 1..Len(s) \/ \E j \in 1..Len(q) : i = Len(s) + j
  <2>1. ASSUME NEW i \in DOMAIN r, i \notin 1..Len(s) PROVE \E j \in 1..Len(q) : i = Len(s) + j
    <3>1. i - Len(s) \in 1..Len(q) /\ i = Len(s) + (i - Len(s))
      BY <1>1, <1>2, <2>1
    <3>2. QED
      BY <3>1
  <2>2. QED
    BY <2>1
<1>6. (\A i \in 1..Len(s) : s[i] \in ToSet(s)) /\ (\A i \in 1..Len(q) : q[i] \in ToSet(q))
  BY <1>1 DEF ToSet
<1>7. IsInjective(r)
  <2>1. SUFFICES ASSUME NEW i \in DOMAIN r, NEW j \in DOMAIN r, r[i] = r[j] PROVE i = j
    BY DEF IsInjective
  <2>2. CASE i \in 1..Len(s) /\ j \in 1..Len(s)
    BY <1>1, <1>3, <2>1, <2>2 DEF IsInjective
  <2>3. CASE i \notin 1..Len(s) /\ j \notin 1..Len(s)
    <3>1. PICK k \in 1..Len(q) : i = Len(s) + k
      BY <1>5, <2>3
    <3>2. PICK l \in 1..Len(q) : j = Len(s) + l
      BY <1>5, <2>3
    <3>3. q[k] = q[l]
      BY <1>4, <2>1, <3>1, <3>2
    <3>4. QED
      BY <1>1, <3>1, <3>2, <3>3 DEF IsInjective
  <2>4. CASE (i \in 1..Len(s)) # (j \in 1..Len(s))
    <3>1. ASSUME NEW k \in DOMAIN r, k \in 1..Len(s) PROVE r[k] \in ToSet(s)
      BY <1>3, <1>6, <3>1
    <3>2. ASSUME NEW k \in DOMAIN r, k \notin 1..Len(s) PROVE r[k] \in ToSet(q)
      <4>1. PICK l \in 1..Len(q) : k = Len(s) + l
        BY <1>5, <3>2
      <4>2. QED
        BY <1>4, <1>6, <4>1
    <3>3. QED
      BY <2>1, <2>4, <3>1, <3>2
  <2>5. QED
    BY <2>2, <2>3, <2>4
<1>8. (\A i \in 1..Len(s) : i \in DOMAIN r) /\ (\A i \in 1..Len(q) : Len(s) + i \in DOMAIN r)
  BY <1>1, <1>2
<1>9. ToSet(r) = ToSet(s) \cup ToSet(q)
  BY <1>1, <1>3, <1>4, <1>5, <1>8 DEF ToSet
<1>10. ASSUME s # <<>> PROVE r # <<>> /\ Head(r) = Head(s)
  <2>1. Len(s) > 0 /\ Head(s) = s[1]
    BY <1>10
  <2>2. Len(r) > 0 /\ Head(r) = r[1]
    BY <1>1, <1>2, <2>1
  <2>3. QED
    BY <1>1, <1>2, <1>3, <2>1, <2>2
<1>11. QED
  BY <1>2, <1>7, <1>9, <1>10 DEF r

LEMMA TailOnce ==
    ASSUME NEW S, NEW s \in Seq(S), s # <<>>, IsInjective(s)
    PROVE  Tail(s) \in Seq(S) /\ IsInjective(Tail(s)) /\ ToSet(Tail(s)) \subseteq ToSet(s)
<1> DEFINE r == Tail(s)
<1>1. Len(s) \in Nat /\ Len(s) > 0 /\ DOMAIN s = 1..Len(s)
  OBVIOUS
<1>2. r \in Seq(S) /\ DOMAIN r = 1..(Len(s) - 1)
  OBVIOUS
<1>3. \A i \in 1..(Len(s) - 1) : r[i] = s[i + 1]
  OBVIOUS
<1> HIDE DEF r
<1>4. \A i \in DOMAIN r : i + 1 \in DOMAIN s /\ r[i] = s[i + 1]
  BY <1>1, <1>2, <1>3
<1>5. IsInjective(r)
  <2>1. SUFFICES ASSUME NEW i \in DOMAIN r, NEW j \in DOMAIN r, r[i] = r[j] PROVE i = j
    BY DEF IsInjective
  <2>2. i + 1 = j + 1
    BY <1>4, <2>1 DEF IsInjective
  <2>3. QED
    BY <1>1, <1>2, <2>2
<1>6. ToSet(r) \subseteq ToSet(s)
  BY <1>4 DEF ToSet
<1>7. QED
  BY <1>2, <1>5, <1>6 DEF r

LEMMA EmptyOnce == IsInjective(<<>>) /\ ToSet(<<>>) = {}
<1>1. DOMAIN <<>> = {}
  OBVIOUS
<1>2. QED
  BY <1>1 DEF IsInjective, ToSet

\* The head of a queue is one of its elements.
LEMMA HeadIn == ASSUME NEW S, NEW s \in Seq(S), s # <<>> PROVE Head(s) \in S /\ Head(s) \in ToSet(s)
<1>1. Head(s) = s[1] /\ 1 \in DOMAIN s
  OBVIOUS
<1>2. QED
  BY <1>1 DEF ToSet

LEMMA FirstRoot == RootSeq[1] \in Roots /\ RootSeq[1] \in Tokens
<1>1. 1 \in DOMAIN RootSeq
  BY PricesAssumption
<1>2. QED
  BY <1>1, Constants DEF Roots, ToSet
-----------------------------------------------------------------------------
(* The tokens *)

\* An action that does not touch the tokens keeps what is said of them.
LEMMA TokensFrame == TokenInv /\ UNCHANGED tokenVars /\ Up' = Up => TokenInv'
<1>1. SUFFICES ASSUME TokenInv, UNCHANGED tokenVars, Up' = Up PROVE TokenInv'
  OBVIOUS
<1>2. UNCHANGED <<rows, coins, coinList, adding, changing, requests, overlapped, unread>>
  BY <1>1 DEF tokenVars
<1>3. TokenTypes'
  BY <1>1, <1>2 DEF TokenInv, TokenTypes, Copied
<1>4. Down'
  BY <1>1, <1>2 DEF TokenInv, Down
<1>5. ASSUME NEW t \in Tokens PROVE Copies(t)' /\ Alone(t)'
  <2>1. Copies(t) /\ Alone(t)
    BY <1>1 DEF TokenInv
  <2>2. Copies(t)'
    BY <1>1, <1>2, <2>1 DEF Copies
  <2>3. Alone(t)'
    BY <1>1, <1>2, <2>1 DEF Alone, Pending
  <2>4. QED
    BY <2>2, <2>3
<1>6. QED
  BY <1>3, <1>4, <1>5 DEF TokenInv

\* A request about a token changes nothing of the others.
Untouched(u) ==
    /\ rows'[u] = rows[u] /\ coins'[u] = coins[u] /\ adding'[u] = adding[u]
    /\ \A f \in Publics : <<u, f>> \in changing' <=> <<u, f>> \in changing
    /\ u \in overlapped => u \in overlapped'
    /\ u \in unread' <=> u \in unread
    /\ Up' = Up

LEMMA OthersStay ==
    ASSUME NEW u, Copies(u), Alone(u), Untouched(u)
    PROVE  Copies(u)' /\ Alone(u)'
<1>1. Copies(u)'
  BY DEF Copies, Untouched
<1>2. Alone(u)'
  BY DEF Alone, Pending, Untouched
<1>3. QED
  BY <1>1, <1>2

LEMMA RequestOverlaps ==
    ASSUME NEW t \in Tokens, TokenTypes, Request(t)
    PROVE  /\ requests' \in 0..MaxRequests
           /\ overlapped' \subseteq Tokens /\ overlapped \subseteq overlapped' /\ unread' = unread
           /\ t \notin overlapped' => t \notin overlapped /\ ~Pending(t)
<1>1. requests' \in 0..MaxRequests
  BY Constants DEF TokenTypes, Request
<1>2. overlapped' \subseteq Tokens /\ overlapped \subseteq overlapped' /\ unread' = unread
  BY DEF TokenTypes, Request
<1>3. t \notin overlapped' => t \notin overlapped /\ ~Pending(t)
  BY DEF Request
<1>4. QED
  BY <1>1, <1>2, <1>3

LEMMA InsertTokens ==
    ASSUME TokenInv, NEW t \in Tokens, NEW f \in Publics, InsertToken(t, f)
    PROVE  TokenInv'
<1>1. /\ Request(t) /\ Up /\ rows[t] = None
      /\ rows' = [rows EXCEPT ![t] = f] /\ adding' = [adding EXCEPT ![t] = f]
      /\ coins' = coins /\ coinList' = coinList /\ changing' = changing /\ wpc' = wpc
  BY DEF InsertToken, Request, walkVars
<1>2. Up' = Up
  BY <1>1 DEF Up
<1>3. /\ TokenTypes /\ Copies(t) /\ Alone(t) /\ f # None
      /\ rows \in [Tokens -> Flags] /\ adding \in [Tokens -> Flags]
  BY Constants DEF TokenInv, TokenTypes
<1>4. /\ rows' \in [Tokens -> Flags] /\ adding' \in [Tokens -> Flags]
      /\ rows'[t] = f /\ adding'[t] = f
      /\ \A u \in Tokens \ {t} : rows'[u] = rows[u] /\ adding'[u] = adding[u]
  BY <1>1, <1>3 DEF Flags
<1>5. TokenTypes'
  BY <1>1, <1>3, <1>4, RequestOverlaps DEF TokenTypes, Copied
<1>6. Down'
  BY <1>1, <1>2 DEF Down
<1>7. ASSUME NEW u \in Tokens, u # t PROVE Copies(u)' /\ Alone(u)'
  <2>1. Untouched(u)
    BY <1>1, <1>2, <1>3, <1>4, <1>7, RequestOverlaps DEF Untouched
  <2>2. QED
    BY <2>1, OthersStay DEF TokenInv
<1>8. coins[t] = None
  BY <1>1, <1>3 DEF Copies
<1>9. Copies(t)'
  BY <1>1, <1>3, <1>4, <1>8 DEF Copies
<1>10. Alone(t)'
  <2>1. CASE t \in overlapped'
    BY <2>1 DEF Alone
  <2>2. CASE t \notin overlapped'
    <3>1. \A g \in Publics : <<t, g>> \notin changing'
      BY <1>1, <1>3, <2>2, RequestOverlaps DEF Pending
    <3>2. QED
      BY <1>3, <1>4, <3>1 DEF Alone, Pending
  <2>3. QED
    BY <2>1, <2>2
<1>11. QED
  BY <1>5, <1>6, <1>7, <1>9, <1>10 DEF TokenInv

LEMMA CopyTokens ==
    ASSUME TokenInv, NEW t \in Tokens, CopyToken(t)
    PROVE  TokenInv'
<1>1. /\ adding[t] # None
      /\ coins' = [coins EXCEPT ![t] = adding[t]] /\ adding' = [adding EXCEPT ![t] = None]
      /\ coinList' = Append(coinList, t)
      /\ UNCHANGED <<rows, changing, requests, overlapped, unread, wpc>>
  BY DEF CopyToken, walkVars
<1>2. Up' = Up
  BY <1>1 DEF Up
<1>3. /\ TokenTypes /\ Copies(t) /\ Alone(t)
      /\ coins \in [Tokens -> Flags] /\ adding \in [Tokens -> Flags]
  BY DEF TokenInv, TokenTypes
<1>4. /\ coins' \in [Tokens -> Flags] /\ adding' \in [Tokens -> Flags]
      /\ coins'[t] = adding[t] /\ adding'[t] = None
      /\ \A u \in Tokens \ {t} : coins'[u] = coins[u] /\ adding'[u] = adding[u]
  BY <1>1, <1>3 DEF Flags
<1>5. coins[t] = None /\ rows[t] # None
  BY <1>1, <1>3 DEF Copies
<1>6. TokenTypes'
  <2>1. coinList \in Seq(Tokens) /\ IsInjective(coinList) /\ t \notin ToSet(coinList)
    BY <1>3, <1>5 DEF TokenTypes, Copied
  <2>2. /\ coinList' \in Seq(Tokens) /\ IsInjective(coinList')
        /\ ToSet(coinList') = ToSet(coinList) \cup {t}
    BY <1>1, <2>1, AppendOnce
  <2>3. {u \in Tokens : Copied(u)'} = {u \in Tokens : Copied(u)} \cup {t}
    BY <1>1, <1>4, <1>5 DEF Copied
  <2>4. ToSet(coinList)' = {u \in Tokens : Copied(u)}'
    BY <1>3, <2>2, <2>3 DEF TokenTypes
  <2>5. QED
    BY <1>1, <1>3, <1>4, <2>2, <2>4 DEF TokenTypes
<1>7. Up
  <2>1. SUFFICES ASSUME ~Up PROVE FALSE
    OBVIOUS
  <2>2. adding = [u \in Tokens |-> None]
    BY <2>1 DEF TokenInv, Down
  <2>3. adding[t] = None
    BY <2>2
  <2>4. QED
    BY <1>1, <2>3
<1>8. Down'
  BY <1>2, <1>7 DEF Down
<1>9. ASSUME NEW u \in Tokens, u # t PROVE Copies(u)' /\ Alone(u)'
  <2>1. Untouched(u)
    BY <1>1, <1>2, <1>4, <1>9 DEF Untouched
  <2>2. QED
    BY <2>1, OthersStay DEF TokenInv
<1>10. Copies(t)'
  BY <1>1, <1>3, <1>4, <1>5 DEF Copies
<1>11. Alone(t)'
  BY <1>1, <1>3, <1>4 DEF Alone
<1>12. QED
  BY <1>6, <1>8, <1>9, <1>10, <1>11 DEF TokenInv

LEMMA UpdatePublics ==
    ASSUME TokenInv, NEW t \in Tokens, NEW f \in Publics, UpdatePublic(t, f)
    PROVE  TokenInv'
<1>1. /\ Request(t) /\ Up
      /\ rows' = [rows EXCEPT ![t] = IF rows[t] = None THEN None ELSE f]
      /\ changing' = changing \cup {<<t, f>>}
      /\ coins' = coins /\ coinList' = coinList /\ adding' = adding /\ wpc' = wpc
  BY DEF UpdatePublic, Request, walkVars
<1>2. Up' = Up
  BY <1>1 DEF Up
<1>3. /\ TokenTypes /\ Copies(t) /\ Alone(t) /\ f # None /\ rows \in [Tokens -> Flags]
  BY Constants DEF TokenInv, TokenTypes
<1>4. /\ rows' \in [Tokens -> Flags]
      /\ rows'[t] = IF rows[t] = None THEN None ELSE f
      /\ \A u \in Tokens \ {t} : rows'[u] = rows[u]
  BY <1>1, <1>3 DEF Flags
<1>5. TokenTypes'
  <2>1. changing' \subseteq Tokens \X Publics
    BY <1>1, <1>3 DEF TokenTypes
  <2>2. QED
    BY <1>1, <1>3, <1>4, <2>1, RequestOverlaps DEF TokenTypes, Copied
<1>6. Down'
  BY <1>1, <1>2 DEF Down
<1>7. ASSUME NEW u \in Tokens, u # t PROVE Copies(u)' /\ Alone(u)'
  <2>1. Untouched(u)
    BY <1>1, <1>2, <1>3, <1>4, <1>7, RequestOverlaps DEF Untouched
  <2>2. QED
    BY <2>1, OthersStay DEF TokenInv
<1>8. Copies(t)'
  BY <1>1, <1>2, <1>3, <1>4, RequestOverlaps DEF Copies
<1>9. Alone(t)'
  <2>1. CASE t \in overlapped'
    BY <2>1 DEF Alone
  <2>2. CASE t \notin overlapped'
    <3>1. adding[t] = None /\ \A g \in Publics : <<t, g>> \notin changing
      BY <1>1, <1>3, <2>2, RequestOverlaps DEF Pending
    <3>2. \A g \in Publics : <<t, g>> \in changing' => g = f
      BY <1>1, <3>1
    <3>3. <<t, f>> \in changing'
      BY <1>1
    <3>4. QED
      BY <1>1, <1>4, <3>1, <3>2, <3>3 DEF Alone, Pending
  <2>3. QED
    BY <2>1, <2>2
<1>10. QED
  BY <1>5, <1>6, <1>7, <1>8, <1>9 DEF TokenInv

LEMMA CopyPublics ==
    ASSUME TokenInv, NEW t \in Tokens, NEW f \in Publics, CopyPublic(t, f)
    PROVE  TokenInv'
<1>1. /\ <<t, f>> \in changing
      /\ changing' = changing \ {<<t, f>>}
      /\ coins' = [coins EXCEPT ![t] = IF coins[t] = None THEN None ELSE f]
      /\ UNCHANGED <<rows, coinList, adding, requests, overlapped, unread, wpc>>
  BY DEF CopyPublic, walkVars
<1>2. Up' = Up
  BY <1>1 DEF Up
<1>3. /\ TokenTypes /\ Copies(t) /\ Alone(t) /\ f # None /\ coins \in [Tokens -> Flags]
  BY Constants DEF TokenInv, TokenTypes
<1>4. /\ coins' \in [Tokens -> Flags]
      /\ coins'[t] = IF coins[t] = None THEN None ELSE f
      /\ \A u \in Tokens \ {t} : coins'[u] = coins[u]
  BY <1>1, <1>3 DEF Flags
<1>5. TokenTypes'
  <2>1. {u \in Tokens : Copied(u)'} = {u \in Tokens : Copied(u)}
    BY <1>3, <1>4 DEF Copied
  <2>2. ToSet(coinList)' = {u \in Tokens : Copied(u)}'
    BY <1>1, <1>3, <2>1 DEF TokenTypes
  <2>3. QED
    BY <1>1, <1>3, <1>4, <2>2 DEF TokenTypes
<1>6. Up
  BY <1>1 DEF TokenInv, Down
<1>7. Down'
  BY <1>2, <1>6 DEF Down
<1>8. ASSUME NEW u \in Tokens, u # t PROVE Copies(u)' /\ Alone(u)'
  <2>1. Untouched(u)
    BY <1>1, <1>2, <1>4, <1>8 DEF Untouched
  <2>2. QED
    BY <2>1, OthersStay DEF TokenInv
<1>9. Copies(t)'
  BY <1>1, <1>2, <1>3, <1>4 DEF Copies
<1>10. Alone(t)'
  <2>1. CASE t \in overlapped
    BY <1>1, <2>1 DEF Alone
  <2>2. CASE t \notin overlapped
    <3>1. /\ rows[t] = None \/ rows[t] = f
          /\ \A g \in Publics : <<t, g>> \in changing => g = f
          /\ adding[t] = None
      BY <1>1, <1>3, <2>2 DEF Alone
    <3>2. \A g \in Publics : <<t, g>> \notin changing'
      BY <1>1, <3>1
    <3>3. t \in unread \/ (coins[t] = None <=> rows[t] = None)
      BY <1>3, <1>6, <3>1 DEF Copies
    <3>4. t \in unread' \/ coins'[t] = rows'[t]
      BY <1>1, <1>4, <3>1, <3>3
    <3>5. QED
      BY <1>1, <3>1, <3>2, <3>4 DEF Alone
  <2>3. QED
    BY <2>1, <2>2
<1>11. QED
  BY <1>5, <1>7, <1>8, <1>9, <1>10 DEF TokenInv

\* The process dies, and getCoins copies what it gets of the table.
LEMMA CrashTokens == TokenInv /\ Crash => TokenInv'
<1>1. SUFFICES ASSUME TokenInv, Crash PROVE TokenInv'
  OBVIOUS
<1>2. /\ coins' = [t \in Tokens |-> None] /\ adding' = [t \in Tokens |-> None]
      /\ changing' = {} /\ overlapped' = {} /\ coinList' = <<>> /\ wpc' = "down"
      /\ rows' = rows /\ requests' = requests /\ unread' = {}
  BY <1>1 DEF Crash
<1>3. ~Up'
  BY <1>2 DEF Up
<1>4. TokenTypes'
  <2>1. {u \in Tokens : Copied(u)'} = {}
    BY <1>2 DEF Copied
  <2>2. ToSet(coinList)' = {u \in Tokens : Copied(u)}' /\ IsInjective(coinList')
    BY <1>2, <2>1, EmptyOnce
  <2>3. coins' \in [Tokens -> Flags] /\ adding' \in [Tokens -> Flags] /\ coinList' \in Seq(Tokens)
    BY <1>2 DEF Flags
  <2>4. QED
    BY <1>1, <1>2, <2>2, <2>3 DEF TokenInv, TokenTypes
<1>5. Down'
  BY <1>2 DEF Down
<1>6. ASSUME NEW t \in Tokens PROVE Copies(t)' /\ Alone(t)'
  BY <1>2, <1>3 DEF Copies, Alone
<1>7. QED
  BY <1>4, <1>5, <1>6 DEF TokenInv

LEMMA StartTokens == TokenInv /\ Start => TokenInv'
<1>1. SUFFICES ASSUME TokenInv, Start PROVE TokenInv'
  OBVIOUS
<1>2. /\ coins' = [t \in Tokens |-> IF t \in unread' THEN None ELSE rows[t]]
      /\ coinList' = SetToSeq({t \in Tokens : coins'[t] # None})
      /\ unread' \subseteq Tokens
      /\ wpc = "down" /\ wpc' = "first"
      /\ UNCHANGED <<rows, adding, changing, requests, overlapped>>
  BY <1>1 DEF Start
<1>3. ~Up /\ Up'
  BY <1>2 DEF Up
<1>4. adding = [t \in Tokens |-> None] /\ changing = {} /\ TokenTypes
  BY <1>1, <1>3 DEF TokenInv, Down
<1>5. \A t \in Tokens : coins'[t] = IF t \in unread' THEN None ELSE rows[t]
  BY <1>2
<1>6. TokenTypes'
  <2> DEFINE S == {t \in Tokens : coins'[t] # None}
  <2>1. {u \in Tokens : Copied(u)'} = S
    BY DEF Copied
  <2>2. S \in SUBSET Tokens
    OBVIOUS
  <2>3. IsFiniteSet(S)
    BY <2>2, TokensFinite
  <2>4. coinList' \in Seq(S) /\ IsInjective(coinList') /\ ToSet(coinList') = S
    BY <1>2, <2>3, SeqOfSet
  <2>5. coinList' \in Seq(Tokens)
    BY <2>2, <2>4
  <2>6. ToSet(coinList)' = {u \in Tokens : Copied(u)}'
    BY <2>1, <2>4
  <2>7. coins' \in [Tokens -> Flags]
    BY <1>2, <1>4 DEF TokenTypes, Flags
  <2>8. QED
    BY <1>2, <1>4, <2>4, <2>5, <2>6, <2>7 DEF TokenTypes
<1>7. Down'
  BY <1>3 DEF Down
<1>8. ASSUME NEW t \in Tokens PROVE Copies(t)' /\ Alone(t)'
  BY <1>2, <1>4, <1>5 DEF Copies, Alone
<1>9. QED
  BY <1>6, <1>7, <1>8 DEF TokenInv

LEMMA InitTokensInv == Init => TokenInv
<1>1. SUFFICES ASSUME Init PROVE TokenInv
  OBVIOUS
<1>2. /\ rows = [t \in Tokens |-> IF t \in InitTokens THEN CHOOSE f \in Publics : TRUE ELSE None]
      /\ coins = [t \in Tokens |-> None] /\ coinList = <<>>
      /\ adding = [t \in Tokens |-> None] /\ changing = {}
      /\ requests = 0 /\ overlapped = {} /\ unread = {} /\ wpc = "down"
  BY <1>1 DEF Init
<1> DEFINE first == CHOOSE f \in Publics : TRUE
<1>3. first \in Publics
  BY PricesAssumption
<1> HIDE DEF first
<1>4. \A t \in Tokens : rows[t] = IF t \in InitTokens THEN first ELSE None
  BY <1>2 DEF first
<1>5. rows \in [Tokens -> Flags] /\ adding \in [Tokens -> Flags] /\ coins \in [Tokens -> Flags]
  BY <1>2, <1>3, <1>4 DEF Flags
<1>6. TokenTypes
  <2>1. {u \in Tokens : Copied(u)} = {}
    BY <1>2 DEF Copied
  <2>2. coinList \in Seq(Tokens) /\ IsInjective(coinList) /\ ToSet(coinList) = {}
    BY <1>2, EmptyOnce
  <2>3. requests \in 0..MaxRequests
    BY <1>2, Constants
  <2>4. QED
    BY <1>2, <1>5, <2>1, <2>2, <2>3 DEF TokenTypes
<1>7. ~Up /\ Down
  BY <1>2 DEF Up, Down
<1>8. ASSUME NEW t \in Tokens PROVE Copies(t) /\ Alone(t)
  BY <1>2, <1>7 DEF Copies, Alone
<1>9. QED
  BY <1>6, <1>7, <1>8 DEF TokenInv
-----------------------------------------------------------------------------
(* The walk *)

LEMMA PoolsFrame == PoolTypes /\ UNCHANGED poolVars => PoolTypes'
BY DEF PoolTypes, poolVars

LEMMA ListPools == ASSUME PoolTypes, ListPool PROVE PoolTypes' /\ listed' = listed + 1
<1>1. /\ listed \in Nat /\ listed' = listed + 1 /\ listed < Len(PoolList)
      /\ UNCHANGED <<atStart, stage>>
  BY Constants DEF PoolTypes, ListPool
<1>2. PICK old \in atStart..listed : lost' = lost \cup ((old + 1)..listed)
  BY DEF ListPool
<1>3. lost' \subseteq 1..listed'
  BY <1>1, <1>2 DEF PoolTypes
<1>4. QED
  BY <1>1, <1>3, Constants DEF PoolTypes

LEMMA Deals == ASSUME PoolTypes, NEW p \in PoolIds, Deal(p) PROVE PoolTypes'
BY DEF PoolTypes, Deal

LEMMA PriceTypes ==
    ASSUME WalkTypes, NEW t \in Tokens, prices[t] # None
    PROVE  /\ prices[t].walk \in Nat /\ prices[t].hops \in Seq(PoolIds)
           /\ prices[t] \in [walk : 1..MaxWalks, hops : Seq(PoolIds)]
           /\ prices[t].hops # <<>> => Last(prices[t].hops) \in PoolIds
<1>1. prices[t] \in [walk : 1..MaxWalks, hops : Seq(PoolIds)]
  BY DEF WalkTypes, Prices
<1>2. prices[t].walk \in Nat /\ prices[t].hops \in Seq(PoolIds)
  BY <1>1, Constants
<1>3. ASSUME NEW h \in Seq(PoolIds), h # <<>> PROVE Last(h) \in PoolIds
  BY <1>3 DEF Last
<1>4. QED
  BY <1>1, <1>2, <1>3

\* RouteValid of one token.
Behind(s, t) ==
    /\ prices[s] # None
    /\ \/ prices[s].walk = prices[t].walk /\ prices[s].hops = Front(prices[t].hops)
       \/ prices[s].walk > prices[t].walk
Routed(t) ==
    /\ (prices[t].hops = <<>>) = (t \in Roots)
    /\ prices[t].hops # <<>> =>
          /\ t \in Ends(Last(prices[t].hops)) /\ Last(prices[t].hops) <= listed
          /\ \E s \in Ends(Last(prices[t].hops)) \ {t} : Behind(s, t)

LEMMA RoutesOfAll == RouteValid <=> \A t \in Tokens : prices[t] # None => Routed(t)
BY DEF RouteValid, Routed, Behind

LEMMA RoutesOfAllPrimed == RouteValid' <=> \A t \in Tokens : prices'[t] # None => Routed(t)'
BY DEF RouteValid, Routed, Behind

\* A token the walk begins with is its own route, and a pool takes a route further.
LEMMA NoHops == ASSUME NEW t \in Roots PROVE HasRoute(<<>>, t)
<1> DEFINE at == [i \in 0..0 |-> t]
<1>1. t \in Tokens /\ Len(<<>>) = 0 /\ 0 \in 0..0 /\ 1..0 = {}
  BY Constants
<1>2. at \in [0..0 -> Tokens] /\ at[0] = t
  BY <1>1
<1>3. IsRoute(<<>>, at)
  BY <1>1, <1>2 DEF IsRoute
<1>4. QED
  BY <1>1, <1>2, <1>3 DEF HasRoute

LEMMA OneHop ==
    ASSUME NEW r \in Seq(PoolIds), NEW s, HasRoute(r, s), NEW p \in PoolIds, NEW t \in Tokens,
           s \in Ends(p), t \in Ends(p)
    PROVE  HasRoute(Append(r, p), t)
<1> DEFINE h == Append(r, p)
<1> DEFINE n == Len(r)
<1>1. n \in Nat /\ Len(h) = n + 1 /\ h[n + 1] = p /\ \A i \in 1..n : h[i] = r[i]
  OBVIOUS
<1> HIDE DEF h
<1>2. PICK at : IsRoute(r, at) /\ at[n] = s
  BY DEF HasRoute
<1> HIDE DEF n
<1>3. /\ at \in [0..n -> Tokens] /\ at[0] \in Roots
      /\ \A i \in 1..n : at[i-1] \in Ends(r[i]) /\ at[i] \in Ends(r[i])
  BY <1>2 DEF IsRoute, n
<1> DEFINE next == [i \in 0..(n + 1) |-> IF i = n + 1 THEN t ELSE at[i]]
<1>4. \A i \in 0..(n + 1) : i = n + 1 \/ i \in 0..n
  BY <1>1
<1>5. /\ next \in [0..(n + 1) -> Tokens] /\ next[n + 1] = t
      /\ \A i \in 0..n : next[i] = at[i]
  BY <1>1, <1>3, <1>4
<1> HIDE DEF next
<1>6. 0 \in 0..n /\ n \in 0..n
  BY <1>1
<1>7. ASSUME NEW i \in 1..(n + 1) PROVE next[i-1] \in Ends(h[i]) /\ next[i] \in Ends(h[i])
  <2>1. CASE i = n + 1
    <3>1. i - 1 = n
      BY <1>1, <2>1
    <3>2. QED
      BY <1>1, <1>2, <1>5, <1>6, <2>1, <3>1
  <2>2. CASE i # n + 1
    <3>1. i \in 1..n /\ i \in 0..n /\ i - 1 \in 0..n
      BY <1>1, <2>2
    <3>2. QED
      BY <1>1, <1>3, <1>5, <3>1
  <2>3. QED
    BY <2>1, <2>2
<1>8. IsRoute(h, next)
  BY <1>1, <1>3, <1>5, <1>6, <1>7 DEF IsRoute
<1>9. HasRoute(h, t)
  BY <1>1, <1>5, <1>8 DEF HasRoute
<1>10. QED
  BY <1>9 DEF h

\* What is said of the walk depends on the number of pools only from below.
LEMMA WalkFrame ==
    ASSUME WalkInv, UNCHANGED walkVars, listed \in Nat, listed' \in Nat, listed <= listed'
    PROVE  WalkInv'
<1>1. UNCHANGED <<prices, wpc, walks, queue, visited, route, pos, seen, started, usable, skip>>
  BY DEF walkVars
<1>2. WalkTypes'
  BY <1>1 DEF WalkInv, WalkTypes
<1>3. Walk'
  BY <1>1 DEF WalkInv, Walk, Reached
<1>4. Ages'
  BY <1>1 DEF WalkInv, Ages
<1>5. RouteValid'
  <2>1. SUFFICES ASSUME NEW t \in Tokens, prices'[t] # None PROVE Routed(t)'
    BY RoutesOfAllPrimed
  <2>2. prices[t] # None /\ Routed(t)
    BY <1>1, <2>1, RoutesOfAll DEF WalkInv
  <2>3. ASSUME NEW s PROVE Behind(s, t)' <=> Behind(s, t)
    BY <1>1 DEF Behind
  <2>4. prices[t].hops # <<>> => Last(prices[t].hops) \in Nat
    BY <2>2, PriceTypes, Constants DEF WalkInv
  <2>5. prices[t].hops # <<>> => Last(prices[t].hops) <= listed'
    BY <2>2, <2>4 DEF Routed
  <2>6. QED
    BY <1>1, <2>2, <2>3, <2>5 DEF Routed
<1>6. Chains'
  BY <1>1 DEF WalkInv, Chains
<1>7. QED
  BY <1>2, <1>3, <1>4, <1>5, <1>6 DEF WalkInv

\* f, when the price of ETH could not be had.
LEMMA CoinbaseFailed == WalkInv /\ CoinbaseFails => WalkInv'
<1>1. SUFFICES ASSUME WalkInv, CoinbaseFails PROVE WalkInv'
  OBVIOUS
<1>2. /\ wpc = "first" /\ wpc' = "idle" /\ started' = TRUE
      /\ UNCHANGED <<prices, walks, queue, visited, route, pos, seen, usable, skip, listed>>
  BY <1>1 DEF CoinbaseFails, poolVars
<1>3. WalkTypes'
  BY <1>1, <1>2 DEF WalkInv, WalkTypes
<1>4. Walk' /\ Ages'
  <2>1. \A t \in Tokens : prices[t] = None
    BY <1>1, <1>2 DEF WalkInv, Walk
  <2>2. ~Reached'
    BY <1>2, <2>1, FirstRoot DEF Reached
  <2>3. QED
    BY <1>2, <2>1, <2>2 DEF Walk, Ages
<1>5. RouteValid' /\ Chains'
  BY <1>1, <1>2 DEF WalkInv, RouteValid, Chains
<1>6. QED
  BY <1>3, <1>4, <1>5 DEF WalkInv

\* A walk begins: the roots have their price of this walk, and all other prices are older.
LEMMA BeginsWalk == WalkInv /\ PoolTypes /\ BeginWalk => WalkInv'
<1>1. SUFFICES ASSUME WalkInv, PoolTypes, BeginWalk PROVE WalkInv'
  OBVIOUS
<1>2. /\ wpc \in {"first", "idle"} /\ walks < MaxWalks
      /\ wpc' = "walk" /\ walks' = walks + 1 /\ seen' = listed
      /\ queue' = RootSeq /\ visited' = Roots /\ pos' = 1 /\ route' = <<>>
      /\ prices' = [t \in Tokens |->
            IF t \in Roots THEN [walk |-> walks + 1, hops |-> <<>>] ELSE prices[t]]
      /\ usable' = {p \in Slice : Usable(p)} /\ skip' = lost
      /\ listed' = listed /\ started' = started
  BY <1>1 DEF BeginWalk, poolVars
<1>3. /\ WalkTypes /\ walks \in Nat /\ listed \in Nat
      /\ lost \subseteq 1..listed /\ Slice \subseteq PoolIds
  BY <1>1, Constants DEF WalkInv, WalkTypes, PoolTypes, Slice
<1> DEFINE given == [walk |-> walks + 1, hops |-> <<>>]
<1>4. given # None /\ given \in Prices /\ given.walk = walks + 1 /\ given.hops = <<>>
  <2>1. <<>> \in Seq(PoolIds) /\ walks + 1 \in Nat
    BY <1>3
  <2>2. given # None
    BY <2>1, PriceIsNotNone
  <2>3. walks + 1 \in 1..MaxWalks
    BY <1>2, <1>3, Constants
  <2>4. given \in Prices
    BY <2>1, <2>3 DEF Prices
  <2>5. QED
    BY <2>2, <2>4
<1> HIDE DEF given
<1>5. /\ \A t \in Roots : prices'[t] = given
      /\ \A t \in Tokens \ Roots : prices'[t] = prices[t]
  BY <1>2, Constants DEF given
<1>6. WalkTypes'
  <2>1. prices' \in [Tokens -> Prices]
    BY <1>2, <1>3, <1>4 DEF WalkTypes, given
  <2>2. /\ queue' \in Seq(Tokens) /\ queue' # <<>> /\ IsInjective(queue')
        /\ ToSet(queue') = Roots
    BY <1>2, PricesAssumption DEF Roots
  <2>3. walks' \in 0..MaxWalks
    BY <1>2, <1>3, Constants
  <2>4. /\ seen' \in 0..listed' /\ pos' \in 1..(seen' + 1) /\ usable' \subseteq PoolIds
        /\ skip' \subseteq 1..listed'
    BY <1>2, <1>3
  <2>5. route' \in Seq(PoolIds)
    BY <1>2
  <2>6. QED
    BY <1>2, <1>3, <2>1, <2>2, <2>3, <2>4, <2>5, Constants DEF WalkTypes
<1>7. ASSUME NEW t \in Tokens, prices[t] # None PROVE prices[t].walk < walks + 1
  BY <1>1, <1>3, <1>7, PriceTypes DEF WalkInv, Ages
<1>8. Walk'
  <2>1. \A t \in visited' : prices'[t] # None /\ prices'[t].walk = walks'
    BY <1>2, <1>4, <1>5
  <2>2. \A t \in Tokens \ visited' : prices'[t] # None => prices'[t].walk < walks'
    BY <1>2, <1>5, <1>7
  <2>3. Head(queue') \in Roots
    BY <1>2, PricesAssumption, HeadIn DEF Roots
  <2>4. route' = prices'[Head(queue')].hops
    BY <1>2, <1>4, <1>5, <2>3
  <2>5. QED
    BY <1>2, <2>1, <2>2, <2>4 DEF Walk, Reached
<1>9. Ages'
  <2>1. SUFFICES ASSUME NEW t \in Tokens, prices'[t] # None PROVE prices'[t].walk <= walks'
    BY DEF Ages
  <2>2. CASE t \in Roots
    BY <1>2, <1>3, <1>4, <1>5, <2>2
  <2>3. CASE t \notin Roots
    <3>1. prices'[t] = prices[t] /\ prices[t] # None
      BY <1>5, <2>1, <2>3
    <3>2. prices[t].walk \in Nat /\ prices[t].walk < walks + 1
      BY <1>3, <1>7, <3>1, PriceTypes
    <3>3. QED
      BY <1>2, <1>3, <3>1, <3>2
  <2>4. QED
    BY <2>2, <2>3
<1>10. RouteValid'
  <2>1. SUFFICES ASSUME NEW t \in Tokens, prices'[t] # None PROVE Routed(t)'
    BY RoutesOfAllPrimed
  <2>2. CASE t \in Roots
    BY <1>4, <1>5, <2>2 DEF Routed
  <2>3. CASE t \notin Roots
    <3>1. prices'[t] = prices[t] /\ prices[t] # None
      BY <1>5, <2>1, <2>3
    <3>2. Routed(t)
      BY <1>1, <3>1, RoutesOfAll DEF WalkInv
    <3>3. ASSUME prices[t].hops # <<>>
          PROVE  \E s \in Ends(Last(prices[t].hops)) \ {t} : Behind(s, t)'
      <4>1. PICK s \in Ends(Last(prices[t].hops)) \ {t} : Behind(s, t)
        BY <3>2, <3>3 DEF Routed
      <4>2. s \in Tokens
        BY <1>3, <3>1, <3>3, PriceTypes, Constants
      <4>3. CASE s \in Roots
        <5>1. prices'[s] = given
          BY <1>5, <4>3
        <5>2. prices'[s].walk > prices'[t].walk
          BY <1>3, <1>4, <1>7, <3>1, <5>1, PriceTypes
        <5>3. QED
          BY <1>4, <4>1, <5>1, <5>2 DEF Behind
      <4>4. CASE s \notin Roots
        <5>1. prices'[s] = prices[s]
          BY <1>5, <4>2, <4>4
        <5>2. QED
          BY <3>1, <4>1, <5>1 DEF Behind
      <4>5. QED
        BY <4>3, <4>4
    <3>4. QED
      BY <1>2, <3>1, <3>2, <3>3 DEF Routed
  <2>4. QED
    BY <2>2, <2>3
<1>11. Chains'
  <2>1. SUFFICES ASSUME NEW t \in Tokens, prices'[t] # None PROVE HasRoute(prices'[t].hops, t)
    BY DEF Chains
  <2>2. CASE t \in Roots
    BY <1>4, <1>5, <2>2, NoHops
  <2>3. CASE t \notin Roots
    BY <1>1, <1>5, <2>1, <2>3 DEF WalkInv, Chains
  <2>4. QED
    BY <2>2, <2>3
<1>12. QED
  BY <1>6, <1>8, <1>9, <1>10, <1>11 DEF WalkInv

\* What a look at a pool does: the tokens new get the price given, which is that of the
\* head of the queue with the pool as a further hop.
Looks(new, head, given) ==
    /\ wpc = "walk" /\ UNCHANGED <<listed, wpc, walks, route, seen, started, usable, skip>>
    /\ pos \in PoolIds /\ pos <= seen /\ pos <= listed /\ pos' = pos + 1 /\ pos' \in 1..(seen + 1)
    /\ head = Head(queue) /\ head = Head(queue') /\ head \in visited /\ head \in Tokens
    /\ new \subseteq Tokens \ visited /\ new \cap Roots = {}
    /\ \A t \in new : t \in Ends(pos) /\ head \in Ends(pos) \ {t}
    /\ new # {} => Usable(pos) /\ pos \notin skip
    /\ Usable(pos) /\ pos \notin skip /\ head \in Ends(pos) => Ends(pos) \subseteq visited \cup new
    /\ visited' = visited \cup new
    /\ queue \in Seq(Tokens) /\ queue # <<>> /\ queue' \in Seq(Tokens) /\ queue' # <<>>
    /\ IsInjective(queue') /\ ToSet(queue') = ToSet(queue) \cup new
    /\ \E q \in Seq(Tokens) : queue' = queue \o q /\ ToSet(q) = new
    /\ walks \in 1..MaxWalks
    /\ prices[head] # None /\ prices[head].walk = walks /\ prices[head].hops = route
    /\ given # None /\ given \in Prices /\ given.walk = walks /\ given.hops # <<>>
    /\ given.hops = Append(route, pos) /\ Last(given.hops) = pos /\ Front(given.hops) = route
    /\ Len(given.hops) = Len(route) + 1 /\ route \in Seq(PoolIds)
    /\ prices' = [t \in Tokens |-> IF t \in new THEN given ELSE prices[t]]

LEMMA VisitLooks ==
    WalkInv /\ PoolTypes /\ Visit => \E new, head, given : Looks(new, head, given)
<1>1. SUFFICES ASSUME WalkInv, PoolTypes, Visit PROVE \E new, head, given : Looks(new, head, given)
  OBVIOUS
<1> DEFINE new == {t \in Ends(pos) \ visited :
                      pos \notin skip /\ Usable(pos) /\ Head(queue) \in Ends(pos)}
<1> DEFINE given == [walk |-> walks, hops |-> Append(route, pos)]
<1> DEFINE head == Head(queue)
<1>2. /\ wpc = "walk" /\ pos <= seen /\ pos' = pos + 1
      /\ visited' = visited \cup new /\ queue' = queue \o SetToSeq(new)
      /\ prices' = [t \in Tokens |-> IF t \in new THEN given ELSE prices[t]]
      /\ UNCHANGED <<listed, wpc, walks, route, seen, started, usable, skip>>
  BY <1>1 DEF Visit, poolVars
<1>3. WalkTypes /\ Walk /\ Reached /\ listed \in Nat /\ listed <= Len(PoolList)
  BY <1>1, <1>2, Constants DEF WalkInv, PoolTypes, Reached
<1>4. pos \in PoolIds /\ pos <= listed /\ seen \in Nat /\ pos' \in 1..(seen + 1)
  BY <1>2, <1>3, Constants DEF WalkTypes
<1>5. /\ queue \in Seq(Tokens) /\ queue # <<>> /\ IsInjective(queue)
      /\ ToSet(queue) \subseteq visited /\ visited \subseteq Tokens
  BY <1>2, <1>3 DEF WalkTypes
<1>6. head \in visited /\ head \in Tokens
  BY <1>5, HeadIn
<1>7. /\ new \subseteq Tokens \ visited /\ new \cap Roots = {}
      /\ \A t \in new : t \in Ends(pos) /\ head \in Ends(pos) \ {t}
      /\ new # {} => Usable(pos) /\ pos \notin skip
      /\ Usable(pos) /\ pos \notin skip /\ head \in Ends(pos) => Ends(pos) \subseteq visited \cup new
  <2>1. Roots \subseteq visited
    BY <1>3 DEF Walk
  <2>2. Ends(pos) \subseteq Tokens
    BY <1>4, Constants
  <2>3. QED
    BY <1>6, <2>1, <2>2
<1>8. /\ prices[head] # None /\ prices[head].walk = walks /\ prices[head].hops = route
      /\ route \in Seq(PoolIds)
  BY <1>2, <1>3, <1>6 DEF Walk, WalkTypes
<1>9. walks \in 1..MaxWalks /\ walks \in Nat
  <2>1. prices[head] \in [walk : 1..MaxWalks, hops : Seq(PoolIds)]
    BY <1>3, <1>6, <1>8, PriceTypes
  <2>2. QED
    BY <1>8, <2>1
<1>10. /\ given # None /\ given \in Prices /\ given.walk = walks /\ given.hops # <<>>
       /\ given.hops = Append(route, pos) /\ Last(given.hops) = pos /\ Front(given.hops) = route
       /\ Len(given.hops) = Len(route) + 1
  <2>1. Append(route, pos) \in Seq(PoolIds)
    BY <1>4, <1>8
  <2>2. given # None
    BY <1>9, <2>1, PriceIsNotNone
  <2>3. given \in Prices
    BY <1>9, <2>1 DEF Prices
  <2>4. ASSUME NEW r \in Seq(PoolIds), NEW p \in PoolIds
        PROVE  /\ Append(r, p) # <<>> /\ Last(Append(r, p)) = p
               /\ Front(Append(r, p)) = r /\ Len(Append(r, p)) = Len(r) + 1
    BY DEF Last, Front
  <2>5. QED
    BY <1>4, <1>8, <2>2, <2>3, <2>4
<1> HIDE DEF new
<1>11. /\ queue' \in Seq(Tokens) /\ IsInjective(queue') /\ queue' # <<>>
       /\ ToSet(queue') = ToSet(queue) \cup new /\ Head(queue') = head
       /\ \E q \in Seq(Tokens) : queue' = queue \o q /\ ToSet(q) = new
  <2>1. IsFiniteSet(new)
    BY <1>7, TokensFinite
  <2>2. SetToSeq(new) \in Seq(new) /\ IsInjective(SetToSeq(new)) /\ ToSet(SetToSeq(new)) = new
    BY <2>1, SeqOfSet
  <2>3. SetToSeq(new) \in Seq(Tokens)
    BY <1>7, <2>2
  <2>4. ToSet(queue) \cap ToSet(SetToSeq(new)) = {}
    BY <1>5, <1>7, <2>2
  <2>5. \E q \in Seq(Tokens) : queue' = queue \o q /\ ToSet(q) = new
    BY <1>2, <2>2, <2>3
  <2>6. /\ queue' \in Seq(Tokens) /\ IsInjective(queue') /\ queue' # <<>>
        /\ ToSet(queue') = ToSet(queue) \cup new /\ Head(queue') = Head(queue)
    <3>1. IsInjective(SetToSeq(new)) /\ ToSet(SetToSeq(new)) = new
      BY <2>2
    <3>2. QED
      BY <1>2, <1>5, <2>3, <2>4, <3>1, ConcatOnce
  <2>7. QED
    BY <2>5, <2>6
<1> HIDE DEF given, head
<1>12. head = Head(queue)
  BY DEF head
<1>13. Looks(new, head, given)
  BY <1>2, <1>4, <1>5, <1>6, <1>7, <1>8, <1>9, <1>10, <1>11, <1>12 DEF Looks
<1>14. QED
  BY <1>13

\* The prices after the look.
LEMMA LookPrices ==
    ASSUME NEW new, NEW head, NEW given, Looks(new, head, given)
    PROVE  /\ \A t \in new : prices'[t] = given
           /\ \A t \in Tokens \ new : prices'[t] = prices[t]
           /\ \A t \in visited : t \in Tokens => prices'[t] = prices[t]
BY DEF Looks

\* A pool is looked at, and prices the other token of it when that was not reached.
LEMMA Visits == WalkInv /\ PoolTypes /\ Visit => WalkInv'
<1>1. SUFFICES ASSUME WalkInv, PoolTypes, Visit PROVE WalkInv'
  OBVIOUS
<1>2. PICK new, head, given : Looks(new, head, given)
  BY <1>1, VisitLooks
<1>3. WalkTypes /\ Walk /\ Reached /\ wpc' = "walk" /\ walks \in Nat
  BY <1>1, <1>2, Constants DEF WalkInv, Reached, Looks
<1>4. /\ \A t \in new : prices'[t] = given
      /\ \A t \in Tokens \ new : prices'[t] = prices[t]
  BY <1>2, LookPrices
<1>5. /\ \A t \in visited : prices[t] # None /\ prices[t].walk = walks
      /\ \A t \in Tokens \ visited : prices[t] # None => prices[t].walk < walks
      /\ Roots \subseteq visited /\ visited \subseteq Tokens
  BY <1>3 DEF Walk, WalkTypes
<1>6. WalkTypes'
  <2>1. ToSet(queue') \subseteq visited' /\ visited' \subseteq Tokens
    BY <1>2, <1>3 DEF Looks, WalkTypes
  <2>2. prices' \in [Tokens -> Prices]
    BY <1>2, <1>3 DEF Looks, WalkTypes
  <2>3. QED
    BY <1>2, <1>3, <2>1, <2>2 DEF Looks, WalkTypes
<1>7. Walk'
  <2>1. Roots \subseteq visited' /\ walks' = walks
    BY <1>2, <1>5 DEF Looks
  <2>2. ASSUME NEW t \in visited' PROVE prices'[t] # None /\ prices'[t].walk = walks'
    BY <1>2, <1>4, <1>5, <2>1 DEF Looks
  <2>3. \A t \in Tokens \ visited' : prices'[t] # None => prices'[t].walk < walks'
    BY <1>2, <1>4, <1>5, <2>1 DEF Looks
  <2>4. route' = prices'[Head(queue')].hops
    <3>1. head \in Tokens \ new /\ Head(queue') = head /\ prices[head].hops = route /\ route' = route
      BY <1>2 DEF Looks
    <3>2. QED
      BY <1>4, <3>1
  <2>5. QED
    BY <1>3, <2>1, <2>2, <2>3, <2>4 DEF Walk
<1>8. Ages'
  <2>1. SUFFICES ASSUME NEW t \in Tokens, prices'[t] # None PROVE prices'[t].walk <= walks'
    BY DEF Ages
  <2>2. walks' = walks /\ given.walk = walks
    BY <1>2 DEF Looks
  <2>3. CASE t \in new
    BY <1>3, <1>4, <2>2, <2>3
  <2>4. CASE t \notin new
    BY <1>1, <1>4, <2>1, <2>2, <2>4 DEF WalkInv, Ages
  <2>5. QED
    BY <2>3, <2>4
<1>9. RouteValid'
  <2>1. SUFFICES ASSUME NEW t \in Tokens, prices'[t] # None PROVE Routed(t)'
    BY RoutesOfAllPrimed
  <2>2. listed' = listed
    BY <1>2 DEF Looks
  <2>3. CASE t \in new
    <3>1. prices'[t] = given /\ prices'[head] = prices[head]
      BY <1>2, <1>4, <2>3 DEF Looks
    <3>2. head \in Ends(pos) \ {t} /\ Behind(head, t)'
      BY <1>2, <2>3, <3>1 DEF Looks, Behind
    <3>3. /\ t \in Ends(pos) /\ t \notin Roots /\ pos <= listed
          /\ given.hops # <<>> /\ Last(given.hops) = pos
      BY <1>2, <2>3 DEF Looks
    <3>4. QED
      BY <2>2, <3>1, <3>2, <3>3 DEF Routed
  <2>4. CASE t \notin new
    <3>1. prices'[t] = prices[t] /\ prices[t] # None
      BY <1>4, <2>1, <2>4
    <3>2. Routed(t)
      BY <1>1, <3>1, RoutesOfAll DEF WalkInv
    <3>3. ASSUME prices[t].hops # <<>>
          PROVE  \E s \in Ends(Last(prices[t].hops)) \ {t} : Behind(s, t)'
      <4>1. PICK s \in Ends(Last(prices[t].hops)) \ {t} : Behind(s, t)
        BY <3>2, <3>3 DEF Routed
      <4>2. s \in Tokens
        BY <1>3, <3>1, <3>3, PriceTypes, Constants
      <4>3. CASE s \in new
        <5>1. /\ prices'[s] = given /\ s \in Tokens \ visited
              /\ given.walk = walks /\ given # None
          BY <1>2, <1>4, <4>2, <4>3 DEF Looks
        <5>2. prices[s] # None /\ prices[s].walk < walks
          BY <1>5, <4>1, <5>1 DEF Behind
        <5>3. prices[s].walk \in Nat /\ prices[t].walk \in Nat
          BY <1>3, <3>1, <4>2, <5>2, PriceTypes
        <5>4. prices[t].walk <= prices[s].walk
          BY <4>1, <5>3 DEF Behind
        <5>5. prices'[s].walk > prices'[t].walk
          BY <1>3, <3>1, <5>1, <5>2, <5>3, <5>4
        <5>6. QED
          BY <4>1, <5>1, <5>5 DEF Behind
      <4>4. CASE s \notin new
        <5>1. prices'[s] = prices[s]
          BY <1>4, <4>2, <4>4
        <5>2. QED
          BY <3>1, <4>1, <5>1 DEF Behind
      <4>5. QED
        BY <4>3, <4>4
    <3>4. QED
      BY <2>2, <3>1, <3>2, <3>3 DEF Routed
  <2>5. QED
    BY <2>3, <2>4
<1>10. Chains'
  <2>1. SUFFICES ASSUME NEW t \in Tokens, prices'[t] # None PROVE HasRoute(prices'[t].hops, t)
    BY DEF Chains
  <2>2. CASE t \in new
    <3>1. /\ head \in Tokens /\ prices[head] # None /\ prices[head].hops = route
          /\ route \in Seq(PoolIds) /\ pos \in PoolIds /\ head \in Ends(pos) /\ t \in Ends(pos)
          /\ given.hops = Append(route, pos)
      BY <1>2, <2>2 DEF Looks
    <3>2. HasRoute(route, head)
      BY <1>1, <3>1 DEF WalkInv, Chains
    <3>3. HasRoute(Append(route, pos), t)
      BY <3>1, <3>2, OneHop
    <3>4. QED
      BY <1>4, <2>2, <3>1, <3>3
  <2>3. CASE t \notin new
    BY <1>1, <1>4, <2>1, <2>3 DEF WalkInv, Chains
  <2>4. QED
    BY <2>2, <2>3
<1>11. QED
  BY <1>6, <1>7, <1>8, <1>9, <1>10 DEF WalkInv

\* The head leaves the queue; after the last one the walk is over.
LEMMA Dequeues == WalkInv /\ PoolTypes /\ Dequeue => WalkInv'
<1>1. SUFFICES ASSUME WalkInv, PoolTypes, Dequeue PROVE WalkInv'
  OBVIOUS
<1>2. /\ wpc = "walk" /\ pos' = 1 /\ queue' = Tail(queue)
      /\ queue' = <<>> => wpc' = "idle" /\ started' = TRUE /\ route' = <<>>
      /\ queue' # <<>> => /\ wpc' = wpc /\ started' = started
                          /\ route' = prices[Head(queue')].hops
      /\ UNCHANGED <<listed, prices, walks, visited, seen, usable, skip>>
  BY <1>1 DEF Dequeue, poolVars
<1>3. WalkTypes /\ Walk /\ listed \in Nat
  BY <1>1, Constants DEF WalkInv, PoolTypes
<1>4. /\ queue' \in Seq(Tokens) /\ IsInjective(queue')
      /\ ToSet(queue') \subseteq visited /\ visited \subseteq Tokens
  <2>1. queue \in Seq(Tokens) /\ queue # <<>> /\ IsInjective(queue)
        /\ ToSet(queue) \subseteq visited /\ visited \subseteq Tokens
    BY <1>2, <1>3 DEF WalkTypes
  <2>2. QED
    BY <1>2, <2>1, TailOnce
<1>5. queue' # <<>> => Head(queue') \in visited
  BY <1>4, HeadIn
<1>6. \A t \in visited : prices[t] # None /\ prices[t].walk = walks
  BY <1>2, <1>3 DEF Walk, Reached
<1>7. WalkTypes'
  <2>1. route' \in Seq(PoolIds)
    <3>1. CASE queue' = <<>>
      <4>1. route' = <<>>
        BY <1>2, <3>1
      <4>2. QED
        BY <4>1
    <3>2. CASE queue' # <<>>
      <4>1. Head(queue') \in Tokens /\ prices[Head(queue')] # None
        BY <1>4, <1>5, <1>6, <3>2
      <4>2. prices[Head(queue')].hops \in Seq(PoolIds)
        BY <1>3, <4>1, PriceTypes
      <4>3. QED
        BY <1>2, <3>2, <4>2
    <3>3. QED
      BY <3>1, <3>2
  <2>2. pos' \in 1..(seen' + 1)
    BY <1>2, <1>3 DEF WalkTypes
  <2>3. (wpc' = "walk") = (queue' # <<>>) /\ wpc' \in {"walk", "idle"} /\ started' \in BOOLEAN
    BY <1>2, <1>3 DEF WalkTypes
  <2>4. QED
    BY <1>2, <1>3, <1>4, <2>1, <2>2, <2>3 DEF WalkTypes
<1>8. Walk'
  <2>1. SUFFICES ASSUME wpc' = "walk" PROVE queue' # <<>>
    BY <1>2, <1>3 DEF Walk, Reached
  <2>2. QED
    BY <1>2, <2>1
<1>9. Ages'
  BY <1>1, <1>2 DEF WalkInv, Ages
<1>10. RouteValid' /\ Chains'
  BY <1>1, <1>2 DEF WalkInv, RouteValid, Chains
<1>11. QED
  BY <1>7, <1>8, <1>9, <1>10 DEF WalkInv

\* The process dies, with all its prices.
LEMMA CrashWalk == WalkInv /\ PoolTypes /\ Crash => WalkInv'
<1>1. SUFFICES ASSUME WalkInv, PoolTypes, Crash PROVE WalkInv'
  OBVIOUS
<1>2. /\ wpc' = "down" /\ prices' = [t \in Tokens |-> None]
      /\ queue' = <<>> /\ visited' = {} /\ route' = <<>> /\ pos' = 1 /\ seen' = 0
      /\ started' = FALSE /\ usable' = {} /\ skip' = {} /\ walks' = walks /\ listed' = listed
  BY <1>1 DEF Crash, NoPrices
<1>3. listed \in Nat /\ walks \in 0..MaxWalks
  BY <1>1, Constants DEF WalkInv, WalkTypes, PoolTypes
<1>4. WalkTypes'
  <2>1. IsInjective(queue') /\ ToSet(queue') = {}
    BY <1>2, EmptyOnce
  <2>2. prices' \in [Tokens -> Prices]
    BY <1>2 DEF Prices
  <2>3. /\ queue' \in Seq(Tokens) /\ route' \in Seq(PoolIds)
        /\ (wpc' = "walk") = (queue' # <<>>)
    BY <1>2
  <2>4. seen' \in 0..listed' /\ pos' \in 1..(seen' + 1)
    BY <1>2, <1>3
  <2>5. QED
    BY <1>2, <1>3, <2>1, <2>2, <2>3, <2>4 DEF WalkTypes
<1>5. Walk' /\ Ages' /\ RouteValid' /\ Chains'
  BY <1>2 DEF Walk, Reached, Ages, RouteValid, Chains
<1>6. QED
  BY <1>4, <1>5 DEF WalkInv

LEMMA CrashPools == PoolTypes /\ Crash => PoolTypes'
BY DEF PoolTypes, Crash

LEMMA StartWalk == WalkInv /\ Start => WalkInv'
<1>1. SUFFICES ASSUME WalkInv, Start PROVE WalkInv'
  OBVIOUS
<1>2. /\ wpc = "down" /\ wpc' = "first"
      /\ UNCHANGED <<prices, walks, queue, visited, route, pos, seen, started, usable, skip,
                     listed>>
  BY <1>1 DEF Start
<1>3. WalkTypes'
  BY <1>1, <1>2 DEF WalkInv, WalkTypes
<1>4. Walk' /\ Ages'
  BY <1>1, <1>2 DEF WalkInv, Walk, Reached, Ages
<1>5. RouteValid' /\ Chains'
  BY <1>1, <1>2 DEF WalkInv, RouteValid, Chains
<1>6. QED
  BY <1>3, <1>4, <1>5 DEF WalkInv

LEMMA StartPools == PoolTypes /\ Start => PoolTypes'
<1>1. SUFFICES ASSUME PoolTypes, Start PROVE PoolTypes'
  OBVIOUS
<1>2. /\ listed' = listed /\ atStart' = listed /\ lost' \in SUBSET (1..listed)
      /\ stage' = [p \in PoolIds |->
            IF p \in (1..listed) \ lost' /\ stage[p] = "none" THEN "default" ELSE stage[p]]
  BY <1>1 DEF Start
<1>3. stage' \in [PoolIds -> {"none", "default", "tick"}]
  BY <1>1, <1>2 DEF PoolTypes
<1>4. QED
  BY <1>1, <1>2, <1>3, Constants DEF PoolTypes

LEMMA InitWalkInv == Init => WalkInv /\ PoolTypes
<1>1. SUFFICES ASSUME Init PROVE WalkInv /\ PoolTypes
  OBVIOUS
<1>2. /\ listed = InitListed /\ atStart = InitListed /\ lost = {}
      /\ stage = [p \in PoolIds |-> IF p <= listed THEN "tick" ELSE "none"]
      /\ prices = [t \in Tokens |-> None] /\ wpc = "down" /\ walks = 0
      /\ queue = <<>> /\ visited = {} /\ route = <<>> /\ pos = 1 /\ seen = 0
      /\ started = FALSE /\ usable = {} /\ skip = {}
  BY <1>1 DEF Init, NoPrices
<1>3. PoolTypes
  BY <1>2, Constants DEF PoolTypes
<1>4. WalkTypes
  <2>1. IsInjective(queue) /\ ToSet(queue) = {}
    BY <1>2, EmptyOnce
  <2>2. prices \in [Tokens -> Prices]
    BY <1>2 DEF Prices
  <2>3. queue \in Seq(Tokens) /\ route \in Seq(PoolIds) /\ (wpc = "walk") = (queue # <<>>)
    BY <1>2
  <2>4. seen \in 0..listed /\ pos \in 1..(seen + 1) /\ walks \in 0..MaxWalks
    BY <1>2, Constants
  <2>5. QED
    BY <1>2, <2>1, <2>2, <2>3, <2>4 DEF WalkTypes
<1>5. Walk /\ Ages /\ RouteValid /\ Chains
  BY <1>2 DEF Walk, Reached, Ages, RouteValid, Chains
<1>6. QED
  BY <1>3, <1>4, <1>5 DEF WalkInv
-----------------------------------------------------------------------------
(* The search *)

\* A pool that is usable stays so while the process runs.
UsableStays == \A p \in PoolIds : Usable(p) => Usable(p)'

LEMMA UsableKept ==
    ASSUME PoolTypes, listed' \in Nat, listed <= listed',
           \A t \in Tokens : Copied(t) => Copied(t)',
           \A p \in PoolIds : stage[p] = "tick" => stage'[p] = "tick"
    PROVE  UsableStays
<1>1. SUFFICES ASSUME NEW p \in PoolIds, Usable(p) PROVE Usable(p)'
  BY DEF UsableStays
<1>2. p \in Nat /\ listed \in Nat /\ Ends(p) \subseteq Tokens
  BY Constants DEF PoolTypes
<1>3. p <= listed'
  BY <1>1, <1>2 DEF Usable
<1>4. QED
  BY <1>1, <1>2, <1>3 DEF Usable

LEMMA UsableSame == UNCHANGED <<tokenVars, poolVars>> => UsableStays
BY DEF UsableStays, Usable, Copied, tokenVars, poolVars

\* How far what was reached is.
LEMMA FarNumber ==
    ASSUME WalkTypes, Walk, Reached
    PROVE  /\ visited \subseteq Tokens
           /\ \A t \in visited : t \in Tokens /\ prices[t] # None /\ Far(t) \in Nat
<1>1. visited \subseteq Tokens
  BY DEF WalkTypes
<1>2. ASSUME NEW t \in visited PROVE t \in Tokens /\ prices[t] # None /\ Far(t) \in Nat
  <2>1. t \in Tokens /\ prices[t] # None
    BY <1>1 DEF Walk
  <2>2. prices[t].hops \in Seq(PoolIds)
    BY <2>1, PriceTypes
  <2>3. QED
    BY <2>1, <2>2 DEF Far
<1>3. QED
  BY <1>1, <1>2

\* The queue while the walk runs.
LEMMA QueueNumber ==
    ASSUME WalkTypes, Walk, wpc = "walk"
    PROVE  /\ Reached /\ queue \in Seq(Tokens) /\ queue # <<>> /\ ToSet(queue) \subseteq visited
           /\ DOMAIN queue = 1..Len(queue) /\ Len(queue) \in Nat /\ 1 \in DOMAIN queue
           /\ Head(queue) = queue[1] /\ Head(queue) \in visited
           /\ \A i \in DOMAIN queue : queue[i] \in visited /\ Far(queue[i]) \in Nat
<1>1. Reached /\ queue \in Seq(Tokens) /\ queue # <<>> /\ ToSet(queue) \subseteq visited
  BY DEF WalkTypes, Reached
<1>2. /\ DOMAIN queue = 1..Len(queue) /\ Len(queue) \in Nat /\ 1 \in DOMAIN queue
      /\ Head(queue) = queue[1]
  BY <1>1
<1>3. \A i \in DOMAIN queue : queue[i] \in visited
  BY <1>1 DEF ToSet
<1>4. \A i \in DOMAIN queue : Far(queue[i]) \in Nat
  BY <1>1, <1>3, FarNumber
<1>5. QED
  BY <1>1, <1>2, <1>3, <1>4

\* An action that does not touch the walk.
LEMMA SearchFrame == SearchInv /\ UNCHANGED walkVars /\ UsableStays /\ WalkTypes => SearchInv'
<1>1. SUFFICES ASSUME SearchInv, UNCHANGED walkVars, UsableStays, WalkTypes PROVE SearchInv'
  OBVIOUS
<1>2. UNCHANGED <<prices, wpc, walks, queue, visited, pos, seen, usable, skip>>
  BY <1>1 DEF walkVars
<1>3. Reached' = Reached
  BY <1>2 DEF Reached
<1>4. \A t \in Tokens, p \in PoolIds : Over(t, p)' <=> Over(t, p)
  BY <1>2 DEF Over
<1>5. usable \subseteq PoolIds
  BY <1>1 DEF WalkTypes
<1>6. Routes'
  <2>1. \A t \in Tokens, p \in PoolIds : Over(t, p)' => Usable(p)'
    BY <1>1, <1>4 DEF SearchInv, Routes, UsableStays
  <2>2. ASSUME Reached PROVE \A p \in usable : p <= seen /\ Usable(p)' /\ p \notin skip
    BY <1>1, <1>5, <2>2 DEF SearchInv, Routes, UsableStays
  <2>3. ASSUME Reached
        PROVE  \A t \in Tokens, p \in PoolIds :
                  /\ Over(t, p)' /\ prices[t].walk = walks => p \notin skip
                  /\ Over(t, p)' /\ prices[t].walk < walks => p \in usable \/ p \in skip
    BY <1>1, <1>4, <2>3 DEF SearchInv, Routes
  <2>4. QED
    BY <1>2, <1>3, <2>1, <2>2, <2>3 DEF Routes
<1>7. \A t : Far(t)' = Far(t)
  BY <1>2 DEF Far
<1>8. Breadth'
  BY <1>1, <1>2 DEF SearchInv, Breadth, Far
<1>9. Spread'
  BY <1>1, <1>2, <1>3 DEF SearchInv, Spread, Far
<1>10. QED
  BY <1>6, <1>8, <1>9 DEF SearchInv

\* Without prices there is nothing to say of the search.
LEMMA NotSearched ==
    ASSUME \A t \in Tokens : prices[t] = None, wpc # "walk"
    PROVE  SearchInv
<1>1. ~Reached
  BY FirstRoot DEF Reached
<1>2. QED
  BY <1>1 DEF SearchInv, Routes, Breadth, Spread, Over

LEMMA NotSearchedPrimed ==
    ASSUME \A t \in Tokens : prices'[t] = None, wpc' # "walk"
    PROVE  SearchInv'
<1>1. ~Reached'
  BY FirstRoot DEF Reached
<1>2. QED
  BY <1>1 DEF SearchInv, Routes, Breadth, Spread, Over

LEMMA CoinbaseSearch == WalkInv /\ CoinbaseFails => SearchInv'
<1>1. SUFFICES ASSUME WalkInv, CoinbaseFails PROVE SearchInv'
  OBVIOUS
<1>2. wpc = "first" /\ wpc' = "idle" /\ prices' = prices
  BY <1>1 DEF CoinbaseFails
<1>3. \A t \in Tokens : prices'[t] = None
  BY <1>1, <1>2 DEF WalkInv, Walk
<1>4. QED
  BY <1>2, <1>3, NotSearchedPrimed

LEMMA CrashSearch == Crash => SearchInv'
<1>1. ASSUME Crash PROVE (\A t \in Tokens : prices'[t] = None) /\ wpc' # "walk"
  BY <1>1 DEF Crash, NoPrices
<1>2. QED
  BY <1>1, NotSearchedPrimed

LEMMA StartSearch == WalkInv /\ Start => SearchInv'
<1>1. SUFFICES ASSUME WalkInv, Start PROVE SearchInv'
  OBVIOUS
<1>2. wpc = "down" /\ wpc' = "first" /\ prices' = prices
  BY <1>1 DEF Start
<1>3. \A t \in Tokens : prices'[t] = None
  BY <1>1, <1>2 DEF WalkInv, Walk
<1>4. QED
  BY <1>2, <1>3, NotSearchedPrimed

LEMMA InitSearch == Init => SearchInv
<1>1. ASSUME Init PROVE (\A t \in Tokens : prices[t] = None) /\ wpc # "walk"
  BY <1>1 DEF Init, NoPrices
<1>2. QED
  BY <1>1, NotSearched

\* The roots are reached, at no distance, and what is usable now is what may be used.
LEMMA BeginsSearch == WalkInv /\ SearchInv /\ PoolTypes /\ BeginWalk => SearchInv'
<1>1. SUFFICES ASSUME WalkInv, SearchInv, PoolTypes, BeginWalk PROVE SearchInv'
  OBVIOUS
<1> DEFINE given == [walk |-> walks + 1, hops |-> <<>>]
<1>2. /\ wpc' = "walk" /\ walks' = walks + 1 /\ seen' = listed
      /\ queue' = RootSeq /\ visited' = Roots /\ pos' = 1
      /\ prices' = [t \in Tokens |-> IF t \in Roots THEN given ELSE prices[t]]
      /\ usable' = {p \in Slice : Usable(p)} /\ skip' = lost
      /\ UNCHANGED <<tokenVars, poolVars>>
  BY <1>1 DEF BeginWalk
<1>3. given.hops = <<>> /\ given.walk = walks + 1
  OBVIOUS
<1> HIDE DEF given
<1>4. /\ \A t \in Roots : prices'[t] = given
      /\ \A t \in Tokens \ Roots : prices'[t] = prices[t]
  BY <1>2, Constants
<1>5. \A p \in PoolIds : Usable(p) => Usable(p)'
  BY <1>2, UsableSame DEF UsableStays
<1>6. ASSUME NEW t \in Tokens, NEW p \in PoolIds, Over(t, p)'
      PROVE  Usable(p) /\ prices'[t].walk # walks'
  <2>1. t \notin Roots
    <3>1. SUFFICES ASSUME t \in Roots PROVE FALSE
      OBVIOUS
    <3>2. prices'[t].hops = <<>>
      BY <1>3, <1>4, <3>1
    <3>3. 1..Len(prices'[t].hops) = {}
      BY <3>2
    <3>4. QED
      BY <1>6, <3>3 DEF Over
  <2>2. Over(t, p) /\ prices'[t] = prices[t] /\ prices[t] # None
    BY <1>4, <1>6, <2>1 DEF Over
  <2>3. prices[t].walk \in Nat /\ prices[t].walk <= walks /\ walks \in Nat
    BY <1>1, <2>2, PriceTypes, Constants DEF WalkInv, WalkTypes, Ages
  <2>4. prices'[t].walk # walks'
    BY <1>2, <2>2, <2>3
  <2>5. QED
    BY <1>1, <2>2, <2>4 DEF SearchInv, Routes
<1>7. Routes'
  <2>1. Slice = (1..listed) \ lost /\ Slice \subseteq PoolIds
    BY <1>1, Constants DEF Slice, PoolTypes
  <2>2. \A p \in PoolIds : Usable(p) => p \in usable' \/ p \in skip'
    BY <1>2, <2>1, Constants DEF Usable
  <2>3. \A t \in Tokens, p \in PoolIds : Over(t, p)' => Usable(p)' /\ (p \in usable' \/ p \in skip')
    BY <1>5, <1>6, <2>2
  <2>4. \A p \in usable' : p <= seen' /\ Usable(p)' /\ p \notin skip'
    BY <1>2, <1>5, <2>1 DEF Usable
  <2>5. \A t \in Tokens, p \in PoolIds : Over(t, p)' => prices'[t].walk # walks'
    BY <1>6
  <2>6. QED
    BY <2>3, <2>4, <2>5 DEF Routes
<1> DEFINE far(t) == Len(prices'[t].hops)
<1>8. \A t \in Roots : far(t) = 0
  BY <1>3, <1>4
<1>9. \A i \in DOMAIN queue' : queue'[i] \in Roots
  BY <1>2 DEF Roots, ToSet
<1>10. ToSet(queue') = Roots /\ Head(queue') \in Roots
  BY <1>2, PricesAssumption, HeadIn DEF Roots
<1> HIDE DEF far
<1>11. Breadth'
  <2>1. \A i, j \in DOMAIN queue' : i <= j => far(queue'[i]) <= far(queue'[j])
    BY <1>8, <1>9
  <2>2. \A t \in visited' : far(t) <= far(Head(queue')) + 1
    BY <1>2, <1>8, <1>10
  <2>3. \A t \in visited' \ ToSet(queue') : far(t) <= far(Head(queue'))
    BY <1>2, <1>10
  <2>4. QED
    BY <2>1, <2>2, <2>3 DEF Breadth, Far, far
<1>12. Spread'
  <2>1. \A t \in visited' \ ToSet(queue') : FALSE
    BY <1>2, <1>10
  <2>2. \A p \in usable' : ~(p < pos')
    BY <1>2 DEF Slice
  <2>3. QED
    BY <2>1, <2>2 DEF Spread
<1>13. QED
  BY <1>7, <1>11, <1>12 DEF SearchInv

\* A look leaves the distances of what was reached, and what it reaches is one pool
\* further than the head.
LEMMA LookFar ==
    ASSUME WalkTypes, Walk, NEW new, NEW head, NEW given, Looks(new, head, given)
    PROVE  /\ Reached /\ Reached' /\ visited \subseteq Tokens
           /\ \A t \in visited : t \notin new /\ Far(t) \in Nat /\ Len(prices'[t].hops) = Far(t)
           /\ \A t \in new : Len(prices'[t].hops) = Far(head) + 1
           /\ head \in visited /\ Far(head) \in Nat
<1>1. Reached /\ Reached' /\ head \in visited
  BY DEF Looks, Reached
<1>2. visited \subseteq Tokens /\ \A t \in visited : Far(t) \in Nat
  BY <1>1, FarNumber
<1>3. \A t \in visited : t \notin new /\ prices'[t] = prices[t]
  BY <1>2 DEF Looks
<1>4. \A t \in new : prices'[t] = given
  BY LookPrices
<1>5. Far(head) = Len(route) /\ Len(given.hops) = Len(route) + 1
  BY DEF Looks, Far
<1>6. QED
  BY <1>1, <1>2, <1>3, <1>4, <1>5 DEF Far

LEMMA VisitsSearch == WalkInv /\ SearchInv /\ PoolTypes /\ Visit => SearchInv'
<1>1. SUFFICES ASSUME WalkInv, SearchInv, PoolTypes, Visit PROVE SearchInv'
  OBVIOUS
<1>2. PICK new, head, given : Looks(new, head, given)
  BY <1>1, VisitLooks
<1>3. WalkTypes /\ Walk
  BY <1>1 DEF WalkInv
<1> DEFINE far(t) == Len(prices'[t].hops)
<1>4. /\ Reached /\ Reached' /\ visited \subseteq Tokens
      /\ \A t \in visited : t \notin new /\ Far(t) \in Nat /\ far(t) = Far(t)
      /\ \A t \in new : far(t) = Far(head) + 1
      /\ head \in visited /\ Far(head) \in Nat
  BY <1>2, <1>3, LookFar
<1> HIDE DEF far
<1>5. /\ wpc = "walk" /\ wpc' = "walk" /\ walks' = walks /\ seen' = seen /\ usable' = usable
      /\ pos \in PoolIds /\ pos' = pos + 1 /\ visited' = visited \cup new
      /\ head = Head(queue) /\ head = Head(queue') /\ given.walk = walks
      /\ Last(given.hops) = pos /\ new \subseteq Tokens /\ walks \in Nat
  BY <1>2, Constants DEF Looks
<1>6. UsableStays
  BY <1>1, UsableSame DEF Visit
<1>7. /\ \A t \in new : prices'[t] = given
      /\ \A t \in Tokens \ new : prices'[t] = prices[t]
  BY <1>2, LookPrices
<1>8. Routes'
  <2>1. ASSUME NEW t \in new, NEW p \in PoolIds, Over(t, p)' PROVE Usable(p) /\ p \notin skip
    <3>1. /\ head \in Tokens /\ prices[head] # None /\ prices[head].hops = route
          /\ prices[head].walk = walks /\ route \in Seq(PoolIds) /\ pos \in PoolIds
          /\ given.hops = Append(route, pos) /\ Usable(pos) /\ pos \notin skip
      BY <1>2 DEF Looks
    <3>2. PICK i \in 1..Len(Append(route, pos)) : Append(route, pos)[i] = p
      BY <1>7, <2>1, <3>1 DEF Over
    <3>3. p = pos \/ \E j \in 1..Len(route) : route[j] = p
      BY <3>1, <3>2
    <3>4. CASE p = pos
      BY <3>1, <3>4
    <3>5. CASE \E j \in 1..Len(route) : route[j] = p
      <4>1. Over(head, p)
        BY <3>1, <3>5 DEF Over
      <4>2. QED
        BY <1>1, <1>4, <3>1, <4>1 DEF SearchInv, Routes
    <3>6. QED
      BY <3>3, <3>4, <3>5
  <2>2. ASSUME NEW t \in Tokens \ new PROVE prices'[t] = prices[t] /\ \A p : Over(t, p)' <=> Over(t, p)
    BY <1>7 DEF Over
  <2>3. \A t \in new : prices'[t].walk = walks
    BY <1>5, <1>7
  <2>4. \A p \in usable : p \in PoolIds /\ p <= seen /\ Usable(p) /\ p \notin skip
    BY <1>1, <1>3, <1>4 DEF SearchInv, Routes, WalkTypes
  <2>5. ASSUME NEW t \in Tokens, NEW p \in PoolIds, Over(t, p)'
        PROVE  /\ Usable(p)
               /\ prices'[t].walk = walks => p \notin skip
               /\ prices'[t].walk < walks => p \in usable \/ p \in skip
    <3>1. CASE t \in new
      BY <1>5, <2>1, <2>3, <2>5, <3>1
    <3>2. CASE t \notin new
      BY <1>1, <1>4, <2>2, <2>5, <3>2 DEF SearchInv, Routes
    <3>3. QED
      BY <3>1, <3>2
  <2>6. /\ \A t \in Tokens, p \in PoolIds : Over(t, p)' => Usable(p)'
        /\ \A p \in usable : Usable(p)'
    BY <1>6, <2>4, <2>5 DEF UsableStays
  <2>7. skip' = skip
    BY <1>2 DEF Looks
  <2>8. QED
    BY <1>5, <2>4, <2>5, <2>6, <2>7 DEF Routes
<1>9. /\ ToSet(queue') = ToSet(queue) \cup new /\ ToSet(queue) \subseteq visited
      /\ visited' \ ToSet(queue') \subseteq visited \ ToSet(queue)
  <2>1. ToSet(queue') = ToSet(queue) \cup new
    BY <1>2 DEF Looks
  <2>2. QED
    BY <1>3, <1>5, <2>1 DEF WalkTypes
<1>10. Breadth'
  <2>1. /\ \A i, j \in DOMAIN queue : i <= j => Far(queue[i]) <= Far(queue[j])
        /\ \A t \in visited : Far(t) <= Far(head) + 1
        /\ \A t \in visited \ ToSet(queue) : Far(t) <= Far(head)
    BY <1>1, <1>5 DEF SearchInv, Breadth
  <2>2. \A t \in visited' : far(t) <= far(head) + 1
    BY <1>4, <1>5, <2>1
  <2>3. \A t \in visited' \ ToSet(queue') : far(t) <= far(head)
    BY <1>4, <1>9, <2>1
  <2>4. PICK q \in Seq(Tokens) : queue' = queue \o q /\ ToSet(q) = new
    BY <1>2 DEF Looks
  <2>5. queue \in Seq(Tokens) /\ queue' \in Seq(Tokens)
    BY <1>2 DEF Looks
  <2>6. /\ DOMAIN queue = 1..Len(queue) /\ Len(queue) \in Nat
        /\ DOMAIN queue' = 1..(Len(queue) + Len(q)) /\ Len(q) \in Nat
        /\ \A i \in 1..Len(queue) : queue'[i] = queue[i]
    BY <2>4, <2>5
  <2>7. \A i \in 1..Len(q) : queue'[Len(queue) + i] \in new
    <3>1. \A i \in 1..Len(q) : queue'[Len(queue) + i] = q[i] /\ q[i] \in ToSet(q)
      BY <2>4, <2>5 DEF ToSet
    <3>2. QED
      BY <2>4, <3>1
  <2>8. \A i \in DOMAIN queue' : i \in DOMAIN queue \/ queue'[i] \in new
    <3>1. SUFFICES ASSUME NEW i \in DOMAIN queue', i \notin DOMAIN queue PROVE queue'[i] \in new
      OBVIOUS
    <3>2. i - Len(queue) \in 1..Len(q) /\ i = Len(queue) + (i - Len(queue))
      BY <2>6, <3>1
    <3>3. QED
      BY <2>7, <3>2
  <2>9. \A i \in DOMAIN queue' : queue'[i] \in visited'
    BY <1>5, <1>9, <2>5 DEF ToSet
  <2>10. ASSUME NEW i \in DOMAIN queue', NEW j \in DOMAIN queue', i <= j
         PROVE  far(queue'[i]) <= far(queue'[j])
    <3>1. CASE queue'[j] \in new
      BY <1>4, <1>5, <2>2, <2>9, <3>1
    <3>2. CASE queue'[j] \notin new
      <4>1. j \in DOMAIN queue /\ i \in DOMAIN queue
        BY <2>6, <2>8, <2>10, <3>2
      <4>2. queue[i] \in visited /\ queue[j] \in visited
        BY <1>9, <4>1 DEF ToSet
      <4>3. Far(queue[i]) <= Far(queue[j])
        BY <2>1, <2>10, <4>1
      <4>4. queue'[i] = queue[i] /\ queue'[j] = queue[j]
        BY <2>6, <4>1
      <4>5. QED
        BY <1>4, <4>2, <4>3, <4>4
    <3>3. QED
      BY <3>1, <3>2
  <2>11. QED
    BY <1>5, <2>2, <2>3, <2>10 DEF Breadth, Far, far
<1>11. Spread'
  <2>1. ASSUME NEW t \in visited' \ ToSet(queue'), NEW p \in usable, t \in Ends(p), NEW s \in Ends(p)
        PROVE  s \in visited' /\ far(s) <= far(t) + 1
    <3>1. t \in visited \ ToSet(queue)
      BY <1>9, <2>1
    <3>2. s \in visited /\ Far(s) <= Far(t) + 1
      BY <1>1, <1>4, <2>1, <3>1 DEF SearchInv, Spread
    <3>3. QED
      BY <1>4, <1>5, <3>1, <3>2
  <2>2. ASSUME NEW p \in usable, p < pos', head \in Ends(p) PROVE Ends(p) \subseteq visited'
    <3>1. p \in PoolIds /\ Usable(p) /\ p \notin skip
      BY <1>1, <1>3, <1>4, <2>2 DEF SearchInv, Routes, WalkTypes
    <3>2. p < pos \/ p = pos
      BY <1>5, <2>2, <3>1, Constants
    <3>3. CASE p < pos
      BY <1>1, <1>5, <2>2, <3>3 DEF SearchInv, Spread
    <3>4. CASE p = pos
      BY <1>2, <1>5, <2>2, <3>1, <3>4 DEF Looks
    <3>5. QED
      BY <3>2, <3>3, <3>4
  <2>3. QED
    BY <1>5, <2>1, <2>2 DEF Spread, Far, far
<1>12. QED
  BY <1>8, <1>10, <1>11 DEF SearchInv

\* Head and tail of a queue.
LEMMA HeadOrTail ==
    ASSUME NEW S, NEW s \in Seq(S), s # <<>>
    PROVE  /\ Tail(s) \in Seq(S) /\ ToSet(s) \subseteq {Head(s)} \cup ToSet(Tail(s))
           /\ \A i \in DOMAIN Tail(s) : i \in Nat /\ i + 1 \in DOMAIN s /\ Tail(s)[i] = s[i + 1]
           /\ Tail(s) # <<>> => Head(Tail(s)) = s[2] /\ 2 \in DOMAIN s
<1> DEFINE r == Tail(s)
<1>1. Len(s) \in Nat /\ Len(s) > 0 /\ DOMAIN s = 1..Len(s) /\ Head(s) = s[1]
  OBVIOUS
<1>2. r \in Seq(S) /\ DOMAIN r = 1..(Len(s) - 1) /\ Len(r) = Len(s) - 1
  OBVIOUS
<1>3. \A i \in 1..(Len(s) - 1) : r[i] = s[i + 1]
  OBVIOUS
<1>4. r # <<>> => Len(r) > 0 /\ Head(r) = r[1]
  BY <1>2
<1> HIDE DEF r
<1>5. \A i \in DOMAIN r : i \in Nat /\ i + 1 \in DOMAIN s /\ r[i] = s[i + 1]
  BY <1>1, <1>2, <1>3
<1>6. ToSet(s) \subseteq {Head(s)} \cup ToSet(r)
  <2>1. ASSUME NEW i \in DOMAIN s, i # 1 PROVE s[i] \in ToSet(r)
    <3>1. i - 1 \in 1..(Len(s) - 1) /\ (i - 1) + 1 = i
      BY <1>1, <2>1
    <3>2. r[i - 1] = s[i] /\ i - 1 \in DOMAIN r
      BY <1>2, <1>3, <3>1
    <3>3. QED
      BY <3>2 DEF ToSet
  <2>2. QED
    BY <1>1, <2>1 DEF ToSet
<1>7. r # <<>> => Head(r) = s[2] /\ 2 \in DOMAIN s
  <2>1. SUFFICES ASSUME r # <<>> PROVE Head(r) = s[2] /\ 2 \in DOMAIN s
    OBVIOUS
  <2>2. Head(r) = r[1] /\ 1 \in DOMAIN r
    BY <1>2, <1>4, <2>1
  <2>3. 1 + 1 \in DOMAIN s /\ r[1] = s[1 + 1]
    BY <1>5, <2>2
  <2>4. QED
    BY <2>2, <2>3
<1>8. QED
  BY <1>2, <1>5, <1>6, <1>7 DEF r

\* The head has brought in all its neighbours when it leaves the queue.
LEMMA DequeuesSearch == WalkInv /\ SearchInv /\ PoolTypes /\ Dequeue => SearchInv'
<1>1. SUFFICES ASSUME WalkInv, SearchInv, PoolTypes, Dequeue PROVE SearchInv'
  OBVIOUS
<1>2. /\ wpc = "walk" /\ pos > seen /\ pos' = 1 /\ queue' = Tail(queue)
      /\ queue' = <<>> => wpc' = "idle"
      /\ queue' # <<>> => wpc' = "walk"
      /\ UNCHANGED <<prices, walks, visited, seen, usable, skip>>
  BY <1>1 DEF Dequeue
<1>3. WalkTypes /\ Walk
  BY <1>1 DEF WalkInv
<1>4. PICK head : head = Head(queue)
  OBVIOUS
<1>5. /\ Reached /\ queue \in Seq(Tokens) /\ queue # <<>> /\ ToSet(queue) \subseteq visited
      /\ DOMAIN queue = 1..Len(queue) /\ 1 \in DOMAIN queue /\ head = queue[1]
      /\ head \in visited
      /\ \A i \in DOMAIN queue : queue[i] \in visited /\ Far(queue[i]) \in Nat
  BY <1>2, <1>3, <1>4, QueueNumber
<1>6. \A t \in visited : t \in Tokens /\ Far(t) \in Nat
  BY <1>3, <1>5, FarNumber
<1>7. /\ queue' \in Seq(Tokens)
      /\ \A t \in visited \ ToSet(queue') : t \in visited \ ToSet(queue) \/ t = head
      /\ \A i \in DOMAIN queue' : i \in Nat /\ i + 1 \in DOMAIN queue /\ queue'[i] = queue[i + 1]
      /\ queue' # <<>> => Head(queue') = queue[2] /\ 2 \in DOMAIN queue
  BY <1>2, <1>4, <1>5, HeadOrTail
<1>8. /\ \A i, j \in DOMAIN queue : i <= j => Far(queue[i]) <= Far(queue[j])
      /\ \A t \in visited : Far(t) <= Far(head) + 1
      /\ \A t \in visited \ ToSet(queue) : Far(t) <= Far(head)
  BY <1>1, <1>2, <1>4 DEF SearchInv, Breadth
<1>9. \A t : Len(prices'[t].hops) = Far(t)
  BY <1>2 DEF Far
<1>10. Routes'
  <2>1. UsableStays
    BY <1>1, UsableSame DEF Dequeue
  <2>2. \A p \in usable : p \in PoolIds /\ p <= seen /\ Usable(p) /\ p \notin skip
    BY <1>1, <1>3, <1>5 DEF SearchInv, Routes, WalkTypes
  <2>3. \A t \in Tokens, p \in PoolIds : Over(t, p)' <=> Over(t, p)
    BY <1>2 DEF Over
  <2>4. \A t \in Tokens, p \in PoolIds : Over(t, p) =>
            /\ Usable(p)
            /\ prices[t].walk = walks => p \notin skip
            /\ prices[t].walk < walks => p \in usable \/ p \in skip
    BY <1>1, <1>5 DEF SearchInv, Routes
  <2>5. \A p \in PoolIds : Usable(p) => Usable(p)'
    BY <2>1 DEF UsableStays
  <2>6. QED
    BY <1>2, <2>2, <2>3, <2>4, <2>5 DEF Routes
<1>11. Breadth'
  <2>1. SUFFICES ASSUME queue' # <<>>
        PROVE  /\ \A i, j \in DOMAIN queue' : i <= j => Far(queue'[i]) <= Far(queue'[j])
               /\ \A t \in visited : Far(t) <= Far(Head(queue')) + 1
               /\ \A t \in visited \ ToSet(queue') : Far(t) <= Far(Head(queue'))
    BY <1>2, <1>9 DEF Breadth, Far
  <2>2. PICK next \in visited : next = Head(queue') /\ Far(head) <= Far(next)
    <3>1. Head(queue') = queue[2] /\ 2 \in DOMAIN queue
      BY <1>7, <2>1
    <3>2. queue[2] \in visited /\ Far(queue[1]) <= Far(queue[2])
      BY <1>5, <1>8, <3>1
    <3>3. QED
      BY <1>5, <3>1, <3>2
  <2>3. \A i, j \in DOMAIN queue' : i <= j => Far(queue'[i]) <= Far(queue'[j])
    <3>1. SUFFICES ASSUME NEW i \in DOMAIN queue', NEW j \in DOMAIN queue', i <= j
          PROVE  Far(queue'[i]) <= Far(queue'[j])
      OBVIOUS
    <3>2. /\ i + 1 \in DOMAIN queue /\ j + 1 \in DOMAIN queue /\ i + 1 <= j + 1
          /\ queue'[i] = queue[i + 1] /\ queue'[j] = queue[j + 1]
      BY <1>7, <3>1
    <3>3. QED
      BY <1>8, <3>2
  <2>4. \A t \in visited : Far(t) <= Far(next) + 1
    BY <1>5, <1>6, <1>8, <2>2
  <2>5. \A t \in visited \ ToSet(queue') : Far(t) <= Far(next)
    BY <1>5, <1>6, <1>7, <1>8, <2>2
  <2>6. QED
    BY <2>2, <2>3, <2>4, <2>5
<1>12. Spread'
  <2>1. ASSUME NEW t \in visited \ ToSet(queue'), NEW p \in usable, t \in Ends(p), NEW s \in Ends(p)
        PROVE  s \in visited /\ Far(s) <= Far(t) + 1
    <3>1. CASE t \in visited \ ToSet(queue)
      BY <1>1, <1>5, <2>1, <3>1 DEF SearchInv, Spread
    <3>2. CASE t = head
      <4>1. p <= seen /\ p \in PoolIds
        BY <1>1, <1>3, <1>5, <2>1 DEF SearchInv, Routes, WalkTypes
      <4>2. p < pos
        <5>1. seen \in Int /\ pos \in Int /\ p \in Int
          BY <1>3, <4>1, Constants DEF WalkTypes
        <5>2. QED
          BY <1>2, <4>1, <5>1
      <4>3. s \in visited
        BY <1>1, <1>2, <1>4, <2>1, <3>2, <4>2 DEF SearchInv, Spread
      <4>4. QED
        BY <1>8, <3>2, <4>3
    <3>3. QED
      BY <1>7, <2>1, <3>1, <3>2
  <2>2. \A p \in usable : ~(p < pos')
    BY <1>2, <1>3, Constants DEF WalkTypes
  <2>3. QED
    BY <1>2, <1>9, <2>1, <2>2 DEF Spread, Far
<1>13. QED
  BY <1>10, <1>11, <1>12 DEF SearchInv
-----------------------------------------------------------------------------
(* The protocol fees *)

\* A token that is known stays known: rows are only added to, and a copy is lost only
\* with the process, which reads the table again when it starts.
KnownStays == \A t \in Tokens : Known(t) => Known(t)'

LEMMA KnownFrame == UNCHANGED <<rows, coins, unread>> /\ Up' = Up => KnownStays
BY DEF KnownStays, Known

LEMMA KnownTokens ==
    ASSUME TokenInv, NEW t \in Tokens, NEW f \in Publics,
           InsertToken(t, f) \/ UpdatePublic(t, f) \/ CopyPublic(t, f) \/ CopyToken(t)
    PROVE  KnownStays
<1>1. TokenTypes /\ Copies(t) /\ f # None
  BY Constants DEF TokenInv
<1>2. rows \in [Tokens -> Flags] /\ coins \in [Tokens -> Flags]
  BY <1>1 DEF TokenTypes
<1>3. Up' = Up /\ unread' = unread
  BY DEF InsertToken, UpdatePublic, CopyPublic, CopyToken, Request, walkVars, Up
<1>4. SUFFICES ASSUME NEW u \in Tokens, Known(u) PROVE Known(u)'
  BY DEF KnownStays
<1>5. CASE InsertToken(t, f)
  BY <1>1, <1>2, <1>3, <1>4, <1>5 DEF InsertToken, Known
<1>6. CASE UpdatePublic(t, f)
  BY <1>1, <1>2, <1>3, <1>4, <1>6 DEF UpdatePublic, Known
<1>7. CASE CopyPublic(t, f)
  BY <1>1, <1>2, <1>3, <1>4, <1>7 DEF CopyPublic, Known
<1>8. CASE CopyToken(t)
  BY <1>1, <1>2, <1>3, <1>4, <1>8 DEF CopyToken, Known
<1>9. QED
  BY <1>5, <1>6, <1>7, <1>8

LEMMA KnownCrash == Crash \/ Start => KnownStays
<1>1. ASSUME Crash PROVE KnownStays
  BY <1>1 DEF Crash, KnownStays, Known, Up
<1>2. ASSUME Start PROVE KnownStays
  <2>1. rows' = rows /\ coins' = [t \in Tokens |-> IF t \in unread' THEN None ELSE rows[t]]
    BY <1>2 DEF Start
  <2>2. QED
    BY <2>1 DEF KnownStays, Known
<1>3. QED
  BY <1>1, <1>2

\* What is said of the fees stays when nobody touches them and the known stay known.
LEMMA FeesFrame ==
    ASSUME FeeInv, KnownStays, UNCHANGED feeVars, UNCHANGED symbols,
           ~Up' => feeTodo = {}, unread' = unread \/ feeTodo = {},
           listed \in Nat, listed' \in Nat, listed <= listed'
    PROVE  FeeInv'
<1>1. UNCHANGED <<rounds, feeTodo, fees, faults, symbols>>
  BY DEF feeVars
<1>2. FeeTypes'
  BY <1>1 DEF FeeInv, FeeTypes
<1>3. Named'
  <2>1. SUFFICES ASSUME NEW p \in PoolIds, NEW t,
                        t \in symbols[p] \/ (fees[p] # None /\ t \in fees[p])
        PROVE  Known(t)'
    BY <1>1 DEF Named
  <2>2. t \in Tokens
    BY <2>1, Constants DEF FeeInv, FeeTypes
  <2>3. Known(t)
    BY <2>1 DEF FeeInv, Named
  <2>4. QED
    BY <2>2, <2>3 DEF KnownStays
<1>4. Round'
  BY <1>1 DEF FeeInv, Round
<1>5. QED
  BY <1>1, <1>2, <1>3, <1>4 DEF FeeInv

\* GetPools names every token it finds, and takes no name away.
LEMMA GetPoolsNames ==
    ASSUME FeeInv, Up, GetPools
    PROVE  /\ symbols' \in [PoolIds -> SUBSET Tokens]
           /\ \A p \in PoolIds : symbols[p] \subseteq symbols'[p] /\ symbols'[p] \subseteq Ends(p)
           /\ \A p \in Slice \cap PoolIds : {t \in Ends(p) : Copied(t)} \subseteq symbols'[p]
           /\ \A p \in PoolIds : \A t \in symbols'[p] : t \in symbols[p] \/ coins[t] # None
<1>1. symbols' = [p \in PoolIds |->
          IF p \in Slice THEN symbols[p] \cup {t \in Ends(p) : Copied(t)} ELSE symbols[p]]
  BY DEF GetPools
<1>2. \A p \in PoolIds : symbols[p] \subseteq Ends(p) /\ Ends(p) \subseteq Tokens
  BY Constants DEF FeeInv, FeeTypes
<1>3. ASSUME NEW p \in PoolIds
      PROVE  /\ symbols[p] \subseteq symbols'[p] /\ symbols'[p] \subseteq Ends(p)
             /\ p \in Slice => {t \in Ends(p) : Copied(t)} \subseteq symbols'[p]
             /\ \A t \in symbols'[p] : t \in symbols[p] \/ coins[t] # None
  <2>1. symbols'[p] = IF p \in Slice THEN symbols[p] \cup {t \in Ends(p) : Copied(t)}
                      ELSE symbols[p]
    BY <1>1
  <2>2. QED
    BY <1>2, <2>1 DEF Copied
<1>4. symbols' \in [PoolIds -> SUBSET Tokens]
  <2>1. \A p \in PoolIds : symbols'[p] \in SUBSET Tokens
    BY <1>2, <1>3
  <2>2. QED
    BY <1>1, <2>1
<1>5. QED
  BY <1>3, <1>4

\* What GetPools names is known, as the tokens do not change.
LEMMA GetPoolsNamed ==
    ASSUME TokenInv, FeeInv, Up, Up', GetPools, UNCHANGED <<rows, coins, unread, fees>>
    PROVE  Named'
<1>1. SUFFICES ASSUME NEW p \in PoolIds, NEW t,
                      t \in symbols'[p] \/ (fees[p] # None /\ t \in fees[p])
      PROVE  Known(t)'
  BY DEF Named
<1>2. t \in Tokens
  <2>1. symbols'[p] \subseteq Ends(p) /\ Ends(p) \subseteq Tokens
    BY GetPoolsNames, Constants
  <2>2. fees[p] # None => fees[p] \subseteq Ends(p)
    BY DEF FeeInv, FeeTypes
  <2>3. QED
    BY <1>1, <2>1, <2>2
<1>3. t \in symbols[p] \/ coins[t] # None \/ (fees[p] # None /\ t \in fees[p])
  BY <1>1, GetPoolsNames
<1>4. CASE coins[t] # None
  BY <1>2, <1>4 DEF TokenInv, Copies, Known
<1>5. CASE t \in symbols[p] \/ (fees[p] # None /\ t \in fees[p])
  BY <1>5 DEF FeeInv, Named, Known
<1>6. QED
  BY <1>3, <1>4, <1>5

LEMMA BeginsWalkFees == TokenInv /\ FeeInv /\ BeginWalk => FeeInv'
<1>1. SUFFICES ASSUME TokenInv, FeeInv, BeginWalk PROVE FeeInv'
  OBVIOUS
<1>2. /\ GetPools /\ Up /\ Up'
      /\ UNCHANGED <<rounds, feeTodo, fees, faults, listed, rows, coins, unread>>
  BY <1>1 DEF BeginWalk, feeVars, poolVars, tokenVars, Up
<1>3. FeeTypes'
  BY <1>1, <1>2, GetPoolsNames DEF FeeInv, FeeTypes
<1>4. Named'
  BY <1>1, <1>2, GetPoolsNamed
<1>5. Round'
  BY <1>1, <1>2, GetPoolsNames DEF FeeInv, Round
<1>6. QED
  BY <1>2, <1>3, <1>4, <1>5 DEF FeeInv

\* A round begins: every token a row names has a copy, and GetPools finds it.
LEMMA BeginsFees == TokenInv /\ FeeInv /\ BeginFees => FeeInv'
<1>1. SUFFICES ASSUME TokenInv, FeeInv, BeginFees PROVE FeeInv'
  OBVIOUS
<1>2. /\ GetPools /\ Up /\ Up' /\ rounds < MaxRounds /\ rounds' = rounds + 1
      /\ feeTodo' = Slice
      /\ UNCHANGED <<fees, faults, listed, rows, coins, unread>>
  BY <1>1 DEF BeginFees, walkVars, poolVars, tokenVars, Up
<1>3. FeeTypes'
  <2>1. feeTodo' \subseteq 1..listed'
    BY <1>2 DEF Slice
  <2>2. rounds' \in 0..MaxRounds
    BY <1>1, <1>2, Constants DEF FeeInv, FeeTypes
  <2>3. QED
    BY <1>1, <1>2, <2>1, <2>2, GetPoolsNames DEF FeeInv, FeeTypes
<1>4. Named'
  BY <1>1, <1>2, GetPoolsNamed
<1>5. Round'
  <2>1. SUFFICES ASSUME NEW p \in Slice \cap PoolIds, fees[p] # None, NEW t \in fees[p] \ unread
        PROVE  t \in symbols'[p]
    BY <1>2 DEF Round
  <2>2. t \in Ends(p)
    BY <1>1, <2>1 DEF FeeInv, FeeTypes
  <2>3. Copied(t)
    BY <1>1, <1>2, <2>1 DEF FeeInv, Named, Known, Copied
  <2>4. QED
    BY <1>1, <1>2, <2>1, <2>2, <2>3, GetPoolsNames
<1>6. QED
  BY <1>2, <1>3, <1>4, <1>5 DEF FeeInv

\* The row of a pool is replaced by what the copy names.
LEMMA FeesOfPool ==
    ASSUME FeeInv, NEW p \in PoolIds, FeesOf(p)
    PROVE  FeeInv'
<1>1. /\ p \in feeTodo /\ feeTodo' = feeTodo \ {p}
      /\ (fees' = [fees EXCEPT ![p] = symbols[p]] /\ faults' = faults)
         \/ (faults' = faults + 1 /\ fees' = fees)
      /\ UNCHANGED <<rows, coins, unread, listed, symbols, wpc, rounds>>
  BY DEF FeesOf, tokenVars, poolVars, walkVars
<1>2. FeeTypes
  BY DEF FeeInv
<1>3. Up' = Up
  BY <1>1 DEF Up
<1>4. /\ DOMAIN fees' = PoolIds
      /\ \A q \in PoolIds : fees'[q] = fees[q] \/ fees'[q] = symbols[q]
      /\ \A q \in PoolIds \ {p} : fees'[q] = fees[q]
  BY <1>1, <1>2 DEF FeeTypes
<1>5. FeeTypes'
  <2>1. \A q \in PoolIds : fees'[q] = None \/ fees'[q] \subseteq Ends(q)
    BY <1>2, <1>4 DEF FeeTypes
  <2>2. faults' \in Nat
    BY <1>1, <1>2 DEF FeeTypes
  <2>3. QED
    BY <1>1, <1>2, <1>4, <2>1, <2>2 DEF FeeTypes
<1>6. Named'
  BY <1>1, <1>3, <1>4 DEF FeeInv, Named, Known
<1>7. Round'
  BY <1>1, <1>4 DEF FeeInv, Round
<1>8. ~Up' => feeTodo' = {}
  BY <1>1, <1>3 DEF FeeInv
<1>9. QED
  BY <1>5, <1>6, <1>7, <1>8 DEF FeeInv

LEMMA CrashFees == FeeInv /\ Crash => FeeInv'
<1>1. SUFFICES ASSUME FeeInv, Crash PROVE FeeInv'
  OBVIOUS
<1>2. /\ symbols' = [p \in PoolIds |-> {}] /\ rounds' = 0 /\ feeTodo' = {}
      /\ UNCHANGED <<listed, fees, faults>>
  BY <1>1 DEF Crash
<1>3. FeeTypes'
  BY <1>1, <1>2, Constants DEF FeeInv, FeeTypes
<1>4. Named'
  <2>1. KnownStays
    BY <1>1, KnownCrash
  <2>2. SUFFICES ASSUME NEW p \in PoolIds, fees[p] # None, NEW t \in fees[p] PROVE Known(t)'
    BY <1>2 DEF Named
  <2>3. t \in Tokens
    BY <1>1, <2>2, Constants DEF FeeInv, FeeTypes
  <2>4. Known(t)
    BY <1>1, <2>2 DEF FeeInv, Named
  <2>5. QED
    BY <2>1, <2>3, <2>4 DEF KnownStays
<1>5. Round'
  BY <1>2 DEF Round
<1>6. QED
  BY <1>2, <1>3, <1>4, <1>5 DEF FeeInv

LEMMA InitFeeInv == Init => FeeInv
<1>1. SUFFICES ASSUME Init PROVE FeeInv
  OBVIOUS
<1>2. /\ symbols = [p \in PoolIds |-> {}] /\ listed = InitListed
      /\ rounds = 0 /\ feeTodo = {} /\ fees = [p \in PoolIds |-> None]
      /\ faults = 0
  BY <1>1 DEF Init
<1>3. FeeTypes
  BY <1>2, Constants DEF FeeTypes
<1>4. Named /\ Round
  BY <1>2 DEF Named, Round
<1>5. QED
  BY <1>2, <1>3, <1>4 DEF FeeInv

\* A copy is made by the requests, and never taken away.
LEMMA CopiedTokens ==
    ASSUME TokenInv, NEW t \in Tokens, NEW f \in Publics,
           InsertToken(t, f) \/ UpdatePublic(t, f) \/ CopyPublic(t, f) \/ CopyToken(t)
    PROVE  \A u \in Tokens : Copied(u) => Copied(u)'
<1>1. coins \in [Tokens -> Flags] /\ f # None
  BY Constants DEF TokenInv, TokenTypes
<1>2. CASE InsertToken(t, f) \/ UpdatePublic(t, f)
  BY <1>2 DEF InsertToken, UpdatePublic, Copied
<1>3. CASE CopyPublic(t, f)
  BY <1>1, <1>3 DEF CopyPublic, Copied
<1>4. CASE CopyToken(t)
  BY <1>1, <1>4 DEF CopyToken, Copied
<1>5. QED
  BY <1>2, <1>3, <1>4
-----------------------------------------------------------------------------
(* The specification *)

\* The parts of the type invariant are the type invariant.
LEMMA TypesOfParts == PriceInv => TypeOK
<1>1. SUFFICES ASSUME PriceInv PROVE TypeOK
  OBVIOUS
<1>2. TokenTypes /\ PoolTypes /\ FeeTypes /\ WalkTypes /\ crashes \in 0..MaxCrashes
  BY <1>1 DEF PriceInv, TokenInv, FeeInv, WalkInv
<1>3. QED
  BY <1>2 DEF TypeOK, TokenTypes, PoolTypes, FeeTypes, WalkTypes

LEMMA InitPrices == Init => PriceInv
<1>1. Init => crashes = 0
  BY DEF Init
<1>2. QED
  BY <1>1, InitTokensInv, InitWalkInv, InitSearch, InitFeeInv, Constants DEF PriceInv

\* The pools only become more.
LEMMA ListedNumber == PoolTypes => listed \in Nat
BY Constants DEF PoolTypes

LEMMA ListedNumberPrimed == PoolTypes' => listed' \in Nat
BY Constants DEF PoolTypes

LEMMA RequestPrices ==
    ASSUME PriceInv, NEW t \in AskedTokens, NEW f \in Publics,
           InsertToken(t, f) \/ UpdatePublic(t, f) \/ CopyPublic(t, f) \/ CopyToken(t)
    PROVE  PriceInv'
<1>1. t \in Tokens /\ TokenInv /\ PoolTypes /\ WalkInv /\ SearchInv /\ FeeInv /\ WalkTypes
  BY PricesAssumption DEF PriceInv, WalkInv
<1>2. TokenInv'
  BY <1>1, InsertTokens, UpdatePublics, CopyPublics, CopyTokens
<1>3. UNCHANGED <<poolVars, symbols, walkVars, feeVars, crashes>>
  BY DEF InsertToken, UpdatePublic, CopyPublic, CopyToken
<1>4. Up' = Up /\ listed' = listed /\ listed \in Nat
  BY <1>1, <1>3, ListedNumber DEF walkVars, poolVars, Up
<1>10. unread' = unread
  BY DEF InsertToken, UpdatePublic, CopyPublic, CopyToken, Request
<1>5. PoolTypes'
  BY <1>1, <1>3, PoolsFrame
<1>6. WalkInv'
  BY <1>1, <1>3, <1>4, WalkFrame
<1>7. SearchInv'
  <2>1. stage' = stage /\ \A u \in Tokens : Copied(u) => Copied(u)'
    BY <1>1, <1>3, CopiedTokens DEF poolVars
  <2>2. UsableStays
    BY <1>1, <1>4, <2>1, UsableKept
  <2>3. QED
    BY <1>1, <1>3, <2>2, SearchFrame
<1>8. FeeInv'
  <2>1. KnownStays
    BY <1>1, KnownTokens
  <2>2. ~Up' => feeTodo = {}
    BY <1>1, <1>4 DEF FeeInv
  <2>3. QED
    BY <1>1, <1>3, <1>4, <1>10, <2>1, <2>2, FeesFrame
<1>9. QED
  BY <1>1, <1>2, <1>3, <1>5, <1>6, <1>7, <1>8 DEF PriceInv

\* A step that touches neither the tokens nor the fees.
LEMMA PriceStep ==
    ASSUME PriceInv, UNCHANGED <<tokenVars, symbols, feeVars, crashes>>, Up' = Up,
           PoolTypes', listed <= listed', WalkInv', SearchInv'
    PROVE  PriceInv'
<1>1. TokenInv /\ PoolTypes /\ FeeInv /\ UNCHANGED <<rows, coins, unread>>
  BY DEF PriceInv, tokenVars
<1>2. TokenInv'
  BY <1>1, TokensFrame
<1>3. FeeInv'
  <2>1. KnownStays
    BY <1>1, KnownFrame
  <2>2. ~Up' => feeTodo = {}
    BY <1>1 DEF FeeInv
  <2>3. listed \in Nat /\ listed' \in Nat
    BY <1>1, ListedNumber, ListedNumberPrimed
  <2>4. QED
    BY <1>1, <2>1, <2>2, <2>3, FeesFrame
<1>4. QED
  BY <1>2, <1>3 DEF PriceInv

LEMMA NextPrices == PriceInv /\ [Next]_vars => PriceInv'
<1>1. SUFFICES ASSUME PriceInv, [Next]_vars PROVE PriceInv'
  OBVIOUS
<1>2. /\ TokenInv /\ PoolTypes /\ WalkInv /\ SearchInv /\ FeeInv /\ WalkTypes
      /\ crashes \in 0..MaxCrashes /\ listed \in Nat
  BY <1>1, ListedNumber DEF PriceInv, WalkInv
<1>3. ASSUME NEW t \in AskedTokens, NEW f \in Publics,
             InsertToken(t, f) \/ UpdatePublic(t, f) \/ CopyPublic(t, f)
      PROVE  PriceInv'
  BY <1>1, <1>3, RequestPrices
<1>4. ASSUME NEW t \in AskedTokens, CopyToken(t) PROVE PriceInv'
  <2>1. PICK f \in Publics : TRUE
    BY PricesAssumption
  <2>2. QED
    BY <1>1, <1>4, <2>1, RequestPrices
<1>5. CASE ListPool
  <2>1. UNCHANGED <<tokenVars, symbols, walkVars, feeVars, crashes>>
    BY <1>5 DEF ListPool
  <2>2. PoolTypes' /\ listed' = listed + 1 /\ listed <= listed' /\ listed' \in Nat
    BY <1>2, <1>5, ListPools
  <2>3. Up' = Up
    BY <2>1 DEF walkVars, Up
  <2>4. UsableStays
    <3>1. stage' = stage /\ coins' = coins
      BY <1>5 DEF ListPool, tokenVars
    <3>2. QED
      BY <1>2, <2>2, <3>1, UsableKept DEF Copied
  <2>5. WalkInv' /\ SearchInv'
    BY <1>2, <2>1, <2>2, <2>4, WalkFrame, SearchFrame
  <2>6. QED
    BY <1>1, <2>1, <2>2, <2>3, <2>5, PriceStep
<1>6. ASSUME NEW p \in PoolIds, Deal(p) PROVE PriceInv'
  <2>1. UNCHANGED <<tokenVars, symbols, walkVars, feeVars, crashes, listed>>
    BY <1>6 DEF Deal
  <2>2. PoolTypes' /\ listed <= listed' /\ listed' \in Nat
    BY <1>2, <1>6, <2>1, Deals
  <2>3. Up' = Up
    BY <2>1 DEF walkVars, Up
  <2>4. UsableStays
    <3>1. \A q \in PoolIds : stage[q] = "tick" => stage'[q] = "tick"
      BY <1>2, <1>6 DEF Deal, PoolTypes
    <3>2. coins' = coins
      BY <2>1 DEF tokenVars
    <3>3. QED
      BY <1>2, <2>2, <3>1, <3>2, UsableKept DEF Copied
  <2>5. WalkInv' /\ SearchInv'
    BY <1>2, <2>1, <2>2, <2>4, WalkFrame, SearchFrame
  <2>6. QED
    BY <1>1, <2>1, <2>2, <2>3, <2>5, PriceStep
<1>7. ASSUME NEW p \in PoolIds, FeesOf(p) PROVE PriceInv'
  <2>1. UNCHANGED <<tokenVars, poolVars, symbols, walkVars, crashes>>
    BY <1>7 DEF FeesOf
  <2>2. Up' = Up /\ listed' = listed /\ listed <= listed'
    BY <1>2, <2>1 DEF walkVars, poolVars, Up
  <2>3. TokenInv'
    BY <1>2, <2>1, <2>2, TokensFrame
  <2>4. PoolTypes' /\ WalkInv' /\ SearchInv'
    BY <1>2, <2>1, <2>2, PoolsFrame, WalkFrame, SearchFrame, UsableSame
  <2>5. FeeInv'
    BY <1>2, <1>7, FeesOfPool
  <2>6. QED
    BY <1>2, <2>1, <2>3, <2>4, <2>5 DEF PriceInv
<1>8. CASE CoinbaseFails
  <2>1. UNCHANGED <<tokenVars, poolVars, symbols, feeVars, crashes>> /\ Up' = Up
    BY <1>8 DEF CoinbaseFails, Up
  <2>2. listed' = listed /\ listed <= listed'
    BY <1>2, <2>1 DEF poolVars
  <2>3. PoolTypes' /\ WalkInv' /\ SearchInv'
    BY <1>2, <1>8, <2>1, PoolsFrame, CoinbaseFailed, CoinbaseSearch
  <2>4. QED
    BY <1>1, <2>1, <2>2, <2>3, PriceStep
<1>9. CASE BeginWalk
  <2>1. UNCHANGED <<tokenVars, poolVars, crashes>> /\ Up' = Up
    BY <1>9 DEF BeginWalk, Up
  <2>2. TokenInv' /\ PoolTypes'
    BY <1>2, <2>1, TokensFrame, PoolsFrame
  <2>3. WalkInv' /\ SearchInv' /\ FeeInv'
    BY <1>2, <1>9, BeginsWalk, BeginsSearch, BeginsWalkFees
  <2>4. QED
    BY <1>2, <2>1, <2>2, <2>3 DEF PriceInv
<1>10. CASE Visit
  <2>1. UNCHANGED <<tokenVars, poolVars, symbols, feeVars, crashes>> /\ Up' = Up
    BY <1>10 DEF Visit, Up
  <2>2. listed' = listed /\ listed <= listed'
    BY <1>2, <2>1 DEF poolVars
  <2>3. PoolTypes' /\ WalkInv' /\ SearchInv'
    BY <1>2, <1>10, <2>1, PoolsFrame, Visits, VisitsSearch
  <2>4. QED
    BY <1>1, <2>1, <2>2, <2>3, PriceStep
<1>11. CASE Dequeue
  <2>1. UNCHANGED <<tokenVars, poolVars, symbols, feeVars, crashes>>
    BY <1>11 DEF Dequeue
  <2>2. Up' = Up
    BY <1>11 DEF Dequeue, Up
  <2>3. listed' = listed /\ listed <= listed'
    BY <1>2, <2>1 DEF poolVars
  <2>4. PoolTypes' /\ WalkInv' /\ SearchInv'
    BY <1>2, <1>11, <2>1, PoolsFrame, Dequeues, DequeuesSearch
  <2>5. QED
    BY <1>1, <2>1, <2>2, <2>3, <2>4, PriceStep
<1>12. CASE BeginFees
  <2>1. UNCHANGED <<tokenVars, poolVars, walkVars, crashes>>
    BY <1>12 DEF BeginFees
  <2>2. Up' = Up /\ listed' = listed /\ listed <= listed'
    BY <1>2, <2>1 DEF walkVars, poolVars, Up
  <2>3. TokenInv' /\ PoolTypes' /\ WalkInv' /\ SearchInv'
    BY <1>2, <2>1, <2>2, TokensFrame, PoolsFrame, WalkFrame, SearchFrame, UsableSame
  <2>4. FeeInv'
    BY <1>2, <1>12, BeginsFees
  <2>5. QED
    BY <1>2, <2>1, <2>3, <2>4 DEF PriceInv
<1>13. CASE Crash
  <2>1. crashes' \in 0..MaxCrashes
    BY <1>2, <1>13, Constants DEF Crash
  <2>2. TokenInv' /\ PoolTypes' /\ WalkInv' /\ SearchInv' /\ FeeInv'
    BY <1>2, <1>13, CrashTokens, CrashPools, CrashWalk, CrashSearch, CrashFees
  <2>3. QED
    BY <2>1, <2>2 DEF PriceInv
<1>14. CASE Start
  <2>1. UNCHANGED <<feeVars, symbols, crashes, listed>> /\ Up' /\ KnownStays
    BY <1>14, KnownCrash DEF Start, Up
  <2>2. listed <= listed'
    BY <1>2, <2>1
  <2>3. TokenInv' /\ PoolTypes' /\ WalkInv' /\ SearchInv'
    BY <1>2, <1>14, StartTokens, StartPools, StartWalk, StartSearch
  <2>4. feeTodo = {}
    BY <1>2, <1>14 DEF Start, Up, FeeInv
  <2>5. FeeInv'
    BY <1>2, <2>1, <2>2, <2>4, FeesFrame
  <2>6. QED
    BY <1>2, <2>1, <2>3, <2>5 DEF PriceInv
<1>15. CASE UNCHANGED vars
  <2>1. UNCHANGED <<tokenVars, poolVars, symbols, walkVars, feeVars, crashes>>
    BY <1>15 DEF vars
  <2>2. Up' = Up /\ listed' = listed /\ listed <= listed'
    BY <1>2, <2>1 DEF walkVars, poolVars, Up
  <2>3. PoolTypes' /\ WalkInv' /\ SearchInv'
    BY <1>2, <2>1, <2>2, PoolsFrame, WalkFrame, SearchFrame, UsableSame
  <2>4. QED
    BY <1>1, <2>1, <2>2, <2>3, PriceStep
<1>16. QED
  BY <1>1, <1>3, <1>4, <1>5, <1>6, <1>7, <1>8, <1>9, <1>10, <1>11, <1>12, <1>13, <1>14, <1>15
     DEF Next

LEMMA PricesInvariant == Spec => []PriceInv
<1>1. Init => PriceInv
  BY InitPrices
<1>2. PriceInv /\ [Next]_vars => PriceInv'
  BY NextPrices
<1>3. QED
  BY <1>1, <1>2, PTL DEF Spec

\* The state of the tokens, their copies, the walk and the fees has its type; in
\* particular the slice of the coins is their map without repetition, however requests
\* interleave, and the queue of the walk never holds a token twice (public.go, price.go).
THEOREM PriceTypesOK == Spec => []TypeOK
<1>1. PriceInv => TypeOK
  BY TypesOfParts
<1>2. QED
  BY <1>1, PricesInvariant, PTL

\* Every price, shown at any moment of a walk, is the product along one chain of listed
\* pools from a given price, and mixes no two walks (setTokensPriceAsUsd).
THEOREM RoutesRight == Spec => []RouteValid
<1>1. PriceInv => RouteValid
  BY DEF PriceInv, WalkInv
<1>2. QED
  BY <1>1, PricesInvariant, PTL

LEMMA PublicsShown == PriceInv => PublicShown
<1>1. SUFFICES ASSUME PriceInv, Up, NEW t \in Tokens, t \notin overlapped, t \notin unread
      PROVE  coins[t] = rows[t] \/ Pending(t)
  BY DEF PublicShown
<1>2. Alone(t)
  BY <1>1 DEF PriceInv, TokenInv
<1>3. QED
  BY <1>1, <1>2 DEF Alone

\* A token that has a copy is at one place of the slice.
LEMMA ListedOnce ==
    ASSUME TokenTypes, NEW t \in Tokens, Copied(t)
    PROVE  Cardinality({i \in DOMAIN GetUsdPrices : GetUsdPrices[i][1] = t}) = 1
<1>1. /\ coinList \in Seq(Tokens) /\ IsInjective(coinList) /\ t \in ToSet(coinList)
  BY DEF TokenTypes
<1>2. PICK i \in DOMAIN coinList : coinList[i] = t
  BY <1>1 DEF ToSet
<1>3. /\ DOMAIN GetUsdPrices = DOMAIN coinList
      /\ \A j \in DOMAIN coinList : GetUsdPrices[j][1] = coinList[j]
  BY DEF GetUsdPrices
<1>4. {j \in DOMAIN GetUsdPrices : GetUsdPrices[j][1] = t} = {i}
  BY <1>1, <1>2, <1>3 DEF IsInjective
<1>5. QED
  BY <1>4, FS_Singleton

LEMMA AnswersAgreed == PriceInv => AnswersAgree
<1>1. SUFFICES ASSUME PriceInv, Up PROVE AnswersAgree
  BY DEF AnswersAgree
<1>2. TokenTypes /\ FeeInv
  BY <1>1 DEF PriceInv, TokenInv
<1>3. ASSUME NEW fee \in GetProtocolFees PROVE fee.symbols \ unread \subseteq fee.decimals
  <2>1. PICK p \in PoolIds :
            /\ fees[p] # None
            /\ fee = [pool |-> p, symbols |-> fees[p], decimals |-> {t \in Ends(p) : Copied(t)}]
    BY <1>3 DEF GetProtocolFees
  <2>2. \A t \in fees[p] \ unread : t \in Ends(p) /\ Copied(t)
    BY <1>1, <1>2, <2>1 DEF FeeInv, FeeTypes, Named, Known, Copied
  <2>3. QED
    BY <2>1, <2>2
<1>4. \A t \in Tokens : Copied(t) =>
         Cardinality({i \in DOMAIN GetUsdPrices : GetUsdPrices[i][1] = t}) = 1
  BY <1>2, ListedOnce
<1>5. QED
  BY <1>3, <1>4 DEF AnswersAgree

\* The flag of a token, the decimals of a fee and the list of prices are those of the
\* rows the start got or a request stored since, for every interleaving of requests about
\* tokens and every part of the table that getCoins gets (AddToken, ChangeTokenPublic,
\* GetProtocolFees, GetUsdPrices).
THEOREM ShownRight == Spec => []ShownIsStored
<1>1. PriceInv => ShownIsStored
  BY PublicsShown, AnswersAgreed DEF ShownIsStored
<1>2. QED
  BY <1>1, PricesInvariant, PTL

\* No step takes a symbol from the row of a pool's fees, but that of a token not read.
LEMMA SymbolsStay ==
    PriceInv /\ [Next]_vars =>
        \A p \in PoolIds : fees[p] # None => fees[p] \ unread \subseteq fees'[p]
<1>1. SUFFICES ASSUME PriceInv, [Next]_vars, NEW p \in PoolIds, fees[p] # None
      PROVE  fees[p] \ unread \subseteq fees'[p]
  OBVIOUS
<1>2. FeeTypes /\ Round
  BY <1>1 DEF PriceInv, FeeInv
<1>3. ASSUME NEW q \in PoolIds, FeesOf(q) PROVE fees[p] \ unread \subseteq fees'[p]
  <2>1. q \in feeTodo /\ (fees' = [fees EXCEPT ![q] = symbols[q]] \/ fees' = fees)
    BY <1>3 DEF FeesOf
  <2>2. DOMAIN fees = PoolIds
    BY <1>2 DEF FeeTypes
  <2>3. fees[q] # None => fees[q] \ unread \subseteq symbols[q]
    BY <1>2, <2>1, <2>2 DEF Round
  <2>4. QED
    BY <1>1, <2>1, <2>2, <2>3
<1>4. CASE fees' = fees
  BY <1>4
<1>5. [Next]_vars => fees' = fees \/ \E q \in PoolIds : FeesOf(q)
  BY DEF Next, InsertToken, UpdatePublic, CopyPublic, CopyToken, ListPool, Deal, CoinbaseFails,
         BeginWalk, Visit, Dequeue, BeginFees, Crash, Start, vars, feeVars
<1>6. QED
  BY <1>1, <1>3, <1>4, <1>5

\* The protocol fees of a pool keep every symbol they had, but that of a token whose row
\* the running process did not get: a round starts with the names of all others that a row
\* names, though they were named by an earlier process (RealProtocolFees, GetPools).
THEOREM SymbolsKeptAlways == Spec => SymbolsKept
<1>1. PriceInv /\ [Next]_vars =>
          [\A p \in PoolIds : fees[p] # None => fees[p] \ unread \subseteq fees'[p]]_vars
  BY SymbolsStay
<1>2. QED
  BY <1>1, PricesInvariant, PTL DEF Spec, SymbolsKept
-----------------------------------------------------------------------------
(* What a walk has found when it ends *)

LEMMA SmallestNat ==
    ASSUME NEW T \in SUBSET Nat, T # {}
    PROVE  \E n \in T : \A m \in T : n <= m
<1>1. IsWellFoundedOn(OpToRel(<, Nat), Nat)
  BY NatLessThanWellFounded
<1>2. PICK n \in T : \A m \in T : ~ (<<m, n>> \in OpToRel(<, Nat))
  BY <1>1, WFMin, Zenon
<1>3. \A m \in T : m < n => <<m, n>> \in OpToRel(<, Nat)
  BY DEF OpToRel
<1>4. \A m \in T : ~ (m < n)
  BY <1>2, <1>3, Zenon
<1>5. \A m \in T : n <= m
  BY <1>4
<1>6. QED
  BY <1>5

\* The equation by which Near is defined has a solution: the tokens at the end of a chain
\* of so many steps from a root.
IsNear(edges, near) ==
    near = [i \in Nat |-> IF i = 0 THEN Roots ELSE Reach(edges, near[i-1])]
Joined(edges, s, t) == s = t \/ \E p \in edges : s \in Ends(p) /\ t \in Ends(p)
IsChain(edges, n, c) ==
    /\ c \in [0..n -> Tokens] /\ c[0] \in Roots
    /\ \A i \in 1..n : Joined(edges, c[i-1], c[i])
Chained(edges, n) == {t \in Tokens : \E c : IsChain(edges, n, c) /\ c[n] = t}

LEMMA ChainedFirst == ASSUME NEW edges PROVE Chained(edges, 0) = Roots
<1>1. ASSUME NEW t \in Roots PROVE t \in Chained(edges, 0)
  <2> DEFINE c == [i \in 0..0 |-> t]
  <2>1. t \in Tokens /\ 0 \in 0..0 /\ 1..0 = {}
    BY <1>1, Constants
  <2>2. c \in [0..0 -> Tokens] /\ c[0] = t
    BY <2>1
  <2>3. IsChain(edges, 0, c)
    BY <1>1, <2>1, <2>2 DEF IsChain
  <2>4. QED
    BY <2>1, <2>2, <2>3 DEF Chained
<1>2. Chained(edges, 0) \subseteq Roots
  BY DEF Chained, IsChain
<1>3. QED
  BY <1>1, <1>2

LEMMA ChainExtended ==
    ASSUME NEW edges, NEW n \in Nat, NEW s \in Chained(edges, n), NEW t \in Tokens,
           Joined(edges, s, t)
    PROVE  t \in Chained(edges, n + 1)
<1>1. PICK c : IsChain(edges, n, c) /\ c[n] = s
  BY DEF Chained
<1> DEFINE d == [i \in 0..(n + 1) |-> IF i = n + 1 THEN t ELSE c[i]]
<1>2. c \in [0..n -> Tokens]
  BY <1>1 DEF IsChain
<1>3. \A i \in 0..(n + 1) : i = n + 1 \/ i \in 0..n
  OBVIOUS
<1>4. d \in [0..(n + 1) -> Tokens] /\ d[n + 1] = t /\ \A i \in 0..n : d[i] = c[i]
  BY <1>2, <1>3
<1> HIDE DEF d
<1>5. 0 \in 0..n /\ d[0] \in Roots
  BY <1>1, <1>4 DEF IsChain
<1>6. ASSUME NEW i \in 1..(n + 1) PROVE Joined(edges, d[i-1], d[i])
  <2>1. CASE i = n + 1
    <3>1. i - 1 = n /\ n \in 0..n
      BY <2>1
    <3>2. d[i-1] = s /\ d[i] = t
      BY <1>1, <1>4, <2>1, <3>1
    <3>3. QED
      BY <3>2
  <2>2. CASE i # n + 1
    <3>1. i \in 1..n /\ i \in 0..n /\ i - 1 \in 0..n
      BY <2>2
    <3>2. d[i-1] = c[i-1] /\ d[i] = c[i]
      BY <1>4, <3>1
    <3>3. QED
      BY <1>1, <3>1, <3>2 DEF IsChain
  <2>3. QED
    BY <2>1, <2>2
<1>7. IsChain(edges, n + 1, d)
  BY <1>4, <1>5, <1>6 DEF IsChain
<1>8. QED
  BY <1>4, <1>7 DEF Chained

LEMMA ChainShortened ==
    ASSUME NEW edges, NEW n \in Nat, NEW t \in Chained(edges, n + 1)
    PROVE  \E s \in Chained(edges, n) : Joined(edges, s, t)
<1>1. PICK c : IsChain(edges, n + 1, c) /\ c[n + 1] = t
  BY DEF Chained
<1> DEFINE d == [i \in 0..n |-> c[i]]
<1>2. c \in [0..(n + 1) -> Tokens] /\ 0..n \subseteq 0..(n + 1) /\ 0 \in 0..n /\ n \in 0..n
  BY <1>1 DEF IsChain
<1>3. d \in [0..n -> Tokens] /\ \A i \in 0..n : d[i] = c[i]
  BY <1>2
<1> HIDE DEF d
<1>4. ASSUME NEW i \in 1..n PROVE Joined(edges, d[i-1], d[i])
  <2>1. i \in 1..(n + 1) /\ i \in 0..n /\ i - 1 \in 0..n
    OBVIOUS
  <2>2. d[i-1] = c[i-1] /\ d[i] = c[i]
    BY <1>3, <2>1
  <2>3. QED
    BY <1>1, <2>1, <2>2 DEF IsChain
<1>5. IsChain(edges, n, d)
  BY <1>1, <1>2, <1>3, <1>4 DEF IsChain
<1>6. d[n] \in Chained(edges, n)
  BY <1>2, <1>3, <1>5 DEF Chained
<1>7. Joined(edges, d[n], t)
  <2>1. n + 1 \in 1..(n + 1) /\ (n + 1) - 1 = n
    OBVIOUS
  <2>2. Joined(edges, c[n], c[n + 1])
    BY <1>1, <2>1 DEF IsChain
  <2>3. QED
    BY <1>1, <1>2, <1>3, <2>2
<1>8. QED
  BY <1>6, <1>7

LEMMA ChainedNext ==
    ASSUME NEW edges \in SUBSET PoolIds, NEW n \in Nat
    PROVE  Chained(edges, n + 1) = Reach(edges, Chained(edges, n))
<1>1. Chained(edges, n) \subseteq Tokens /\ Chained(edges, n + 1) \subseteq Tokens
  BY DEF Chained
<1>2. ASSUME NEW t \in Chained(edges, n + 1) PROVE t \in Reach(edges, Chained(edges, n))
  <2>1. PICK s \in Chained(edges, n) : Joined(edges, s, t)
    BY ChainShortened
  <2>2. QED
    BY <2>1 DEF Joined, Reach
<1>3. ASSUME NEW t \in Reach(edges, Chained(edges, n)) PROVE t \in Chained(edges, n + 1)
  <2>1. CASE t \in Chained(edges, n)
    BY <1>1, <2>1, ChainExtended DEF Joined
  <2>2. CASE t \notin Chained(edges, n)
    <3>1. PICK p \in edges : Ends(p) \cap Chained(edges, n) # {} /\ t \in Ends(p)
      BY <1>3, <2>2 DEF Reach
    <3>2. PICK s \in Chained(edges, n) : s \in Ends(p)
      BY <3>1
    <3>3. t \in Tokens
      BY <3>1, Constants
    <3>4. QED
      BY <3>1, <3>2, <3>3, ChainExtended DEF Joined
  <2>3. QED
    BY <2>1, <2>2
<1>4. QED
  BY <1>2, <1>3

LEMMA NearSolved ==
    ASSUME NEW edges \in SUBSET PoolIds
    PROVE  IsNear(edges, [i \in Nat |-> Chained(edges, i)])
<1> DEFINE near == [i \in Nat |-> Chained(edges, i)]
<1>1. ASSUME NEW i \in Nat
      PROVE  near[i] = IF i = 0 THEN Roots ELSE Reach(edges, near[i-1])
  <2>1. CASE i = 0
    BY <2>1, ChainedFirst
  <2>2. CASE i # 0
    <3>1. i - 1 \in Nat /\ (i - 1) + 1 = i
      BY <2>2
    <3>2. Chained(edges, i) = Reach(edges, Chained(edges, i - 1))
      BY <3>1, ChainedNext
    <3>3. near[i] = Chained(edges, i) /\ near[i-1] = Chained(edges, i - 1)
      BY <3>1
    <3>4. QED
      BY <2>2, <3>2, <3>3
  <2>3. QED
    BY <2>1, <2>2
<1>2. near = [i \in Nat |-> near[i]]
  OBVIOUS
<1> HIDE DEF near
<1>3. near = [i \in Nat |-> IF i = 0 THEN Roots ELSE Reach(edges, near[i-1])]
  BY <1>1, <1>2
<1>4. IsNear(edges, near)
  BY <1>3 DEF IsNear
<1>5. QED
  BY <1>4 DEF near

\* Near, as the equations it is defined by.
LEMMA NearBy ==
    ASSUME NEW edges \in SUBSET PoolIds
    PROVE  /\ Near(edges, 0) = Roots
           /\ \A n \in Nat : Near(edges, n + 1) = Reach(edges, Near(edges, n))
<1> DEFINE near == CHOOSE f : IsNear(edges, f)
<1>1. \A n : Near(edges, n) = near[n]
  BY DEF Near, IsNear
<1>2. IsNear(edges, near)
  BY NearSolved
<1> HIDE DEF near
<1>3. near = [i \in Nat |-> IF i = 0 THEN Roots ELSE Reach(edges, near[i-1])]
  BY <1>2 DEF IsNear
<1>4. near[0] = Roots
  BY <1>3
<1>5. ASSUME NEW n \in Nat PROVE near[n + 1] = Reach(edges, near[n])
  <2>1. n + 1 \in Nat /\ n + 1 # 0 /\ (n + 1) - 1 = n
    OBVIOUS
  <2>2. near[n + 1] = Reach(edges, near[(n + 1) - 1])
    BY <1>3, <2>1
  <2>3. QED
    BY <2>1, <2>2
<1>6. QED
  BY <1>1, <1>4, <1>5

\* The state after a walk: the queue is empty, and what was reached is closed under the
\* usable pools.
Finished == wpc = "idle" /\ prices[RootSeq[1]] # None

LEMMA FinishedFacts ==
    ASSUME PriceInv, Finished
    PROVE  /\ Reached /\ WalkTypes /\ usable \subseteq PoolIds
           /\ Roots \subseteq visited /\ visited \subseteq Tokens
           /\ \A t \in visited : prices[t] # None /\ prices[t].walk = walks /\ Far(t) \in Nat
           /\ \A t \in Tokens \ visited : prices[t] # None => prices[t].walk < walks
           /\ \A t \in visited, p \in usable :
                 t \in Ends(p) => \A s \in Ends(p) : s \in visited /\ Far(s) <= Far(t) + 1
<1>1. Reached /\ WalkTypes /\ Walk /\ Spread /\ wpc = "idle"
  BY DEF PriceInv, WalkInv, SearchInv, Finished, Reached
<1>2. queue = <<>> /\ usable \subseteq PoolIds /\ visited \subseteq Tokens
  BY <1>1 DEF WalkTypes
<1>3. ToSet(queue) = {}
  BY <1>2, EmptyOnce
<1>4. \A t \in visited : Far(t) \in Nat
  BY <1>1, FarNumber
<1>5. /\ Roots \subseteq visited
      /\ \A t \in visited : prices[t] # None /\ prices[t].walk = walks
      /\ \A t \in Tokens \ visited : prices[t] # None => prices[t].walk < walks
  BY <1>1 DEF Walk
<1>6. \A t \in visited, p \in usable :
         t \in Ends(p) => \A s \in Ends(p) : s \in visited /\ Far(s) <= Far(t) + 1
  BY <1>1, <1>3 DEF Spread
<1>7. QED
  BY <1>1, <1>2, <1>4, <1>5, <1>6

\* A route over usable pools only is one the walk has gone along, so a price that is left
\* from an earlier walk was taken over a pool that this one did not have.
LEMMA RouteReached ==
    ASSUME PriceInv, Finished, NEW hops \in Seq(PoolIds), NEW t, HasRoute(hops, t),
           \A i \in 1..Len(hops) : hops[i] \in usable
    PROVE  t \in visited
<1>1. /\ Roots \subseteq visited
      /\ \A s \in visited, p \in usable : s \in Ends(p) => Ends(p) \subseteq visited
  BY FinishedFacts
<1>2. PICK at : IsRoute(hops, at) /\ at[Len(hops)] = t
  BY DEF HasRoute
<1>3. /\ at[0] \in Roots /\ Len(hops) \in Nat
      /\ \A i \in 1..Len(hops) : at[i-1] \in Ends(hops[i]) /\ at[i] \in Ends(hops[i])
  BY <1>2 DEF IsRoute
<1> DEFINE T == {i \in 0..Len(hops) : at[i] \notin visited}
<1>4. SUFFICES ASSUME T # {} PROVE FALSE
  BY <1>2, <1>3
<1>5. T \in SUBSET Nat
  BY <1>3
<1>6. PICK i \in T : \A j \in T : i <= j
  BY <1>4, <1>5, SmallestNat, Zenon
<1>7. i \in 1..Len(hops) /\ i - 1 \in 0..Len(hops)
  BY <1>1, <1>3, <1>6
<1>8. at[i-1] \in visited
  <2>1. i - 1 \notin T
    BY <1>5, <1>6, <1>7
  <2>2. QED
    BY <1>7, <2>1
<1>9. at[i] \in visited
  BY <1>1, <1>3, <1>7, <1>8
<1>10. QED
  BY <1>6, <1>9

LEMMA LeftOver ==
    ASSUME PriceInv, Finished, NEW t \in Tokens, prices[t] # None
    PROVE  Priced(t) \/ \E i \in DOMAIN prices[t].hops : prices[t].hops[i] \in skip
<1>1. WalkTypes /\ Chains /\ Routes /\ Reached /\ Ages
  BY FinishedFacts DEF PriceInv, WalkInv, SearchInv
<1>2. prices[t].hops \in Seq(PoolIds) /\ prices[t].walk \in Nat /\ prices[t].walk <= walks
  BY <1>1, PriceTypes DEF Ages
<1>3. walks \in Nat
  BY <1>1, Constants DEF WalkTypes
<1>4. /\ DOMAIN prices[t].hops = 1..Len(prices[t].hops)
      /\ \A i \in 1..Len(prices[t].hops) : prices[t].hops[i] \in PoolIds
  BY <1>2
<1>5. SUFFICES ASSUME prices[t].walk < walks,
                      \A i \in 1..Len(prices[t].hops) : prices[t].hops[i] \notin skip
      PROVE  FALSE
  BY <1>2, <1>3, <1>4 DEF Priced
<1>6. \A i \in 1..Len(prices[t].hops) : prices[t].hops[i] \in usable
  BY <1>1, <1>4, <1>5 DEF Routes, Over
<1>7. HasRoute(prices[t].hops, t)
  BY <1>1 DEF Chains
<1>8. t \in visited
  BY <1>2, <1>6, <1>7, RouteReached
<1>9. QED
  BY <1>2, <1>3, <1>5, <1>8, FinishedFacts

\* What is near is priced, with a route that is not longer.
LEMMA NearIsPriced ==
    ASSUME PriceInv, Finished, NEW n \in Nat
    PROVE  Near(usable, n) \subseteq PricedWithin(n)
<1>1. /\ usable \in SUBSET PoolIds /\ Roots \subseteq visited /\ visited \subseteq Tokens
      /\ WalkTypes
      /\ \A t \in visited : Priced(t) /\ prices[t] # None /\ Far(t) \in Nat
      /\ \A t \in visited, p \in usable :
            t \in Ends(p) => \A s \in Ends(p) : s \in visited /\ Far(s) <= Far(t) + 1
  BY FinishedFacts DEF Priced
<1> DEFINE Good(k) == \A t \in Near(usable, k) : t \in visited /\ Far(t) <= k
<1>2. Good(0)
  <2>1. SUFFICES ASSUME NEW t \in Roots PROVE t \in visited /\ Far(t) <= 0
    BY <1>1, NearBy
  <2>2. t \in Tokens /\ t \in visited /\ prices[t] # None
    BY <1>1, <2>1
  <2>3. prices[t].hops = <<>>
    BY <2>1, <2>2, RoutesOfAll DEF PriceInv, WalkInv, Routed
  <2>4. QED
    BY <2>2, <2>3 DEF Far
<1>3. ASSUME NEW k \in Nat, Good(k) PROVE Good(k + 1)
  <2>1. SUFFICES ASSUME NEW t \in Near(usable, k + 1) PROVE t \in visited /\ Far(t) <= k + 1
    OBVIOUS
  <2>2. t \in Reach(usable, Near(usable, k))
    BY <1>1, <2>1, NearBy
  <2>3. CASE t \in Near(usable, k)
    BY <1>1, <1>3, <2>3
  <2>4. CASE t \notin Near(usable, k)
    <3>1. PICK p \in usable : Ends(p) \cap Near(usable, k) # {} /\ t \in Ends(p)
      BY <2>2, <2>4 DEF Reach
    <3>2. PICK s \in Ends(p) : s \in visited /\ Far(s) <= k
      BY <1>3, <3>1
    <3>3. t \in visited /\ Far(t) <= Far(s) + 1
      BY <1>1, <3>1, <3>2
    <3>4. QED
      BY <1>1, <3>2, <3>3
  <2>5. QED
    BY <2>3, <2>4
<1> HIDE DEF Good
<1>4. Good(n)
  <2>1. SUFFICES ASSUME ~Good(n) PROVE FALSE
    OBVIOUS
  <2> DEFINE T == {k \in Nat : ~Good(k)}
  <2>2. T \in SUBSET Nat /\ T # {}
    BY <2>1
  <2>3. PICK k \in T : \A m \in T : k <= m
    BY <2>2, SmallestNat, Zenon
  <2>4. k \in Nat /\ ~Good(k) /\ k # 0
    BY <1>2, <2>3
  <2>5. k - 1 \in Nat /\ k - 1 < k /\ (k - 1) + 1 = k
    BY <2>4
  <2>6. Good(k - 1)
    BY <2>3, <2>5
  <2>7. Good((k - 1) + 1)
    BY <1>3, <2>5, <2>6, Zenon
  <2>8. QED
    BY <2>4, <2>5, <2>7
<1>5. QED
  BY <1>1, <1>4 DEF Good, PricedWithin, Far

\* What this walk has priced is near, over pools of its slice that are usable now.
LEMMA PricedIsNear ==
    ASSUME PriceInv, Finished, NEW n \in Nat
    PROVE  PricedWithin(n) \subseteq Near({p \in PoolIds \ skip : Usable(p)}, n)
<1> DEFINE edges == {p \in PoolIds \ skip : Usable(p)}
<1>1. edges \in SUBSET PoolIds
  OBVIOUS
<1>2. /\ Near(edges, 0) = Roots
      /\ \A k \in Nat : Near(edges, k + 1) = Reach(edges, Near(edges, k))
  BY <1>1, NearBy
<1>3. \A p \in PoolIds : Usable(p) /\ p \notin skip => p \in edges
  OBVIOUS
<1> HIDE DEF edges
<1>4. WalkTypes /\ Ages /\ Routes /\ Reached /\ walks \in Nat
  BY FinishedFacts, Constants DEF PriceInv, WalkInv, SearchInv, WalkTypes
<1>5. \A t \in Tokens : prices[t] # None => Routed(t)
  BY RoutesOfAll DEF PriceInv, WalkInv
<1>6. \A t \in Tokens : prices[t] # None =>
          Far(t) \in Nat /\ prices[t].walk \in Nat /\ prices[t].walk <= walks
  BY <1>4, PriceTypes DEF Far, Ages
<1> DEFINE Good(k) == \A t \in Tokens : Priced(t) /\ Far(t) <= k => t \in Near(edges, k)
<1>7. Good(0)
  <2>1. SUFFICES ASSUME NEW t \in Tokens, prices[t] # None, Far(t) <= 0 PROVE t \in Roots
    BY <1>2 DEF Priced
  <2>2. prices[t].hops \in Seq(PoolIds) /\ Len(prices[t].hops) <= 0
    BY <1>4, <2>1, PriceTypes DEF Far
  <2>3. prices[t].hops = <<>>
    BY <2>2
  <2>4. QED
    BY <1>5, <2>1, <2>3 DEF Routed
<1>8. ASSUME NEW k \in Nat, Good(k) PROVE Good(k + 1)
  <2>1. SUFFICES ASSUME NEW t \in Tokens, Priced(t), prices[t] # None, Far(t) <= k + 1
        PROVE  t \in Reach(edges, Near(edges, k))
    BY <1>2 DEF Priced
  <2>2. CASE Far(t) <= k
    BY <1>8, <2>1, <2>2 DEF Reach
  <2>3. CASE ~(Far(t) <= k)
    <3>1. Far(t) = k + 1
      BY <1>6, <2>1, <2>3
    <3>2. prices[t].hops \in Seq(PoolIds) /\ prices[t].hops # <<>>
      BY <1>4, <2>1, <3>1, PriceTypes DEF Far
    <3>3. PICK p \in PoolIds : p = Last(prices[t].hops)
      BY <1>4, <2>1, <3>2, PriceTypes
    <3>4. Over(t, p)
      <4>1. Len(prices[t].hops) \in 1..Len(prices[t].hops)
        BY <3>2
      <4>2. QED
        BY <2>1, <3>3, <4>1 DEF Over, Last
    <3>5. p \in edges
      BY <1>3, <1>4, <2>1, <3>4 DEF Routes, Priced
    <3>6. t \in Ends(p)
      BY <1>5, <2>1, <3>2, <3>3 DEF Routed
    <3>7. PICK s \in Ends(p) : Behind(s, t)
      BY <1>5, <2>1, <3>2, <3>3 DEF Routed
    <3>8. s \in Tokens /\ prices[s] # None
      BY <3>7, Constants DEF Behind
    <3>9. Priced(s) /\ prices[s].hops = Front(prices[t].hops)
      BY <1>4, <1>6, <2>1, <3>7, <3>8 DEF Behind, Priced
    <3>10. Far(s) = k
      <4>1. Len(Front(prices[t].hops)) = Len(prices[t].hops) - 1
        BY <3>2 DEF Front
      <4>2. QED
        BY <3>1, <3>9, <4>1 DEF Far
    <3>11. s \in Near(edges, k)
      BY <1>8, <3>8, <3>9, <3>10
    <3>12. QED
      BY <3>5, <3>6, <3>7, <3>11 DEF Reach
  <2>4. QED
    BY <2>2, <2>3
<1> HIDE DEF Good
<1>9. Good(n)
  <2>1. SUFFICES ASSUME ~Good(n) PROVE FALSE
    OBVIOUS
  <2> DEFINE T == {k \in Nat : ~Good(k)}
  <2>2. T \in SUBSET Nat /\ T # {}
    BY <2>1
  <2>3. PICK k \in T : \A m \in T : k <= m
    BY <2>2, SmallestNat, Zenon
  <2>4. k \in Nat /\ ~Good(k) /\ k # 0
    BY <1>7, <2>3
  <2>5. k - 1 \in Nat /\ k - 1 < k /\ (k - 1) + 1 = k
    BY <2>4
  <2>6. Good(k - 1)
    BY <2>3, <2>5
  <2>7. Good((k - 1) + 1)
    BY <1>8, <2>5, <2>6, Zenon
  <2>8. QED
    BY <2>4, <2>5, <2>7
<1>10. QED
  BY <1>9 DEF Good, PricedWithin, Far, edges

\* Both tokens of a pool that was usable when the walk began have a price of it, or none.
LEMMA PricedTogether ==
    ASSUME PriceInv, Finished, NEW p \in usable
    PROVE  Cardinality({t \in Ends(p) : Priced(t)}) # 1
<1> DEFINE new == {t \in Ends(p) : Priced(t)}
<1>1. p \in PoolIds /\ Ends(p) \subseteq Tokens
  BY FinishedFacts, Constants
<1>2. PoolList[p].token0 # PoolList[p].token1
  BY <1>1, PricesAssumption
<1>3. CASE \E t \in Ends(p) : Priced(t)
  <2>1. PICK t \in Ends(p) : Priced(t)
    BY <1>3
  <2>2. t \in visited
    <3>1. walks \in Nat
      BY FinishedFacts, Constants DEF WalkTypes
    <3>2. QED
      BY <1>1, <2>1, <3>1, FinishedFacts DEF Priced
  <2>3. \A s \in Ends(p) : Priced(s)
    BY <2>2, FinishedFacts DEF Priced
  <2>4. PoolList[p].token0 \in new /\ PoolList[p].token1 \in new
    BY <2>3 DEF Ends
  <2>5. new \subseteq Tokens
    BY <1>1
  <2>6. IsFiniteSet(new)
    BY <2>5, TokensFinite
  <2>7. ~ \E s : new = {s}
    BY <1>2, <2>4
  <2>8. QED
    BY <2>6, <2>7, FS_Singleton
<1>4. CASE \A t \in Ends(p) : ~Priced(t)
  <2>1. new = {}
    BY <1>4
  <2>2. QED
    BY <2>1, FS_EmptySet
<1>5. QED
  BY <1>3, <1>4

LEMMA WalksComplete == PriceInv => WalkComplete
<1>1. SUFFICES ASSUME PriceInv, Finished
      PROVE  /\ \A t \in Tokens : prices[t] # None =>
                   Priced(t) \/ \E i \in DOMAIN prices[t].hops : prices[t].hops[i] \in skip
             /\ \A n \in 0..Cardinality(Tokens) :
                   /\ Near(usable, n) \subseteq PricedWithin(n)
                   /\ PricedWithin(n) \subseteq Near({p \in PoolIds \ skip : Usable(p)}, n)
             /\ \A i \in DOMAIN Tickers : Tickers[i] \in usable =>
                   Cardinality({t \in Ends(Tickers[i]) : Priced(t)}) # 1
  BY DEF WalkComplete, Finished
<1>2. \A t \in Tokens : prices[t] # None =>
         Priced(t) \/ \E i \in DOMAIN prices[t].hops : prices[t].hops[i] \in skip
  BY <1>1, LeftOver
<1>3. ASSUME NEW n \in 0..Cardinality(Tokens)
      PROVE  /\ Near(usable, n) \subseteq PricedWithin(n)
             /\ PricedWithin(n) \subseteq Near({p \in PoolIds \ skip : Usable(p)}, n)
  <2>1. Cardinality(Tokens) \in Nat
    BY PricesAssumption, FS_CardinalityType
  <2>2. n \in Nat
    BY <2>1
  <2>3. QED
    BY <1>1, <2>2, NearIsPriced, PricedIsNear
<1>4. \A i \in DOMAIN Tickers : Tickers[i] \in usable =>
         Cardinality({t \in Ends(Tickers[i]) : Priced(t)}) # 1
  BY <1>1, PricedTogether
<1>5. QED
  BY <1>2, <1>3, <1>4

\* Whatever requests, new and lost pools and crashes came in between: a walk that ends has
\* priced every token that can be reached over usable pools of its slice, along a route
\* with the fewest; a price it has left from an earlier walk was taken over a pool that is
\* lost; and no usable pool has one token of two priced (setTokensPriceAsUsd, Tickers).
THEOREM WalksAreComplete == Spec => []WalkComplete
<1>1. PriceInv => WalkComplete
  BY WalksComplete
<1>2. QED
  BY <1>1, PricesInvariant, PTL
=============================================================================
